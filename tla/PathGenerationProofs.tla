------------------------ MODULE PathGenerationProofs ------------------------
(***************************************************************************)
(* Proofs about the split control-flow graph and the path search of        *)
(* PathGeneration, for every set of control-flow graphs that satisfies     *)
(* CFGAssumption: first that states, waits and paths fit together, then    *)
(* (from ReachedIsLeast on) that the search finds every wait() and covers  *)
(* every state.                                                            *)
(***************************************************************************)
EXTENDS PathCoverage, TLAPS, FiniteSetTheorems, SequenceTheorems, WellFoundedInduction

(***************************************************************************)
(* A non-empty set of natural numbers has a least element: the next piece  *)
(* of a block and the next unvisited successor exist.                      *)
(***************************************************************************)
LEMMA NatMin ==
  ASSUME NEW T, T \subseteq Nat, T # {}
  PROVE  \E x \in T : \A y \in T : x <= y
<1> DEFINE R == {p \in Nat \X Nat : p[1] < p[2]}
<1>1. R = OpToRel(<, Nat)
  BY DEF OpToRel
<1>2. IsWellFoundedOn(R, Nat)
  BY <1>1, NatLessThanWellFounded, Zenon
<1>3. \A x, y \in Nat : y < x => <<y, x>> \in R
  OBVIOUS
<1> HIDE DEF R
<1>4. PICK x \in T : \A y \in T : ~ (<<y, x>> \in R)
  BY <1>2, WFMin, Zenon
<1>5. SUFFICES ASSUME NEW y \in T, y < x PROVE FALSE
  OBVIOUS
<1>6. <<y, x>> \in R
  BY <1>3, <1>5
<1> QED BY <1>4, <1>6

(***************************************************************************)
(* A non-empty set of numbers up to n has a largest element.               *)
(***************************************************************************)
LEMMA BoundedMax ==
  ASSUME NEW n \in Nat, NEW T, T \subseteq 0..n, T # {}
  PROVE  \E x \in T : \A y \in T : y <= x
<1> DEFINE U == {n - y : y \in T}
<1>1. U \subseteq Nat /\ U # {}
  <2>1. \A y \in T : n - y \in Nat
    OBVIOUS
  <2>2. U # {}
    <3>1. PICK y \in T : TRUE
      OBVIOUS
    <3> QED BY <3>1
  <2> QED BY <2>1, <2>2
<1>2. PICK u \in U : \A v \in U : u <= v
  BY <1>1, NatMin, Zenon
<1>3. PICK x \in T : u = n - x
  OBVIOUS
<1>4. ASSUME NEW y \in T PROVE y <= x
  <2>1. n - x <= n - y
    BY <1>2, <1>3
  <2> QED BY <2>1
<1> QED BY <1>4

(***************************************************************************)
(* Min of the library is the least element.                                *)
(***************************************************************************)
LEMMA MinInSet ==
  ASSUME NEW T, T \subseteq Nat, T # {}
  PROVE  Min(T) \in T /\ \A y \in T : Min(T) <= y
BY NatMin DEF Min

(***************************************************************************)
(* back() and pop_back() of a sequence that is not empty.                  *)
(***************************************************************************)
LEMMA FrontLast ==
  ASSUME NEW S, NEW s \in Seq(S), s # <<>>
  PROVE  /\ Front(s) \in Seq(S) /\ Last(s) \in S
         /\ Len(s) \in Nat \ {0} /\ Len(Front(s)) = Len(s) - 1 /\ Last(s) = s[Len(s)]
         /\ \A i \in 1..(Len(s) - 1) : Front(s)[i] = s[i]
<1>1. Len(s) \in Nat \ {0} /\ \A i \in 1..Len(s) : s[i] \in S
  BY EmptySeq, LenProperties
<1>2. Front(s) \in Seq(S) /\ Last(s) \in S /\ Last(s) = s[Len(s)]
  BY DEF Front, Last
<1>3. Len(Front(s)) = Len(s) - 1
  <2>1. PICK m \in Nat : Len(s) = m + 1
    BY <1>1
  <2>2. Len(s) - 1 = m /\ \A i \in 1..m : s[i] \in S
    BY <1>1, <2>1
  <2>3. Len(SubSeq(s, 1, m)) = m
    BY <2>1, <2>2, SubSeqProperties
  <2> QED BY <2>2, <2>3 DEF Front
<1>4. \A i \in 1..(Len(s) - 1) : Front(s)[i] = s[i]
  BY <1>1 DEF Front
<1> QED BY <1>1, <1>2, <1>3, <1>4

(***************************************************************************)
(* push_back, and that back() and pop_back() undo it.                      *)
(***************************************************************************)
LEMMA AppendFront ==
  ASSUME NEW S, NEW s \in Seq(S), NEW e \in S
  PROVE  /\ Append(s, e) \in Seq(S) /\ Append(s, e) # <<>> /\ Len(s) \in Nat
         /\ Len(Append(s, e)) = Len(s) + 1 /\ Last(Append(s, e)) = e
         /\ \A i \in 1..Len(s) : Append(s, e)[i] = s[i]
         /\ Append(s, e)[Len(s) + 1] = e /\ Front(Append(s, e)) = s
<1>1. /\ Append(s, e) \in Seq(S) /\ Append(s, e) # <<>> /\ Len(s) \in Nat
      /\ Len(Append(s, e)) = Len(s) + 1 /\ Last(Append(s, e)) = e
      /\ \A i \in 1..Len(s) : Append(s, e)[i] = s[i]
      /\ Append(s, e)[Len(s) + 1] = e
  BY DEF Last
<1>2. /\ Front(Append(s, e)) \in Seq(S) /\ Len(Front(Append(s, e))) = Len(s)
      /\ \A i \in 1..Len(s) : Front(Append(s, e))[i] = s[i]
  <2> DEFINE t == Append(s, e)
  <2>1. t \in Seq(S) /\ t # <<>> /\ Len(t) - 1 = Len(s)
    BY <1>1
  <2> HIDE DEF t
  <2>2. /\ Front(t) \in Seq(S) /\ Len(Front(t)) = Len(t) - 1
        /\ \A i \in 1..(Len(t) - 1) : Front(t)[i] = t[i]
    BY <2>1, FrontLast
  <2> QED BY <1>1, <2>1, <2>2 DEF t
<1>3. Front(Append(s, e)) = s
  BY <1>2, SeqEqual
<1> QED BY <1>1, <1>3
-----------------------------------------------------------------------------
(***************************************************************************)
(* splitBlock returns positions of the block; the first is 1.              *)
(***************************************************************************)
LEMMA SplitPositions ==
  ASSUME NEW elems \in Seq(Elements), NEW i \in splitBlock(elems)
  PROVE  /\ splitBlock(elems) \subseteq Nat \ {0} /\ 1 \in splitBlock(elems)
         /\ IsFiniteSet(splitBlock(elems))
         /\ LaterPieces(elems, i) \subseteq splitBlock(elems)
         /\ LaterPieces(elems, i) # {} => Min(LaterPieces(elems, i)) \in splitBlock(elems)
         /\ LaterPieces(elems, i) # {} => Min(LaterPieces(elems, i)) - 1 \in i..Len(elems)
<1>1. /\ splitBlock(elems) \subseteq Nat \ {0} /\ 1 \in splitBlock(elems)
      /\ splitBlock(elems) \subseteq 1..(Len(elems) + 1)
  BY DEF splitBlock
<1>2. IsFiniteSet(splitBlock(elems))
  <2>1. IsFiniteSet(1..(Len(elems) + 1))
    BY FS_Interval, Len(elems) + 1 \in Int, 1 \in Int
  <2> QED BY <1>1, <2>1, FS_Subset
<1>3. LaterPieces(elems, i) \subseteq splitBlock(elems)
  BY DEF LaterPieces
<1>4. ASSUME LaterPieces(elems, i) # {}
      PROVE  /\ Min(LaterPieces(elems, i)) \in splitBlock(elems)
             /\ Min(LaterPieces(elems, i)) - 1 \in i..Len(elems)
  <2>1. Min(LaterPieces(elems, i)) \in LaterPieces(elems, i)
    BY <1>1, <1>3, <1>4, MinInSet
  <2> QED BY <2>1, <1>1, <1>3 DEF LaterPieces
<1> QED BY <1>1, <1>2, <1>3, <1>4

(***************************************************************************)
(* A piece is made of elements of its block.                               *)
(***************************************************************************)
LEMMA PieceElementsType ==
  ASSUME NEW elems \in Seq(Elements), NEW i \in splitBlock(elems)
  PROVE  PieceElements(elems, i) \in Seq(Elements)
<1> DEFINE last == IF LaterPieces(elems, i) = {} THEN Len(elems)
                   ELSE Min(LaterPieces(elems, i)) - 1
<1>1. i \in Nat \ {0} /\ last \in Int /\ last <= Len(elems)
  <2>1. i \in Nat \ {0} /\ Len(elems) \in Nat
    BY SplitPositions, SMTT(30)
  <2>2. LaterPieces(elems, i) # {} => Min(LaterPieces(elems, i)) - 1 \in i..Len(elems)
    BY SplitPositions
  <2> QED BY <2>1, <2>2
<1> HIDE DEF last
<1>2. \A k \in i..last : elems[k] \in Elements
  BY <1>1
<1>3. i \in Int /\ last \in Int
  BY <1>1
<1>4. SubSeq(elems, i, last) \in Seq(Elements)
  BY <1>2, <1>3, SubSeqProperties, Zenon
<1> QED BY <1>4 DEF PieceElements, last

(***************************************************************************)
(* construct_sccfg builds a graph: every object has the fields of its type *)
(* and successors that exist.                                              *)
(***************************************************************************)
LEMMA SplitGraphType ==
  ASSUME NEW c, IsCFG(c)
  PROVE  SplitCFGBlocks(c) \in [Objects(c) -> SplitBlocks(Objects(c))]
<1> SUFFICES ASSUME NEW x \in Objects(c)
             PROVE  createWaitSplitCFGBlock(c, x) \in SplitBlocks(Objects(c))
  BY DEF SplitCFGBlocks
<1>a. PICK b \in BlockIDs(c) : x \in {<<b, j>> : j \in splitBlock(c.elems[b])}
  BY DEF Objects
<1>1. PICK i \in splitBlock(c.elems[b]) : x = <<b, i>>
  BY <1>a
<1> DEFINE elems == c.elems[b]
           later == LaterPieces(elems, i)
<1>2. elems \in Seq(Elements) /\ b \in Nat /\ c.succs[b] \in Seq(BlockIDs(c))
  BY DEF IsCFG
<1>3. \A k \in BlockIDs(c) : <<k, 1>> \in Objects(c)
  BY SplitPositions DEF Objects, IsCFG, splitBlock
<1>4. SplitID(c, x) \in Nat
  <2>1. IsFiniteSet({j \in splitBlock(elems) : j < i})
    BY <1>2, SplitPositions, FS_Subset
  <2>2. Cardinality({j \in splitBlock(elems) : j < i}) \in Nat
    BY <2>1, FS_CardinalityType
  <2> QED BY <1>1, <1>2, <2>2 DEF SplitID
<1>5. PieceElements(elems, i) \in Seq(Elements)
  BY <1>2, PieceElementsType
<1>6. (IF IsWaitPiece(elems, i) THEN getWaitArgument(elems[i]) ELSE 0) \in Int
  <2>1. i \in DOMAIN elems => elems[i] \in Elements
    BY <1>2
  <2>2. i \in DOMAIN elems => elems[i].n \in Int
    BY <2>1 DEF Elements
  <2> QED BY <2>2 DEF IsWaitPiece, getWaitArgument
<1>7. (IF later = {} THEN addSuccessors(c, b) ELSE << <<b, Min(later)>> >>) \in Seq(Objects(c))
  <2>1. CASE later = {}
    <3> DEFINE succs == c.succs[b]
    <3>a. DOMAIN succs = 1..Len(succs) /\ Len(succs) \in Nat
          /\ \A j \in 1..Len(succs) : succs[j] \in BlockIDs(c)
      BY <1>2
    <3>1. DOMAIN succs = 1..Len(succs) /\ Len(succs) \in Nat
          /\ \A j \in 1..Len(succs) : <<succs[j], 1>> \in Objects(c)
      BY <3>a, <1>3
    <3>2. addSuccessors(c, b) = [j \in 1..Len(succs) |-> <<succs[j], 1>>]
      BY <3>1 DEF addSuccessors
    <3> HIDE DEF succs
    <3>3. addSuccessors(c, b) \in Seq(Objects(c))
      BY <3>1, <3>2
    <3> QED BY <2>1, <3>3
  <2>2. CASE later # {}
    <3>1. Min(later) \in splitBlock(c.elems[b])
      BY <2>2, <1>2, SplitPositions
    <3>2. <<b, Min(later)>> \in Objects(c)
      BY <3>1 DEF Objects
    <3> QED BY <2>2, <3>2
  <2> QED BY <2>1, <2>2
<1>8. /\ IsWaitPiece(elems, i) \in BOOLEAN
      /\ (IsBranchTerm(c.term[b]) /\ (i = 1 \/ ~IsWaitPiece(elems, i))) \in BOOLEAN
      /\ (i = 1 /\ IsLoopWithTwoSucc(c, b)) \in BOOLEAN
  BY DEF IsWaitPiece, isElementWait, IsBranchTerm, IsLoopWithTwoSucc
<1> HIDE DEF elems, later
<1>9. x[1] = b /\ x[2] = i
  BY <1>1
<1> QED
  BY <1>2, <1>4, <1>5, <1>6, <1>7, <1>8, <1>9
  DEF createWaitSplitCFGBlock, SplitBlocks, elems, later

(***************************************************************************)
(* A block with a wait has exactly one successor: the rest of its CFG      *)
(* block or, for a wait that ends it, the only way on.                     *)
(***************************************************************************)
LEMMA WaitHasOneSuccessor ==
  ASSUME NEW c, IsCFG(c), NEW x \in Objects(c), SplitCFGBlocks(c)[x].hasWait
  PROVE  Len(SplitCFGBlocks(c)[x].successors) = 1
<1>1. PICK b \in BlockIDs(c) : x \in {<<b, j>> : j \in splitBlock(c.elems[b])}
  BY DEF Objects
<1>2. PICK i \in splitBlock(c.elems[b]) : x = <<b, i>>
  BY <1>1
<1> DEFINE elems == c.elems[b]
           later == LaterPieces(elems, i)
<1>3. elems \in Seq(Elements) /\ c.succs[b] \in Seq(BlockIDs(c))
  BY DEF IsCFG
<1>4. /\ SplitCFGBlocks(c)[x].hasWait = IsWaitPiece(elems, i)
      /\ SplitCFGBlocks(c)[x].successors =
           IF later = {} THEN addSuccessors(c, b) ELSE << <<b, Min(later)>> >>
  BY <1>2 DEF SplitCFGBlocks, createWaitSplitCFGBlock
<1>5. i \in 1..Len(elems) /\ isElementWait(elems[i])
  <2>1. IsWaitPiece(elems, i)
    BY <1>4, Zenon
  <2>2. i \in DOMAIN elems /\ isElementWait(elems[i])
    BY <2>1 DEF IsWaitPiece
  <2> QED BY <1>3, <2>2
<1>6. CASE later = {}
  <2>1. i = Len(elems)
    <3> SUFFICES ASSUME i < Len(elems) PROVE FALSE
      BY <1>3, <1>5
    <3>1. i + 1 \in DOMAIN elems /\ i + 1 > 1 /\ isElementWait(elems[i + 1 - 1]) /\ i + 1 > i
      BY <1>3, <1>5
    <3>2. i + 1 \in splitBlock(elems)
      BY <3>1 DEF splitBlock
    <3> QED BY <1>6, <3>1, <3>2 DEF LaterPieces
  <2>2. elems # <<>> /\ isElementWait(Last(elems))
    BY <1>3, <1>5, <2>1 DEF Last
  <2>3. Len(c.succs[b]) = 1
    BY <2>2 DEF IsCFG
  <2>4. DOMAIN c.succs[b] = 1..1
    BY <1>3, <2>3
  <2>5. addSuccessors(c, b) = [j \in 1..1 |-> <<c.succs[b][j], 1>>]
    BY <2>4 DEF addSuccessors
  <2>6. Len(addSuccessors(c, b)) = 1
    BY <2>5
  <2> QED BY <1>4, <1>6, <2>6
<1>7. CASE later # {}
  BY <1>4, <1>7
<1> QED BY <1>6, <1>7

(***************************************************************************)
(* sccfg_ finds the entry: no piece can take the place of a CFG block.     *)
(***************************************************************************)
LEMMA EntryInMap ==
  ASSUME NEW c, IsCFG(c)
  PROVE  SccfgMap(SplitCFGBlocks(c))[c.entry] \in Objects(c)
<1> DEFINE blks == SplitCFGBlocks(c)
           x == <<c.entry, 1>>
<1>1. DOMAIN blks = Objects(c) /\ \A y \in Objects(c) : blks[y].id = SplitID(c, y)
  BY DEF SplitCFGBlocks, createWaitSplitCFGBlock
<1>2. x \in Objects(c) /\ blks[x].id = c.entry
  <2>1. c.entry \in BlockIDs(c) /\ 1 \in splitBlock(c.elems[c.entry])
    BY DEF IsCFG, splitBlock
  <2>2. x \in Objects(c)
    BY <2>1 DEF Objects
  <2> QED BY <1>1, <2>2 DEF SplitID
<1>3. ASSUME NEW y \in Objects(c), blks[y].id = c.entry, y # x
      PROVE  InsertedBefore(x, y)
  <2>1. PICK b \in BlockIDs(c) : y \in {<<b, j>> : j \in splitBlock(c.elems[b])}
    BY DEF Objects
  <2>2. PICK i \in splitBlock(c.elems[b]) : y = <<b, i>>
    BY <2>1
  <2>3. i \in Nat \ {0}
    BY SplitPositions DEF IsCFG
  <2>4. i # 1
    BY <1>1, <1>3, <2>2 DEF SplitID
  <2> QED BY <2>2, <2>3, <2>4 DEF InsertedBefore
<1> HIDE DEF blks
<1>4. c.entry \in {blks[y].id : y \in DOMAIN blks}
  BY <1>1, <1>2
<1>5. SccfgMap(blks)[c.entry] =
        CHOOSE y \in DOMAIN blks :
          /\ blks[y].id = c.entry
          /\ \A z \in DOMAIN blks : blks[z].id = c.entry /\ z # y => InsertedBefore(y, z)
  BY <1>4 DEF SccfgMap
<1>6. SccfgMap(blks)[c.entry] \in Objects(c)
  BY <1>1, <1>2, <1>3, <1>5
<1> QED BY <1>6 DEF blks
-----------------------------------------------------------------------------
GraphTyped == blocks \in [B -> SplitBlocks(B)]
RetTyped == ret \in [path : Seq(B), visited : SUBSET B]

\* Frames of the right type on whose stacks every wait is fresh.
FreshFrames(fs) == fs \in Seq(Frames(B)) /\ \A i \in DOMAIN fs : Fresh(fs[i])

\* The frames fs of the calls under way when control is at p.
StackOK(fs, p) ==
  /\ FreshFrames(fs) /\ p \in {"visit", "return"}
  /\ p = "visit" => fs # <<>> /\ NotAtWait(Front(fs))
  /\ p = "return" => NotAtWait(fs)

(***************************************************************************)
(* getUnvisitedSuccessor moves on to a block of the graph.                 *)
(***************************************************************************)
LEMMA UnvisitedType ==
  ASSUME GraphTyped, NEW x \in B, NEW it \in Nat \ {0}, NEW visited \in SUBSET B,
         NEW bb \in B
  PROVE  getUnvisitedSuccessor(x, it, visited, bb) \in
           [found : BOOLEAN, it : Nat \ {0}, visited : SUBSET B, bb : B]
<1> DEFINE s == blocks[x].successors
           fresh == {j \in it..Len(s) : s[j] \notin visited}
           j == CHOOSE j \in fresh : \A k \in fresh : j <= k
<1>1. s \in Seq(B)
  BY DEF GraphTyped, SplitBlocks
<1>2. CASE fresh # {}
  <2>1. fresh \subseteq Nat
    OBVIOUS
  <2>2. j \in fresh
    BY <1>2, <2>1, NatMin
  <2>3. j \in it..Len(s)
    BY <2>2
  <2> HIDE DEF j
  <2>4. s[j] \in B /\ j + 1 \in Nat \ {0}
    BY <1>1, <2>3
  <2> QED BY <1>2, <2>4 DEF getUnvisitedSuccessor, j
<1>3. CASE fresh = {}
  <2>1. it <= Len(s) => s[Len(s)] \in B /\ Len(s) + 1 \in Nat \ {0}
    BY <1>1
  <2> QED BY <1>3, <2>1 DEF getUnvisitedSuccessor
<1> QED BY <1>2, <1>3

(***************************************************************************)
(* At a fresh wait the first call finds the place the thread resumes at,   *)
(* and the second nothing: the search does not go past the wait.           *)
(***************************************************************************)
LEMMA UnvisitedOfWait ==
  ASSUME NEW x \in B, NEW visited \in SUBSET B, NEW bb \in B,
         Len(blocks[x].successors) = 1
  PROVE  /\ getUnvisitedSuccessor(x, 1, visited, bb).bb = blocks[x].successors[1]
         /\ getUnvisitedSuccessor(x, 1, visited, bb).it = 2
         /\ getUnvisitedSuccessor(x, 2, visited, bb).found = FALSE
<1> DEFINE s == blocks[x].successors
<1>1. 1..Len(s) = {1} /\ 2..Len(s) = {} /\ 1 <= Len(s) /\ s[Len(s)] = s[1] /\ Len(s) + 1 = 2
  OBVIOUS
<1> DEFINE fresh == {j \in 1..Len(s) : s[j] \notin visited}
<1>2. CASE fresh = {}
  BY <1>1, <1>2 DEF getUnvisitedSuccessor
<1>3. CASE fresh # {}
  <2>1. fresh = {1}
    BY <1>1, <1>3
  <2>2. (CHOOSE j \in fresh : \A k \in fresh : j <= k) = 1
    BY <2>1
  <2> QED BY <1>1, <1>3, <2>2 DEF getUnvisitedSuccessor
<1>4. {j \in 2..Len(s) : s[j] \notin visited} = {}
  BY <1>1
<1>5. getUnvisitedSuccessor(x, 2, visited, bb).found = FALSE
  BY <1>4 DEF getUnvisitedSuccessor
<1> QED BY <1>2, <1>3, <1>5

(***************************************************************************)
(* A call of dfs_visit_wait either pushes a frame for its block, or        *)
(* returns at once because the block has no successor.                     *)
(***************************************************************************)
LEMMA CallEffect ==
  ASSUME GraphTyped, RetTyped, popping \in BOOLEAN, NEW fs, FreshFrames(fs), NotAtWait(fs),
         NEW x \in B, NEW visited \in SUBSET B, Call(fs, x, visited)
  PROVE  /\ StackOK(frames', pc') /\ ret' \in [path : Seq(B), visited : SUBSET B]
         /\ popping' \in BOOLEAN
         /\ \/ /\ pc' = "return" /\ frames' = fs /\ blocks[x].successors = <<>>
            \/ /\ pc' = "visit" /\ frames' # <<>> /\ popping' = FALSE
               /\ Last(Last(frames').toVisit).block = x /\ blocks[x].successors # <<>>
<1>1. CASE blocks[x].successors = <<>>
  <2>1. frames' = fs /\ pc' = "return" /\ popping' = popping
    BY <1>1 DEF Call
  <2>2. ret' = [path |-> <<>>, visited |-> visited]
    BY <1>1 DEF Call
  <2>3. ret' \in [path : Seq(B), visited : SUBSET B]
    BY <2>2
  <2> QED BY <1>1, <2>1, <2>3 DEF StackOK
<1>2. CASE blocks[x].successors # <<>>
  <2> DEFINE e == [block |-> x, it |-> 1]
             f == [bb |-> x, visited |-> visited \cup {x}, toVisit |-> <<e>>,
                   local |-> <<>>, saved |-> {}, id |-> 0, branch |-> "none"]
  <2>1. e \in StackEntries(B)
    BY DEF StackEntries
  <2>2. <<e>> \in Seq(StackEntries(B)) \ {<<>>}
    BY <2>1
  <2>3. <<>> \in Seq(B)
    OBVIOUS
  <2>4. f \in Frames(B)
    BY <2>2, <2>3 DEF Frames
  <2>5. Fresh(f)
    BY DEF Fresh
  <2>6. Last(f.toVisit).block = x
    BY DEF Last
  <2>7. frames' = Append(fs, f) /\ pc' = "visit" /\ popping' = FALSE /\ ret' = ret
    BY <1>2 DEF Call
  <2> HIDE DEF f
  <2>8. FreshFrames(frames') /\ frames' # <<>> /\ Last(frames') = f /\ Front(frames') = fs
    BY <2>4, <2>5, <2>7, AppendFront DEF FreshFrames
  <2> QED BY <1>2, <2>6, <2>7, <2>8 DEF RetTyped, StackOK
<1> QED BY <1>1, <1>2

(***************************************************************************)
(* The end of an iteration goes down to the successor found, pops the      *)
(* block just visited, or returns when that was the last one.  A wait is   *)
(* popped: below the top of the stack every wait is fresh, and so it is in *)
(* the stack that is left.                                                 *)
(***************************************************************************)
LEMMA LoopEndEffect ==
  ASSUME GraphTyped, RetTyped, FreshFrames(frames), frames # <<>>, NotAtWait(Front(frames)),
         NEW f \in Frames(B), NEW hasWait \in BOOLEAN, NEW found \in BOOLEAN,
         \A j \in 1..(Len(f.toVisit) - 1) :
            blocks[f.toVisit[j].block].hasWait => f.toVisit[j].it = 1,
         hasWait = blocks[Last(f.toVisit).block].hasWait,
         addSuccessorToVisitOrPop(f, hasWait, found)
  PROVE  /\ StackOK(frames', pc') /\ ret' \in [path : Seq(B), visited : SUBSET B]
         /\ popping' \in BOOLEAN
<1> DEFINE S == StackEntries(B)
           down == found /\ ~hasWait
           e == [block |-> f.bb, it |-> 1]
           tv == IF down THEN Append(f.toVisit, e) ELSE Front(f.toVisit)
           f2 == [f EXCEPT !.toVisit = tv]
<1>1. /\ f.toVisit \in Seq(S) /\ f.toVisit # <<>> /\ f.bb \in B /\ f.local \in Seq(B)
      /\ f.visited \in SUBSET B
  BY DEF Frames
<1>2. e \in S
  BY <1>1 DEF StackEntries
<1> HIDE DEF S, e
<1>3. Front(frames) \in Seq(Frames(B)) /\ Len(Front(frames)) = Len(frames) - 1
      /\ \A i \in 1..(Len(frames) - 1) : Front(frames)[i] = frames[i]
  BY FrontLast DEF FreshFrames
<1>4. FreshFrames(Front(frames))
  <2>1. DOMAIN Front(frames) = 1..(Len(frames) - 1) /\ DOMAIN frames = 1..Len(frames)
        /\ Len(frames) \in Nat
    BY <1>3, SMTT(30) DEF FreshFrames
  <2> QED BY <1>3, <2>1 DEF FreshFrames
<1>5. tv \in Seq(S) /\ \A j \in DOMAIN tv : blocks[tv[j].block].hasWait => tv[j].it = 1
  <2>1. CASE down
    <3>1. tv = Append(f.toVisit, e)
      BY <2>1
    <3> HIDE DEF tv
    <3>2. tv \in Seq(S) /\ Len(tv) = Len(f.toVisit) + 1 /\ Len(f.toVisit) \in Nat
          /\ \A i \in 1..Len(f.toVisit) : tv[i] = f.toVisit[i]
      BY <1>1, <1>2, <3>1, AppendFront
    <3>3. tv[Len(f.toVisit) + 1] = e
      BY <1>1, <1>2, <3>1, AppendFront
    <3>4. Last(f.toVisit) = f.toVisit[Len(f.toVisit)] /\ Len(f.toVisit) \in Nat \ {0}
      BY <1>1, FrontLast
    <3>5. ~blocks[f.toVisit[Len(f.toVisit)].block].hasWait
      BY <2>1, <3>4
    <3>6. ASSUME NEW j \in DOMAIN tv, blocks[tv[j].block].hasWait PROVE tv[j].it = 1
      <4>1. j \in 1..(Len(f.toVisit) + 1)
        BY <3>2
      <4>2. CASE j = Len(f.toVisit) + 1
        BY <3>3, <4>2 DEF e
      <4>3. CASE j = Len(f.toVisit)
        BY <3>2, <3>4, <3>5, <3>6, <4>3
      <4>4. CASE j \in 1..(Len(f.toVisit) - 1)
        BY <3>2, <3>4, <3>6, <4>4
      <4> QED BY <3>2, <4>1, <4>2, <4>3, <4>4
    <3> QED BY <3>2, <3>6
  <2>2. CASE ~down
    <3>1. tv = Front(f.toVisit)
      BY <2>2
    <3>2. tv \in Seq(S) /\ Len(tv) = Len(f.toVisit) - 1
          /\ \A i \in 1..(Len(f.toVisit) - 1) : tv[i] = f.toVisit[i]
      BY <1>1, <3>1, FrontLast
    <3> HIDE DEF tv
    <3>3. DOMAIN tv = 1..(Len(f.toVisit) - 1)
      BY <3>2
    <3> QED BY <3>2, <3>3
  <2> QED BY <2>1, <2>2
<1>6. popping' = ~down
  BY DEF addSuccessorToVisitOrPop
<1>7. CASE tv = <<>>
  <2>1. frames' = Front(frames) /\ pc' = "return"
        /\ ret' = [path |-> f.local, visited |-> f.visited]
    BY <1>7 DEF addSuccessorToVisitOrPop, e
  <2>2. ret' \in [path : Seq(B), visited : SUBSET B]
    BY <1>1, <2>1
  <2> QED BY <1>4, <1>6, <2>1, <2>2 DEF StackOK
<1>8. CASE tv # <<>>
  <2>1. frames' = Append(Front(frames), f2) /\ pc' = "visit" /\ ret' = ret
    BY <1>8 DEF addSuccessorToVisitOrPop, e
  <2> HIDE DEF tv
  <2>2. f2 \in Frames(B) /\ f2.toVisit = tv
    BY <1>5, <1>8 DEF Frames, S
  <2>3. Fresh(f2)
    BY <1>5, <2>2 DEF Fresh
  <2> HIDE DEF f2
  <2>4. FreshFrames(frames') /\ frames' # <<>> /\ Front(frames') = Front(frames)
    BY <1>4, <2>1, <2>2, <2>3, AppendFront DEF FreshFrames
  <2> QED BY <1>6, <2>1, <2>4 DEF RetTyped, StackOK
<1> QED BY <1>7, <1>8

(***************************************************************************)
(* While the search runs the graph is the one construct_sccfg built.       *)
(***************************************************************************)
LEMMA SearchGraph ==
  ASSUME TypeOK, GraphFixed, pc \in {"visit", "return"}
  PROVE  /\ GraphTyped /\ RetTyped
         /\ \A x \in B : blocks[x].hasWait \in BOOLEAN
         /\ \A x \in B : blocks[x].hasWait =>
              Len(blocks[x].successors) = 1 /\ blocks[x].successors[1] \in B
<1>1. GraphTyped /\ RetTyped
  BY DEF TypeOK, GraphTyped, RetTyped
<1>2. \A x \in B : blocks[x].hasWait \in BOOLEAN /\ blocks[x].successors \in Seq(B)
  BY <1>1 DEF GraphTyped, SplitBlocks
<1>3. blocks = SplitCFGBlocks(cfg) /\ IsCFG(cfg) /\ B = Objects(cfg)
  BY DEF TypeOK, GraphFixed, B, SplitCFGBlocks
<1>4. ASSUME NEW x \in B, blocks[x].hasWait PROVE Len(blocks[x].successors) = 1
  BY <1>3, <1>4, WaitHasOneSuccessor
<1>5. ASSUME NEW x \in B, blocks[x].hasWait PROVE blocks[x].successors[1] \in B
  BY <1>2, <1>4, <1>5
<1> QED BY <1>1, <1>2, <1>4, <1>5

(***************************************************************************)
(* Moving the iterator of the top of a stack leaves the entries below.     *)
(***************************************************************************)
LEMMA TopReplaced ==
  ASSUME NEW f \in Frames(B), Fresh(f), NEW e \in StackEntries(B), NEW tv,
         tv = Append(Front(f.toVisit), e)
  PROVE  /\ tv \in Seq(StackEntries(B)) \ {<<>>} /\ Last(tv) = e
         /\ \A j \in 1..(Len(tv) - 1) : blocks[tv[j].block].hasWait => tv[j].it = 1
         /\ ~blocks[e.block].hasWait =>
              \A j \in DOMAIN tv : blocks[tv[j].block].hasWait => tv[j].it = 1
<1> DEFINE S == StackEntries(B)
           u == f.toVisit
<1>1. u \in Seq(S) /\ u # <<>> /\ \A j \in DOMAIN u : blocks[u[j].block].hasWait => u[j].it = 1
  BY DEF Frames, Fresh
<1> HIDE DEF S
<1>2. /\ Front(u) \in Seq(S) /\ Len(u) \in Nat \ {0} /\ Len(Front(u)) = Len(u) - 1
      /\ \A i \in 1..(Len(u) - 1) : Front(u)[i] = u[i]
  BY <1>1, FrontLast
<1>3. e \in S
  BY DEF S
<1> HIDE DEF u
<1>4. /\ tv \in Seq(S) /\ tv # <<>> /\ Last(tv) = e /\ Len(tv) = Len(Front(u)) + 1
      /\ tv[Len(Front(u)) + 1] = e
      /\ \A i \in 1..Len(Front(u)) : tv[i] = Front(u)[i]
  BY <1>2, <1>3, AppendFront DEF u
<1>5. Len(tv) = Len(u) /\ tv[Len(tv)] = e /\ \A i \in 1..(Len(tv) - 1) : tv[i] = u[i]
  BY <1>2, <1>4
<1>6. DOMAIN u = 1..Len(u) /\ DOMAIN tv = 1..Len(tv)
  BY <1>1, <1>4
<1>7. \A j \in 1..(Len(tv) - 1) : blocks[tv[j].block].hasWait => tv[j].it = 1
  BY <1>1, <1>2, <1>5, <1>6
<1>8. ASSUME ~blocks[e.block].hasWait, NEW j \in DOMAIN tv, blocks[tv[j].block].hasWait
      PROVE  tv[j].it = 1
  <2>1. j = Len(tv) \/ j \in 1..(Len(tv) - 1)
    BY <1>2, <1>5, <1>6
  <2> QED BY <2>1, <1>5, <1>7, <1>8
<1> QED BY <1>4, <1>7, <1>8 DEF S

(***************************************************************************)
(* A recursive call made at a block that does not wait.                    *)
(***************************************************************************)
LEMMA RecurseEffect ==
  ASSUME GraphTyped, RetTyped, popping \in BOOLEAN, FreshFrames(frames), frames # <<>>,
         NotAtWait(Front(frames)), NEW f \in Frames(B), Fresh(f), NEW x \in B,
         ~blocks[Last(f.toVisit).block].hasWait, Recurse(f, x)
  PROVE  /\ StackOK(frames', pc') /\ ret' \in [path : Seq(B), visited : SUBSET B]
         /\ popping' \in BOOLEAN
<1> DEFINE f2 == [f EXCEPT !.branch = BranchOf(x, f.bb)]
           fs == Append(Front(frames), f2)
<1>1. Front(frames) \in Seq(Frames(B)) /\ Len(Front(frames)) = Len(frames) - 1
      /\ Len(frames) \in Nat \ {0}
      /\ \A i \in 1..(Len(frames) - 1) : Front(frames)[i] = frames[i]
  BY FrontLast DEF FreshFrames
<1>2. FreshFrames(Front(frames))
  <2>1. DOMAIN Front(frames) = 1..(Len(frames) - 1) /\ DOMAIN frames = 1..Len(frames)
    BY <1>1 DEF FreshFrames
  <2> QED BY <1>1, <2>1 DEF FreshFrames
<1>3. BranchOf(x, f.bb) \in {"none", "true", "false"}
  BY DEF BranchOf
<1>4. f2 \in Frames(B) /\ f2.toVisit = f.toVisit
  BY <1>3 DEF Frames
<1>5. Fresh(f2)
  BY <1>4 DEF Fresh
<1>6. ~blocks[Last(f2.toVisit).block].hasWait
  BY <1>4
<1>7. f.bb \in B /\ f.saved \cup {x} \in SUBSET B
  BY DEF Frames
<1>8. Call(fs, f.bb, f.saved \cup {x})
  BY DEF Recurse
<1> HIDE DEF f2
<1>9. /\ fs \in Seq(Frames(B)) /\ Len(fs) = Len(Front(frames)) + 1
      /\ fs[Len(Front(frames)) + 1] = f2 /\ Len(Front(frames)) \in Nat
      /\ \A i \in 1..Len(Front(frames)) : fs[i] = Front(frames)[i]
  BY <1>2, <1>4, AppendFront DEF FreshFrames
<1> HIDE DEF fs
<1>10. DOMAIN fs = 1..(Len(Front(frames)) + 1)
       /\ DOMAIN Front(frames) = 1..Len(Front(frames))
  BY <1>2, <1>9 DEF FreshFrames
<1>11. FreshFrames(fs)
  BY <1>2, <1>5, <1>9, <1>10 DEF FreshFrames
<1>12. NotAtWait(fs)
  BY <1>6, <1>9, <1>10 DEF NotAtWait
<1> QED BY <1>7, <1>8, <1>11, <1>12, CallEffect

\* The part of the invariant about the calls of dfs_visit_wait.
SearchInv == TypeOK /\ GraphFixed /\ WaitsAreFresh /\ CallersNotAtWait

\* The block the innermost call is at.
Top == Last(Last(frames).toVisit).block

(***************************************************************************)
(* back() of the stacks is there, and a wait there has not been visited.   *)
(***************************************************************************)
LEMMA TopOfStack ==
  ASSUME SearchInv, frames # <<>>
  PROVE  /\ FreshFrames(frames) /\ Last(frames) \in Frames(B) /\ Fresh(Last(frames))
         /\ Last(Last(frames).toVisit) \in StackEntries(B) /\ Top \in B
         /\ blocks[Top].hasWait => Last(Last(frames).toVisit).it = 1
<1> DEFINE f == Last(frames)
<1>1. FreshFrames(frames)
  BY DEF SearchInv, TypeOK, WaitsAreFresh, FreshFrames
<1>2. f \in Frames(B) /\ f = frames[Len(frames)] /\ Len(frames) \in Nat \ {0}
  BY <1>1, FrontLast DEF FreshFrames
<1>3. Fresh(f)
  BY <1>1, <1>2 DEF FreshFrames
<1> HIDE DEF f
<1>4. f.toVisit \in Seq(StackEntries(B)) /\ f.toVisit # <<>>
  BY <1>2 DEF Frames
<1>5. Last(f.toVisit) \in StackEntries(B) /\ Last(f.toVisit) = f.toVisit[Len(f.toVisit)]
      /\ Len(f.toVisit) \in Nat \ {0}
  BY <1>4, FrontLast
<1>6. Last(f.toVisit).block \in B
  BY <1>5 DEF StackEntries
<1>7. blocks[Last(f.toVisit).block].hasWait => Last(f.toVisit).it = 1
  BY <1>3, <1>4, <1>5 DEF Fresh
<1> QED BY <1>1, <1>2, <1>3, <1>5, <1>6, <1>7 DEF f, Top

(***************************************************************************)
(* One iteration of dfs_visit_wait: a wait that has no number yet gets the *)
(* next one and resumes at its only successor.                             *)
(***************************************************************************)
LEMMA VisitEffect ==
  ASSUME SearchInv, Visit
  PROVE  /\ StackOK(frames', pc') /\ ret' \in [path : Seq(B), visited : SUBSET B]
         /\ popping' \in BOOLEAN /\ Top \in B
         /\ currPath' = IF popping THEN currPath
                        ELSE Append(currPath, [block |-> Top, pathIdx |-> Len(currPath),
                                               falseIdx |-> 0])
         /\ IF blocks[Top].hasWait
              THEN RegisterWait(Top, blocks[Top].successors[1])
                   /\ blocks[Top].successors[1] \in B
              ELSE UNCHANGED numbering
         /\ UNCHANGED <<graph, results>>
<1> DEFINE f  == Last(frames)
           t  == Last(f.toVisit)
           x  == t.block
           w  == IF blocks[x].hasWait
                   THEN getUnvisitedSuccessor(x, t.it, f.visited, f.bb)
                   ELSE [found |-> FALSE, it |-> t.it, visited |-> f.visited, bb |-> f.bb]
           s  == getUnvisitedSuccessor(x, w.it, w.visited, w.bb)
           e  == [block |-> x, it |-> s.it]
           tv == Append(Front(f.toVisit), e)
           loc == IF popping THEN f.local ELSE Append(f.local, x)
           idx == IF popping THEN 0 ELSE Len(currPath) + 1
           f1 == [f EXCEPT !.bb = s.bb, !.visited = s.visited, !.saved = w.visited,
                           !.toVisit = tv, !.local = loc, !.id = idx]
           Step == [found : BOOLEAN, it : Nat \ {0}, visited : SUBSET B, bb : B]
<1>1. pc = "visit" /\ frames # <<>> /\ popping \in BOOLEAN /\ Len(currPath) \in Nat
  <2>1. pc = "visit"
    BY DEF Visit
  <2>2. popping \in BOOLEAN /\ frames # <<>> /\ currPath \in Seq(PathEntries(B))
    BY <2>1 DEF SearchInv, TypeOK
  <2> QED BY <2>1, <2>2
<1>2. /\ GraphTyped /\ RetTyped
      /\ \A y \in B : blocks[y].hasWait \in BOOLEAN
      /\ \A y \in B : blocks[y].hasWait =>
           Len(blocks[y].successors) = 1 /\ blocks[y].successors[1] \in B
  BY <1>1, SearchGraph DEF SearchInv
<1>3. NotAtWait(Front(frames))
  BY <1>1 DEF SearchInv, CallersNotAtWait
<1>4. FreshFrames(frames) /\ f \in Frames(B) /\ Fresh(f) /\ t \in StackEntries(B)
      /\ x \in B /\ x = Top /\ (blocks[x].hasWait => t.it = 1)
  BY <1>1, TopOfStack DEF Top
<1>5. /\ currPath' = IF popping THEN currPath
                     ELSE Append(currPath, [block |-> x, pathIdx |-> Len(currPath),
                                            falseIdx |-> 0])
      /\ IF blocks[x].hasWait THEN RegisterWait(x, w.bb) ELSE UNCHANGED numbering
      /\ IF isSpecial(cfg, blocks, x) /\ s.found
           THEN Recurse(f1, x)
           ELSE addSuccessorToVisitOrPop(f1, blocks[x].hasWait, s.found)
      /\ UNCHANGED <<graph, results>>
  BY DEF Visit
<1> HIDE DEF f, t
<1>6. f.visited \in SUBSET B /\ f.bb \in B /\ f.local \in Seq(B) /\ f.saved \in SUBSET B
      /\ t.it \in Nat \ {0} /\ f.branch \in {"none", "true", "false"}
  BY <1>4 DEF Frames, StackEntries
<1> HIDE DEF x
<1>7. w \in Step
  <2>1. CASE blocks[x].hasWait
    <3>1. w = getUnvisitedSuccessor(x, t.it, f.visited, f.bb)
      BY <2>1
    <3> QED BY <1>2, <1>4, <1>6, <3>1, UnvisitedType
  <2>2. CASE ~blocks[x].hasWait
    BY <1>6, <2>2
  <2> QED BY <2>1, <2>2
<1>8. blocks[x].hasWait =>
        w.bb = blocks[x].successors[1] /\ s.found = FALSE /\ blocks[x].successors[1] \in B
  <2> SUFFICES ASSUME blocks[x].hasWait
               PROVE  w.bb = blocks[x].successors[1] /\ s.found = FALSE
                      /\ blocks[x].successors[1] \in B
    OBVIOUS
  <2>1. Len(blocks[x].successors) = 1 /\ t.it = 1 /\ blocks[x].successors[1] \in B
    BY <1>2, <1>4
  <2>2. w = getUnvisitedSuccessor(x, 1, f.visited, f.bb)
    BY <2>1
  <2> HIDE DEF w, Step
  <2>3. /\ getUnvisitedSuccessor(x, 1, f.visited, f.bb).bb = blocks[x].successors[1]
        /\ getUnvisitedSuccessor(x, 1, f.visited, f.bb).it = 2
    <3>1. Len(blocks[x].successors) = 1
      BY <2>1
    <3> QED BY <1>4, <1>6, <3>1, UnvisitedOfWait, ZenonT(30)
  <2>4. w.visited \in SUBSET B /\ w.bb \in B
    BY <1>7 DEF Step
  <2>5. getUnvisitedSuccessor(x, 2, w.visited, w.bb).found = FALSE
    <3>1. Len(blocks[x].successors) = 1
      BY <2>1
    <3> QED BY <1>4, <2>4, <3>1, UnvisitedOfWait
  <2>6. w.bb = blocks[x].successors[1] /\ w.it = 2
    BY <2>2, <2>3
  <2> QED BY <2>1, <2>5, <2>6
<1> HIDE DEF w
<1>9. w.it \in Nat \ {0} /\ w.visited \in SUBSET B /\ w.bb \in B
  BY <1>7
<1>10. s \in Step
  BY <1>2, <1>4, <1>9, UnvisitedType
<1> HIDE DEF s
<1>11. s.found \in BOOLEAN /\ s.it \in Nat \ {0} /\ s.visited \in SUBSET B /\ s.bb \in B
  BY <1>10
<1>12. e \in StackEntries(B) /\ e.block = x
  BY <1>4, <1>11 DEF StackEntries
<1> HIDE DEF e
<1>13. /\ tv \in Seq(StackEntries(B)) \ {<<>>} /\ Last(tv) = e
       /\ \A j \in 1..(Len(tv) - 1) : blocks[tv[j].block].hasWait => tv[j].it = 1
       /\ ~blocks[x].hasWait =>
            \A j \in DOMAIN tv : blocks[tv[j].block].hasWait => tv[j].it = 1
  BY <1>4, <1>12, TopReplaced
<1>14. loc \in Seq(B)
  BY <1>4, <1>6
<1>15. idx \in Nat
  BY <1>1
<1> HIDE DEF tv, loc, idx
<1>16. f1 \in Frames(B) /\ f1.toVisit = tv
  BY <1>4, <1>9, <1>11, <1>13, <1>14, <1>15 DEF Frames
<1> HIDE DEF f1
<1>17. StackOK(frames', pc') /\ ret' \in [path : Seq(B), visited : SUBSET B]
       /\ popping' \in BOOLEAN
  <2>1. CASE isSpecial(cfg, blocks, x) /\ s.found
    <3>1. ~blocks[x].hasWait /\ Recurse(f1, x)
      BY <1>2, <1>4, <1>5, <1>8, <2>1
    <3>2. Fresh(f1)
      BY <1>13, <1>16, <3>1 DEF Fresh
    <3>3. ~blocks[Last(f1.toVisit).block].hasWait
      BY <1>12, <1>13, <1>16, <3>1
    <3> QED BY <1>1, <1>2, <1>3, <1>4, <1>16, <3>1, <3>2, <3>3, RecurseEffect
  <2>2. CASE ~(isSpecial(cfg, blocks, x) /\ s.found)
    <3>1. addSuccessorToVisitOrPop(f1, blocks[x].hasWait, s.found)
      BY <1>5, <2>2
    <3>2. blocks[x].hasWait = blocks[Last(f1.toVisit).block].hasWait
      BY <1>12, <1>13, <1>16
    <3>3. \A j \in 1..(Len(f1.toVisit) - 1) :
            blocks[f1.toVisit[j].block].hasWait => f1.toVisit[j].it = 1
      BY <1>13, <1>16
    <3>4. blocks[x].hasWait \in BOOLEAN
      BY <1>2, <1>4
    <3> QED BY <1>1, <1>2, <1>3, <1>4, <1>11, <1>16, <3>1, <3>2, <3>3, <3>4, LoopEndEffect
  <2> QED BY <2>1, <2>2
<1> QED BY <1>4, <1>5, <1>8, <1>17

(***************************************************************************)
(* After a recursive call has returned the caller tries its next successor *)
(* or ends its iteration; the path keeps its blocks, whatever false_idx_   *)
(* becomes.                                                                *)
(***************************************************************************)
LEMMA ResumeEffect ==
  ASSUME SearchInv, Resume
  PROVE  /\ StackOK(frames', pc') /\ ret' \in [path : Seq(B), visited : SUBSET B]
         /\ popping' \in BOOLEAN
         /\ UNCHANGED <<graph, numbering, allPathInfo, paths>>
<1> DEFINE f  == Last(frames)
           t  == Last(f.toVisit)
           x  == t.block
           s  == getUnvisitedSuccessor(x, t.it, f.visited, f.bb)
           e  == [block |-> x, it |-> s.it]
           tv == Append(Front(f.toVisit), e)
           vis == IF s.found THEN s.visited ELSE s.visited \cup ret.visited
           f1 == [f EXCEPT !.bb = s.bb, !.branch = "none", !.visited = vis, !.toVisit = tv]
           Step == [found : BOOLEAN, it : Nat \ {0}, visited : SUBSET B, bb : B]
<1>1. pc = "return" /\ frames # <<>> /\ popping \in BOOLEAN /\ ret.visited \in SUBSET B
  <2>1. pc = "return" /\ frames # <<>>
    BY DEF Resume
  <2>2. popping \in BOOLEAN /\ ret \in [path : Seq(B), visited : SUBSET B]
    BY DEF SearchInv, TypeOK
  <2> QED BY <2>1, <2>2
<1>2. /\ GraphTyped /\ RetTyped
      /\ \A y \in B : blocks[y].hasWait \in BOOLEAN
  BY <1>1, SearchGraph DEF SearchInv
<1>3. FreshFrames(frames) /\ f \in Frames(B) /\ Fresh(f) /\ t \in StackEntries(B)
      /\ x \in B
  BY <1>1, TopOfStack DEF Top
<1>4. NotAtWait(Front(frames)) /\ ~blocks[x].hasWait
  <2>1. NotAtWait(frames)
    BY <1>1 DEF SearchInv, CallersNotAtWait
  <2>2. /\ Len(frames) \in Nat \ {0} /\ Len(Front(frames)) = Len(frames) - 1
        /\ f = frames[Len(frames)] /\ Front(frames) \in Seq(Frames(B))
        /\ \A i \in 1..(Len(frames) - 1) : Front(frames)[i] = frames[i]
    BY <1>1, <1>3, FrontLast DEF FreshFrames
  <2>3. DOMAIN frames = 1..Len(frames) /\ DOMAIN Front(frames) = 1..(Len(frames) - 1)
    BY <1>3, <2>2 DEF FreshFrames
  <2>4. ~blocks[x].hasWait
    BY <2>1, <2>2, <2>3 DEF NotAtWait
  <2> HIDE DEF f
  <2>5. NotAtWait(Front(frames))
    BY <2>1, <2>2, <2>3 DEF NotAtWait
  <2> QED BY <2>4, <2>5
<1>5. /\ IF s.found THEN Recurse(f1, x)
                    ELSE addSuccessorToVisitOrPop(f1, blocks[x].hasWait, FALSE)
      /\ UNCHANGED <<graph, numbering, allPathInfo, paths>>
  BY DEF Resume
<1> HIDE DEF f, t
<1>6. f.visited \in SUBSET B /\ f.bb \in B /\ t.it \in Nat \ {0}
  BY <1>3 DEF Frames, StackEntries
<1> HIDE DEF x
<1>7. s \in Step
  BY <1>2, <1>3, <1>6, UnvisitedType
<1> HIDE DEF s
<1>8. s.found \in BOOLEAN /\ s.it \in Nat \ {0} /\ s.visited \in SUBSET B /\ s.bb \in B
  BY <1>7
<1>9. e \in StackEntries(B) /\ e.block = x
  BY <1>3, <1>8 DEF StackEntries
<1> HIDE DEF e
<1>10. /\ tv \in Seq(StackEntries(B)) \ {<<>>} /\ Last(tv) = e
       /\ \A j \in 1..(Len(tv) - 1) : blocks[tv[j].block].hasWait => tv[j].it = 1
       /\ \A j \in DOMAIN tv : blocks[tv[j].block].hasWait => tv[j].it = 1
  BY <1>3, <1>4, <1>9, TopReplaced
<1>11. vis \in SUBSET B
  BY <1>1, <1>8
<1> HIDE DEF tv, vis
<1>12. f1 \in Frames(B) /\ f1.toVisit = tv
  BY <1>3, <1>8, <1>10, <1>11 DEF Frames
<1> HIDE DEF f1
<1>13. Fresh(f1) /\ ~blocks[Last(f1.toVisit).block].hasWait
       /\ \A j \in 1..(Len(f1.toVisit) - 1) :
            blocks[f1.toVisit[j].block].hasWait => f1.toVisit[j].it = 1
  BY <1>4, <1>9, <1>10, <1>12 DEF Fresh
<1>14. CASE s.found
  <2>1. Recurse(f1, x)
    BY <1>5, <1>14
  <2> QED BY <1>1, <1>2, <1>3, <1>4, <1>5, <1>12, <1>13, <2>1, RecurseEffect
<1>15. CASE ~s.found
  <2>1. addSuccessorToVisitOrPop(f1, blocks[x].hasWait, FALSE)
    BY <1>5, <1>15
  <2>2. blocks[x].hasWait = blocks[Last(f1.toVisit).block].hasWait
        /\ blocks[x].hasWait \in BOOLEAN
    BY <1>2, <1>3, <1>9, <1>10, <1>12
  <2> QED BY <1>1, <1>2, <1>3, <1>4, <1>5, <1>12, <1>13, <2>1, <2>2, LoopEndEffect
<1> QED BY <1>8, <1>14, <1>15
-----------------------------------------------------------------------------
\* The parts of the invariant about state numbers and recorded paths.
NumberingTyped ==
  /\ waitsToVisit \in Seq(B) /\ visitedWaits \subseteq B /\ nextStateCount \in Nat
  /\ waitNextState \in [visitedWaits -> [next : B, state : Nat]]

NumberingInv ==
  NumberingTyped /\ Numbered /\ ResumesAtSuccessor /\ QueueAligned /\ PathsStart

(***************************************************************************)
(* A step that finds no new wait leaves the numbering as it is.            *)
(***************************************************************************)
LEMMA NumberingUnchanged ==
  ASSUME NumberingInv, pc \in {"visit", "return"}, UNCHANGED numbering,
         UNCHANGED <<graph, paths>>, pc' \in {"visit", "return"}
  PROVE  /\ NumberingInv'
         /\ \A p \in Seq(PathEntries(B)) :
              PathOfState(p, Len(paths)) => PathOfState(p, Len(paths))'
<1>1. /\ blocks' = blocks /\ sccfg' = sccfg /\ cfg' = cfg /\ paths' = paths
      /\ B' = B
  BY DEF graph, B
<1>2. /\ waitsToVisit' = waitsToVisit /\ visitedWaits' = visitedWaits
      /\ waitNextState' = waitNextState /\ nextStateCount' = nextStateCount
  BY DEF numbering
<1>3. NumberingTyped' /\ Numbered' /\ ResumesAtSuccessor'
  BY <1>1, <1>2 DEF NumberingInv, NumberingTyped, Numbered, ResumesAtSuccessor
<1>4. QueueAligned'
  BY <1>1, <1>2 DEF NumberingInv, QueueAligned
<1>5. PathsStart'
  BY <1>1, <1>2 DEF NumberingInv, PathsStart, PathOfState, PathFrom
<1>6. \A p \in Seq(PathEntries(B)) :
        PathOfState(p, Len(paths)) => PathOfState(p, Len(paths))'
  BY <1>1, <1>2 DEF PathOfState, PathFrom
<1> QED BY <1>3, <1>4, <1>5, <1>6 DEF NumberingInv

(***************************************************************************)
(* Registering a wait: the new number is larger than that of every path    *)
(* recorded or under way, and the start of its state goes to the front of  *)
(* the queue, so that the alignment of numbers and queue is kept.          *)
(***************************************************************************)
LEMMA RegisterKeepsNumbering ==
  ASSUME NumberingInv, paths \in Seq(Seq(PathEntries(B))), pc = "visit",
         NEW x \in B, blocks[x].successors[1] \in B,
         RegisterWait(x, blocks[x].successors[1]),
         UNCHANGED <<graph, paths>>, pc' \in {"visit", "return"}
  PROVE  /\ NumberingInv'
         /\ \A p \in Seq(PathEntries(B)) :
              PathOfState(p, Len(paths)) => PathOfState(p, Len(paths))'
<1> DEFINE next == blocks[x].successors[1]
           n == nextStateCount
<1>1. /\ blocks' = blocks /\ sccfg' = sccfg /\ cfg' = cfg /\ paths' = paths
      /\ B' = B /\ Len(paths) \in Nat
  BY DEF graph, B
<1>2. /\ n = Len(paths) + Len(waitsToVisit) /\ n \in Nat /\ Len(waitsToVisit) \in Nat
      /\ \A w \in visitedWaits : waitNextState[w].state \in 1..n
      /\ \A w \in visitedWaits : waitNextState[w].state > Len(paths) =>
           waitNextState[w].next = waitsToVisit[n - waitNextState[w].state + 1]
  BY DEF NumberingInv, NumberingTyped, QueueAligned, Numbered
<1>3. CASE x \in visitedWaits
  <2>1. UNCHANGED numbering
    BY <1>3 DEF RegisterWait
  <2> QED BY <2>1, NumberingUnchanged
<1>4. CASE x \notin visitedWaits
  <2>1. /\ visitedWaits' = visitedWaits \cup {x}
        /\ waitsToVisit' = <<next>> \o waitsToVisit
        /\ nextStateCount' = n + 1
        /\ waitNextState' = [w \in visitedWaits \cup {x} |->
                               IF w = x THEN [next |-> next, state |-> n + 1]
                                        ELSE waitNextState[w]]
    BY <1>4 DEF RegisterWait
  <2>2. waitNextState'[x].next = next /\ waitNextState'[x].state = n + 1
    BY <2>1
  <2>3. \A w \in visitedWaits : waitNextState'[w] = waitNextState[w]
    BY <1>4, <2>1
  <2>4. \A w \in visitedWaits' : w = x \/ w \in visitedWaits
    BY <2>1
  <2>5. waitsToVisit \in Seq(B) /\ next \in B
    BY DEF NumberingInv, NumberingTyped
  <2> HIDE DEF next
  <2>6. /\ waitsToVisit' \in Seq(B) /\ Len(waitsToVisit') = Len(waitsToVisit) + 1
        /\ waitsToVisit'[1] = next
        /\ \A i \in 1..Len(waitsToVisit) : waitsToVisit'[i + 1] = waitsToVisit[i]
    BY <2>1, <2>5
  <2>7. NumberingTyped'
    <3>1. visitedWaits' \subseteq B
      BY <2>1 DEF NumberingInv, NumberingTyped
    <3>2. \A w \in visitedWaits : waitNextState[w] \in [next : B, state : Nat]
      BY DEF NumberingInv, NumberingTyped
    <3>3. [next |-> next, state |-> n + 1] \in [next : B, state : Nat]
      BY <1>2, <2>5
    <3>4. waitNextState' \in [visitedWaits' -> [next : B, state : Nat]]
      BY <2>1, <3>2, <3>3
    <3> QED BY <1>1, <1>2, <2>1, <2>6, <3>1, <3>4 DEF NumberingTyped
  <2>8. Numbered'
    <3>1. \A w \in visitedWaits' : waitNextState'[w].state \in 1..(n + 1)
      BY <1>2, <2>2, <2>3, <2>4
    <3>2. ASSUME NEW v \in visitedWaits', NEW w \in visitedWaits',
                 waitNextState'[v].state = waitNextState'[w].state
          PROVE  v = w
      <4>1. \A u \in visitedWaits : waitNextState'[u].state # n + 1
        BY <1>2, <2>3
      <4>2. CASE v \in visitedWaits /\ w \in visitedWaits
        BY <2>3, <3>2, <4>2 DEF NumberingInv, Numbered
      <4> QED BY <2>2, <2>4, <3>2, <4>1, <4>2
    <3> QED BY <2>1, <3>1, <3>2 DEF Numbered
  <2>9. ResumesAtSuccessor'
    BY <1>1, <2>2, <2>3, <2>4 DEF NumberingInv, ResumesAtSuccessor, next
  <2>10. QueueAligned'
    <3>1. ASSUME NEW w \in visitedWaits', waitNextState'[w].state > Len(paths')
          PROVE  waitNextState'[w].next
                   = waitsToVisit'[nextStateCount' - waitNextState'[w].state + 1]
      <4>1. CASE w = x
        BY <1>2, <2>1, <2>2, <2>6, <4>1
      <4>2. CASE w \in visitedWaits
        <5> DEFINE k == waitNextState[w].state
        <5>1. k \in 1..n /\ k > Len(paths) /\ waitNextState'[w].state = k
          BY <1>1, <1>2, <2>3, <3>1, <4>2
        <5>2. waitNextState'[w].next = waitsToVisit[n - k + 1]
          BY <1>2, <2>3, <4>2, <5>1
        <5> HIDE DEF k
        <5>3. n - k + 1 \in 1..Len(waitsToVisit) /\ n - k + 1 + 1 = nextStateCount' - k + 1
          BY <1>1, <1>2, <2>1, <5>1
        <5> QED BY <2>6, <5>1, <5>2, <5>3
      <4> QED BY <2>4, <4>1, <4>2
    <3>2. n + 1 = Len(paths) + Len(waitsToVisit')
      BY <1>1, <1>2, <2>6
    <3>3. nextStateCount' = Len(paths') + Len(waitsToVisit')
      BY <1>1, <2>1, <3>2
    <3>4. pc' # "done" /\ pc' \notin {"construct", "rework"}
      OBVIOUS
    <3> QED BY <3>1, <3>3, <3>4 DEF QueueAligned
  <2>11. ASSUME NEW p, NEW k \in Int, k <= Len(paths), PathOfState(p, k)
         PROVE  PathOfState(p, k)'
    <3>1. ASSUME NEW w \in visitedWaits', waitNextState'[w].state = k
          PROVE  PathFrom(p, waitNextState'[w].next)
      <4>1. w # x
        BY <1>1, <1>2, <2>2, <2>11, <3>1
      <4>2. w \in visitedWaits /\ waitNextState'[w] = waitNextState[w]
        BY <2>3, <2>4, <4>1
      <4> QED BY <2>11, <3>1, <4>2 DEF PathOfState
    <3>2. k = 0 => PathFrom(p, sccfg[cfg.entry])
      BY <2>11 DEF PathOfState
    <3> QED BY <1>1, <3>1, <3>2 DEF PathOfState, PathFrom
  <2>12. PathsStart'
    <3> SUFFICES ASSUME NEW k \in DOMAIN paths
                 PROVE  PathOfState(paths[k], k - 1)'
      BY <1>1 DEF PathsStart
    <3>1. k - 1 \in Int /\ k - 1 <= Len(paths)
      OBVIOUS
    <3>2. PICK q : q = paths[k]
      OBVIOUS
    <3>3. PathOfState(q, k - 1)
      BY <3>2 DEF NumberingInv, PathsStart
    <3>4. PathOfState(q, k - 1)'
      BY <2>11, <3>1, <3>3
    <3> QED BY <1>1, <3>2, <3>4 DEF PathOfState
  <2>13. \A p \in Seq(PathEntries(B)) :
           PathOfState(p, Len(paths)) => PathOfState(p, Len(paths))'
    BY <1>1, <2>11
  <2> QED BY <2>7, <2>8, <2>9, <2>10, <2>12, <2>13 DEF NumberingInv
<1> QED BY <1>3, <1>4

\* path_info_ has lists of blocks for some of the blocks.
InfoTyped == DOMAIN pathInfo \subseteq B /\ pathInfo \in [DOMAIN pathInfo -> Infos(B)]

(***************************************************************************)
(* What a step of dfs_visit_wait has to establish for the invariant.       *)
(***************************************************************************)
LEMMA SearchStep ==
  ASSUME IndInv, pc \in {"visit", "return"}, UNCHANGED <<graph, paths>>,
         StackOK(frames', pc'), ret' \in [path : Seq(B), visited : SUBSET B],
         popping' \in BOOLEAN, currPath' \in Seq(PathEntries(B)), currPath' # <<>>,
         NumberingInv', InfoTyped', PathOfState(currPath, Len(paths))'
  PROVE  IndInv'
<1>1. /\ blocks' = blocks /\ sccfg' = sccfg /\ cfg' = cfg /\ paths' = paths /\ B' = B
  BY DEF graph, B
<1>2. pc' \in {"visit", "return"} /\ FreshFrames(frames')
      /\ (pc' = "visit" => frames' # <<>>)
  BY DEF StackOK
<1>3. TypeOK'
  <2>1. IsCFG(cfg') /\ blocks' \in [B -> SplitBlocks(B)] /\ paths' \in Seq(Seq(PathEntries(B)))
    BY <1>1 DEF IndInv, TypeOK
  <2>2. frames' \in Seq(Frames(B))
    BY <1>2 DEF FreshFrames
  <2> QED BY <1>1, <1>2, <2>1, <2>2 DEF TypeOK, NumberingInv, NumberingTyped, InfoTyped
<1>4. GraphFixed'
  <2>1. sccfg = SccfgMap(SplitCFGBlocks(cfg)) /\ blocks = SplitCFGBlocks(cfg)
    BY DEF IndInv, GraphFixed
  <2> QED BY <1>1, <1>2, <2>1 DEF GraphFixed
<1>5. WaitsAreFresh' /\ CallersNotAtWait'
  <2>1. WaitsAreFresh'
    BY <1>1, <1>2 DEF FreshFrames, WaitsAreFresh, Fresh
  <2>2. CallersNotAtWait'
    BY <1>1 DEF StackOK, CallersNotAtWait, NotAtWait
  <2> QED BY <2>1, <2>2
<1>6. CurrentStart'
  BY DEF CurrentStart
<1> QED BY <1>3, <1>4, <1>5, <1>6 DEF IndInv, NumberingInv

(***************************************************************************)
(* One iteration of dfs_visit_wait keeps the invariant.                    *)
(***************************************************************************)
LEMMA VisitKeepsInv ==
  ASSUME IndInv, Visit
  PROVE  IndInv'
<1> DEFINE new == [block |-> Top, pathIdx |-> Len(currPath), falseIdx |-> 0]
<1>1. SearchInv /\ NumberingInv /\ currPath \in Seq(PathEntries(B))
      /\ paths \in Seq(Seq(PathEntries(B))) /\ InfoTyped
  BY DEF IndInv, SearchInv, NumberingInv, NumberingTyped, TypeOK, InfoTyped
<1>2. pc = "visit"
  BY DEF Visit
<1>3. /\ StackOK(frames', pc') /\ ret' \in [path : Seq(B), visited : SUBSET B]
      /\ popping' \in BOOLEAN /\ Top \in B
      /\ currPath' = IF popping THEN currPath ELSE Append(currPath, new)
      /\ IF blocks[Top].hasWait
           THEN RegisterWait(Top, blocks[Top].successors[1])
                /\ blocks[Top].successors[1] \in B
           ELSE UNCHANGED numbering
      /\ UNCHANGED <<graph, results>>
  BY <1>1, VisitEffect
<1>4. pc' \in {"visit", "return"} /\ UNCHANGED <<graph, paths>> /\ pathInfo' = pathInfo
      /\ blocks' = blocks
  BY <1>3 DEF StackOK, results, graph
<1>5. /\ NumberingInv'
      /\ \A p \in Seq(PathEntries(B)) :
           PathOfState(p, Len(paths)) => PathOfState(p, Len(paths))'
  <2>1. CASE blocks[Top].hasWait
    BY <1>1, <1>2, <1>3, <1>4, <2>1, RegisterKeepsNumbering
  <2>2. CASE ~blocks[Top].hasWait
    BY <1>1, <1>2, <1>3, <1>4, <2>2, NumberingUnchanged
  <2> QED BY <2>1, <2>2
<1>6. Len(currPath) \in Nat /\ new \in PathEntries(B)
  BY <1>1, <1>3 DEF PathEntries
<1>7. /\ currPath' \in Seq(PathEntries(B)) /\ currPath' # <<>>
      /\ PathOfState(currPath', Len(paths))
  <2>1. CASE currPath = <<>>
    <3>1. ~popping /\ PathOfState(<<[block |-> Top, pathIdx |-> 0, falseIdx |-> 0]>>, Len(paths))
      BY <1>2, <2>1 DEF IndInv, CurrentStart, Top
    <3>2. currPath' = <<new>> /\ new = [block |-> Top, pathIdx |-> 0, falseIdx |-> 0]
      BY <1>3, <2>1, <3>1
    <3> HIDE DEF new
    <3>3. <<new>> \in Seq(PathEntries(B)) /\ <<new>> # <<>>
      BY <1>6
    <3>4. PathOfState(<<new>>, Len(paths))
      BY <3>1, <3>2
    <3> QED BY <3>2, <3>3, <3>4
  <2>2. CASE currPath # <<>>
    <3>1. PathOfState(currPath, Len(paths))
      BY <1>2, <2>2 DEF IndInv, CurrentStart
    <3>2. currPath' \in Seq(PathEntries(B)) /\ currPath' # <<>> /\ currPath'[1] = currPath[1]
      <4> HIDE DEF new
      <4>1. Len(currPath) > 0
        BY <1>1, <2>2
      <4>2. CASE popping
        BY <1>1, <1>3, <2>2, <4>2
      <4>3. CASE ~popping
        <5>1. currPath' = Append(currPath, new)
          BY <1>3, <4>3
        <5> QED BY <1>1, <1>6, <4>1, <5>1
      <4> QED BY <4>2, <4>3
    <3>3. PathOfState(currPath', Len(paths))
      BY <2>2, <3>1, <3>2 DEF PathOfState, PathFrom
    <3> QED BY <3>2, <3>3
  <2> QED BY <2>1, <2>2
<1>8. PathOfState(currPath, Len(paths))'
  <2>1. PICK q \in Seq(PathEntries(B)) : q = currPath'
    BY <1>7
  <2>2. PathOfState(q, Len(paths))'
    BY <1>5, <1>7, <2>1
  <2> QED BY <2>1, <2>2 DEF PathOfState
<1>9. InfoTyped'
  BY <1>1, <1>4 DEF InfoTyped, B
<1> QED BY <1>2, <1>3, <1>4, <1>5, <1>7, <1>8, <1>9, SearchStep

(***************************************************************************)
(* false_idx_ is a number: the search backwards through the path ends at   *)
(* one of its entries.                                                     *)
(***************************************************************************)
LEMMA FalseIndexType ==
  ASSUME currPath \in Seq(PathEntries(B)), NEW x, NEW found
  PROVE  FalseIndex(x, found) \in Nat
<1> DEFINE fsucc  == Last(cfg.succs[blocks[x].block])
           places == {j \in DOMAIN currPath : blocks[currPath[j].block].block = fsucc}
           m == CHOOSE j \in places : \A k \in places : k <= j
<1>1. Len(currPath) \in Nat /\ DOMAIN currPath = 1..Len(currPath)
  BY SMTT(30)
<1>2. CASE found \/ places = {}
  BY <1>1, <1>2 DEF FalseIndex
<1>3. CASE ~found /\ places # {}
  <2>1. places \subseteq 0..Len(currPath)
    BY <1>1
  <2> HIDE DEF places
  <2>2. \E j \in places : \A k \in places : k <= j
    BY <1>1, <1>3, <2>1, BoundedMax
  <2>3. m \in places
    BY <2>2
  <2> HIDE DEF m
  <2>4. m \in DOMAIN currPath
    BY <2>3 DEF places
  <2>5. currPath[m] \in PathEntries(B)
    BY <2>4
  <2>6. currPath[m].pathIdx \in Nat
    BY <2>5 DEF PathEntries
  <2> QED BY <1>3, <2>6 DEF FalseIndex, m, places
<1> QED BY <1>2, <1>3

(***************************************************************************)
(* The rest of an iteration keeps the invariant.                           *)
(***************************************************************************)
LEMMA ResumeKeepsInv ==
  ASSUME IndInv, Resume
  PROVE  IndInv'
<1> DEFINE f == Last(frames)
           x == Last(f.toVisit).block
<1>1. SearchInv /\ NumberingInv /\ currPath \in Seq(PathEntries(B)) /\ InfoTyped
      /\ ret \in [path : Seq(B), visited : SUBSET B]
  BY DEF IndInv, SearchInv, NumberingInv, NumberingTyped, TypeOK, InfoTyped
<1>2. pc = "return" /\ frames # <<>>
  BY DEF Resume
<1>3. /\ StackOK(frames', pc') /\ ret' \in [path : Seq(B), visited : SUBSET B]
      /\ popping' \in BOOLEAN /\ UNCHANGED <<graph, numbering, allPathInfo, paths>>
  BY <1>1, ResumeEffect
<1>4. pc' \in {"visit", "return"} /\ UNCHANGED <<graph, paths>> /\ UNCHANGED numbering
      /\ blocks' = blocks
  BY <1>3 DEF StackOK, graph
<1>5. /\ NumberingInv'
      /\ \A p \in Seq(PathEntries(B)) :
           PathOfState(p, Len(paths)) => PathOfState(p, Len(paths))'
  BY <1>1, <1>2, <1>4, NumberingUnchanged
<1>6. f \in Frames(B)
  BY <1>1, <1>2, TopOfStack
<1>7. InfoTyped'
  <2>1. f.branch \in {"none", "true", "false"} /\ ret.path \in Seq(B)
    BY <1>1, <1>6 DEF Frames
  <2>2. pathInfo' = CASE f.branch = "true"  -> setTruePathInfo(x, ret.path)
                      [] f.branch = "false" -> setFalsePathInfo(x, ret.path)
                      [] OTHER              -> pathInfo
    BY DEF Resume
  <2> HIDE DEF f, x
  <2>3. pathInfo' \in {setTruePathInfo(x, ret.path), setFalsePathInfo(x, ret.path), pathInfo}
    BY <2>1, <2>2
  <2>4. \A d \in DOMAIN pathInfo :
          /\ [pathInfo[d] EXCEPT !.truePath = ret.path] \in Infos(B)
          /\ [pathInfo[d] EXCEPT !.falsePath = ret.path] \in Infos(B)
    BY <1>1, <2>1 DEF InfoTyped, Infos
  <2>5. /\ [pathInfo EXCEPT ![x].truePath = ret.path] \in [DOMAIN pathInfo -> Infos(B)]
        /\ [pathInfo EXCEPT ![x].falsePath = ret.path] \in [DOMAIN pathInfo -> Infos(B)]
    BY <1>1, <2>4 DEF InfoTyped
  <2>6. pathInfo' \in [DOMAIN pathInfo -> Infos(B)]
    BY <1>1, <2>3, <2>5 DEF setTruePathInfo, setFalsePathInfo, InfoTyped
  <2> QED BY <1>1, <1>4, <2>6 DEF InfoTyped, B
<1>8. /\ currPath' \in Seq(PathEntries(B)) /\ currPath' # <<>>
      /\ currPath'[1].block = currPath[1].block /\ currPath # <<>>
  <2>1. currPath # <<>>
    BY <1>2 DEF IndInv, CurrentStart
  <2>2. CASE f.branch # "true"
    <3>1. currPath' = currPath
      BY <2>2 DEF Resume
    <3> QED BY <1>1, <2>1, <3>1
  <2>3. CASE f.branch = "true"
    <3>1. PICK v \in Nat : currPath' = [currPath EXCEPT ![f.id].falseIdx = v]
      <4>1. PICK found : currPath' = [currPath EXCEPT ![f.id].falseIdx = FalseIndex(x, found)]
        BY <2>3 DEF Resume
      <4>2. FalseIndex(x, found) \in Nat
        BY <1>1, FalseIndexType
      <4> QED BY <4>1, <4>2
    <3> HIDE DEF f
    <3>2. \A e \in PathEntries(B) : /\ [e EXCEPT !.falseIdx = v] \in PathEntries(B)
                                    /\ [e EXCEPT !.falseIdx = v].block = e.block
      BY DEF PathEntries
    <3>3. DOMAIN currPath' = DOMAIN currPath /\ DOMAIN currPath = 1..Len(currPath)
          /\ Len(currPath) \in Nat \ {0}
      BY <1>1, <2>1, <3>1
    <3>4. \A d \in DOMAIN currPath : /\ currPath'[d] \in PathEntries(B)
                                     /\ currPath'[d].block = currPath[d].block
      <4>1. \A d \in DOMAIN currPath : currPath[d] \in PathEntries(B)
        BY <1>1
      <4>2. \A d \in DOMAIN currPath : currPath'[d] \in
              {currPath[d], [currPath[d] EXCEPT !.falseIdx = v]}
        BY <3>1
      <4> QED BY <3>2, <4>1, <4>2
    <3>5. currPath' \in [1..Len(currPath) -> PathEntries(B)]
      BY <3>1, <3>3, <3>4
    <3>6. currPath' \in Seq(PathEntries(B))
      BY <3>3, <3>5, SeqDef
    <3> QED BY <2>1, <3>3, <3>4, <3>6
  <2> QED BY <2>2, <2>3
<1>9. PathOfState(currPath, Len(paths))'
  <2>1. PathOfState(currPath', Len(paths))
    BY <1>2, <1>8 DEF IndInv, CurrentStart, PathOfState, PathFrom
  <2>2. PICK q \in Seq(PathEntries(B)) : q = currPath'
    BY <1>8
  <2>3. PathOfState(q, Len(paths))'
    BY <1>5, <2>1, <2>2
  <2> QED BY <2>2, <2>3 DEF PathOfState
<1> QED BY <1>2, <1>3, <1>4, <1>5, <1>7, <1>8, <1>9, SearchStep
-----------------------------------------------------------------------------
(***************************************************************************)
(* preparePathInfo has an empty entry for some of the blocks.              *)
(***************************************************************************)
LEMMA PrepareType ==
  ASSUME NEW c, NEW blks, NEW map
  PROVE  /\ DOMAIN preparePathInfo(c, blks, map) \subseteq DOMAIN blks
         /\ preparePathInfo(c, blks, map) \in
              [DOMAIN preparePathInfo(c, blks, map) -> Infos(DOMAIN blks)]
<1>1. [truePath |-> <<>>, falsePath |-> <<>>] \in Infos(DOMAIN blks)
  BY DEF Infos
<1> QED BY <1>1 DEF preparePathInfo

(***************************************************************************)
(* The search for a state starts at the block the state starts with.       *)
(***************************************************************************)
LEMMA StartOfSearch ==
  ASSUME IndInv, pc \in {"rework", "return"}, frames = <<>>, NEW x \in B,
         Call(<<>>, x, {}), currPath' = <<>>, NumberingInv', InfoTyped',
         UNCHANGED graph, paths' \in Seq(Seq(PathEntries(B))),
         blocks = SplitCFGBlocks(cfg), sccfg = SccfgMap(SplitCFGBlocks(cfg)),
         Len(paths') = 0 => x = sccfg[cfg.entry],
         \A w \in visitedWaits' :
            waitNextState'[w].state = Len(paths') => waitNextState'[w].next = x
  PROVE  IndInv'
<1>1. /\ blocks' = blocks /\ sccfg' = sccfg /\ cfg' = cfg /\ B' = B
  BY DEF graph, B
<1>2. GraphTyped /\ RetTyped /\ popping \in BOOLEAN
  BY DEF IndInv, TypeOK, GraphTyped, RetTyped
<1>3. FreshFrames(<<>>) /\ NotAtWait(<<>>)
  BY DEF FreshFrames, NotAtWait
<1>4. /\ StackOK(frames', pc') /\ ret' \in [path : Seq(B), visited : SUBSET B]
      /\ popping' \in BOOLEAN
      /\ \/ /\ pc' = "return" /\ frames' = <<>> /\ blocks[x].successors = <<>>
         \/ /\ pc' = "visit" /\ frames' # <<>> /\ popping' = FALSE
            /\ Last(Last(frames').toVisit).block = x /\ blocks[x].successors # <<>>
  BY <1>2, <1>3, {} \in SUBSET B, CallEffect
<1>5. pc' \in {"visit", "return"} /\ FreshFrames(frames')
      /\ (pc' = "visit" => frames' # <<>>)
  BY <1>4 DEF StackOK
<1>6. TypeOK'
  <2>1. IsCFG(cfg') /\ blocks' \in [B -> SplitBlocks(B)]
    BY <1>1 DEF IndInv, TypeOK
  <2>2. frames' \in Seq(Frames(B)) /\ currPath' \in Seq(PathEntries(B))
    BY <1>5 DEF FreshFrames
  <2> QED BY <1>1, <1>4, <1>5, <2>1, <2>2 DEF TypeOK, NumberingInv, NumberingTyped, InfoTyped
<1>7. GraphFixed'
  BY <1>1, <1>5 DEF GraphFixed
<1>8. WaitsAreFresh' /\ CallersNotAtWait'
  <2>1. WaitsAreFresh'
    BY <1>1, <1>5 DEF FreshFrames, WaitsAreFresh, Fresh
  <2>2. CallersNotAtWait'
    BY <1>1, <1>4 DEF StackOK, CallersNotAtWait, NotAtWait
  <2> QED BY <2>1, <2>2
<1>9. CurrentStart'
  <2>1. ASSUME NEW p, PathFrom(p, x) PROVE PathOfState(p, Len(paths))'
    BY <1>1, <2>1 DEF PathOfState, PathFrom
  <2>2. CASE pc' = "return"
    <3>1. PathFrom(<<>>, x)
      BY <1>4, <2>2 DEF PathFrom
    <3>2. PathOfState(<<>>, Len(paths))'
      BY <2>1, <3>1
    <3>3. PathOfState(currPath, Len(paths))'
      BY <3>2 DEF PathOfState
    <3>4. frames' = <<>>
      BY <1>4, <2>2
    <3> QED BY <2>2, <3>3, <3>4 DEF CurrentStart
  <2>3. CASE pc' = "visit"
    <3> DEFINE first == <<[block |-> x, pathIdx |-> 0, falseIdx |-> 0]>>
    <3>1. first # <<>> /\ first[1].block = x
      OBVIOUS
    <3>2. PathFrom(first, x)
      BY <1>4, <2>3, <3>1 DEF PathFrom
    <3> HIDE DEF first
    <3>3. PathOfState(first, Len(paths))'
      BY <2>1, <3>2
    <3>4. Last(Last(frames').toVisit).block = x /\ ~popping'
      BY <1>4, <2>3
    <3>5. PathOfState(<<[block |-> Last(Last(frames).toVisit).block,
                         pathIdx |-> 0, falseIdx |-> 0]>>, Len(paths))'
      BY <3>3, <3>4 DEF first, PathOfState
    <3> QED BY <2>3, <3>4, <3>5 DEF CurrentStart
  <2> QED BY <1>5, <2>2, <2>3
<1> QED BY <1>6, <1>7, <1>8, <1>9 DEF IndInv, NumberingInv

(***************************************************************************)
(* The reset path starts at the entry of the thread.                       *)
(***************************************************************************)
LEMMA StartResetKeepsInv ==
  ASSUME IndInv, StartReset
  PROVE  IndInv'
<1>1. pc = "rework" /\ Call(<<>>, sccfg[cfg.entry], {})
      /\ UNCHANGED <<graph, currPath, numbering, results>>
  BY DEF StartReset
<1>2. /\ blocks' = blocks /\ sccfg' = sccfg /\ cfg' = cfg /\ B' = B
      /\ paths' = paths /\ currPath' = currPath /\ pathInfo' = pathInfo
      /\ waitsToVisit' = waitsToVisit /\ visitedWaits' = visitedWaits
      /\ waitNextState' = waitNextState /\ nextStateCount' = nextStateCount
  BY <1>1 DEF graph, B, results, numbering
<1>3. /\ blocks = SplitCFGBlocks(cfg) /\ sccfg = SccfgMap(SplitCFGBlocks(cfg))
      /\ paths = <<>> /\ frames = <<>> /\ currPath = <<>>
  BY <1>1 DEF IndInv, GraphFixed, QueueAligned
<1>4. sccfg[cfg.entry] \in B
  <2>1. SccfgMap(SplitCFGBlocks(cfg))[cfg.entry] \in Objects(cfg)
    BY EntryInMap DEF IndInv, TypeOK
  <2>2. B = Objects(cfg)
    BY <1>3 DEF B, SplitCFGBlocks
  <2> QED BY <1>3, <2>1, <2>2
<1>5. pc' \in {"visit", "return"}
  BY <1>1 DEF Call
<1>6. NumberingInv'
  <2>1. NumberingTyped' /\ Numbered' /\ ResumesAtSuccessor'
    BY <1>2 DEF IndInv, TypeOK, NumberingTyped, Numbered, ResumesAtSuccessor
  <2>2. QueueAligned'
    BY <1>1, <1>2, <1>5 DEF IndInv, QueueAligned
  <2>3. PathsStart'
    BY <1>2, <1>3 DEF PathsStart
  <2> QED BY <2>1, <2>2, <2>3 DEF NumberingInv
<1>7. InfoTyped'
  BY <1>2 DEF IndInv, TypeOK, InfoTyped
<1>8. Len(paths') = 0 /\ paths' \in Seq(Seq(PathEntries(B)))
  BY <1>2, <1>3
<1>9. \A w \in visitedWaits' : waitNextState'[w].state # Len(paths')
  BY <1>2, <1>8 DEF IndInv, Numbered
<1>10. currPath' = <<>> /\ UNCHANGED graph
  BY <1>1, <1>2, <1>3
<1> QED BY <1>1, <1>3, <1>4, <1>6, <1>7, <1>8, <1>9, <1>10, StartOfSearch

(***************************************************************************)
(* When a path is complete it is the path of state Len(paths), and the     *)
(* last entry of the queue is where the next state starts.                 *)
(***************************************************************************)
LEMMA NextPathKeepsInv ==
  ASSUME IndInv, NextPath
  PROVE  IndInv'
<1> DEFINE x == Last(waitsToVisit)
           n == Len(paths)
           q == Len(waitsToVisit)
<1>1. /\ pc = "return" /\ frames = <<>> /\ waitsToVisit # <<>>
      /\ Call(<<>>, x, {})
      /\ waitsToVisit' = Front(waitsToVisit)
      /\ UNCHANGED <<graph, visitedWaits, waitNextState, nextStateCount>>
  BY DEF NextPath
<1>2. /\ paths' = Append(paths, currPath) /\ currPath' = <<>>
      /\ pathInfo' = preparePathInfo(cfg, blocks, sccfg)
  BY DEF NextPath, RecordPath
<1>3. /\ blocks' = blocks /\ sccfg' = sccfg /\ cfg' = cfg /\ B' = B
      /\ visitedWaits' = visitedWaits
      /\ waitNextState' = waitNextState /\ nextStateCount' = nextStateCount
  BY <1>1 DEF graph, B
<1>4. blocks = SplitCFGBlocks(cfg) /\ sccfg = SccfgMap(SplitCFGBlocks(cfg))
  BY <1>1 DEF IndInv, GraphFixed
<1>5. /\ currPath \in Seq(PathEntries(B)) /\ paths \in Seq(Seq(PathEntries(B)))
      /\ waitsToVisit \in Seq(B) /\ NumberingTyped /\ n \in Nat
  BY DEF IndInv, TypeOK, NumberingTyped
<1>6. /\ q \in Nat \ {0} /\ x \in B /\ x = waitsToVisit[q]
      /\ waitsToVisit' \in Seq(B) /\ Len(waitsToVisit') = q - 1
      /\ \A i \in 1..(q - 1) : waitsToVisit'[i] = waitsToVisit[i]
  BY <1>1, <1>5, FrontLast
<1>7. /\ paths' \in Seq(Seq(PathEntries(B))) /\ Len(paths') = n + 1
      /\ paths'[n + 1] = currPath /\ \A k \in 1..n : paths'[k] = paths[k]
  BY <1>2, <1>5
<1> HIDE DEF x
<1>8. /\ nextStateCount = n + q
      /\ \A w \in visitedWaits :
           /\ waitNextState[w].state \in 1..nextStateCount
           /\ waitNextState[w].state > n =>
                waitNextState[w].next = waitsToVisit[nextStateCount - waitNextState[w].state + 1]
  BY <1>1 DEF IndInv, QueueAligned, Numbered
<1> HIDE DEF n, q
<1>9. pc' \in {"visit", "return"}
  BY <1>1 DEF Call
<1>10. QueueAligned'
  <2>1. nextStateCount' = Len(paths') + Len(waitsToVisit')
    BY <1>3, <1>5, <1>6, <1>7, <1>8
  <2>2. ASSUME NEW w \in visitedWaits', waitNextState'[w].state > Len(paths')
        PROVE  waitNextState'[w].next
                 = waitsToVisit'[nextStateCount' - waitNextState'[w].state + 1]
    <3> DEFINE k == waitNextState[w].state
               m == nextStateCount - k + 1
    <3>1. w \in visitedWaits /\ k > n + 1
      BY <1>3, <1>7, <2>2
    <3>2. k \in 1..nextStateCount /\ waitNextState[w].next = waitsToVisit[m]
      BY <1>5, <1>8, <3>1
    <3> HIDE DEF k
    <3>3. m \in 1..(q - 1)
      BY <1>5, <1>6, <1>8, <3>1, <3>2
    <3> HIDE DEF m
    <3>4. waitsToVisit'[m] = waitsToVisit[m]
      BY <1>6, <3>3
    <3> QED BY <1>3, <3>2, <3>4 DEF k, m
  <2> QED BY <1>9, <2>1, <2>2 DEF QueueAligned
<1>11. PathsStart'
  <2> SUFFICES ASSUME NEW k \in DOMAIN paths'
               PROVE  PathOfState(paths[k], k - 1)'
    BY DEF PathsStart
  <2>1. k \in 1..(n + 1)
    BY <1>7
  <2>2. CASE k \in 1..n
    <3>1. PathOfState(paths[k], k - 1)
      BY <1>5, <2>2 DEF IndInv, PathsStart, n
    <3> QED BY <1>3, <1>7, <2>2, <3>1 DEF PathOfState, PathFrom
  <2>3. CASE k = n + 1
    <3>1. PathOfState(currPath, n) /\ k - 1 = n
      BY <1>1, <1>5, <2>3 DEF IndInv, CurrentStart, n
    <3> QED BY <1>3, <1>7, <2>3, <3>1 DEF PathOfState, PathFrom
  <2> QED BY <1>5, <2>1, <2>2, <2>3
<1>12. NumberingInv'
  <2>1. NumberingTyped' /\ Numbered' /\ ResumesAtSuccessor'
    BY <1>3, <1>5, <1>6 DEF IndInv, NumberingTyped, Numbered, ResumesAtSuccessor
  <2> QED BY <1>10, <1>11, <2>1 DEF NumberingInv
<1>13. InfoTyped'
  BY <1>2, <1>3, PrepareType DEF InfoTyped, B
<1>14. Len(paths') # 0
  BY <1>5, <1>7
<1>15. ASSUME NEW w \in visitedWaits', waitNextState'[w].state = Len(paths')
       PROVE  waitNextState'[w].next = x
  <2>1. waitNextState[w].state = n + 1 /\ w \in visitedWaits
    BY <1>3, <1>7, <1>15
  <2>2. nextStateCount - (n + 1) + 1 = q /\ n + 1 > n
    BY <1>5, <1>6, <1>8
  <2>3. waitNextState[w].next = waitsToVisit[q]
    BY <1>8, <2>1, <2>2
  <2> QED BY <1>3, <1>6, <2>3
<1>16. UNCHANGED graph
  BY <1>1
<1> QED
  BY <1>1, <1>2, <1>4, <1>6, <1>7, <1>12, <1>13, <1>14, <1>15, <1>16, StartOfSearch

(***************************************************************************)
(* addNextStatesToBlocks writes the numbers into the blocks and nothing    *)
(* else.                                                                   *)
(***************************************************************************)
LEMMA FinishKeepsInv ==
  ASSUME IndInv, FinishPaths
  PROVE  IndInv'
<1> DEFINE n == Len(paths)
<1>1. /\ pc = "return" /\ frames = <<>> /\ waitsToVisit = <<>> /\ pc' = "done"
      /\ blocks' = addNextStatesToBlocks
      /\ UNCHANGED <<cfg, sccfg, frames, ret, popping, numbering>>
      /\ paths' = Append(paths, currPath) /\ currPath' = <<>>
      /\ pathInfo' = preparePathInfo(cfg, blocks, sccfg)
  BY DEF FinishPaths, RecordPath
<1>2. /\ sccfg' = sccfg /\ cfg' = cfg /\ frames' = <<>> /\ ret' = ret /\ popping' = popping
      /\ waitsToVisit' = <<>> /\ visitedWaits' = visitedWaits
      /\ waitNextState' = waitNextState /\ nextStateCount' = nextStateCount
  BY <1>1 DEF numbering
<1>3. B' = B /\ DOMAIN waitNextState = visitedWaits /\ visitedWaits \subseteq B
  BY <1>1 DEF IndInv, TypeOK, B, addNextStatesToBlocks
<1>4. /\ blocks = SplitCFGBlocks(cfg) /\ sccfg = SccfgMap(SplitCFGBlocks(cfg))
      /\ blocks \in [B -> SplitBlocks(B)]
  BY <1>1 DEF IndInv, TypeOK, GraphFixed
<1>5. \A y \in B : blocks'[y] = IF y \in visitedWaits
                                 THEN [blocks[y] EXCEPT !.nextState = waitNextState[y].state]
                                 ELSE blocks[y]
  BY <1>1, <1>3 DEF addNextStatesToBlocks, B
<1>6. \A y \in visitedWaits : waitNextState[y].state \in Nat
  BY DEF IndInv, TypeOK
<1>7. blocks' = [y \in B |-> blocks'[y]]
  BY <1>1 DEF addNextStatesToBlocks, B
<1>8. \A y \in B : /\ blocks'[y] \in SplitBlocks(B)
                   /\ blocks'[y].successors = blocks[y].successors
  <2>1. \A r \in SplitBlocks(B), k \in Nat :
          /\ [r EXCEPT !.nextState = k] \in SplitBlocks(B)
          /\ [r EXCEPT !.nextState = k].successors = r.successors
    BY DEF SplitBlocks
  <2>2. \A y \in B : blocks[y] \in SplitBlocks(B)
    BY <1>4
  <2> SUFFICES ASSUME NEW y \in B
               PROVE  /\ blocks'[y] \in SplitBlocks(B)
                      /\ blocks'[y].successors = blocks[y].successors
    OBVIOUS
  <2>3. CASE y \in visitedWaits
    <3>1. blocks'[y] = [blocks[y] EXCEPT !.nextState = waitNextState[y].state]
      BY <1>5, <2>3
    <3> QED BY <1>6, <2>1, <2>2, <2>3, <3>1
  <2>4. CASE y \notin visitedWaits
    BY <1>5, <2>2, <2>4
  <2> QED BY <2>3, <2>4
<1>9. /\ currPath \in Seq(PathEntries(B)) /\ paths \in Seq(Seq(PathEntries(B)))
      /\ n \in Nat /\ nextStateCount = n /\ NumberingTyped
  <2>1. /\ currPath \in Seq(PathEntries(B)) /\ paths \in Seq(Seq(PathEntries(B)))
        /\ NumberingTyped
    BY DEF IndInv, TypeOK, NumberingTyped
  <2>2. nextStateCount = n + Len(waitsToVisit)
    BY <1>1 DEF IndInv, QueueAligned
  <2> QED BY <1>1, <2>1, <2>2
<1>10. /\ paths' \in Seq(Seq(PathEntries(B))) /\ Len(paths') = n + 1
       /\ paths'[n + 1] = currPath /\ \A k \in 1..n : paths'[k] = paths[k]
  BY <1>1, <1>9
<1>11. TypeOK'
  <2>1. blocks' \in [B -> SplitBlocks(B)]
    BY <1>7, <1>8
  <2>2. InfoTyped'
    BY <1>1, <1>3, PrepareType DEF InfoTyped, B
  <2>3. frames' \in Seq(Frames(B)) /\ currPath' \in Seq(PathEntries(B))
        /\ waitsToVisit' \in Seq(B)
    BY <1>1, <1>2
  <2> QED BY <1>1, <1>2, <1>3, <1>10, <2>1, <2>2, <2>3 DEF IndInv, TypeOK, InfoTyped
<1>12. GraphFixed'
  <2>1. [y \in B' |-> [SplitCFGBlocks(cfg')[y] EXCEPT !.nextState =
              IF y \in visitedWaits' THEN waitNextState'[y].state ELSE @]]
          = [y \in B |-> blocks'[y]]
    <3>1. \A y \in B : [blocks[y] EXCEPT !.nextState = blocks[y].nextState] = blocks[y]
      BY <1>4 DEF SplitBlocks
    <3>2. \A y \in B : blocks'[y] = [blocks[y] EXCEPT !.nextState =
              IF y \in visitedWaits THEN waitNextState[y].state ELSE blocks[y].nextState]
      BY <1>5, <3>1
    <3> QED BY <1>2, <1>3, <1>4, <3>2
  <2>2. blocks' = [y \in B' |-> [SplitCFGBlocks(cfg')[y] EXCEPT !.nextState =
              IF y \in visitedWaits' THEN waitNextState'[y].state ELSE @]]
    BY <1>7, <2>1
  <2>3. sccfg' = SccfgMap(SplitCFGBlocks(cfg'))
    BY <1>2, <1>4
  <2> QED BY <1>1, <2>2, <2>3 DEF GraphFixed
<1>13. Numbered' /\ ResumesAtSuccessor' /\ WaitsAreFresh' /\ CallersNotAtWait'
  <2>1. Numbered' /\ WaitsAreFresh' /\ CallersNotAtWait'
    BY <1>1, <1>2 DEF IndInv, Numbered, WaitsAreFresh, CallersNotAtWait
  <2>2. ResumesAtSuccessor'
    BY <1>2, <1>3, <1>8 DEF IndInv, ResumesAtSuccessor
  <2> QED BY <2>1, <2>2
<1>14. QueueAligned'
  BY <1>1, <1>2, <1>9, <1>10 DEF IndInv, QueueAligned, Numbered
<1>15. PathsStart'
  <2> SUFFICES ASSUME NEW k \in DOMAIN paths'
               PROVE  PathOfState(paths[k], k - 1)'
    BY DEF PathsStart
  <2>1. sccfg[cfg.entry] \in B
    <3>1. SccfgMap(SplitCFGBlocks(cfg))[cfg.entry] \in Objects(cfg)
      BY EntryInMap DEF IndInv, TypeOK
    <3>2. B = Objects(cfg)
      BY <1>4 DEF B, SplitCFGBlocks
    <3> QED BY <1>4, <3>1, <3>2
  <2>2. \A w \in visitedWaits : waitNextState[w].next \in B
    BY <1>9 DEF NumberingTyped
  <2>3. ASSUME NEW p, NEW j, PathOfState(p, j) PROVE PathOfState(p, j)'
    <3>1. j = 0 => PathFrom(p, sccfg[cfg.entry])'
      BY <1>2, <1>8, <2>1, <2>3 DEF PathOfState, PathFrom
    <3>2. ASSUME NEW w \in visitedWaits, waitNextState[w].state = j
          PROVE  PathFrom(p, waitNextState[w].next)'
      BY <1>2, <1>8, <2>2, <2>3, <3>2 DEF PathOfState, PathFrom
    <3> QED BY <1>2, <3>1, <3>2 DEF PathOfState
  <2>4. k \in 1..(n + 1)
    BY <1>10
  <2>5. PICK p : p = paths'[k]
    OBVIOUS
  <2>6. PathOfState(p, k - 1)
    <3>1. CASE k \in 1..n
      BY <1>9, <1>10, <2>5, <3>1 DEF IndInv, PathsStart
    <3>2. CASE k = n + 1
      <4>1. PathOfState(currPath, n) /\ k - 1 = n
        BY <1>1, <1>9, <3>2 DEF IndInv, CurrentStart
      <4> QED BY <1>10, <2>5, <3>2, <4>1
    <3> QED BY <1>9, <2>4, <3>1, <3>2
  <2>7. PathOfState(p, k - 1)'
    BY <2>3, <2>6
  <2> QED BY <2>5, <2>7 DEF PathOfState
<1>16. CurrentStart'
  BY <1>1 DEF CurrentStart
<1> QED BY <1>11, <1>12, <1>13, <1>14, <1>15, <1>16 DEF IndInv

(***************************************************************************)
(* construct_sccfg: every list is empty, the graph is of the right type.   *)
(***************************************************************************)
LEMMA ConstructKeepsInv ==
  ASSUME IndInv, construct_sccfg
  PROVE  IndInv'
<1>1. /\ pc = "construct" /\ pc' = "rework" /\ blocks' = SplitCFGBlocks(cfg)
      /\ sccfg' = SccfgMap(blocks') /\ pathInfo' = preparePathInfo(cfg, blocks', sccfg')
      /\ UNCHANGED <<cfg, frames, ret, popping, currPath, numbering, allPathInfo, paths>>
  BY DEF construct_sccfg
<1>2. /\ cfg' = cfg /\ frames' = frames /\ ret' = ret /\ popping' = popping
      /\ currPath' = currPath /\ paths' = paths
      /\ waitsToVisit' = waitsToVisit /\ visitedWaits' = visitedWaits
      /\ waitNextState' = waitNextState /\ nextStateCount' = nextStateCount
  BY <1>1 DEF numbering
<1>3. frames = <<>> /\ paths = <<>> /\ currPath = <<>>
  BY <1>1 DEF IndInv, QueueAligned
<1>4. B = {} /\ IsCFG(cfg)
  BY <1>1 DEF IndInv, TypeOK, GraphFixed, Empty, B
<1>5. visitedWaits = {} /\ B \subseteq B'
  BY <1>4 DEF IndInv, TypeOK
<1>6. TypeOK'
  <2>1. blocks' \in [B' -> SplitBlocks(B')]
    <3>1. SplitCFGBlocks(cfg) \in [Objects(cfg) -> SplitBlocks(Objects(cfg))]
      BY <1>4, SplitGraphType
    <3>2. B' = Objects(cfg)
      BY <1>1 DEF B, SplitCFGBlocks
    <3> QED BY <1>1, <3>1, <3>2
  <2>2. ret' \in [path : Seq(B'), visited : SUBSET B'] /\ waitsToVisit' \in Seq(B')
    <3>1. ret \in [path : Seq(B), visited : SUBSET B] /\ waitsToVisit \in Seq(B)
      BY DEF IndInv, TypeOK
    <3>2. ret.path \in Seq(B') /\ waitsToVisit \in Seq(B')
      BY <1>5, <3>1, SeqMonotonic
    <3> QED BY <1>2, <1>5, <3>1, <3>2
  <2>3. InfoTyped'
    BY <1>1, PrepareType DEF InfoTyped, B
  <2>4. frames' \in Seq(Frames(B')) /\ currPath' \in Seq(PathEntries(B'))
        /\ paths' \in Seq(Seq(PathEntries(B')))
    BY <1>2, <1>3
  <2>5. waitNextState' \in [visitedWaits' -> [next : B', state : Nat]]
        /\ visitedWaits' \subseteq B' /\ nextStateCount' \in Nat /\ popping' \in BOOLEAN
    BY <1>2, <1>5 DEF IndInv, TypeOK
  <2> QED BY <1>1, <1>2, <1>4, <2>1, <2>2, <2>3, <2>4, <2>5 DEF TypeOK, InfoTyped
<1>7. GraphFixed' /\ CurrentStart' /\ CallersNotAtWait'
  BY <1>1, <1>2 DEF GraphFixed, CurrentStart, CallersNotAtWait
<1>8. Numbered' /\ ResumesAtSuccessor' /\ WaitsAreFresh' /\ PathsStart'
  BY <1>2, <1>3, <1>5 DEF Numbered, ResumesAtSuccessor, WaitsAreFresh, PathsStart
<1>9. QueueAligned'
  BY <1>1, <1>2 DEF IndInv, QueueAligned
<1> QED BY <1>6, <1>7, <1>8, <1>9 DEF IndInv

(***************************************************************************)
(* At the start nothing has been built.                                    *)
(***************************************************************************)
LEMMA InitInv ==
  ASSUME Init
  PROVE  IndInv
<1>1. /\ cfg \in CFGs /\ blocks = Empty /\ pc = "construct" /\ frames = <<>>
      /\ popping = FALSE /\ currPath = <<>> /\ waitsToVisit = <<>> /\ visitedWaits = {}
      /\ waitNextState = Empty /\ nextStateCount = 0 /\ pathInfo = Empty /\ paths = <<>>
  BY DEF Init
<1>2. ret = [path |-> <<>>, visited |-> {}]
  BY DEF Init
<1>3. B = {} /\ IsCFG(cfg)
  BY <1>1, CFGAssumption DEF B, Empty
<1>4. TypeOK
  <2>1. ret \in [path : Seq(B), visited : SUBSET B]
    BY <1>2
  <2>2. blocks \in [B -> SplitBlocks(B)] /\ DOMAIN pathInfo \subseteq B
        /\ pathInfo \in [DOMAIN pathInfo -> Infos(B)]
        /\ waitNextState \in [visitedWaits -> [next : B, state : Nat]]
    BY <1>1, <1>3 DEF Empty
  <2>3. /\ frames \in Seq(Frames(B)) /\ currPath \in Seq(PathEntries(B))
        /\ waitsToVisit \in Seq(B) /\ paths \in Seq(Seq(PathEntries(B)))
    BY <1>1
  <2> QED BY <1>1, <1>3, <2>1, <2>2, <2>3 DEF TypeOK
<1>5. GraphFixed /\ CurrentStart /\ CallersNotAtWait
  BY <1>1 DEF GraphFixed, CurrentStart, CallersNotAtWait
<1>6. Numbered /\ ResumesAtSuccessor /\ WaitsAreFresh /\ PathsStart
  BY <1>1 DEF Numbered, ResumesAtSuccessor, WaitsAreFresh, PathsStart
<1>7. QueueAligned
  BY <1>1 DEF QueueAligned
<1> QED BY <1>4, <1>5, <1>6, <1>7 DEF IndInv

(***************************************************************************)
(* A step that changes nothing keeps the invariant.                        *)
(***************************************************************************)
LEMMA StutterKeepsInv ==
  ASSUME IndInv, UNCHANGED vars
  PROVE  IndInv'
<1>1. /\ cfg' = cfg /\ blocks' = blocks /\ sccfg' = sccfg /\ pc' = pc /\ frames' = frames
      /\ ret' = ret /\ popping' = popping /\ currPath' = currPath
      /\ waitsToVisit' = waitsToVisit /\ visitedWaits' = visitedWaits
      /\ waitNextState' = waitNextState /\ nextStateCount' = nextStateCount
      /\ pathInfo' = pathInfo /\ allPathInfo' = allPathInfo /\ paths' = paths
  BY DEF vars, graph, numbering, results
<1>2. B' = B
  BY <1>1 DEF B
<1>3. TypeOK'
  BY <1>1, <1>2 DEF IndInv, TypeOK
<1>4. GraphFixed' /\ Numbered' /\ ResumesAtSuccessor' /\ QueueAligned'
  BY <1>1, <1>2 DEF IndInv, GraphFixed, Numbered, ResumesAtSuccessor, QueueAligned
<1>5. WaitsAreFresh' /\ CallersNotAtWait'
  BY <1>1 DEF IndInv, WaitsAreFresh, Fresh, CallersNotAtWait, NotAtWait
<1>6. PathsStart' /\ CurrentStart'
  BY <1>1 DEF IndInv, PathsStart, CurrentStart, PathOfState, PathFrom
<1> QED BY <1>3, <1>4, <1>5, <1>6 DEF IndInv
-----------------------------------------------------------------------------
(***************************************************************************)
(* The inductive invariant holds in every reachable state of the search,   *)
(* for every set of control-flow graphs the CFG builder can return.        *)
(***************************************************************************)
THEOREM SearchInvariant == Spec => []IndInv
<1>1. Init => IndInv
  BY InitInv
<1>2. IndInv /\ [Next]_vars => IndInv'
  <2> SUFFICES ASSUME IndInv, [Next]_vars PROVE IndInv'
    OBVIOUS
  <2>1. CASE construct_sccfg
    BY <2>1, ConstructKeepsInv
  <2>2. CASE StartReset
    BY <2>2, StartResetKeepsInv
  <2>3. CASE Visit
    BY <2>3, VisitKeepsInv
  <2>4. CASE Resume
    BY <2>4, ResumeKeepsInv
  <2>5. CASE NextPath
    BY <2>5, NextPathKeepsInv
  <2>6. CASE FinishPaths
    BY <2>6, FinishKeepsInv
  <2>7. CASE Terminated
    BY <2>7, StutterKeepsInv DEF Terminated
  <2>8. CASE UNCHANGED vars
    BY <2>8, StutterKeepsInv
  <2> QED BY <2>1, <2>2, <2>3, <2>4, <2>5, <2>6, <2>7, <2>8 DEF Next
<1> QED BY <1>1, <1>2, PTL DEF Spec

(***************************************************************************)
(* The stacks and lists of dfs_visit_wait hold what the code takes from    *)
(* them: no back() or pop_back() of an empty list, no pointer to a block   *)
(* outside the graph.                                                      *)
(***************************************************************************)
THEOREM TypeCorrect == Spec => []TypeOK
<1>1. IndInv => TypeOK
  BY DEF IndInv
<1> QED BY <1>1, SearchInvariant, PTL

(***************************************************************************)
(* Every wait the search finds leads to a state of its own, whose path     *)
(* starts with what follows the wait, and the reset path starts at the     *)
(* entry: the switch cases and the assignments of next states agree.       *)
(***************************************************************************)
THEOREM CasesFollowWaits == Spec => []CaseFollowsWait
<1>1. IndInv => CaseFollowsWait
  <2> SUFFICES ASSUME IndInv, pc = "done"
               PROVE  /\ Len(paths) = nextStateCount + 1
                      /\ PathFrom(paths[1], sccfg[cfg.entry])
                      /\ \A w \in visitedWaits :
                           /\ blocks[w].nextState \in 1..nextStateCount
                           /\ PathFrom(paths[blocks[w].nextState + 1], blocks[w].successors[1])
                           /\ \A v \in visitedWaits :
                                blocks[v].nextState = blocks[w].nextState => v = w
    BY DEF CaseFollowsWait
  <2>1. Len(paths) = nextStateCount + 1 /\ nextStateCount \in Nat
        /\ paths \in Seq(Seq(PathEntries(B)))
    BY DEF IndInv, QueueAligned, TypeOK
  <2>2. \A w \in visitedWaits : blocks[w].nextState = waitNextState[w].state
    <3>1. blocks = [x \in B |-> [SplitCFGBlocks(cfg)[x] EXCEPT !.nextState =
                     IF x \in visitedWaits THEN waitNextState[x].state ELSE @]]
          /\ visitedWaits \subseteq B /\ IsCFG(cfg)
      BY DEF IndInv, GraphFixed, TypeOK
    <3> SUFFICES ASSUME NEW w \in visitedWaits
                 PROVE  blocks[w].nextState = waitNextState[w].state
      OBVIOUS
    <3>2. w \in B /\ blocks[w] \in SplitBlocks(B)
      BY <3>1 DEF IndInv, TypeOK
    <3>3. blocks[w] = [SplitCFGBlocks(cfg)[w] EXCEPT !.nextState = waitNextState[w].state]
      BY <3>1, <3>2
    <3> QED BY <3>2, <3>3 DEF SplitBlocks
  <2>3. /\ \A w \in visitedWaits : waitNextState[w].state \in 1..nextStateCount
        /\ \A v, w \in visitedWaits : waitNextState[v].state = waitNextState[w].state => v = w
    BY DEF IndInv, Numbered
  <2>4. PathFrom(paths[1], sccfg[cfg.entry])
    <3>1. 1 \in DOMAIN paths /\ 1 - 1 = 0
      BY <2>1
    <3>2. PathOfState(paths[1], 0)
      BY <3>1 DEF IndInv, PathsStart
    <3> QED BY <3>2 DEF PathOfState
  <2>5. ASSUME NEW w \in visitedWaits
        PROVE  PathFrom(paths[blocks[w].nextState + 1], blocks[w].successors[1])
    <3> DEFINE k == waitNextState[w].state
    <3>1. k \in 1..nextStateCount /\ waitNextState[w].next = blocks[w].successors[1]
      BY <2>3 DEF IndInv, ResumesAtSuccessor
    <3>2. k + 1 \in DOMAIN paths /\ k + 1 - 1 = k
      BY <2>1, <3>1
    <3>3. PathOfState(paths[k + 1], k)
      <4> HIDE DEF k
      <4> DEFINE j == k + 1
      <4>1. j \in DOMAIN paths /\ j - 1 = k
        BY <2>1, <3>1, <3>2
      <4> HIDE DEF j
      <4>2. PathOfState(paths[j], j - 1)
        BY <4>1 DEF IndInv, PathsStart
      <4> QED BY <4>1, <4>2 DEF j
    <3>4. PathFrom(paths[k + 1], waitNextState[w].next)
      BY <3>3 DEF PathOfState
    <3> QED BY <2>2, <3>1, <3>4
  <2> QED BY <2>1, <2>2, <2>3, <2>4, <2>5
<1> QED BY <1>1, SearchInvariant, PTL
-----------------------------------------------------------------------------
(***************************************************************************)
(* Induction from 0 to n, for what holds on the set S.                     *)
(***************************************************************************)
LEMMA StepInduction ==
  ASSUME NEW n \in Nat, NEW S, 0 \in S, \A k \in 1..n : k - 1 \in S => k \in S
  PROVE  \A k \in 0..n : k \in S
<1> DEFINE T == {k \in 0..n : k \notin S}
<1> SUFFICES ASSUME T # {} PROVE FALSE
  OBVIOUS
<1>1. T \subseteq Nat
  OBVIOUS
<1>2. PICK k \in T : \A m \in T : k <= m
  BY <1>1, NatMin, Zenon
<1>3. k \in 1..n /\ k - 1 \in 0..n /\ k - 1 < k
  BY <1>2
<1>4. k - 1 \notin T
  BY <1>2, <1>3
<1> QED BY <1>2, <1>3, <1>4

\* One more step from the blocks in s.
Grown(succs, s, stop) == s \cup UNION {succs[x] : x \in s \ stop}

\* f is the sequence of sets whose last one is Reached.
IsGrowth(f, n, succs, bs, stop) ==
  f = [k \in 0..n |-> IF k = 0 THEN bs ELSE Grown(succs, f[k - 1], stop)]

LEMMA GrownType ==
  ASSUME NEW S, NEW succs \in [S -> SUBSET S], NEW s \in SUBSET S, NEW stop
  PROVE  Grown(succs, s, stop) \in SUBSET S /\ s \subseteq Grown(succs, s, stop)
BY DEF Grown

(***************************************************************************)
(* There is such a sequence, so the recursion of Reached defines one.      *)
(***************************************************************************)
LEMMA GrowthExists ==
  ASSUME NEW n \in Nat, NEW S, NEW succs \in [S -> SUBSET S], NEW bs \in SUBSET S, NEW stop
  PROVE  \E f \in [0..n -> SUBSET S] : IsGrowth(f, n, succs, bs, stop)
<1> DEFINE Ok(f, m) == IsGrowth(f, m, succs, bs, stop)
           D == {m \in 0..n : \E f \in [0..m -> SUBSET S] : Ok(f, m)}
<1>1. 0 \in D
  <2> DEFINE g == [k \in 0..0 |-> bs]
  <2>1. g \in [0..0 -> SUBSET S]
    OBVIOUS
  <2>2. Ok(g, 0)
    BY DEF IsGrowth
  <2>3. 0 \in 0..n
    OBVIOUS
  <2> HIDE DEF g, Ok
  <2> QED BY <2>1, <2>2, <2>3, Zenon
<1>2. ASSUME NEW m \in 1..n, m - 1 \in D PROVE m \in D
  <2>1. PICK f \in [0..(m - 1) -> SUBSET S] : Ok(f, m - 1)
    BY <1>2
  <2> DEFINE g == [k \in 0..m |-> IF k = m THEN Grown(succs, f[m - 1], stop) ELSE f[k]]
  <2>2. m - 1 \in 0..(m - 1) /\ m \in 0..n /\ m # 0
    OBVIOUS
  <2>3. Grown(succs, f[m - 1], stop) \in SUBSET S
    BY <2>2, GrownType
  <2>4. g \in [0..m -> SUBSET S]
    BY <2>3
  <2>5. ASSUME NEW k \in 0..m
        PROVE  g[k] = IF k = 0 THEN bs ELSE Grown(succs, g[k - 1], stop)
    <3>1. CASE k = m
      <4>1. k - 1 \in 0..m /\ k - 1 # m /\ k # 0
        BY <3>1
      <4>2. g[k - 1] = f[m - 1] /\ g[k] = Grown(succs, f[m - 1], stop)
        BY <3>1, <4>1
      <4> QED BY <4>1, <4>2
    <3>2. CASE k # m
      <4>1. k \in 0..(m - 1) /\ (k # 0 => k - 1 \in 0..m /\ k - 1 # m)
        BY <3>2
      <4>2. f[k] = IF k = 0 THEN bs ELSE Grown(succs, f[k - 1], stop)
        BY <4>1, <2>1 DEF IsGrowth
      <4>3. g[k] = f[k] /\ (k # 0 => g[k - 1] = f[k - 1])
        BY <3>2, <4>1
      <4> QED BY <4>2, <4>3
    <3> QED BY <3>1, <3>2
  <2>6. Ok(g, m)
    <3>1. g = [k \in 0..m |-> g[k]]
      OBVIOUS
    <3> HIDE DEF g
    <3> QED BY <2>5, <3>1 DEF IsGrowth
  <2> HIDE DEF g, Ok
  <2> QED BY <2>2, <2>4, <2>6, Zenon
<1>3. n \in D
  <2> HIDE DEF D
  <2>1. \A k \in 0..n : k \in D
    BY <1>1, <1>2, StepInduction
  <2> QED BY <2>1
<1> QED BY <1>3, Zenon

(***************************************************************************)
(* Reached is the least set that contains bs and is closed under the       *)
(* successors of blocks that are not in stop.  The sets grow until they    *)
(* are closed, and cannot grow more often than there are blocks.           *)
(***************************************************************************)
LEMMA ReachedIsLeast ==
  ASSUME NEW S, IsFiniteSet(S), NEW succs \in [S -> SUBSET S], NEW bs \in SUBSET S,
         bs # {}, NEW stop
  PROVE  /\ bs \subseteq Reached(succs, bs, stop) /\ Reached(succs, bs, stop) \subseteq S
         /\ \A x \in Reached(succs, bs, stop) \ stop : succs[x] \subseteq Reached(succs, bs, stop)
         /\ \A T \in SUBSET S : bs \subseteq T /\ (\A x \in T \ stop : succs[x] \subseteq T)
                                  => Reached(succs, bs, stop) \subseteq T
<1> DEFINE n == Cardinality(S)
           Eq(f) == IsGrowth(f, n, succs, bs, stop)
           W == CHOOSE f : Eq(f)
           Closed(s) == \A x \in s \ stop : succs[x] \subseteq s
<1>1. n \in Nat /\ DOMAIN succs = S
  BY FS_CardinalityType
<1>2. \E f : Eq(f)
  <2>1. \E f \in [0..n -> SUBSET S] : Eq(f)
    <3> HIDE DEF n
    <3> QED BY <1>1, GrowthExists, Zenon
  <2> HIDE DEF Eq
  <2> QED BY <2>1, Zenon
<1>3. Eq(W)
  <2> HIDE DEF Eq
  <2> QED BY <1>2, Zenon
<1>4. Reached(succs, bs, stop) = W[n]
  BY <1>1, Zenon DEF Reached, IsGrowth, Grown
<1> HIDE DEF W, n
<1>5. W[0] = bs /\ \A k \in 1..n : W[k] = Grown(succs, W[k - 1], stop)
  BY <1>1, <1>3 DEF IsGrowth
<1>6. \A k \in 0..n : W[k] \in SUBSET S /\ bs \subseteq W[k]
  <2> DEFINE D == {k \in 0..n : W[k] \in SUBSET S /\ bs \subseteq W[k]}
  <2>1. 0 \in D
    BY <1>1, <1>5
  <2>2. ASSUME NEW k \in 1..n, k - 1 \in D PROVE k \in D
    <3>1. W[k] = Grown(succs, W[k - 1], stop) /\ k \in 0..n
      BY <1>1, <1>5
    <3> QED BY <2>2, <3>1, GrownType
  <2> HIDE DEF D
  <2>3. \A k \in 0..n : k \in D
    BY <1>1, <2>1, <2>2, StepInduction
  <2> QED BY <2>3 DEF D
<1>7. \A k \in 0..n : Closed(W[k]) \/ Cardinality(W[k]) > k
  <2> DEFINE D == {k \in 0..n : Closed(W[k]) \/ Cardinality(W[k]) > k}
  <2>1. 0 \in D
    <3>1. IsFiniteSet(bs) /\ Cardinality(bs) \in Nat
      BY FS_Subset, FS_CardinalityType
    <3>2. Cardinality(bs) # 0
      BY <3>1, FS_EmptySet
    <3>3. Cardinality(W[0]) > 0
      BY <3>1, <3>2, <1>5
    <3> QED BY <3>3, <1>1
  <2>2. ASSUME NEW k \in 1..n, k - 1 \in D PROVE k \in D
    <3> DEFINE s == W[k - 1]
               t == W[k]
    <3>1. s \in SUBSET S /\ t = Grown(succs, s, stop) /\ k \in 0..n /\ k - 1 \in 0..n
          /\ t \in SUBSET S
      BY <1>1, <1>5, <1>6
    <3>2. Closed(s) \/ Cardinality(s) > k - 1
      BY <2>2
    <3> HIDE DEF s, t
    <3>3. s \subseteq t
      BY <3>1, GrownType
    <3>4. CASE Closed(s)
      <4>1. t = s
        BY <3>1, <3>4 DEF Grown
      <4>2. Closed(t)
        BY <3>4, <4>1
      <4> QED BY <3>1, <4>2 DEF t
    <3>5. CASE ~Closed(s) /\ Cardinality(s) > k - 1
      <4>1. s # t
        BY <3>1, <3>5 DEF Grown
      <4>2. IsFiniteSet(t) /\ IsFiniteSet(s)
        BY <3>1, FS_Subset
      <4>3. Cardinality(s) <= Cardinality(t) /\ Cardinality(s) # Cardinality(t)
        BY <3>3, <4>1, <4>2, FS_Subset
      <4>4. Cardinality(s) \in Nat /\ Cardinality(t) \in Nat
        BY <4>2, FS_CardinalityType
      <4>5. Cardinality(t) > k
        BY <3>5, <4>3, <4>4
      <4> QED BY <3>1, <4>5 DEF t
    <3> QED BY <3>2, <3>4, <3>5
  <2> HIDE DEF D
  <2>3. \A k \in 0..n : k \in D
    BY <1>1, <2>1, <2>2, StepInduction
  <2> QED BY <2>3 DEF D
<1>8. n \in 0..n /\ W[n] \in SUBSET S /\ bs \subseteq W[n]
  BY <1>1, <1>6
<1>9. Closed(W[n])
  <2>1. Cardinality(W[n]) <= n /\ Cardinality(W[n]) \in Nat
    BY <1>8, FS_Subset, FS_CardinalityType DEF n
  <2> QED BY <1>1, <1>7, <1>8, <2>1
<1>10. ASSUME NEW T \in SUBSET S, bs \subseteq T, \A x \in T \ stop : succs[x] \subseteq T
       PROVE  W[n] \subseteq T
  <2> DEFINE D == {k \in 0..n : W[k] \subseteq T}
  <2>1. 0 \in D
    BY <1>1, <1>5, <1>10
  <2>2. ASSUME NEW k \in 1..n, k - 1 \in D PROVE k \in D
    <3>1. W[k] = Grown(succs, W[k - 1], stop) /\ k \in 0..n /\ W[k - 1] \subseteq T
      BY <1>1, <1>5, <2>2
    <3>2. W[k] \subseteq T
      BY <1>10, <3>1 DEF Grown
    <3> QED BY <3>1, <3>2
  <2> HIDE DEF D
  <2>3. \A k \in 0..n : k \in D
    BY <1>1, <2>1, <2>2, StepInduction
  <2> QED BY <1>8, <2>3 DEF D
<1> QED BY <1>4, <1>8, <1>9, <1>10
-----------------------------------------------------------------------------
(***************************************************************************)
(* A graph of finitely many CFG blocks is cut into finitely many pieces.   *)
(***************************************************************************)
LEMMA ObjectsFinite ==
  ASSUME NEW c, IsCFG(c)
  PROVE  IsFiniteSet(Objects(c))
<1> DEFINE Pieces(b) == {<<b, i>> : i \in splitBlock(c.elems[b])}
           All == {Pieces(b) : b \in BlockIDs(c)}
<1>1. ASSUME NEW b \in BlockIDs(c) PROVE IsFiniteSet(Pieces(b))
  <2> DEFINE T == splitBlock(c.elems[b])
             g == [i \in T |-> <<b, i>>]
  <2>1. c.elems[b] \in Seq(Elements) /\ 1 \in T
    BY DEF IsCFG, splitBlock
  <2>2. IsFiniteSet(T)
    BY <2>1, SplitPositions
  <2>3. g \in Surjection(T, Pieces(b))
    BY DEF Surjection
  <2> QED BY <2>2, <2>3, FS_Surjection
<1>2. IsFiniteSet(All)
  <2> DEFINE g == [b \in BlockIDs(c) |-> Pieces(b)]
  <2>1. g \in Surjection(BlockIDs(c), All)
    BY DEF Surjection
  <2>2. IsFiniteSet(BlockIDs(c))
    BY DEF IsCFG
  <2> QED BY <2>1, <2>2, FS_Surjection
<1>3. \A T \in All : IsFiniteSet(T)
  BY <1>1
<1>4. Objects(c) = UNION All
  BY DEF Objects
<1> HIDE DEF All
<1> QED BY <1>2, <1>3, <1>4, FS_UNION

(***************************************************************************)
(* The graph as the properties see it, once construct_sccfg has built it.  *)
(***************************************************************************)
LEMMA GraphFacts ==
  ASSUME TypeOK, GraphFixed, pc \notin {"construct", "done"}
  PROVE  /\ GraphTyped /\ IsFiniteSet(B) /\ Entry \in B
         /\ Succs \in [B -> SUBSET B] /\ Waits \subseteq B /\ Ends \subseteq B
         /\ \A x \in B : Succs[x] = ToSet(blocks[x].successors)
         /\ \A x \in Ends : Succs[x] = {}
         /\ \A x \in Waits : Len(blocks[x].successors) = 1 /\ x \notin Ends
<1>1. IsCFG(cfg) /\ sccfg = SccfgMap(SplitCFGBlocks(cfg)) /\ blocks = SplitCFGBlocks(cfg)
  BY DEF TypeOK, GraphFixed
<1>2. B = Objects(cfg) /\ GraphTyped
  BY <1>1 DEF B, SplitCFGBlocks, TypeOK, GraphTyped
<1>3. IsFiniteSet(B)
  BY <1>1, <1>2, ObjectsFinite
<1>4. Entry \in B
  BY <1>1, <1>2, EntryInMap DEF Entry
<1>5. \A x \in B : blocks[x].successors \in Seq(B)
  BY <1>2 DEF GraphTyped, SplitBlocks
<1>6. \A x \in B : ToSet(blocks[x].successors) \in SUBSET B
  BY <1>5 DEF ToSet
<1>7. Succs \in [B -> SUBSET B] /\ \A x \in B : Succs[x] = ToSet(blocks[x].successors)
  BY <1>6 DEF Succs
<1>8. \A x \in Ends : Succs[x] = {}
  BY <1>7 DEF Ends, ToSet
<1>9. ASSUME NEW x \in Waits PROVE Len(blocks[x].successors) = 1 /\ x \notin Ends
  <2>1. Len(blocks[x].successors) = 1
    BY <1>1, <1>2, WaitHasOneSuccessor DEF Waits
  <2> QED BY <2>1 DEF Ends
<1> QED BY <1>2, <1>3, <1>4, <1>7, <1>8, <1>9 DEF Waits, Ends
-----------------------------------------------------------------------------
(***************************************************************************)
(* The sets of stack entries and marks, as calls and entries come and go.  *)
(***************************************************************************)
LEMMA SetOfAppend ==
  ASSUME NEW S, NEW s \in Seq(S), NEW e \in S
  PROVE  ToSet(Append(s, e)) = ToSet(s) \cup {e}
<1>1. /\ DOMAIN s = 1..Len(s) /\ DOMAIN Append(s, e) = 1..(Len(s) + 1) /\ Len(s) \in Nat
      /\ \A i \in 1..Len(s) : Append(s, e)[i] = s[i]
      /\ Append(s, e)[Len(s) + 1] = e
  OBVIOUS
<1>2. \A i \in 1..(Len(s) + 1) : i \in 1..Len(s) \/ i = Len(s) + 1
  BY <1>1
<1>3. \A i \in 1..Len(s) : i \in 1..(Len(s) + 1)
  BY <1>1
<1>4. Len(s) + 1 \in 1..(Len(s) + 1)
  BY <1>1
<1> DEFINE a == Append(s, e)
<1> HIDE DEF a
<1>5. ToSet(a) = ToSet(s) \cup {e}
  BY <1>1, <1>2, <1>3, <1>4 DEF ToSet, a
<1> QED BY <1>5 DEF a

LEMMA AppendLast ==
  ASSUME NEW S, NEW s \in Seq(S), s # <<>>
  PROVE  s = Append(Front(s), Last(s)) /\ Front(s) \in Seq(S) /\ Last(s) \in S
<1>1. /\ Front(s) \in Seq(S) /\ Last(s) \in S /\ Len(s) \in Nat \ {0}
      /\ Len(Front(s)) = Len(s) - 1 /\ Last(s) = s[Len(s)]
      /\ \A i \in 1..(Len(s) - 1) : Front(s)[i] = s[i]
  BY FrontLast
<1> DEFINE a == Append(Front(s), Last(s))
<1>2. /\ a \in Seq(S) /\ Len(a) = Len(s)
      /\ \A i \in 1..(Len(s) - 1) : a[i] = s[i]
      /\ a[Len(s)] = s[Len(s)]
  <2>1. /\ a \in Seq(S) /\ Len(a) = Len(Front(s)) + 1 /\ Len(Front(s)) \in Nat
        /\ \A i \in 1..Len(Front(s)) : a[i] = Front(s)[i]
        /\ a[Len(Front(s)) + 1] = Last(s)
    BY <1>1, AppendFront
  <2> HIDE DEF a
  <2> QED BY <1>1, <2>1
<1> HIDE DEF a
<1>3. \A i \in 1..Len(s) : a[i] = s[i]
  BY <1>1, <1>2
<1>4. a = s
  BY <1>2, <1>3, SeqEqual
<1> QED BY <1>1, <1>4 DEF a

LEMMA SetOfLast ==
  ASSUME NEW S, NEW s \in Seq(S), s # <<>>
  PROVE  ToSet(s) = ToSet(Front(s)) \cup {Last(s)}
<1> DEFINE r == Front(s)
           e == Last(s)
<1>1. s = Append(r, e) /\ r \in Seq(S) /\ e \in S
  BY AppendLast
<1> HIDE DEF r, e
<1>2. ToSet(Append(r, e)) = ToSet(r) \cup {e}
  BY <1>1, SetOfAppend
<1> QED BY <1>1, <1>2, Zenon DEF r, e

LEMMA FrameSets ==
  ASSUME NEW S, NEW F \in Seq(S), NEW f \in S
  PROVE  /\ Entries(Append(F, f)) = Entries(F) \cup ToSet(f.toVisit)
         /\ Below(Append(F, f)) = Below(F) \cup ToSet(Front(f.toVisit))
         /\ Marks(Append(F, f)) = Marks(F) \cup f.visited \cup f.saved
<1> DEFINE a == Append(F, f)
<1>1. /\ DOMAIN F = 1..Len(F) /\ DOMAIN a = 1..(Len(F) + 1) /\ Len(F) \in Nat
      /\ \A i \in 1..Len(F) : a[i] = F[i]
      /\ a[Len(F) + 1] = f
  OBVIOUS
<1> HIDE DEF a
<1>2. DOMAIN a = DOMAIN F \cup {Len(F) + 1} /\ \A i \in DOMAIN F : a[i] = F[i]
  BY <1>1
<1>3. Entries(a) = Entries(F) \cup ToSet(f.toVisit)
  BY <1>1, <1>2 DEF Entries
<1>4. Below(a) = Below(F) \cup ToSet(Front(f.toVisit))
  BY <1>1, <1>2 DEF Below
<1>5. Marks(a) = Marks(F) \cup f.visited \cup f.saved
  BY <1>1, <1>2 DEF Marks
<1> QED BY <1>3, <1>4, <1>5 DEF a
-----------------------------------------------------------------------------
(***************************************************************************)
(* How an iteration of dfs_visit_wait ends.                                *)
(***************************************************************************)
\* All stack entries but the one the iteration is at.
Rest == Entries(Front(frames)) \cup ToSet(Front(Last(frames).toVisit))
TopEntry == Last(Last(frames).toVisit)
CallerMarks == Marks(Front(frames))

\* The entry is popped; the innermost call has marked the blocks in seen.
Pops(seen) ==
  /\ popping' = TRUE /\ pc' \in {"visit", "return"}
  /\ Entries(frames') = Rest
  /\ Below(frames') \subseteq Below(frames)
  /\ Marks(frames') \subseteq CallerMarks \cup seen
  /\ ret'.visited \subseteq ret.visited \cup seen
  /\ pc' = "return" => Marks(frames') \subseteq CallerMarks
  /\ pc' = "visit" => /\ Marks(Front(frames')) \subseteq CallerMarks
                      /\ Last(Last(frames').toVisit) \in Below(frames)

\* The entry becomes e and the search goes on to y, which may have no successor.
GoesTo(y, e, seen, special) ==
  /\ \/ pc' = "visit" /\ NewTop' = {y} /\ popping' = FALSE
        /\ Entries(frames') = Rest \cup {e} \cup {[block |-> y, it |-> 1]}
     \/ pc' = "return" /\ NewTop' = {} /\ y \in Ends /\ Entries(frames') = Rest \cup {e}
  /\ Below(frames') \subseteq Below(frames) \cup (IF special THEN {} ELSE {e})
  /\ Marks(frames') \subseteq CallerMarks \cup seen \cup {y}
  /\ ret'.visited \subseteq ret.visited \cup seen \cup {y}
  /\ pc' = "visit" => Marks(Front(frames')) \subseteq Marks(frames')

(***************************************************************************)
(* The frames of the calls, taken apart.                                   *)
(***************************************************************************)
LEMMA FramesApart ==
  ASSUME frames \in Seq(Frames(B)), frames # <<>>
  PROVE  /\ Front(frames) \in Seq(Frames(B)) /\ Last(frames) \in Frames(B)
         /\ Last(frames).toVisit \in Seq(StackEntries(B)) /\ Last(frames).toVisit # <<>>
         /\ Front(Last(frames).toVisit) \in Seq(StackEntries(B))
         /\ TopEntry \in StackEntries(B)
         /\ Entries(frames) = Rest \cup {TopEntry}
         /\ Below(frames) = Below(Front(frames)) \cup ToSet(Front(Last(frames).toVisit))
         /\ Marks(frames) = CallerMarks \cup Last(frames).visited \cup Last(frames).saved
<1> DEFINE f == Last(frames)
           F == Front(frames)
<1>1. F \in Seq(Frames(B)) /\ f \in Frames(B) /\ frames = Append(F, f)
  BY AppendLast
<1>2. f.toVisit \in Seq(StackEntries(B)) /\ f.toVisit # <<>>
  BY <1>1 DEF Frames
<1>3. /\ Front(f.toVisit) \in Seq(StackEntries(B)) /\ Last(f.toVisit) \in StackEntries(B)
      /\ f.toVisit = Append(Front(f.toVisit), Last(f.toVisit))
  BY <1>2, AppendLast
<1>4. ToSet(f.toVisit) = ToSet(Front(f.toVisit)) \cup {Last(f.toVisit)}
  BY <1>2, SetOfLast
<1>5. /\ Entries(Append(F, f)) = Entries(F) \cup ToSet(f.toVisit)
      /\ Below(Append(F, f)) = Below(F) \cup ToSet(Front(f.toVisit))
      /\ Marks(Append(F, f)) = Marks(F) \cup f.visited \cup f.saved
  BY <1>1, FrameSets
<1> QED BY <1>1, <1>2, <1>3, <1>4, <1>5 DEF Rest, TopEntry, CallerMarks

LEMMA PopMoves ==
  ASSUME frames \in Seq(Frames(B)), frames # <<>>, NEW f \in Frames(B),
         NEW e \in StackEntries(B), f.toVisit = Append(Front(Last(frames).toVisit), e),
         NEW hasWait \in BOOLEAN, NEW found \in BOOLEAN, ~(found /\ ~hasWait),
         addSuccessorToVisitOrPop(f, hasWait, found)
  PROVE  Pops(f.visited \cup f.saved)
<1> DEFINE r == Front(Last(frames).toVisit)
           F == Front(frames)
           f2 == [f EXCEPT !.toVisit = r]
<1>1. r \in Seq(StackEntries(B)) /\ F \in Seq(Frames(B)) /\ Rest = Entries(F) \cup ToSet(r)
      /\ Below(frames) = Below(F) \cup ToSet(r) /\ CallerMarks = Marks(F)
  BY FramesApart DEF Rest, CallerMarks
<1> HIDE DEF r, F
<1>2. Front(f.toVisit) = r
  BY <1>1, AppendFront DEF r
<1>3. /\ popping' = TRUE
      /\ IF r = <<>>
           THEN /\ frames' = F /\ pc' = "return"
                /\ ret' = [path |-> f.local, visited |-> f.visited]
           ELSE /\ frames' = Append(F, f2) /\ pc' = "visit" /\ ret' = ret
  BY <1>2 DEF addSuccessorToVisitOrPop, F
<1>4. CASE r = <<>>
  <2>1. ToSet(r) = {}
    BY <1>4 DEF ToSet
  <2>2. ret'.visited = f.visited /\ frames' = F /\ pc' = "return"
    BY <1>3, <1>4
  <2> QED BY <1>1, <1>3, <2>1, <2>2 DEF Pops
<1>5. CASE r # <<>>
  <2>1. f2 \in Frames(B) /\ f2.toVisit = r /\ f2.visited = f.visited /\ f2.saved = f.saved
    BY <1>1, <1>5 DEF Frames
  <2>2. frames' = Append(F, f2) /\ pc' = "visit" /\ ret' = ret
    BY <1>3, <1>5
  <2> HIDE DEF f2
  <2>3. Front(frames') = F /\ Last(frames') = f2
    BY <1>1, <2>1, <2>2, AppendFront
  <2>4. /\ Front(r) \in Seq(StackEntries(B)) /\ Last(r) \in StackEntries(B)
        /\ r = Append(Front(r), Last(r))
    BY <1>1, <1>5, AppendLast
  <2>5. ToSet(r) = ToSet(Front(r)) \cup {Last(r)}
    BY <1>1, <1>5, SetOfLast
  <2>6. /\ Entries(frames') = Entries(F) \cup ToSet(r)
        /\ Below(frames') = Below(F) \cup ToSet(Front(r))
        /\ Marks(frames') = Marks(F) \cup f.visited \cup f.saved
    BY <1>1, <2>1, <2>2, FrameSets
  <2> QED BY <1>1, <1>3, <2>1, <2>2, <2>3, <2>5, <2>6 DEF Pops
<1> QED BY <1>4, <1>5

LEMMA PushMoves ==
  ASSUME frames \in Seq(Frames(B)), frames # <<>>, NEW f \in Frames(B),
         NEW e \in StackEntries(B), f.toVisit = Append(Front(Last(frames).toVisit), e),
         addSuccessorToVisitOrPop(f, FALSE, TRUE)
  PROVE  GoesTo(f.bb, e, f.visited \cup f.saved, FALSE)
<1> DEFINE r == Front(Last(frames).toVisit)
           F == Front(frames)
           new == [block |-> f.bb, it |-> 1]
           u == f.toVisit
           tv == Append(u, new)
           f2 == [f EXCEPT !.toVisit = tv]
<1>1. r \in Seq(StackEntries(B)) /\ F \in Seq(Frames(B)) /\ Rest = Entries(F) \cup ToSet(r)
      /\ Below(frames) = Below(F) \cup ToSet(r) /\ CallerMarks = Marks(F)
  BY FramesApart DEF Rest, CallerMarks
<1>2. new \in StackEntries(B) /\ new.block = f.bb
  BY DEF StackEntries, Frames
<1>3. u \in Seq(StackEntries(B)) /\ ToSet(u) = ToSet(r) \cup {e}
  BY <1>1, AppendFront, SetOfAppend
<1> HIDE DEF r, F, new, u
<1>4. /\ tv \in Seq(StackEntries(B)) /\ tv # <<>> /\ Last(tv) = new /\ Front(tv) = u
  BY <1>2, <1>3, AppendFront
<1>5. ToSet(tv) = ToSet(r) \cup {e} \cup {new}
  BY <1>2, <1>3, SetOfAppend
<1>6. frames' = Append(F, f2) /\ pc' = "visit" /\ ret' = ret /\ popping' = FALSE
  BY <1>4 DEF addSuccessorToVisitOrPop, F, new, u
<1> HIDE DEF tv
<1>7. f2 \in Frames(B) /\ f2.toVisit = tv /\ f2.visited = f.visited /\ f2.saved = f.saved
  BY <1>4 DEF Frames
<1> HIDE DEF f2
<1>8. Front(frames') = F /\ Last(frames') = f2
  BY <1>1, <1>6, <1>7, AppendFront
<1>9. /\ Entries(frames') = Entries(F) \cup ToSet(tv)
      /\ Below(frames') = Below(F) \cup ToSet(u)
      /\ Marks(frames') = Marks(F) \cup f.visited \cup f.saved
  BY <1>1, <1>4, <1>6, <1>7, FrameSets
<1>10. NewTop' = {f.bb}
  BY <1>2, <1>4, <1>6, <1>7, <1>8 DEF NewTop
<1>11. Entries(frames') = Rest \cup {e} \cup {[block |-> f.bb, it |-> 1]}
  BY <1>1, <1>5, <1>9 DEF new
<1> QED BY <1>1, <1>3, <1>6, <1>8, <1>9, <1>10, <1>11 DEF GoesTo

\* A call starts at x with the blocks in visited marked, made by the calls fs.
Starts(fs, x, visited) ==
  \/ /\ pc' = "visit" /\ NewTop' = {x} /\ popping' = FALSE /\ ret' = ret
     /\ Entries(frames') = Entries(fs) \cup {[block |-> x, it |-> 1]}
     /\ Below(frames') = Below(fs)
     /\ Marks(frames') = Marks(fs) \cup visited \cup {x}
     /\ Marks(Front(frames')) = Marks(fs)
  \/ /\ pc' = "return" /\ NewTop' = {} /\ x \in Ends /\ frames' = fs
     /\ ret'.visited = visited

LEMMA CallMoves ==
  ASSUME NEW fs \in Seq(Frames(B)), NEW x \in B, NEW visited \in SUBSET B,
         Call(fs, x, visited)
  PROVE  Starts(fs, x, visited)
<1>1. CASE blocks[x].successors = <<>>
  <2>1. frames' = fs /\ pc' = "return" /\ ret' = [path |-> <<>>, visited |-> visited]
    BY <1>1 DEF Call
  <2>2. NewTop' = {} /\ x \in Ends
    BY <1>1, <2>1 DEF NewTop, Ends
  <2> QED BY <2>1, <2>2 DEF Starts
<1>2. CASE blocks[x].successors # <<>>
  <2> DEFINE e == [block |-> x, it |-> 1]
             tv == <<e>>
             f == [bb |-> x, visited |-> visited \cup {x}, toVisit |-> tv,
                   local |-> <<>>, saved |-> {}, id |-> 0, branch |-> "none"]
  <2>1. frames' = Append(fs, f) /\ pc' = "visit" /\ popping' = FALSE /\ ret' = ret
    BY <1>2 DEF Call
  <2>2. e \in StackEntries(B) /\ e.block = x
    BY DEF StackEntries
  <2>3. tv \in Seq(StackEntries(B)) /\ tv # <<>> /\ Last(tv) = e /\ tv = Append(<<>>, e)
        /\ <<>> \in Seq(StackEntries(B)) /\ <<>> \in Seq(B)
    BY <2>2 DEF Last
  <2>4. ToSet(tv) = {e} /\ Front(tv) = <<>> /\ ToSet(<<>>) = {}
    <3>1. ToSet(<<>>) = {}
      BY DEF ToSet
    <3>2. ToSet(tv) = {e}
      BY DEF ToSet
    <3>3. Front(tv) = <<>>
      <4>1. Front(tv) \in Seq(StackEntries(B)) /\ Len(Front(tv)) = Len(tv) - 1 /\ Len(tv) = 1
        BY <2>3, FrontLast
      <4> QED BY <4>1
    <3> QED BY <3>1, <3>2, <3>3
  <2>5. f.toVisit = tv /\ f.visited = visited \cup {x} /\ f.saved = {}
    OBVIOUS
  <2> HIDE DEF e, tv
  <2>6. f \in Frames(B)
    BY <2>3 DEF Frames
  <2> HIDE DEF f
  <2>7. Front(frames') = fs /\ Last(frames') = f
    BY <2>1, <2>6, AppendFront
  <2>8. /\ Entries(frames') = Entries(fs) \cup {e}
        /\ Below(frames') = Below(fs)
        /\ Marks(frames') = Marks(fs) \cup visited \cup {x}
    <3>1. /\ Entries(Append(fs, f)) = Entries(fs) \cup ToSet(f.toVisit)
          /\ Below(Append(fs, f)) = Below(fs) \cup ToSet(Front(f.toVisit))
          /\ Marks(Append(fs, f)) = Marks(fs) \cup f.visited \cup f.saved
      BY <2>6, FrameSets
    <3> QED BY <2>1, <2>4, <2>5, <3>1
  <2>9. NewTop' = {x}
    BY <2>1, <2>2, <2>3, <2>5, <2>7 DEF NewTop
  <2> QED BY <2>1, <2>7, <2>8, <2>9 DEF Starts, e
<1> QED BY <1>1, <1>2

LEMMA RecurseMoves ==
  ASSUME frames \in Seq(Frames(B)), frames # <<>>, NEW f \in Frames(B),
         NEW e \in StackEntries(B), f.toVisit = Append(Front(Last(frames).toVisit), e),
         NEW x \in B, Recurse(f, x)
  PROVE  GoesTo(f.bb, e, f.visited \cup f.saved \cup {x}, TRUE)
<1> DEFINE r == Front(Last(frames).toVisit)
           F == Front(frames)
           f2 == [f EXCEPT !.branch = BranchOf(x, f.bb)]
           fs == Append(F, f2)
<1>1. r \in Seq(StackEntries(B)) /\ F \in Seq(Frames(B)) /\ Rest = Entries(F) \cup ToSet(r)
      /\ Below(frames) = Below(F) \cup ToSet(r) /\ CallerMarks = Marks(F)
  BY FramesApart DEF Rest, CallerMarks
<1>2. f.bb \in B /\ f.saved \cup {x} \in SUBSET B /\ f.visited \in SUBSET B
  BY DEF Frames
<1>3. Call(fs, f.bb, f.saved \cup {x})
  BY DEF Recurse
<1>4. BranchOf(x, f.bb) \in {"none", "true", "false"}
  BY DEF BranchOf
<1>5. f2 \in Frames(B) /\ f2.toVisit = f.toVisit /\ f2.visited = f.visited /\ f2.saved = f.saved
  BY <1>4 DEF Frames
<1> HIDE DEF r, F, f2
<1>6. ToSet(f.toVisit) = ToSet(r) \cup {e} /\ Front(f.toVisit) = r
  BY <1>1, SetOfAppend, AppendFront DEF r
<1>7. fs \in Seq(Frames(B))
  BY <1>1, <1>5, AppendFront
<1>8. /\ Entries(fs) = Entries(F) \cup ToSet(f2.toVisit)
      /\ Below(fs) = Below(F) \cup ToSet(Front(f2.toVisit))
      /\ Marks(fs) = Marks(F) \cup f2.visited \cup f2.saved
  <2>1. F \in Seq(Frames(B)) /\ f2 \in Frames(B)
    BY <1>1, <1>5
  <2> QED BY <2>1, FrameSets
<1>9. /\ Entries(fs) = Rest \cup {e}
      /\ Below(fs) = Below(frames)
      /\ Marks(fs) = CallerMarks \cup f.visited \cup f.saved
  BY <1>1, <1>5, <1>6, <1>8
<1> HIDE DEF fs
<1>10. Starts(fs, f.bb, f.saved \cup {x})
  BY <1>2, <1>3, <1>7, CallMoves
<1>11. CASE pc' = "visit"
  BY <1>9, <1>10, <1>11 DEF Starts, GoesTo
<1>12. CASE pc' # "visit"
  BY <1>9, <1>10, <1>12 DEF Starts, GoesTo
<1> QED BY <1>11, <1>12

(***************************************************************************)
(* What getUnvisitedSuccessor passes over has been visited.                *)
(***************************************************************************)
Passes(x, it, visited, s) ==
  /\ s.found => /\ s.it - 1 \in DOMAIN blocks[x].successors
                /\ s.bb = blocks[x].successors[s.it - 1] /\ s.visited = visited \cup {s.bb}
                /\ s.it \in Nat /\ it < s.it
                /\ \A k \in it..(s.it - 2) : blocks[x].successors[k] \in visited
  /\ ~s.found => /\ s.visited = visited
                 /\ \A k \in it..Len(blocks[x].successors) : blocks[x].successors[k] \in visited

LEMMA UnvisitedPasses ==
  ASSUME GraphTyped, NEW x \in B, NEW it \in Nat \ {0}, NEW visited \in SUBSET B, NEW bb \in B
  PROVE  Passes(x, it, visited, getUnvisitedSuccessor(x, it, visited, bb))
<1> DEFINE s == getUnvisitedSuccessor(x, it, visited, bb)
           u == blocks[x].successors
           fresh == {j \in it..Len(u) : u[j] \notin visited}
           j == CHOOSE j \in fresh : \A k \in fresh : j <= k
<1>1. u \in Seq(B) /\ Len(u) \in Nat /\ DOMAIN u = 1..Len(u)
  BY DEF GraphTyped, SplitBlocks
<1>2. CASE fresh # {}
  <2>1. fresh \subseteq Nat
    BY <1>1
  <2>2. j \in fresh /\ \A k \in fresh : j <= k
    BY <1>2, <2>1, NatMin
  <2>3. s = [found |-> TRUE, it |-> j + 1, visited |-> visited \cup {u[j]}, bb |-> u[j]]
    BY <1>2 DEF getUnvisitedSuccessor
  <2> HIDE DEF j, u, s
  <2>4. j \in it..Len(u) /\ j \in Nat
    BY <1>1, <2>2
  <2>5. \A k \in it..(j - 1) : u[k] \in visited
    BY <1>1, <2>2, <2>4
  <2>6. s.found /\ s.it = j + 1 /\ s.visited = visited \cup {s.bb} /\ s.bb = u[j]
    BY <2>3
  <2>7. s.it - 1 = j /\ s.it - 2 = j - 1
    BY <2>4, <2>6
  <2>8. Passes(x, it, visited, s)
    BY <1>1, <2>4, <2>5, <2>6, <2>7 DEF u, Passes
  <2> QED BY <2>8 DEF s
<1>3. CASE fresh = {}
  <2>1. s.found = FALSE /\ s.visited = visited
    BY <1>3 DEF getUnvisitedSuccessor
  <2> HIDE DEF s
  <2>2. Passes(x, it, visited, s)
    BY <1>3, <2>1 DEF Passes
  <2> QED BY <2>2 DEF s
<1> QED BY <1>2, <1>3

\* What the innermost call has marked.
Own == Last(frames).visited \cup Last(frames).saved

\* The search goes on to the next successor of the block it is at that the
\* innermost call has not visited; or there is none.
Advances ==
  \E j \in DOMAIN blocks[Top].successors :
    /\ TopEntry.it <= j
    /\ \A k \in TopEntry.it..(j - 1) : blocks[Top].successors[k] \in Own
    /\ GoesTo(blocks[Top].successors[j], [block |-> Top, it |-> j + 1], Own \cup {Top},
              isSpecial(cfg, blocks, Top))
Exhausts ==
  \A k \in TopEntry.it..Len(blocks[Top].successors) : blocks[Top].successors[k] \in Own

LEMMA VisitMoves ==
  ASSUME SearchInv, Visit
  PROVE  /\ Top \in B /\ TopEntry.block = Top
         /\ \/ Top \notin Waits /\ Advances
            \/ Top \notin Waits /\ Exhausts /\ Pops(Own)
            \/ Top \in Waits /\ Pops(Own \cup Succs[Top])
<1> DEFINE f  == Last(frames)
           t  == Last(f.toVisit)
           x  == t.block
           w  == IF blocks[x].hasWait
                   THEN getUnvisitedSuccessor(x, t.it, f.visited, f.bb)
                   ELSE [found |-> FALSE, it |-> t.it, visited |-> f.visited, bb |-> f.bb]
           s  == getUnvisitedSuccessor(x, w.it, w.visited, w.bb)
           e  == [block |-> x, it |-> s.it]
           tv == Append(Front(f.toVisit), e)
           loc == IF popping THEN f.local ELSE Append(f.local, x)
           idx == IF popping THEN 0 ELSE Len(currPath) + 1
           f1 == [f EXCEPT !.bb = s.bb, !.visited = s.visited, !.saved = w.visited,
                           !.toVisit = tv, !.local = loc, !.id = idx]
           Step == [found : BOOLEAN, it : Nat \ {0}, visited : SUBSET B, bb : B]
<1>1. pc = "visit" /\ frames # <<>> /\ popping \in BOOLEAN /\ Len(currPath) \in Nat
  <2>1. pc = "visit"
    BY DEF Visit
  <2>2. popping \in BOOLEAN /\ frames # <<>> /\ currPath \in Seq(PathEntries(B))
    BY <2>1 DEF SearchInv, TypeOK
  <2>3. Len(currPath) \in Nat
    BY <2>2, LenProperties, Zenon
  <2> QED BY <2>1, <2>2, <2>3, Zenon
<1>2. /\ GraphTyped /\ frames \in Seq(Frames(B))
      /\ \A y \in B : blocks[y].hasWait \in BOOLEAN
      /\ \A y \in B : blocks[y].hasWait => Len(blocks[y].successors) = 1
      /\ \A y \in B : Succs[y] = ToSet(blocks[y].successors)
  <2>1. GraphTyped /\ frames \in Seq(Frames(B)) /\ \A y \in B : blocks[y].hasWait \in BOOLEAN
    BY <1>1, SearchGraph DEF SearchInv, TypeOK
  <2>2. \A y \in B : Succs[y] = ToSet(blocks[y].successors)
    BY <1>1, GraphFacts, Zenon DEF SearchInv
  <2>3. \A y \in Waits : Len(blocks[y].successors) = 1
    BY <1>1, GraphFacts, Zenon DEF SearchInv
  <2> QED BY <2>1, <2>2, <2>3 DEF Waits
<1>3. f \in Frames(B) /\ t \in StackEntries(B) /\ Front(f.toVisit) \in Seq(StackEntries(B))
      /\ x \in B /\ x = Top /\ t = TopEntry /\ TopEntry.block = Top
      /\ (blocks[x].hasWait => t.it = 1)
  <2>1. /\ Last(frames) \in Frames(B) /\ TopEntry \in StackEntries(B) /\ Top \in B
        /\ (blocks[Top].hasWait => TopEntry.it = 1)
    BY <1>1, TopOfStack, Zenon DEF TopEntry
  <2>2. Front(Last(frames).toVisit) \in Seq(StackEntries(B))
    BY <1>1, <1>2, FramesApart, Zenon
  <2>3. x = Top /\ t = TopEntry /\ TopEntry.block = Top
    BY Zenon DEF Top, TopEntry
  <2> QED BY <2>1, <2>2, <2>3
<1>4. IF isSpecial(cfg, blocks, x) /\ s.found
        THEN Recurse(f1, x)
        ELSE addSuccessorToVisitOrPop(f1, blocks[x].hasWait, s.found)
  BY DEF Visit
<1>5. Own = f.visited \cup f.saved /\ isSpecial(cfg, blocks, x) \in BOOLEAN
  BY <1>2, <1>3 DEF Own, isSpecial, isConditional, GraphTyped, SplitBlocks
<1> HIDE DEF f, t
<1>6. f.visited \in SUBSET B /\ f.bb \in B /\ f.local \in Seq(B) /\ f.saved \in SUBSET B
      /\ t.it \in Nat \ {0} /\ f.branch \in {"none", "true", "false"}
  BY <1>3 DEF Frames, StackEntries
<1> HIDE DEF x
<1>7. w \in Step
  <2>1. CASE blocks[x].hasWait
    <3>1. w = getUnvisitedSuccessor(x, t.it, f.visited, f.bb)
      BY <2>1
    <3> QED BY <1>2, <1>3, <1>6, <3>1, UnvisitedType
  <2>2. CASE ~blocks[x].hasWait
    BY <1>6, <2>2
  <2> QED BY <2>1, <2>2
<1>8. ~blocks[x].hasWait => w.it = t.it /\ w.visited = f.visited /\ w.bb = f.bb
  OBVIOUS
<1>9. blocks[x].hasWait => w.visited \subseteq f.visited \cup Succs[x] /\ w.it = 2
  <2> SUFFICES ASSUME blocks[x].hasWait
               PROVE  w.visited \subseteq f.visited \cup Succs[x] /\ w.it = 2
    OBVIOUS
  <2>1. Len(blocks[x].successors) = 1 /\ t.it = 1
    BY <1>2, <1>3
  <2>2. w = getUnvisitedSuccessor(x, 1, f.visited, f.bb)
    BY <2>1
  <2> HIDE DEF w, Step
  <2>3. getUnvisitedSuccessor(x, 1, f.visited, f.bb).it = 2
    BY <1>3, <1>6, <2>1, UnvisitedOfWait, ZenonT(30)
  <2>4. Passes(x, 1, f.visited, w)
    BY <1>2, <1>3, <1>6, <2>2, UnvisitedPasses
  <2>5. w.found => w.bb \in Succs[x]
    BY <1>2, <1>3, <2>4 DEF ToSet, Passes
  <2> QED BY <2>2, <2>3, <2>4, <2>5 DEF Passes
<1> HIDE DEF w
<1>10. w.it \in Nat \ {0} /\ w.visited \in SUBSET B /\ w.bb \in B
  BY <1>7
<1>11. s \in Step
  BY <1>2, <1>3, <1>10, UnvisitedType
<1>12. Passes(x, w.it, w.visited, s)
  BY <1>2, <1>3, <1>10, UnvisitedPasses
<1>13. blocks[x].hasWait => s.found = FALSE
  <2> SUFFICES ASSUME blocks[x].hasWait PROVE s.found = FALSE
    OBVIOUS
  <2>1. Len(blocks[x].successors) = 1 /\ w.it = 2
    BY <1>2, <1>3, <1>9
  <2>2. getUnvisitedSuccessor(x, 2, w.visited, w.bb).found = FALSE
    BY <1>3, <1>10, <2>1, UnvisitedOfWait, ZenonT(30)
  <2> QED BY <2>1, <2>2
<1> HIDE DEF s
<1>14. s.found \in BOOLEAN /\ s.it \in Nat \ {0} /\ s.visited \in SUBSET B /\ s.bb \in B
  BY <1>11
<1>15. e \in StackEntries(B)
  BY <1>3, <1>14 DEF StackEntries
<1> HIDE DEF e
<1>16. tv \in Seq(StackEntries(B)) \ {<<>>}
  BY <1>3, <1>15, AppendFront
<1>17. loc \in Seq(B) /\ idx \in Nat
  BY <1>1, <1>3, <1>6
<1> HIDE DEF tv, loc, idx
<1>18. /\ f1 \in Frames(B) /\ f1.toVisit = tv /\ f1.visited = s.visited
       /\ f1.saved = w.visited /\ f1.bb = s.bb
  BY <1>3, <1>10, <1>14, <1>16, <1>17 DEF Frames
<1> HIDE DEF f1
<1>19. f1.toVisit = Append(Front(Last(frames).toVisit), e)
  BY <1>18 DEF tv, f
<1>20. x \in Waits <=> blocks[x].hasWait
  BY <1>3 DEF Waits
<1>21. CASE blocks[x].hasWait
  <2>1. addSuccessorToVisitOrPop(f1, TRUE, FALSE)
    BY <1>2, <1>3, <1>4, <1>13, <1>14, <1>21
  <2>2. Pops(f1.visited \cup f1.saved)
    BY <1>1, <1>2, <1>15, <1>18, <1>19, <2>1, PopMoves
  <2>3. f1.visited \cup f1.saved \subseteq Own \cup Succs[x]
    BY <1>5, <1>9, <1>12, <1>13, <1>18, <1>21 DEF Passes
  <2>4. Pops(Own \cup Succs[x])
    BY <2>2, <2>3 DEF Pops
  <2> QED BY <1>3, <1>20, <1>21, <2>4
<1>22. CASE ~blocks[x].hasWait /\ ~s.found
  <2>1. addSuccessorToVisitOrPop(f1, FALSE, FALSE)
    BY <1>2, <1>3, <1>4, <1>14, <1>22
  <2>2. Pops(f1.visited \cup f1.saved)
    BY <1>1, <1>2, <1>15, <1>18, <1>19, <2>1, PopMoves
  <2>3. f1.visited \cup f1.saved \subseteq Own
    BY <1>5, <1>8, <1>12, <1>18, <1>22 DEF Passes
  <2>4. Pops(Own)
    BY <2>2, <2>3 DEF Pops
  <2>5. Exhausts
    BY <1>3, <1>5, <1>8, <1>12, <1>22 DEF Exhausts, Passes
  <2> QED BY <1>3, <1>20, <1>22, <2>4, <2>5
<1>23. CASE ~blocks[x].hasWait /\ s.found
  <2>1. PICK j \in Nat : j = s.it - 1
    BY <1>14
  <2>2. s.it = j + 1 /\ s.it - 2 = j - 1 /\ j \in DOMAIN blocks[x].successors
        /\ s.bb = blocks[x].successors[j] /\ t.it <= j
    BY <1>6, <1>8, <1>12, <1>14, <1>23, <2>1 DEF Passes
  <2>3. \A k \in t.it..(j - 1) : blocks[x].successors[k] \in Own
    BY <1>5, <1>8, <1>12, <1>23, <2>2 DEF Passes
  <2>4. f1.visited \cup f1.saved \subseteq Own \cup {s.bb}
    BY <1>5, <1>8, <1>12, <1>18, <1>23 DEF Passes
  <2>5. \E b \in BOOLEAN : /\ b = TRUE \/ b = isSpecial(cfg, blocks, x)
                           /\ GoesTo(s.bb, e, f1.visited \cup f1.saved \cup {x}, b)
    <3>1. CASE isSpecial(cfg, blocks, x)
      <4>1. Recurse(f1, x)
        BY <1>4, <1>23, <3>1
      <4>2. GoesTo(s.bb, e, f1.visited \cup f1.saved \cup {x}, TRUE)
        BY <1>1, <1>2, <1>3, <1>15, <1>18, <1>19, <4>1, RecurseMoves
      <4> QED BY <4>2
    <3>2. CASE ~isSpecial(cfg, blocks, x)
      <4>1. addSuccessorToVisitOrPop(f1, FALSE, TRUE)
        BY <1>2, <1>3, <1>4, <1>14, <1>23, <3>2
      <4>2. GoesTo(s.bb, e, f1.visited \cup f1.saved, FALSE)
        BY <1>1, <1>2, <1>15, <1>18, <1>19, <4>1, PushMoves
      <4>3. GoesTo(s.bb, e, f1.visited \cup f1.saved \cup {x}, FALSE)
        BY <4>2 DEF GoesTo
      <4>4. isSpecial(cfg, blocks, x) = FALSE
        BY <1>5, <3>2
      <4> QED BY <4>3, <4>4
    <3> QED BY <3>1, <3>2
  <2>6. GoesTo(s.bb, e, Own \cup {x} \cup {s.bb}, isSpecial(cfg, blocks, x))
    <3>1. f1.visited \cup f1.saved \cup {x} \subseteq Own \cup {x} \cup {s.bb}
      BY <2>4
    <3>2. PICK b \in BOOLEAN : /\ b = TRUE \/ b = isSpecial(cfg, blocks, x)
                               /\ GoesTo(s.bb, e, f1.visited \cup f1.saved \cup {x}, b)
      BY <2>5
    <3> DEFINE seen == f1.visited \cup f1.saved \cup {x}
               more == Own \cup {x} \cup {s.bb}
    <3>3. seen \subseteq more /\ GoesTo(s.bb, e, seen, b)
      BY <3>1, <3>2
    <3> HIDE DEF seen, more
    <3>4. GoesTo(s.bb, e, more, isSpecial(cfg, blocks, x))
      BY <1>5, <3>2, <3>3 DEF GoesTo
    <3> QED BY <3>4 DEF more
  <2>7. GoesTo(s.bb, e, Own \cup {x}, isSpecial(cfg, blocks, x))
    BY <2>6 DEF GoesTo
  <2>8. Advances
    BY <1>3, <2>2, <2>3, <2>7 DEF Advances, e
  <2> QED BY <1>3, <1>20, <1>23, <2>8
<1> QED BY <1>14, <1>21, <1>22, <1>23

LEMMA ResumeMoves ==
  ASSUME SearchInv, Resume
  PROVE  /\ Top \in B /\ TopEntry.block = Top /\ Top \notin Waits
         /\ Advances \/ (Exhausts /\ Pops(Own \cup ret.visited))
<1> DEFINE f  == Last(frames)
           t  == Last(f.toVisit)
           x  == t.block
           s  == getUnvisitedSuccessor(x, t.it, f.visited, f.bb)
           e  == [block |-> x, it |-> s.it]
           tv == Append(Front(f.toVisit), e)
           vis == IF s.found THEN s.visited ELSE s.visited \cup ret.visited
           f1 == [f EXCEPT !.bb = s.bb, !.branch = "none", !.visited = vis, !.toVisit = tv]
           Step == [found : BOOLEAN, it : Nat \ {0}, visited : SUBSET B, bb : B]
<1>1. pc = "return" /\ frames # <<>> /\ ret.visited \in SUBSET B /\ frames \in Seq(Frames(B))
  <2>1. pc = "return" /\ frames # <<>>
    BY DEF Resume
  <2>2. frames \in Seq(Frames(B)) /\ ret \in [path : Seq(B), visited : SUBSET B]
    BY DEF SearchInv, TypeOK
  <2> QED BY <2>1, <2>2
<1>2. GraphTyped
  BY <1>1, SearchGraph DEF SearchInv
<1>3. f \in Frames(B) /\ t \in StackEntries(B) /\ Front(f.toVisit) \in Seq(StackEntries(B))
      /\ x \in B /\ x = Top /\ t = TopEntry /\ TopEntry.block = Top
  BY <1>1, TopOfStack, FramesApart DEF Top, TopEntry
<1>4. ~blocks[x].hasWait
  <2>1. NotAtWait(frames)
    BY <1>1 DEF SearchInv, CallersNotAtWait
  <2>2. Len(frames) \in Nat \ {0} /\ f = frames[Len(frames)]
    BY <1>1, FrontLast
  <2>3. DOMAIN frames = 1..Len(frames)
    BY <1>1
  <2> QED BY <2>1, <2>2, <2>3 DEF NotAtWait
<1>5. IF s.found THEN Recurse(f1, x)
                 ELSE addSuccessorToVisitOrPop(f1, blocks[x].hasWait, FALSE)
  BY DEF Resume
<1>6. Own = f.visited \cup f.saved
  BY DEF Own
<1> HIDE DEF f, t
<1>7. f.visited \in SUBSET B /\ f.bb \in B /\ t.it \in Nat \ {0}
  BY <1>3 DEF Frames, StackEntries
<1> HIDE DEF x
<1>8. s \in Step
  BY <1>2, <1>3, <1>7, UnvisitedType
<1>9. Passes(x, t.it, f.visited, s)
  BY <1>2, <1>3, <1>7, UnvisitedPasses
<1> HIDE DEF s
<1>10. s.found \in BOOLEAN /\ s.it \in Nat \ {0} /\ s.visited \in SUBSET B /\ s.bb \in B
  BY <1>8
<1>11. e \in StackEntries(B)
  BY <1>3, <1>10 DEF StackEntries
<1> HIDE DEF e
<1>12. tv \in Seq(StackEntries(B)) \ {<<>>}
  BY <1>3, <1>11, AppendFront
<1>13. vis \in SUBSET B /\ vis = IF s.found THEN s.visited ELSE s.visited \cup ret.visited
  BY <1>1, <1>10
<1> HIDE DEF tv, vis
<1>14. f1 \in Frames(B) /\ f1.toVisit = tv /\ f1.visited = vis /\ f1.saved = f.saved
       /\ f1.bb = s.bb
  BY <1>3, <1>10, <1>12, <1>13 DEF Frames
<1> HIDE DEF f1
<1>15. f1.toVisit = Append(Front(Last(frames).toVisit), e)
  BY <1>14 DEF tv, f
<1>16. x \notin Waits
  BY <1>4 DEF Waits
<1>17. CASE ~s.found
  <2>1. addSuccessorToVisitOrPop(f1, FALSE, FALSE)
    <3>1. blocks[x].hasWait = FALSE
      BY <1>2, <1>3, <1>4 DEF GraphTyped, SplitBlocks
    <3> QED BY <1>5, <1>17, <3>1
  <2>2. Pops(f1.visited \cup f1.saved)
    BY <1>1, <1>11, <1>14, <1>15, <2>1, PopMoves
  <2>3. f1.visited \cup f1.saved \subseteq Own \cup ret.visited
    BY <1>6, <1>9, <1>13, <1>14, <1>17 DEF Passes
  <2>4. Pops(Own \cup ret.visited)
    BY <2>2, <2>3 DEF Pops
  <2>5. Exhausts
    BY <1>3, <1>6, <1>9, <1>17 DEF Exhausts, Passes
  <2> QED BY <1>3, <1>16, <2>4, <2>5
<1>18. CASE s.found
  <2>1. PICK j \in Nat : j = s.it - 1
    BY <1>10
  <2>2. s.it = j + 1 /\ s.it - 2 = j - 1 /\ j \in DOMAIN blocks[x].successors
        /\ s.bb = blocks[x].successors[j] /\ t.it <= j
    BY <1>7, <1>9, <1>10, <1>18, <2>1 DEF Passes
  <2>3. \A k \in t.it..(j - 1) : blocks[x].successors[k] \in Own
    BY <1>6, <1>9, <1>18, <2>2 DEF Passes
  <2>4. f1.visited \cup f1.saved \subseteq Own \cup {s.bb}
    BY <1>6, <1>9, <1>13, <1>14, <1>18 DEF Passes
  <2>5. Recurse(f1, x)
    BY <1>5, <1>18
  <2>6. GoesTo(s.bb, e, f1.visited \cup f1.saved \cup {x}, TRUE)
    BY <1>1, <1>3, <1>11, <1>14, <1>15, <2>5, RecurseMoves
  <2>7. GoesTo(s.bb, e, Own \cup {x}, TRUE)
    BY <2>4, <2>6 DEF GoesTo
  <2>8. GoesTo(s.bb, e, Own \cup {x}, isSpecial(cfg, blocks, x))
    BY <2>7 DEF GoesTo
  <2>9. Advances
    BY <1>3, <2>2, <2>3, <2>8 DEF Advances, e
  <2> QED BY <1>3, <1>16, <2>9
<1> QED BY <1>10, <1>17, <1>18
-----------------------------------------------------------------------------
(***************************************************************************)
(* Every wait is found.  The graph does not change while the search runs.  *)
(***************************************************************************)
LEMMA GraphUnchanged ==
  ASSUME UNCHANGED graph
  PROVE  /\ cfg' = cfg /\ blocks' = blocks /\ sccfg' = sccfg /\ B' = B /\ Succs' = Succs
         /\ Waits' = Waits /\ Ends' = Ends /\ Entry' = Entry
<1>1. cfg' = cfg /\ blocks' = blocks /\ sccfg' = sccfg
  BY DEF graph
<1>2. B' = B
  BY <1>1 DEF B
<1> QED BY <1>1, <1>2 DEF Succs, Waits, Ends, Entry

\* An iteration, as far as the waits found are concerned.
WaitStep ==
  /\ UNCHANGED graph /\ Recorded' = Recorded \cup NewTop /\ Noted \subseteq Noted'
  /\ \/ /\ Top \notin Waits /\ visitedWaits' = visitedWaits /\ waitsToVisit' = waitsToVisit
        /\ Advances \/ (Exhausts /\ Pops(Own \cup ret.visited))
     \/ /\ Top \in Waits /\ visitedWaits' = visitedWaits \cup {Top}
        /\ Succs[Top] \subseteq Noted'
        /\ ToSet(waitsToVisit') \subseteq ToSet(waitsToVisit) \cup Succs[Top]
        /\ Pops(Own \cup Succs[Top])

(***************************************************************************)
(* Facts about the entry the iteration is at, used for both invariants:    *)
(* what its iterator passes is in S if what it has passed and what the     *)
(* innermost call has marked is.                                           *)
(***************************************************************************)
LEMMA TopFacts ==
  ASSUME SearchInv, pc \in {"visit", "return"}, frames # <<>>
  PROVE  /\ Top \in B /\ TopEntry.block = Top /\ Top \in OnStack
         /\ blocks[Top].successors \in Seq(B)
         /\ DOMAIN blocks[Top].successors = 1..Len(blocks[Top].successors)
         /\ Len(blocks[Top].successors) \in Nat
         /\ TopEntry.it \in Nat \ {0}
         /\ TopEntry \in Entries(frames) /\ Entries(frames) = Rest \cup {TopEntry}
         /\ CallerMarks \cup Own = Marks(frames)
         /\ NewTop \subseteq {Top} /\ (pc = "visit" /\ ~popping => NewTop = {Top})
<1>1. frames \in Seq(Frames(B))
  BY DEF SearchInv, TypeOK
<1>2. /\ TopEntry \in StackEntries(B) /\ Entries(frames) = Rest \cup {TopEntry}
      /\ Marks(frames) = CallerMarks \cup Last(frames).visited \cup Last(frames).saved
  BY <1>1, FramesApart
<1>3. Top \in B /\ TopEntry.block = Top /\ TopEntry.it \in Nat \ {0}
  BY <1>2 DEF StackEntries, Top, TopEntry
<1>4. blocks[Top].successors \in Seq(B)
  BY <1>3 DEF SearchInv, TypeOK, SplitBlocks
<1>5. Top \in OnStack
  BY <1>2, <1>3 DEF OnStack
<1>6. NewTop \subseteq {Top} /\ (pc = "visit" /\ ~popping => NewTop = {Top})
  BY DEF NewTop, Top
<1> QED BY <1>2, <1>3, <1>4, <1>5, <1>6 DEF Own

LEMMA AdvancePasses ==
  ASSUME SearchInv, pc \in {"visit", "return"}, frames # <<>>, UNCHANGED graph, Advances,
         NEW S, NEW T, S \subseteq T, Passed(S), Own \subseteq T, NewTop' \cup Ends \subseteq T
  PROVE  /\ \A e \in Entries(frames') : \A k \in DOMAIN blocks'[e.block].successors :
              k < e.it => blocks'[e.block].successors[k] \in T
         /\ Rest \subseteq Entries(frames') /\ Top \in OnStack'
         /\ \E y \in Succs[Top] : /\ OnStack' \subseteq OnStack \cup {y} /\ y \in T
                                  /\ Marks(frames') \cup ret'.visited
                                       \subseteq Marks(frames) \cup ret.visited \cup {Top, y}
                                  /\ Marks(frames') \subseteq Marks(frames) \cup {Top, y}
         /\ pc' \in {"visit", "return"} /\ (pc' = "visit" => ~popping')
<1> DEFINE u == blocks[Top].successors
<1>1. /\ Top \in B /\ TopEntry.block = Top /\ Top \in OnStack /\ u \in Seq(B)
      /\ DOMAIN u = 1..Len(u) /\ Len(u) \in Nat
      /\ TopEntry.it \in Nat \ {0} /\ Entries(frames) = Rest \cup {TopEntry}
      /\ CallerMarks \cup Own = Marks(frames) /\ TopEntry \in Entries(frames)
  BY TopFacts
<1>2. PICK j \in DOMAIN u :
        /\ TopEntry.it <= j
        /\ \A k \in TopEntry.it..(j - 1) : u[k] \in Own
        /\ GoesTo(u[j], [block |-> Top, it |-> j + 1], Own \cup {Top}, isSpecial(cfg, blocks, Top))
  BY DEF Advances
<1> DEFINE y == u[j]
           e == [block |-> Top, it |-> j + 1]
           n == [block |-> y, it |-> 1]
<1>3. blocks' = blocks /\ Succs[Top] = ToSet(u) /\ y \in ToSet(u) /\ y \in B
  <2>1. Succs[Top] = ToSet(u)
    BY <1>1 DEF Succs
  <2>2. y \in ToSet(u) /\ y \in B
    BY <1>1, <1>2 DEF ToSet
  <2> QED BY <2>1, <2>2, GraphUnchanged
<1>4. e.block = Top /\ e.it = j + 1 /\ n.block = y /\ n.it = 1
  OBVIOUS
<1>5. /\ \/ pc' = "visit" /\ NewTop' = {y} /\ popping' = FALSE
            /\ Entries(frames') = Rest \cup {e} \cup {n}
         \/ pc' = "return" /\ NewTop' = {} /\ y \in Ends /\ Entries(frames') = Rest \cup {e}
      /\ Marks(frames') \subseteq CallerMarks \cup (Own \cup {Top}) \cup {y}
      /\ ret'.visited \subseteq ret.visited \cup (Own \cup {Top}) \cup {y}
  BY <1>2 DEF GoesTo
<1> HIDE DEF u, y, e, n
<1>6. y \in T
  BY <1>5
<1>7. ASSUME NEW g \in Entries(frames'), NEW k \in DOMAIN blocks'[g.block].successors, k < g.it
      PROVE  blocks'[g.block].successors[k] \in T
  <2>1. g \in Rest \/ g = e \/ g = n
    BY <1>5
  <2>2. CASE g \in Rest
    BY <1>1, <1>3, <1>7, <2>2 DEF Passed
  <2>3. CASE g = e
    <3>1. k \in 1..Len(u) /\ k < j + 1 /\ g.block = Top
      BY <1>1, <1>3, <1>4, <1>7, <2>3 DEF u
    <3>2. CASE k < TopEntry.it
      BY <1>1, <1>3, <3>1, <3>2 DEF Passed, u
    <3>3. CASE k >= TopEntry.it /\ k < j
      <4>1. k \in TopEntry.it..(j - 1)
        BY <1>1, <1>2, <3>1, <3>3
      <4>2. u[k] \in Own
        BY <1>2, <4>1
      <4> QED BY <1>3, <3>1, <4>2 DEF u
    <3>4. CASE k = j
      BY <1>3, <1>6, <3>1, <3>4 DEF u, y
    <3> QED BY <1>1, <1>2, <3>1, <3>2, <3>3, <3>4
  <2>4. CASE g = n
    <3>1. blocks[y].successors \in Seq(B)
      BY <1>3 DEF SearchInv, TypeOK, SplitBlocks
    <3> QED BY <1>3, <1>4, <1>7, <2>4, <3>1
  <2> QED BY <2>1, <2>2, <2>3, <2>4
<1>8. Rest \subseteq Entries(frames') /\ Top \in OnStack'
  BY <1>4, <1>5 DEF OnStack
<1>9. OnStack' \subseteq OnStack \cup {y}
  BY <1>1, <1>4, <1>5 DEF OnStack
<1>10. /\ Marks(frames') \cup ret'.visited \subseteq Marks(frames) \cup ret.visited \cup {Top, y}
       /\ Marks(frames') \subseteq Marks(frames) \cup {Top, y}
  BY <1>1, <1>5
<1>11. pc' \in {"visit", "return"} /\ (pc' = "visit" => ~popping')
  BY <1>5
<1> QED BY <1>3, <1>6, <1>7, <1>8, <1>9, <1>10, <1>11

LEMMA PopPasses ==
  ASSUME SearchInv, pc \in {"visit", "return"}, frames # <<>>, UNCHANGED graph,
         NEW seen, Pops(seen), NEW S, NEW T, S \subseteq T, Passed(S)
  PROVE  /\ \A e \in Entries(frames') : \A k \in DOMAIN blocks'[e.block].successors :
              k < e.it => blocks'[e.block].successors[k] \in T
         /\ OnStack' \subseteq OnStack /\ OnStack \subseteq OnStack' \cup {Top}
         /\ NewTop' = {} /\ pc' \in {"visit", "return"}
         /\ Marks(frames') \cup ret'.visited \subseteq Marks(frames) \cup ret.visited \cup seen
<1>1. /\ TopEntry.block = Top /\ Entries(frames) = Rest \cup {TopEntry}
      /\ CallerMarks \cup Own = Marks(frames)
  BY TopFacts
<1>2. Entries(frames') = Rest /\ popping' = TRUE /\ pc' \in {"visit", "return"}
      /\ Marks(frames') \subseteq CallerMarks \cup seen
      /\ ret'.visited \subseteq ret.visited \cup seen
  BY DEF Pops
<1>3. blocks' = blocks
  BY GraphUnchanged
<1>4. \A e \in Entries(frames') : \A k \in DOMAIN blocks'[e.block].successors :
        k < e.it => blocks'[e.block].successors[k] \in T
  BY <1>1, <1>2, <1>3 DEF Passed
<1>5. OnStack' \subseteq OnStack /\ OnStack \subseteq OnStack' \cup {Top}
  BY <1>1, <1>2 DEF OnStack
<1>6. NewTop' = {}
  BY <1>2 DEF NewTop
<1>7. Marks(frames') \cup ret'.visited \subseteq Marks(frames) \cup ret.visited \cup seen
  BY <1>1, <1>2
<1> QED BY <1>2, <1>4, <1>5, <1>6, <1>7

LEMMA ExhaustedPasses ==
  ASSUME SearchInv, pc \in {"visit", "return"}, frames # <<>>, Exhausts, NEW S, Passed(S),
         Own \subseteq S
  PROVE  Succs[Top] \subseteq S
<1> DEFINE u == blocks[Top].successors
<1>1. /\ Top \in B /\ TopEntry.block = Top /\ DOMAIN u = 1..Len(u) /\ Len(u) \in Nat
      /\ TopEntry.it \in Nat \ {0} /\ TopEntry \in Entries(frames)
  BY TopFacts
<1>2. ASSUME NEW k \in 1..Len(u) PROVE u[k] \in S
  <2>1. CASE k < TopEntry.it
    BY <1>1, <1>2, <2>1 DEF Passed
  <2>2. CASE k >= TopEntry.it
    <3>1. k \in TopEntry.it..Len(u)
      BY <1>1, <1>2, <2>2
    <3> QED BY <3>1 DEF Exhausts
  <2> QED BY <1>1, <1>2, <2>1, <2>2
<1>3. Succs[Top] = ToSet(u)
  BY <1>1 DEF Succs
<1> HIDE DEF u
<1> QED BY <1>1, <1>2, <1>3 DEF ToSet

(***************************************************************************)
(* An iteration keeps the invariant: what it marks it notes.               *)
(***************************************************************************)
LEMMA WaitStepKeeps ==
  ASSUME SearchInv, pc \in {"visit", "return"}, frames # <<>>, NothingForgotten,
         OnlyReachable, WaitStep
  PROVE  NothingForgotten' /\ OnlyReachable'
<1> DEFINE R == Reached(Succs, {Entry}, {})
<1>1. /\ UNCHANGED graph /\ Recorded' = Recorded \cup NewTop /\ Noted \subseteq Noted'
  BY DEF WaitStep
<1>2. /\ cfg' = cfg /\ blocks' = blocks /\ sccfg' = sccfg /\ B' = B /\ Succs' = Succs
      /\ Waits' = Waits /\ Ends' = Ends /\ Entry' = Entry
  BY <1>1, GraphUnchanged
<1>3. /\ Top \in B /\ Top \in OnStack /\ CallerMarks \cup Own = Marks(frames)
      /\ NewTop \subseteq {Top}
  BY TopFacts
<1>4. /\ Entry \in Noted
      /\ Marks(frames) \cup ret.visited \cup OnStack \subseteq Noted
      /\ Passed(Noted)
      /\ \A x \in Recorded : x \in OnStack \/ Succs[x] \subseteq Noted
      /\ Recorded \cap Waits \subseteq visitedWaits
      /\ \A w \in visitedWaits : Succs[w] \subseteq Noted
  BY DEF NothingForgotten
<1>5. /\ visitedWaits \subseteq Waits
      /\ OnStack \cup Recorded \cup ToSet(waitsToVisit) \cup visitedWaits \subseteq R
  BY DEF OnlyReachable
<1>6. Entry \in B /\ IsFiniteSet(B) /\ Succs \in [B -> SUBSET B]
  BY GraphFacts DEF SearchInv
<1>7. \A x \in R : Succs[x] \subseteq R
  <2>1. {Entry} \in SUBSET B /\ {Entry} # {}
    BY <1>6
  <2>2. \A x \in R \ {} : Succs[x] \subseteq R
    BY <1>6, <2>1, ReachedIsLeast
  <2> QED BY <2>2
<1>8. NewTop' \cup Ends \subseteq Noted'
  BY <1>2 DEF Noted
<1> HIDE DEF R
<1>9. CASE Top \notin Waits /\ visitedWaits' = visitedWaits /\ waitsToVisit' = waitsToVisit
           /\ Advances
  <2>1. PICK y \in Succs[Top] :
          /\ OnStack' \subseteq OnStack \cup {y} /\ y \in Noted'
          /\ Marks(frames') \cup ret'.visited \subseteq Marks(frames) \cup ret.visited \cup {Top, y}
    BY <1>1, <1>3, <1>4, <1>8, <1>9, AdvancePasses
  <2>2. /\ \A e \in Entries(frames') : \A k \in DOMAIN blocks'[e.block].successors :
             k < e.it => blocks'[e.block].successors[k] \in Noted'
        /\ Rest \subseteq Entries(frames') /\ Top \in OnStack'
    BY <1>1, <1>3, <1>4, <1>8, <1>9, AdvancePasses
  <2>3. Passed(Noted)'
    BY <2>2 DEF Passed
  <2>4. OnStack \subseteq OnStack'
    <3>1. Entries(frames) = Rest \cup {TopEntry} /\ TopEntry.block = Top
      BY TopFacts
    <3> QED BY <2>2, <3>1 DEF OnStack
  <2>5. Marks(frames') \cup ret'.visited \cup OnStack' \subseteq Noted'
    BY <1>1, <1>3, <1>4, <2>1
  <2>6. \A x \in Recorded' : x \in OnStack' \/ Succs[x] \subseteq Noted'
    BY <1>1, <1>3, <1>4, <2>2, <2>4
  <2>7. Recorded' \cap Waits \subseteq visitedWaits'
    BY <1>1, <1>3, <1>4, <1>9
  <2>8. \A w \in visitedWaits' : Succs[w] \subseteq Noted'
    BY <1>1, <1>4, <1>9
  <2>9. NothingForgotten'
    BY <1>1, <1>2, <1>4, <2>3, <2>5, <2>6, <2>7, <2>8 DEF NothingForgotten
  <2>10. y \in R
    BY <1>3, <1>5, <1>7, <2>1
  <2>11. OnStack' \cup Recorded' \cup ToSet(waitsToVisit') \cup visitedWaits' \subseteq R
    BY <1>1, <1>3, <1>5, <1>9, <2>1, <2>10
  <2> QED BY <1>2, <1>5, <1>9, <2>9, <2>11 DEF OnlyReachable, R
<1>10. ASSUME NEW seen, Pops(seen), seen \subseteq Noted', Succs[Top] \subseteq Noted',
              visitedWaits' = visitedWaits \cup ({Top} \cap Waits),
              ToSet(waitsToVisit') \subseteq ToSet(waitsToVisit) \cup Succs[Top]
       PROVE  NothingForgotten' /\ OnlyReachable'
  <2>1. /\ \A e \in Entries(frames') : \A k \in DOMAIN blocks'[e.block].successors :
             k < e.it => blocks'[e.block].successors[k] \in Noted'
        /\ OnStack' \subseteq OnStack /\ OnStack \subseteq OnStack' \cup {Top}
        /\ Marks(frames') \cup ret'.visited \subseteq Marks(frames) \cup ret.visited \cup seen
    BY <1>1, <1>4, <1>10, PopPasses
  <2>2. Passed(Noted)'
    BY <2>1 DEF Passed
  <2>3. Marks(frames') \cup ret'.visited \cup OnStack' \subseteq Noted'
    BY <1>1, <1>4, <1>10, <2>1
  <2>4. \A x \in Recorded' : x \in OnStack' \/ Succs[x] \subseteq Noted'
    BY <1>1, <1>3, <1>4, <1>10, <2>1
  <2>5. Recorded' \cap Waits \subseteq visitedWaits'
    BY <1>1, <1>3, <1>4, <1>10
  <2>6. \A w \in visitedWaits' : Succs[w] \subseteq Noted'
    BY <1>1, <1>4, <1>10
  <2>7. NothingForgotten'
    BY <1>1, <1>2, <1>4, <2>2, <2>3, <2>4, <2>5, <2>6 DEF NothingForgotten
  <2>8. Succs[Top] \subseteq R
    BY <1>3, <1>5, <1>7
  <2>9. OnStack' \cup Recorded' \cup ToSet(waitsToVisit') \cup visitedWaits' \subseteq R
    BY <1>1, <1>3, <1>5, <1>10, <2>1, <2>8
  <2>10. visitedWaits' \subseteq Waits'
    BY <1>2, <1>5, <1>10
  <2> QED BY <1>2, <2>7, <2>9, <2>10 DEF OnlyReachable, R
<1>11. CASE Top \notin Waits /\ visitedWaits' = visitedWaits /\ waitsToVisit' = waitsToVisit
            /\ Exhausts /\ Pops(Own \cup ret.visited)
  <2>1. Succs[Top] \subseteq Noted'
    BY <1>1, <1>3, <1>4, <1>11, ExhaustedPasses
  <2>2. Own \cup ret.visited \subseteq Noted'
    BY <1>1, <1>3, <1>4
  <2> QED BY <1>10, <1>11, <2>1, <2>2
<1>12. CASE /\ Top \in Waits /\ visitedWaits' = visitedWaits \cup {Top}
            /\ Succs[Top] \subseteq Noted'
            /\ ToSet(waitsToVisit') \subseteq ToSet(waitsToVisit) \cup Succs[Top]
            /\ Pops(Own \cup Succs[Top])
  <2>1. Own \cup Succs[Top] \subseteq Noted' /\ {Top} \cap Waits = {Top}
    BY <1>1, <1>3, <1>4, <1>12
  <2> QED BY <1>10, <1>12, <2>1
<1> QED BY <1>9, <1>11, <1>12 DEF WaitStep

(***************************************************************************)
(* The path grows by the block just pushed, and only in its own iteration. *)
(***************************************************************************)
LEMMA VisitPath ==
  ASSUME SearchInv, Visit
  PROVE  /\ InPath(currPath') = InPath(currPath) \cup NewTop /\ paths' = paths
         /\ UNCHANGED graph /\ pc = "visit" /\ frames # <<>>
<1> DEFINE new == [block |-> Top, pathIdx |-> Len(currPath), falseIdx |-> 0]
<1>1. /\ currPath' = IF popping THEN currPath ELSE Append(currPath, new)
      /\ UNCHANGED <<graph, results>> /\ Top \in B
  BY VisitEffect
<1>2. pc = "visit" /\ frames # <<>> /\ currPath \in Seq(PathEntries(B)) /\ popping \in BOOLEAN
  <2>1. pc = "visit"
    BY DEF Visit
  <2> QED BY <2>1 DEF SearchInv, TypeOK
<1>3. new \in PathEntries(B) /\ new.block = Top
  BY <1>1, <1>2 DEF PathEntries
<1> HIDE DEF new
<1>4. CASE popping
  BY <1>1, <1>2, <1>4 DEF NewTop, results
<1>5. CASE ~popping
  <2>1. NewTop = {Top}
    BY <1>2, <1>5 DEF NewTop, Top
  <2> DEFINE n == Len(currPath)
             p == currPath
             q == Append(p, new)
  <2>2. /\ DOMAIN p = 1..n /\ DOMAIN q = 1..(n + 1) /\ n \in Nat
        /\ \A i \in 1..n : q[i] = p[i]
        /\ q[n + 1] = new
    BY <1>2, <1>3
  <2>3. currPath' = q
    BY <1>1, <1>5
  <2> HIDE DEF q
  <2>4. DOMAIN q = DOMAIN p \cup {n + 1}
    BY <2>2
  <2>5. InPath(q) = InPath(p) \cup {Top}
    BY <1>3, <2>2, <2>4 DEF InPath
  <2> QED BY <1>1, <1>2, <2>1, <2>3, <2>5 DEF results
<1> QED BY <1>2, <1>4, <1>5

LEMMA ResumePath ==
  ASSUME SearchInv, Resume
  PROVE  /\ InPath(currPath') = InPath(currPath) /\ paths' = paths /\ NewTop = {}
         /\ UNCHANGED graph /\ UNCHANGED numbering /\ pc = "return" /\ frames # <<>>
<1> DEFINE f == Last(frames)
           x == Last(f.toVisit).block
<1>1. /\ UNCHANGED <<graph, numbering, allPathInfo, paths>> /\ pc = "return" /\ frames # <<>>
      /\ currPath \in Seq(PathEntries(B))
  BY DEF Resume, SearchInv, TypeOK
<1>2. NewTop = {}
  BY <1>1 DEF NewTop
<1>3. InPath(currPath') = InPath(currPath)
  <2>1. CASE f.branch # "true"
    BY <2>1 DEF Resume
  <2>2. CASE f.branch = "true"
    <3>1. PICK v : currPath' = [currPath EXCEPT ![f.id].falseIdx = v]
      BY <2>2 DEF Resume
    <3> HIDE DEF f
    <3>2. DOMAIN currPath' = DOMAIN currPath
      BY <3>1
    <3>3. \A e \in PathEntries(B) : [e EXCEPT !.falseIdx = v].block = e.block
      BY DEF PathEntries
    <3>4. \A d \in DOMAIN currPath : currPath[d] \in PathEntries(B)
      BY <1>1
    <3>5. \A d \in DOMAIN currPath : currPath'[d] \in
            {currPath[d], [currPath[d] EXCEPT !.falseIdx = v]}
      BY <3>1
    <3>6. \A d \in DOMAIN currPath : currPath'[d].block = currPath[d].block
      BY <3>3, <3>4, <3>5
    <3> QED BY <3>2, <3>6 DEF InPath
  <2> QED BY <2>1, <2>2
<1> QED BY <1>1, <1>2, <1>3

(***************************************************************************)
(* A wait queues its successor when it is met first, and by then what it   *)
(* leads to is noted.                                                      *)
(***************************************************************************)
LEMMA SetOfFront ==
  ASSUME NEW S, NEW s \in Seq(S), NEW e \in S
  PROVE  ToSet(<<e>> \o s) = ToSet(s) \cup {e}
<1> DEFINE t == <<e>> \o s
<1>1. /\ DOMAIN s = 1..Len(s) /\ DOMAIN t = 1..(Len(s) + 1) /\ Len(s) \in Nat
      /\ t[1] = e /\ \A i \in 1..Len(s) : t[i + 1] = s[i]
  <2>1. <<e>> \in Seq(S) /\ Len(<<e>>) = 1 /\ <<e>>[1] = e
    OBVIOUS
  <2> QED BY <2>1
<1> HIDE DEF t
<1>2. \A i \in 1..(Len(s) + 1) : i = 1 \/ (i - 1 \in 1..Len(s) /\ (i - 1) + 1 = i)
  BY <1>1
<1>3. \A i \in 1..Len(s) : i + 1 \in 1..(Len(s) + 1)
  BY <1>1
<1>4. 1 \in 1..(Len(s) + 1)
  BY <1>1
<1>5. ToSet(t) \subseteq ToSet(s) \cup {e}
  <2> SUFFICES ASSUME NEW i \in DOMAIN t PROVE t[i] \in ToSet(s) \cup {e}
    BY DEF ToSet
  <2>1. CASE i = 1
    BY <1>1, <2>1
  <2>2. CASE i # 1
    <3> DEFINE j == i - 1
    <3>1. j \in 1..Len(s) /\ j + 1 = i
      BY <1>1, <1>2, <2>2
    <3> HIDE DEF j
    <3>2. t[i] = s[j]
      BY <1>1, <3>1
    <3> QED BY <1>1, <3>1, <3>2 DEF ToSet
  <2> QED BY <2>1, <2>2
<1>6. ToSet(s) \cup {e} \subseteq ToSet(t)
  <2>1. e \in ToSet(t)
    BY <1>1, <1>4 DEF ToSet
  <2>2. \A i \in DOMAIN s : s[i] \in ToSet(t)
    BY <1>1, <1>3 DEF ToSet
  <2> QED BY <2>1, <2>2 DEF ToSet
<1> QED BY <1>5, <1>6 DEF t

LEMMA VisitIsWaitStep ==
  ASSUME IndInv, Visit, NothingForgotten
  PROVE  WaitStep
<1>1. SearchInv /\ waitsToVisit \in Seq(B)
  BY DEF IndInv, SearchInv, TypeOK
<1>2. /\ InPath(currPath') = InPath(currPath) \cup NewTop /\ paths' = paths
      /\ UNCHANGED graph /\ pc = "visit" /\ frames # <<>>
  BY <1>1, VisitPath
<1>3. /\ Top \in B /\ TopEntry.block = Top
      /\ \/ Top \notin Waits /\ Advances
         \/ Top \notin Waits /\ Exhausts /\ Pops(Own)
         \/ Top \in Waits /\ Pops(Own \cup Succs[Top])
  BY <1>1, VisitMoves
<1>4. IF blocks[Top].hasWait
        THEN RegisterWait(Top, blocks[Top].successors[1]) /\ blocks[Top].successors[1] \in B
        ELSE UNCHANGED numbering
  BY <1>1, VisitEffect
<1>5. Recorded' = Recorded \cup NewTop
  <2>1. InPath(currPath') = InPath(currPath) \cup NewTop /\ paths' = paths
    BY <1>2
  <2> QED BY <2>1 DEF Recorded
<1>6. /\ B' = B /\ Succs' = Succs /\ Waits' = Waits /\ Ends' = Ends
  BY <1>2, GraphUnchanged
<1>7. CASE Top \notin Waits
  <2>1. UNCHANGED numbering
    BY <1>3, <1>4, <1>7 DEF Waits
  <2>2. waitsToVisit' = waitsToVisit /\ visitedWaits' = visitedWaits
    BY <2>1 DEF numbering
  <2>3. Noted \subseteq Noted'
    BY <1>5, <1>6, <2>2 DEF Noted
  <2>4. Pops(Own) => Pops(Own \cup ret.visited)
    BY DEF Pops
  <2> QED BY <1>2, <1>3, <1>5, <1>7, <2>2, <2>3, <2>4 DEF WaitStep
<1>8. CASE Top \in Waits
  <2> DEFINE next == blocks[Top].successors[1]
  <2>1. RegisterWait(Top, next) /\ next \in B
    BY <1>4, <1>8 DEF Waits
  <2>2. Len(blocks[Top].successors) = 1 /\ Succs[Top] = ToSet(blocks[Top].successors)
    BY <1>1, <1>2, <1>3, <1>8, GraphFacts DEF SearchInv
  <2>3. Succs[Top] = {next}
    <3>1. blocks[Top].successors \in Seq(B)
      BY <1>1, <1>3 DEF SearchInv, TypeOK, SplitBlocks
    <3>2. DOMAIN blocks[Top].successors = {1}
      BY <2>2, <3>1
    <3> QED BY <2>2, <3>2 DEF ToSet
  <2> HIDE DEF next
  <2>4. CASE Top \in visitedWaits
    <3>1. waitsToVisit' = waitsToVisit /\ visitedWaits' = visitedWaits
      BY <2>1, <2>4 DEF RegisterWait, numbering
    <3>2. Noted \subseteq Noted'
      BY <1>5, <1>6, <3>1 DEF Noted
    <3>3. Succs[Top] \subseteq Noted'
      BY <2>4, <3>2 DEF NothingForgotten
    <3> QED BY <1>2, <1>3, <1>5, <1>8, <2>4, <3>1, <3>2, <3>3 DEF WaitStep
  <2>5. CASE Top \notin visitedWaits
    <3>1. waitsToVisit' = <<next>> \o waitsToVisit /\ visitedWaits' = visitedWaits \cup {Top}
      BY <2>1, <2>5 DEF RegisterWait
    <3>2. ToSet(waitsToVisit') = ToSet(waitsToVisit) \cup {next}
      BY <1>1, <2>1, <3>1, SetOfFront
    <3>3. Noted \subseteq Noted' /\ next \in Noted'
      BY <1>5, <1>6, <3>2 DEF Noted
    <3> QED BY <1>2, <1>3, <1>5, <1>8, <2>3, <3>1, <3>2, <3>3 DEF WaitStep
  <2> QED BY <2>4, <2>5
<1> QED BY <1>7, <1>8

LEMMA ResumeIsWaitStep ==
  ASSUME IndInv, Resume
  PROVE  WaitStep
<1>1. SearchInv
  BY DEF IndInv, SearchInv
<1>2. /\ InPath(currPath') = InPath(currPath) /\ paths' = paths /\ NewTop = {}
      /\ UNCHANGED graph /\ UNCHANGED numbering
  BY <1>1, ResumePath
<1>3. Top \notin Waits /\ (Advances \/ (Exhausts /\ Pops(Own \cup ret.visited)))
  BY <1>1, ResumeMoves
<1>4. waitsToVisit' = waitsToVisit /\ visitedWaits' = visitedWaits
  BY <1>2 DEF numbering
<1>5. Recorded' = Recorded \cup NewTop
  BY <1>2 DEF Recorded
<1>6. Ends' = Ends
  BY <1>2, GraphUnchanged
<1>7. Noted \subseteq Noted'
  BY <1>4, <1>5, <1>6 DEF Noted
<1> QED BY <1>2, <1>3, <1>4, <1>5, <1>7 DEF WaitStep

(***************************************************************************)
(* The search of a state starts with one entry on one stack.               *)
(***************************************************************************)
LEMMA NoFrames == Entries(<<>>) = {} /\ Below(<<>>) = {} /\ Marks(<<>>) = {}
BY DEF Entries, Below, Marks

LEMMA FirstCall ==
  ASSUME NEW x \in B, Call(<<>>, x, {}), UNCHANGED graph,
         blocks[x].successors \in Seq(B)
  PROVE  /\ pc' \in {"visit", "return"} /\ x \in NewTop' \cup Ends /\ NewTop' \subseteq {x}
         /\ OnStack' \subseteq {x} /\ Below(frames') = {} /\ Marks(frames') \subseteq NewTop'
         /\ (pc' = "visit" => popping' = FALSE /\ Marks(Front(frames')) = {})
         /\ ret'.visited \subseteq ret.visited
         /\ \A e \in Entries(frames') : \A j \in DOMAIN blocks'[e.block].successors : ~(j < e.it)
<1>1. <<>> \in Seq(Frames(B)) /\ {} \in SUBSET B
  OBVIOUS
<1>2. Starts(<<>>, x, {})
  BY <1>1, CallMoves
<1>3. blocks' = blocks
  BY GraphUnchanged
<1>4. CASE pc' = "visit"
  <2> DEFINE e == [block |-> x, it |-> 1]
  <2>1. /\ NewTop' = {x} /\ popping' = FALSE /\ ret' = ret /\ Entries(frames') = {e}
        /\ Below(frames') = {} /\ Marks(frames') = {x} /\ Marks(Front(frames')) = {}
    BY <1>2, <1>4, NoFrames DEF Starts
  <2>2. e.block = x /\ e.it = 1
    OBVIOUS
  <2> HIDE DEF e
  <2>3. OnStack' = {x}
    BY <2>1, <2>2 DEF OnStack
  <2>4. \A j \in DOMAIN blocks[x].successors : ~(j < 1)
    OBVIOUS
  <2>5. \A d \in Entries(frames') : \A j \in DOMAIN blocks'[d.block].successors : ~(j < d.it)
    BY <1>3, <2>1, <2>2, <2>4
  <2> QED BY <1>4, <2>1, <2>3, <2>5
<1>5. CASE pc' # "visit"
  <2>1. pc' = "return" /\ NewTop' = {} /\ x \in Ends /\ frames' = <<>> /\ ret'.visited = {}
    BY <1>2, <1>5 DEF Starts
  <2>2. Entries(frames') = {} /\ Below(frames') = {} /\ Marks(frames') = {}
    BY <2>1, NoFrames
  <2>3. OnStack' = {}
    BY <2>2 DEF OnStack
  <2> QED BY <2>1, <2>2, <2>3
<1> QED BY <1>4, <1>5

LEMMA StartKeepsWait ==
  ASSUME NEW x \in B, Call(<<>>, x, {}), UNCHANGED graph, blocks[x].successors \in Seq(B),
         Recorded' = Recorded, visitedWaits' = visitedWaits, Entry \in Noted',
         ret.visited \subseteq Noted',
         \A z \in Recorded : Succs[z] \subseteq Noted',
         Recorded \cap Waits \subseteq visitedWaits, visitedWaits \subseteq Waits,
         \A w \in visitedWaits : Succs[w] \subseteq Noted',
         Recorded \cup ToSet(waitsToVisit') \cup visitedWaits \cup {x}
           \subseteq Reached(Succs, {Entry}, {})
  PROVE  NothingForgotten' /\ OnlyReachable'
<1>1. /\ Succs' = Succs /\ Waits' = Waits /\ Ends' = Ends /\ Entry' = Entry
  BY GraphUnchanged
<1>2. /\ x \in NewTop' \cup Ends /\ OnStack' \subseteq {x} /\ Marks(frames') \subseteq NewTop'
      /\ ret'.visited \subseteq ret.visited
      /\ \A e \in Entries(frames') : \A j \in DOMAIN blocks'[e.block].successors : ~(j < e.it)
  BY FirstCall
<1>3. NewTop' \subseteq Noted' /\ Ends \subseteq Noted'
  BY <1>1 DEF Noted
<1>4. Passed(Noted)'
  BY <1>2 DEF Passed
<1>5. Marks(frames') \cup ret'.visited \cup OnStack' \subseteq Noted'
  BY <1>2, <1>3
<1>6. NothingForgotten'
  BY <1>1, <1>4, <1>5 DEF NothingForgotten
<1>7. OnStack' \cup Recorded' \cup ToSet(waitsToVisit') \cup visitedWaits'
        \subseteq Reached(Succs, {Entry}, {})
  BY <1>2
<1>8. OnlyReachable'
  BY <1>1, <1>7 DEF OnlyReachable
<1> QED BY <1>6, <1>8

LEMMA StartResetKeepsWait ==
  ASSUME IndInv, NothingFound, StartReset
  PROVE  NothingForgotten' /\ OnlyReachable'
<1>1. pc = "rework" /\ Call(<<>>, Entry, {}) /\ UNCHANGED <<graph, currPath, numbering, results>>
  BY DEF StartReset, Entry
<1>2. /\ TypeOK /\ GraphFixed /\ paths = <<>> /\ currPath = <<>>
  BY <1>1 DEF IndInv, QueueAligned
<1>3. /\ visitedWaits = {} /\ waitsToVisit = <<>> /\ ret.visited = {}
  BY DEF NothingFound
<1>4. /\ Entry \in B /\ IsFiniteSet(B) /\ Succs \in [B -> SUBSET B] /\ GraphTyped
  BY <1>1, <1>2, GraphFacts
<1>5. blocks[Entry].successors \in Seq(B)
  BY <1>4 DEF GraphTyped, SplitBlocks
<1>6. Recorded = {} /\ Recorded' = {} /\ visitedWaits' = {} /\ ToSet(waitsToVisit') = {}
  BY <1>1, <1>2, <1>3 DEF Recorded, InPath, numbering, results, ToSet
<1>7. Entry \in NewTop' \cup Ends /\ Ends' = Ends
  BY <1>1, <1>4, <1>5, FirstCall, GraphUnchanged
<1>8. Entry \in Noted'
  BY <1>7 DEF Noted
<1>9. Entry \in Reached(Succs, {Entry}, {})
  <2>1. {Entry} \in SUBSET B /\ {Entry} # {}
    BY <1>4
  <2>2. {Entry} \subseteq Reached(Succs, {Entry}, {})
    BY <1>4, <2>1, ReachedIsLeast
  <2> QED BY <2>2
<1>10. UNCHANGED graph
  BY <1>1
<1> QED BY <1>1, <1>3, <1>4, <1>5, <1>6, <1>8, <1>9, <1>10, StartKeepsWait

(***************************************************************************)
(* When the stacks are empty, all that has been recorded leads to noted    *)
(* blocks: the queue is what is left.                                      *)
(***************************************************************************)
LEMMA AtPathEnd ==
  ASSUME NothingForgotten, frames = <<>>, pc = "return"
  PROVE  /\ Noted = Recorded \cup ToSet(waitsToVisit) \cup Ends
         /\ \A x \in Recorded : Succs[x] \subseteq Noted
<1>1. OnStack = {}
  BY NoFrames DEF OnStack
<1>2. NewTop = {}
  BY DEF NewTop
<1> QED BY <1>1, <1>2 DEF NothingForgotten, Noted

LEMMA RecordPathKeeps ==
  ASSUME paths \in Seq(Seq(PathEntries(B))), currPath \in Seq(PathEntries(B)),
         paths' = Append(paths, currPath), currPath' = <<>>
  PROVE  Recorded' = Recorded
<1> DEFINE n == Len(paths)
<1>1. /\ DOMAIN paths = 1..n /\ DOMAIN paths' = 1..(n + 1) /\ n \in Nat
      /\ \A k \in 1..n : paths'[k] = paths[k]
      /\ paths'[n + 1] = currPath
  OBVIOUS
<1>2. DOMAIN paths' = DOMAIN paths \cup {n + 1} /\ \A k \in DOMAIN paths : paths'[k] = paths[k]
  BY <1>1
<1>3. InPath(currPath') = {}
  BY DEF InPath
<1> HIDE DEF n
<1> QED BY <1>1, <1>2, <1>3 DEF Recorded

LEMMA NextPathKeepsWait ==
  ASSUME IndInv, NothingForgotten, OnlyReachable, NextPath
  PROVE  NothingForgotten' /\ OnlyReachable'
<1> DEFINE x == Last(waitsToVisit)
           R == Reached(Succs, {Entry}, {})
<1>1. /\ pc = "return" /\ frames = <<>> /\ waitsToVisit # <<>>
      /\ Call(<<>>, x, {}) /\ waitsToVisit' = Front(waitsToVisit) /\ UNCHANGED graph
      /\ visitedWaits' = visitedWaits
      /\ paths' = Append(paths, currPath) /\ currPath' = <<>>
  BY DEF NextPath, RecordPath
<1>2. /\ TypeOK /\ GraphFixed /\ waitsToVisit \in Seq(B) /\ currPath \in Seq(PathEntries(B))
      /\ paths \in Seq(Seq(PathEntries(B)))
  BY DEF IndInv, TypeOK
<1>3. x \in B /\ ToSet(waitsToVisit) = ToSet(waitsToVisit') \cup {x}
  BY <1>1, <1>2, AppendLast, SetOfLast
<1>4. GraphTyped
  BY <1>1, <1>2, GraphFacts
<1> HIDE DEF x
<1>5. blocks[x].successors \in Seq(B)
  BY <1>3, <1>4 DEF GraphTyped, SplitBlocks
<1>6. Recorded' = Recorded
  BY <1>1, <1>2, RecordPathKeeps
<1>7. x \in NewTop' \cup Ends /\ Ends' = Ends
  BY <1>1, <1>3, <1>5, FirstCall, GraphUnchanged
<1>8. /\ Noted = Recorded \cup ToSet(waitsToVisit) \cup Ends
      /\ \A z \in Recorded : Succs[z] \subseteq Noted
  BY <1>1, AtPathEnd
<1>9. Noted \subseteq Noted'
  BY <1>3, <1>6, <1>7, <1>8 DEF Noted
<1>10. /\ Entry \in Noted /\ ret.visited \subseteq Noted
       /\ Recorded \cap Waits \subseteq visitedWaits
       /\ \A w \in visitedWaits : Succs[w] \subseteq Noted
  BY DEF NothingForgotten
<1>11. visitedWaits \subseteq Waits
       /\ Recorded \cup ToSet(waitsToVisit') \cup visitedWaits \cup {x} \subseteq R
  BY <1>3 DEF OnlyReachable
<1>12. \A z \in Recorded : Succs[z] \subseteq Noted'
  BY <1>8, <1>9
<1>13. \A w \in visitedWaits : Succs[w] \subseteq Noted'
  BY <1>9, <1>10
<1>14. Entry \in Noted' /\ ret.visited \subseteq Noted'
  BY <1>9, <1>10
<1> QED BY <1>1, <1>3, <1>5, <1>6, <1>10, <1>11, <1>12, <1>13, <1>14, StartKeepsWait

(***************************************************************************)
(* addNextStatesToBlocks leaves the graph as it is.                        *)
(***************************************************************************)
LEMMA FinishKeepsGraph ==
  ASSUME IndInv, FinishPaths
  PROVE  /\ B' = B /\ Succs' = Succs /\ Waits' = Waits /\ Ends' = Ends /\ Entry' = Entry
         /\ TestsAreSearched' <=> TestsAreSearched
<1> DEFINE Same(r, q) == /\ r.successors = q.successors /\ r.hasWait = q.hasWait
                         /\ r.isLoop = q.isLoop /\ r.isConditional = q.isConditional
                         /\ r.block = q.block
<1>1. /\ blocks' = addNextStatesToBlocks /\ cfg' = cfg /\ sccfg' = sccfg
      /\ blocks \in [B -> SplitBlocks(B)]
  BY DEF FinishPaths, IndInv, TypeOK
<1>2. B' = B
  BY <1>1 DEF B, addNextStatesToBlocks
<1>3. \A r \in SplitBlocks(B) : \A k : Same([r EXCEPT !.nextState = k], r)
  BY DEF SplitBlocks
<1>4. ASSUME NEW y \in B PROVE Same(blocks'[y], blocks[y])
  <2>1. blocks[y] \in SplitBlocks(B)
    BY <1>1
  <2>2. blocks'[y] = IF y \in DOMAIN waitNextState
                       THEN [blocks[y] EXCEPT !.nextState = waitNextState[y].state]
                       ELSE blocks[y]
    BY <1>1 DEF addNextStatesToBlocks, B
  <2>3. CASE y \in DOMAIN waitNextState
    <3>1. Same([blocks[y] EXCEPT !.nextState = waitNextState[y].state], blocks[y])
      BY <1>3, <2>1
    <3> QED BY <2>2, <2>3, <3>1
  <2>4. CASE y \notin DOMAIN waitNextState
    BY <2>2, <2>4
  <2> QED BY <2>3, <2>4
<1>5. Entry' = Entry
  BY <1>1 DEF Entry
<1>6. Succs' = Succs
  BY <1>2, <1>4 DEF Succs
<1>7. Waits' = Waits /\ Ends' = Ends
  BY <1>2, <1>4 DEF Waits, Ends
<1>8. TestsAreSearched' <=> TestsAreSearched
  BY <1>1, <1>2, <1>4 DEF TestsAreSearched, isSpecial, isConditional
<1> QED BY <1>2, <1>5, <1>6, <1>7, <1>8

(***************************************************************************)
(* When the queue is empty, what has been recorded, with the exits of the  *)
(* thread, is closed under successors.                                     *)
(***************************************************************************)
LEMMA FinishFindsAll ==
  ASSUME IndInv, NothingForgotten, OnlyReachable, FinishPaths
  PROVE  EveryWaitHasAState'
<1> DEFINE R == Reached(Succs, {Entry}, {})
<1>1. /\ pc = "return" /\ frames = <<>> /\ waitsToVisit = <<>> /\ visitedWaits' = visitedWaits
      /\ TypeOK /\ GraphFixed
  BY DEF FinishPaths, numbering, IndInv
<1>2. /\ Entry \in B /\ IsFiniteSet(B) /\ Succs \in [B -> SUBSET B] /\ Ends \subseteq B
      /\ \A x \in Ends : Succs[x] = {}
      /\ \A x \in Waits : x \notin Ends
  BY <1>1, GraphFacts
<1>3. /\ Noted = Recorded \cup Ends
      /\ \A x \in Recorded : Succs[x] \subseteq Noted
  <2>1. ToSet(waitsToVisit) = {}
    BY <1>1 DEF ToSet
  <2> QED BY <1>1, <2>1, AtPathEnd
<1>4. {Entry} \in SUBSET B /\ {Entry} # {}
  BY <1>2
<1>5. R \subseteq B /\ \A T \in SUBSET B :
        {Entry} \subseteq T /\ (\A x \in T \ {} : Succs[x] \subseteq T) => R \subseteq T
  BY <1>2, <1>4, ReachedIsLeast
<1> HIDE DEF R
<1>6. Recorded \subseteq R /\ visitedWaits \subseteq R /\ visitedWaits \subseteq Waits
  BY DEF OnlyReachable, R
<1>7. Noted \in SUBSET B /\ Entry \in Noted
  BY <1>2, <1>3, <1>5, <1>6 DEF NothingForgotten
<1>8. \A x \in Noted : Succs[x] \subseteq Noted
  BY <1>2, <1>3
<1>9. R \subseteq Noted
  BY <1>5, <1>7, <1>8
<1>10. Waits \cap R = visitedWaits
  <2>1. Recorded \cap Waits \subseteq visitedWaits
    BY DEF NothingForgotten
  <2> QED BY <1>2, <1>3, <1>6, <1>9, <2>1
<1>11. Succs' = Succs /\ Waits' = Waits /\ Entry' = Entry
  BY FinishKeepsGraph
<1> QED BY <1>1, <1>10, <1>11 DEF EveryWaitHasAState, R

(***************************************************************************)
(* Pruning with the visited sets of its calls, dfs_visit_wait still meets  *)
(* every wait() control can reach, and meets no other: each one has a      *)
(* state, in every graph.                                                  *)
(***************************************************************************)
THEOREM WaitsAllFound == Spec => []EveryWaitHasAState
<1>1. Init => WaitInv
  BY DEF Init, WaitInv, NothingFound, EveryWaitHasAState
<1>2. IndInv /\ IndInv' /\ WaitInv /\ [Next]_vars => WaitInv'
  <2> SUFFICES ASSUME IndInv, IndInv', WaitInv, [Next]_vars PROVE WaitInv'
    OBVIOUS
  <2>1. ASSUME pc' \in {"visit", "return"}, NothingForgotten', OnlyReachable' PROVE WaitInv'
    BY <2>1 DEF WaitInv, EveryWaitHasAState
  <2>2. pc \in {"visit", "return"} => NothingForgotten /\ OnlyReachable
    BY DEF WaitInv
  <2>3. SearchInv
    BY DEF IndInv, SearchInv
  <2>4. CASE construct_sccfg
    BY <2>4 DEF construct_sccfg, numbering, WaitInv, NothingFound, EveryWaitHasAState
  <2>5. CASE StartReset
    <3>1. NothingFound
      BY <2>5 DEF StartReset, WaitInv
    <3>2. NothingForgotten' /\ OnlyReachable'
      BY <2>5, <3>1, StartResetKeepsWait
    <3>3. pc' \in {"visit", "return"}
      BY <2>5 DEF StartReset, Call
    <3> QED BY <2>1, <3>2, <3>3
  <2>6. CASE Visit
    <3>1. pc = "visit" /\ frames # <<>>
      BY <2>3, <2>6, VisitPath
    <3>2. WaitStep
      BY <2>2, <2>6, <3>1, VisitIsWaitStep
    <3>3. NothingForgotten' /\ OnlyReachable'
      BY <2>2, <2>3, <3>1, <3>2, WaitStepKeeps
    <3>4. pc' \in {"visit", "return"}
      BY <2>3, <2>6, VisitEffect DEF StackOK
    <3> QED BY <2>1, <3>3, <3>4
  <2>7. CASE Resume
    <3>1. pc = "return" /\ frames # <<>>
      BY <2>3, <2>7, ResumePath
    <3>2. WaitStep
      BY <2>2, <2>7, <3>1, ResumeIsWaitStep
    <3>3. NothingForgotten' /\ OnlyReachable'
      BY <2>2, <2>3, <3>1, <3>2, WaitStepKeeps
    <3>4. pc' \in {"visit", "return"}
      BY <2>3, <2>7, ResumeEffect DEF StackOK
    <3> QED BY <2>1, <3>3, <3>4
  <2>8. CASE NextPath
    <3>1. pc = "return" /\ pc' \in {"visit", "return"}
      BY <2>8 DEF NextPath, Call
    <3>2. NothingForgotten' /\ OnlyReachable'
      BY <2>2, <2>8, <3>1, NextPathKeepsWait
    <3> QED BY <2>1, <3>1, <3>2
  <2>9. CASE FinishPaths
    <3>1. pc = "return" /\ pc' = "done"
      BY <2>9 DEF FinishPaths
    <3>2. EveryWaitHasAState'
      BY <2>2, <2>9, <3>1, FinishFindsAll
    <3> QED BY <3>1, <3>2 DEF WaitInv
  <2>10. CASE UNCHANGED vars
    <3>1. UNCHANGED graph /\ pc' = pc /\ frames' = frames /\ ret' = ret /\ popping' = popping
          /\ currPath' = currPath /\ paths' = paths /\ waitsToVisit' = waitsToVisit
          /\ visitedWaits' = visitedWaits /\ nextStateCount' = nextStateCount
      BY <2>10 DEF vars, numbering, results
    <3>2. /\ blocks' = blocks /\ Succs' = Succs /\ Waits' = Waits /\ Ends' = Ends
          /\ Entry' = Entry
      BY <3>1, GraphUnchanged
    <3>3. OnStack' = OnStack /\ NewTop' = NewTop /\ Recorded' = Recorded
      BY <3>1 DEF OnStack, NewTop, Recorded
    <3>4. Noted' = Noted
      BY <3>1, <3>2, <3>3 DEF Noted
    <3>5. NothingForgotten => NothingForgotten'
      BY <3>1, <3>2, <3>3, <3>4 DEF NothingForgotten, Passed
    <3>6. OnlyReachable => OnlyReachable'
      BY <3>1, <3>2, <3>3 DEF OnlyReachable
    <3>7. EveryWaitHasAState' /\ (NothingFound => NothingFound')
      BY <3>1, <3>2 DEF WaitInv, EveryWaitHasAState, NothingFound
    <3> QED BY <3>1, <3>5, <3>6, <3>7 DEF WaitInv
  <2> QED BY <2>4, <2>5, <2>6, <2>7, <2>8, <2>9, <2>10 DEF Next, Terminated
<1>3. WaitInv => EveryWaitHasAState
  BY DEF WaitInv
<1> QED BY <1>1, <1>2, <1>3, SearchInvariant, PTL DEF Spec
-----------------------------------------------------------------------------
(***************************************************************************)
(* The path of a state holds the blocks of the state.  An iteration, as    *)
(* far as the state under search is concerned.                             *)
(***************************************************************************)
StateStep ==
  /\ UNCHANGED graph /\ InPath(currPath') = InPath(currPath) \cup NewTop
  /\ \/ Top \notin Waits /\ Advances
     \/ (Top \in Waits \/ Exhausts) /\ \E seen : Pops(seen)

\* Blocks of the graph stay what they are while the search runs.
LEMMA StateUnchanged ==
  ASSUME UNCHANGED graph
  PROVE  /\ TestsAreSearched' <=> TestsAreSearched
         /\ \A s : InState(s)' = InState(s)
         /\ \A e : Spent(e)' <=> Spent(e)
<1>1. /\ cfg' = cfg /\ blocks' = blocks /\ B' = B /\ Succs' = Succs /\ Waits' = Waits
  BY GraphUnchanged
<1> QED BY <1>1 DEF TestsAreSearched, InState, Spent, isSpecial, isConditional

(***************************************************************************)
(* InState(s) is the least set with s that is closed under the successors  *)
(* of blocks that are not waits.                                           *)
(***************************************************************************)
LEMMA InStateIsLeast ==
  ASSUME TypeOK, GraphFixed, pc \notin {"construct", "done"}, NEW s \in B
  PROVE  /\ s \in InState(s) /\ InState(s) \subseteq B
         /\ \A x \in InState(s) \ Waits : Succs[x] \subseteq InState(s)
         /\ \A T \in SUBSET B : s \in T /\ (\A x \in T \ Waits : Succs[x] \subseteq T)
                                  => InState(s) \subseteq T
<1>1. IsFiniteSet(B) /\ Succs \in [B -> SUBSET B]
  BY GraphFacts
<1> DEFINE bs == {s}
           R == Reached(Succs, bs, Waits)
<1>2. bs \in SUBSET B /\ bs # {}
  OBVIOUS
<1>3. InState(s) = R
  BY DEF InState
<1> HIDE DEF bs
<1>4. bs \subseteq R /\ R \subseteq B /\ \A x \in R \ Waits : Succs[x] \subseteq R
  BY <1>1, <1>2, ReachedIsLeast
<1>5. \A T \in SUBSET B : bs \subseteq T /\ (\A x \in T \ Waits : Succs[x] \subseteq T)
                           => R \subseteq T
  BY <1>1, <1>2, ReachedIsLeast
<1> HIDE DEF R
<1> QED BY <1>3, <1>4, <1>5 DEF bs

LEMMA AdvanceKeepsState ==
  ASSUME SearchInv, pc \in {"visit", "return"}, frames # <<>>, TestsAreSearched,
         NEW s \in B, StateSearched(s), UNCHANGED graph,
         InPath(currPath') = InPath(currPath) \cup NewTop, Top \notin Waits, Advances
  PROVE  StateSearched(s)'
<1> DEFINE u == blocks[Top].successors
<1>1. /\ cfg' = cfg /\ blocks' = blocks /\ Succs' = Succs /\ Waits' = Waits /\ Ends' = Ends
  BY GraphUnchanged
<1>2. /\ Top \in B /\ TopEntry.block = Top /\ Top \in OnStack /\ u \in Seq(B)
      /\ DOMAIN u = 1..Len(u) /\ Len(u) \in Nat /\ TopEntry.it \in Nat \ {0}
      /\ Entries(frames) = Rest \cup {TopEntry} /\ CallerMarks \cup Own = Marks(frames)
      /\ NewTop \subseteq {Top}
  BY TopFacts
<1>3. /\ s \in Known /\ OnStack \subseteq Known
      /\ InPath(currPath) \cup OnStack \subseteq InState(s)
      /\ \A x \in InPath(currPath) \ Waits : x \in OnStack \/ Succs[x] \subseteq Known
      /\ Passed(Known)
      /\ \A e \in Below(frames) : Spent(e)
      /\ pc = "return" \/ ~popping => Marks(frames) \subseteq Known
      /\ pc = "visit" /\ popping => Spent(TopEntry)
  BY DEF StateSearched, TopEntry
<1>4. PICK j \in DOMAIN u :
        /\ TopEntry.it <= j
        /\ GoesTo(u[j], [block |-> Top, it |-> j + 1], Own \cup {Top}, isSpecial(cfg, blocks, Top))
  BY DEF Advances
<1>5. ~Spent(TopEntry)
  BY <1>2, <1>4 DEF Spent
<1>6. Marks(frames) \subseteq Known
  BY <1>3, <1>5
<1>7. Known \subseteq Known' /\ NewTop' \cup Ends \subseteq Known'
  BY <1>1 DEF Known
<1>8. PICK y \in Succs[Top] :
        /\ OnStack' \subseteq OnStack \cup {y} /\ y \in Known'
        /\ Marks(frames') \subseteq Marks(frames) \cup {Top, y}
  BY <1>2, <1>3, <1>6, <1>7, AdvancePasses
<1>9. /\ \A e \in Entries(frames') : \A k \in DOMAIN blocks'[e.block].successors :
           k < e.it => blocks'[e.block].successors[k] \in Known'
      /\ Rest \subseteq Entries(frames') /\ Top \in OnStack'
      /\ pc' \in {"visit", "return"} /\ (pc' = "visit" => ~popping')
  BY <1>2, <1>3, <1>6, <1>7, AdvancePasses
<1>10. Passed(Known)'
  BY <1>9 DEF Passed
<1>11. OnStack \subseteq OnStack'
  BY <1>2, <1>9 DEF OnStack
<1>12. {s} \cup OnStack' \subseteq Known' /\ Marks(frames') \subseteq Known'
  BY <1>2, <1>3, <1>6, <1>7, <1>8
<1>13. InPath(currPath') \cup OnStack' \subseteq InState(s)
  <2>1. \A x \in InState(s) \ Waits : Succs[x] \subseteq InState(s)
    BY InStateIsLeast DEF SearchInv
  <2>2. y \in InState(s)
    BY <1>2, <1>3, <1>8, <2>1
  <2> QED BY <1>2, <1>3, <1>8, <2>2
<1>14. \A x \in InPath(currPath') \ Waits : x \in OnStack' \/ Succs[x] \subseteq Known'
  BY <1>2, <1>3, <1>7, <1>9, <1>11
<1>15. \A e \in Below(frames') : Spent(e)
  <2> DEFINE e == [block |-> Top, it |-> j + 1]
  <2>1. Below(frames') \subseteq Below(frames) \cup
          (IF isSpecial(cfg, blocks, Top) THEN {} ELSE {e})
    BY <1>4 DEF GoesTo
  <2>2. ~isSpecial(cfg, blocks, Top) => Spent(e)
    <3>1. ~isSpecial(cfg, blocks, Top) => ~(Len(u) > 1)
      BY <1>2 DEF TestsAreSearched
    <3>2. ~isSpecial(cfg, blocks, Top) => j + 1 > Len(u)
      BY <1>2, <1>4, <3>1
    <3>3. e.block = Top /\ e.it = j + 1
      OBVIOUS
    <3> HIDE DEF e
    <3> QED BY <3>2, <3>3 DEF Spent
  <2> HIDE DEF e
  <2> QED BY <1>3, <2>1, <2>2
<1>16. pc' = "visit" => Marks(Front(frames')) \subseteq Known'
  <2>1. pc' = "visit" => Marks(Front(frames')) \subseteq Marks(frames')
    BY <1>4 DEF GoesTo
  <2> QED BY <1>12, <2>1
<1>17. InState(s)' = InState(s) /\ \A e : Spent(e)' <=> Spent(e)
  BY StateUnchanged
<1>18. \A e \in Below(frames') : Spent(e)'
  BY <1>15, <1>17
<1>19. ~(pc' = "visit" /\ popping')
  BY <1>9
<1> QED BY <1>1, <1>10, <1>12, <1>13, <1>14, <1>16, <1>17, <1>18, <1>19 DEF StateSearched

LEMMA PopKeepsState ==
  ASSUME SearchInv, pc \in {"visit", "return"}, frames # <<>>,
         NEW s \in B, StateSearched(s), UNCHANGED graph,
         InPath(currPath') = InPath(currPath) \cup NewTop,
         Top \in Waits \/ Exhausts, NEW seen, Pops(seen)
  PROVE  StateSearched(s)'
<1>1. /\ blocks' = blocks /\ Succs' = Succs /\ Waits' = Waits /\ Ends' = Ends
  BY GraphUnchanged
<1>2. /\ Top \in B /\ TopEntry.block = Top /\ Top \in OnStack
      /\ DOMAIN blocks[Top].successors = 1..Len(blocks[Top].successors)
      /\ Len(blocks[Top].successors) \in Nat /\ TopEntry.it \in Nat \ {0}
      /\ TopEntry \in Entries(frames) /\ CallerMarks \cup Own = Marks(frames)
      /\ NewTop \subseteq {Top}
  BY TopFacts
<1>3. /\ s \in Known /\ OnStack \subseteq Known
      /\ InPath(currPath) \cup OnStack \subseteq InState(s)
      /\ \A x \in InPath(currPath) \ Waits : x \in OnStack \/ Succs[x] \subseteq Known
      /\ Passed(Known)
      /\ \A e \in Below(frames) : Spent(e)
      /\ pc = "return" \/ ~popping => Marks(frames) \subseteq Known
      /\ pc = "visit" => CallerMarks \subseteq Known
      /\ pc = "visit" /\ popping => Spent(TopEntry)
  BY DEF StateSearched, TopEntry, CallerMarks
<1>4. Known \subseteq Known'
  BY <1>1 DEF Known
<1>5. /\ \A e \in Entries(frames') : \A k \in DOMAIN blocks'[e.block].successors :
           k < e.it => blocks'[e.block].successors[k] \in Known'
      /\ OnStack' \subseteq OnStack /\ OnStack \subseteq OnStack' \cup {Top}
      /\ pc' \in {"visit", "return"}
  BY <1>3, <1>4, PopPasses
<1>6. Passed(Known)'
  BY <1>5 DEF Passed
<1>7. Top \in Waits \/ Succs[Top] \subseteq Known
  <2>1. CASE Exhausts /\ Own \subseteq Known
    BY <1>3, <2>1, ExhaustedPasses
  <2>2. CASE Spent(TopEntry)
    <3>1. \A k \in DOMAIN blocks[Top].successors : k < TopEntry.it
      BY <1>2, <2>2 DEF Spent
    <3>2. \A k \in DOMAIN blocks[Top].successors : blocks[Top].successors[k] \in Known
      BY <1>2, <1>3, <3>1 DEF Passed
    <3>3. Succs[Top] = ToSet(blocks[Top].successors)
      BY <1>2 DEF Succs
    <3> QED BY <3>2, <3>3 DEF ToSet
  <2>3. Own \subseteq Known \/ Spent(TopEntry)
    BY <1>2, <1>3
  <2> QED BY <2>1, <2>2, <2>3
<1>8. CallerMarks \subseteq Known
  BY <1>2, <1>3
<1>9. /\ popping' = TRUE /\ Below(frames') \subseteq Below(frames)
      /\ pc' = "return" => Marks(frames') \subseteq CallerMarks
      /\ pc' = "visit" => /\ Marks(Front(frames')) \subseteq CallerMarks
                          /\ Last(Last(frames').toVisit) \in Below(frames)
  BY DEF Pops
<1>10. \A x \in InPath(currPath') \ Waits : x \in OnStack' \/ Succs[x] \subseteq Known'
  BY <1>2, <1>3, <1>4, <1>5, <1>7
<1>11. InState(s)' = InState(s) /\ \A e : Spent(e)' <=> Spent(e)
  BY StateUnchanged
<1>12. \A e \in Below(frames') : Spent(e)'
  BY <1>3, <1>9, <1>11
<1>13. pc' = "visit" => Spent(Last(Last(frames).toVisit))'
  <2>1. \A e \in Below(frames) : Spent(e)
    BY <1>3
  <2>2. pc' = "visit" => Spent(Last(Last(frames').toVisit))
    BY <1>9, <2>1
  <2> QED BY <1>1, <2>2 DEF Spent
<1>14. /\ {s} \cup OnStack' \subseteq Known'
       /\ InPath(currPath') \cup OnStack' \subseteq InState(s)
  BY <1>2, <1>3, <1>4, <1>5
<1>15. /\ pc' = "return" \/ ~popping' => Marks(frames') \subseteq Known'
       /\ pc' = "visit" => Marks(Front(frames')) \subseteq Known'
  BY <1>4, <1>8, <1>9
<1> QED BY <1>1, <1>6, <1>10, <1>11, <1>12, <1>13, <1>14, <1>15 DEF StateSearched

(***************************************************************************)
(* An iteration keeps what is known of the state under search.             *)
(***************************************************************************)
LEMMA StateStepKeeps ==
  ASSUME SearchInv, pc \in {"visit", "return"}, frames # <<>>, TestsAreSearched,
         NEW s \in B, StateSearched(s), StateStep
  PROVE  StateSearched(s)'
<1>1. UNCHANGED graph /\ InPath(currPath') = InPath(currPath) \cup NewTop
  BY DEF StateStep
<1>2. CASE Top \notin Waits /\ Advances
  BY <1>1, <1>2, AdvanceKeepsState
<1>3. CASE (Top \in Waits \/ Exhausts) /\ \E seen : Pops(seen)
  <2>1. PICK seen : Pops(seen)
    BY <1>3
  <2> QED BY <1>1, <1>3, <2>1, PopKeepsState
<1> QED BY <1>2, <1>3 DEF StateStep

LEMMA VisitIsStateStep ==
  ASSUME SearchInv, Visit
  PROVE  StateStep
<1>1. UNCHANGED graph /\ InPath(currPath') = InPath(currPath) \cup NewTop
  BY VisitPath
<1>2. \/ Top \notin Waits /\ Advances
      \/ Top \notin Waits /\ Exhausts /\ Pops(Own)
      \/ Top \in Waits /\ Pops(Own \cup Succs[Top])
  BY VisitMoves
<1> QED BY <1>1, <1>2, Zenon DEF StateStep

LEMMA ResumeIsStateStep ==
  ASSUME SearchInv, Resume
  PROVE  StateStep
<1>1. UNCHANGED graph /\ InPath(currPath') = InPath(currPath) /\ NewTop = {}
  BY ResumePath
<1>2. Top \notin Waits /\ (Advances \/ (Exhausts /\ Pops(Own \cup ret.visited)))
  BY ResumeMoves
<1>3. InPath(currPath') = InPath(currPath) \cup NewTop
  BY <1>1
<1> QED BY <1>1, <1>2, <1>3, Zenon DEF StateStep

(***************************************************************************)
(* A wait that gets a number gets the next one; numbers never change.      *)
(***************************************************************************)
LEMMA NumbersKept ==
  ASSUME IndInv, AllNumbersTaken, UNCHANGED graph,
         \/ UNCHANGED numbering
         \/ \E x, next : RegisterWait(x, next)
  PROVE  AllNumbersTaken' /\ \A s, k : StartsState(s, k) => StartsState(s, k)'
<1>1. Entry' = Entry
  BY GraphUnchanged
<1>2. CASE UNCHANGED numbering
  BY <1>1, <1>2 DEF numbering, AllNumbersTaken, StartsState
<1>3. ASSUME NEW x, NEW next, RegisterWait(x, next), x \notin visitedWaits
      PROVE  AllNumbersTaken' /\ \A s, k : StartsState(s, k) => StartsState(s, k)'
  <2>1. /\ visitedWaits' = visitedWaits \cup {x} /\ nextStateCount' = nextStateCount + 1
        /\ waitNextState' = [w \in visitedWaits \cup {x} |->
             IF w = x THEN [next |-> next, state |-> nextStateCount + 1] ELSE waitNextState[w]]
    BY <1>3 DEF RegisterWait
  <2>2. \A w \in visitedWaits : w \in visitedWaits' /\ waitNextState'[w] = waitNextState[w]
    BY <1>3, <2>1
  <2>3. x \in visitedWaits' /\ waitNextState'[x].state = nextStateCount + 1
    BY <2>1
  <2>4. nextStateCount \in Nat
    BY DEF IndInv, TypeOK
  <2>5. ASSUME NEW k \in 1..nextStateCount' PROVE \E w \in visitedWaits' : waitNextState'[w].state = k
    <3>1. CASE k \in 1..nextStateCount
      BY <2>2, <3>1 DEF AllNumbersTaken
    <3>2. CASE k = nextStateCount + 1
      BY <2>3, <3>2
    <3>3. nextStateCount' = nextStateCount + 1
      BY <2>1
    <3>4. k \in 1..nextStateCount \/ k = nextStateCount + 1
      BY <2>4, <3>3
    <3> QED BY <3>1, <3>2, <3>4
  <2>6. AllNumbersTaken'
    BY <2>5 DEF AllNumbersTaken
  <2>7. ASSUME NEW s, NEW k, StartsState(s, k) PROVE StartsState(s, k)'
    <3>1. CASE k = 0 /\ s = Entry
      BY <1>1, <3>1 DEF StartsState
    <3>2. CASE \E w \in visitedWaits : waitNextState[w].state = k /\ waitNextState[w].next = s
      BY <2>2, <3>2 DEF StartsState
    <3> QED BY <2>7, <3>1, <3>2 DEF StartsState
  <2> QED BY <2>6, <2>7
<1>4. ASSUME NEW x, NEW next, RegisterWait(x, next), x \in visitedWaits
      PROVE  UNCHANGED numbering
  BY <1>4 DEF RegisterWait
<1> QED BY <1>2, <1>3, <1>4

LEMMA SearchKeepsCover ==
  ASSUME IndInv, CoverInv, pc \in {"visit", "return"}, frames # <<>>, StateStep,
         paths' = paths,
         \/ UNCHANGED numbering
         \/ \E x, next : RegisterWait(x, next)
  PROVE  CoverInv'
<1>1. SearchInv /\ UNCHANGED graph /\ AllNumbersTaken
  BY DEF IndInv, SearchInv, StateStep, CoverInv
<1>2. AllNumbersTaken' /\ \A s, k : StartsState(s, k) => StartsState(s, k)'
  BY <1>1, NumbersKept
<1>3. /\ TestsAreSearched' <=> TestsAreSearched
      /\ \A s : InState(s)' = InState(s)
  BY <1>1, StateUnchanged
<1>4. B' = B /\ Ends' = Ends
  BY <1>1, GraphUnchanged
<1> SUFFICES ASSUME TestsAreSearched PROVE PathsCovered' /\ SearchCovers'
  BY <1>2, <1>3 DEF CoverInv
<1>5. PathsCovered /\ SearchCovers
  BY DEF CoverInv
<1>6. PathsCovered'
  <2> SUFFICES ASSUME NEW k \in DOMAIN paths'
               PROVE  \E s \in B' : StartsState(s, k - 1)' /\ StateCovered(s, paths[k])'
    BY DEF PathsCovered
  <2>1. PICK s \in B : StartsState(s, k - 1) /\ StateCovered(s, paths[k])
    BY <1>5 DEF PathsCovered
  <2>2. StartsState(s, k - 1)'
    BY <1>2, <2>1
  <2>3. StateCovered(s, paths[k])'
    BY <1>3, <1>4, <2>1 DEF StateCovered
  <2> QED BY <1>4, <2>2, <2>3
<1>7. SearchCovers'
  <2>1. PICK s \in B : StartsState(s, Len(paths)) /\ StateSearched(s)
    BY <1>5 DEF SearchCovers
  <2>2. StateSearched(s)'
    BY <1>1, <2>1, StateStepKeeps
  <2>3. PICK n : n = Len(paths)
    OBVIOUS
  <2>4. StartsState(s, n)'
    BY <1>2, <2>1, <2>3
  <2>5. StartsState(s, Len(paths))'
    BY <2>3, <2>4 DEF StartsState
  <2> QED BY <1>4, <2>2, <2>5 DEF SearchCovers
<1> QED BY <1>6, <1>7

(***************************************************************************)
(* A state just entered: only its first block is known.                    *)
(***************************************************************************)
LEMMA StartSearchesState ==
  ASSUME TypeOK, GraphFixed, pc \notin {"construct", "done"}, NEW x \in B,
         Call(<<>>, x, {}), UNCHANGED graph, currPath' = <<>>
  PROVE  StateSearched(x)'
<1>1. blocks[x].successors \in Seq(B)
  BY DEF TypeOK, SplitBlocks
<1>2. /\ pc' \in {"visit", "return"} /\ x \in NewTop' \cup Ends /\ NewTop' \subseteq {x}
      /\ OnStack' \subseteq {x} /\ Below(frames') = {} /\ Marks(frames') \subseteq NewTop'
      /\ (pc' = "visit" => popping' = FALSE /\ Marks(Front(frames')) = {})
      /\ \A e \in Entries(frames') : \A j \in DOMAIN blocks'[e.block].successors : ~(j < e.it)
  BY <1>1, FirstCall
<1>3. Ends' = Ends /\ InState(x)' = InState(x)
  BY GraphUnchanged, StateUnchanged
<1>4. x \in InState(x)
  BY InStateIsLeast
<1>5. InPath(currPath') = {}
  BY DEF InPath
<1>6. NewTop' \subseteq Known' /\ x \in Known'
  BY <1>2, <1>3 DEF Known
<1>7. Passed(Known)'
  BY <1>2 DEF Passed
<1>8. InPath(currPath') \cup OnStack' \subseteq InState(x)'
  BY <1>2, <1>3, <1>4, <1>5
<1> QED BY <1>2, <1>5, <1>6, <1>7, <1>8 DEF StateSearched

(***************************************************************************)
(* When the stacks are empty the path has all of its state.                *)
(***************************************************************************)
LEMMA PathComplete ==
  ASSUME TypeOK, GraphFixed, pc = "return", frames = <<>>, NEW s \in B, StateSearched(s)
  PROVE  StateCovered(s, currPath)
<1>1. OnStack = {} /\ NewTop = {}
  BY NoFrames DEF OnStack, NewTop
<1>2. Known = InPath(currPath) \cup Ends
  BY <1>1 DEF Known
<1>3. /\ s \in Known /\ InPath(currPath) \subseteq InState(s)
      /\ \A x \in InPath(currPath) \ Waits : Succs[x] \subseteq Known
  BY <1>1 DEF StateSearched
<1>4. Ends \subseteq B /\ \A x \in Ends : Succs[x] = {}
  BY GraphFacts
<1>5. InState(s) \subseteq B
  BY InStateIsLeast
<1>6. Known \in SUBSET B /\ \A x \in Known \ Waits : Succs[x] \subseteq Known
  BY <1>2, <1>3, <1>4, <1>5
<1>7. InState(s) \subseteq Known
  BY <1>3, <1>6, InStateIsLeast
<1> QED BY <1>2, <1>3, <1>7 DEF StateCovered

\* Recording the path of the state under search; the graph may change only
\* in what the states do not depend on.
LEMMA RecordCovers ==
  ASSUME IndInv, pc = "return", frames = <<>>, PathsCovered, SearchCovers,
         paths' = Append(paths, currPath), visitedWaits' = visitedWaits,
         waitNextState' = waitNextState, B' = B, Succs' = Succs, Waits' = Waits,
         Ends' = Ends, Entry' = Entry
  PROVE  PathsCovered'
<1> DEFINE n == Len(paths)
<1>1. /\ TypeOK /\ GraphFixed /\ paths \in Seq(Seq(PathEntries(B)))
      /\ currPath \in Seq(PathEntries(B))
  BY DEF IndInv, TypeOK
<1>2. /\ DOMAIN paths = 1..n /\ DOMAIN paths' = 1..(n + 1) /\ n \in Nat
      /\ \A k \in 1..n : paths'[k] = paths[k]
      /\ paths'[n + 1] = currPath
  BY <1>1
<1> SUFFICES ASSUME NEW k \in DOMAIN paths'
             PROVE  \E s \in B' : StartsState(s, k - 1)' /\ StateCovered(s, paths[k])'
  BY DEF PathsCovered
<1>3. PICK p : p = paths'[k]
  OBVIOUS
<1>4. \E s \in B : StartsState(s, k - 1) /\ StateCovered(s, p)
  <2>1. CASE k \in 1..n
    BY <1>2, <1>3, <2>1 DEF PathsCovered
  <2>2. CASE k = n + 1
    <3>1. PICK s \in B : StartsState(s, n) /\ StateSearched(s)
      BY DEF SearchCovers
    <3>2. StateCovered(s, currPath)
      BY <1>1, <3>1, PathComplete
    <3>3. k - 1 = n /\ p = currPath
      BY <1>2, <1>3, <2>2
    <3> QED BY <3>1, <3>2, <3>3
  <2> QED BY <1>2, <2>1, <2>2
<1>5. PICK s \in B : StartsState(s, k - 1) /\ StateCovered(s, p)
  BY <1>4
<1>6. StartsState(s, k - 1)'
  BY <1>5 DEF StartsState
<1>7. StateCovered(s, paths[k])'
  BY <1>3, <1>5 DEF StateCovered, InState
<1> QED BY <1>6, <1>7

LEMMA StartResetKeepsCover ==
  ASSUME IndInv, AllNumbersTaken, StartReset
  PROVE  CoverInv'
<1>1. /\ pc = "rework" /\ Call(<<>>, Entry, {}) /\ UNCHANGED graph /\ currPath' = currPath
      /\ UNCHANGED numbering /\ paths' = paths
  BY DEF StartReset, Entry, results
<1>2. /\ TypeOK /\ GraphFixed /\ paths = <<>> /\ currPath = <<>>
  BY <1>1 DEF IndInv, QueueAligned
<1>3. Entry \in B
  BY <1>1, <1>2, GraphFacts
<1>4. B' = B /\ Entry' = Entry
  BY <1>1, GraphUnchanged
<1>5. AllNumbersTaken'
  BY <1>1, NumbersKept
<1>6. PathsCovered'
  BY <1>1, <1>2 DEF PathsCovered
<1>7. StateSearched(Entry)'
  <2>1. PICK e \in B : e = Entry
    BY <1>3
  <2>2. StateSearched(e)'
    BY <1>1, <1>2, <2>1, StartSearchesState
  <2>3. e = Entry'
    BY <1>4, <2>1
  <2> QED BY <2>2, <2>3 DEF StateSearched, InState
<1>8. StartsState(Entry, Len(paths))'
  BY <1>1, <1>2 DEF StartsState
<1>9. SearchCovers'
  BY <1>3, <1>4, <1>7, <1>8 DEF SearchCovers
<1> QED BY <1>5, <1>6, <1>9 DEF CoverInv

LEMMA NextPathKeepsCover ==
  ASSUME IndInv, CoverInv, NextPath
  PROVE  CoverInv'
<1> DEFINE x == Last(waitsToVisit)
           n == Len(paths)
           q == Len(waitsToVisit)
<1>1. /\ pc = "return" /\ frames = <<>> /\ waitsToVisit # <<>>
      /\ Call(<<>>, x, {}) /\ UNCHANGED graph /\ visitedWaits' = visitedWaits
      /\ waitNextState' = waitNextState /\ nextStateCount' = nextStateCount
      /\ paths' = Append(paths, currPath) /\ currPath' = <<>>
  BY DEF NextPath, RecordPath
<1>2. /\ TypeOK /\ GraphFixed /\ waitsToVisit \in Seq(B) /\ paths \in Seq(Seq(PathEntries(B)))
      /\ currPath \in Seq(PathEntries(B))
      /\ nextStateCount = n + q /\ n \in Nat
      /\ \A w \in visitedWaits : waitNextState[w].state > n =>
           waitNextState[w].next = waitsToVisit[nextStateCount - waitNextState[w].state + 1]
  BY <1>1 DEF IndInv, TypeOK, QueueAligned
<1>3. q \in Nat \ {0} /\ x \in B /\ x = waitsToVisit[q]
  BY <1>1, <1>2, FrontLast
<1>4. Len(paths') = n + 1
  BY <1>1, <1>2
<1> HIDE DEF x, n, q
<1>5. /\ B' = B /\ Succs' = Succs /\ Waits' = Waits /\ Ends' = Ends /\ Entry' = Entry
  BY <1>1, GraphUnchanged
<1>6. TestsAreSearched' <=> TestsAreSearched
  BY <1>1, StateUnchanged
<1>7. AllNumbersTaken /\ AllNumbersTaken'
  BY <1>1 DEF CoverInv, AllNumbersTaken
<1>8. PICK w \in visitedWaits : waitNextState[w].state = n + 1
  <2>1. n + 1 \in 1..nextStateCount
    BY <1>2, <1>3
  <2> QED BY <1>7, <2>1 DEF AllNumbersTaken
<1>9. waitNextState[w].next = x
  <2>1. nextStateCount - (n + 1) + 1 = q /\ n + 1 > n
    BY <1>2, <1>3
  <2> QED BY <1>2, <1>3, <1>8, <2>1
<1>10. StartsState(x, n + 1)
  BY <1>8, <1>9 DEF StartsState
<1>11. PICK s \in B : s = x
  BY <1>3
<1>12. StartsState(s, Len(paths))'
  BY <1>1, <1>4, <1>5, <1>10, <1>11 DEF StartsState
<1>13. StateSearched(s)'
  BY <1>1, <1>2, <1>11, StartSearchesState
<1>14. SearchCovers'
  BY <1>5, <1>12, <1>13 DEF SearchCovers
<1>15. TestsAreSearched => PathsCovered'
  BY <1>1, <1>5, RecordCovers DEF CoverInv
<1> QED BY <1>6, <1>7, <1>14, <1>15 DEF CoverInv

LEMMA FinishKeepsCover ==
  ASSUME IndInv, CoverInv, FinishPaths
  PROVE  CoverInv'
<1>1. /\ pc = "return" /\ frames = <<>> /\ pc' = "done" /\ paths' = Append(paths, currPath)
      /\ visitedWaits' = visitedWaits /\ waitNextState' = waitNextState
      /\ nextStateCount' = nextStateCount
  BY DEF FinishPaths, RecordPath, numbering
<1>2. /\ B' = B /\ Succs' = Succs /\ Waits' = Waits /\ Ends' = Ends /\ Entry' = Entry
      /\ TestsAreSearched' <=> TestsAreSearched
  BY FinishKeepsGraph
<1>3. AllNumbersTaken'
  BY <1>1 DEF CoverInv, AllNumbersTaken
<1>4. TestsAreSearched => PathsCovered'
  BY <1>1, <1>2, RecordCovers DEF CoverInv
<1>5. SearchCovers'
  BY <1>1 DEF SearchCovers
<1> QED BY <1>2, <1>3, <1>4, <1>5 DEF CoverInv

(***************************************************************************)
(* When the search has ended, what it kept is what was asked for.          *)
(***************************************************************************)
LEMMA CoverAtEnd ==
  ASSUME IndInv, CoverInv
  PROVE  PathCoversState
<1> SUFFICES ASSUME pc = "done", TestsAreSearched, NEW k \in DOMAIN paths
             PROVE  InPath(paths[k]) \ Ends
                      = Reached(Succs, {StartOfState(k - 1)}, Waits) \ Ends
  BY DEF PathCoversState
<1>1. PICK s \in B : StartsState(s, k - 1) /\ StateCovered(s, paths[k])
  BY DEF CoverInv, PathsCovered
<1>2. /\ \A w \in visitedWaits : waitNextState[w].state \in 1..nextStateCount
      /\ \A v, w \in visitedWaits : waitNextState[v].state = waitNextState[w].state => v = w
      /\ nextStateCount \in Nat
  BY DEF IndInv, Numbered, TypeOK
<1>3. s = StartOfState(k - 1)
  <2> DEFINE m == k - 1
  <2>1. StartsState(s, m)
    BY <1>1
  <2> HIDE DEF m
  <2>2. CASE m = 0
    <3>1. \A w \in visitedWaits : waitNextState[w].state # m
      BY <1>2, <2>2
    <3> QED BY <2>1, <2>2, <3>1 DEF StartsState, StartOfState, m
  <2>3. CASE m # 0
    <3>1. PICK w \in visitedWaits : waitNextState[w].state = m /\ waitNextState[w].next = s
      BY <2>1, <2>3 DEF StartsState
    <3> DEFINE v == CHOOSE v \in visitedWaits : waitNextState[v].state = m
    <3>2. v \in visitedWaits /\ waitNextState[v].state = m
      BY <3>1
    <3>3. StartOfState(m) = waitNextState[v].next
      BY <2>3 DEF StartOfState
    <3> HIDE DEF v
    <3>4. v = w
      BY <1>2, <3>1, <3>2
    <3> QED BY <3>1, <3>3, <3>4 DEF m
  <2> QED BY <2>2, <2>3
<1>4. InPath(paths[k]) \subseteq InState(s) /\ InState(s) \subseteq InPath(paths[k]) \cup Ends
  BY <1>1 DEF StateCovered
<1> QED BY <1>3, <1>4 DEF InState

(***************************************************************************)
(* Where every test is searched by a call of its own, the path generated   *)
(* for a state holds exactly the blocks control can pass in that state: no *)
(* visited set hides one, and none of another state gets in.               *)
(***************************************************************************)
THEOREM PathsCoverStates == Spec => []PathCoversState
<1>1. Init => CoverInv
  BY DEF Init, CoverInv, AllNumbersTaken, PathsCovered, SearchCovers
<1>2. IndInv /\ IndInv' /\ CoverInv /\ [Next]_vars => CoverInv'
  <2> SUFFICES ASSUME IndInv, IndInv', CoverInv, [Next]_vars PROVE CoverInv'
    OBVIOUS
  <2>1. SearchInv
    BY DEF IndInv, SearchInv
  <2>2. CASE construct_sccfg
    <3>1. /\ pc = "construct" /\ pc' = "rework" /\ paths' = paths /\ visitedWaits' = visitedWaits
          /\ nextStateCount' = nextStateCount /\ waitNextState' = waitNextState
      BY <2>2 DEF construct_sccfg, numbering
    <3>2. paths = <<>>
      BY <3>1 DEF IndInv, QueueAligned
    <3>3. AllNumbersTaken'
      BY <3>1 DEF CoverInv, AllNumbersTaken
    <3> QED BY <3>1, <3>2, <3>3 DEF CoverInv, PathsCovered, SearchCovers
  <2>3. CASE StartReset
    BY <2>3, StartResetKeepsCover DEF CoverInv
  <2>4. CASE Visit
    <3>1. pc = "visit" /\ frames # <<>> /\ paths' = paths
      BY <2>1, <2>4, VisitPath
    <3>2. UNCHANGED numbering \/ \E x, next : RegisterWait(x, next)
      BY <2>1, <2>4, VisitEffect
    <3> QED BY <2>1, <2>4, <3>1, <3>2, VisitIsStateStep, SearchKeepsCover
  <2>5. CASE Resume
    <3>1. pc = "return" /\ frames # <<>> /\ paths' = paths /\ UNCHANGED numbering
      BY <2>1, <2>5, ResumePath
    <3> QED BY <2>1, <2>5, <3>1, ResumeIsStateStep, SearchKeepsCover
  <2>6. CASE NextPath
    BY <2>6, NextPathKeepsCover
  <2>7. CASE FinishPaths
    BY <2>7, FinishKeepsCover
  <2>8. CASE UNCHANGED vars
    <3>1. UNCHANGED graph /\ pc' = pc /\ frames' = frames /\ ret' = ret /\ popping' = popping
          /\ currPath' = currPath /\ paths' = paths /\ visitedWaits' = visitedWaits
          /\ waitNextState' = waitNextState /\ nextStateCount' = nextStateCount
      BY <2>8 DEF vars, numbering, results
    <3>2. /\ blocks' = blocks /\ B' = B /\ Succs' = Succs /\ Waits' = Waits /\ Ends' = Ends
          /\ Entry' = Entry
      BY <3>1, GraphUnchanged
    <3>3. /\ TestsAreSearched' <=> TestsAreSearched
          /\ \A s : InState(s)' = InState(s)
          /\ \A e : Spent(e)' <=> Spent(e)
      BY <3>1, StateUnchanged
    <3>4. OnStack' = OnStack /\ NewTop' = NewTop /\ Known' = Known
      BY <3>1, <3>2 DEF OnStack, NewTop, Known
    <3>5. \A s : StateSearched(s) => StateSearched(s)'
      BY <3>1, <3>2, <3>3, <3>4 DEF StateSearched, Passed, Spent
    <3>6. \A s, k : StartsState(s, k) => StartsState(s, k)'
      BY <3>1, <3>2 DEF StartsState
    <3>7. \A s, p : StateCovered(s, p) => StateCovered(s, p)'
      BY <3>2, <3>3 DEF StateCovered
    <3>8. AllNumbersTaken'
      BY <3>1 DEF CoverInv, AllNumbersTaken
    <3>9. PathsCovered => PathsCovered'
      BY <3>1, <3>2, <3>6, <3>7 DEF PathsCovered
    <3>10. SearchCovers => SearchCovers'
      BY <3>1, <3>2, <3>5, <3>6 DEF SearchCovers
    <3> QED BY <3>3, <3>8, <3>9, <3>10 DEF CoverInv
  <2> QED BY <2>2, <2>3, <2>4, <2>5, <2>6, <2>7, <2>8 DEF Next, Terminated
<1>3. IndInv /\ CoverInv => PathCoversState
  BY CoverAtEnd
<1> QED BY <1>1, <1>2, <1>3, SearchInvariant, PTL DEF Spec
=============================================================================
