------------------------------ MODULE SplitCFG ------------------------------
(***************************************************************************)
(* src/cfg/SplitCFG.cpp, construct_sccfg: the control-flow graph of a      *)
(* thread is cut around its wait() calls into SplitCFGBlocks.              *)
(*                                                                         *)
(* A graph c is a record with an entry block, and for every block b of     *)
(* DOMAIN c.succs its elements c.elems[b], its successors c.succs[b]       *)
(* without null pointers, and the kind of its terminator c.term[b].        *)
(* "forever" is a loop whose false successor is null.                      *)
(* An element is a record with fields op, lab, args and n.                 *)
(*                                                                         *)
(* A SplitCFGBlock object is named <<b, i>>, the piece of block b that     *)
(* starts with its i-th element: its id_ is no name, because two objects   *)
(* can have the same one.                                                  *)
(***************************************************************************)
EXTENDS Integers, SequencesExt

Ops == {"stmt", "decl", "wait", "cond", "true", "operand"}
Elements == [op : Ops, lab : Int, args : Nat, n : Int]
Terminators == {"none", "if", "while", "for", "do", "forever", "break", "continue",
                "ternary", "logical"}

\* The value of a wait argument that is not a constant.
Runtime == -1

BlockIDs(c) == DOMAIN c.succs

\* A call of wait with two or more arguments is reported and not split off.
isElementWait(e) == e.op = "wait" /\ e.args < 2

\* getWaitArgument: 0 unless there is exactly one, constant, argument.
getWaitArgument(e) == IF e.args = 1 /\ e.n # Runtime THEN e.n ELSE 0

\* What clang::CFG::buildCFG guarantees of the graphs it returns.
IsCFG(c) ==
  /\ BlockIDs(c) \subseteq Nat /\ IsFiniteSet(BlockIDs(c))
  /\ c.entry \in BlockIDs(c)
  /\ c.succs \in [BlockIDs(c) -> Seq(BlockIDs(c))]
  /\ c.elems \in [BlockIDs(c) -> Seq(Elements)]
  /\ c.term \in [BlockIDs(c) -> Terminators]
  /\ \A b \in BlockIDs(c) :
       /\ c.term[b] \in {"if", "while", "for", "do", "ternary", "logical"} => Len(c.succs[b]) = 2
       /\ c.elems[b] # <<>> /\ isElementWait(Last(c.elems[b])) => Len(c.succs[b]) = 1

(***************************************************************************)
(* splitBlock: every wait becomes a piece of its own, the runs of elements *)
(* between waits the others; a block without elements is one empty piece.  *)
(* The pieces are given by where they start.                               *)
(***************************************************************************)
splitBlock(elems) ==
  {1} \cup {i \in DOMAIN elems : isElementWait(elems[i])
                                 \/ (i > 1 /\ isElementWait(elems[i - 1]))}

LaterPieces(elems, i) == {j \in splitBlock(elems) : j > i}

PieceElements(elems, i) ==
  SubSeq(elems, i, IF LaterPieces(elems, i) = {} THEN Len(elems)
                   ELSE Min(LaterPieces(elems, i)) - 1)

\* A piece holds a wait exactly when splitBlock cut it off as one.
IsWaitPiece(elems, i) == i \in DOMAIN elems /\ isElementWait(elems[i])

\* Mutant: a piece is numbered by where it starts.
NumberedByElement(c, x) == IF x[2] = 1 THEN x[1] ELSE x[1] * 10 + x[2]

(***************************************************************************)
(* createUnsplitBlocks and createWaitSplitCFGBlocks: the object of each    *)
(* piece.  The first reuses the object made for the whole block and keeps  *)
(* the flags computed for it, whatever the piece holds; a later piece is   *)
(* conditional only if it is no wait, and is never a loop.                 *)
(***************************************************************************)
SplitID(c, x) ==
  IF x[2] = 1 THEN x[1]
  ELSE x[1] * 10 + Cardinality({j \in splitBlock(c.elems[x[1]]) : j < x[2]})

IsBranchTerm(t) == t \in {"if", "ternary"}

IsLoopWithTwoSucc(c, b) == c.term[b] \in {"while", "for", "do"}

\* addSuccessors: the first pieces of the successors.
addSuccessors(c, b) == [j \in DOMAIN c.succs[b] |-> <<c.succs[b][j], 1>>]

createWaitSplitCFGBlock(c, x) ==
  LET b     == x[1]
      elems == c.elems[b]
      later == LaterPieces(elems, x[2])
      wait  == IsWaitPiece(elems, x[2])
  IN  [id            |-> SplitID(c, x),
       block         |-> b,
       elements      |-> PieceElements(elems, x[2]),
       hasWait       |-> wait,
       waitArg       |-> IF wait THEN getWaitArgument(elems[x[2]]) ELSE 0,
       isConditional |-> IsBranchTerm(c.term[b]) /\ (x[2] = 1 \/ ~wait),
       isLoop        |-> x[2] = 1 /\ IsLoopWithTwoSucc(c, b),
       successors    |-> IF later = {} THEN addSuccessors(c, b) ELSE << <<b, Min(later)>> >>,
       nextState     |-> 0]

\* The fields of a SplitCFGBlock whose successors are in S.
SplitBlocks(S) ==
  [id : Nat, block : Nat, elements : Seq(Elements), hasWait : BOOLEAN,
   waitArg : Int, isConditional : BOOLEAN, isLoop : BOOLEAN,
   successors : Seq(S), nextState : Nat]

Objects(c) == UNION {{<<b, i>> : i \in splitBlock(c.elems[b])} : b \in BlockIDs(c)}

SplitCFGBlocks(c) == [x \in Objects(c) |-> createWaitSplitCFGBlock(c, x)]

(***************************************************************************)
(* sccfg_, the map from ids to objects.  Its insert keeps the first        *)
(* object given for a key: first all blocks of the CFG, then the pieces,   *)
(* block by block in ascending order.                                      *)
(***************************************************************************)
InsertedBefore(x, y) ==
  \/ x[2] = 1 /\ y[2] > 1
  \/ (x[2] = 1) = (y[2] = 1) /\ x[1] < y[1]

SccfgMap(blks) ==
  [k \in {blks[x].id : x \in DOMAIN blks} |->
     CHOOSE x \in DOMAIN blks :
       /\ blks[x].id = k
       /\ \A y \in DOMAIN blks : blks[y].id = k /\ y # x => InsertedBefore(x, y)]

(***************************************************************************)
(* The predicates the path search asks of a block.  A block ended by a     *)
(* conditional operator is not conditional to it.                          *)
(***************************************************************************)
isConditional(c, blks, x) == blks[x].isConditional /\ c.term[blks[x].block] # "ternary"
isSpecial(c, blks, x) == blks[x].isLoop \/ isConditional(c, blks, x)

\* preparePathInfo: an empty entry for every special block of the map.
preparePathInfo(c, blks, map) ==
  [x \in {map[k] : k \in DOMAIN map} \cap {y \in DOMAIN blks : isSpecial(c, blks, y)} |->
     [truePath |-> <<>>, falsePath |-> <<>>]]
=============================================================================
