---------------------------- MODULE PathCoverage ----------------------------
(***************************************************************************)
(* What generate_paths finds: every wait() control can reach, and for each *)
(* state the blocks control can pass in it.  Both are stated on the graph  *)
(* of SplitCFGBlocks without the search, whose visited sets prune it.      *)
(***************************************************************************)
EXTENDS PathGeneration

Succs == [x \in B |-> ToSet(blocks[x].successors)]
Waits == {x \in B : blocks[x].hasWait}
Ends == {x \in B : blocks[x].successors = <<>>}
Entry == sccfg[cfg.entry]

InPath(p) == {p[j].block : j \in DOMAIN p}

\* The blocks reached from those in bs, never going on from a block in stop.
Reached(succs, bs, stop) ==
  LET n == Cardinality(DOMAIN succs)
      Within[k \in 0..n] ==
        IF k = 0 THEN bs
        ELSE LET s == Within[k - 1] IN s \cup UNION {succs[x] : x \in s \ stop}
  IN  Within[n]

\* The block state k starts with.
StartOfState(k) ==
  IF k = 0 THEN Entry
  ELSE waitNextState[CHOOSE w \in visitedWaits : waitNextState[w].state = k].next

(***************************************************************************)
(* The search calls itself for every test.  Where it does not, at the      *)
(* operators ||, && and ?: and at a loop cut by a wait in its condition,   *)
(* the two sides share one visited set, and the block after a wait on one  *)
(* side, which is marked visited, is missing on the other.                 *)
(***************************************************************************)
TestsAreSearched ==
  \A x \in B : Len(blocks[x].successors) > 1 => isSpecial(cfg, blocks, x)
-----------------------------------------------------------------------------
(***************************************************************************)
(* dfs_visit_wait prunes with the visited sets of its calls, and only the  *)
(* waits it meets get a state.  Still every wait() that control can reach  *)
(* has one: none is generated with the default next_state_ 0, which is the *)
(* reset state.                                                            *)
(***************************************************************************)
EveryWaitHasAState ==
  pc = "done" => Waits \cap Reached(Succs, {Entry}, {}) = visitedWaits

(***************************************************************************)
(* The path of a state holds exactly the blocks control can pass between   *)
(* entering the state and leaving it at the next waits, whatever the       *)
(* recursive calls had visited before; only the exit of the thread, which  *)
(* has no successor, may be missing.                                       *)
(***************************************************************************)
PathCoversState ==
  pc = "done" /\ TestsAreSearched =>
    \A k \in DOMAIN paths :
      InPath(paths[k]) \ Ends = Reached(Succs, {StartOfState(k - 1)}, Waits) \ Ends
-----------------------------------------------------------------------------
(***************************************************************************)
(* The inductive invariants behind the two.                                *)
(***************************************************************************)
\* The entries of the stacks of the calls fs, and those below their tops.
Entries(fs) == UNION {ToSet(fs[i].toVisit) : i \in DOMAIN fs}
Below(fs) == UNION {ToSet(Front(fs[i].toVisit)) : i \in DOMAIN fs}
Marks(fs) == UNION {fs[i].visited \cup fs[i].saved : i \in DOMAIN fs}
OnStack == {e.block : e \in Entries(frames)}

\* The block just pushed, which the next iteration puts in the path.
NewTop == IF pc = "visit" /\ ~popping THEN {Last(Last(frames).toVisit).block} ELSE {}

Recorded == InPath(currPath) \cup UNION {InPath(paths[k]) : k \in DOMAIN paths}

\* Blocks the search has seen or will see, in this state or in a later one.
Noted == Recorded \cup ToSet(waitsToVisit) \cup NewTop \cup Ends

\* The successors the iterator of a stack entry has passed are in S.
Passed(S) ==
  \A e \in Entries(frames) : \A j \in DOMAIN blocks[e.block].successors :
    j < e.it => blocks[e.block].successors[j] \in S

NothingFound ==
  visitedWaits = {} /\ waitsToVisit = <<>> /\ ret.visited = {} /\ nextStateCount = 0

\* Whatever is marked visited is noted, so pruning forgets nothing.
NothingForgotten ==
  /\ Entry \in Noted
  /\ Marks(frames) \cup ret.visited \cup OnStack \subseteq Noted
  /\ Passed(Noted)
  /\ \A x \in Recorded : x \in OnStack \/ Succs[x] \subseteq Noted
  /\ Recorded \cap Waits \subseteq visitedWaits
  /\ \A w \in visitedWaits : Succs[w] \subseteq Noted

OnlyReachable ==
  /\ visitedWaits \subseteq Waits
  /\ OnStack \cup Recorded \cup ToSet(waitsToVisit) \cup visitedWaits
       \subseteq Reached(Succs, {Entry}, {})

WaitInv ==
  /\ pc \in {"construct", "rework"} => NothingFound
  /\ pc \in {"visit", "return"} => NothingForgotten /\ OnlyReachable
  /\ EveryWaitHasAState

StartsState(s, k) ==
  \/ k = 0 /\ s = Entry
  \/ \E w \in visitedWaits : waitNextState[w].state = k /\ waitNextState[w].next = s

InState(s) == Reached(Succs, {s}, Waits)

\* The same as Noted, for the state under search alone.
Known == InPath(currPath) \cup NewTop \cup Ends

Spent(e) == e.it > Len(blocks[e.block].successors)

(***************************************************************************)
(* The search of the state that starts with s.  A wait marks the block     *)
(* after it, which belongs to another state, but from then on its call     *)
(* only pops: what is below the top is spent, and callers keep their own   *)
(* marks until they pop too.                                               *)
(***************************************************************************)
StateSearched(s) ==
  /\ {s} \cup OnStack \subseteq Known
  /\ InPath(currPath) \cup OnStack \subseteq InState(s)
  /\ \A x \in InPath(currPath) \ Waits : x \in OnStack \/ Succs[x] \subseteq Known
  /\ Passed(Known)
  /\ \A e \in Below(frames) : Spent(e)
  /\ pc = "return" \/ ~popping => Marks(frames) \subseteq Known
  /\ pc = "visit" => Marks(Front(frames)) \subseteq Known
  /\ pc = "visit" /\ popping => Spent(Last(Last(frames).toVisit))

StateCovered(s, p) == InPath(p) \subseteq InState(s) /\ InState(s) \subseteq InPath(p) \cup Ends

AllNumbersTaken == \A k \in 1..nextStateCount : \E w \in visitedWaits : waitNextState[w].state = k

PathsCovered ==
  \A k \in DOMAIN paths : \E s \in B : StartsState(s, k - 1) /\ StateCovered(s, paths[k])

SearchCovers ==
  pc \in {"visit", "return"} => \E s \in B : StartsState(s, Len(paths)) /\ StateSearched(s)

CoverInv == AllNumbersTaken /\ (TestsAreSearched => PathsCovered /\ SearchCovers)
=============================================================================
