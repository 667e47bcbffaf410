------------------------- MODULE MCTranslatedThread -------------------------
(***************************************************************************)
(* Every small thread of the class the translator gets right is translated *)
(* and run against what SystemC promises.  Small threads with conditional  *)
(* operators are searched for confluence blocks, and translated when they  *)
(* are of that class too.                                                  *)
(***************************************************************************)
EXTENDS TranslatedThread

CONSTANTS
  Families, MaxSize,     \* more kinds of statements, up to a small size
  WaitFamilies, LargerSize, \* fewer of them, up to a larger one
  OperatorFamilies,      \* with conditional operators, up to MaxSize
  Counts

Fam == INSTANCE ThreadFamilies

\* The arguments of wait(n): one known at run time only, the least and another.
WaitArguments == {Runtime, 0, 2}

Translatable(g) ==
  Flow!EveryLoopWaits(g) /\ Flow!NeverEnds(g) /\ Flow!BranchesStandAlone(g)
  /\ Flow!OneConditional(g)

Graphs(bodies) == {Fam!buildCFG(b) : b \in bodies}

SmallCFGs ==
  {g \in Graphs(Fam!ForeverThreads(Families, MaxSize)
                \cup Fam!ForeverThreads(WaitFamilies, LargerSize)) : Translatable(g)}
  \cup Graphs(Fam!ForeverThreads(OperatorFamilies, MaxSize))

\* For a thread outside the class the paths are not searched.
InClass == phase = "done" /\ pc = "construct" => Translatable(cfg)
OutOfClass == ~InClass /\ UNCHANGED allvars

SmallSpec ==
  SystemInit /\ [][(InClass /\ SystemNext) \/ OutOfClass]_allvars /\ Fairness
-----------------------------------------------------------------------------
(***************************************************************************)
(* The generated state machine does what the thread does, element by       *)
(* element: no state change is lost, doubled or out of order, branches are *)
(* taken where the thread takes them, a wait() ends with the next clock    *)
(* edge and a wait(n) with a later one, where the thread goes on, however  *)
(* the machine is reset in between.  The number of edges of a wait(n) is   *)
(* not part of it: it is the subject of MCWaitCycles.                      *)
(***************************************************************************)
Implements == Thread!SSpec

(***************************************************************************)
(* A wait ends: as long as the clock ticks, the machine that has suspended *)
(* the thread reaches the code that follows the wait, or the reset state.  *)
(* The counting state of wait(n) is always left again.                     *)
(***************************************************************************)
EveryWaitEnds == (Suspended # "running") ~> (Suspended = "running")
-----------------------------------------------------------------------------
\* The blocks on the ways from t that do not pass j.
Before(t, j) == Flow!ReachableWithout(cfg, {t}, j)

\* Every way from t passes j: without j it neither ends nor goes round.
MeetsAll(t, j) ==
  j # t /\ 0 \notin Before(t, j) /\ ~Flow!Cyclic(cfg, Before(t, j))

\* The first such block.
Join(t, j) ==
  /\ MeetsAll(t, j)
  /\ \A i \in Before(t, j) : ~MeetsAll(t, i)

(***************************************************************************)
(* identifyConfluenceBlocks pairs the conditional operator it found last   *)
(* with the next block that has one successor, in depth-first order.       *)
(* However operators are nested, follow each other or stand in branches    *)
(* and loops, each is paired with the block where the ways from it meet,   *)
(* none is left with the null pointer that is dereferenced afterwards, and *)
(* the blocks to skip are those from the outermost one to that block.      *)
(***************************************************************************)
ConfluenceIsJoin ==
  phase = "done" =>
    /\ \A x \in DOMAIN cop : Join(x[1], cop[x][1])
    /\ \A x \in outter_top :
         {y[1] : y \in discovered} = Before(x[1], cop[x][1]) \cup {cop[x][1]}

(***************************************************************************)
(* identifyConfluenceBlocks and identifySkipBlocks end: blocks are entered *)
(* once, whatever cycles the graph has.                                    *)
(***************************************************************************)
SearchesEnd == <>(phase = "done")
=============================================================================
