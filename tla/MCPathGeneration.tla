-------------------------- MODULE MCPathGeneration --------------------------
(***************************************************************************)
(* The path search on every small thread, wait-free loops included, and on *)
(* the threads of the repository's tests.                                  *)
(***************************************************************************)
EXTENDS PathProperties, TestThreads

CONSTANTS
  AllKinds, MaxSize,     \* all statement kinds together, up to a small size
  Families, LargerSize,  \* fewer kinds at a time, up to a larger one
  Counts

Fam == INSTANCE ThreadFamilies

SmallCFGs ==
  TestCFGs \cup {Fam!buildCFG(b) : b \in Fam!ForeverThreads({AllKinds}, MaxSize)
                                         \cup Fam!ForeverThreads(Families, LargerSize)}
=============================================================================
