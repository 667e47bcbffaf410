--------------------------- MODULE PathProperties ---------------------------
(***************************************************************************)
(* What the users of SplitCFG rely on once generate_paths has returned,    *)
(* stated on the graph of SplitCFGBlocks without the search that found it. *)
(***************************************************************************)
EXTENDS PathCoverage, HDLThread

Flow == INSTANCE ControlFlow

BlocksOf(p) == [j \in DOMAIN p |-> p[j].block]

\* The entries of a path that stand for tests both of whose branches go on.
Tests(p) ==
  {j \in DOMAIN p : LET s == blocks[p[j].block].successors
                    IN  Len(s) = 2 /\ blocks[s[2]].successors # <<>>}

\* The code of the states of a thread without conditional operators.
Cases == SwitchCases([c |-> cfg, blocks |-> blocks, paths |-> paths, info |-> allPathInfo,
                      cop |-> <<>>, skip |-> {}])
-----------------------------------------------------------------------------
(***************************************************************************)
(* HDLThread makes the false branch of a test from the part of the path    *)
(* that starts at false_idx_ and is as long as the false path all_path_    *)
(* info_ has for the state.  If every loop of the thread waits, that part  *)
(* exists, starts with the false successor and is the false path.          *)
(***************************************************************************)
FalseBranchInPlace ==
  pc = "done" /\ Flow!EveryLoopWaits(cfg) =>
    \A k \in DOMAIN paths : \A j \in Tests(paths[k]) :
      LET x    == paths[k][j].block
          from == paths[k][j].falseIdx
          path == allPathInfo[k][x].falsePath
      IN  /\ from > 0 /\ path # <<>> /\ path[1] = blocks[x].successors[2]
          /\ SubSeq(BlocksOf(paths[k]), from + 1, from + Len(path)) = path

(***************************************************************************)
(* ProcessSplitGraphGroup indexes the path with lengths taken from path    *)
(* info of other searches and never checks them: it stays inside the path, *)
(* also for threads with loops that do not wait.                           *)
(***************************************************************************)
GroupsInPath == pc = "done" => \A k \in DOMAIN Cases : Cases[k].inPath

(***************************************************************************)
(* generate_paths returns: the recursion ends and the queue of waits       *)
(* drains, for every thread, loops without wait() included.                *)
(***************************************************************************)
SearchEnds == <>(pc = "done")
=============================================================================
