--------------------------- MODULE PathGeneration ---------------------------
(***************************************************************************)
(* src/cfg/SplitCFG.cpp, construct_sccfg and generate_paths (dfs_rework    *)
(* and the recursive dfs_visit_wait): the states of a thread and, for each *)
(* state, the path of blocks executed from the wait() that enters it to    *)
(* the wait() calls that leave it.                                         *)
(*                                                                         *)
(* The recursion is an explicit stack of frames; the variables local to a  *)
(* call live in its frame.  One step is one iteration of the do-while loop *)
(* of dfs_visit_wait, cut where it calls itself.                           *)
(***************************************************************************)
EXTENDS SplitCFG

CONSTANT CFGs            \* the control-flow graphs of the threads translated

ASSUME CFGAssumption == \A c \in CFGs : IsCFG(c)

VARIABLES
  cfg,                   \* cfg_: the graph of the thread, fixed
  blocks,                \* the SplitCFGBlock objects
  sccfg,                 \* sccfg_: id -> object
  pc,                    \* where the control is
  frames,                \* the calls of dfs_visit_wait under way
  ret,                   \* what the last call of dfs_visit_wait returned
  popping,               \* popping_
  currPath,              \* curr_path of the state being searched
  waitsToVisit,          \* waits_to_visit: filled at the front, used at the back
  visitedWaits,          \* visited_waits
  waitNextState,         \* wait_next_state_: wait -> (block, state)
  nextStateCount,        \* next_state_count_
  pathInfo,              \* path_info_
  allPathInfo,           \* all_path_info_
  paths                  \* paths_

graph == <<cfg, blocks, sccfg>>
numbering == <<waitsToVisit, visitedWaits, waitNextState, nextStateCount>>
results == <<pathInfo, allPathInfo, paths>>
vars == <<graph, pc, frames, ret, popping, currPath, numbering, results>>

Empty == [x \in {} |-> {}]

Init ==
  /\ cfg \in CFGs
  /\ blocks = Empty /\ sccfg = Empty
  /\ pc = "construct"
  /\ frames = <<>> /\ ret = [path |-> <<>>, visited |-> {}] /\ popping = FALSE
  /\ currPath = <<>>
  /\ waitsToVisit = <<>> /\ visitedWaits = {} /\ waitNextState = Empty
  /\ nextStateCount = 0
  /\ pathInfo = Empty /\ allPathInfo = <<>> /\ paths = <<>>

\* The confluence blocks of conditional operators, which the search does not
\* read, are left out.
construct_sccfg ==
  /\ pc = "construct"
  /\ blocks' = SplitCFGBlocks(cfg)
  /\ sccfg' = SccfgMap(blocks')
  /\ pathInfo' = preparePathInfo(cfg, blocks', sccfg')
  /\ pc' = "rework"
  /\ UNCHANGED <<cfg, frames, ret, popping, currPath, numbering, allPathInfo, paths>>
-----------------------------------------------------------------------------
(***************************************************************************)
(* getUnvisitedSuccessor: the next successor of x, from position it on,    *)
(* that is not in visited; bb is left at the last successor looked at.     *)
(***************************************************************************)
getUnvisitedSuccessor(x, it, visited, bb) ==
  LET s     == blocks[x].successors
      fresh == {j \in it..Len(s) : s[j] \notin visited}
      j     == CHOOSE j \in fresh : \A k \in fresh : j <= k
  IN  IF fresh # {}
        THEN [found |-> TRUE, it |-> j + 1, visited |-> visited \cup {s[j]}, bb |-> s[j]]
        ELSE [found |-> FALSE, it |-> IF it <= Len(s) THEN Len(s) + 1 ELSE it,
              visited |-> visited, bb |-> IF it <= Len(s) THEN s[Len(s)] ELSE bb]

\* The prologue of a call of dfs_visit_wait(x, visited, ...) made by fs.
Call(fs, x, visited) ==
  IF blocks[x].successors = <<>>
    THEN /\ frames' = fs /\ pc' = "return"
         /\ ret' = [path |-> <<>>, visited |-> visited]
         /\ UNCHANGED popping
    ELSE /\ frames' = Append(fs, [bb |-> x, visited |-> visited \cup {x},
                                  toVisit |-> << [block |-> x, it |-> 1] >>,
                                  local |-> <<>>, saved |-> {}, id |-> 0,
                                  branch |-> "none"])
         /\ pc' = "visit" /\ popping' = FALSE
         /\ UNCHANGED ret

\* Mutant: the loop of the call goes on with an empty stack.
EmptyStackKept(f, hasWait, found) ==
  LET down == found /\ ~hasWait
      tv   == IF down THEN Append(f.toVisit, [block |-> f.bb, it |-> 1])
                      ELSE Front(f.toVisit)
  IN  /\ popping' = ~down
      /\ frames' = Append(Front(frames), [f EXCEPT !.toVisit = tv])
      /\ pc' = "visit" /\ UNCHANGED ret

\* Mutant: a block whose successors are exhausted stays on the stack.
ExhaustedStays(f, hasWait, found) ==
  LET tv == IF hasWait THEN Front(f.toVisit)
            ELSE IF found THEN Append(f.toVisit, [block |-> f.bb, it |-> 1])
            ELSE f.toVisit
  IN  /\ popping' = (hasWait \/ ~found)
      /\ IF tv = <<>>
           THEN /\ frames' = Front(frames) /\ pc' = "return"
                /\ ret' = [path |-> f.local, visited |-> f.visited]
           ELSE /\ frames' = Append(Front(frames), [f EXCEPT !.toVisit = tv])
                /\ pc' = "visit" /\ UNCHANGED ret

\* addSuccessorToVisitOrPop, the loop condition and the return of the call.
addSuccessorToVisitOrPop(f, hasWait, found) ==
  LET down == found /\ ~hasWait
      tv   == IF down THEN Append(f.toVisit, [block |-> f.bb, it |-> 1])
                      ELSE Front(f.toVisit)
  IN  /\ popping' = ~down
      /\ IF tv = <<>>
           THEN /\ frames' = Front(frames) /\ pc' = "return"
                /\ ret' = [path |-> f.local, visited |-> f.visited]
           ELSE /\ frames' = Append(Front(frames), [f EXCEPT !.toVisit = tv])
                /\ pc' = "visit" /\ UNCHANGED ret

\* Going down the true or the false branch of a block path_info_ knows?
BranchOf(x, succ) ==
  IF x \notin DOMAIN pathInfo THEN "none"
  ELSE IF succ = blocks[x].successors[1] THEN "true" ELSE "false"

\* Mutant: the second branch is not searched where the first has been.
SharedVisited(f, x) ==
  Call(Append(Front(frames), [f EXCEPT !.branch = BranchOf(x, f.bb)]), f.bb,
       f.saved \cup {x} \cup (IF pc = "return" THEN ret.visited ELSE {}))

\* The recursive call for successor f.bb of a loop or conditional block.
Recurse(f, x) ==
  Call(Append(Front(frames), [f EXCEPT !.branch = BranchOf(x, f.bb)]),
       f.bb, f.saved \cup {x})

\* Mutant: the waits found are queued at the end they are taken from.
QueuedAtBack(x, next) ==
  IF x \in visitedWaits
    THEN UNCHANGED numbering
    ELSE /\ visitedWaits' = visitedWaits \cup {x}
         /\ waitsToVisit' = Append(waitsToVisit, next)
         /\ nextStateCount' = nextStateCount + 1
         /\ waitNextState' = [w \in visitedWaits \cup {x} |->
                                IF w = x THEN [next |-> next, state |-> nextStateCount + 1]
                                         ELSE waitNextState[w]]

\* Mutant: a wait counts as visited when the block after it does.
KnownByNext(x, next) ==
  IF x \in visitedWaits \/ \E v \in visitedWaits : waitNextState[v].next = next
    THEN UNCHANGED numbering
    ELSE /\ visitedWaits' = visitedWaits \cup {x}
         /\ waitsToVisit' = <<next>> \o waitsToVisit
         /\ nextStateCount' = nextStateCount + 1
         /\ waitNextState' = [w \in visitedWaits \cup {x} |->
                                IF w = x THEN [next |-> next, state |-> nextStateCount + 1]
                                         ELSE waitNextState[w]]

(***************************************************************************)
(* One iteration of dfs_visit_wait, up to its first recursive call.        *)
(***************************************************************************)
RegisterWait(x, next) ==
  IF x \in visitedWaits
    THEN UNCHANGED numbering
    ELSE /\ visitedWaits' = visitedWaits \cup {x}
         /\ waitsToVisit' = <<next>> \o waitsToVisit
         /\ nextStateCount' = nextStateCount + 1
         /\ waitNextState' = [w \in visitedWaits \cup {x} |->
                                IF w = x THEN [next |-> next, state |-> nextStateCount + 1]
                                         ELSE waitNextState[w]]

Visit ==
  LET f  == Last(frames)
      t  == Last(f.toVisit)
      x  == t.block
      w  == IF blocks[x].hasWait
              THEN getUnvisitedSuccessor(x, t.it, f.visited, f.bb)
              ELSE [found |-> FALSE, it |-> t.it, visited |-> f.visited, bb |-> f.bb]
      s  == getUnvisitedSuccessor(x, w.it, w.visited, w.bb)
      f1 == [f EXCEPT !.bb = s.bb, !.visited = s.visited, !.saved = w.visited,
                      !.toVisit = Append(Front(@), [block |-> x, it |-> s.it]),
                      !.local = IF popping THEN @ ELSE Append(@, x),
                      !.id = IF popping THEN 0 ELSE Len(currPath) + 1]
  IN  /\ pc = "visit"
      /\ currPath' = IF popping THEN currPath
                     ELSE Append(currPath, [block |-> x, pathIdx |-> Len(currPath),
                                            falseIdx |-> 0])
      /\ IF blocks[x].hasWait THEN RegisterWait(x, w.bb) ELSE UNCHANGED numbering
      /\ IF isSpecial(cfg, blocks, x) /\ s.found
           THEN Recurse(f1, x)
           ELSE addSuccessorToVisitOrPop(f1, blocks[x].hasWait, s.found)
      /\ UNCHANGED <<graph, results>>

(***************************************************************************)
(* The rest of the iteration, when the recursive call has returned.        *)
(***************************************************************************)
setTruePathInfo(x, sub) ==
  IF pathInfo[x].truePath = <<>> THEN [pathInfo EXCEPT ![x].truePath = sub] ELSE pathInfo

setFalsePathInfo(x, sub) ==
  IF pathInfo[x].falsePath = <<>> THEN [pathInfo EXCEPT ![x].falsePath = sub] ELSE pathInfo

\* Mutant: off by one.
OneTooShort(x, found) == Len(currPath) - 1

\* false_idx_: the end of the path so far or, when the false successor had
\* been visited already, the last place of its CFG block in the path.
FalseIndex(x, found) ==
  LET fsucc  == Last(cfg.succs[blocks[x].block])
      places == {j \in DOMAIN currPath : blocks[currPath[j].block].block = fsucc}
  IN  IF found \/ places = {} THEN Len(currPath)
      ELSE currPath[CHOOSE j \in places : \A k \in places : k <= j].pathIdx

Resume ==
  LET f  == Last(frames)
      t  == Last(f.toVisit)
      x  == t.block
      s  == getUnvisitedSuccessor(x, t.it, f.visited, f.bb)
      f1 == [f EXCEPT !.bb = s.bb, !.branch = "none",
                      !.visited = IF s.found THEN s.visited ELSE s.visited \cup ret.visited,
                      !.toVisit = Append(Front(@), [block |-> x, it |-> s.it])]
  IN  /\ pc = "return" /\ frames # <<>>
      /\ pathInfo' = CASE f.branch = "true"  -> setTruePathInfo(x, ret.path)
                       [] f.branch = "false" -> setFalsePathInfo(x, ret.path)
                       [] OTHER              -> pathInfo
      /\ currPath' = IF f.branch = "true"
                       THEN [currPath EXCEPT ![f.id].falseIdx = FalseIndex(x, s.found)]
                       ELSE currPath
      /\ IF s.found THEN Recurse(f1, x)
                    ELSE addSuccessorToVisitOrPop(f1, blocks[x].hasWait, FALSE)
      /\ UNCHANGED <<graph, numbering, allPathInfo, paths>>
-----------------------------------------------------------------------------
(***************************************************************************)
(* dfs_rework: the reset path first, then one path for every wait found.   *)
(***************************************************************************)
StartReset ==
  /\ pc = "rework"
  /\ Call(<<>>, sccfg[cfg.entry], {})
  /\ UNCHANGED <<graph, currPath, numbering, results>>

\* A path is complete: record it, restore path_info_, start on the next wait.
RecordPath ==
  /\ paths' = Append(paths, currPath)
  /\ allPathInfo' = Append(allPathInfo, pathInfo)
  /\ pathInfo' = preparePathInfo(cfg, blocks, sccfg)
  /\ currPath' = <<>>

\* Mutant: the visited blocks are not forgotten between two states.
VisitedKept ==
  /\ pc = "return" /\ frames = <<>> /\ waitsToVisit # <<>>
  /\ RecordPath
  /\ waitsToVisit' = Front(waitsToVisit)
  /\ Call(<<>>, Last(waitsToVisit), ret.visited)
  /\ UNCHANGED <<graph, visitedWaits, waitNextState, nextStateCount>>

NextPath ==
  /\ pc = "return" /\ frames = <<>> /\ waitsToVisit # <<>>
  /\ RecordPath
  /\ waitsToVisit' = Front(waitsToVisit)
  /\ Call(<<>>, Last(waitsToVisit), {})
  /\ UNCHANGED <<graph, visitedWaits, waitNextState, nextStateCount>>

\* Mutant: next states counted from 0.
StatesFromZero ==
  [x \in DOMAIN blocks |->
     IF x \in DOMAIN waitNextState
       THEN [blocks[x] EXCEPT !.nextState = waitNextState[x].state - 1] ELSE blocks[x]]

addNextStatesToBlocks ==
  [x \in DOMAIN blocks |->
     IF x \in DOMAIN waitNextState
       THEN [blocks[x] EXCEPT !.nextState = waitNextState[x].state] ELSE blocks[x]]

FinishPaths ==
  /\ pc = "return" /\ frames = <<>> /\ waitsToVisit = <<>>
  /\ RecordPath
  /\ blocks' = addNextStatesToBlocks
  /\ pc' = "done"
  /\ UNCHANGED <<cfg, sccfg, frames, ret, popping, numbering>>

Terminated == pc = "done" /\ UNCHANGED vars

Next == construct_sccfg \/ StartReset \/ Visit \/ Resume \/ NextPath
        \/ FinishPaths \/ Terminated

Spec == Init /\ [][Next]_vars /\ WF_vars(Next)
-----------------------------------------------------------------------------
(***************************************************************************)
(* Types.                                                                  *)
(***************************************************************************)
B == DOMAIN blocks
StackEntries(S) == [block : S, it : Nat \ {0}]
Frames(S) == [bb : S, visited : SUBSET S, toVisit : Seq(StackEntries(S)) \ {<<>>},
              local : Seq(S), saved : SUBSET S, id : Nat,
              branch : {"none", "true", "false"}]
PathEntries(S) == [block : S, pathIdx : Nat, falseIdx : Nat]
Infos(S) == [truePath : Seq(S), falsePath : Seq(S)]

(***************************************************************************)
(* Every variable of the search keeps its type: the stack of a call of     *)
(* dfs_visit_wait is never empty while the call runs, so back() and        *)
(* pop_back() always have an element, and every pointer is to a block of   *)
(* this graph.                                                             *)
(***************************************************************************)
TypeOK ==
  /\ IsCFG(cfg)
  /\ pc \in {"construct", "rework", "visit", "return", "done"}
  /\ blocks \in [B -> SplitBlocks(B)]
  /\ frames \in Seq(Frames(B)) /\ (pc = "visit" => frames # <<>>)
  /\ ret \in [path : Seq(B), visited : SUBSET B] /\ popping \in BOOLEAN
  /\ currPath \in Seq(PathEntries(B))
  /\ waitsToVisit \in Seq(B) /\ visitedWaits \subseteq B /\ nextStateCount \in Nat
  /\ waitNextState \in [visitedWaits -> [next : B, state : Nat]]
  /\ DOMAIN pathInfo \subseteq B /\ pathInfo \in [DOMAIN pathInfo -> Infos(B)]
  /\ paths \in Seq(Seq(PathEntries(B)))
-----------------------------------------------------------------------------
(***************************************************************************)
(* State numbers and paths.                                                *)
(***************************************************************************)
\* p is what a search from block s finds first: s, unless the thread ends.
PathFrom(p, s) ==
  IF blocks[s].successors = <<>> THEN p = <<>> ELSE p # <<>> /\ p[1].block = s

(***************************************************************************)
(* What HDLThread relies on when it makes path k the switch case k and     *)
(* every wait an assignment of its block's next state: there is a case for *)
(* every number, no two waits share one, the reset case starts at the      *)
(* entry of the thread, and the case a wait goes to starts with what       *)
(* follows that wait.                                                      *)
(***************************************************************************)
CaseFollowsWait ==
  pc = "done" =>
    /\ Len(paths) = nextStateCount + 1
    /\ PathFrom(paths[1], sccfg[cfg.entry])
    /\ \A w \in visitedWaits :
         /\ blocks[w].nextState \in 1..nextStateCount
         /\ PathFrom(paths[blocks[w].nextState + 1], blocks[w].successors[1])
         /\ \A v \in visitedWaits : blocks[v].nextState = blocks[w].nextState => v = w
-----------------------------------------------------------------------------
(***************************************************************************)
(* The inductive invariant behind CaseFollowsWait.                         *)
(***************************************************************************)
\* The graph is built once; only the next states are filled in at the end.
GraphFixed ==
  /\ pc = "construct" => blocks = Empty
  /\ pc # "construct" => sccfg = SccfgMap(SplitCFGBlocks(cfg))
  /\ pc \notin {"construct", "done"} => blocks = SplitCFGBlocks(cfg)
  /\ pc = "done" =>
       blocks = [x \in B |-> [SplitCFGBlocks(cfg)[x] EXCEPT !.nextState =
                   IF x \in visitedWaits THEN waitNextState[x].state ELSE @]]

Numbered ==
  /\ \A w \in visitedWaits : waitNextState[w].state \in 1..nextStateCount
  /\ \A v, w \in visitedWaits : waitNextState[v].state = waitNextState[w].state => v = w

\* A wait resumes at its only successor.
ResumesAtSuccessor ==
  \A w \in visitedWaits : waitNextState[w].next = blocks[w].successors[1]

\* A wait on a stack is fresh: it is popped as soon as it has been visited.
Fresh(f) ==
  \A j \in DOMAIN f.toVisit : blocks[f.toVisit[j].block].hasWait => f.toVisit[j].it = 1
WaitsAreFresh == \A i \in DOMAIN frames : Fresh(frames[i])

\* A call that has called again is at a loop or a branch, never at a wait.
NotAtWait(fs) == \A i \in DOMAIN fs : ~blocks[Last(fs[i].toVisit).block].hasWait
CallersNotAtWait ==
  /\ pc = "visit" => NotAtWait(Front(frames))
  /\ pc = "return" => NotAtWait(frames)

\* The queue holds, last first, where the states not yet searched start.
QueueAligned ==
  /\ pc # "done" => nextStateCount = Len(paths) + Len(waitsToVisit)
  /\ pc = "done" => Len(paths) = nextStateCount + 1 /\ waitsToVisit = <<>>
  /\ pc \in {"construct", "rework"} => paths = <<>> /\ frames = <<>> /\ currPath = <<>>
  /\ \A w \in visitedWaits : waitNextState[w].state > Len(paths) =>
       waitNextState[w].next = waitsToVisit[nextStateCount - waitNextState[w].state + 1]

\* p is a path of state k.
PathOfState(p, k) ==
  /\ k = 0 => PathFrom(p, sccfg[cfg.entry])
  /\ \A w \in visitedWaits : waitNextState[w].state = k => PathFrom(p, waitNextState[w].next)

PathsStart == \A k \in DOMAIN paths : PathOfState(paths[k], k - 1)

\* The search under way is for state Len(paths).
CurrentStart ==
  /\ pc = "visit" /\ currPath = <<>> =>
       /\ ~popping
       /\ PathOfState(<<[block |-> Last(Last(frames).toVisit).block,
                         pathIdx |-> 0, falseIdx |-> 0]>>, Len(paths))
  /\ pc = "visit" /\ currPath # <<>> => PathOfState(currPath, Len(paths))
  /\ pc = "return" => PathOfState(currPath, Len(paths))
  /\ pc = "return" /\ frames # <<>> => currPath # <<>>

IndInv ==
  /\ TypeOK /\ GraphFixed /\ Numbered /\ ResumesAtSuccessor /\ WaitsAreFresh
  /\ CallersNotAtWait /\ QueueAligned /\ PathsStart /\ CurrentStart
=============================================================================
