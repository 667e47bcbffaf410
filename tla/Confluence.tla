----------------------------- MODULE Confluence -----------------------------
(***************************************************************************)
(* src/cfg/SplitCFG.cpp, identifyConfluenceBlocks and identifySkipBlocks:  *)
(* the block where the two operands of a conditional operator meet again,  *)
(* found by a depth-first search, and the blocks the generator passes over *)
(* because their code is part of the statement in the confluence block.    *)
(* One step is one iteration of a search.                                  *)
(*                                                                         *)
(* The objects the searches meet are the ones sccfg_ holds for the ids of  *)
(* CFG blocks, <<b, 1>> for block b.                                       *)
(***************************************************************************)
EXTENDS SplitCFG, Functions

VARIABLES
  cfg,                   \* the control-flow graph, fixed
  phase,                 \* "start", "confluence", "skip", "done"
  S,                     \* the stack or queue of the search
  discovered,
  ternops,               \* conditional operators without confluence block, a stack
  cop,                   \* conditional operator -> confluence block
  outter_top             \* the first conditional operator, a set of at most one

cvars == <<cfg, phase, S, discovered, ternops, cop, outter_top>>

NullObject == <<-1, 1>>
First(b) == <<b, 1>>
Successors(x) == addSuccessors(cfg, x[1])

\* Null successors count: while (true) has one.
succ_size(x) == IF cfg.term[x[1]] = "forever" THEN 2 ELSE Len(Successors(x))

CInit ==
  /\ phase = "start"
  /\ S = <<>> /\ discovered = {} /\ ternops = <<>> /\ cop = <<>> /\ outter_top = {}

has_ternary_op == \E b \in BlockIDs(cfg) : cfg.term[b] = "ternary"

\* construct_sccfg searches only a graph with a conditional operator.
StartConfluence ==
  /\ phase = "start"
  /\ IF has_ternary_op THEN phase' = "confluence" /\ S' = <<First(cfg.entry)>>
                       ELSE phase' = "done" /\ S' = <<>>
  /\ UNCHANGED <<cfg, discovered, ternops, cop, outter_top>>

\* Mutant: the operator found first gets the block, not the one found last.
PairOldest(v) ==
  IF cfg.term[v[1]] = "ternary"
    THEN /\ cop' = (v :> NullObject) @@ cop
         /\ ternops' = Append(ternops, v)
         /\ outter_top' = IF outter_top = {} THEN {v} ELSE outter_top
    ELSE /\ IF ternops # <<>> /\ succ_size(v) = 1
              THEN /\ cop' = [cop EXCEPT ![Head(ternops)] = Successors(v)[1]]
                   /\ ternops' = Tail(ternops)
              ELSE UNCHANGED <<cop, ternops>>
         /\ UNCHANGED outter_top

\* A block with one successor is taken for the end of an operand of the
\* operator found last: its successor is the confluence block.
PairWithOperator(v) ==
  IF cfg.term[v[1]] = "ternary"
    THEN /\ cop' = (v :> NullObject) @@ cop
         /\ ternops' = Append(ternops, v)
         /\ outter_top' = IF outter_top = {} THEN {v} ELSE outter_top
    ELSE /\ IF ternops # <<>> /\ succ_size(v) = 1
              THEN /\ cop' = [cop EXCEPT ![Last(ternops)] = Successors(v)[1]]
                   /\ ternops' = Front(ternops)
              ELSE UNCHANGED <<cop, ternops>>
         /\ UNCHANGED outter_top

\* Mutant: a block is entered again from every predecessor.
EnterAgain ==
  /\ phase = "confluence" /\ S # <<>>
  /\ LET v == Last(S)
     IN  /\ discovered' = discovered \cup {v}
         /\ PairWithOperator(v)
         /\ S' = Front(S) \o Successors(v)
  /\ UNCHANGED <<cfg, phase>>

identifyConfluenceBlocks ==
  /\ phase = "confluence" /\ S # <<>>
  /\ LET v == Last(S)
     IN  IF v \in discovered
           THEN S' = Front(S) /\ UNCHANGED <<discovered, ternops, cop, outter_top>>
           ELSE /\ discovered' = discovered \cup {v}
                /\ PairWithOperator(v)
                /\ S' = Front(S) \o Successors(v)
  /\ UNCHANGED <<cfg, phase>>

\* The HDLThread constructor asks for the blocks to skip.
StartSkip ==
  /\ phase = "confluence" /\ S = <<>>
  /\ phase' = "skip"
  /\ discovered' = outter_top
  /\ S' = SetToSeq(outter_top)
  /\ UNCHANGED <<cfg, ternops, cop, outter_top>>

Unmet(v) ==
  IF v = cop[CHOOSE x \in outter_top : TRUE] THEN <<>>
  ELSE SelectSeq(Successors(v), LAMBDA x : x \notin discovered)

\* Breadth first, from the outermost operator to its confluence block.
identifySkipBlocks ==
  /\ phase = "skip" /\ S # <<>>
  /\ LET next == Unmet(Head(S))
     IN  /\ discovered' = discovered \cup ToSet(next)
         /\ S' = Tail(S) \o next
  /\ UNCHANGED <<cfg, phase, ternops, cop, outter_top>>

SkipFound ==
  /\ phase = "skip" /\ S = <<>>
  /\ phase' = "done"
  /\ UNCHANGED <<cfg, S, discovered, ternops, cop, outter_top>>

\* What the generator is given.
skip_blocks == IF phase = "done" THEN discovered ELSE {}

CNext ==
  \/ StartConfluence \/ identifyConfluenceBlocks \/ StartSkip
  \/ identifySkipBlocks \/ SkipFound
=============================================================================
