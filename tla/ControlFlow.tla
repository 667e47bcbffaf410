---------------------------- MODULE ControlFlow ----------------------------
(***************************************************************************)
(* How control moves through a control-flow graph g, element by element.   *)
(***************************************************************************)
EXTENDS Integers, SequencesExt

Ended == -1              \* the thread has returned

RECURSIVE Loc(_, _, _)

\* The label of the first element executed from position i of block b on.  The
\* parts of a conditional operator are executed with the statement they are in,
\* where the ways through them meet.
Loc(g, b, i) ==
  IF i <= Len(g.elems[b])
    THEN IF g.elems[b][i].op = "operand" THEN Loc(g, b, i + 1) ELSE g.elems[b][i].lab
  ELSE IF g.succs[b] = <<>> THEN Ended
  ELSE Loc(g, g.succs[b][1], 1)

Start(g) == Loc(g, g.entry, 1)

Places(g) == UNION {{<<b, i>> : i \in DOMAIN g.elems[b]} : b \in DOMAIN g.elems}
PlaceOf(g, lab) == CHOOSE p \in Places(g) : g.elems[p[1]][p[2]].lab = lab
ElementAt(g, lab) == LET p == PlaceOf(g, lab) IN g.elems[p[1]][p[2]]

\* Where control can go after the element with this label.
Following(g, lab) ==
  LET b == PlaceOf(g, lab)[1]
      i == PlaceOf(g, lab)[2]
  IN  IF i < Len(g.elems[b]) \/ g.succs[b] = <<>> THEN {Loc(g, b, i + 1)}
      ELSE {Loc(g, s, 1) : s \in ToSet(g.succs[b])}
-----------------------------------------------------------------------------
HasWait(g, b) == \E i \in DOMAIN g.elems[b] : g.elems[b][i].op = "wait"
SuccSet(g, b) == ToSet(g.succs[b])

RECURSIVE OnWaitFreeCycles(_, _)

\* What is left of bs when blocks with a wait, or without a successor in bs,
\* are removed until none is left to remove.
OnWaitFreeCycles(g, bs) ==
  LET s == {b \in bs : ~HasWait(g, b) /\ SuccSet(g, b) \cap bs # {}}
  IN  IF s = bs THEN bs ELSE OnWaitFreeCycles(g, s)

\* Every way around a loop passes a wait.
EveryLoopWaits(g) == OnWaitFreeCycles(g, DOMAIN g.succs) = {}

RECURSIVE Reachable(_, _)
Reachable(g, bs) ==
  LET s == bs \cup UNION {SuccSet(g, b) : b \in bs}
  IN  IF s = bs THEN bs ELSE Reachable(g, s)

\* The blocks reached from bs without passing block j.
ReachableWithout(g, bs, j) ==
  Reachable([g EXCEPT !.succs = [b \in DOMAIN @ |-> SelectSeq(@[b], LAMBDA x : x # j)]], bs)

RECURSIVE Cyclic(_, _)
\* Some way through bs never leaves it.
Cyclic(g, bs) ==
  LET s == {b \in bs : SuccSet(g, b) \cap bs # {}}
  IN  IF s = bs THEN bs # {} ELSE Cyclic(g, s)

\* The thread runs forever: its exit block is not reachable.
NeverEnds(g) == 0 \notin Reachable(g, {g.entry})

\* No statement shares a block with a test, a break or a continue.
BranchesStandAlone(g) ==
  \A b \in DOMAIN g.term : g.term[b] # "none" =>
    \A i \in DOMAIN g.elems[b] : g.elems[b][i].op \notin {"stmt", "decl"}

\* At most one statement has conditional operators, and no wait is in the block
\* of one.
OneConditional(g) ==
  /\ Cardinality({p \in Places(g) : LET e == g.elems[p[1]][p[2]]
                                     IN  e.op = "stmt" /\ e.args = 1}) <= 1
  /\ \A b \in DOMAIN g.term : g.term[b] = "ternary" => ~HasWait(g, b)
=============================================================================
