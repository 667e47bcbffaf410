--------------------------- MODULE ThreadFamilies ---------------------------
(***************************************************************************)
(* All thread bodies of a bounded size, as inputs for the translator.  A   *)
(* body is the inside of the endless loop of a clocked thread, so break    *)
(* and continue may stand anywhere in it.                                  *)
(***************************************************************************)
EXTENDS ClangCFG

CONSTANT Counts          \* the n of the statements of kind "count", wait(n)

\* Conditional operators nested at most twice, without ||.
Operators ==
  LET leaf == {<<"leaf">>}
      flat == {<<"?:", x, y>> : x \in leaf, y \in leaf \cup {<<"&&">>}}
  IN  {<<"?:", x, y>> : x \in leaf \cup flat, y \in leaf \cup flat}

Simple(kinds) ==
  {s \in {<<"stmt">>, <<"wait", 0, 0>>, <<"break">>, <<"continue">>} : s[1] \in kinds}
  \cup (IF "assign" \in kinds THEN {<<"assign", e>> : e \in Operators} ELSE {})
  \cup (IF "count" \in kinds THEN {<<"wait", 1, k>> : k \in Counts} ELSE {})

\* Statements of n nodes, given the bodies of fewer nodes: bs[k + 1] has k.
Statements(kinds, n, bs) ==
  (IF n = 1 THEN Simple(kinds) ELSE {})
  \cup (IF "if" \notin kinds THEN {} ELSE
     UNION {{<<"if", t, e>> : t \in bs[k + 1], e \in bs[n - k]} : k \in 0..(n - 1)})
  \cup {<<l, b>> : l \in kinds \cap {"while", "for", "do"}, b \in bs[n]}

RECURSIVE Table(_, _)

\* Statements and bodies of 0 .. n nodes, each set enumerated once.
Table(kinds, n) ==
  IF n = 0 THEN [stmts |-> <<>>, bodies |-> << {<<>>} >>]
  ELSE LET t  == Table(kinds, n - 1)
           ss == Append(t.stmts, {s : s \in Statements(kinds, n, t.bodies)})
           bs == {b : b \in UNION {{<<s>> \o r : s \in ss[k], r \in t.bodies[n - k + 1]}
                                   : k \in 1..n}}
       IN  [stmts |-> ss, bodies |-> Append(t.bodies, bs)]

\* The shape of a clocked thread: while (true) { body }.  The bodies have at most
\* n nodes, all of the kinds of one of the families.
ForeverThreads(families, n) ==
  UNION {{<< <<"forever", b>> >> : b \in UNION ToSet(Table(kinds, n).bodies)}
         : kinds \in families}
=============================================================================
