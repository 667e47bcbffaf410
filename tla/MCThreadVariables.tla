------------------------- MODULE MCThreadVariables -------------------------
(***************************************************************************)
(* Threads with two local variables, declared before the endless loop, in  *)
(* it or in a branch, and read on the way to several waits.                *)
(***************************************************************************)
EXTENDS ThreadVariables

Clang == INSTANCE ClangCFG
Flow == INSTANCE ControlFlow

CONSTANT MaxItems        \* items after a declaration

\* All variables have the same name.
SameName(v) == "v"

S == <<"stmt">>
W == <<"wait", 0, 0>>
D(v) == <<"decl", 1, v>>
U(v) == <<"use", v>>
If(t, e) == <<"if", t, e>>
Loop(b) == << <<"forever", b>> >>

Items(v) == {W, U(v), If(<<W>>, <<>>), If(<<U(v)>>, <<W, U(v)>>), If(<<W, U(v)>>, <<U(v)>>)}
ItemSeqs(v) == UNION {[1 .. n -> Items(v)] : n \in 0 .. MaxItems}

\* The declaration before the loop, in it, and in a branch; the second variable
\* is declared without an initializer, in the loop or in the other branch.
Bodies ==
  {<<D(1)>> \o Loop(s \o <<W>>) : s \in ItemSeqs(1)}
    \cup {Loop(i \o <<D(1)>> \o s \o <<W, <<"decl", 0, 2>>, W, U(2)>>) :
            i \in {<<W>>, <<W, If(<<S>>, <<S>>)>>, <<If(<<W>>, <<>>)>>}, s \in ItemSeqs(1)}
    \cup {Loop(<<W, If(<<S>>, e), D(1), U(1)>>) : e \in {<<>>, <<S>>, <<If(<<S>>, <<>>)>>}}
    \cup {Loop(<<W, If(<<D(1)>> \o s, <<D(2), W, U(2)>>), W>>) : s \in ItemSeqs(1)}
    \cup {<<D(1), D(2)>> \o Loop(<<U(1)>> \o s \o <<W, U(2)>>) : s \in ItemSeqs(1)}

Translatable(g) ==
  Flow!EveryLoopWaits(g) /\ Flow!NeverEnds(g) /\ Flow!BranchesStandAlone(g)

VariableCFGs == {g \in {Clang!buildCFG(b) : b \in Bodies} : Translatable(g)}
-----------------------------------------------------------------------------
\* while (true) { int x = a; wait(); use(x); }
DeclaredInLoop == {Clang!buildCFG(Loop(<<D(1), W, U(1)>>))}
=============================================================================
