----------------------------- MODULE ThreadCode -----------------------------
(***************************************************************************)
(* The hNode trees plugins/hdl/HDLThread.cpp builds for the cases of a     *)
(* thread's switch statement, as far as they steer control.                *)
(*                                                                         *)
(* The code of a state is a sequence of nodes.  el is the element a node   *)
(* is the translation of:                                                  *)
(*   Exec(el)              the statement el                                *)
(*   WaitNode(el, arg, next)  the assignments of a wait, and the return;   *)
(*                         arg is the literal made of its argument         *)
(*   IfNode(el, yes, no)   the condition el and the code of its branches   *)
(*   CountNode             the body of the wait-counting state             *)
(***************************************************************************)
EXTENDS Integers

NoElement == [op |-> "none", lab |-> -1, args |-> 0, n |-> 0]

Node(kind, el, arg, next, yes, no) ==
  [kind |-> kind, el |-> el, arg |-> arg, next |-> next, yes |-> yes, no |-> no]
Exec(el) == Node("exec", el, 0, 0, <<>>, <<>>)
WaitNode(el, arg, next) == Node("wait", el, arg, next, <<>>, <<>>)
IfNode(el, yes, no) == Node("if", el, 0, 0, yes, no)
CountNode == Node("count", NoElement, 0, 0, <<>>, <<>>)
=============================================================================
