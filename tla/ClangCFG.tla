------------------------------ MODULE ClangCFG ------------------------------
(***************************************************************************)
(* The control-flow graphs clang::CFG::buildCFG hands to the translator,   *)
(* built from the bodies of SystemC threads.  Clang is not part of this    *)
(* repository: the builder is modelled from how SplitCFG.cpp reads its     *)
(* result and from the block numbers the tests under tests/cfg expect.     *)
(*                                                                         *)
(* A thread body is a sequence of statements, each a tuple:                *)
(*   <<"stmt">>               an expression statement                      *)
(*   <<"use", v>>             an expression statement that reads variable v *)
(*   <<"decl", init, v>>      the declaration of v, initialised if init = 1 *)
(*   <<"wait", args, n>>      a call of wait with args arguments, first n  *)
(*   <<"if", then, else>>     <<"while", body>>     <<"do", body>>         *)
(*   <<"forever", body>>      while (true)                                 *)
(*   <<"for", body>>          with an initialiser and an increment         *)
(*   <<"break">>  <<"continue">>                                           *)
(*   <<"assign", e>>          a statement with a conditional operator      *)
(* then, else and body are statement sequences themselves; e is            *)
(* <<"?:", e1, e2>>, whose operands e1 and e2 are <<"leaf">>, <<"&&">>,    *)
(* <<"||">> or conditional operators again.                                *)
(***************************************************************************)
EXTENDS Integers, SequencesExt

NullBlock == -1          \* a CFGBlock* that is nullptr

(***************************************************************************)
(* An element of a CFG block: op is "stmt", "decl", "wait", "cond", for    *)
(* the condition of while (true) "true", and "operand" for a part of a     *)
(* conditional operator; lab tells the elements of a thread apart; a wait  *)
(* has args arguments, the first of value n (Runtime when it is no         *)
(* constant); args is 1 for a statement with a conditional operator; for   *)
(* the others n is the local variable read or declared, 0 for none.        *)
(***************************************************************************)
Element(op, lab, args, n) == [op |-> op, lab |-> lab, args |-> args, n |-> n]

(***************************************************************************)
(* Builder state: Clang builds a body backwards, creating blocks lazily.   *)
(* block is the block under construction (NullBlock forces a new one),     *)
(* succ the block control reaches next, cont and brk the jump targets.     *)
(***************************************************************************)
NewBlock(b, succs, term) ==
  [b EXCEPT !.n = @ + 1,
            !.succs = Append(@, succs),
            !.elems = Append(@, <<>>),
            !.term  = Append(@, term)]

StartBlock(b, succs, term) == [NewBlock(b, succs, term) EXCEPT !.block = b.n]

AutoCreateBlock(b) ==
  IF b.block # NullBlock THEN b ELSE StartBlock(b, <<b.succ>>, "none")

AppendStmt(b, op, args, n) ==
  LET a == AutoCreateBlock(b)
  IN  [a EXCEPT !.elems[a.block + 1] = <<Element(op, a.lab, args, n)>> \o @,
                !.lab = @ + 1]

\* Where control enters what has been built so far.
EntryOf(b) == IF b.block # NullBlock THEN b.block ELSE b.succ

RECURSIVE AddBody(_, _)

AddIf(b, s) ==
  LET join == EntryOf(b)
      be   == AddBody([b EXCEPT !.block = NullBlock, !.succ = join], s[3])
      bt   == LET b0 == [be EXCEPT !.block = NullBlock, !.succ = join]
              IN  IF s[2] = <<>> THEN StartBlock(b0, <<join>>, "none")
                                 ELSE AddBody(b0, s[2])
  IN  AppendStmt(StartBlock(bt, <<EntryOf(bt), EntryOf(be)>>, "if"), "cond", 0, 0)

\* while and for: transition block, body, condition block, initialiser.
AddLoop(b, s) ==
  LET after == EntryOf(b)
      tr    == b.n
      b1    == StartBlock(b, <<>>, "none")
      b2    == IF s[1] = "for" THEN AppendStmt(b1, "stmt", 0, 0) ELSE b1
      b3    == AddBody([b2 EXCEPT !.block = NullBlock, !.succ = tr,
                                  !.cont = tr, !.brk = after], s[2])
      succs == <<EntryOf(b3)>> \o IF s[1] = "forever" THEN <<>> ELSE <<after>>
      b4    == AppendStmt(StartBlock(b3, succs, s[1]),
                          IF s[1] = "forever" THEN "true" ELSE "cond", 0, 0)
      b5    == [b4 EXCEPT !.succs[tr + 1] = <<b4.block>>, !.succ = b4.block,
                          !.block = NullBlock, !.cont = b.cont, !.brk = b.brk]
  IN  IF s[1] = "for" THEN AppendStmt(b5, "stmt", 0, 0) ELSE b5

AddDo(b, s) ==
  LET after == EntryOf(b)
      cnd   == b.n
      b1    == AppendStmt(StartBlock(b, <<>>, "do"), "cond", 0, 0)
      b2    == AddBody([b1 EXCEPT !.block = NullBlock, !.succ = cnd,
                                  !.cont = cnd, !.brk = after], s[2])
      b3    == NewBlock(b2, <<EntryOf(b2)>>, "none")
  IN  [b3 EXCEPT !.succs[cnd + 1] = <<b2.n, after>>, !.succ = EntryOf(b2),
                 !.block = NullBlock, !.cont = b.cont, !.brk = b.brk]

RECURSIVE AddOperand(_, _)

\* The confluence block is the one under construction; each operand has
\* blocks of its own that lead to it.
AddConditional(b, e) ==
  LET join == b.block
      yes  == AddOperand([b EXCEPT !.block = NullBlock, !.succ = join], e[2])
      no   == AddOperand([yes EXCEPT !.block = NullBlock, !.succ = join], e[3])
  IN  AppendStmt(StartBlock(no, <<EntryOf(yes), EntryOf(no)>>, "ternary"), "operand", 0, 0)

\* The right operand of && or || is evaluated in a block of its own.
AddLogical(b, e) ==
  LET join  == b.block
      right == AppendStmt(StartBlock(b, <<join>>, "none"), "operand", 0, 0)
      succs == IF e[1] = "||" THEN <<join, right.block>> ELSE <<right.block, join>>
  IN  AppendStmt(StartBlock(right, succs, "logical"), "operand", 0, 0)

AddOperand(b, e) ==
  LET value == AppendStmt(b, "operand", 0, 0)
  IN  CASE e[1] = "leaf"           -> value
        [] e[1] = "?:"             -> AddConditional(value, e)
        [] e[1] \in {"&&", "||"}   -> AddLogical(value, e)

AddStmt(b, s) ==
  CASE s[1] = "stmt"     -> AppendStmt(b, "stmt", 0, 0)
    [] s[1] = "use"      -> AppendStmt(b, "stmt", 0, s[2])
    [] s[1] = "decl"     -> AppendStmt(b, "decl", s[2], s[3])
    [] s[1] = "wait"     -> AppendStmt(b, "wait", s[2], s[3])
    [] s[1] = "assign"   -> AddConditional(AppendStmt(b, "stmt", 1, 0), s[2])
    [] s[1] = "if"       -> AddIf(b, s)
    [] s[1] \in {"while", "forever", "for"} -> AddLoop(b, s)
    [] s[1] = "do"       -> AddDo(b, s)
    [] s[1] = "break"    -> StartBlock(b, <<b.brk>>, "break")
    [] s[1] = "continue" -> StartBlock(b, <<b.cont>>, "continue")

AddBody(b, body) ==
  IF body = <<>> THEN b ELSE AddBody(AddStmt(b, Last(body)), Front(body))

(***************************************************************************)
(* The graph: block b of 0..entry has elements elems[b], successors        *)
(* succs[b] without null pointers, and terminator term[b]; 0 is the exit.  *)
(***************************************************************************)
buildCFG(body) ==
  LET b0 == [n |-> 0, succs |-> <<>>, elems |-> <<>>, term |-> <<>>, lab |-> 0,
             block |-> NullBlock, succ |-> 0, cont |-> NullBlock, brk |-> NullBlock]
      b  == AddBody(NewBlock(b0, <<>>, "none"), body)
      g  == NewBlock(b, <<EntryOf(b)>>, "none")
  IN  [entry |-> b.n,
       succs |-> [i \in 0..b.n |-> g.succs[i + 1]],
       elems |-> [i \in 0..b.n |-> g.elems[i + 1]],
       term  |-> [i \in 0..b.n |-> g.term[i + 1]]]
=============================================================================
