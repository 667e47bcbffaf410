------------------------ MODULE MCDroppedStatements ------------------------
(***************************************************************************)
(* The thread of tests/design/test_reset_if_wait.cpp and the state machine *)
(* that test expects of it.                                                *)
(***************************************************************************)
EXTENDS PathProperties

Clang == INSTANCE ClangCFG

S == <<"stmt">>
W == <<"wait", 0, 0>>

ResetIfWait ==
  {Clang!buildCFG(<<S, S, <<"forever", <<S, <<"if", <<S, W>>, <<S>> >>, S, W>> >> >>)}

RECURSIVE Emitted(_)
\* The labels of the elements a piece of code is the translation of.
Emitted(nodes) ==
  UNION {{nodes[j].el.lab} \cup Emitted(nodes[j].yes) \cup Emitted(nodes[j].no)
         : j \in DOMAIN nodes}

(***************************************************************************)
(* The code of a state translates every statement on the path of the       *)
(* state, as the hand-written state machine in the comment of              *)
(* tests/design/test_reset_if_wait.cpp does and HDLThread.cpp announces:   *)
(* "generate hcode for basic block".                                       *)
(***************************************************************************)
EveryStatementEmitted ==
  pc = "done" =>
    \A k \in DOMAIN paths : \A j \in DOMAIN paths[k] :
      \A e \in ToSet(blocks[paths[k][j].block].elements) :
        e.lab \in Emitted(Cases[k].code)
=============================================================================
