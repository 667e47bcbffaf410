---------------------------- MODULE MCWaitCycles ----------------------------
(***************************************************************************)
(* The thread of tests/data/thread-single-waitn.cpp, which waits with      *)
(* wait(4), and a history of the clock edges its waits take.               *)
(***************************************************************************)
EXTENDS TranslatedThread

VARIABLES
  asked,                 \* the n of the last wait(n) executed since a reset
  edges                  \* the clock edges since then, while it lasts

Clang == INSTANCE ClangCFG

S1 == <<"stmt">>
SingleWaitN == {Clang!buildCFG(<< <<"forever", <<S1, <<"wait", 1, 4>>, S1>> >> >>)}

Waits == code # <<>> /\ Head(code).kind = "wait" /\ Head(code).el.args = 1

WithHistory ==
  /\ SystemNext
  /\ IF Waits THEN asked' = Head(code).el.n /\ edges' = 0
     ELSE IF clk' # clk THEN
       /\ asked' = asked
       /\ edges' = IF Suspended = "some" THEN edges + 1 ELSE edges
     ELSE IF cases # <<>> /\ code = <<>> THEN asked' = 0 /\ edges' = 0    \* reset
     ELSE UNCHANGED <<asked, edges>>

WaitSpec ==
  SystemInit /\ asked = 0 /\ edges = 0 /\ [][WithHistory]_<<allvars, asked, edges>>

(***************************************************************************)
(* When the thread goes on after a wait(n), as many clock edges have       *)
(* passed as it asked for.  zfpsim/pulse.h relies on it: its thread holds  *)
(* the pulse with wait(CYCLES), and "CYCLES: pulse width in cycles".       *)
(***************************************************************************)
WaitTakesItsCycles == Suspended = "running" => edges = asked
=============================================================================
