--------------------------- MODULE SystemCThread ---------------------------
(***************************************************************************)
(* What a clocked SystemC thread does, as its translation must preserve    *)
(* it: from the start of its body it executes one element of its control-  *)
(* flow graph after the other, taking either branch of a condition; wait() *)
(* suspends it until the next clock edge, wait(n) until a later one; reset *)
(* starts it again.  How many edges a wait(n) takes is left open here.     *)
(***************************************************************************)
EXTENDS ControlFlow

VARIABLES
  c,                     \* the control-flow graph, fixed
  at,                    \* label of the element executed next
  until,                 \* what it is suspended until: "next" or "some" clock
                         \* edge, "running" when it is not
  clk                    \* changes with every clock edge without reset

tvars == <<c, at, until, clk>>

SInit == at = Start(c) /\ until = "running"

Suspension(e) ==
  IF e.op # "wait" THEN "running" ELSE IF e.args = 0 THEN "next" ELSE "some"

Execute ==
  /\ until = "running" /\ at # Ended
  /\ at' \in Following(c, at)
  /\ until' = Suspension(ElementAt(c, at))
  /\ UNCHANGED <<c, clk>>

Tick ==
  /\ until # "running"
  /\ until' \in {"running"} \cup ({until} \cap {"some"})
  /\ clk' = ~clk
  /\ UNCHANGED <<c, at>>

Restart == until # "running" /\ at' = Start(c) /\ until' = "running" /\ UNCHANGED <<c, clk>>

SNext == Execute \/ Tick \/ Restart

SSpec == SInit /\ [][SNext]_tvars
=============================================================================
