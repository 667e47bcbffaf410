----------------------------- MODULE ThreadFSM -----------------------------
(***************************************************************************)
(* The hardware plugins/hdl/HDLThread.cpp generates for a thread: the      *)
(* registers, the method that evaluates one case of the switch, and the    *)
(* state-update method at the clock edge.                                  *)
(*                                                                         *)
(* The method is combinational: its statements take no time but are        *)
(* executed in order, so each is a step here.  Variables of the program    *)
(* are left out; a condition on them can go either way.                    *)
(***************************************************************************)
EXTENDS Sequences, ThreadCode

VARIABLES
  cases,                 \* the code of states 0 .. numstates - 1, at 1 ..
  state, waitCounter, waitNextStateReg,            \* the registers
  nextState, nextWaitCounter, saveWaitNextState,   \* their next values
  code,                  \* what is left of the method in this clock cycle
  clk                    \* changes with every clock edge without reset

registers == <<state, waitCounter, waitNextStateReg>>
nexts == <<nextState, nextWaitCounter, saveWaitNextState>>
fsmvars == <<cases, registers, nexts, code, clk>>

numstates == Len(cases)

\* The switch: the extra case numstates counts a wait(n) down.
SwitchCase(cs, s) == IF s = Len(cs) THEN <<CountNode>> ELSE cs[s + 1]

\* The top of the main method: the next values default to the registers.
MainMethod ==
  /\ nextState' = state' /\ nextWaitCounter' = waitCounter'
  /\ saveWaitNextState' = waitNextStateReg'
  /\ code' = SwitchCase(cases', state')

\* GenerateStateUpdate: its reset branch, at a clock edge or, when the reset
\* is asynchronous, at any time; and its other branch at a clock edge.
ResetRegisters == state' = 0 /\ waitCounter' = 0 /\ waitNextStateReg' = 0
Reset ==
  /\ code = <<>>
  /\ UNCHANGED <<cases, clk>>
  /\ ResetRegisters /\ MainMethod

\* Mutant: the counting state does not store its counter.
CounterNotStored ==
  /\ code = <<>>
  /\ state' = nextState
  /\ waitCounter' = IF state = numstates THEN waitCounter ELSE nextWaitCounter
  /\ waitNextStateReg' = saveWaitNextState
  /\ clk' = ~clk
  /\ UNCHANGED cases
  /\ MainMethod

ClockEdge ==
  /\ code = <<>>
  /\ state' = nextState /\ waitCounter' = nextWaitCounter
  /\ waitNextStateReg' = saveWaitNextState
  /\ clk' = ~clk
  /\ UNCHANGED cases
  /\ MainMethod
-----------------------------------------------------------------------------
ExecStmt ==
  /\ code # <<>> /\ Head(code).kind = "exec"
  /\ code' = Tail(code)
  /\ UNCHANGED <<cases, clk, registers, nexts>>

ExecIf ==
  /\ code # <<>> /\ Head(code).kind = "if"
  /\ \/ code' = Head(code).yes \o Tail(code)
     \/ /\ Head(code).el.op # "true"
        /\ code' = Head(code).no \o Tail(code)
  /\ UNCHANGED <<cases, clk, registers, nexts>>

(***************************************************************************)
(* ProcessHWait: a wait() sets the next state; a wait(n) loads the counter *)
(* and goes to the counting state.  Both return from the method.           *)
(***************************************************************************)
ExecWait ==
  /\ code # <<>> /\ Head(code).kind = "wait"
  /\ IF Head(code).el.args = 0
       THEN /\ nextState' = Head(code).next
            /\ UNCHANGED <<nextWaitCounter, saveWaitNextState>>
       ELSE /\ nextWaitCounter' = Head(code).arg
            /\ saveWaitNextState' = Head(code).next
            /\ nextState' = numstates
  /\ code' = <<>>
  /\ UNCHANGED <<cases, clk, registers>>

\* GenerateWaitCntUpdate: count down; leave when the register was 0.
ExecCount ==
  /\ code # <<>> /\ Head(code).kind = "count"
  /\ nextWaitCounter' = nextWaitCounter - 1
  /\ nextState' = IF waitCounter = 0 THEN waitNextStateReg ELSE nextState
  /\ code' = Tail(code)
  /\ UNCHANGED <<cases, clk, registers, saveWaitNextState>>

MainStep == ExecStmt \/ ExecIf \/ ExecWait \/ ExecCount
FSMNext == Reset \/ ClockEdge \/ MainStep
=============================================================================
