-------------------------- MODULE TranslatedThread --------------------------
(***************************************************************************)
(* The translator and the hardware it makes, end to end: SplitCFG finds    *)
(* the paths of a thread, the constructor of HDLThread turns them into     *)
(* switch cases, and the resulting state machine runs.                     *)
(***************************************************************************)
EXTENDS PathGeneration, HDLThread, ThreadFSM

VARIABLES phase, S, discovered, ternops, cop, outter_top    \* of Confluence

confvars == <<phase, S, discovered, ternops, cop, outter_top>>
allvars == <<vars, confvars, fsmvars>>

Conf == INSTANCE Confluence

Translation ==
  [c |-> cfg, blocks |-> blocks, paths |-> paths, info |-> allPathInfo,
   cop |-> cop, skip |-> Conf!skip_blocks]

SystemInit ==
  /\ Init /\ Conf!CInit
  /\ cases = <<>> /\ code = <<>> /\ clk = FALSE
  /\ state = 0 /\ waitCounter = 0 /\ waitNextStateReg = 0
  /\ nextState = 0 /\ nextWaitCounter = 0 /\ saveWaitNextState = 0

\* The searches for confluence blocks and for blocks to skip share with that of
\* the paths only the graph, which is fixed, so their order makes no difference.
FindConfluence == Conf!CNext /\ UNCHANGED <<vars, fsmvars>>
FindPaths ==
  phase = "done" /\ pc # "done" /\ Next /\ UNCHANGED <<confvars, fsmvars>>

\* The HDLThread constructor; the hardware starts with a reset.
GenerateCases ==
  /\ pc = "done" /\ phase = "done" /\ cases = <<>>
  /\ cases' = [k \in DOMAIN paths |-> SwitchCases(Translation)[k].code]
  /\ ResetRegisters /\ MainMethod
  /\ UNCHANGED <<vars, confvars, clk>>

Run == cases # <<>> /\ FSMNext /\ UNCHANGED <<vars, confvars>>

SystemNext == FindConfluence \/ FindPaths \/ GenerateCases \/ Run

(***************************************************************************)
(* Fairness: the searches for confluence blocks run on (that the search    *)
(* of paths ends is a property of PathGeneration); in hardware the         *)
(* combinational method settles and the clock keeps ticking.  Nothing      *)
(* makes a reset happen.                                                   *)
(***************************************************************************)
Fairness ==
  /\ WF_allvars(FindConfluence)
  /\ WF_allvars(cases # <<>> /\ MainStep /\ UNCHANGED <<vars, confvars>>)
  /\ WF_allvars(cases # <<>> /\ ClockEdge /\ UNCHANGED <<vars, confvars>>)

SystemSpec == SystemInit /\ [][SystemNext]_allvars /\ Fairness
-----------------------------------------------------------------------------
(***************************************************************************)
(* The refinement mapping to SystemCThread.                                *)
(***************************************************************************)
Counting == cases # <<>> /\ state = numstates

\* The state the thread continues in once it is no longer suspended.
Resumption ==
  IF Counting THEN waitNextStateReg
  ELSE IF nextState = numstates THEN saveWaitNextState ELSE nextState

HeadLabel(nodes) == IF nodes = <<>> THEN -1 ELSE Head(nodes).el.lab

\* A wait() ends with the clock cycle it is executed in; wait(n) goes on
\* through the counting state.
Suspended ==
  CASE Counting -> "some"
    [] ~Counting /\ (cases = <<>> \/ code # <<>>) -> "running"
    [] ~Counting /\ cases # <<>> /\ code = <<>> ->
         IF nextState = numstates THEN "some" ELSE "next"

Flow == INSTANCE ControlFlow

Thread == INSTANCE SystemCThread WITH
  c <- cfg, until <- Suspended,
  at <- IF cases = <<>> THEN Flow!Start(cfg)
        ELSE IF Suspended = "running" THEN HeadLabel(code)
        ELSE HeadLabel(cases[Resumption + 1])
=============================================================================
