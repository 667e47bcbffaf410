-------------------------- MODULE ThreadVariables --------------------------
(***************************************************************************)
(* plugins/hdl/HDLThread.cpp: the names of the local variables of a thread *)
(* (ThreadNames), with the elements in the order in which HDLThread meets  *)
(* them when it generates the code of the paths.                           *)
(***************************************************************************)
EXTENDS PathGeneration, HDLThread, ThreadNames

allvars == <<vars, threadvars>>

\* Threads without conditional operators.
Translation == [c |-> cfg, blocks |-> blocks, paths |-> paths, info |-> allPathInfo,
                cop |-> <<>>, skip |-> {}]

RECURSIVE InOrder(_)
\* The elements of a piece of code: a condition, then its branches.
InOrder(nodes) ==
  IF nodes = <<>> THEN <<>>
  ELSE <<Head(nodes).el>> \o InOrder(Head(nodes).yes) \o InOrder(Head(nodes).no)
         \o InOrder(Tail(nodes))

ThreadInit == Init /\ NamesInit

Translate == pc # "done" /\ Next /\ UNCHANGED threadvars

BlockOf(e) == CHOOSE x \in DOMAIN blocks : \E j \in DOMAIN blocks[x].elements :
                                             blocks[x].elements[j] = e

\* Mutant: only the blocks of tests are counted.
EntersAtTest(e) == e.op \in {"cond", "true"}

\* A block is entered with its first element, or with its condition.
Enters(e) == e.op \in {"cond", "true"} \/ blocks[BlockOf(e)].elements[1] = e

VisitPaths ==
  /\ pc = "done" /\ visits = <<>>
  /\ visits' = [k \in DOMAIN paths |->
                  LET order == InOrder(SwitchCases(Translation)[k].code)
                  IN  [j \in DOMAIN order |->
                         [el |-> order[j], id |-> blocks[BlockOf(order[j])].id,
                          enters |-> Enters(order[j])]]]
  /\ UNCHANGED <<vars, st, nx, SGVisited, tables>>

Generate == (NextState \/ VisitElement) /\ UNCHANGED vars

ThreadNext == Translate \/ VisitPaths \/ Generate

ThreadSpec == ThreadInit /\ [][ThreadNext]_allvars
=============================================================================
