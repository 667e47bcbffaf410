------------------------------ MODULE HDLMain ------------------------------
(***************************************************************************)
(* plugins/hdl/HDLMain.cpp, postFire and SCmodule2hcode: the translation   *)
(* of the tree of module instances, and the functions each module needs.   *)
(* One step is one submodule declared, one body started, one call visited  *)
(* in it (HDLBody.cpp), one function generated or one module printed.      *)
(*                                                                         *)
(* A module's class and its base classes are its chain, the most derived   *)
(* class first.  A body is the sequence of the calls in it.  The ports,    *)
(* signals and variables are the subject of ModuleVariables.               *)
(***************************************************************************)
EXTENDS NameMaps, Sequences, FiniteSets

CONSTANTS
  Designs,               \* the designs translated
  NoModule               \* the root when the model has no instance

IsSequence(s) == Len(s) \in Nat /\ DOMAIN s = 1 .. Len(s)

\* A constructor, and nothing else, is called by a constructor expression.  A
\* member call may name the class of its method (x.B::f()), and the compiler may
\* cast its object: to a base class, to const, or from a pointer variable.
Calls(d) ==
  {c \in [fun : DOMAIN d.funs, kind : {"function", "member", "ctor"},
          qualified : BOOLEAN, cast : BOOLEAN] :
     /\ d.funs[c.fun].ctor <=> c.kind = "ctor"
     /\ c.kind # "member" => ~c.qualified /\ ~c.cast}

IsFunction(d, f) ==
  /\ f.hasBody \in BOOLEAN /\ f.ctor \in BOOLEAN
  /\ f.calls \in Seq(Calls(d))

\* A TAIL is no process of its own: it holds the calls in the conditions of the
\* thread before it that come after the last statement translated.
IsProcess(d, p) ==
  /\ p.type \in {"METHOD", "THREAD", "CTHREAD", "TAIL", "OTHER"}
  /\ p.hasBody \in BOOLEAN
  /\ p.calls \in Seq(Calls(d))

TailsFollowThreads(procs) ==
  \A i \in DOMAIN procs : procs[i].type = "TAIL" =>
    i > 1 /\ procs[i - 1].type \in {"THREAD", "CTHREAD"} /\ procs[i].hasBody = procs[i - 1].hasBody

\* A class defines, in each virtual slot, at most one method of the design.
IsClass(d, c) ==
  /\ c.inits \in Seq(Seq(Calls(d)))
  /\ c.hasCtor \in BOOLEAN /\ c.ctor \in Seq(Calls(d))
  /\ IsSequence(c.procs) /\ \A i \in DOMAIN c.procs : IsProcess(d, c.procs[i])
  /\ TailsFollowThreads(c.procs)
  /\ \A v \in DOMAIN c.methods : c.methods[v] \in DOMAIN d.funs /\ ~d.funs[c.methods[v]].ctor

\* A method has one slot in all classes of a chain.
IsChain(d, chain) ==
  /\ IsSequence(chain) /\ chain # <<>>
  /\ \A i \in DOMAIN chain : IsClass(d, chain[i])
  /\ \A i, j \in DOMAIN chain : \A v \in DOMAIN chain[i].methods, w \in DOMAIN chain[j].methods :
       chain[i].methods[v] = chain[j].methods[w] => v = w

\* The instances form a tree: each has one place in it, and the root is on top.
IsTree(d) ==
  \A m, n \in DOMAIN d.mods : \A i \in DOMAIN d.mods[m].subs :
    /\ d.mods[m].subs[i] # d.root
    /\ \A j \in DOMAIN d.mods[n].subs : d.mods[m].subs[i] = d.mods[n].subs[j] => m = n /\ i = j

IsDesign(d) ==
  /\ d.root \in DOMAIN d.mods \cup {NoModule}
  /\ NoModule \notin DOMAIN d.mods \cup DOMAIN d.funs
  /\ \A m \in DOMAIN d.mods : d.mods[m].subs \in Seq(DOMAIN d.mods) /\ IsChain(d, d.mods[m].chain)
  /\ IsTree(d)
  /\ IsFiniteSet(DOMAIN d.funs)
  /\ \A f \in DOMAIN d.funs : IsFunction(d, d.funs[f])

ASSUME DesignAssumption == \A d \in Designs : IsDesign(d)

VARIABLES
  design,                \* the model of the design, fixed
  pc,                    \* where the control is
  todo,                  \* instances SCmodule2hcode is still to be called for
  cls, ix,               \* the class of the chain and the item of it that are next
  run,                   \* the body that HDLBody::Run is translating
  calls,                 \* the calls of that body still to be visited
  mod_name_map,          \* module instance -> name
  xbody,                 \* xbodyp->methodecls
  tbody,                 \* methodecls of the HDLBody of the current thread
  allmethodecls,         \* functions referenced in the current module
  generated_functions,   \* the ones taken off the work list
  module,                \* h_module, the hcode of the current module
  printed                \* the modules printed

control == <<pc, todo, cls, ix, run, calls>>
names == <<xbody, tbody, allmethodecls>>
vars == <<design, control, mod_name_map, names, generated_functions, module, printed>>

NoFun == NoModule
Idle == [mode |-> "none", fun |-> NoFun]
NoHcode == [inst |-> NoModule, name |-> NoName, subs |-> {}, funs |-> {}, calls |-> {}]

Mod == Head(todo)
Chain == design.mods[Mod].chain
HasBody(f) == design.funs[f].hasBody

Init ==
  /\ design \in Designs
  /\ pc = "start"
  /\ todo = <<>> /\ cls = 1 /\ ix = 1 /\ run = Idle /\ calls = <<>>
  /\ mod_name_map = NewNameMap
  /\ xbody = NewNameMap /\ tbody = NewNameMap /\ allmethodecls = NewNameMap
  /\ generated_functions = {}
  /\ module = NoHcode
  /\ printed = {}

\* Mutant: the translation goes on without a root instance.
NoRootCheck ==
  /\ pc = "start"
  /\ pc' = "module" /\ todo' = <<design.root>>
  /\ mod_name_map' = add_entry(mod_name_map, design.root, "top")
  /\ UNCHANGED <<design, cls, ix, run, calls, names, generated_functions, module, printed>>

\* Without a root instance the plugin returns at once.
postFire ==
  /\ pc = "start"
  /\ IF design.root = NoModule
       THEN pc' = "done" /\ UNCHANGED <<todo, mod_name_map>>
       ELSE /\ pc' = "module"
            /\ todo' = <<design.root>>
            /\ mod_name_map' = add_entry(mod_name_map, design.root, design.mods[design.root].name)
  /\ UNCHANGED <<design, cls, ix, run, calls, names, generated_functions, module, printed>>

\* A new HDLBody and an empty allmethodecls for each module.
SCmodule2hcode ==
  /\ pc = "module" /\ todo # <<>>
  /\ pc' = "inits" /\ cls' = 1 /\ ix' = 1
  /\ xbody' = NewNameMap
  /\ allmethodecls' = clear(allmethodecls)
  /\ generated_functions' = {}
  /\ module' = [NoHcode EXCEPT !.inst = Mod,
                               !.name = find_entry_newn(mod_name_map, Mod)]
  /\ UNCHANGED <<design, todo, run, calls, mod_name_map, tbody, printed>>

\* The table gives the submodule its name; the declaration keeps the name of
\* the instance and refers to that name as its type.
DeclareSubmodule ==
  /\ pc = "subs" /\ ix <= Len(design.mods[Mod].subs)
  /\ LET s == design.mods[Mod].subs[ix]
     IN  /\ mod_name_map' = add_entry(mod_name_map, s, design.mods[s].name)
         /\ module' = [module EXCEPT !.subs = @ \cup
                         {[inst |-> s, type |-> find_entry_newn(mod_name_map', s)]}]
  /\ ix' = ix + 1
  /\ UNCHANGED <<design, pc, todo, cls, run, calls, names, generated_functions, printed>>

SubmodulesDeclared ==
  /\ pc = "subs" /\ ix > Len(design.mods[Mod].subs)
  /\ pc' = "ctors" /\ cls' = 1 /\ ix' = 1
  /\ UNCHANGED <<design, todo, run, calls, mod_name_map, names, generated_functions,
                 module, printed>>
-----------------------------------------------------------------------------
Body(mode, cs) == [mode |-> mode, calls |-> cs]

ProcessBody(p) ==
  IF p.hasBody /\ p.type = "METHOD" THEN Body("rmethod", p.calls)
  ELSE IF p.hasBody /\ p.type \in {"THREAD", "CTHREAD"} THEN Body("rthread", p.calls)
  ELSE IF p.hasBody /\ p.type = "TAIL" THEN Body("rtail", p.calls)
  ELSE Body("none", <<>>)

\* The bodies a class of the chain contributes to each part of the module: the
\* initializers of its variables, its constructor and its processes.  The loop
\* over the constructors stays for good at the first class that has none.
ClassBodies(part, i) ==
  CASE part = "inits" -> [j \in DOMAIN Chain[i].inits |-> Body("rnomode", Chain[i].inits[j])]
    [] part = "ctors" -> IF \A j \in 1 .. i : Chain[j].hasCtor
                           THEN <<Body("rmodinit", Chain[i].ctor)>> ELSE <<>>
    [] part = "procs" -> [j \in DOMAIN Chain[i].procs |-> ProcessBody(Chain[i].procs[j])]

Parts == {"inits", "ctors", "procs"}
NextPart == [inits |-> "subs", ctors |-> "procs", procs |-> "functions"]

\* HDLBody::Run forgets the calls of the body before, except in a thread, whose
\* HDLBody is its own.  A process of another type, or without a body, is skipped.
StartBody ==
  /\ pc \in Parts /\ run = Idle /\ cls <= Len(Chain) /\ ix <= Len(ClassBodies(pc, cls))
  /\ LET b == ClassBodies(pc, cls)[ix]
     IN  /\ run' = [Idle EXCEPT !.mode = b.mode]
         /\ calls' = b.calls
         /\ xbody' = IF b.mode \in {"none", "rthread", "rtail"} THEN xbody ELSE clear(xbody)
         /\ tbody' = IF b.mode = "rthread" THEN NewNameMap ELSE tbody
  /\ ix' = ix + 1
  /\ UNCHANGED <<design, pc, todo, cls, mod_name_map, allmethodecls, generated_functions,
                 module, printed>>

NextClass ==
  /\ pc \in Parts /\ run = Idle /\ cls <= Len(Chain) /\ ix > Len(ClassBodies(pc, cls))
  /\ cls' = cls + 1 /\ ix' = 1
  /\ UNCHANGED <<design, pc, todo, run, calls, mod_name_map, names, generated_functions,
                 module, printed>>

PartDone ==
  /\ pc \in Parts /\ run = Idle /\ cls > Len(Chain)
  /\ pc' = NextPart[pc] /\ cls' = 1 /\ ix' = 1
  /\ UNCHANGED <<design, todo, run, calls, mod_name_map, names, generated_functions,
                 module, printed>>

\* The method of slot v that the one of the class itself overrides directly.
Overridden(chain, v) ==
  {chain[i].methods[v] : i \in {k \in 2 .. Len(chain) :
      v \in DOMAIN chain[k].methods /\ \A j \in 2 .. k - 1 : v \notin DOMAIN chain[j].methods}}

\* The pairs of overridden_method_map: methods of the class itself that have a
\* body and override one that has a body.
overridden_method_map(m) ==
  LET chain == design.mods[m].chain
      own == chain[1].methods
  IN  UNION {{<<o, own[v]>> : o \in {f \in Overridden(chain, v) : HasBody(f)}} :
               v \in {w \in DOMAIN own : HasBody(own[w])}}

\* Mutant: overriding methods are ignored.
StaticCallee(m, c) == c.fun

\* The declaration a call is translated to: a member call whose object is not
\* implicitly cast goes to the overriding method.  The cast stands for a call
\* that names its class, and whether the call does is not looked at.
Callee(m, c) ==
  LET over == {p \in overridden_method_map(m) : p[1] = c.fun}
  IN  IF c.kind = "member" /\ ~c.cast /\ over # {} THEN (CHOOSE p \in over : TRUE)[2] ELSE c.fun

\* The table of the HDLBody at work.
InThread == run.mode \in {"rthread", "rtail"}
methodecls == IF InThread THEN tbody ELSE xbody

FindFname(f) ==
  LET local == find_entry_newn(methodecls, f)
  IN  IF local # NoName THEN local ELSE find_entry_newn(allmethodecls, f)

\* Mutant: the table of the body only is consulted.
ForgetModuleTable(c, f) ==
  IF c.kind = "ctor" \/ run.mode # "rmodinit"
    THEN add_entry(methodecls, f, design.funs[f].qual)
    ELSE methodecls

\* The call of a constructor in a declaration is entered without looking at the
\* functions of the module; a call in a module's constructor is not entered.
EnterCallee(c, f) ==
  IF c.kind = "ctor" \/ (run.mode # "rmodinit" /\ FindFname(f) = NoName)
    THEN add_entry(methodecls, f, design.funs[f].qual)
    ELSE methodecls

VisitCall ==
  /\ run # Idle /\ calls # <<>>
  /\ LET c == Head(calls)
         f == Callee(Mod, c)
         table == EnterCallee(c, f)
         name == IF f \in DOMAIN table.map THEN table.map[f]
                 ELSE find_entry_newn(allmethodecls, f)
     IN  /\ xbody' = IF InThread THEN xbody ELSE table
         /\ tbody' = IF InThread THEN table ELSE tbody
         /\ module' = IF run.mode = "rmodinit" THEN module
                      ELSE [module EXCEPT !.calls = @ \cup
                             {[fun |-> f, name |-> name, call |-> c, mode |-> run.mode,
                               caller |-> run.fun]}]
  /\ calls' = Tail(calls)
  /\ UNCHANGED <<design, pc, todo, cls, ix, run, mod_name_map, allmethodecls,
                 generated_functions, printed>>

\* Mutant: the calls of a function are not added to the work list.
FinishProcessOnly ==
  /\ run # Idle /\ calls = <<>>
  /\ run' = Idle
  /\ allmethodecls' = IF run.mode \in {"rmethod", "rthread"}
                        THEN insertall(allmethodecls, methodecls) ELSE allmethodecls
  /\ module' = IF run.fun = NoFun THEN module
               ELSE [module EXCEPT !.funs = @ \cup
                      {[fun |-> run.fun, name |-> allmethodecls.map[run.fun]]}]
  /\ UNCHANGED <<design, pc, todo, cls, ix, calls, mod_name_map, xbody, tbody,
                 generated_functions, printed>>

\* What a process or a function called joins the functions of the module; what
\* an initializer or a module's constructor called does not.  A thread's table
\* is merged after each of its statements, never after a condition: what only
\* its tail called does not join either.
FinishBody ==
  /\ run # Idle /\ calls = <<>>
  /\ run' = Idle
  /\ allmethodecls' = IF run.mode \in {"rmethod", "rthread", "function"}
                        THEN insertall(allmethodecls, methodecls) ELSE allmethodecls
  /\ module' = IF run.fun = NoFun THEN module
               ELSE [module EXCEPT !.funs = @ \cup
                      {[fun |-> run.fun, name |-> allmethodecls.map[run.fun]]}]
  /\ UNCHANGED <<design, pc, todo, cls, ix, calls, mod_name_map, xbody, tbody,
                 generated_functions, printed>>
-----------------------------------------------------------------------------
\* Mutant: a function is not marked as generated.
GenerateAgain(f) ==
  /\ pc = "functions" /\ run = Idle
  /\ f \in DOMAIN allmethodecls.map \ generated_functions
  /\ run' = [mode |-> "function", fun |-> f]
  /\ calls' = design.funs[f].calls
  /\ xbody' = clear(xbody)
  /\ UNCHANGED <<design, pc, todo, cls, ix, mod_name_map, tbody, allmethodecls,
                 generated_functions, module, printed>>

\* The work list, a map ordered by address: any function not yet generated may
\* be next.  One without a body is only marked.
GenerateFunction(f) ==
  /\ pc = "functions" /\ run = Idle
  /\ f \in DOMAIN allmethodecls.map \ generated_functions
  /\ generated_functions' = generated_functions \cup {f}
  /\ IF HasBody(f)
       THEN /\ run' = [mode |-> "function", fun |-> f]
            /\ calls' = design.funs[f].calls
            /\ xbody' = clear(xbody)
       ELSE UNCHANGED <<run, calls, xbody>>
  /\ UNCHANGED <<design, pc, todo, cls, ix, mod_name_map, tbody, allmethodecls, module, printed>>

\* Mutant: the siblings of a module that has submodules are forgotten.
ForgetSiblings ==
  /\ pc = "functions" /\ run = Idle
  /\ Cardinality(DOMAIN allmethodecls.map) <= Cardinality(generated_functions)
  /\ printed' = printed \cup {module}
  /\ todo' = IF design.mods[Mod].subs = <<>> THEN Tail(todo) ELSE design.mods[Mod].subs
  /\ pc' = "module"
  /\ UNCHANGED <<design, cls, ix, run, calls, mod_name_map, names, generated_functions, module>>

\* The loop ends when the two sets have the same size; the recursive calls for
\* the submodules follow the printing.
PrintModule ==
  /\ pc = "functions" /\ run = Idle
  /\ Cardinality(DOMAIN allmethodecls.map) <= Cardinality(generated_functions)
  /\ printed' = printed \cup {module}
  /\ todo' = design.mods[Mod].subs \o Tail(todo)
  /\ pc' = "module"
  /\ UNCHANGED <<design, cls, ix, run, calls, mod_name_map, names, generated_functions, module>>

Finish ==
  /\ pc = "module" /\ todo = <<>>
  /\ pc' = "done"
  /\ UNCHANGED <<design, todo, cls, ix, run, calls, mod_name_map, names, generated_functions,
                 module, printed>>

Next ==
  \/ postFire \/ SCmodule2hcode \/ DeclareSubmodule \/ SubmodulesDeclared
  \/ StartBody \/ NextClass \/ PartDone \/ VisitCall \/ FinishBody
  \/ \E f \in DOMAIN allmethodecls.map : GenerateFunction(f)
  \/ PrintModule \/ Finish

\* A sequential program that is never suspended: it keeps taking steps.
Spec == Init /\ [][Next]_vars /\ WF_vars(Next)
=============================================================================
