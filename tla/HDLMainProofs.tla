--------------------------- MODULE HDLMainProofs ---------------------------
(***************************************************************************)
(* What HDLMain promises, for every design: a printed module has exactly   *)
(* the functions it needs, its calls and instances name what is defined,   *)
(* and a call goes where C++ sends it.                                     *)
(***************************************************************************)
EXTENDS HDLMainProperties, NameMapsProofs, SequenceTheorems, FiniteSetTheorems

Mods == DOMAIN design.mods
CallSet == Calls(design)
FunNames == {design.funs[f].qual : f \in Funs} \X Nat
ModNames == {design.mods[m].name : m \in Mods} \X Nat
FunTables == Tables(Funs, FunNames)
ModTables == Tables(Mods, ModNames)
Modes == {"none", "rnomode", "rmodinit", "rmethod", "rthread", "rtail", "function"}

SubRecords == [inst : Mods, type : ModNames \cup {NoName}]
FunRecords == [fun : Funs, name : FunNames]
CallRecords == [fun : Funs, name : FunNames \cup {NoName}, call : CallSet, mode : Modes,
                caller : Funs \cup {NoFun}]
Hcodes == [inst : Mods \cup {NoModule}, name : ModNames \cup {NoName},
           subs : SUBSET SubRecords, funs : SUBSET FunRecords, calls : SUBSET CallRecords]

Types ==
  /\ IsDesign(design)
  /\ pc \in {"start", "module", "inits", "subs", "ctors", "procs", "functions", "done"}
  /\ todo \in Seq(Mods)
  /\ cls \in Nat \ {0} /\ ix \in Nat \ {0}
  /\ run \in [mode : Modes, fun : Funs \cup {NoFun}]
  /\ calls \in Seq(CallSet)
  /\ mod_name_map \in ModTables
  /\ xbody \in FunTables /\ tbody \in FunTables /\ allmethodecls \in FunTables
  /\ generated_functions \in SUBSET Funs
  /\ module \in Hcodes
  /\ printed \in SUBSET Hcodes

\* A module is being translated.
AtModule == pc \in {"inits", "subs", "ctors", "procs", "functions"}

Known == DOMAIN allmethodecls.map

\* Where the control can be while a body of each kind is translated.
Control ==
  /\ AtModule => todo # <<>> /\ module.inst = Mod
  /\ run.mode = "rnomode" => pc = "inits"
  /\ run.mode = "rmodinit" => pc = "ctors"
  /\ run.mode = "rtail" => pc = "procs"
  /\ run.mode \in {"rmethod", "rthread"} =>
       /\ pc = "procs" /\ cls \in DOMAIN Chain /\ ix - 1 \in DOMAIN Chain[cls].procs
       /\ run.mode = ProcessBody(Chain[cls].procs[ix - 1]).mode
  /\ IF run.mode = "function"
       THEN /\ pc = "functions" /\ run.fun \in generated_functions
            /\ HasBody(run.fun) /\ run.fun # NoFun
       ELSE run.fun = NoFun
  /\ generated_functions \subseteq Known

Base == Types /\ Control

(***************************************************************************)
(* The work list.  The calls of the body at work are still to be visited   *)
(* or their callees collected; a process or function that is finished has  *)
(* all its callees in the table of the module; nothing is collected that a *)
(* closed set could do without.                                            *)
(***************************************************************************)
Merging == run.mode \in {"rmethod", "rthread", "function"}
Collected == Known \cup (IF Merging THEN DOMAIN methodecls.map ELSE {})

ProcessCall(m, i, j) == MergedCalls(ProcessBody(design.mods[m].chain[i].procs[j]))

CurrentCalls ==
  IF run.mode = "function" THEN Elements(design.funs[run.fun].calls)
  ELSE ProcessCall(Mod, cls, ix - 1)

Visited ==
  Merging => /\ Elements(calls) \subseteq CurrentCalls
             /\ \A c \in CurrentCalls : c \in Elements(calls) \/ Callee(Mod, c) \in Collected

Minimal == AtModule => \A T \in SUBSET Funs : ClosedFor(Mod, T) => Collected \subseteq T

\* The processes that are finished.
Behind(i, j) ==
  \/ pc = "functions"
  \/ pc = "procs" /\ (i < cls \/ (i = cls /\ j < ix /\ ~(Merging /\ j = ix - 1)))

ProcessesDone ==
  AtModule => \A i \in DOMAIN Chain : \A j \in DOMAIN Chain[i].procs :
    Behind(i, j) => \A c \in ProcessCall(Mod, i, j) : Callee(Mod, c) \in Known

FunctionsDone ==
  AtModule => \A f \in generated_functions \ {run.fun} :
    HasBody(f) => \A c \in Elements(design.funs[f].calls) : Callee(Mod, c) \in Known

Defined ==
  AtModule => {h.fun : h \in module.funs} = {f \in generated_functions \ {run.fun} : HasBody(f)}

WorkList == Visited /\ Minimal /\ ProcessesDone /\ FunctionsDone /\ Defined

(***************************************************************************)
(* The names of the functions.  A call recorded has the name its function  *)
(* has in the table of the module, or will have once the body at work is   *)
(* finished.                                                               *)
(***************************************************************************)
NamedInModule(c) == c.fun \in Known /\ c.name = allmethodecls.map[c.fun]
NamedInBody(c) ==
  /\ Merging
  /\ c.fun \in DOMAIN methodecls.map \ Known /\ c.name = methodecls.map[c.fun]

CallsNamed ==
  AtModule => \A c \in module.calls :
    (c.mode \notin {"rnomode", "rtail"} /\ c.call.kind # "ctor") => NamedInModule(c) \/ NamedInBody(c)

FunsNamed ==
  AtModule => \A h \in module.funs : h.fun \in Known /\ h.name = allmethodecls.map[h.fun]

\* Only a constructor is entered that the module already knows.
EnteredOnce ==
  Merging => \A f \in DOMAIN methodecls.map \cap Known : design.funs[f].ctor

Naming == CallsNamed /\ FunsNamed /\ EnteredOnce

(***************************************************************************)
(* The counter of xbody is above every number it has given out to a        *)
(* function whose qualified name is not its own alone.                     *)
(***************************************************************************)
Alone(f) == \A g \in Funs : design.funs[g].qual = design.funs[f].qual => g = f

Numbered(t) ==
  \A f \in DOMAIN t.map : t.map[f][1] = design.funs[f].qual /\ t.map[f][2] < t.cnt

InjectiveMap(t) == \A f, g \in DOMAIN t.map : t.map[f] = t.map[g] => f = g

ModuleNumbered ==
  /\ \A f \in Known :
       /\ allmethodecls.map[f][1] = design.funs[f].qual
       /\ Alone(f) \/ allmethodecls.map[f][2] < xbody.cnt
  /\ InjectiveMap(allmethodecls)

Apart ==
  run.mode \in {"rmethod", "function"} =>
    \A f \in DOMAIN xbody.map, g \in Known : xbody.map[f] = allmethodecls.map[g] => f = g

ThreadAlone == run.mode = "rthread" => \A f \in DOMAIN tbody.map : Alone(f)

\* What holds of the tables of the bodies, and of the module.
TablesNumbered == Numbered(xbody) /\ InjectiveMap(xbody) /\ Numbered(tbody)
Numbers == AtModule /\ OverloadsOutsideThreads(Mod) => ModuleNumbered /\ Apart /\ ThreadAlone

Numbering == TablesNumbered /\ Numbers

(***************************************************************************)
(* The tree of instances: each is printed once, after the module it is in. *)
(***************************************************************************)
Done == {p.inst : p \in printed}
Subs(m) == Elements(design.mods[m].subs)

InjSeq(s) == \A i, j \in DOMAIN s : s[i] = s[j] => i = j

OnePlace ==
  /\ InjSeq(todo)
  /\ Elements(todo) \cap Done = {}
  /\ \A p, q \in printed : p.inst = q.inst => p = q
  /\ Done \subseteq Mods

Descent ==
  /\ \A x \in Elements(todo) \cup Done : x = design.root \/ \E m \in Done : x \in Subs(m)
  /\ \A m \in Done : Subs(m) \subseteq Elements(todo) \cup Done
  /\ pc = "start" => todo = <<>> /\ printed = {}
  /\ pc = "done" => todo = <<>>

Faithful(p) ==
  /\ p.inst \in DOMAIN mod_name_map.map /\ p.name = mod_name_map.map[p.inst]
  /\ \A s \in p.subs :
       /\ s.inst \in Subs(p.inst) \cap DOMAIN mod_name_map.map
       /\ s.type = mod_name_map.map[s.inst]

InstancesNamed ==
  /\ InjectiveMap(mod_name_map)
  /\ \A m \in DOMAIN mod_name_map.map : mod_name_map.map[m][2] < mod_name_map.cnt
  /\ Elements(todo) \subseteq DOMAIN mod_name_map.map
  /\ pc = "subs" => \A i \in DOMAIN design.mods[Mod].subs :
                      i < ix => design.mods[Mod].subs[i] \in DOMAIN mod_name_map.map
  /\ pc \in {"ctors", "procs", "functions"} => Subs(Mod) \subseteq DOMAIN mod_name_map.map
  /\ \A p \in printed : Faithful(p)
  /\ AtModule => Faithful(module)

Tree == OnePlace /\ Descent /\ InstancesNamed

(***************************************************************************)
(* The calls recorded are the ones HDLBody resolves.                       *)
(***************************************************************************)
Resolved(p) == \A c \in p.calls : c.fun = Callee(p.inst, c.call)
Dispatching == (AtModule => Resolved(module)) /\ \A p \in printed : Resolved(p)

LEMMA Static ==
  ASSUME design' = design
  PROVE  /\ Mods' = Mods /\ Funs' = Funs /\ CallSet' = CallSet
         /\ FunTables' = FunTables /\ ModTables' = ModTables /\ Hcodes' = Hcodes
         /\ FunNames' = FunNames /\ ModNames' = ModNames
<1>1. Mods' = Mods /\ Funs' = Funs /\ CallSet' = CallSet /\ NoFun' = NoFun
  BY DEF Mods, Funs, CallSet, Calls, NoFun
<1>2. FunNames' = FunNames /\ ModNames' = ModNames
  BY <1>1 DEF FunNames, ModNames
<1> QED BY <1>1, <1>2 DEF FunTables, ModTables, Tables, Hcodes, SubRecords, FunRecords, CallRecords

LEMMA DesignFacts ==
  ASSUME IsDesign(design)
  PROVE  /\ NoModule \notin Mods /\ NoFun \notin Funs
         /\ design.root # NoModule => design.root \in Mods
         /\ \A m \in Mods : design.mods[m].subs \in Seq(Mods) /\ IsChain(design, design.mods[m].chain)
         /\ \A f \in Funs : design.funs[f].calls \in Seq(CallSet)
BY DEF IsDesign, IsFunction, Mods, Funs, CallSet, NoFun

LEMMA ModFacts ==
  ASSUME Types, todo # <<>>
  PROVE  Mod \in Mods /\ Tail(todo) \in Seq(Mods)
BY HeadTailProperties DEF Types, Mod

LEMMA ChainFacts ==
  ASSUME IsDesign(design), NEW m \in Mods
  PROVE  LET chain == design.mods[m].chain
         IN  /\ Len(chain) \in Nat /\ DOMAIN chain = 1 .. Len(chain)
             /\ \A i \in DOMAIN chain : IsClass(design, chain[i])
<1>1. IsChain(design, design.mods[m].chain)
  BY DesignFacts
<1> QED BY <1>1 DEF IsChain, IsSequence

(***************************************************************************)
(* The bodies of a class are bodies of calls, each in the mode of its      *)
(* part.                                                                   *)
(***************************************************************************)
LEMMA SequenceOf ==
  ASSUME NEW n \in Nat, NEW S, NEW f \in [1 .. n -> S]
  PROVE  f \in Seq(S) /\ Len(f) = n
OBVIOUS

LEMMA ProcessBodyFacts ==
  ASSUME IsDesign(design), NEW m \in Mods, NEW i \in DOMAIN design.mods[m].chain,
         NEW j \in DOMAIN design.mods[m].chain[i].procs
  PROVE  LET b == ProcessBody(design.mods[m].chain[i].procs[j])
         IN  /\ b = [mode |-> b.mode, calls |-> b.calls]
             /\ b.mode \in {"none", "rmethod", "rthread", "rtail"} /\ b.calls \in Seq(CallSet)
             /\ b.mode = "none" => b.calls = <<>>
<1> DEFINE p == design.mods[m].chain[i].procs[j]
<1>1. IsClass(design, design.mods[m].chain[i])
  BY ChainFacts
<1>2. p.calls \in Seq(CallSet)
  BY <1>1 DEF IsClass, IsProcess, CallSet
<1>3. <<>> \in Seq(CallSet)
  OBVIOUS
<1> QED BY <1>2, <1>3 DEF ProcessBody, Body

LEMMA BodyFacts ==
  ASSUME IsDesign(design), todo # <<>>, Mod \in Mods, pc \in Parts,
         cls \in Nat \ {0}, cls <= Len(Chain), ix \in Nat \ {0}, ix <= Len(ClassBodies(pc, cls))
  PROVE  LET b == ClassBodies(pc, cls)[ix]
         IN  /\ b.calls \in Seq(CallSet) /\ cls \in DOMAIN Chain
             /\ pc = "inits" => b.mode = "rnomode"
             /\ pc = "ctors" => b.mode = "rmodinit"
             /\ pc = "procs" => /\ ix \in DOMAIN Chain[cls].procs
                                /\ b = ProcessBody(Chain[cls].procs[ix])
                                /\ b.mode \in {"none", "rmethod", "rthread", "rtail"}
<1> DEFINE c == Chain[cls]
           b == ClassBodies(pc, cls)[ix]
<1>1. cls \in DOMAIN Chain /\ IsClass(design, c)
  BY ChainFacts DEF Chain
<1>2. CASE pc = "inits"
  <2> DEFINE f == [j \in DOMAIN c.inits |-> Body("rnomode", c.inits[j])]
  <2>1. ClassBodies(pc, cls) = f
    BY <1>2 DEF ClassBodies
  <2>2. c.inits \in Seq(Seq(CallSet))
    BY <1>1 DEF IsClass, CallSet
  <2>3. Len(c.inits) \in Nat /\ DOMAIN c.inits = 1 .. Len(c.inits)
    BY <2>2, LenProperties
  <2>4. f \in [1 .. Len(c.inits) -> {f[j] : j \in 1 .. Len(c.inits)}]
    BY <2>3
  <2>5. Len(f) = Len(c.inits)
    BY <2>3, <2>4, SequenceOf
  <2>6. ix \in 1 .. Len(c.inits) /\ b = Body("rnomode", c.inits[ix])
    BY <2>1, <2>3, <2>5
  <2>7. c.inits[ix] \in Seq(CallSet)
    BY <2>2, <2>6, ElementOfSeq
  <2> QED BY <1>1, <1>2, <2>6, <2>7 DEF Body
<1>3. CASE pc = "ctors"
  <2>1. CASE \A j \in 1 .. cls : Chain[j].hasCtor
    <3>1. ClassBodies(pc, cls) = <<Body("rmodinit", c.ctor)>>
      BY <1>3, <2>1 DEF ClassBodies
    <3>2. ix = 1 /\ b = Body("rmodinit", c.ctor)
      BY <3>1
    <3>3. c.ctor \in Seq(CallSet)
      BY <1>1 DEF IsClass, CallSet
    <3> QED BY <1>1, <1>3, <3>2, <3>3 DEF Body
  <2>2. CASE ~(\A j \in 1 .. cls : Chain[j].hasCtor)
    <3>1. ClassBodies(pc, cls) = <<>>
      BY <1>3, <2>2 DEF ClassBodies
    <3> QED BY <3>1
  <2> QED BY <2>1, <2>2
<1>4. CASE pc = "procs"
  <2> DEFINE f == [j \in DOMAIN c.procs |-> ProcessBody(c.procs[j])]
  <2>1. ClassBodies(pc, cls) = f
    BY <1>4 DEF ClassBodies
  <2>2. Len(c.procs) \in Nat /\ DOMAIN c.procs = 1 .. Len(c.procs)
    BY <1>1 DEF IsClass, IsSequence
  <2>3. f \in [1 .. Len(c.procs) -> {f[j] : j \in 1 .. Len(c.procs)}]
    BY <2>2
  <2>4. Len(f) = Len(c.procs)
    BY <2>2, <2>3, SequenceOf
  <2>5. ix \in DOMAIN c.procs /\ b = ProcessBody(c.procs[ix])
    BY <2>1, <2>2, <2>4
  <2>6. b.calls \in Seq(CallSet) /\ b.mode \in {"none", "rmethod", "rthread", "rtail"}
    <3>1. cls \in DOMAIN design.mods[Mod].chain /\ ix \in DOMAIN design.mods[Mod].chain[cls].procs
      BY <1>1, <2>5 DEF Chain
    <3>2. b = ProcessBody(design.mods[Mod].chain[cls].procs[ix])
      BY <2>5 DEF Chain
    <3> HIDE DEF b
    <3> QED BY <3>1, <3>2, ProcessBodyFacts
  <2> QED BY <1>1, <1>4, <2>5, <2>6
<1> QED BY <1>2, <1>3, <1>4 DEF Parts

(***************************************************************************)
(* A call is translated to a function of the design, and to a constructor  *)
(* only when it is one.                                                    *)
(***************************************************************************)
LEMMA CalleeFacts ==
  ASSUME IsDesign(design), NEW m \in Mods, NEW c \in CallSet
  PROVE  /\ Callee(m, c) \in Funs
         /\ design.funs[Callee(m, c)].ctor <=> c.kind = "ctor"
<1> DEFINE over == {p \in overridden_method_map(m) : p[1] = c.fun}
           chain == design.mods[m].chain
<1>1. c.fun \in Funs /\ (design.funs[c.fun].ctor <=> c.kind = "ctor")
  BY DEF CallSet, Calls, Funs
<1>2. ASSUME NEW p \in over PROVE p[2] \in Funs /\ ~design.funs[p[2]].ctor
  <2>1. chain # <<>> /\ Len(chain) \in Nat /\ DOMAIN chain = 1 .. Len(chain)
    BY DesignFacts DEF IsChain, IsSequence
  <2>2. 1 \in DOMAIN chain
    <3>1. Len(chain) # 0
      BY <2>1, DesignFacts
    <3> QED BY <2>1, <3>1
  <2>3. IsClass(design, chain[1])
    BY <2>2, ChainFacts
  <2>4. PICK v \in DOMAIN chain[1].methods : p[2] = chain[1].methods[v]
    BY DEF overridden_method_map
  <2> QED BY <2>3, <2>4 DEF IsClass, Funs
<1>3. CASE c.kind = "member" /\ ~c.cast /\ over # {}
  <2>1. (CHOOSE p \in over : TRUE) \in over
    BY <1>3
  <2>2. Callee(m, c) = (CHOOSE p \in over : TRUE)[2]
    BY <1>3 DEF Callee
  <2> HIDE DEF over
  <2> QED BY <1>2, <1>3, <2>1, <2>2
<1>4. CASE ~(c.kind = "member" /\ ~c.cast /\ over # {})
  <2>1. Callee(m, c) = c.fun
    BY <1>4 DEF Callee
  <2> QED BY <1>1, <2>1
<1> QED BY <1>3, <1>4

(***************************************************************************)
(* Types and control.                                                      *)
(***************************************************************************)
LEMMA Same ==
  ASSUME design' = design, todo' = todo
  PROVE  /\ Mod' = Mod /\ Chain' = Chain
         /\ \A f : HasBody(f)' = HasBody(f)
BY DEF Mod, Chain, HasBody

LEMMA IdleFacts ==
  ASSUME Base
  PROVE  /\ run = Idle <=> run.mode = "none"
         /\ run = Idle => run.fun = NoFun
BY DEF Base, Types, Control, Idle

LEMMA MethodeclsFacts ==
  ASSUME Types
  PROVE  methodecls \in FunTables
BY DEF Types, methodecls, InThread

LEMMA HcodeFacts ==
  ASSUME NEW h \in Hcodes
  PROVE  /\ \A x \in SubRecords : [h EXCEPT !.subs = @ \cup {x}] \in Hcodes
         /\ \A x \in FunRecords : [h EXCEPT !.funs = @ \cup {x}] \in Hcodes
         /\ \A x \in CallRecords : [h EXCEPT !.calls = @ \cup {x}] \in Hcodes
BY DEF Hcodes

LEMMA InitBase == Init => Base
<1> SUFFICES ASSUME Init PROVE Base
  OBVIOUS
<1>1. IsDesign(design)
  BY DesignAssumption DEF Init
<1>2. NewNameMap \in FunTables /\ NewNameMap \in ModTables /\ DOMAIN NewNameMap.map = {}
  BY NewNameMapFacts DEF FunTables, ModTables
<1>3. NoHcode \in Hcodes
  BY DEF NoHcode, Hcodes
<1>4. Types
  BY <1>1, <1>2, <1>3 DEF Init, Types, Idle, Modes
<1>5. Control
  BY DEF Init, Control, AtModule, Idle, Known
<1> QED BY <1>4, <1>5 DEF Base

LEMMA BasePostFire ==
  ASSUME Base, postFire PROVE Base'
<1>1. Types /\ Control /\ design' = design
  BY DEF Base, postFire
<1> DEFINE r == design.root
<1>2. CASE r = NoModule
  <2>1. Types'
    BY <1>1, <1>2, Static DEF postFire, names, Types
  <2>2. Control'
    BY <1>1, <1>2, Same DEF postFire, names, Control, AtModule, Known
  <2> QED BY <2>1, <2>2 DEF Base
<1>3. CASE r # NoModule
  <2>1. r \in Mods /\ <<design.mods[r].name, mod_name_map.cnt>> \in ModNames
    BY <1>1, <1>3, DesignFacts, TableFacts DEF Types, ModTables, ModNames
  <2>2. add_entry(mod_name_map, r, design.mods[r].name) \in ModTables
    BY <1>1, <2>1, AddEntryFacts DEF Types, ModTables
  <2> DEFINE t == add_entry(mod_name_map, r, design.mods[r].name)
  <2>3. todo' = <<r>> /\ <<r>> \in Seq(Mods) /\ pc' = "module" /\ mod_name_map' = t
    BY <1>3, <2>1 DEF postFire
  <2> HIDE DEF t
  <2>4. Types'
    BY <1>1, <1>3, <2>2, <2>3, Static DEF postFire, names, Types, t
  <2>5. Control'
    BY <1>1, <1>3 DEF postFire, names, Control, AtModule, Known
  <2> QED BY <2>4, <2>5 DEF Base
<1> QED BY <1>2, <1>3

LEMMA BaseModule ==
  ASSUME Base, SCmodule2hcode PROVE Base'
<1>1. Types /\ Control /\ design' = design /\ todo' = todo /\ run' = run
  BY DEF Base, SCmodule2hcode
<1>2. Mod \in Mods
  BY <1>1, ModFacts DEF SCmodule2hcode
<1>3. find_entry_newn(mod_name_map, Mod) \in ModNames \cup {NoName}
  BY <1>1, TableFacts DEF Types, ModTables, find_entry_newn
<1>4. module' \in Hcodes /\ module'.inst = Mod
  BY <1>2, <1>3 DEF SCmodule2hcode, NoHcode, Hcodes
<1>5. NewNameMap \in FunTables /\ clear(allmethodecls) \in FunTables
  BY <1>1, NewNameMapFacts, ClearFacts DEF Types, FunTables
<1>6. Types'
  BY <1>1, <1>4, <1>5, Static DEF SCmodule2hcode, Types
<1>7. Control'
  BY <1>1, <1>4, Same DEF SCmodule2hcode, Control, AtModule
<1> QED BY <1>6, <1>7 DEF Base

LEMMA BaseDeclare ==
  ASSUME Base, DeclareSubmodule PROVE Base'
<1> DEFINE s == design.mods[Mod].subs[ix]
           e == find_entry_newn(mod_name_map', s)
<1>1. Types /\ Control /\ design' = design /\ todo' = todo /\ run' = run /\ pc' = pc
  BY DEF Base, DeclareSubmodule
<1>2. Mod \in Mods
  BY <1>1, ModFacts DEF DeclareSubmodule, Control, AtModule
<1>3. s \in Mods
  <2>1. design.mods[Mod].subs \in Seq(Mods)
    BY <1>1, <1>2, DesignFacts DEF Types
  <2>2. ix \in 1 .. Len(design.mods[Mod].subs)
    BY <1>1, <2>1, SMTT(30) DEF DeclareSubmodule, Types
  <2> QED BY <2>1, <2>2, ElementOfSeq
<1>4. mod_name_map' \in ModTables
  <2>1. <<design.mods[s].name, mod_name_map.cnt>> \in ModNames
    BY <1>1, <1>3, TableFacts DEF Types, ModTables, ModNames
  <2> QED BY <1>1, <1>3, <2>1, AddEntryFacts, SMTT(30) DEF DeclareSubmodule, Types, ModTables
<1>5. e \in ModNames \cup {NoName}
  BY <1>4, TableFacts DEF ModTables, find_entry_newn
<1>6. [inst |-> s, type |-> e] \in SubRecords
  BY <1>3, <1>5 DEF SubRecords
<1>7. module' = [module EXCEPT !.subs = @ \cup {[inst |-> s, type |-> e]}]
  BY DEF DeclareSubmodule
<1> HIDE DEF s, e
<1>8. module' \in Hcodes /\ module'.inst = module.inst
  BY <1>1, <1>6, <1>7, HcodeFacts DEF Types, Hcodes
<1>9. Types'
  <2>1. /\ UNCHANGED <<cls, calls, xbody, tbody, allmethodecls, generated_functions, printed>>
        /\ ix' = ix + 1
    BY DEF DeclareSubmodule, names
  <2>2. ix' \in Nat \ {0}
    BY <1>1, <2>1, SMTT(30) DEF Types
  <2> QED BY <1>1, <1>4, <1>8, <2>1, <2>2, Static, SMTT(30) DEF Types
<1>10. Control'
  BY <1>1, <1>8, Same DEF DeclareSubmodule, names, Control, AtModule, Known
<1> QED BY <1>9, <1>10 DEF Base

LEMMA BaseMoves ==
  ASSUME Base, SubmodulesDeclared \/ NextClass \/ PartDone \/ Finish PROVE Base'
<1>1. Types /\ Control /\ design' = design /\ todo' = todo /\ run' = run
  BY DEF Base, SubmodulesDeclared, NextClass, PartDone, Finish
<1>2. /\ pc' \in {"subs", "inits", "ctors", "procs", "functions", "done"}
      /\ cls' \in Nat \ {0} /\ ix' \in Nat \ {0}
      /\ pc' # "done" => AtModule
      /\ run.mode = "none" /\ UNCHANGED <<mod_name_map, names, generated_functions, module, printed, calls>>
  <2>1. CASE SubmodulesDeclared
    BY <1>1, <2>1 DEF SubmodulesDeclared, AtModule, Types, Control, Modes
  <2>2. CASE NextClass
    BY <1>1, <2>2 DEF NextClass, Parts, AtModule, Types, Idle
  <2>3. CASE PartDone
    BY <1>1, <2>3 DEF PartDone, Parts, NextPart, AtModule, Types, Idle
  <2>4. CASE Finish
    BY <1>1, <2>4 DEF Finish, AtModule, Types, Control, Modes
  <2> QED BY <2>1, <2>2, <2>3, <2>4
<1>3. Types'
  BY <1>1, <1>2, Static DEF names, Types
<1>4. Control'
  BY <1>1, <1>2, Same DEF names, Control, AtModule, Known
<1> QED BY <1>3, <1>4 DEF Base

(***************************************************************************)
(* A body is started.                                                      *)
(***************************************************************************)
Started ==
  /\ UNCHANGED <<design, pc, todo, cls, mod_name_map, allmethodecls, generated_functions, module,
                 printed>>
  /\ AtModule /\ run.mode = "none" /\ run.fun = NoFun
  /\ run' \in [mode : Modes, fun : {NoFun}] /\ calls' \in Seq(CallSet) /\ ix' = ix + 1
  /\ xbody' \in FunTables /\ tbody' \in FunTables
  /\ pc \in Parts
  /\ pc = "inits" => run'.mode = "rnomode"
  /\ pc = "ctors" => run'.mode = "rmodinit"
  /\ pc = "procs" => run'.mode \in {"none", "rmethod", "rthread", "rtail"}
  /\ pc = "procs" => /\ cls \in DOMAIN Chain /\ ix \in DOMAIN Chain[cls].procs
                     /\ run'.mode = ProcessBody(Chain[cls].procs[ix]).mode
                     /\ calls' = ProcessBody(Chain[cls].procs[ix]).calls
  /\ xbody' = xbody \/ (xbody'.cnt = xbody.cnt /\ DOMAIN xbody'.map = {})
  /\ run'.mode = "rmethod" => DOMAIN xbody'.map = {}
  /\ tbody' = tbody \/ DOMAIN tbody'.map = {}
  /\ run'.mode = "rthread" => DOMAIN tbody'.map = {}

LEMMA StartFacts ==
  ASSUME Base, StartBody PROVE Started
<1> DEFINE b == ClassBodies(pc, cls)[ix]
<1>1. Types /\ Control
  BY DEF Base
<1>2. AtModule /\ pc \in Parts /\ todo # <<>> /\ Mod \in Mods
  BY <1>1, ModFacts DEF StartBody, Parts, AtModule, Control
<1>3. /\ b.calls \in Seq(CallSet) /\ cls \in DOMAIN Chain
      /\ pc = "inits" => b.mode = "rnomode"
      /\ pc = "ctors" => b.mode = "rmodinit"
      /\ pc = "procs" => /\ ix \in DOMAIN Chain[cls].procs
                         /\ b = ProcessBody(Chain[cls].procs[ix])
                         /\ b.mode \in {"none", "rmethod", "rthread", "rtail"}
  BY <1>1, <1>2, BodyFacts DEF Types, StartBody
<1>4. /\ run' = [Idle EXCEPT !.mode = b.mode] /\ calls' = b.calls /\ ix' = ix + 1
      /\ xbody' = IF b.mode \in {"none", "rthread", "rtail"} THEN xbody ELSE clear(xbody)
      /\ tbody' = IF b.mode = "rthread" THEN NewNameMap ELSE tbody
      /\ UNCHANGED <<design, pc, todo, cls, mod_name_map, allmethodecls, generated_functions,
                     module, printed>>
  BY DEF StartBody
<1>5. run.mode = "none" /\ run.fun = NoFun
  BY DEF StartBody, Idle
<1>6. /\ clear(xbody) \in FunTables /\ clear(xbody).cnt = xbody.cnt /\ DOMAIN clear(xbody).map = {}
      /\ NewNameMap \in FunTables /\ DOMAIN NewNameMap.map = {}
      /\ xbody \in FunTables /\ tbody \in FunTables
  BY <1>1, ClearFacts, NewNameMapFacts DEF Types, FunTables
<1> HIDE DEF b
<1>7. b.mode \in Modes
  BY <1>2, <1>3 DEF Parts, Modes
<1>8. run' = [mode |-> b.mode, fun |-> NoFun]
  BY <1>4 DEF Idle
<1>9. run' \in [mode : Modes, fun : {NoFun}] /\ run'.mode = b.mode
  BY <1>7, <1>8
<1>10. /\ xbody' \in FunTables /\ tbody' \in FunTables
       /\ xbody' = xbody \/ (xbody'.cnt = xbody.cnt /\ DOMAIN xbody'.map = {})
       /\ run'.mode = "rmethod" => DOMAIN xbody'.map = {}
       /\ tbody' = tbody \/ DOMAIN tbody'.map = {}
       /\ run'.mode = "rthread" => DOMAIN tbody'.map = {}
  BY <1>4, <1>6, <1>9
<1> QED BY <1>2, <1>3, <1>4, <1>5, <1>9, <1>10 DEF Started

LEMMA BaseStart ==
  ASSUME Base, StartBody PROVE Base'
<1>1. Types /\ Control /\ Started
  BY StartFacts DEF Base
<1>2. Types'
  BY <1>1, Static DEF Started, Types
<1>3. Control'
  BY <1>1, Same DEF Started, Types, Control, AtModule, Known, Parts
<1> QED BY <1>2, <1>3 DEF Base

(***************************************************************************)
(* A call is visited: c is translated to f, the table of the body becomes  *)
(* table, and the call gets a name.                                        *)
(***************************************************************************)
Visit(c, f, table, name) ==
  /\ UNCHANGED <<design, pc, todo, cls, ix, run, mod_name_map, allmethodecls, generated_functions,
                 printed>>
  /\ AtModule /\ Mod \in Mods
  /\ run.mode # "none" /\ calls # <<>> /\ c = Head(calls) /\ calls' = Tail(calls)
  /\ f = Callee(Mod, c) /\ (design.funs[f].ctor <=> c.kind = "ctor")
  /\ xbody' = IF InThread THEN xbody ELSE table
  /\ tbody' = IF InThread THEN table ELSE tbody
  /\ module' = IF run.mode = "rmodinit" THEN module
               ELSE [module EXCEPT !.calls = @ \cup {[fun |-> f, name |-> name, call |-> c,
                                                      mode |-> run.mode, caller |-> run.fun]}]
  /\ \/ table = methodecls
     \/ /\ f \notin DOMAIN methodecls.map /\ DOMAIN table.map = DOMAIN methodecls.map \cup {f}
        /\ \A e \in DOMAIN methodecls.map : table.map[e] = methodecls.map[e]
        /\ table.map[f] = <<design.funs[f].qual, methodecls.cnt>> /\ table.cnt = methodecls.cnt + 1
        /\ f \in Known => c.kind = "ctor"
  /\ run.mode # "rmodinit" => f \in DOMAIN table.map \cup Known
  /\ f \in DOMAIN table.map => name = table.map[f]
  /\ f \in Known \ DOMAIN table.map => name = allmethodecls.map[f]

LEMMA PairIsName ==
  ASSUME Types, NEW t \in FunTables, NEW f
  PROVE  find_entry_newn(t, f) # NoName <=> f \in DOMAIN t.map
<1>1. CASE f \in DOMAIN t.map
  <2>1. t.map[f] \in FunNames
    BY <1>1, TableFacts DEF FunTables
  <2>2. t.map[f] # <<>>
    BY <2>1, SMTT(30) DEF FunNames
  <2> QED BY <1>1, <2>2 DEF find_entry_newn, NoName
<1>2. CASE f \notin DOMAIN t.map
  BY <1>2 DEF find_entry_newn
<1> QED BY <1>1, <1>2

LEMMA VisitFacts ==
  ASSUME Base, VisitCall
  PROVE  \E c \in CallSet, f \in Funs, table \in FunTables, name \in FunNames \cup {NoName} :
           Visit(c, f, table, name)
<1> DEFINE c == Head(calls)
           f == Callee(Mod, c)
           table == EnterCallee(c, f)
           name == IF f \in DOMAIN table.map THEN table.map[f]
                   ELSE find_entry_newn(allmethodecls, f)
           q == design.funs[f].qual
           added == add_entry(methodecls, f, q)
<1>1. Types /\ Control /\ methodecls \in FunTables /\ allmethodecls \in FunTables
  BY MethodeclsFacts DEF Base, Types
<1>2. run.mode # "none" /\ AtModule /\ Mod \in Mods
  <2>1. run.mode # "none"
    BY IdleFacts DEF VisitCall
  <2>2. run.mode \in Modes
    BY <1>1 DEF Types
  <2>3. AtModule
    BY <1>1, <2>1, <2>2 DEF Modes, Control, AtModule
  <2> QED BY <1>1, <2>1, <2>3, ModFacts DEF Control
<1>3. c \in CallSet /\ calls # <<>>
  BY <1>1, HeadTailProperties DEF VisitCall, Types
<1>4. f \in Funs /\ (design.funs[f].ctor <=> c.kind = "ctor")
  BY <1>1, <1>2, <1>3, CalleeFacts DEF Types
<1>5. <<q, methodecls.cnt>> \in FunNames
  BY <1>1, <1>4, TableFacts DEF FunTables, FunNames
<1>6. /\ added \in FunTables /\ DOMAIN added.map = DOMAIN methodecls.map \cup {f}
      /\ \A e \in DOMAIN methodecls.map : added.map[e] = methodecls.map[e]
      /\ f \in DOMAIN methodecls.map => added = methodecls
      /\ f \notin DOMAIN methodecls.map =>
           added.map[f] = <<q, methodecls.cnt>> /\ added.cnt = methodecls.cnt + 1
  BY <1>1, <1>4, <1>5, AddEntryFacts DEF FunTables
<1>7. FindFname(f) = NoName <=> f \notin DOMAIN methodecls.map /\ f \notin Known
  BY <1>1, PairIsName DEF FindFname, Known
<1>8. table = IF c.kind = "ctor" \/ (run.mode # "rmodinit" /\ FindFname(f) = NoName)
                THEN added ELSE methodecls
  BY DEF EnterCallee
<1>9. /\ UNCHANGED <<design, pc, todo, cls, ix, run, mod_name_map, allmethodecls,
                     generated_functions, printed>>
      /\ calls' = Tail(calls)
      /\ xbody' = IF InThread THEN xbody ELSE table
      /\ tbody' = IF InThread THEN table ELSE tbody
      /\ module' = IF run.mode = "rmodinit" THEN module
                   ELSE [module EXCEPT !.calls = @ \cup {[fun |-> f, name |-> name, call |-> c,
                                                          mode |-> run.mode, caller |-> run.fun]}]
  BY DEF VisitCall
<1> HIDE DEF added, q
<1>10. /\ table \in FunTables
       /\ \/ table = methodecls
          \/ /\ f \notin DOMAIN methodecls.map /\ DOMAIN table.map = DOMAIN methodecls.map \cup {f}
             /\ \A e \in DOMAIN methodecls.map : table.map[e] = methodecls.map[e]
             /\ table.map[f] = <<q, methodecls.cnt>> /\ table.cnt = methodecls.cnt + 1
             /\ f \in Known => c.kind = "ctor"
       /\ run.mode # "rmodinit" => f \in DOMAIN table.map \cup Known
  <2> HIDE DEF c, f, table
  <2>1. CASE table = methodecls
    BY <1>1, <1>6, <1>7, <1>8, <2>1
  <2>2. CASE table # methodecls
    <3>1. table = added /\ f \notin DOMAIN methodecls.map
      BY <1>6, <1>8, <2>2
    <3>2. f \in Known => c.kind = "ctor"
      BY <1>7, <1>8, <2>2
    <3> QED BY <1>6, <3>1, <3>2
  <2> QED BY <2>1, <2>2
<1>11. /\ name \in FunNames \cup {NoName}
       /\ f \in DOMAIN table.map => name = table.map[f]
       /\ f \in Known \ DOMAIN table.map => name = allmethodecls.map[f]
  BY <1>1, <1>10, TableFacts DEF FunTables, find_entry_newn, Known
<1> HIDE DEF table, name
<1>12. Visit(c, f, table, name)
  BY <1>2, <1>3, <1>4, <1>9, <1>10, <1>11 DEF Visit, q
<1> HIDE DEF c, f
<1> QED BY <1>3, <1>4, <1>10, <1>11, <1>12

LEMMA BaseVisit ==
  ASSUME Base, VisitCall PROVE Base'
<1>1. Types /\ Control
  BY DEF Base
<1>2. PICK c \in CallSet, f \in Funs, table \in FunTables, name \in FunNames \cup {NoName} :
        Visit(c, f, table, name)
  BY VisitFacts
<1>3. calls' \in Seq(CallSet)
  BY <1>1, <1>2, HeadTailProperties DEF Visit, Types
<1>4. module' \in Hcodes /\ module'.inst = module.inst
  <2> DEFINE x == [fun |-> f, name |-> name, call |-> c, mode |-> run.mode, caller |-> run.fun]
  <2>1. x \in CallRecords
    BY <1>1 DEF CallRecords, Types
  <2>2. module' = module \/ module' = [module EXCEPT !.calls = @ \cup {x}]
    BY <1>2 DEF Visit
  <2> HIDE DEF x
  <2>3. module \in Hcodes
    BY <1>1 DEF Types
  <2>4. CASE module' = module
    BY <2>3, <2>4
  <2>5. CASE module' = [module EXCEPT !.calls = @ \cup {x}]
    <3>1. module.calls \cup {x} \in SUBSET CallRecords
      BY <2>1, <2>3 DEF Hcodes
    <3> QED BY <2>3, <2>5, <3>1 DEF Hcodes
  <2> QED BY <2>2, <2>4, <2>5
<1>5. Types'
  <2>1. /\ UNCHANGED <<design, pc, todo, cls, ix, run, mod_name_map, allmethodecls,
                       generated_functions, printed>>
        /\ xbody' \in {xbody, table} /\ tbody' \in {tbody, table}
    BY <1>2 DEF Visit
  <2>2. xbody' \in FunTables /\ tbody' \in FunTables
    BY <1>1, <2>1 DEF Types
  <2> QED BY <1>1, <1>3, <1>4, <2>1, <2>2, Static, SMTT(30) DEF Types
<1>6. Control'
  BY <1>1, <1>2, <1>4, Same DEF Visit, Control, AtModule, Known
<1> QED BY <1>5, <1>6 DEF Base

(***************************************************************************)
(* A body is finished.                                                     *)
(***************************************************************************)
Finished ==
  /\ UNCHANGED <<design, pc, todo, cls, ix, calls, mod_name_map, xbody, tbody, generated_functions,
                 printed>>
  /\ AtModule /\ run.mode \in Modes \ {"none"} /\ calls = <<>>
  /\ run' = Idle /\ run'.mode = "none" /\ run'.fun = NoFun
  /\ allmethodecls' \in FunTables /\ DOMAIN allmethodecls'.map = Collected
  /\ \A f \in Known : allmethodecls'.map[f] = allmethodecls.map[f]
  /\ Merging => \A f \in DOMAIN methodecls.map \ Known : allmethodecls'.map[f] = methodecls.map[f]
  /\ run.fun = NoFun => module' = module
  /\ run.fun # NoFun => /\ run.fun \in Known
                        /\ module' = [module EXCEPT !.funs = @ \cup
                              {[fun |-> run.fun, name |-> allmethodecls.map[run.fun]]}]

LEMMA FinishFacts ==
  ASSUME Base, FinishBody PROVE Finished
<1>1. Types /\ Control /\ methodecls \in FunTables /\ allmethodecls \in FunTables
  BY MethodeclsFacts DEF Base, Types
<1>2. run.mode \in Modes \ {"none"} /\ AtModule
  <2>1. run.mode # "none"
    BY IdleFacts DEF FinishBody
  <2>2. run.mode \in Modes
    BY <1>1 DEF Types
  <2> QED BY <1>1, <2>1, <2>2 DEF Modes, Control, AtModule
<1>3. run.fun # NoFun => run.fun \in Known
  BY <1>1 DEF Control
<1>4. /\ allmethodecls' \in FunTables /\ DOMAIN allmethodecls'.map = Collected
      /\ \A f \in Known : allmethodecls'.map[f] = allmethodecls.map[f]
      /\ Merging => \A f \in DOMAIN methodecls.map \ Known :
                      allmethodecls'.map[f] = methodecls.map[f]
  <2>1. CASE Merging
    <3>1. allmethodecls' = insertall(allmethodecls, methodecls)
      BY <2>1 DEF FinishBody, Merging
    <3> QED BY <1>1, <2>1, <3>1, InsertallFacts DEF FunTables, Known, Collected
  <2>2. CASE ~Merging
    <3>1. allmethodecls' = allmethodecls
      BY <2>2 DEF FinishBody, Merging
    <3> QED BY <1>1, <2>2, <3>1 DEF Known, Collected
  <2> QED BY <2>1, <2>2
<1>5. run'.mode = "none" /\ run'.fun = NoFun
  BY DEF FinishBody, Idle
<1> QED BY <1>2, <1>3, <1>4, <1>5 DEF FinishBody, Finished

LEMMA BaseFinish ==
  ASSUME Base, FinishBody PROVE Base'
<1>1. Types /\ Control /\ Finished
  BY FinishFacts DEF Base
<1>2. module' \in Hcodes /\ module'.inst = module.inst
  <2>1. CASE run.fun = NoFun
    BY <1>1, <2>1 DEF Finished, Types
  <2>2. CASE run.fun # NoFun
    <3> DEFINE x == [fun |-> run.fun, name |-> allmethodecls.map[run.fun]]
    <3>1. x \in FunRecords
      BY <1>1, <2>2, TableFacts DEF FunRecords, Types, FunTables, Finished, Known
    <3>2. module' = [module EXCEPT !.funs = @ \cup {x}]
      BY <1>1, <2>2 DEF Finished
    <3> HIDE DEF x
    <3> QED BY <1>1, <3>1, <3>2, HcodeFacts DEF Types, Hcodes
  <2> QED BY <2>1, <2>2
<1>3. run' \in [mode : Modes, fun : Funs \cup {NoFun}]
  BY <1>1 DEF Finished, Idle, Modes
<1>4. Types'
  <2>1. Funs' \cup {NoFun}' = Funs \cup {NoFun}
    BY <1>1, Static DEF Finished
  <2> QED BY <1>1, <1>2, <1>3, <2>1, Static DEF Finished, Types
<1>5. Control'
  BY <1>1, <1>2, Same DEF Finished, Control, AtModule, Known, Collected
<1> QED BY <1>4, <1>5 DEF Base

(***************************************************************************)
(* A function is taken off the work list.                                  *)
(***************************************************************************)
Taken(f) ==
  /\ UNCHANGED <<design, pc, todo, cls, ix, mod_name_map, tbody, allmethodecls, module, printed>>
  /\ AtModule /\ pc = "functions" /\ run.mode = "none" /\ run.fun = NoFun /\ f # NoFun
  /\ f \in Known \ generated_functions /\ f \in Funs
  /\ generated_functions' = generated_functions \cup {f}
  /\ HasBody(f) => /\ run' = [mode |-> "function", fun |-> f]
                   /\ run'.mode = "function" /\ run'.fun = f
                   /\ calls' = design.funs[f].calls
                   /\ DOMAIN xbody'.map = {} /\ xbody'.cnt = xbody.cnt
  /\ ~HasBody(f) => UNCHANGED <<run, calls, xbody>>
  /\ calls' \in Seq(CallSet) /\ xbody' \in FunTables

LEMMA TakeFacts ==
  ASSUME Base, NEW f, GenerateFunction(f) PROVE Taken(f)
<1>1. Types /\ Control
  BY DEF Base
<1>2. f \in Known \ generated_functions /\ f \in Funs
  BY <1>1, TableFacts DEF GenerateFunction, Known, Types, FunTables
<1>3. f # NoFun /\ design.funs[f].calls \in Seq(CallSet)
  BY <1>1, <1>2, DesignFacts DEF Types
<1>4. clear(xbody) \in FunTables /\ clear(xbody).cnt = xbody.cnt /\ DOMAIN clear(xbody).map = {}
  BY <1>1, ClearFacts DEF Types, FunTables
<1>5. run.mode = "none" /\ run.fun = NoFun
  BY DEF GenerateFunction, Idle
<1>6. CASE HasBody(f)
  BY <1>2, <1>3, <1>4, <1>5, <1>6 DEF GenerateFunction, Taken, AtModule
<1>7. CASE ~HasBody(f)
  BY <1>1, <1>2, <1>3, <1>5, <1>7 DEF GenerateFunction, Taken, AtModule, Types
<1> QED BY <1>6, <1>7

LEMMA BaseTake ==
  ASSUME Base, NEW f, GenerateFunction(f) PROVE Base'
<1>1. Types /\ Control /\ Taken(f)
  BY TakeFacts DEF Base
<1>2. run' \in [mode : Modes, fun : Funs \cup {NoFun}]
  BY <1>1 DEF Taken, Types, Modes
<1>3. Types'
  <2>1. Funs' \cup {NoFun}' = Funs \cup {NoFun}
    BY <1>1, Static DEF Taken
  <2> QED BY <1>1, <1>2, <2>1, Static DEF Taken, Types
<1>4. Control'
  <2>1. CASE HasBody(f)
    <3>1. HasBody(f)'
      BY <1>1, <2>1, Same DEF Taken
    <3> QED BY <1>1, <2>1, <3>1, Same DEF Taken, Control, AtModule, Known
  <2>2. CASE ~HasBody(f)
    BY <1>1, <2>2, Same DEF Taken, Control, AtModule, Known
  <2> QED BY <2>1, <2>2
<1> QED BY <1>3, <1>4 DEF Base

LEMMA BasePrint ==
  ASSUME Base, PrintModule PROVE Base'
<1>1. Types /\ Control /\ design' = design /\ AtModule
  BY DEF Base, PrintModule, AtModule
<1>2. Mod \in Mods /\ Tail(todo) \in Seq(Mods)
  BY <1>1, ModFacts DEF Control
<1>3. design.mods[Mod].subs \o Tail(todo) \in Seq(Mods)
  BY <1>1, <1>2, DesignFacts, ConcatProperties DEF Types
<1>4. todo' \in Seq(Mods) /\ printed' \in SUBSET Hcodes
  BY <1>1, <1>3 DEF PrintModule, Types
<1>5. Types'
  BY <1>1, <1>4, Static DEF PrintModule, names, Types
<1>6. Control'
  BY <1>1 DEF PrintModule, names, Control, AtModule, Known, Idle
<1> QED BY <1>5, <1>6 DEF Base

LEMMA BaseStep ==
  ASSUME Base, [Next]_vars PROVE Base'
<1>1. CASE UNCHANGED vars
  <2>1. design' = design /\ todo' = todo
    BY <1>1 DEF vars, control
  <2>2. Types'
    BY <1>1, <2>1, Static DEF Base, Types, vars, control, names
  <2>3. Control'
    BY <1>1, <2>1, Same DEF Base, Control, AtModule, Known, vars, control, names
  <2> QED BY <2>2, <2>3 DEF Base
<1>2. CASE Next
  BY <1>2, BasePostFire, BaseModule, BaseDeclare, BaseMoves, BaseStart, BaseVisit, BaseFinish,
     BaseTake, BasePrint DEF Next
<1> QED BY <1>1, <1>2

LEMMA AlwaysBase == Spec => []Base
<1>1. Init => Base
  BY InitBase
<1>2. Base /\ [Next]_vars => Base'
  BY BaseStep
<1> QED BY <1>1, <1>2, PTL DEF Spec

(***************************************************************************)
(* The control of SCmodule2hcode is always at an instance of the design,   *)
(* and the tables it keeps (newname_map_t) name functions of the design    *)
(* and nothing else.                                                       *)
(***************************************************************************)
THEOREM TranslationTypes == Spec => []TypeOK
<1>1. Base => TypeOK
  <2> SUFFICES ASSUME Base PROVE TypeOK
    OBVIOUS
  <2>1. Types
    BY DEF Base
  <2>2. ASSUME NEW t \in FunTables PROVE FunTable(t)
    <3>1. DOMAIN t.map \subseteq Funs /\ \A f \in DOMAIN t.map : t.map[f] \in FunNames
      BY TableFacts DEF FunTables
    <3>2. FunNames \subseteq Names \ {NoName}
      <4> SUFFICES ASSUME NEW n \in FunNames PROVE n \in Names /\ n # NoName
        OBVIOUS
      <4>1. n # <<>>
        BY DEF FunNames
      <4> QED BY <4>1 DEF FunNames, Names, NoName
    <3> QED BY <3>1, <3>2 DEF FunTable
  <2>3. FunTable(xbody) /\ FunTable(tbody) /\ FunTable(allmethodecls)
    BY <2>1, <2>2 DEF Types
  <2> QED BY <2>1, <2>3 DEF Types, TypeOK, Mods, CallSet, Modes
<1> QED BY <1>1, AlwaysBase, PTL

(***************************************************************************)
(* The work list: what the callees, the calls and the closed sets are does *)
(* not change.                                                             *)
(***************************************************************************)
LEMMA SameCallees ==
  ASSUME design' = design
  PROVE  /\ \A m, c : Callee(m, c)' = Callee(m, c)
         /\ \A m, i, j : ProcessCall(m, i, j)' = ProcessCall(m, i, j)
         /\ \A m, T : ClosedFor(m, T)' <=> ClosedFor(m, T)
<1>1. ASSUME NEW m, NEW c PROVE Callee(m, c)' = Callee(m, c)
  BY DEF Callee, overridden_method_map, HasBody
<1>2. ASSUME NEW m, NEW i, NEW j PROVE ProcessCall(m, i, j)' = ProcessCall(m, i, j)
  BY DEF ProcessCall
<1>3. ASSUME NEW m, NEW T PROVE ClosedFor(m, T)' <=> ClosedFor(m, T)
  <2>1. ProcessCalls(m)' = ProcessCalls(m)
    BY DEF ProcessCalls
  <2> QED BY <1>1, <2>1 DEF ClosedFor, HasBody
<1> QED BY <1>1, <1>2, <1>3

LEMMA ElementsFacts ==
  ASSUME NEW S, NEW s \in Seq(S)
  PROVE  /\ s = <<>> => Elements(s) = {}
         /\ s # <<>> => Elements(s) = {Head(s)} \cup Elements(Tail(s))
         /\ Elements(s) \subseteq S
<1>1. s = <<>> => Elements(s) = {}
  BY DEF Elements
<1>2. Elements(s) \subseteq S
  BY ElementOfSeq DEF Elements
<1>3. ASSUME s # <<>> PROVE Elements(s) = {Head(s)} \cup Elements(Tail(s))
  <2>1. /\ Len(s) \in Nat \ {0} /\ DOMAIN s = 1 .. Len(s) /\ Head(s) = s[1]
        /\ Len(Tail(s)) = Len(s) - 1 /\ DOMAIN Tail(s) = 1 .. Len(s) - 1
        /\ \A i \in 1 .. Len(s) - 1 : Tail(s)[i] = s[i + 1]
    BY <1>3
  <2>2. ASSUME NEW x \in Elements(s) PROVE x \in {Head(s)} \cup Elements(Tail(s))
    <3>1. PICK i \in 1 .. Len(s) : x = s[i]
      BY <2>1 DEF Elements
    <3>2. CASE i = 1
      BY <2>1, <3>1, <3>2
    <3>3. CASE i # 1
      <4>1. i - 1 \in 1 .. Len(s) - 1 /\ (i - 1) + 1 = i
        BY <2>1, <3>1, <3>3
      <4>2. Tail(s)[i - 1] = x
        BY <2>1, <3>1, <4>1
      <4> QED BY <2>1, <4>1, <4>2 DEF Elements
    <3> QED BY <3>2, <3>3
  <2>3. ASSUME NEW x \in {Head(s)} \cup Elements(Tail(s)) PROVE x \in Elements(s)
    <3>1. CASE x = Head(s)
      <4>1. 1 \in DOMAIN s /\ s[1] = x
        BY <2>1, <3>1
      <4> QED BY <4>1 DEF Elements
    <3>2. CASE x \in Elements(Tail(s))
      <4>1. PICK i \in 1 .. Len(s) - 1 : x = Tail(s)[i]
        BY <2>1, <3>2 DEF Elements
      <4>2. i + 1 \in DOMAIN s /\ s[i + 1] = x
        BY <2>1, <4>1
      <4> QED BY <4>2 DEF Elements
    <3> QED BY <2>3, <3>1, <3>2
  <2> QED BY <2>2, <2>3
<1> QED BY <1>1, <1>2, <1>3

LEMMA LenProcs ==
  ASSUME Types, todo # <<>>, cls \in DOMAIN Chain
  PROVE  /\ Len(ClassBodies("procs", cls)) = Len(Chain[cls].procs)
         /\ Len(Chain[cls].procs) \in Nat /\ DOMAIN Chain[cls].procs = 1 .. Len(Chain[cls].procs)
<1> DEFINE c == Chain[cls]
           f == [j \in DOMAIN c.procs |-> ProcessBody(c.procs[j])]
<1>1. IsClass(design, c)
  BY ModFacts, ChainFacts DEF Types, Chain
<1>2. Len(c.procs) \in Nat /\ DOMAIN c.procs = 1 .. Len(c.procs)
  BY <1>1 DEF IsClass, IsSequence
<1>3. f \in [1 .. Len(c.procs) -> {f[j] : j \in 1 .. Len(c.procs)}]
  BY <1>2
<1>4. Len(f) = Len(c.procs)
  BY <1>2, <1>3, SequenceOf
<1>5. ClassBodies("procs", cls) = f
  BY DEF ClassBodies
<1> QED BY <1>2, <1>4, <1>5

LEMMA ChainDomain ==
  ASSUME Types, todo # <<>>
  PROVE  Len(Chain) \in Nat /\ DOMAIN Chain = 1 .. Len(Chain)
BY ModFacts, ChainFacts DEF Types, Chain

LEMMA ProcsDomain ==
  ASSUME Types, todo # <<>>, NEW i \in DOMAIN Chain
  PROVE  Len(Chain[i].procs) \in Nat /\ DOMAIN Chain[i].procs = 1 .. Len(Chain[i].procs)
<1>1. IsClass(design, Chain[i])
  BY ModFacts, ChainFacts DEF Types, Chain
<1> QED BY <1>1 DEF IsClass, IsSequence

\* A step between bodies leaves what is collected as it is.
LEMMA WorkMoves ==
  ASSUME Base, WorkList,
         postFire \/ DeclareSubmodule \/ SubmodulesDeclared \/ NextClass \/ PartDone \/ Finish
  PROVE  WorkList'
<1>1. /\ Types /\ Control /\ design' = design /\ run' = run /\ run.mode = "none"
      /\ UNCHANGED <<xbody, tbody, allmethodecls, generated_functions>>
      /\ module'.funs = module.funs
  <2>1. CASE postFire
    BY <2>1, SMTT(30) DEF Base, postFire, names, Types, Control, Modes
  <2>2. CASE DeclareSubmodule
    BY <2>2 DEF Base, DeclareSubmodule, names, Types, Control, Modes, Hcodes
  <2>3. CASE SubmodulesDeclared
    BY <2>3 DEF Base, SubmodulesDeclared, names, Types, Control, Modes
  <2>4. CASE NextClass \/ PartDone
    BY <2>4 DEF Base, NextClass, PartDone, names, Idle
  <2>5. CASE Finish
    BY <2>5 DEF Base, Finish, names, Types, Control, Modes
  <2> QED BY <2>1, <2>2, <2>3, <2>4, <2>5
<1>2. AtModule' => AtModule /\ todo' = todo /\ todo # <<>> /\ Mod' = Mod /\ Chain' = Chain
  <2>1. AtModule' => AtModule /\ todo' = todo
    BY DEF postFire, DeclareSubmodule, SubmodulesDeclared, NextClass, PartDone, Finish, AtModule, Parts
  <2> QED BY <1>1, <2>1, Same DEF Control
<1>3. /\ Known' = Known /\ ~Merging /\ ~Merging' /\ Collected' = Collected
      /\ \A f : HasBody(f)' = HasBody(f)
  BY <1>1 DEF Known, Merging, Collected, HasBody
<1>4. Visited'
  BY <1>3 DEF Visited
<1>5. Minimal'
  BY <1>1, <1>2, <1>3, Static, SameCallees DEF WorkList, Minimal
<1>6. ProcessesDone'
  <2> SUFFICES ASSUME AtModule', NEW i \in DOMAIN Chain, NEW j \in DOMAIN Chain[i].procs,
                      Behind(i, j)', NEW c \in ProcessCall(Mod, i, j)
               PROVE  Callee(Mod, c) \in Known
    BY <1>1, <1>2, <1>3, SameCallees DEF ProcessesDone
  <2>1. /\ i \in Nat /\ j \in Nat /\ i >= 1 /\ j >= 1 /\ i <= Len(Chain) /\ Len(Chain) \in Nat
        /\ j <= Len(Chain[i].procs) /\ Len(Chain[i].procs) \in Nat
        /\ cls \in Nat /\ ix \in Nat
    BY <1>1, <1>2, ChainDomain, ProcsDomain DEF Types
  <2>2. Behind(i, j)
    <3>1. CASE postFire \/ DeclareSubmodule \/ SubmodulesDeclared \/ Finish
      BY <3>1 DEF postFire, DeclareSubmodule, SubmodulesDeclared, Finish, Behind
    <3>2. CASE NextClass
      <4>1. pc = "procs" \/ pc = "functions"
        BY <3>2 DEF NextClass, Behind
      <4>2. pc = "procs" /\ pc' = "procs" /\ cls' = cls + 1 /\ ix' = 1
            /\ cls <= Len(Chain) /\ ix > Len(ClassBodies("procs", cls))
        BY <3>2, <4>1 DEF NextClass, Parts
      <4>3. i < cls + 1
        BY <2>1, <4>2 DEF Behind
      <4>4. CASE i = cls
        <5>1. ix > Len(Chain[i].procs)
          BY <1>1, <1>2, <4>2, <4>4, LenProcs
        <5> QED BY <1>3, <2>1, <4>2, <4>4, <5>1 DEF Behind
      <4>5. CASE i # cls
        BY <2>1, <4>2, <4>3, <4>5 DEF Behind
      <4> QED BY <4>4, <4>5
    <3>3. CASE PartDone
      <4>1. pc' = "functions" /\ pc = "procs" /\ cls > Len(Chain)
        BY <2>1, <3>3 DEF PartDone, Parts, NextPart, Behind
      <4> QED BY <2>1, <4>1 DEF Behind
    <3> QED BY <3>1, <3>2, <3>3
  <2> QED BY <1>2, <2>2 DEF WorkList, ProcessesDone
<1>7. FunctionsDone'
  BY <1>1, <1>2, <1>3, SameCallees DEF WorkList, FunctionsDone
<1>8. Defined'
  BY <1>1, <1>2, <1>3 DEF WorkList, Defined
<1> QED BY <1>4, <1>5, <1>6, <1>7, <1>8 DEF WorkList

LEMMA WorkModule ==
  ASSUME Base, SCmodule2hcode PROVE WorkList'
<1>1. /\ Types /\ Control /\ run' = run /\ run.mode = "none" /\ run.fun = NoFun
      /\ pc' = "inits" /\ generated_functions' = {}
  BY DEF Base, SCmodule2hcode, Types, Control, Modes
<1>2. Known' = {} /\ ~Merging' /\ Collected' = {}
  BY <1>1, ClearFacts DEF SCmodule2hcode, Types, FunTables, Known, Merging, Collected
<1>3. module'.funs = {}
  BY DEF SCmodule2hcode, NoHcode
<1>4. Visited' /\ Minimal'
  BY <1>2 DEF Visited, Minimal
<1>5. ProcessesDone'
  BY <1>1 DEF ProcessesDone, Behind
<1>6. FunctionsDone'
  BY <1>1 DEF FunctionsDone
<1>7. Defined'
  BY <1>1, <1>3 DEF Defined
<1> QED BY <1>4, <1>5, <1>6, <1>7 DEF WorkList

LEMMA WorkStart ==
  ASSUME Base, WorkList, StartBody PROVE WorkList'
<1>1. Types /\ Control /\ Started /\ design' = design /\ todo' = todo /\ todo # <<>>
  BY StartFacts DEF Base, Started, Control
<1>2. /\ AtModule /\ AtModule' /\ ~Merging /\ Known' = Known /\ Mod' = Mod /\ Chain' = Chain
      /\ \A f : HasBody(f)' = HasBody(f)
  BY <1>1, Same DEF Started, AtModule, Merging, Known
<1>3. Collected = Known /\ Collected' = Known
  <2>1. Merging' => DOMAIN methodecls'.map = {}
    BY <1>1 DEF Started, Merging, methodecls, InThread, Parts
  <2> QED BY <1>2, <2>1 DEF Collected
<1>4. Visited'
  <2> SUFFICES ASSUME Merging' PROVE CurrentCalls' = Elements(calls')
    BY DEF Visited
  <2>1. pc = "procs" /\ run'.mode # "function"
    BY <1>1 DEF Started, Merging, Parts
  <2>2. calls' = ProcessBody(Chain[cls].procs[ix]).calls /\ cls' = cls /\ ix' - 1 = ix
    BY <1>1, <2>1 DEF Started, Types
  <2>3. CurrentCalls' = Elements(ProcessBody(Chain[cls].procs[ix]).calls)
    <3>1. run'.mode = ProcessBody(Chain[cls].procs[ix]).mode /\ run'.mode # "rtail"
      BY <1>1, <2>1 DEF Started, Merging
    <3> QED BY <1>1, <1>2, <2>1, <2>2, <3>1 DEF CurrentCalls, ProcessCall, MergedCalls, Chain
  <2> QED BY <2>2, <2>3
<1>5. Minimal'
  BY <1>1, <1>2, <1>3, Static, SameCallees DEF WorkList, Minimal
<1>6. ProcessesDone'
  <2> SUFFICES ASSUME NEW i \in DOMAIN Chain, NEW j \in DOMAIN Chain[i].procs,
                      Behind(i, j)', NEW c \in ProcessCall(Mod, i, j)
               PROVE  Callee(Mod, c) \in Known
    BY <1>1, <1>2, SameCallees DEF ProcessesDone
  <2>1. CASE Behind(i, j)
    BY <1>2, <2>1 DEF WorkList, ProcessesDone
  <2>2. CASE ~Behind(i, j)
    <3>1. i \in Nat /\ j \in Nat /\ cls \in Nat /\ ix \in Nat
      BY <1>1, ChainDomain, ProcsDomain DEF Types
    <3>2. pc = "procs" /\ i = cls /\ j = ix /\ ~Merging'
      BY <1>1, <1>2, <2>2, <3>1 DEF Behind, Started
    <3>3. run'.mode \in {"none", "rtail"} /\ run'.mode = ProcessBody(Chain[i].procs[j]).mode
      BY <1>1, <3>2, SMTT(30) DEF Started, Merging
    <3>4. MergedCalls(ProcessBody(Chain[i].procs[j])) = {}
      <4>1. IsDesign(design) /\ Mod \in Mods
        BY <1>1, ModFacts DEF Types
      <4>2. i \in DOMAIN design.mods[Mod].chain /\ j \in DOMAIN design.mods[Mod].chain[i].procs
        BY DEF Chain
      <4>3. ProcessBody(design.mods[Mod].chain[i].procs[j]).mode \in {"none", "rtail"}
        BY <3>3 DEF Chain
      <4>4. CASE ProcessBody(design.mods[Mod].chain[i].procs[j]).mode = "none"
        <5>1. ProcessBody(design.mods[Mod].chain[i].procs[j]).calls = <<>>
          BY <4>1, <4>2, <4>4, ProcessBodyFacts
        <5> QED BY <4>4, <5>1 DEF Chain, MergedCalls, Elements
      <4>5. CASE ProcessBody(design.mods[Mod].chain[i].procs[j]).mode = "rtail"
        BY <4>5 DEF Chain, MergedCalls
      <4> QED BY <4>3, <4>4, <4>5
    <3>5. ProcessCall(Mod, i, j) = {}
      BY <3>4 DEF ProcessCall, Chain
    <3> QED BY <3>5
  <2> QED BY <2>1, <2>2
<1>7. FunctionsDone'
  BY <1>1, <1>2, SameCallees DEF WorkList, FunctionsDone, Started
<1>8. Defined'
  BY <1>1, <1>2 DEF WorkList, Defined, Started
<1> QED BY <1>4, <1>5, <1>6, <1>7, <1>8 DEF WorkList

LEMMA WorkVisit ==
  ASSUME Base, WorkList, VisitCall PROVE WorkList'
<1>1. Types /\ Control /\ methodecls \in FunTables
  BY MethodeclsFacts DEF Base
<1>2. PICK c \in CallSet, f \in Funs, table \in FunTables, name \in FunNames \cup {NoName} :
        Visit(c, f, table, name)
  BY VisitFacts
<1>3. /\ design' = design /\ todo' = todo /\ todo # <<>> /\ run' = run /\ pc' = pc
      /\ cls' = cls /\ ix' = ix /\ generated_functions' = generated_functions
      /\ AtModule /\ AtModule' /\ Known' = Known /\ (Merging' <=> Merging)
      /\ f = Callee(Mod, c)
  BY <1>1, <1>2 DEF Visit, AtModule, Known, Merging, Control
<1>4. Mod' = Mod /\ Chain' = Chain /\ (\A g : HasBody(g)' = HasBody(g)) /\ module'.funs = module.funs
  <2>1. module'.funs = module.funs
    BY <1>1, <1>2 DEF Visit, Types, Hcodes
  <2> QED BY <1>3, <2>1, Same
<1>5. /\ methodecls' = table /\ DOMAIN methodecls.map \subseteq DOMAIN table.map
      /\ DOMAIN table.map \subseteq DOMAIN methodecls.map \cup {f}
  BY <1>2 DEF Visit, methodecls, InThread
<1>6. /\ Collected \subseteq Collected' /\ Collected' \subseteq Collected \cup {f}
      /\ Merging => f \in Collected'
  <2>1. Merging => f \in DOMAIN table.map \cup Known
    BY <1>2 DEF Visit, Merging
  <2> QED BY <1>3, <1>5, <2>1 DEF Collected
<1>7. CurrentCalls' = CurrentCalls
  <2>1. ASSUME NEW i, NEW j PROVE ProcessCall(Mod, i, j)' = ProcessCall(Mod, i, j)
    BY <1>3, <1>4 DEF ProcessCall
  <2> QED BY <1>3, <1>4 DEF CurrentCalls, ProcessCall
<1>8. Elements(calls) = {c} \cup Elements(calls')
  BY <1>1, <1>2, ElementsFacts DEF Visit, Types
<1>9. Visited'
  <2> SUFFICES ASSUME Merging
               PROVE  /\ Elements(calls') \subseteq CurrentCalls
                      /\ \A d \in CurrentCalls : d \in Elements(calls') \/ Callee(Mod, d) \in Collected'
    BY <1>3, <1>4, <1>7, SameCallees DEF Visited
  <2>1. /\ Elements(calls) \subseteq CurrentCalls
        /\ \A d \in CurrentCalls : d \in Elements(calls) \/ Callee(Mod, d) \in Collected
    BY DEF WorkList, Visited
  <2> QED BY <1>3, <1>6, <1>8, <2>1
<1>10. Minimal'
  <2> SUFFICES ASSUME NEW T \in SUBSET Funs, ClosedFor(Mod, T) PROVE Collected' \subseteq T
    BY <1>3, <1>4, Static, SameCallees DEF Minimal
  <2>1. Collected \subseteq T
    BY <1>3 DEF WorkList, Minimal
  <2>2. CASE ~Merging
    BY <1>3, <2>1, <2>2 DEF Collected
  <2>3. CASE Merging
    <3>1. c \in CurrentCalls
      BY <1>8, <2>3 DEF WorkList, Visited
    <3>2. CASE run.mode = "function"
      <4>1. run.fun \in T /\ HasBody(run.fun)
        BY <1>1, <2>1, <3>2 DEF Control, Collected
      <4>2. c \in Elements(design.funs[run.fun].calls)
        BY <3>1, <3>2 DEF CurrentCalls
      <4>3. f \in T
        BY <1>3, <4>1, <4>2 DEF ClosedFor
      <4> QED BY <1>6, <2>1, <4>3
    <3>3. CASE run.mode # "function"
      <4>1. c \in ProcessCall(Mod, cls, ix - 1)
        BY <3>1, <3>3 DEF CurrentCalls
      <4>2. cls \in DOMAIN Chain /\ ix - 1 \in DOMAIN Chain[cls].procs
        BY <1>1, <2>3, <3>3, SMTT(30) DEF Control, Merging
      <4>3. c \in ProcessCalls(Mod)
        BY <4>1, <4>2, SMTT(30) DEF ProcessCalls, ProcessCall, Chain
      <4>4. f \in T
        BY <1>3, <4>3 DEF ClosedFor
      <4> QED BY <1>6, <2>1, <4>4
    <3> QED BY <3>2, <3>3
  <2> QED BY <2>2, <2>3
<1>11. ProcessesDone'
  <2>1. ASSUME NEW i, NEW j PROVE Behind(i, j)' <=> Behind(i, j)
    BY <1>3 DEF Behind
  <2> QED BY <1>3, <1>4, <2>1, SameCallees DEF WorkList, ProcessesDone
<1>12. FunctionsDone'
  BY <1>3, <1>4, SameCallees DEF WorkList, FunctionsDone
<1>13. Defined'
  BY <1>3, <1>4 DEF WorkList, Defined
<1> QED BY <1>9, <1>10, <1>11, <1>12, <1>13 DEF WorkList

LEMMA WorkFinish ==
  ASSUME Base, WorkList, FinishBody PROVE WorkList'
<1>1. Types /\ Control /\ Finished
  BY FinishFacts DEF Base
<1>2. /\ design' = design /\ todo' = todo /\ todo # <<>> /\ pc' = pc /\ cls' = cls /\ ix' = ix
      /\ generated_functions' = generated_functions /\ AtModule /\ AtModule'
      /\ run'.fun = NoFun /\ ~Merging' /\ Known' = Collected /\ Collected' = Collected
      /\ Known \subseteq Collected
  BY <1>1 DEF Finished, AtModule, Known, Merging, Collected, Control
<1>3. Mod' = Mod /\ Chain' = Chain /\ \A g : HasBody(g)' = HasBody(g)
  BY <1>2, Same
<1>4. Merging => \A c \in CurrentCalls : Callee(Mod, c) \in Collected
  <2>1. Elements(calls) = {}
    BY <1>1 DEF Finished, Elements
  <2> QED BY <2>1 DEF WorkList, Visited
<1>5. Visited'
  BY <1>2 DEF Visited
<1>6. Minimal'
  BY <1>2, <1>3, Static, SameCallees DEF WorkList, Minimal
<1>7. ProcessesDone'
  <2> SUFFICES ASSUME NEW i \in DOMAIN Chain, NEW j \in DOMAIN Chain[i].procs,
                      Behind(i, j)', NEW c \in ProcessCall(Mod, i, j)
               PROVE  Callee(Mod, c) \in Collected
    BY <1>2, <1>3, SameCallees DEF ProcessesDone
  <2>1. CASE Behind(i, j)
    BY <1>2, <2>1 DEF WorkList, ProcessesDone
  <2>2. CASE ~Behind(i, j)
    <3>1. pc = "procs" /\ i = cls /\ Merging /\ j = ix - 1
      BY <1>2, <2>2 DEF Behind
    <3>2. run.mode # "function"
      BY <1>1, <3>1 DEF Control
    <3> QED BY <1>4, <3>1, <3>2 DEF CurrentCalls
  <2> QED BY <2>1, <2>2
<1>8. generated_functions \subseteq Funs /\ NoFun \notin Funs
  BY <1>1, DesignFacts DEF Types
<1>9. FunctionsDone'
  <2> SUFFICES ASSUME NEW f \in generated_functions, HasBody(f),
                      NEW c \in Elements(design.funs[f].calls)
               PROVE  Callee(Mod, c) \in Collected
    BY <1>2, <1>3, SameCallees DEF FunctionsDone
  <2>1. CASE f # run.fun
    BY <1>2, <2>1 DEF WorkList, FunctionsDone
  <2>2. CASE f = run.fun
    <3>1. run.mode = "function"
      BY <1>1, <1>8, <2>2 DEF Control
    <3> QED BY <1>4, <2>2, <3>1 DEF CurrentCalls, Merging
  <2> QED BY <2>1, <2>2
<1>10. Defined'
  <2>1. CASE run.fun = NoFun
    <3>1. module' = module
      BY <1>1, <2>1 DEF Finished
    <3> QED BY <1>2, <1>3, <2>1, <3>1 DEF WorkList, Defined
  <2>2. CASE run.fun # NoFun
    <3> DEFINE x == [fun |-> run.fun, name |-> allmethodecls.map[run.fun]]
    <3>1. module' = [module EXCEPT !.funs = @ \cup {x}]
      BY <1>1, <2>2 DEF Finished
    <3>2. x.fun = run.fun
      OBVIOUS
    <3> HIDE DEF x
    <3>3. module'.funs = module.funs \cup {x}
      BY <1>1, <3>1 DEF Types, Hcodes
    <3>4. {h.fun : h \in module'.funs} = {h.fun : h \in module.funs} \cup {run.fun}
      BY <3>2, <3>3
    <3>5. run.fun \in generated_functions /\ HasBody(run.fun)
      BY <1>1, <2>2 DEF Control
    <3>6. {h.fun : h \in module.funs} = {f \in generated_functions \ {run.fun} : HasBody(f)}
      BY <1>2 DEF WorkList, Defined
    <3>7. NoFun \notin generated_functions
      BY <1>8
    <3>8. {h.fun : h \in module'.funs} = {f \in generated_functions \ {NoFun} : HasBody(f)}
      BY <3>4, <3>5, <3>6, <3>7
    <3> QED BY <1>2, <1>3, <3>8 DEF Defined
  <2> QED BY <2>1, <2>2
<1> QED BY <1>5, <1>6, <1>7, <1>9, <1>10 DEF WorkList

LEMMA WorkTake ==
  ASSUME Base, WorkList, NEW f, GenerateFunction(f) PROVE WorkList'
<1>1. Types /\ Control /\ Taken(f)
  BY TakeFacts DEF Base
<1>2. /\ design' = design /\ todo' = todo /\ todo # <<>> /\ pc' = pc /\ pc = "functions"
      /\ module' = module /\ AtModule /\ AtModule' /\ ~Merging /\ Known' = Known
      /\ generated_functions' = generated_functions \cup {f} /\ f \notin generated_functions
      /\ run.fun = NoFun
  BY <1>1 DEF Taken, AtModule, Known, Merging, Control
<1>3. Mod' = Mod /\ Chain' = Chain /\ \A g : HasBody(g)' = HasBody(g)
  BY <1>2, Same
<1>4. CASE ~HasBody(f)
  <2>1. run' = run /\ ~Merging' /\ Collected' = Collected
    BY <1>1, <1>2, <1>4 DEF Taken, Merging, Collected
  <2>2. Visited'
    BY <2>1 DEF Visited
  <2>3. Minimal'
    BY <1>2, <1>3, <2>1, Static, SameCallees DEF WorkList, Minimal
  <2>4. ProcessesDone'
    BY <1>2, <1>3, SameCallees DEF WorkList, ProcessesDone, Behind
  <2>5. FunctionsDone'
    BY <1>2, <1>3, <1>4, <2>1, SameCallees DEF WorkList, FunctionsDone
  <2>6. Defined'
    BY <1>2, <1>3, <1>4, <2>1 DEF WorkList, Defined
  <2> QED BY <2>2, <2>3, <2>4, <2>5, <2>6 DEF WorkList
<1>5. CASE HasBody(f)
  <2>1. /\ run'.mode = "function" /\ run'.fun = f /\ calls' = design.funs[f].calls
        /\ DOMAIN xbody'.map = {}
    BY <1>1, <1>5 DEF Taken
  <2>2. Collected' = Known /\ Collected = Known
    BY <1>2, <2>1 DEF Collected, methodecls, InThread
  <2>3. Visited'
    BY <1>2, <2>1 DEF Visited, CurrentCalls
  <2>4. Minimal'
    BY <1>2, <1>3, <2>2, Static, SameCallees DEF WorkList, Minimal
  <2>5. ProcessesDone'
    BY <1>2, <1>3, SameCallees DEF WorkList, ProcessesDone, Behind
  <2>6. NoFun \notin generated_functions
    BY <1>1, DesignFacts DEF Types
  <2>7. FunctionsDone'
    BY <1>2, <1>3, <2>1, <2>6, SameCallees DEF WorkList, FunctionsDone
  <2>8. Defined'
    BY <1>2, <1>3, <2>1, <2>6 DEF WorkList, Defined
  <2> QED BY <2>3, <2>4, <2>5, <2>7, <2>8 DEF WorkList
<1> QED BY <1>4, <1>5

LEMMA WorkPrint ==
  ASSUME PrintModule PROVE WorkList'
<1>1. ~AtModule' /\ ~Merging'
  BY DEF PrintModule, AtModule, Merging, Idle
<1> QED BY <1>1 DEF WorkList, Visited, Minimal, ProcessesDone, FunctionsDone, Defined

LEMMA WorkStep ==
  ASSUME Base, WorkList, [Next]_vars PROVE WorkList'
<1>1. CASE UNCHANGED vars
  <2>1. /\ design' = design /\ todo' = todo
        /\ UNCHANGED <<pc, cls, ix, run, calls, xbody, tbody, allmethodecls, generated_functions, module>>
    BY <1>1 DEF vars, control, names
  <2>2. /\ Mod' = Mod /\ Chain' = Chain /\ (\A g : HasBody(g)' = HasBody(g)) /\ Known' = Known
        /\ (Merging' <=> Merging) /\ Collected' = Collected /\ (AtModule' <=> AtModule)
    BY <2>1, Same DEF Known, Merging, Collected, methodecls, InThread, AtModule
  <2>3. CurrentCalls' = CurrentCalls /\ \A i, j : Behind(i, j)' <=> Behind(i, j)
    BY <2>1, <2>2 DEF CurrentCalls, ProcessCall, Behind
  <2> QED BY <2>1, <2>2, <2>3, Static, SameCallees
          DEF WorkList, Visited, Minimal, ProcessesDone, FunctionsDone, Defined
<1>2. CASE Next
  BY <1>2, WorkMoves, WorkModule, WorkStart, WorkVisit, WorkFinish, WorkTake, WorkPrint DEF Next
<1> QED BY <1>1, <1>2

LEMMA InitWorkList == Init => WorkList
<1> SUFFICES ASSUME Init PROVE WorkList
  OBVIOUS
<1>1. ~AtModule /\ ~Merging
  BY DEF Init, AtModule, Merging, Idle
<1> QED BY <1>1 DEF WorkList, Visited, Minimal, ProcessesDone, FunctionsDone, Defined

(***************************************************************************)
(* When the sizes of the two sets agree every function known is generated. *)
(***************************************************************************)
LEMMA AllGenerated ==
  ASSUME Base, PrintModule PROVE generated_functions = Known
<1>1. generated_functions \subseteq Known /\ Known \subseteq Funs
  BY TableFacts DEF Base, Control, Types, FunTables, Known
<1>2. IsFiniteSet(Known)
  BY <1>1, FS_Subset DEF Base, Types, IsDesign, Funs
<1>3. /\ Cardinality(Known) \in Nat /\ Cardinality(generated_functions) \in Nat
      /\ Cardinality(generated_functions) <= Cardinality(Known)
      /\ Cardinality(generated_functions) = Cardinality(Known) => generated_functions = Known
  BY <1>1, <1>2, FS_Subset, FS_CardinalityType
<1> QED BY <1>3 DEF PrintModule, Known

LEMMA AtPrint ==
  ASSUME Base, PrintModule
  PROVE  /\ design' = design /\ AtModule /\ pc = "functions" /\ todo # <<>> /\ Mod \in Mods
         /\ module.inst = Mod /\ printed' = printed \cup {module}
         /\ run.mode = "none" /\ run.fun = NoFun /\ ~Merging /\ Collected = Known
         /\ todo' = design.mods[Mod].subs \o Tail(todo)
BY ModFacts DEF Base, Control, PrintModule, AtModule, Idle, Merging, Collected

Needed(m, S) == ClosedFor(m, S) /\ \A T \in SUBSET S : ClosedFor(m, T) => T = S

LEMMA KnownNeeded ==
  ASSUME Base, WorkList, PrintModule
  PROVE  /\ Known \in SUBSET Funs /\ Needed(Mod, Known)
         /\ {h.fun : h \in module.funs} = {f \in Known : HasBody(f)}
<1>1. /\ AtModule /\ pc = "functions" /\ run.fun = NoFun /\ Collected = Known
      /\ generated_functions = Known
  BY AtPrint, AllGenerated
<1>2. Known \subseteq Funs /\ NoFun \notin Funs
  BY TableFacts, DesignFacts DEF Base, Types, FunTables, Known
<1>3. ASSUME NEW c \in ProcessCalls(Mod) PROVE Callee(Mod, c) \in Known
  <2>1. PICK i \in DOMAIN Chain : \E j \in DOMAIN Chain[i].procs : c \in ProcessCall(Mod, i, j)
    BY DEF ProcessCalls, ProcessCall, Chain
  <2>2. PICK j \in DOMAIN Chain[i].procs : c \in ProcessCall(Mod, i, j)
    BY <2>1
  <2>3. Behind(i, j)
    BY <1>1 DEF Behind
  <2> QED BY <1>1, <2>2, <2>3 DEF WorkList, ProcessesDone
<1>4. ClosedFor(Mod, Known)
  BY <1>1, <1>2, <1>3 DEF ClosedFor, WorkList, FunctionsDone
<1>5. ASSUME NEW T \in SUBSET Known, ClosedFor(Mod, T) PROVE T = Known
  BY <1>1, <1>2, <1>5 DEF WorkList, Minimal
<1>6. {h.fun : h \in module.funs} = {f \in Known : HasBody(f)}
  BY <1>1, <1>2, SMTT(30) DEF WorkList, Defined
<1> QED BY <1>2, <1>4, <1>5, <1>6 DEF Needed

LEMMA PrintedOrKept ==
  ASSUME Base, [Next]_vars
  PROVE  design' = design /\ (printed' = printed \/ PrintModule)
BY DEF Next, vars, postFire, SCmodule2hcode, DeclareSubmodule, SubmodulesDeclared, StartBody,
       NextClass, PartDone, VisitCall, FinishBody, GenerateFunction, Finish, PrintModule

Complete(p) ==
  \E S \in SUBSET Funs : Needed(p.inst, S) /\ {h.fun : h \in p.funs} = {f \in S : HasBody(f)}

LEMMA CompleteStep ==
  ASSUME Base, WorkList, \A p \in printed : Complete(p), [Next]_vars
  PROVE  (\A p \in printed : Complete(p))'
<1>1. design' = design /\ (printed' = printed \/ PrintModule)
  BY PrintedOrKept
<1>2. ASSUME NEW p, Complete(p) PROVE Complete(p)'
  <2>1. PICK S \in SUBSET Funs : /\ Needed(p.inst, S)
                                 /\ {h.fun : h \in p.funs} = {f \in S : HasBody(f)}
    BY <1>2 DEF Complete
  <2>2. Needed(p.inst, S)' /\ Funs' = Funs
    BY <1>1, <2>1, Static, SameCallees DEF Needed
  <2>3. {f \in S : HasBody(f)}' = {f \in S : HasBody(f)}
    BY <1>1 DEF HasBody
  <2> QED BY <2>1, <2>2, <2>3 DEF Complete
<1>3. CASE printed' = printed
  BY <1>2, <1>3
<1>4. CASE PrintModule
  <2>1. Complete(module)
    BY <1>4, AtPrint, KnownNeeded DEF Complete
  <2>2. printed' = printed \cup {module}
    BY <1>4, AtPrint
  <2> QED BY <1>2, <2>1, <2>2
<1> QED BY <1>1, <1>3, <1>4

(***************************************************************************)
(* SCmodule2hcode prints with a module the functions it needs and no       *)
(* other: its work list, which grows while it is worked off, ends with the *)
(* least set closed under calls, whatever the order it is taken in.        *)
(***************************************************************************)
THEOREM ModulesComplete == Spec => []FunctionsComplete
<1> DEFINE I == Base /\ WorkList /\ \A p \in printed : Complete(p)
<1>1. Init => I
  BY InitBase, InitWorkList DEF Init
<1>2. I /\ [Next]_vars => I'
  BY BaseStep, WorkStep, CompleteStep
<1>3. I => FunctionsComplete
  BY DEF FunctionsComplete, Complete, Needed
<1> HIDE DEF I
<1> QED BY <1>1, <1>2, <1>3, PTL DEF Spec

(***************************************************************************)
(* The names of the calls.                                                 *)
(***************************************************************************)
\* A step that leaves the tables and what is recorded alone.
LEMMA NamingMoves ==
  ASSUME Base, Naming, ~Merging', design' = design, allmethodecls' = allmethodecls,
         AtModule' => AtModule /\ ~Merging /\ module'.calls = module.calls
                      /\ module'.funs = module.funs
  PROVE  Naming'
<1>1. Known' = Known
  BY DEF Known
<1>2. ASSUME NEW c, NamedInModule(c) PROVE NamedInModule(c)'
  BY <1>1, <1>2 DEF NamedInModule
<1>3. CallsNamed'
  BY <1>2 DEF Naming, CallsNamed, NamedInBody
<1>4. FunsNamed'
  BY <1>1 DEF Naming, FunsNamed
<1> QED BY <1>3, <1>4 DEF Naming, EnteredOnce

LEMMA NamingModule ==
  ASSUME Base, SCmodule2hcode PROVE Naming'
<1>1. ~Merging' /\ module'.calls = {} /\ module'.funs = {}
  BY DEF SCmodule2hcode, Base, Control, Merging, NoHcode
<1> QED BY <1>1 DEF Naming, CallsNamed, FunsNamed, EnteredOnce

\* A body starts with an empty table.
LEMMA NamingFresh ==
  ASSUME Base, Naming, ~Merging, DOMAIN methodecls'.map = {} \/ ~Merging', design' = design,
         allmethodecls' = allmethodecls, module' = module, AtModule
  PROVE  Naming'
<1>1. Known' = Known
  BY DEF Known
<1>2. ASSUME NEW c, NamedInModule(c) PROVE NamedInModule(c)'
  BY <1>1, <1>2 DEF NamedInModule
<1>3. CallsNamed'
  BY <1>2 DEF Naming, CallsNamed, NamedInBody
<1>4. FunsNamed'
  BY <1>1 DEF Naming, FunsNamed
<1> QED BY <1>3, <1>4 DEF Naming, EnteredOnce

LEMMA NamingVisit ==
  ASSUME Base, Naming, VisitCall PROVE Naming'
<1>1. Types /\ Control
  BY DEF Base
<1>2. PICK c \in CallSet, f \in Funs, table \in FunTables, name \in FunNames \cup {NoName} :
        Visit(c, f, table, name)
  BY VisitFacts
<1>3. /\ design' = design /\ run' = run /\ AtModule /\ Known' = Known /\ (Merging' <=> Merging)
      /\ allmethodecls' = allmethodecls
  BY <1>2 DEF Visit, Known, Merging
<1>4. /\ methodecls' = table /\ DOMAIN methodecls.map \subseteq DOMAIN table.map
      /\ \A e \in DOMAIN methodecls.map : table.map[e] = methodecls.map[e]
  BY <1>2 DEF Visit, methodecls, InThread
<1> DEFINE x == [fun |-> f, name |-> name, call |-> c, mode |-> run.mode, caller |-> run.fun]
<1>5. /\ module'.funs = module.funs
      /\ run.mode = "rmodinit" => module'.calls = module.calls
      /\ run.mode # "rmodinit" => module'.calls = module.calls \cup {x}
  BY <1>1, <1>2 DEF Visit, Types, Hcodes
<1>6. ASSUME NEW d, NamedInModule(d) \/ NamedInBody(d) PROVE (NamedInModule(d) \/ NamedInBody(d))'
  <2>1. CASE NamedInModule(d)
    BY <1>3, <2>1 DEF NamedInModule
  <2>2. CASE NamedInBody(d)
    <3>1. /\ Merging' /\ d.fun \in DOMAIN methodecls'.map \ Known' /\ d.name = methodecls'.map[d.fun]
      BY <1>3, <1>4, <2>2 DEF NamedInBody
    <3> QED BY <3>1 DEF NamedInBody
  <2> QED BY <1>6, <2>1, <2>2
<1>7. ASSUME Merging PROVE c.kind = "ctor" \/ ~(f \in DOMAIN table.map /\ f \in Known)
  <2>1. design.funs[f].ctor <=> c.kind = "ctor"
    BY <1>2 DEF Visit
  <2>2. CASE f \in DOMAIN methodecls.map
    BY <1>7, <2>1, <2>2 DEF Naming, EnteredOnce
  <2>3. CASE f \notin DOMAIN methodecls.map
    BY <1>2, <2>3 DEF Visit
  <2> QED BY <2>2, <2>3
<1>8. ASSUME NEW y, y.fun = f, y.name = name, run.mode \notin {"rnomode", "rmodinit", "rtail"},
             c.kind # "ctor"
      PROVE  (NamedInModule(y) \/ NamedInBody(y))'
  <2>1. Merging
    <3>1. run.mode \in Modes /\ run.mode # "none"
      BY <1>1, <1>2 DEF Types, Visit
    <3> QED BY <1>8, <3>1 DEF Modes, Merging
  <2>2. f \in DOMAIN table.map \cup Known
    BY <1>2, <1>8 DEF Visit
  <2>4. CASE f \in DOMAIN table.map
    <3>1. f \notin Known /\ name = table.map[f]
      BY <1>2, <1>7, <1>8, <2>1, <2>4 DEF Visit
    <3> QED BY <1>3, <1>4, <1>8, <2>1, <2>4, <3>1 DEF NamedInBody
  <2>5. CASE f \notin DOMAIN table.map
    <3>1. f \in Known /\ name = allmethodecls.map[f]
      BY <1>2, <2>2, <2>5 DEF Visit
    <3> QED BY <1>3, <1>8, <3>1 DEF NamedInModule
  <2> QED BY <2>4, <2>5
<1>9. CallsNamed'
  <2> SUFFICES ASSUME NEW d \in module'.calls, d.mode \notin {"rnomode", "rtail"}, d.call.kind # "ctor"
               PROVE  (NamedInModule(d) \/ NamedInBody(d))'
    BY DEF CallsNamed
  <2>1. CASE d \in module.calls
    BY <1>3, <1>6, <2>1 DEF Naming, CallsNamed
  <2>2. CASE d \notin module.calls
    <3>1. d = x /\ run.mode # "rmodinit"
      BY <1>5, <2>2
    <3>2. d.mode = run.mode /\ d.call = c /\ d.fun = f /\ d.name = name
      BY <3>1
    <3> QED BY <1>8, <3>1, <3>2
  <2> QED BY <2>1, <2>2
<1>10. FunsNamed'
  BY <1>3, <1>5 DEF Naming, FunsNamed
<1>11. EnteredOnce'
  <2> SUFFICES ASSUME Merging, NEW g \in DOMAIN table.map \cap Known PROVE design.funs[g].ctor
    BY <1>3, <1>4 DEF EnteredOnce
  <2>1. CASE g \in DOMAIN methodecls.map
    BY <2>1 DEF Naming, EnteredOnce
  <2>2. CASE g \notin DOMAIN methodecls.map
    <3>1. g = f /\ c.kind = "ctor"
      BY <1>2, <1>7, <2>2 DEF Visit
    <3> QED BY <1>2, <3>1 DEF Visit
  <2> QED BY <2>1, <2>2
<1> QED BY <1>9, <1>10, <1>11 DEF Naming

LEMMA NamingFinish ==
  ASSUME Base, Naming, FinishBody PROVE Naming'
<1>1. Types /\ Control /\ Finished
  BY FinishFacts DEF Base
<1>2. ~Merging' /\ Known' = Collected /\ AtModule
  BY <1>1 DEF Finished, Known, Merging
<1>3. ASSUME NEW c, NamedInModule(c) \/ NamedInBody(c) PROVE NamedInModule(c)'
  <2>1. CASE NamedInModule(c)
    BY <1>1, <1>2, <2>1 DEF NamedInModule, Finished, Collected
  <2>2. CASE NamedInBody(c)
    BY <1>1, <1>2, <2>2 DEF NamedInModule, NamedInBody, Finished, Collected
  <2> QED BY <1>3, <2>1, <2>2
<1>4. module'.calls = module.calls
  BY <1>1 DEF Finished, Types, Hcodes
<1>5. CallsNamed'
  BY <1>2, <1>3, <1>4 DEF Naming, CallsNamed
<1>6. FunsNamed'
  <2> SUFFICES ASSUME NEW h \in module'.funs
               PROVE  h.fun \in Known /\ h.name = allmethodecls.map[h.fun]
    BY <1>1, <1>2 DEF FunsNamed, Finished, Collected
  <2>1. CASE h \in module.funs
    BY <1>2, <2>1 DEF Naming, FunsNamed
  <2>2. CASE h \notin module.funs
    BY <1>1, <2>2 DEF Finished, Types, Hcodes
  <2> QED BY <2>1, <2>2
<1> QED BY <1>2, <1>5, <1>6 DEF Naming, EnteredOnce

LEMMA NamingStep ==
  ASSUME Base, Naming, [Next]_vars PROVE Naming'
<1>1. Types /\ Control
  BY DEF Base
<1>2. ASSUME postFire \/ Finish \/ PrintModule PROVE Naming'
  <2>1. ~AtModule' /\ ~Merging'
    <3>1. CASE PrintModule
      BY <3>1 DEF PrintModule, AtModule, Merging, Idle
    <3>2. CASE postFire \/ Finish
      <4>1. run' = run /\ pc' \in {"module", "done"} /\ pc \in {"start", "module"}
        BY <3>2 DEF postFire, Finish
      <4> QED BY <1>1, <4>1 DEF AtModule, Merging, Control
    <3> QED BY <1>2, <3>1, <3>2
  <2> QED BY <2>1 DEF Naming, CallsNamed, FunsNamed, EnteredOnce
<1>3. ASSUME DeclareSubmodule \/ SubmodulesDeclared \/ NextClass \/ PartDone PROVE Naming'
  <2>1. /\ ~Merging /\ run' = run /\ AtModule /\ design' = design
        /\ allmethodecls' = allmethodecls
    BY <1>1, <1>3 DEF DeclareSubmodule, SubmodulesDeclared, NextClass, PartDone, Merging, Idle,
                      Control, AtModule, Parts, names
  <2>2. module'.calls = module.calls /\ module'.funs = module.funs
    BY <1>1, <1>3 DEF DeclareSubmodule, SubmodulesDeclared, NextClass, PartDone, Types, Hcodes
  <2>3. ~Merging'
    BY <2>1 DEF Merging
  <2> QED BY <2>1, <2>2, <2>3, NamingMoves
<1>4. ASSUME StartBody PROVE Naming'
  <2>1. Started
    BY <1>4, StartFacts
  <2>2. /\ ~Merging /\ design' = design /\ allmethodecls' = allmethodecls /\ module' = module
        /\ AtModule
    BY <2>1 DEF Started, Merging
  <2>3. DOMAIN methodecls'.map = {} \/ ~Merging'
    BY <2>1 DEF Started, Merging, methodecls, InThread, Parts
  <2> QED BY <2>2, <2>3, NamingFresh
<1>5. ASSUME NEW f, GenerateFunction(f) PROVE Naming'
  <2>1. Taken(f)
    BY <1>5, TakeFacts
  <2>2. /\ ~Merging /\ design' = design /\ allmethodecls' = allmethodecls /\ module' = module
        /\ AtModule
    BY <2>1 DEF Taken, Merging
  <2>3. DOMAIN methodecls'.map = {} \/ ~Merging'
    BY <2>1 DEF Taken, Merging, methodecls, InThread
  <2> QED BY <2>2, <2>3, NamingFresh
<1>6. ASSUME UNCHANGED vars PROVE Naming'
  <2>1. /\ UNCHANGED <<design, pc, run, xbody, tbody, allmethodecls, module>>
    BY <1>6 DEF vars, control, names
  <2>2. Known' = Known /\ (Merging' <=> Merging) /\ methodecls' = methodecls /\ (AtModule' <=> AtModule)
    BY <2>1 DEF Known, Merging, methodecls, InThread, AtModule
  <2>3. ASSUME NEW c, NamedInModule(c) \/ NamedInBody(c) PROVE (NamedInModule(c) \/ NamedInBody(c))'
    BY <2>1, <2>2, <2>3 DEF NamedInModule, NamedInBody
  <2> QED BY <2>1, <2>2, <2>3 DEF Naming, CallsNamed, FunsNamed, EnteredOnce
<1> QED BY <1>2, <1>3, <1>4, <1>5, <1>6, NamingModule, NamingVisit, NamingFinish DEF Next

LEMMA InitNaming == Init => Naming
<1> SUFFICES ASSUME Init PROVE Naming
  OBVIOUS
<1>1. ~AtModule /\ ~Merging
  BY DEF Init, AtModule, Merging, Idle
<1> QED BY <1>1 DEF Naming, CallsNamed, FunsNamed, EnteredOnce

LEMMA ResolveStep ==
  ASSUME Base, WorkList, Naming, CallsResolve, [Next]_vars PROVE CallsResolve'
<1>1. design' = design /\ (printed' = printed \/ PrintModule)
  BY PrintedOrKept
<1>2. \A g : HasBody(g)' = HasBody(g)
  BY <1>1 DEF HasBody
<1>3. ASSUME PrintModule, NEW c \in module.calls, c.mode \notin {"rnomode", "rtail"}, c.call.kind # "ctor",
             HasBody(c.fun)
      PROVE  Defines(module, c.fun, c.name)
  <2>1. AtModule /\ ~Merging
    BY <1>3, AtPrint
  <2>2. c.fun \in Known /\ c.name = allmethodecls.map[c.fun]
    BY <1>3, <2>1 DEF Naming, CallsNamed, NamedInModule, NamedInBody
  <2>3. {h.fun : h \in module.funs} = {f \in Known : HasBody(f)}
    BY <1>3, KnownNeeded
  <2>4. PICK h \in module.funs : h.fun = c.fun
    BY <1>3, <2>2, <2>3
  <2>5. h.name = c.name
    BY <2>1, <2>2, <2>4 DEF Naming, FunsNamed
  <2>6. h = [fun |-> h.fun, name |-> h.name]
    BY <2>4 DEF Base, Types, Hcodes, FunRecords
  <2> QED BY <2>4, <2>5, <2>6 DEF Defines
<1>4. printed' = printed \/ (PrintModule /\ printed' = printed \cup {module})
  BY <1>1, AtPrint
<1> QED BY <1>2, <1>3, <1>4 DEF CallsResolve, Defines

(***************************************************************************)
(* A call printed in a process or a function has the name under which the  *)
(* function it was translated to is defined in the same module: the table  *)
(* of a body, filled while the body is translated, and the table of the    *)
(* module agree on it (FindFname, insertall).                              *)
(***************************************************************************)
THEOREM PrintedCallsResolve == Spec => []CallsResolve
<1> DEFINE I == Base /\ WorkList /\ Naming /\ CallsResolve
<1>1. Init => I
  BY InitBase, InitWorkList, InitNaming DEF Init, CallsResolve
<1>2. I /\ [Next]_vars => I'
  BY BaseStep, WorkStep, NamingStep, ResolveStep
<1>3. I => CallsResolve
  OBVIOUS
<1> HIDE DEF I
<1> QED BY <1>1, <1>2, <1>3, PTL DEF Spec

(***************************************************************************)
(* The names of functions that share a qualified name.                     *)
(***************************************************************************)
LEMMA SameOverloads ==
  ASSUME design' = design
  PROVE  /\ \A f : Alone(f)' <=> Alone(f)
         /\ \A m : OverloadsOutsideThreads(m)' <=> OverloadsOutsideThreads(m)
<1>1. Funs' = Funs
  BY Static
<1>2. \A f : Alone(f)' <=> Alone(f)
  BY <1>1 DEF Alone
<1>3. ASSUME NEW m PROVE OverloadsOutsideThreads(m)' <=> OverloadsOutsideThreads(m)
  BY <1>1, SameCallees DEF OverloadsOutsideThreads
<1> QED BY <1>2, <1>3

LEMMA EmptyTable ==
  ASSUME NEW t, DOMAIN t.map = {} PROVE Numbered(t) /\ InjectiveMap(t)
BY DEF Numbered, InjectiveMap

\* The tables of the bodies are kept or emptied.
LEMMA TablesKept ==
  ASSUME TablesNumbered, design' = design,
         xbody' = xbody \/ DOMAIN xbody'.map = {}, tbody' = tbody \/ DOMAIN tbody'.map = {}
  PROVE  TablesNumbered'
<1>1. Numbered(xbody)' /\ InjectiveMap(xbody)'
  BY DEF TablesNumbered, Numbered, InjectiveMap
<1>2. Numbered(tbody)'
  BY DEF TablesNumbered, Numbered
<1> QED BY <1>1, <1>2 DEF TablesNumbered

LEMMA NumbersKept ==
  ASSUME Numbers, design' = design, todo' = todo, AtModule,
         allmethodecls' = allmethodecls, xbody'.cnt = xbody.cnt,
         run'.mode \in {"rmethod", "function"} => DOMAIN xbody'.map = {},
         run'.mode = "rthread" => DOMAIN tbody'.map = {}
  PROVE  Numbers'
<1> SUFFICES ASSUME OverloadsOutsideThreads(Mod)' PROVE (ModuleNumbered /\ Apart /\ ThreadAlone)'
  BY DEF Numbers
<1>1. ModuleNumbered
  BY Same, SameOverloads DEF Numbers
<1>2. ModuleNumbered'
  BY <1>1, SameOverloads DEF ModuleNumbered, InjectiveMap, Known
<1>3. Apart' /\ ThreadAlone'
  BY DEF Apart, ThreadAlone
<1> QED BY <1>2, <1>3

LEMMA NumberingVisit ==
  ASSUME Base, WorkList, Numbering, VisitCall PROVE Numbering'
<1>1. Types /\ Control /\ TablesNumbered /\ Numbers
  BY DEF Base, Numbering
<1>2. PICK c \in CallSet, f \in Funs, table \in FunTables, name \in FunNames \cup {NoName} :
        Visit(c, f, table, name)
  BY VisitFacts
<1>3. /\ design' = design /\ todo' = todo /\ run' = run /\ AtModule /\ Known' = Known
      /\ allmethodecls' = allmethodecls /\ f = Callee(Mod, c) /\ run.mode # "none"
  BY <1>2 DEF Visit, Known
<1>4. /\ InThread => xbody' = xbody /\ tbody' = table
      /\ ~InThread => xbody' = table /\ tbody' = tbody
  BY <1>2 DEF Visit
<1> DEFINE q == design.funs[f].qual
<1>5. \/ table = methodecls
      \/ /\ f \notin DOMAIN methodecls.map /\ DOMAIN table.map = DOMAIN methodecls.map \cup {f}
         /\ \A e \in DOMAIN methodecls.map : table.map[e] = methodecls.map[e]
         /\ table.map[f] = <<q, methodecls.cnt>> /\ table.cnt = methodecls.cnt + 1
  BY <1>2 DEF Visit
<1>6. xbody.cnt \in Nat /\ tbody.cnt \in Nat /\ methodecls.cnt \in Nat
  BY <1>1, MethodeclsFacts, TableFacts DEF Types, FunTables
<1>7. /\ InThread => methodecls = tbody
      /\ ~InThread => methodecls = xbody
  BY DEF methodecls
<1>8. \A g \in DOMAIN xbody.map \cup DOMAIN tbody.map : g \in Funs
  BY <1>1, TableFacts DEF Types, FunTables
<1>9. ASSUME NEW g \in DOMAIN xbody.map PROVE xbody.map[g][2] \in Nat
  BY <1>1, TableFacts DEF Types, FunTables, FunNames
<1>10. ASSUME NEW g \in DOMAIN tbody.map PROVE tbody.map[g][2] \in Nat
  BY <1>1, TableFacts DEF Types, FunTables, FunNames
<1>11. ASSUME NEW g \in Known PROVE g \in Funs /\ allmethodecls.map[g][2] \in Nat
  BY <1>1, TableFacts DEF Types, FunTables, FunNames, Known
<1>12. TablesNumbered'
  <2>1. Numbered(table)
    <3>1. Numbered(methodecls)
      BY <1>1, <1>7 DEF TablesNumbered
    <3>2. ASSUME NEW g \in DOMAIN methodecls.map PROVE methodecls.map[g][2] \in Nat
      BY <1>7, <1>9, <1>10
    <3> HIDE DEF q
    <3>3. CASE table = methodecls
      BY <3>1, <3>3
    <3>4. CASE table # methodecls
      <4> SUFFICES ASSUME NEW g \in DOMAIN table.map
                   PROVE  table.map[g][1] = design.funs[g].qual /\ table.map[g][2] < table.cnt
        BY DEF Numbered
      <4>1. CASE g = f
        <5>1. table.map[g] = <<q, methodecls.cnt>> /\ table.cnt = methodecls.cnt + 1
          BY <1>5, <3>4, <4>1
        <5> QED BY <1>6, <4>1, <5>1 DEF q
      <4>2. CASE g # f
        <5>1. /\ g \in DOMAIN methodecls.map /\ table.map[g] = methodecls.map[g]
              /\ table.cnt = methodecls.cnt + 1
          BY <1>5, <3>4, <4>2
        <5>2. methodecls.map[g][1] = design.funs[g].qual /\ methodecls.map[g][2] < methodecls.cnt
          BY <3>1, <5>1 DEF Numbered
        <5> QED BY <1>6, <3>2, <5>1, <5>2
      <4> QED BY <4>1, <4>2
    <3> QED BY <3>3, <3>4
  <2>2. ~InThread => InjectiveMap(table)
    <3> SUFFICES ASSUME ~InThread, NEW g \in DOMAIN table.map, NEW h \in DOMAIN table.map,
                        table.map[g] = table.map[h]
                 PROVE  g = h
      BY DEF InjectiveMap
    <3>1. InjectiveMap(methodecls) /\ Numbered(methodecls)
      BY <1>1, <1>7 DEF TablesNumbered
    <3> HIDE DEF q
    <3>2. CASE table = methodecls
      BY <3>1, <3>2 DEF InjectiveMap
    <3>3. CASE table # methodecls
      <4>1. table.map[f][2] = methodecls.cnt
        BY <1>5, <3>3
      <4>2. ASSUME NEW e \in DOMAIN table.map \ {f} PROVE table.map[e][2] # methodecls.cnt
        <5>1. e \in DOMAIN methodecls.map /\ table.map[e] = methodecls.map[e]
          BY <1>5, <3>3
        <5>2. methodecls.map[e][2] < methodecls.cnt /\ methodecls.map[e][2] \in Nat
          BY <1>7, <1>9, <3>1, <5>1 DEF Numbered
        <5> QED BY <1>6, <5>1, <5>2
      <4>3. CASE g = f \/ h = f
        BY <4>1, <4>2, <4>3
      <4>4. CASE g # f /\ h # f
        BY <1>5, <3>1, <3>3, <4>4 DEF InjectiveMap
      <4> QED BY <4>3, <4>4
    <3> QED BY <3>2, <3>3
  <2>3. \A t : (Numbered(t)' <=> Numbered(t)) /\ (InjectiveMap(t)' <=> InjectiveMap(t))
    BY <1>3 DEF Numbered, InjectiveMap
  <2>4. CASE InThread
    BY <1>1, <1>3, <1>4, <2>1, <2>4 DEF TablesNumbered, Numbered, InjectiveMap
  <2>5. CASE ~InThread
    BY <1>1, <1>3, <1>4, <2>1, <2>2, <2>5 DEF TablesNumbered, Numbered, InjectiveMap
  <2> QED BY <2>4, <2>5
<1>13. Numbers'
  <2> SUFFICES ASSUME OverloadsOutsideThreads(Mod) PROVE (ModuleNumbered /\ Apart /\ ThreadAlone)'
    BY <1>3, Same, SameOverloads DEF Numbers
  <2>1. ModuleNumbered /\ Apart /\ ThreadAlone
    BY <1>1, <1>3 DEF Numbers
  <2>2. xbody'.cnt \in Nat /\ xbody.cnt <= xbody'.cnt
    BY <1>4, <1>5, <1>6, <1>7
  <2>3. ModuleNumbered'
    BY <1>3, <1>6, <1>11, <2>1, <2>2, SameOverloads DEF ModuleNumbered, InjectiveMap, Known
  <2>4. Apart'
    <3> SUFFICES ASSUME run.mode \in {"rmethod", "function"}, NEW g \in DOMAIN table.map,
                        NEW h \in Known, table.map[g] = allmethodecls.map[h], g # h
                 PROVE  FALSE
      BY <1>3, <1>4 DEF Apart, InThread
    <3>1. methodecls = xbody
      BY <1>7 DEF InThread
    <3>2. CASE g \in DOMAIN xbody.map
      BY <1>5, <2>1, <3>1, <3>2 DEF Apart
    <3>3. CASE g \notin DOMAIN xbody.map
      <4>1. g = f /\ table.map[f] = <<q, xbody.cnt>>
        BY <1>5, <3>1, <3>3
      <4>2. allmethodecls.map[h][1] = q /\ allmethodecls.map[h][2] = xbody.cnt
        BY <4>1
      <4>3. design.funs[h].qual = q /\ (Alone(h) \/ allmethodecls.map[h][2] < xbody.cnt)
        BY <2>1, <4>2 DEF ModuleNumbered
      <4>4. Alone(h)
        BY <1>6, <4>2, <4>3
      <4> QED BY <4>1, <4>3, <4>4 DEF Alone
    <3> QED BY <3>2, <3>3
  <2>5. ThreadAlone'
    <3> SUFFICES ASSUME run.mode = "rthread", NEW g \in DOMAIN table.map PROVE Alone(g)
      BY <1>3, <1>4, SameOverloads DEF ThreadAlone, InThread
    <3>1. CASE g \in DOMAIN tbody.map
      BY <2>1, <3>1, SMTT(30) DEF ThreadAlone
    <3>2. CASE g \notin DOMAIN tbody.map
      <4>1. g = Callee(Mod, c)
        BY <1>3, <1>5, <1>7, <3>2 DEF InThread
      <4>2. c \in CurrentCalls
        <5>1. c \in Elements(calls)
          BY <1>1, <1>2, ElementsFacts DEF Visit, Types
        <5> QED BY <5>1 DEF WorkList, Visited, Merging
      <4>3. c \in ProcessCall(Mod, cls, ix - 1)
        BY <4>2 DEF CurrentCalls
      <4>4. /\ cls \in DOMAIN Chain /\ ix - 1 \in DOMAIN Chain[cls].procs
            /\ ProcessBody(Chain[cls].procs[ix - 1]).mode = "rthread"
        BY <1>1 DEF Control
      <4>5. c \in Elements(ProcessBody(Chain[cls].procs[ix - 1]).calls)
        <5>1. Elements(ProcessBody(Chain[cls].procs[ix - 1]).calls) = ProcessCall(Mod, cls, ix - 1)
          BY <4>4 DEF ProcessCall, MergedCalls, Chain
        <5> QED BY <4>3, <5>1
      <4> QED BY <4>1, <4>4, <4>5 DEF OverloadsOutsideThreads, Chain, Alone
    <3> QED BY <3>1, <3>2
  <2> QED BY <2>3, <2>4, <2>5
<1> QED BY <1>12, <1>13 DEF Numbering

LEMMA NumberingFinish ==
  ASSUME Base, Numbering, FinishBody PROVE Numbering'
<1>1. Types /\ Control /\ Finished /\ TablesNumbered /\ Numbers
  BY FinishFacts DEF Base, Numbering
<1>2. /\ design' = design /\ todo' = todo /\ AtModule /\ run'.mode = "none" /\ xbody' = xbody
      /\ tbody' = tbody /\ Known' = Collected
  BY <1>1 DEF Finished, Known
<1>3. TablesNumbered'
  BY <1>1, <1>2, TablesKept
<1>4. Numbers'
  <2> SUFFICES ASSUME OverloadsOutsideThreads(Mod) PROVE (ModuleNumbered /\ Apart /\ ThreadAlone)'
    BY <1>2, Same, SameOverloads DEF Numbers
  <2>1. ModuleNumbered /\ Apart /\ ThreadAlone
    BY <1>1, <1>2 DEF Numbers
  <2> DEFINE nm(f) == allmethodecls'.map[f]
  <2>2. ASSUME NEW f \in Known PROVE nm(f) = allmethodecls.map[f]
    BY <1>1 DEF Finished
  <2>3. ASSUME NEW f \in Collected \ Known
        PROVE  Merging /\ f \in DOMAIN methodecls.map /\ nm(f) = methodecls.map[f]
    BY <1>1 DEF Finished, Collected
  <2>4. Collected \subseteq Funs
    BY <1>1, MethodeclsFacts, TableFacts DEF Types, FunTables, Collected, Known
  <2> HIDE DEF nm
  <2>5. ASSUME NEW f \in Collected
        PROVE  nm(f)[1] = design.funs[f].qual /\ (Alone(f) \/ nm(f)[2] < xbody.cnt)
    <3>1. CASE f \in Known
      BY <2>1, <2>2, <3>1 DEF ModuleNumbered
    <3>2. CASE f \notin Known /\ run.mode = "rthread"
      BY <1>1, <2>1, <2>3, <3>2 DEF TablesNumbered, Numbered, ThreadAlone, methodecls, InThread
    <3>3. CASE f \notin Known /\ run.mode # "rthread"
      <4>1. methodecls = xbody
        BY <2>3, <3>3 DEF Merging, methodecls, InThread
      <4> QED BY <1>1, <2>3, <3>3, <4>1 DEF TablesNumbered, Numbered
    <3> QED BY <3>1, <3>2, <3>3
  <2>6. ASSUME NEW f \in Collected, NEW g \in Collected, nm(f) = nm(g) PROVE f = g
    <3>1. CASE f \in Known /\ g \in Known
      BY <2>1, <2>2, <2>6, <3>1 DEF ModuleNumbered, InjectiveMap, Known
    <3>2. CASE run.mode = "rthread" /\ (f \notin Known \/ g \notin Known)
      <4>1. Alone(f) \/ Alone(g)
        BY <2>1, <2>3, <3>2 DEF ThreadAlone, methodecls, InThread
      <4>2. design.funs[f].qual = design.funs[g].qual
        BY <2>5, <2>6
      <4> QED BY <2>4, <4>1, <4>2 DEF Alone
    <3>3. CASE run.mode # "rthread" /\ (f \notin Known \/ g \notin Known)
      <4>1. run.mode \in {"rmethod", "function"} /\ methodecls = xbody
        BY <2>3, <3>3 DEF Merging, methodecls, InThread
      <4>2. CASE f \notin Known /\ g \notin Known
        BY <1>1, <2>3, <2>6, <4>1, <4>2 DEF TablesNumbered, InjectiveMap
      <4>3. CASE f \in Known \/ g \in Known
        BY <2>1, <2>2, <2>3, <2>6, <3>3, <4>1, <4>3 DEF Apart
      <4> QED BY <4>2, <4>3
    <3> QED BY <3>1, <3>2, <3>3
  <2>7. ModuleNumbered'
    BY <1>2, <2>5, <2>6, SameOverloads DEF ModuleNumbered, InjectiveMap, Known, nm
  <2>8. Apart' /\ ThreadAlone'
    BY <1>2 DEF Apart, ThreadAlone
  <2> QED BY <2>7, <2>8
<1> QED BY <1>3, <1>4 DEF Numbering

LEMMA NumberingStep ==
  ASSUME Base, WorkList, Numbering, [Next]_vars PROVE Numbering'
<1>1. Types /\ Control /\ TablesNumbered /\ Numbers
  BY DEF Base, Numbering
<1>2. ASSUME postFire \/ Finish \/ PrintModule PROVE Numbering'
  <2>1. ~AtModule' /\ UNCHANGED <<design, xbody, tbody>>
    BY <1>2 DEF postFire, Finish, PrintModule, AtModule, names
  <2>2. TablesNumbered' /\ Numbers'
    BY <1>1, <2>1, TablesKept DEF Numbers
  <2> QED BY <2>2 DEF Numbering
<1>3. ASSUME SCmodule2hcode PROVE Numbering'
  <2>1. /\ design' = design /\ tbody' = tbody /\ run' = run
        /\ DOMAIN xbody'.map = {} /\ DOMAIN allmethodecls'.map = {}
    BY <1>1, <1>3, NewNameMapFacts, ClearFacts DEF SCmodule2hcode, Types, FunTables
  <2>2. TablesNumbered'
    BY <1>1, <2>1, TablesKept
  <2>3. run'.mode # "rthread"
    BY <1>1, <1>3, <2>1 DEF SCmodule2hcode, Control
  <2>4. Numbers'
    BY <2>1, <2>3 DEF Numbers, ModuleNumbered, Apart, ThreadAlone, InjectiveMap, Known
  <2> QED BY <2>2, <2>4 DEF Numbering
<1>4. ASSUME DeclareSubmodule \/ SubmodulesDeclared \/ NextClass \/ PartDone PROVE Numbering'
  <2>1. /\ AtModule /\ UNCHANGED <<design, todo, run, xbody, tbody, allmethodecls>>
        /\ run.mode \notin {"rmethod", "rthread", "function"}
    BY <1>1, <1>4 DEF DeclareSubmodule, SubmodulesDeclared, NextClass, PartDone, Idle, Control,
                      AtModule, Parts, names
  <2>2. TablesNumbered' /\ Numbers'
    BY <1>1, <2>1, TablesKept, NumbersKept
  <2> QED BY <2>2 DEF Numbering
<1>5. ASSUME StartBody PROVE Numbering'
  <2>1. Started
    BY <1>5, StartFacts
  <2>2. /\ AtModule /\ UNCHANGED <<design, todo, allmethodecls>> /\ xbody'.cnt = xbody.cnt
        /\ xbody' = xbody \/ DOMAIN xbody'.map = {}
        /\ tbody' = tbody \/ DOMAIN tbody'.map = {}
        /\ run'.mode \in {"rmethod", "function"} => DOMAIN xbody'.map = {}
        /\ run'.mode = "rthread" => DOMAIN tbody'.map = {}
    BY <2>1 DEF Started, Parts
  <2>3. TablesNumbered' /\ Numbers'
    BY <1>1, <2>2, TablesKept, NumbersKept
  <2> QED BY <2>3 DEF Numbering
<1>6. ASSUME NEW f, GenerateFunction(f) PROVE Numbering'
  <2>1. Taken(f)
    BY <1>6, TakeFacts
  <2>2. /\ AtModule /\ UNCHANGED <<design, todo, allmethodecls, tbody>> /\ xbody'.cnt = xbody.cnt
        /\ xbody' = xbody \/ DOMAIN xbody'.map = {}
        /\ run'.mode \in {"rmethod", "function"} => DOMAIN xbody'.map = {}
        /\ run'.mode # "rthread"
    BY <2>1 DEF Taken
  <2>3. TablesNumbered' /\ Numbers'
    BY <1>1, <2>2, TablesKept, NumbersKept
  <2> QED BY <2>3 DEF Numbering
<1>7. ASSUME UNCHANGED vars PROVE Numbering'
  <2>1. UNCHANGED <<design, todo, pc, run, xbody, tbody, allmethodecls>>
    BY <1>7 DEF vars, control, names
  <2>2. TablesNumbered'
    BY <1>1, <2>1, TablesKept
  <2>3. /\ Mod' = Mod /\ Known' = Known /\ (AtModule' <=> AtModule)
    BY <2>1 DEF Mod, Known, AtModule
  <2>4. Numbers'
    BY <1>1, <2>1, <2>3, SameOverloads DEF Numbers, ModuleNumbered, Apart, ThreadAlone, InjectiveMap
  <2> QED BY <2>2, <2>4 DEF Numbering
<1> QED BY <1>2, <1>3, <1>4, <1>5, <1>6, <1>7, NumberingVisit, NumberingFinish DEF Next

LEMMA InitNumbering == Init => Numbering
<1> SUFFICES ASSUME Init PROVE Numbering
  OBVIOUS
<1>1. ~AtModule /\ DOMAIN xbody.map = {} /\ DOMAIN tbody.map = {}
  BY NewNameMapFacts DEF Init, AtModule
<1> QED BY <1>1, EmptyTable DEF Numbering, TablesNumbered, Numbers

LEMMA DistinctStep ==
  ASSUME Base, Naming, Numbering, FunctionNamesDistinct, [Next]_vars
  PROVE  FunctionNamesDistinct'
<1>1. design' = design /\ (printed' = printed \/ (PrintModule /\ printed' = printed \cup {module}))
  BY PrintedOrKept, AtPrint
<1>2. ASSUME PrintModule, OverloadsOutsideThreads(module.inst) PROVE DistinctFunctionNames(module)
  <2>1. AtModule /\ module.inst = Mod
    BY <1>2, AtPrint
  <2>2. InjectiveMap(allmethodecls)
    BY <1>2, <2>1 DEF Numbering, Numbers, ModuleNumbered
  <2> SUFFICES ASSUME NEW h \in module.funs, NEW k \in module.funs, h.name = k.name PROVE h = k
    BY DEF DistinctFunctionNames
  <2>3. /\ h.fun \in Known /\ h.name = allmethodecls.map[h.fun]
        /\ k.fun \in Known /\ k.name = allmethodecls.map[k.fun]
    BY <2>1 DEF Naming, FunsNamed
  <2>4. h.fun = k.fun
    BY <2>2, <2>3 DEF InjectiveMap, Known
  <2>5. h = [fun |-> h.fun, name |-> h.name] /\ k = [fun |-> k.fun, name |-> k.name]
    BY DEF Base, Types, Hcodes, FunRecords
  <2> QED BY <2>4, <2>5
<1>3. ASSUME NEW p \in printed', OverloadsOutsideThreads(p.inst) PROVE DistinctFunctionNames(p)
  BY <1>1, <1>2, <1>3 DEF FunctionNamesDistinct
<1> QED BY <1>1, <1>3, SameOverloads DEF FunctionNamesDistinct

(***************************************************************************)
(* Overloaded functions get names of their own in a printed module, when   *)
(* no thread of it calls one: newname_map_t::clear drops the entries of    *)
(* xbodyp between bodies and keeps its counter.                            *)
(***************************************************************************)
THEOREM FunctionsApart == Spec => []FunctionNamesDistinct
<1> DEFINE I == Base /\ WorkList /\ Naming /\ Numbering /\ FunctionNamesDistinct
<1>1. Init => I
  BY InitBase, InitWorkList, InitNaming, InitNumbering DEF Init, FunctionNamesDistinct
<1>2. I /\ [Next]_vars => I'
  BY BaseStep, WorkStep, NamingStep, NumberingStep, DistinctStep
<1>3. I => FunctionNamesDistinct
  OBVIOUS
<1> HIDE DEF I
<1> QED BY <1>1, <1>2, <1>3, PTL DEF Spec

(***************************************************************************)
(* Where a member call goes.                                               *)
(***************************************************************************)
LEMMA ResolvedStep ==
  ASSUME Base, Dispatching, [Next]_vars PROVE Dispatching'
<1>1. Types /\ Control /\ design' = design
  BY PrintedOrKept DEF Base
<1>2. ASSUME NEW p, Resolved(p) PROVE Resolved(p)'
  BY <1>1, <1>2, SameCallees DEF Resolved
<1>3. printed' = printed \/ (PrintModule /\ printed' = printed \cup {module} /\ AtModule)
  BY PrintedOrKept, AtPrint
<1>4. ASSUME NEW p \in printed' PROVE Resolved(p)'
  BY <1>2, <1>3, <1>4 DEF Dispatching
<1>5. ASSUME AtModule' PROVE Resolved(module')
  <2>1. CASE SCmodule2hcode
    BY <2>1 DEF SCmodule2hcode, NoHcode, Resolved
  <2>2. CASE VisitCall
    <3>1. PICK c \in CallSet, f \in Funs, table \in FunTables, name \in FunNames \cup {NoName} :
            Visit(c, f, table, name)
      BY <2>2, VisitFacts
    <3>2. AtModule /\ module.inst = Mod /\ f = Callee(Mod, c)
      BY <1>1, <3>1 DEF Visit, Control
    <3> DEFINE x == [fun |-> f, name |-> name, call |-> c, mode |-> run.mode, caller |-> run.fun]
    <3>3. module'.inst = module.inst /\ module'.calls \subseteq module.calls \cup {x}
      BY <1>1, <3>1 DEF Visit, Types, Hcodes
    <3>4. x.fun = f /\ x.call = c
      OBVIOUS
    <3> HIDE DEF x
    <3> QED BY <3>2, <3>3, <3>4 DEF Dispatching, Resolved
  <2>3. CASE ~SCmodule2hcode /\ ~VisitCall
    <3>1. AtModule
      BY <1>5, <2>3 DEF Next, vars, control, postFire, DeclareSubmodule, SubmodulesDeclared, StartBody,
             NextClass, PartDone, FinishBody, GenerateFunction, PrintModule, Finish, AtModule, Parts
    <3>2. module'.calls = module.calls /\ module'.inst = module.inst
      BY <1>1, <2>3 DEF Next, vars, postFire, DeclareSubmodule, SubmodulesDeclared, StartBody,
             NextClass, PartDone, FinishBody, GenerateFunction, PrintModule, Finish, Types, Hcodes
    <3> QED BY <3>1, <3>2 DEF Dispatching, Resolved
  <2> QED BY <2>1, <2>2, <2>3
<1>6. AtModule' => Resolved(module)'
  BY <1>1, <1>5, SameCallees DEF Resolved
<1> QED BY <1>4, <1>6 DEF Dispatching

\* In a chain of at most two classes the method of the class itself, when it has
\* one, is the final overrider, and the only candidate of overridden_method_map.
LEMMA ShortChain ==
  ASSUME IsDesign(design), NEW m \in Mods, NEW c \in CallSet, c.kind = "member", ~c.cast,
         Len(design.mods[m].chain) <= 2,
         \A i \in DOMAIN design.mods[m].chain : \A v \in DOMAIN design.mods[m].chain[i].methods :
           HasBody(design.mods[m].chain[i].methods[v])
  PROVE  FinalOverrider(m, c.fun) \subseteq {Callee(m, c)}
<1> DEFINE chain == design.mods[m].chain
           own == chain[1].methods
           over == {p \in overridden_method_map(m) : p[1] = c.fun}
<1>1. /\ chain # <<>> /\ Len(chain) \in Nat /\ DOMAIN chain = 1 .. Len(chain)
      /\ \A i, j \in DOMAIN chain : \A v \in DOMAIN chain[i].methods, w \in DOMAIN chain[j].methods :
           chain[i].methods[v] = chain[j].methods[w] => v = w
  BY DesignFacts DEF IsChain, IsSequence
<1>2. 1 \in DOMAIN chain /\ DOMAIN chain \subseteq {1, 2}
  <2>1. Len(chain) # 0
    BY <1>1, DesignFacts
  <2> QED BY <1>1, <2>1
<1>3. ASSUME NEW x \in FinalOverrider(m, c.fun)
      PROVE  \E v : \E i, k \in DOMAIN chain :
               /\ v \in DOMAIN chain[i].methods /\ chain[i].methods[v] = c.fun
               /\ v \in DOMAIN chain[k].methods /\ chain[k].methods[v] = x
               /\ \A j \in DOMAIN chain : v \in DOMAIN chain[j].methods => k <= j
  BY <1>3, SMTT(30) DEF FinalOverrider
<1>4. ASSUME NEW p \in over
      PROVE  \E w \in DOMAIN own : /\ 2 \in DOMAIN chain /\ w \in DOMAIN chain[2].methods
                                   /\ chain[2].methods[w] = c.fun /\ p[2] = own[w]
  <2>1. PICK w \in DOMAIN own : \E o \in Overridden(chain, w) : p = <<o, own[w]>>
    BY DEF overridden_method_map
  <2>2. PICK o \in Overridden(chain, w) : p = <<o, own[w]>>
    BY <2>1, SMTT(30)
  <2>3. PICK k \in 2 .. Len(chain) : w \in DOMAIN chain[k].methods /\ o = chain[k].methods[w]
    BY <2>2 DEF Overridden
  <2>4. k = 2 /\ 2 \in DOMAIN chain
    BY <1>1, <1>2, <2>3
  <2>5. o = c.fun /\ p[2] = own[w]
    BY <2>2
  <2> QED BY <2>3, <2>4, <2>5
<1>5. ASSUME NEW v \in DOMAIN own, 2 \in DOMAIN chain, v \in DOMAIN chain[2].methods,
             chain[2].methods[v] = c.fun
      PROVE  over # {}
  <2>1. c.fun \in Overridden(chain, v)
    <3>1. 2 \in 2 .. Len(chain) /\ \A j \in 2 .. 2 - 1 : v \notin DOMAIN chain[j].methods
      BY <1>1, <1>5
    <3> QED BY <1>5, <3>1 DEF Overridden
  <2>2. HasBody(c.fun) /\ HasBody(own[v])
    BY <1>2, <1>5, SMTT(30)
  <2>3. <<c.fun, own[v]>> \in overridden_method_map(m)
    BY <1>5, <2>1, <2>2, SMTT(30) DEF overridden_method_map
  <2> QED BY <2>3
<1>6. \/ over = {} /\ Callee(m, c) = c.fun
      \/ \E p \in over : Callee(m, c) = p[2]
  <2>1. Callee(m, c) = IF over # {} THEN (CHOOSE p \in over : TRUE)[2] ELSE c.fun
    BY DEF Callee
  <2> HIDE DEF over
  <2> QED BY <2>1
<1> HIDE DEF over
<1> SUFFICES ASSUME NEW x \in FinalOverrider(m, c.fun) PROVE x = Callee(m, c)
  OBVIOUS
<1>7. PICK v : \E i, k \in DOMAIN chain :
               /\ v \in DOMAIN chain[i].methods /\ chain[i].methods[v] = c.fun
               /\ v \in DOMAIN chain[k].methods /\ chain[k].methods[v] = x
               /\ \A j \in DOMAIN chain : v \in DOMAIN chain[j].methods => k <= j
  BY <1>3
<1>8. PICK i \in DOMAIN chain, k \in DOMAIN chain :
               /\ v \in DOMAIN chain[i].methods /\ chain[i].methods[v] = c.fun
               /\ v \in DOMAIN chain[k].methods /\ chain[k].methods[v] = x
               /\ \A j \in DOMAIN chain : v \in DOMAIN chain[j].methods => k <= j
  BY <1>7
<1>9. CASE over = {}
  <2>1. Callee(m, c) = c.fun
    BY <1>6, <1>9
  <2>2. i = k
    <3>1. i \in {1, 2} /\ k \in {1, 2} /\ k <= i
      BY <1>2, <1>8
    <3>2. ~(k = 1 /\ i = 2)
      BY <1>5, <1>8, <1>9
    <3> QED BY <3>1, <3>2
  <2> QED BY <1>8, <2>1, <2>2
<1>10. CASE over # {}
  <2>1. PICK p \in over : Callee(m, c) = p[2]
    BY <1>6, <1>10
  <2>2. PICK w \in DOMAIN own : /\ 2 \in DOMAIN chain /\ w \in DOMAIN chain[2].methods
                                /\ chain[2].methods[w] = c.fun /\ p[2] = own[w]
    BY <1>4, <2>1, SMTT(30)
  <2>3. w = v
    BY <1>1, <1>8, <2>2
  <2>4. k = 1
    BY <1>2, <1>8, <2>2, <2>3
  <2> QED BY <1>8, <2>1, <2>2, <2>3, <2>4
<1> QED BY <1>9, <1>10

(***************************************************************************)
(* The tree of instances.                                                  *)
(***************************************************************************)
LEMMA TailInjective ==
  ASSUME NEW S, NEW s \in Seq(S), s # <<>>, InjSeq(s)
  PROVE  InjSeq(Tail(s)) /\ Head(s) \notin Elements(Tail(s))
<1>1. /\ Len(s) \in Nat \ {0} /\ DOMAIN s = 1 .. Len(s) /\ Head(s) = s[1]
      /\ DOMAIN Tail(s) = 1 .. Len(s) - 1
      /\ \A i \in 1 .. Len(s) - 1 : Tail(s)[i] = s[i + 1]
  OBVIOUS
<1>2. InjSeq(Tail(s))
  <2> SUFFICES ASSUME NEW i \in 1 .. Len(s) - 1, NEW j \in 1 .. Len(s) - 1, s[i + 1] = s[j + 1]
               PROVE  i = j
    BY <1>1 DEF InjSeq
  <2>1. i + 1 \in DOMAIN s /\ j + 1 \in DOMAIN s
    BY <1>1
  <2>2. i + 1 = j + 1
    BY <2>1 DEF InjSeq
  <2> QED BY <1>1, <2>2
<1>3. ASSUME Head(s) \in Elements(Tail(s)) PROVE FALSE
  <2>1. PICK i \in 1 .. Len(s) - 1 : s[1] = s[i + 1]
    BY <1>1, <1>3 DEF Elements
  <2>2. 1 \in DOMAIN s /\ i + 1 \in DOMAIN s
    BY <1>1, <2>1
  <2>3. 1 = i + 1
    BY <2>1, <2>2 DEF InjSeq
  <2> QED BY <1>1, <2>1, <2>3
<1> QED BY <1>2, <1>3

LEMMA ConcatElements ==
  ASSUME NEW S, NEW s \in Seq(S), NEW t \in Seq(S)
  PROVE  /\ Elements(s \o t) = Elements(s) \cup Elements(t)
         /\ InjSeq(s) /\ InjSeq(t) /\ Elements(s) \cap Elements(t) = {} => InjSeq(s \o t)
<1> DEFINE n == Len(s)
           u == s \o t
<1>1. /\ n \in Nat /\ Len(t) \in Nat /\ DOMAIN s = 1 .. n /\ DOMAIN t = 1 .. Len(t)
      /\ DOMAIN u = 1 .. n + Len(t)
      /\ \A i \in 1 .. n : u[i] = s[i]
      /\ \A i \in 1 .. Len(t) : u[n + i] = t[i]
  BY ConcatProperties
<1> HIDE DEF u, n
<1>2. ASSUME NEW i \in DOMAIN u
      PROVE  \/ i \in DOMAIN s /\ u[i] = s[i]
             \/ i - n \in DOMAIN t /\ u[i] = t[i - n] /\ i \notin DOMAIN s
  <2>1. i \in Nat /\ 1 <= i /\ i <= n + Len(t)
    BY <1>1
  <2>2. CASE i <= n
    BY <1>1, <2>1, <2>2
  <2>3. CASE i > n
    <3>1. i - n \in 1 .. Len(t) /\ n + (i - n) = i
      BY <1>1, <2>1, <2>3
    <3>2. u[i] = t[i - n]
      BY <1>1, <3>1
    <3> QED BY <1>1, <2>1, <2>3, <3>1, <3>2
  <2> QED BY <1>1, <2>1, <2>2, <2>3
<1>3. ASSUME NEW x \in Elements(u) PROVE x \in Elements(s) \cup Elements(t)
  BY <1>2, <1>3 DEF Elements
<1>4. ASSUME NEW x \in Elements(s) PROVE x \in Elements(u)
  <2>1. PICK i \in 1 .. n : x = s[i]
    BY <1>1 DEF Elements
  <2>2. i \in DOMAIN u /\ u[i] = x
    BY <1>1, <2>1
  <2> QED BY <2>2 DEF Elements
<1>5. ASSUME NEW x \in Elements(t) PROVE x \in Elements(u)
  <2>1. PICK i \in 1 .. Len(t) : x = t[i]
    BY <1>1 DEF Elements
  <2>2. n + i \in DOMAIN u /\ u[n + i] = x
    BY <1>1, <2>1
  <2> QED BY <2>2 DEF Elements
<1>6. ASSUME InjSeq(s), InjSeq(t), Elements(s) \cap Elements(t) = {} PROVE InjSeq(u)
  <2> SUFFICES ASSUME NEW i \in DOMAIN u, NEW j \in DOMAIN u, u[i] = u[j] PROVE i = j
    BY DEF InjSeq
  <2>1. CASE i \in DOMAIN s /\ j \in DOMAIN s
    BY <1>2, <1>6, <2>1, <1>1 DEF InjSeq
  <2>2. CASE i \notin DOMAIN s /\ j \notin DOMAIN s
    <3>1. i - n \in DOMAIN t /\ j - n \in DOMAIN t /\ t[i - n] = t[j - n]
      BY <1>2, <2>2
    <3>2. i - n = j - n
      BY <1>6, <3>1 DEF InjSeq
    <3> QED BY <1>1, <3>2
  <2>3. CASE i \in DOMAIN s /\ j \notin DOMAIN s
    <3>1. u[i] \in Elements(s) /\ u[j] \in Elements(t)
      BY <1>1, <1>2, <2>3 DEF Elements
    <3> QED BY <1>6, <3>1
  <2>4. CASE i \notin DOMAIN s /\ j \in DOMAIN s
    <3>1. u[i] \in Elements(t) /\ u[j] \in Elements(s)
      BY <1>1, <1>2, <2>4 DEF Elements
    <3> QED BY <1>6, <3>1
  <2> QED BY <2>1, <2>2, <2>3, <2>4
<1> QED BY <1>3, <1>4, <1>5, <1>6 DEF u

LEMMA TreeFacts ==
  ASSUME IsDesign(design), NEW m \in Mods, NEW n \in Mods, NEW x \in Subs(m)
  PROVE  x # design.root /\ (x \in Subs(n) => m = n) /\ x \in Mods
<1>1. PICK i \in DOMAIN design.mods[m].subs : x = design.mods[m].subs[i]
  BY DEF Subs, Elements
<1>2. IsTree(design)
  BY DEF IsDesign
<1>3. design.mods[m].subs \in Seq(Mods)
  BY DesignFacts
<1>4. x # design.root /\ (x \in Subs(n) => m = n)
  BY <1>1, <1>2 DEF IsTree, Subs, Elements, Mods
<1>5. x \in Mods
  BY <1>3, ElementsFacts DEF Subs
<1> QED BY <1>4, <1>5

LEMMA SubsInjective ==
  ASSUME IsDesign(design), NEW m \in Mods PROVE InjSeq(design.mods[m].subs)
<1>1. IsTree(design)
  BY DEF IsDesign
<1> QED BY <1>1 DEF IsTree, InjSeq, Mods

\* Names once given stay.
LEMMA FaithfulKept ==
  ASSUME design' = design,
         \A m \in DOMAIN mod_name_map.map :
           m \in DOMAIN mod_name_map'.map /\ mod_name_map'.map[m] = mod_name_map.map[m]
  PROVE  /\ \A p : Faithful(p) => Faithful(p)'
         /\ \A m : Subs(m)' = Subs(m)
<1>1. \A m : Subs(m)' = Subs(m)
  BY DEF Subs
<1>2. ASSUME NEW p, Faithful(p) PROVE Faithful(p)'
  BY <1>1, <1>2 DEF Faithful
<1> QED BY <1>1, <1>2

\* A step that neither names nor prints an instance.
LEMMA TreeMoves ==
  ASSUME Base, Tree,
         SubmodulesDeclared \/ StartBody \/ NextClass \/ PartDone \/ VisitCall \/ FinishBody
           \/ (\E f \in DOMAIN allmethodecls.map : GenerateFunction(f)) \/ UNCHANGED vars
  PROVE  Tree'
<1>1. Types /\ Control /\ design' = design /\ todo' = todo /\ printed' = printed
      /\ mod_name_map' = mod_name_map
  BY DEF Base, SubmodulesDeclared, StartBody, NextClass, PartDone, VisitCall, FinishBody,
         GenerateFunction, vars, control
<1>2. /\ module'.inst = module.inst /\ module'.name = module.name /\ module'.subs = module.subs
  BY <1>1 DEF SubmodulesDeclared, StartBody, NextClass, PartDone, VisitCall, FinishBody,
              GenerateFunction, vars, Types, Hcodes
<1>3. /\ AtModule' <=> AtModule
      /\ pc' \in {"start", "done"} => pc' = pc
  BY DEF SubmodulesDeclared, StartBody, NextClass, PartDone, VisitCall, FinishBody,
         GenerateFunction, vars, control, AtModule, Parts, NextPart
<1>4. Done' = Done /\ (\A m : Subs(m)' = Subs(m)) /\ Mods' = Mods /\ Mod' = Mod
  BY <1>1, Static DEF Done, Subs, Mod
<1>5. OnePlace'
  BY <1>1, <1>4 DEF Tree, OnePlace, InjSeq
<1>6. Descent'
  BY <1>1, <1>3, <1>4 DEF Tree, Descent
<1>7. \A p \in printed : Faithful(p)'
  BY <1>1, FaithfulKept DEF Tree, InstancesNamed
<1>8. AtModule' => Faithful(module)'
  <2>1. AtModule' => Faithful(module)
    BY <1>3 DEF Tree, InstancesNamed
  <2> QED BY <1>1, <1>2, <1>4, <2>1 DEF Faithful
<1>9. pc' = "subs" => \A i \in DOMAIN design.mods[Mod].subs :
                        i < ix' => design.mods[Mod].subs[i] \in DOMAIN mod_name_map.map
  <2>1. CASE pc = "subs" /\ ix' = ix
    BY <2>1 DEF Tree, InstancesNamed
  <2>2. CASE PartDone
    <3> SUFFICES ASSUME pc' = "subs", NEW i \in DOMAIN design.mods[Mod].subs, i < ix' PROVE FALSE
      OBVIOUS
    <3>1. ix' = 1 /\ AtModule
      BY <2>2 DEF PartDone, AtModule, Parts
    <3>2. design.mods[Mod].subs \in Seq(Mods)
      BY <1>1, <3>1, ModFacts, DesignFacts DEF Types, Control
    <3>3. i \in Nat /\ i >= 1
      BY <3>2
    <3> QED BY <3>1, <3>3
  <2>3. CASE ~PartDone /\ ~(pc = "subs" /\ ix' = ix)
    <3>1. pc' # "subs"
      <4>1. CASE SubmodulesDeclared
        BY <4>1 DEF SubmodulesDeclared
      <4>2. CASE StartBody \/ NextClass
        BY <4>2 DEF StartBody, NextClass, Parts
      <4>3. CASE VisitCall \/ FinishBody \/ (\E f \in DOMAIN allmethodecls.map : GenerateFunction(f))
                 \/ UNCHANGED vars
        <5>1. pc' = pc /\ ix' = ix
          BY <4>3 DEF VisitCall, FinishBody, GenerateFunction, vars, control
        <5> QED BY <2>3, <5>1
      <4> QED BY <2>3, <4>1, <4>2, <4>3
    <3> QED BY <3>1
  <2> QED BY <2>1, <2>2, <2>3
<1>10. pc' \in {"ctors", "procs", "functions"} => Subs(Mod) \subseteq DOMAIN mod_name_map.map
  <2>1. CASE SubmodulesDeclared
    <3>1. pc = "subs" /\ AtModule /\ ix > Len(design.mods[Mod].subs)
      BY <2>1 DEF SubmodulesDeclared, AtModule
    <3>2. design.mods[Mod].subs \in Seq(Mods) /\ ix \in Nat
      BY <1>1, <3>1, ModFacts, DesignFacts DEF Types, Control
    <3>3. \A i \in DOMAIN design.mods[Mod].subs : i < ix
      BY <3>1, <3>2
    <3> QED BY <3>1, <3>3 DEF Tree, InstancesNamed, Subs, Elements
  <2>2. CASE ~SubmodulesDeclared
    <3>1. pc' \in {"ctors", "procs", "functions"} => pc \in {"ctors", "procs", "functions"}
      BY <2>2 DEF StartBody, NextClass, PartDone, VisitCall, FinishBody, GenerateFunction, vars,
                  control, Parts, NextPart
    <3> QED BY <3>1 DEF Tree, InstancesNamed
  <2> QED BY <2>1, <2>2
<1>11. InstancesNamed'
  BY <1>1, <1>4, <1>7, <1>8, <1>9, <1>10 DEF Tree, InstancesNamed, InjectiveMap
<1> QED BY <1>5, <1>6, <1>11 DEF Tree

LEMMA NameInstance ==
  ASSUME Types, InstancesNamed, design' = design, NEW s \in Mods,
         mod_name_map' = add_entry(mod_name_map, s, design.mods[s].name)
  PROVE  /\ InjectiveMap(mod_name_map')
         /\ \A m \in DOMAIN mod_name_map'.map : mod_name_map'.map[m][2] < mod_name_map'.cnt
         /\ s \in DOMAIN mod_name_map'.map /\ mod_name_map'.map[s] = find_entry_newn(mod_name_map', s)
         /\ \A m \in DOMAIN mod_name_map.map :
              m \in DOMAIN mod_name_map'.map /\ mod_name_map'.map[m] = mod_name_map.map[m]
<1> DEFINE t == mod_name_map
           u == mod_name_map'
<1>1. <<design.mods[s].name, t.cnt>> \in ModNames /\ t.cnt \in Nat
  BY TableFacts DEF Types, ModTables, ModNames
<1>2. /\ u \in ModTables /\ DOMAIN u.map = DOMAIN t.map \cup {s}
      /\ \A e \in DOMAIN t.map : u.map[e] = t.map[e]
      /\ s \in DOMAIN t.map => u = t
      /\ s \notin DOMAIN t.map => u.map[s] = <<design.mods[s].name, t.cnt>> /\ u.cnt = t.cnt + 1
  BY <1>1, AddEntryFacts DEF Types, ModTables
<1>3. \A m \in DOMAIN t.map : t.map[m][2] < t.cnt /\ t.map[m][2] \in Nat
  BY TableFacts DEF InstancesNamed, Types, ModTables, ModNames
<1>4. InjectiveMap(t)
  BY DEF InstancesNamed
<1>5. CASE s \in DOMAIN t.map
  BY <1>2, <1>3, <1>4, <1>5 DEF find_entry_newn
<1>6. CASE s \notin DOMAIN t.map
  <2>1. u.map[s][2] = t.cnt /\ u.cnt = t.cnt + 1
    BY <1>2, <1>6
  <2>2. ASSUME NEW m \in DOMAIN u.map PROVE u.map[m][2] < u.cnt
    <3>1. CASE m = s
      BY <1>1, <2>1, <3>1
    <3>2. CASE m # s
      BY <1>1, <1>2, <1>3, <2>1, <3>2
    <3> QED BY <3>1, <3>2
  <2>3. ASSUME NEW m \in DOMAIN u.map, NEW n \in DOMAIN u.map, u.map[m] = u.map[n] PROVE m = n
    <3>1. ASSUME NEW e \in DOMAIN u.map \ {s} PROVE u.map[e][2] # t.cnt
      BY <1>1, <1>2, <1>3
    <3>2. CASE m = s \/ n = s
      BY <2>1, <2>3, <3>1, <3>2
    <3>3. CASE m # s /\ n # s
      BY <1>2, <1>4, <2>3, <3>3 DEF InjectiveMap
    <3> QED BY <3>2, <3>3
  <2> QED BY <1>2, <2>2, <2>3 DEF InjectiveMap, find_entry_newn
<1> QED BY <1>5, <1>6

LEMMA TreePostFire ==
  ASSUME Base, Tree, postFire PROVE Tree'
<1>1. /\ Types /\ Control /\ design' = design /\ printed' = printed /\ module' = module /\ pc = "start"
  BY DEF Base, postFire
<1>2. todo = <<>> /\ printed = {} /\ Done = {} /\ Done' = {} /\ ~AtModule'
  BY <1>1 DEF Tree, Descent, Done, postFire, AtModule
<1>3. CASE design.root = NoModule
  <2>1. todo' = todo /\ mod_name_map' = mod_name_map /\ pc' = "done"
    BY <1>3 DEF postFire
  <2> QED BY <1>1, <1>2, <2>1
          DEF Tree, OnePlace, Descent, InstancesNamed, InjSeq, InjectiveMap, Elements, AtModule
<1>4. CASE design.root # NoModule
  <2> DEFINE r == design.root
  <2>1. /\ todo' = <<r>> /\ pc' = "module" /\ r \in Mods
        /\ mod_name_map' = add_entry(mod_name_map, r, design.mods[r].name)
    BY <1>1, <1>4, DesignFacts DEF postFire, Types
  <2>2. DOMAIN todo' = {1} /\ todo'[1] = r
    BY <2>1
  <2>3. Elements(todo') = {r}
    BY <2>2 DEF Elements
  <2>4. OnePlace'
    BY <1>1, <1>2, <2>2 DEF OnePlace, InjSeq
  <2>5. Descent'
    BY <1>1, <1>2, <2>1, <2>3 DEF Descent
  <2>6. InstancesNamed'
    BY <1>1, <1>2, <2>1, <2>3, NameInstance, ZenonT(30) DEF Tree, InstancesNamed, InjectiveMap
  <2> QED BY <2>4, <2>5, <2>6 DEF Tree
<1> QED BY <1>3, <1>4

LEMMA TreeModule ==
  ASSUME Base, Tree, SCmodule2hcode PROVE Tree'
<1>1. /\ Types /\ Control /\ design' = design /\ printed' = printed /\ todo' = todo
      /\ mod_name_map' = mod_name_map /\ pc' = "inits" /\ todo # <<>>
  BY DEF Base, SCmodule2hcode
<1>2. Done' = Done /\ (\A m : Subs(m)' = Subs(m)) /\ Mods' = Mods
  BY <1>1, Static DEF Done, Subs
<1>3. Mod \in Elements(todo)
  BY <1>1, ElementsFacts DEF Types, Mod
<1>4. Mod \in DOMAIN mod_name_map.map
  BY <1>3 DEF Tree, InstancesNamed
<1>5. /\ module'.inst = Mod /\ module'.subs = {}
      /\ module'.name = mod_name_map.map[Mod]
  BY <1>4 DEF SCmodule2hcode, NoHcode, find_entry_newn
<1>6. Faithful(module)'
  BY <1>1, <1>4, <1>5 DEF Faithful
<1>7. \A p \in printed : Faithful(p)'
  BY <1>1, FaithfulKept DEF Tree, InstancesNamed
<1>8. OnePlace'
  BY <1>1, <1>2 DEF Tree, OnePlace, InjSeq
<1>9. Descent'
  BY <1>1, <1>2 DEF Tree, Descent
<1>10. InstancesNamed'
  BY <1>1, <1>6, <1>7 DEF Tree, InstancesNamed, InjectiveMap
<1> QED BY <1>8, <1>9, <1>10 DEF Tree

LEMMA TreeDeclare ==
  ASSUME Base, Tree, DeclareSubmodule PROVE Tree'
<1> DEFINE s == design.mods[Mod].subs[ix]
<1>1. /\ Types /\ Control /\ design' = design /\ printed' = printed /\ todo' = todo /\ pc' = pc
      /\ pc = "subs" /\ ix' = ix + 1 /\ AtModule /\ todo # <<>>
      /\ mod_name_map' = add_entry(mod_name_map, s, design.mods[s].name)
      /\ module' = [module EXCEPT !.subs = @ \cup
                      {[inst |-> s, type |-> find_entry_newn(mod_name_map', s)]}]
  BY DEF Base, DeclareSubmodule, AtModule, Control
<1>2. Mod \in Mods /\ Mod' = Mod /\ module.inst = Mod
  BY <1>1, ModFacts, Same DEF Control
<1>3. design.mods[Mod].subs \in Seq(Mods) /\ ix \in 1 .. Len(design.mods[Mod].subs)
  <2>1. design.mods[Mod].subs \in Seq(Mods)
    BY <1>1, <1>2, DesignFacts DEF Types
  <2>2. ix \in Nat \ {0}
    BY <1>1 DEF Types
  <2>3. ix <= Len(design.mods[Mod].subs)
    BY DEF DeclareSubmodule
  <2>4. Len(design.mods[Mod].subs) \in Nat
    BY <2>1, LenProperties
  <2> QED BY <2>1, <2>2, <2>3, <2>4
<1>4. s \in Mods /\ s \in Subs(Mod)
  BY <1>3, ElementOfSeq DEF Subs, Elements
<1> HIDE DEF s
<1>5. /\ InjectiveMap(mod_name_map')
      /\ \A m \in DOMAIN mod_name_map'.map : mod_name_map'.map[m][2] < mod_name_map'.cnt
      /\ s \in DOMAIN mod_name_map'.map /\ mod_name_map'.map[s] = find_entry_newn(mod_name_map', s)
      /\ \A m \in DOMAIN mod_name_map.map :
           m \in DOMAIN mod_name_map'.map /\ mod_name_map'.map[m] = mod_name_map.map[m]
  BY <1>1, <1>4, NameInstance DEF Tree
<1>6. Done' = Done /\ (\A m : Subs(m)' = Subs(m)) /\ Mods' = Mods
  BY <1>1, Static DEF Done, Subs
<1>7. \A p : Faithful(p) => Faithful(p)'
  BY <1>1, <1>5, FaithfulKept
<1>8. Faithful(module)'
  <2>1. Faithful(module)
    BY <1>1 DEF Tree, InstancesNamed
  <2> DEFINE x == [inst |-> s, type |-> find_entry_newn(mod_name_map', s)]
  <2>2. module'.inst = Mod /\ module'.name = module.name /\ module'.subs = module.subs \cup {x}
    BY <1>1, <1>2 DEF Types, Hcodes
  <2>3. x.inst = s /\ x.type = mod_name_map'.map[s]
    BY <1>5
  <2> HIDE DEF x
  <2> QED BY <1>2, <1>4, <1>5, <1>6, <2>1, <2>2, <2>3 DEF Faithful
<1>9. \A i \in DOMAIN design.mods[Mod].subs :
        i < ix' => design.mods[Mod].subs[i] \in DOMAIN mod_name_map'.map
  <2> SUFFICES ASSUME NEW i \in DOMAIN design.mods[Mod].subs, i < ix + 1
               PROVE  design.mods[Mod].subs[i] \in DOMAIN mod_name_map'.map
    BY <1>1
  <2>1. i \in Nat /\ ix \in Nat
    BY <1>3
  <2>2. CASE i = ix
    BY <1>5, <2>2 DEF s
  <2>3. CASE i < ix
    BY <1>1, <1>5, <2>3 DEF Tree, InstancesNamed
  <2> QED BY <2>1, <2>2, <2>3
<1>10. OnePlace'
  BY <1>1, <1>6 DEF Tree, OnePlace, InjSeq
<1>11. Descent'
  BY <1>1, <1>6, SMTT(30) DEF Tree, Descent
<1>12. InstancesNamed'
  BY <1>1, <1>2, <1>5, <1>7, <1>8, <1>9 DEF Tree, InstancesNamed, InjectiveMap
<1> QED BY <1>10, <1>11, <1>12 DEF Tree

LEMMA TreePrint ==
  ASSUME Base, Tree, PrintModule PROVE Tree'
<1> DEFINE S == design.mods[Mod].subs
           T == Tail(todo)
<1>1. /\ Types /\ Control /\ design' = design /\ AtModule /\ pc = "functions" /\ todo # <<>>
      /\ Mod \in Mods /\ module.inst = Mod /\ printed' = printed \cup {module}
      /\ todo' = S \o T /\ pc' = "module" /\ mod_name_map' = mod_name_map
  BY AtPrint DEF Base, PrintModule
<1>2. S \in Seq(Mods) /\ T \in Seq(Mods) /\ todo \in Seq(Mods) /\ IsDesign(design)
  BY <1>1, ModFacts, DesignFacts DEF Types
<1> HIDE DEF S, T
<1>3. Elements(todo) = {Mod} \cup Elements(T)
  BY <1>1, <1>2, ElementsFacts DEF Mod, T
<1>4. InjSeq(T) /\ Mod \notin Elements(T)
  BY <1>1, <1>2, TailInjective DEF Tree, OnePlace, Mod, T
<1>5. Subs(Mod) = Elements(S) /\ InjSeq(S)
  BY <1>1, <1>2, SubsInjective DEF Subs, S
<1>6. Done \subseteq Mods /\ Elements(todo) \cap Done = {}
  BY DEF Tree, OnePlace
<1>7. ASSUME NEW x \in Subs(Mod), x \in Elements(todo) \cup Done PROVE FALSE
  <2>1. x # design.root
    BY <1>1, <1>2, TreeFacts
  <2>2. PICK m \in Done : x \in Subs(m)
    BY <1>7, <2>1 DEF Tree, Descent
  <2>3. m = Mod
    BY <1>1, <1>2, <1>6, <2>2, TreeFacts
  <2> QED BY <1>3, <1>6, <2>2, <2>3
<1>8. /\ Elements(todo') = Subs(Mod) \cup Elements(T)
      /\ InjSeq(todo')
  <2>1. Elements(S) \cap Elements(T) = {}
    BY <1>3, <1>5, <1>7
  <2> QED BY <1>1, <1>2, <1>4, <1>5, <2>1, ConcatElements
<1>9. Done' = Done \cup {Mod}
  BY <1>1 DEF Done
<1>10. (\A m : Subs(m)' = Subs(m)) /\ Mods' = Mods
  BY <1>1, Static DEF Subs
<1>11. OnePlace'
  <2>1. Elements(todo') \cap Done' = {}
    BY <1>3, <1>4, <1>6, <1>7, <1>8, <1>9
  <2>2. ASSUME NEW p \in printed, p.inst = Mod PROVE FALSE
    BY <1>3, <1>6, <2>2 DEF Done
  <2>3. \A p, q \in printed' : p.inst = q.inst => p = q
    BY <1>1, <2>2 DEF Tree, OnePlace
  <2>4. Done' \subseteq Mods'
    BY <1>1, <1>6, <1>9, <1>10
  <2> QED BY <1>8, <2>1, <2>3, <2>4 DEF OnePlace, InjSeq
<1>12. Descent'
  <2>1. ASSUME NEW x \in Elements(todo') \cup Done'
        PROVE  x = design.root \/ \E m \in Done' : x \in Subs(m)
    <3>1. CASE x \in Subs(Mod)
      BY <1>9, <3>1
    <3>2. CASE x \notin Subs(Mod)
      <4>1. x \in Elements(todo) \cup Done
        BY <1>3, <1>8, <1>9, <2>1, <3>2
      <4> QED BY <1>9, <4>1 DEF Tree, Descent
    <3> QED BY <3>1, <3>2
  <2>2. ASSUME NEW m \in Done' PROVE Subs(m) \subseteq Elements(todo') \cup Done'
    <3>1. CASE m = Mod
      BY <1>8, <3>1
    <3>2. CASE m \in Done
      BY <1>3, <1>8, <1>9, <3>2 DEF Tree, Descent
    <3> QED BY <1>9, <2>2, <3>1, <3>2
  <2> QED BY <1>1, <1>10, <2>1, <2>2 DEF Descent
<1>13. InstancesNamed'
  <2>1. Elements(todo') \subseteq DOMAIN mod_name_map.map
    BY <1>1, <1>3, <1>8 DEF Tree, InstancesNamed
  <2>2. \A p \in printed' : Faithful(p)
    BY <1>1 DEF Tree, InstancesNamed
  <2>3. \A p \in printed' : Faithful(p)'
    BY <1>1, <2>2, FaithfulKept
  <2> QED BY <1>1, <2>1, <2>3 DEF Tree, InstancesNamed, InjectiveMap, AtModule
<1> QED BY <1>11, <1>12, <1>13 DEF Tree

LEMMA TreeFinish ==
  ASSUME Base, Tree, Finish PROVE Tree'
<1>1. /\ UNCHANGED <<design, todo, printed, mod_name_map>> /\ pc' = "done" /\ todo = <<>>
  BY DEF Finish
<1>2. Done' = Done /\ (\A m : Subs(m)' = Subs(m)) /\ Mods' = Mods
  BY <1>1, Static DEF Done, Subs
<1>3. \A p \in printed : Faithful(p)'
  BY <1>1, FaithfulKept DEF Tree, InstancesNamed
<1>4. OnePlace'
  BY <1>1, <1>2 DEF Tree, OnePlace, InjSeq
<1>5. Descent'
  BY <1>1, <1>2 DEF Tree, Descent
<1>6. InstancesNamed'
  BY <1>1, <1>3 DEF Tree, InstancesNamed, InjectiveMap, AtModule
<1> QED BY <1>4, <1>5, <1>6 DEF Tree

LEMMA TreeStep ==
  ASSUME Base, Tree, [Next]_vars PROVE Tree'
BY TreeMoves, TreePostFire, TreeModule, TreeDeclare, TreePrint, TreeFinish DEF Next

LEMMA InitTree == Init => Tree
<1> SUFFICES ASSUME Init PROVE Tree
  OBVIOUS
<1>1. /\ todo = <<>> /\ printed = {} /\ DOMAIN mod_name_map.map = {} /\ pc = "start" /\ Done = {}
      /\ Elements(todo) = {} /\ DOMAIN todo = {}
  BY NewNameMapFacts DEF Init, Done, Elements
<1> QED BY <1>1 DEF Tree, OnePlace, Descent, InstancesNamed, InjSeq, InjectiveMap, AtModule

(***************************************************************************)
(* When the translation is over, the type of a submodule declared in a     *)
(* printed module is the name of one printed module, that of the very      *)
(* instance: instances of one class get modules, and names, of their own   *)
(* (mod_name_map).                                                         *)
(***************************************************************************)
THEOREM SubmodulesResolve == Spec => []InstancesResolve
<1>1. Init => Base /\ Tree
  BY InitBase, InitTree
<1>2. Base /\ Tree /\ [Next]_vars => (Base /\ Tree)'
  BY BaseStep, TreeStep
<1>3. Base /\ Tree => InstancesResolve
  <2> SUFFICES ASSUME Base, Tree, pc = "done", NEW p \in printed, NEW s \in p.subs
               PROVE  \E q \in printed : q.inst = s.inst /\ {r \in printed : r.name = s.type} = {q}
    BY DEF InstancesResolve
  <2>1. \A r \in printed : Faithful(r)
    BY DEF Tree, InstancesNamed
  <2>2. /\ s.inst \in Subs(p.inst) /\ s.inst \in DOMAIN mod_name_map.map
        /\ s.type = mod_name_map.map[s.inst]
    BY <2>1 DEF Faithful
  <2>3. todo = <<>> /\ p.inst \in Done
    BY DEF Tree, Descent, Done
  <2>4. s.inst \in Done
    BY <2>2, <2>3 DEF Tree, Descent, Elements
  <2>5. PICK q \in printed : q.inst = s.inst
    BY <2>4 DEF Done
  <2>6. ASSUME NEW r \in printed, r.name = s.type PROVE r = q
    <3>1. r.inst \in DOMAIN mod_name_map.map /\ r.name = mod_name_map.map[r.inst]
      BY <2>1 DEF Faithful
    <3>2. r.inst = q.inst
      BY <2>2, <2>5, <2>6, <3>1 DEF Tree, InstancesNamed, InjectiveMap
    <3> QED BY <3>2 DEF Tree, OnePlace
  <2>7. q.name = s.type
    BY <2>1, <2>2, <2>5 DEF Faithful
  <2> QED BY <2>5, <2>6, <2>7
<1> QED BY <1>1, <1>2, <1>3, PTL DEF Spec

(***************************************************************************)
(* With at most one base class, and bodies for the methods, a member call  *)
(* whose object is cast just when it names its class is translated to the  *)
(* method C++ calls: overridden_method_map holds the final overrider of    *)
(* every method of the base class.                                         *)
(***************************************************************************)
THEOREM MemberCallsDispatch == Spec => []OneLevelDispatch
<1>1. Init => Base /\ Tree /\ Dispatching
  BY InitBase, InitTree DEF Init, Dispatching, AtModule
<1>2. Base /\ Tree /\ Dispatching /\ [Next]_vars => (Base /\ Tree /\ Dispatching)'
  BY BaseStep, TreeStep, ResolvedStep
<1>3. Base /\ Tree /\ Dispatching => OneLevelDispatch
  <2> SUFFICES ASSUME Base, Tree, Dispatching, NEW p \in printed,
                      Len(design.mods[p.inst].chain) <= 2,
                      \A i \in DOMAIN design.mods[p.inst].chain :
                        \A v \in DOMAIN design.mods[p.inst].chain[i].methods :
                          HasBody(design.mods[p.inst].chain[i].methods[v]),
                      NEW c \in p.calls, c.call.kind = "member", c.call.cast <=> c.call.qualified
               PROVE  CalledBy(p.inst, c.call) \subseteq {c.fun}
    BY DEF OneLevelDispatch, DispatchedTo
  <2>1. p.inst \in Mods
    BY DEF Tree, OnePlace, Done
  <2>2. c.call \in CallSet
    BY DEF Base, Types, Hcodes, CallRecords
  <2>3. c.fun = Callee(p.inst, c.call)
    BY DEF Dispatching, Resolved
  <2>4. CASE c.call.qualified
    BY <2>3, <2>4 DEF CalledBy, Callee
  <2>5. CASE ~c.call.qualified
    BY <2>1, <2>2, <2>3, <2>5, ShortChain DEF Base, Types, CalledBy
  <2> QED BY <2>4, <2>5
<1> QED BY <1>1, <1>2, <1>3, PTL DEF Spec
=============================================================================
