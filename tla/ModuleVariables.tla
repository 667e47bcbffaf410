-------------------------- MODULE ModuleVariables --------------------------
(***************************************************************************)
(* plugins/hdl/HDLMain.cpp, SCport2hcode and SCsig2hcode as SCmodule2hcode *)
(* calls them along the inheritance chain: the names under which a module  *)
(* declares its ports, signals, variables and the parameters of its        *)
(* functions, and the second copy of what its threads reference.           *)
(*                                                                         *)
(* An entry is identified by its class in the chain, its list and its      *)
(* place in that list.  The order of the declarations is left out.         *)
(***************************************************************************)
EXTENDS NameMaps, Sequences, FiniteSets

CONSTANT Modules         \* the modules translated

\* The lists of a ModuleInstance, in the order in which they are declared.
ListOps == <<"hPortin", "hPortin", "hPortout", "hPortout", "hPortio", "hSigdecl", "hVardecl">>

Entries(m) ==
  {e \in (1 .. Len(m.chain)) \X (1 .. Len(ListOps)) \X (1 .. m.maxEntries) :
     e[3] <= Len(m.chain[e[1]][e[2]])}

IsSequence(s) == Len(s) \in Nat /\ DOMAIN s = 1 .. Len(s)

\* A name is not a number.
IsList(m, s) ==
  /\ IsSequence(s) /\ Len(s) <= m.maxEntries
  /\ \A k \in DOMAIN s : s[k].pointer \in BOOLEAN /\ s[k].name \notin Nat

IsModule(m) ==
  /\ m.maxEntries \in Nat
  /\ IsSequence(m.chain) /\ IsSequence(m.threads) /\ IsSequence(m.params)
  /\ \A i \in DOMAIN m.chain : \A l \in 1 .. Len(ListOps) : IsList(m, m.chain[i][l])
  /\ \A t \in DOMAIN m.threads : m.threads[t] \subseteq Entries(m)

ASSUME ModuleAssumption == \A m \in Modules : IsModule(m)

VARIABLES
  mod,                   \* the module, fixed
  pc,                    \* where the control is
  cls, lst, pos,         \* the entry that is next
  thread, param,         \* the thread, and the parameter, that are next
  mod_vname_map,         \* declaration -> name
  referenced,            \* the declarations whose referenced bit is set
  module_vars,           \* names of ports, signals and variables met so far
  h_ports                \* the declarations of the module

vars == <<mod, pc, cls, lst, pos, thread, param, mod_vname_map, referenced, module_vars, h_ports>>

Init ==
  /\ mod \in Modules
  /\ pc = "chain" /\ cls = 1 /\ lst = 1 /\ pos = 1 /\ thread = 1 /\ param = 1
  /\ mod_vname_map = NewNameMap /\ referenced = {} /\ module_vars = {}
  /\ h_ports = {}

List == mod.chain[cls][lst]
InList == pc = "chain" /\ cls <= Len(mod.chain) /\ lst <= Len(ListOps)

\* Mutant: a duplicate keeps its name.
RenameNone(t, d, name, op) ==
  IF op \in {"hSigdecl", "hVardecl"} /\ name \notin module_vars THEN add_entry(t, d, name) ELSE t

\* Signals and variables get a new name; a port gets one only when its name was
\* met before, in a base or a derived class.
RenameEntry(t, d, name, op) ==
  IF op \in {"hSigdecl", "hVardecl"} \/ name \in module_vars THEN add_entry(t, d, name) ELSE t

\* Mutant: the declaration keeps the old name.
DeclarationNotRenamed(d, name, op) == [decl |-> d, op |-> op, name |-> <<name>>]

Declaration(d, name, op) ==
  [decl |-> d, op |-> op,
   name |-> LET newn == find_entry_newn(mod_vname_map', d)
            IN  IF newn = NoName THEN <<name>> ELSE newn]

\* Mutant: the table is given a declaration that is none of the module.
DeclareUnknown ==
  /\ InList /\ pos <= Len(List) /\ ~List[pos].pointer
  /\ LET d == <<cls, lst, 0>>
         name == List[pos].name
     IN  /\ mod_vname_map' = RenameEntry(mod_vname_map, d, name, ListOps[lst])
         /\ h_ports' = h_ports \cup {Declaration(d, name, ListOps[lst])}
         /\ module_vars' = module_vars \cup {name}
  /\ pos' = pos + 1
  /\ UNCHANGED <<mod, pc, cls, lst, thread, param, referenced>>

DeclareEntry ==
  /\ InList /\ pos <= Len(List) /\ ~List[pos].pointer
  /\ LET d == <<cls, lst, pos>>
         name == List[pos].name
     IN  /\ mod_vname_map' = RenameEntry(mod_vname_map, d, name, ListOps[lst])
         /\ h_ports' = h_ports \cup {Declaration(d, name, ListOps[lst])}
         /\ module_vars' = module_vars \cup {name}
  /\ pos' = pos + 1
  /\ UNCHANGED <<mod, pc, cls, lst, thread, param, referenced>>

\* A pointer is reported and the function returns.
ReturnAtPointer ==
  /\ InList /\ pos <= Len(List) /\ List[pos].pointer
  /\ lst' = lst + 1 /\ pos' = 1
  /\ UNCHANGED <<mod, pc, cls, thread, param, mod_vname_map, referenced, module_vars, h_ports>>

NextList ==
  /\ InList /\ pos > Len(List)
  /\ lst' = lst + 1 /\ pos' = 1
  /\ UNCHANGED <<mod, pc, cls, thread, param, mod_vname_map, referenced, module_vars, h_ports>>

NextClass ==
  /\ pc = "chain" /\ cls <= Len(mod.chain) /\ lst > Len(ListOps)
  /\ cls' = cls + 1 /\ lst' = 1
  /\ UNCHANGED <<mod, pc, pos, thread, param, mod_vname_map, referenced, module_vars, h_ports>>

ChainDone ==
  /\ pc = "chain" /\ cls > Len(mod.chain)
  /\ pc' = "threads"
  /\ UNCHANGED <<mod, cls, lst, pos, thread, param, mod_vname_map, referenced, module_vars, h_ports>>

IsSigvar(d) == ListOps[d[2]] \in {"hSigdecl", "hVardecl"}

\* Mutant: the bits of the threads before are lost.
LastThreadOnly ==
  /\ pc = "threads" /\ thread <= Len(mod.threads)
  /\ referenced' = {d \in mod.threads[thread] \cap DOMAIN mod_vname_map.map : IsSigvar(d)}
  /\ thread' = thread + 1
  /\ UNCHANGED <<mod, pc, cls, lst, pos, param, mod_vname_map, module_vars, h_ports>>

\* A thread works on its copy of the table, with every bit reset; the bits it
\* sets are copied back for the names of the module.  Only the signals and
\* variables of the table have a bit.
TranslateThread ==
  /\ pc = "threads" /\ thread <= Len(mod.threads)
  /\ referenced' = referenced \cup
       {d \in mod.threads[thread] \cap DOMAIN mod_vname_map.map : IsSigvar(d)}
  /\ thread' = thread + 1
  /\ UNCHANGED <<mod, pc, cls, lst, pos, param, mod_vname_map, module_vars, h_ports>>

Shadow(n) == [decl |-> <<"_main_">> \o n.decl, op |-> n.op, name |-> <<"_main_">> \o n.name]

AddShadows ==
  /\ pc = "threads" /\ thread > Len(mod.threads)
  /\ h_ports' = h_ports \cup {Shadow(n) : n \in {x \in h_ports : x.decl \in referenced}}
  /\ pc' = "functions"
  /\ UNCHANGED <<mod, cls, lst, pos, thread, param, mod_vname_map, referenced, module_vars>>

\* A parameter passed by value to a function of the module becomes a variable;
\* mod.params has its name with "_actual" appended.
DeclareParameter ==
  /\ pc = "functions" /\ param <= Len(mod.params)
  /\ LET d == <<0, 0, param>>
         old == mod.params[param]
     IN  /\ mod_vname_map' = add_entry(mod_vname_map, d, old)
         /\ h_ports' = h_ports \cup {Declaration(d, old, "hVardecl")}
  /\ param' = param + 1
  /\ UNCHANGED <<mod, pc, cls, lst, pos, thread, referenced, module_vars>>

Finish ==
  /\ pc = "functions" /\ param > Len(mod.params)
  /\ pc' = "done"
  /\ UNCHANGED <<mod, cls, lst, pos, thread, param, mod_vname_map, referenced, module_vars, h_ports>>

Next ==
  \/ DeclareEntry \/ ReturnAtPointer \/ NextList \/ NextClass \/ ChainDone
  \/ TranslateThread \/ AddShadows \/ DeclareParameter \/ Finish

Spec == Init /\ [][Next]_vars
-----------------------------------------------------------------------------
\* The tables and bits of SCmodule2hcode hold entries of the module only.
TypeOK ==
  /\ IsModule(mod)
  /\ pc \in {"chain", "threads", "functions", "done"}
  /\ {cls, lst, pos, thread, param} \subseteq Nat
  /\ DOMAIN mod_vname_map.map \subseteq Entries(mod) \cup ({0} \X {0} \X Nat)
  /\ referenced \subseteq Entries(mod)
  /\ module_vars \subseteq {mod.chain[e[1]][e[2]][e[3]].name : e \in Entries(mod)}

\* No two declarations of a module have the same name, whatever names the classes
\* of its chain, its functions' parameters and the copies for its threads share.
DeclaredNamesDistinct ==
  \A n, k \in h_ports : n.name = k.name => n = k

\* A reference to an entry (HDLBody::FindVname: the name in the table, or its own)
\* names the declaration of that entry and of no other, also when several classes
\* of the chain use the same name.
ReferencesResolve ==
  \A n \in h_ports : n.decl \in Entries(mod) =>
    LET d == n.decl
        newn == find_entry_newn(mod_vname_map, d)
        ref == IF newn = NoName THEN <<mod.chain[d[1]][d[2]][d[3]].name>> ELSE newn
    IN  {x \in h_ports : x.name = ref} = {n}

\* A signal or variable that some thread references has one copy, however many
\* threads reference it, and nothing else has one.
OneShadowEach ==
  pc = "done" =>
    \A n \in h_ports : n.decl \in Entries(mod) =>
      Cardinality({s \in h_ports : s.name = <<"_main_">> \o n.name}) =
        IF IsSigvar(n.decl) /\ \E t \in DOMAIN mod.threads : n.decl \in mod.threads[t]
          THEN 1 ELSE 0
=============================================================================
