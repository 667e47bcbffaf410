----------------------- MODULE ModuleVariablesProofs -----------------------
(***************************************************************************)
(* The declarations of a module have names of their own, for every chain   *)
(* of classes, whatever names they share.                                  *)
(*                                                                         *)
(* A port that keeps its name has a name of one part, an entry of the      *)
(* table one of two, a copy for the threads one of three.                  *)
(***************************************************************************)
EXTENDS ModuleVariables, NameMapsProofs, SequenceTheorems, FiniteSetTheorems

Params == {0} \X {0} \X Nat
Decls == Entries(mod) \cup Params
EntryName(d) == mod.chain[d[1]][d[2]][d[3]].name
EntryNames == {EntryName(d) : d \in Entries(mod)}
VarNames == (EntryNames \cup {mod.params[k] : k \in DOMAIN mod.params}) \X Nat
VarTables == Tables(Decls, VarNames)
Renamed == DOMAIN mod_vname_map.map

Types ==
  /\ IsModule(mod)
  /\ pc \in {"chain", "threads", "functions", "done"}
  /\ cls \in Nat \ {0} /\ lst \in Nat \ {0} /\ pos \in Nat \ {0}
  /\ thread \in Nat \ {0} /\ param \in Nat \ {0}
  /\ mod_vname_map \in VarTables
  /\ module_vars \subseteq EntryNames

\* What the control has not come to yet is untouched.
Control ==
  /\ pc = "chain" => thread = 1 /\ referenced = {}
  /\ pc \in {"chain", "threads"} => param = 1
  /\ pc \in {"functions", "done"} => thread > Len(mod.threads)

\* The entries before the one that is next.
Before(d) ==
  \/ d[1] < cls
  \/ d[1] = cls /\ d[2] < lst
  \/ d[1] = cls /\ d[2] = lst /\ d[3] < pos

\* Every declaration in the table has been met, and its number is its own.
Table ==
  /\ \A d \in Renamed \cap Entries(mod) : pc = "chain" => Before(d)
  /\ \A d \in Renamed \cap Params : d[3] < param
  /\ \A d \in Renamed : mod_vname_map.map[d][2] < mod_vname_map.cnt
  /\ \A d, e \in Renamed : mod_vname_map.map[d] = mod_vname_map.map[e] => d = e

EntryNode(d) ==
  [decl |-> d, op |-> ListOps[d[2]],
   name |-> IF d \in Renamed THEN mod_vname_map.map[d] ELSE <<EntryName(d)>>]
ParamNode(d) == [decl |-> d, op |-> "hVardecl", name |-> mod_vname_map.map[d]]

IsEntry(n) ==
  \E d \in Entries(mod) :
    /\ n = EntryNode(d) /\ (pc = "chain" => Before(d))
    /\ EntryName(d) \in module_vars /\ (IsSigvar(d) => d \in Renamed)
IsParam(n) == \E d \in Params \cap Renamed : n = ParamNode(d)
IsShadow(n) == pc \in {"functions", "done"} /\ \E d \in referenced : n = Shadow(EntryNode(d))

Content == \A n \in h_ports : IsEntry(n) \/ IsParam(n) \/ IsShadow(n)

\* Two ports that keep their names have two names.
PortsApart ==
  \A d, e \in Entries(mod) \ Renamed :
    (EntryNode(d) \in h_ports /\ EntryNode(e) \in h_ports /\ EntryName(d) = EntryName(e)) => d = e

Referenced ==
  /\ referenced \subseteq {d \in Entries(mod) \cap Renamed : IsSigvar(d)}
  /\ \A d \in referenced : \E t \in DOMAIN mod.threads : d \in mod.threads[t]
  /\ \A t \in DOMAIN mod.threads : t < thread =>
       \A d \in mod.threads[t] \cap Renamed : IsSigvar(d) => d \in referenced
  /\ pc \in {"functions", "done"} => \A n \in h_ports : n.decl \in referenced => Shadow(n) \in h_ports

Inv == Types /\ Control /\ Table /\ Content /\ PortsApart /\ Referenced

(***************************************************************************)
(* Tuples with a part put in front.                                        *)
(***************************************************************************)
LEMMA FrontOne ==
  ASSUME NEW m, NEW a PROVE <<m>> \o <<a>> = <<m, a>>
<1> DEFINE S == {m, a}
           u == <<m>> \o <<a>>
<1>1. <<m>> \in Seq(S) /\ <<a>> \in Seq(S) /\ Len(<<m>>) = 1 /\ Len(<<a>>) = 1
  OBVIOUS
<1>2. u \in Seq(S) /\ Len(u) = 2 /\ u[1] = m /\ u[2] = a
  BY <1>1, ConcatProperties
<1> HIDE DEF u
<1>3. u = <<m, a>>
  BY <1>2
<1> QED BY <1>3 DEF u

LEMMA FrontTwo ==
  ASSUME NEW m, NEW a, NEW b PROVE <<m>> \o <<a, b>> = <<m, a, b>>
<1> DEFINE S == {m, a, b}
           u == <<m>> \o <<a, b>>
<1>1. <<m>> \in Seq(S) /\ <<a, b>> \in Seq(S) /\ Len(<<m>>) = 1 /\ Len(<<a, b>>) = 2
  OBVIOUS
<1>2. u \in Seq(S) /\ Len(u) = 3 /\ u[1] = m /\ u[2] = a /\ u[3] = b
  BY <1>1, ConcatProperties
<1> HIDE DEF u
<1>3. u = <<m, a, b>>
  BY <1>2
<1> QED BY <1>3 DEF u

LEMMA FrontThree ==
  ASSUME NEW m, NEW a, NEW b, NEW c PROVE <<m>> \o <<a, b, c>> = <<m, a, b, c>>
<1> DEFINE S == {m, a, b, c}
           u == <<m>> \o <<a, b, c>>
<1>1. <<m>> \in Seq(S) /\ <<a, b, c>> \in Seq(S) /\ Len(<<m>>) = 1 /\ Len(<<a, b, c>>) = 3
  OBVIOUS
<1>2. u \in Seq(S) /\ Len(u) = 4 /\ u[1] = m /\ u[2] = a /\ u[3] = b /\ u[4] = c
  BY <1>1, ConcatProperties
<1> HIDE DEF u
<1>3. u = <<m, a, b, c>>
  BY <1>2
<1> QED BY <1>3 DEF u

(***************************************************************************)
(* Entries, parameters and the names of the table.                         *)
(***************************************************************************)
LEMMA EntryFacts ==
  ASSUME IsModule(mod), NEW d \in Entries(mod)
  PROVE  /\ d = <<d[1], d[2], d[3]>> /\ d[1] \in Nat \ {0} /\ d[2] \in Nat \ {0} /\ d[3] \in Nat \ {0}
         /\ EntryName(d) \notin Nat /\ d \notin Params
<1>1. /\ d = <<d[1], d[2], d[3]>> /\ d[1] \in 1 .. Len(mod.chain) /\ d[2] \in 1 .. Len(ListOps)
      /\ d[3] \in 1 .. mod.maxEntries /\ d[3] <= Len(mod.chain[d[1]][d[2]])
  BY DEF Entries
<1>2. Len(ListOps) \in Nat /\ Len(mod.chain) \in Nat /\ mod.maxEntries \in Nat
  BY DEF IsModule, IsSequence, ListOps
<1>3. IsList(mod, mod.chain[d[1]][d[2]])
  BY <1>1, SMTT(30) DEF IsModule, IsSequence
<1>4. d[3] \in DOMAIN mod.chain[d[1]][d[2]]
  BY <1>1, <1>2, <1>3, SMTT(30) DEF IsList, IsSequence
<1>5. EntryName(d) \notin Nat
  BY <1>3, <1>4 DEF IsList, EntryName
<1>6. d \notin Params
  BY <1>1 DEF Params
<1> QED BY <1>1, <1>2, <1>5, <1>6

LEMMA ParamFacts ==
  ASSUME NEW d \in Params PROVE d = <<0, 0, d[3]>> /\ d[3] \in Nat
BY DEF Params

LEMMA RenamedFacts ==
  ASSUME Types
  PROVE  /\ Renamed \subseteq Decls /\ mod_vname_map.cnt \in Nat
         /\ \A d \in Renamed : LET n == mod_vname_map.map[d]
                               IN  n = <<n[1], n[2]>> /\ n[2] \in Nat /\ n # NoName
<1>1. /\ Renamed \subseteq Decls /\ mod_vname_map.cnt \in Nat
      /\ \A d \in Renamed : mod_vname_map.map[d] \in VarNames
  BY TableFacts DEF Types, VarTables, Renamed
<1>2. ASSUME NEW n \in VarNames PROVE n = <<n[1], n[2]>> /\ n[2] \in Nat /\ n # NoName
  <2>1. n = <<n[1], n[2]>> /\ n[2] \in Nat
    BY DEF VarNames
  <2>2. n # <<>>
    BY <2>1
  <2> QED BY <2>1, <2>2 DEF NoName
<1> QED BY <1>1, <1>2

LEMMA SameModule ==
  ASSUME mod' = mod
  PROVE  /\ (IsModule(mod)' <=> IsModule(mod)) /\ Entries(mod)' = Entries(mod) /\ Decls' = Decls
         /\ EntryNames' = EntryNames /\ VarTables' = VarTables
         /\ \A d : EntryName(d)' = EntryName(d)
<1>1. Entries(mod)' = Entries(mod)
  BY DEF Entries
<1>2. \A d : EntryName(d)' = EntryName(d)
  BY DEF EntryName
<1>3. IsModule(mod)' <=> IsModule(mod)
  OBVIOUS
<1>4. EntryNames' = EntryNames
  BY <1>1, <1>2 DEF EntryNames
<1>5. Decls' = Decls
  BY <1>1 DEF Decls
<1>6. VarTables' = VarTables
  BY <1>4, <1>5 DEF VarTables, VarNames
<1> QED BY <1>1, <1>2, <1>3, <1>4, <1>5, <1>6

LEMMA SameNodes ==
  ASSUME mod' = mod, mod_vname_map' = mod_vname_map
  PROVE  /\ Renamed' = Renamed
         /\ \A d : EntryNode(d)' = EntryNode(d) /\ ParamNode(d)' = ParamNode(d)
BY SameModule DEF Renamed, EntryNode, ParamNode

\* The copy of an entry for the threads.
LEMMA ShadowFacts ==
  ASSUME Types, NEW d \in Entries(mod), d \in Renamed
  PROVE  LET s == Shadow(EntryNode(d))
             n == mod_vname_map.map[d]
         IN  s = [decl |-> <<"_main_", d[1], d[2], d[3]>>, op |-> ListOps[d[2]],
                  name |-> <<"_main_", n[1], n[2]>>]
<1> DEFINE n == mod_vname_map.map[d]
<1>1. d = <<d[1], d[2], d[3]>> /\ n = <<n[1], n[2]>>
  BY EntryFacts, RenamedFacts DEF Types
<1>2. <<"_main_">> \o d = <<"_main_", d[1], d[2], d[3]>>
  BY <1>1, FrontThree
<1>3. <<"_main_">> \o n = <<"_main_", n[1], n[2]>>
  BY <1>1, FrontTwo
<1>4. EntryNode(d) = [decl |-> d, op |-> ListOps[d[2]], name |-> n]
  BY DEF EntryNode
<1>5. Shadow(EntryNode(d)) = [decl |-> <<"_main_">> \o d, op |-> ListOps[d[2]],
                              name |-> <<"_main_">> \o n]
  <2> DEFINE r == EntryNode(d)
  <2>1. r.decl = d /\ r.name = n /\ r.op = ListOps[d[2]]
    BY <1>4
  <2>2. Shadow(r) = [decl |-> <<"_main_">> \o r.decl, op |-> r.op, name |-> <<"_main_">> \o r.name]
    BY DEF Shadow
  <2> QED BY <2>1, <2>2, Zenon
<1> QED BY <1>2, <1>3, <1>5

\* A declaration of an entry is its node.
LEMMA EntryOnly ==
  ASSUME Types, Content, Referenced, NEW n \in h_ports, n.decl \in Entries(mod)
  PROVE  IsEntry(n) /\ n = EntryNode(n.decl)
<1>1. CASE IsEntry(n)
  BY <1>1 DEF IsEntry, EntryNode
<1>2. CASE IsParam(n)
  <2>1. n.decl \in Params
    BY <1>2 DEF IsParam, ParamNode
  <2> QED BY <2>1, EntryFacts DEF Types
<1>3. CASE IsShadow(n)
  <2>1. PICK d \in referenced : n = Shadow(EntryNode(d))
    BY <1>3 DEF IsShadow
  <2>2. n.decl = <<"_main_", d[1], d[2], d[3]>>
    BY <2>1, ShadowFacts DEF Referenced
  <2>3. n.decl = <<n.decl[1], n.decl[2], n.decl[3]>>
    BY EntryFacts DEF Types
  <2> QED BY <2>2, <2>3
<1> QED BY <1>1, <1>2, <1>3 DEF Content

(***************************************************************************)
(* The invariant.                                                          *)
(***************************************************************************)
LEMMA InvInit == Init => Inv
<1> SUFFICES ASSUME Init PROVE Inv
  OBVIOUS
<1>1. IsModule(mod)
  BY ModuleAssumption DEF Init
<1>2. mod_vname_map \in VarTables /\ Renamed = {} /\ h_ports = {} /\ referenced = {}
  BY NewNameMapFacts DEF Init, VarTables, Renamed
<1>3. Types
  BY <1>1, <1>2 DEF Init, Types
<1>4. Control
  BY DEF Init, Control
<1>5. Table /\ Content /\ PortsApart
  BY <1>2 DEF Table, Content, PortsApart
<1>6. Referenced
  BY <1>2 DEF Init, Referenced
<1> QED BY <1>3, <1>4, <1>5, <1>6 DEF Inv

\* A step that declares nothing.
LEMMA InvMoves ==
  ASSUME Inv, ReturnAtPointer \/ NextList \/ NextClass \/ ChainDone \/ Finish \/ UNCHANGED vars
  PROVE  Inv'
<1>1. /\ Types /\ Control /\ Table /\ Content /\ PortsApart /\ Referenced
      /\ UNCHANGED <<mod, thread, param, mod_vname_map, referenced, module_vars, h_ports>>
  BY DEF Inv, ReturnAtPointer, NextList, NextClass, ChainDone, Finish, vars
<1>2. /\ pc' \in {"chain", "threads", "functions", "done"} /\ cls' \in Nat \ {0}
      /\ lst' \in Nat \ {0} /\ pos' \in Nat \ {0}
      /\ pc' = "chain" => pc = "chain"
      /\ pc' = "threads" => pc \in {"chain", "threads"}
      /\ pc' \in {"functions", "done"} <=> pc \in {"functions", "done"}
  BY <1>1 DEF ReturnAtPointer, NextList, NextClass, ChainDone, Finish, vars, Types, InList
<1>3. ASSUME NEW d \in Entries(mod), Before(d), pc' = "chain" PROVE Before(d)'
  <2>1. /\ d[1] \in Nat /\ d[2] \in Nat /\ d[3] \in Nat /\ cls \in Nat /\ lst \in Nat
    BY <1>1, EntryFacts DEF Types
  <2>2. CASE ReturnAtPointer \/ NextList
    BY <1>3, <2>1, <2>2 DEF ReturnAtPointer, NextList, Before
  <2>3. CASE NextClass
    BY <1>3, <2>1, <2>3 DEF NextClass, Before
  <2>4. CASE ChainDone \/ Finish
    BY <1>3, <2>4 DEF ChainDone, Finish
  <2>5. CASE UNCHANGED vars
    BY <1>3, <2>5 DEF vars, Before
  <2> QED BY <2>2, <2>3, <2>4, <2>5
<1>4. /\ Entries(mod)' = Entries(mod) /\ Renamed' = Renamed
      /\ \A d : EntryNode(d)' = EntryNode(d) /\ ParamNode(d)' = ParamNode(d)
                /\ EntryName(d)' = EntryName(d)
  BY <1>1, SameModule, SameNodes
<1>5. Types'
  BY <1>1, <1>2, SameModule DEF Types
<1>6. Control'
  BY <1>1, <1>2 DEF Control
<1>7. Table'
  BY <1>1, <1>2, <1>3, <1>4 DEF Table
<1>8. Content'
  <2> SUFFICES ASSUME NEW n \in h_ports PROVE (IsEntry(n) \/ IsParam(n) \/ IsShadow(n))'
    BY <1>1 DEF Content
  <2>1. CASE IsEntry(n)
    BY <1>1, <1>2, <1>3, <1>4, <2>1 DEF IsEntry
  <2>2. CASE IsParam(n)
    BY <1>4, <2>2 DEF IsParam
  <2>3. CASE IsShadow(n)
    <3>1. PICK d \in referenced : n = Shadow(EntryNode(d))
      BY <2>3 DEF IsShadow
    <3>2. Shadow(EntryNode(d))' = Shadow(EntryNode(d))
      BY <1>4 DEF Shadow
    <3> QED BY <1>1, <1>2, <2>3, <3>1, <3>2 DEF IsShadow
  <2> QED BY <1>1, <2>1, <2>2, <2>3 DEF Content
<1>9. PortsApart'
  BY <1>1, <1>4 DEF PortsApart
<1>10. Referenced'
  BY <1>1, <1>2, <1>4 DEF Referenced
<1> QED BY <1>5, <1>6, <1>7, <1>8, <1>9, <1>10 DEF Inv

\* A name entered in the table for a new declaration d.
Entered(d, old) ==
  /\ mod_vname_map' \in VarTables /\ Renamed' = Renamed \cup {d}
  /\ \A e \in Renamed : mod_vname_map'.map[e] = mod_vname_map.map[e]
  /\ mod_vname_map'.map[d] = <<old, mod_vname_map.cnt>>
  /\ mod_vname_map'.cnt = mod_vname_map.cnt + 1

LEMMA EnterFacts ==
  ASSUME Types, Table, NEW d \in Decls, d \notin Renamed, NEW old,
         <<old, mod_vname_map.cnt>> \in VarNames,
         mod_vname_map' = add_entry(mod_vname_map, d, old)
  PROVE  /\ Entered(d, old)
         /\ \A e \in Renamed' : mod_vname_map'.map[e][2] < mod_vname_map'.cnt
         /\ \A e, f \in Renamed' : mod_vname_map'.map[e] = mod_vname_map'.map[f] => e = f
<1> DEFINE t == mod_vname_map
           u == mod_vname_map'
<1>1. /\ u \in VarTables /\ Renamed' = Renamed \cup {d}
      /\ \A e \in Renamed : u.map[e] = t.map[e]
      /\ u.map[d] = <<old, t.cnt>> /\ u.cnt = t.cnt + 1
  BY AddEntryFacts DEF Types, VarTables, Renamed
<1>2. t.cnt \in Nat /\ \A e \in Renamed : t.map[e][2] \in Nat /\ t.map[e][2] < t.cnt
  BY RenamedFacts DEF Table
<1>3. \A e, f \in Renamed : t.map[e] = t.map[f] => e = f
  BY DEF Table
<1>4. u.map[d][2] = t.cnt
  BY <1>1
<1>5. ASSUME NEW e \in Renamed' PROVE u.map[e][2] < u.cnt
  <2>1. CASE e = d
    BY <1>1, <1>2, <1>4, <2>1
  <2>2. CASE e \in Renamed
    BY <1>1, <1>2, <2>2
  <2> QED BY <1>1, <2>1, <2>2
<1>6. ASSUME NEW e \in Renamed', NEW f \in Renamed', u.map[e] = u.map[f] PROVE e = f
  <2>1. ASSUME NEW g \in Renamed PROVE u.map[g][2] # t.cnt
    BY <1>1, <1>2
  <2>2. CASE e \in Renamed /\ f \in Renamed
    BY <1>1, <1>3, <1>6, <2>2
  <2>3. CASE e = d \/ f = d
    BY <1>1, <1>4, <1>6, <2>1, <2>3
  <2> QED BY <1>1, <2>2, <2>3
<1> QED BY <1>1, <1>5, <1>6 DEF Entered

\* The nodes of the other declarations stay.
LEMMA NodesStay ==
  ASSUME mod' = mod, NEW d,
         \A e : e # d => (e \in Renamed' <=> e \in Renamed),
         \A e \in Renamed : mod_vname_map'.map[e] = mod_vname_map.map[e]
  PROVE  \A e : e # d => /\ EntryNode(e)' = EntryNode(e)
                         /\ e \in Renamed => ParamNode(e)' = ParamNode(e)
<1> SUFFICES ASSUME NEW e, e # d
             PROVE  /\ EntryNode(e)' = EntryNode(e)
                    /\ e \in Renamed => ParamNode(e)' = ParamNode(e)
  OBVIOUS
<1>1. EntryName(e)' = EntryName(e)
  BY SameModule
<1>2. CASE e \in Renamed
  BY <1>1, <1>2 DEF EntryNode, ParamNode
<1>3. CASE e \notin Renamed
  BY <1>1, <1>3 DEF EntryNode
<1> QED BY <1>2, <1>3

LEMMA InvDeclare ==
  ASSUME Inv, DeclareEntry PROVE Inv'
<1> DEFINE d == <<cls, lst, pos>>
           name == List[pos].name
           new == ListOps[lst] \in {"hSigdecl", "hVardecl"} \/ name \in module_vars
<1>1. /\ Types /\ Control /\ Table /\ Content /\ PortsApart /\ Referenced
      /\ UNCHANGED <<mod, pc, cls, lst, thread, param, referenced>> /\ pos' = pos + 1
      /\ pc = "chain" /\ param = 1 /\ thread = 1 /\ referenced = {}
  BY DEF Inv, DeclareEntry, InList, Control
<1>2. d \in Entries(mod) /\ d[1] = cls /\ d[2] = lst /\ d[3] = pos /\ name = EntryName(d)
  <2>1. cls \in 1 .. Len(mod.chain) /\ lst \in 1 .. Len(ListOps) /\ pos <= Len(List)
    <3>1. Len(mod.chain) \in Nat /\ Len(ListOps) \in Nat
      BY <1>1 DEF Types, IsModule, IsSequence, ListOps
    <3>2. cls <= Len(mod.chain) /\ lst <= Len(ListOps) /\ pos <= Len(List)
      BY DEF DeclareEntry, InList
    <3> QED BY <1>1, <3>1, <3>2 DEF Types
  <2>2. IsList(mod, List)
    BY <1>1, <2>1 DEF Types, IsModule, IsSequence, List
  <2>3. pos \in 1 .. mod.maxEntries
    BY <1>1, <2>1, <2>2 DEF Types, IsModule, IsList, IsSequence
  <2> QED BY <2>1, <2>3 DEF Entries, List, EntryName
<1>3. ~Before(d) /\ \A e \in Entries(mod) : Before(e) => Before(e)'
  <2>1. cls \in Nat /\ lst \in Nat /\ pos \in Nat
    BY <1>1 DEF Types
  <2>2. \A e \in Entries(mod) : e[1] \in Nat /\ e[2] \in Nat /\ e[3] \in Nat
    BY <1>1, EntryFacts DEF Types
  <2> HIDE DEF d
  <2>3. ~Before(d)
    BY <1>2, <2>1 DEF Before
  <2>4. \A e \in Entries(mod) : Before(e) => Before(e)'
    BY <1>1, <2>1, <2>2 DEF Before
  <2> QED BY <2>3, <2>4
<1>4. d \notin Renamed
  BY <1>1, <1>2, <1>3 DEF Table
<1>5. /\ mod_vname_map' = IF new THEN add_entry(mod_vname_map, d, name) ELSE mod_vname_map
      /\ h_ports' = h_ports \cup {Declaration(d, name, ListOps[lst])}
      /\ module_vars' = module_vars \cup {name}
  BY DEF DeclareEntry, RenameEntry
<1>6. PICK x : x = d
  OBVIOUS
<1>7. PICK nm : nm = name
  OBVIOUS
<1>8. /\ x \in Entries(mod) /\ x \notin Renamed /\ x[2] = lst /\ nm = EntryName(x)
      /\ ~Before(x) /\ Before(x)' /\ \A e \in Entries(mod) : Before(e) => Before(e)'
  <2>1. x[1] = cls /\ x[2] = lst /\ x[3] = pos
    BY <1>2, <1>6
  <2>2. pos < pos + 1
    BY <1>1 DEF Types
  <2>3. Before(x)'
    BY <1>1, <2>1, <2>2 DEF Before
  <2> QED BY <1>2, <1>3, <1>4, <1>6, <1>7, <2>1, <2>3
<1>9. /\ mod_vname_map' = IF new THEN add_entry(mod_vname_map, x, nm) ELSE mod_vname_map
      /\ h_ports' = h_ports \cup {Declaration(x, nm, ListOps[lst])}
      /\ module_vars' = module_vars \cup {nm}
      /\ new <=> (IsSigvar(x) \/ nm \in module_vars)
  BY <1>5, <1>6, <1>7, <1>8 DEF IsSigvar
<1> HIDE DEF d, name, new
<1>10. new => Entered(x, nm)
  <2>1. x \in Decls /\ <<nm, mod_vname_map.cnt>> \in VarNames
    BY <1>1, <1>8, RenamedFacts DEF Decls, VarNames, EntryNames
  <2> QED BY <1>1, <1>8, <1>9, <2>1, EnterFacts
<1>11. /\ mod_vname_map' \in VarTables
       /\ \A e \in Renamed' : mod_vname_map'.map[e][2] < mod_vname_map'.cnt
       /\ \A e, f \in Renamed' : mod_vname_map'.map[e] = mod_vname_map'.map[f] => e = f
  <2>1. CASE new
    <3>1. x \in Decls /\ <<nm, mod_vname_map.cnt>> \in VarNames
      BY <1>1, <1>8, RenamedFacts DEF Decls, VarNames, EntryNames
    <3> QED BY <1>1, <1>8, <1>9, <2>1, <3>1, EnterFacts DEF Entered
  <2>2. CASE ~new
    BY <1>1, <1>9, <2>2 DEF Table, Types, Renamed
  <2> QED BY <2>1, <2>2
<1>12. /\ \A e : e # x => (e \in Renamed' <=> e \in Renamed)
       /\ \A e \in Renamed : mod_vname_map'.map[e] = mod_vname_map.map[e]
       /\ x \in Renamed' <=> new
  <2>1. CASE new
    BY <1>8, <1>10, <2>1 DEF Entered
  <2>2. CASE ~new
    BY <1>8, <1>9, <2>2 DEF Renamed
  <2> QED BY <2>1, <2>2
<1>13. \A e : e # x => /\ EntryNode(e)' = EntryNode(e)
                       /\ e \in Renamed => ParamNode(e)' = ParamNode(e)
  BY <1>1, <1>12, NodesStay
<1>14. Types'
  <2>1. module_vars' \subseteq EntryNames
    BY <1>1, <1>8, <1>9 DEF Types, EntryNames
  <2> QED BY <1>1, <1>11, <2>1, SameModule DEF Types
<1>15. Control'
  BY <1>1 DEF Control
<1>16. Table'
  <2>1. x \notin Params
    BY <1>1, <1>8, EntryFacts DEF Types
  <2>2. Entries(mod)' = Entries(mod)
    BY <1>1, SameModule
  <2>3. \A e \in Renamed' \cap Entries(mod) : Before(e)'
    BY <1>1, <1>8, <1>12 DEF Table
  <2>4. \A e \in Renamed' \cap Params : e[3] < param
    BY <1>1, <1>12, <2>1 DEF Table
  <2> QED BY <1>1, <1>11, <2>2, <2>3, <2>4 DEF Table
<1>17. Declaration(x, nm, ListOps[lst]) = EntryNode(x)'
  <2>1. EntryName(x)' = nm
    BY <1>1, <1>8, SameModule
  <2>2. CASE new
    <3>1. x \in Renamed' /\ mod_vname_map'.map[x] = <<nm, mod_vname_map.cnt>>
      BY <1>10, <1>12, <2>2 DEF Entered
    <3>2. <<nm, mod_vname_map.cnt>> # NoName
      BY DEF NoName
    <3> QED BY <1>8, <3>1, <3>2 DEF Declaration, EntryNode, find_entry_newn, Renamed
  <2>3. CASE ~new
    <3>1. x \notin Renamed'
      BY <1>12, <2>3
    <3> QED BY <1>8, <2>1, <3>1 DEF Declaration, EntryNode, find_entry_newn, Renamed
  <2> QED BY <2>2, <2>3
<1>18. Content'
  <2>1. ASSUME NEW n \in h_ports PROVE (IsEntry(n) \/ IsParam(n))'
    <3>1. CASE IsEntry(n)
      <4>1. PICK e \in Entries(mod) : /\ n = EntryNode(e) /\ Before(e)
                                      /\ EntryName(e) \in module_vars /\ (IsSigvar(e) => e \in Renamed)
        BY <1>1, <3>1 DEF IsEntry
      <4>2. e # x
        BY <1>8, <4>1
      <4>3. /\ e \in Entries(mod)' /\ n = EntryNode(e)' /\ Before(e)'
            /\ EntryName(e)' \in module_vars' /\ (IsSigvar(e) => e \in Renamed')
        BY <1>1, <1>8, <1>9, <1>12, <1>13, <4>1, <4>2, SameModule
      <4> QED BY <4>3 DEF IsEntry
    <3>2. CASE IsParam(n)
      <4>1. PICK e \in Params \cap Renamed : n = ParamNode(e)
        BY <3>2 DEF IsParam
      <4>2. e # x
        BY <1>8, <4>1
      <4> QED BY <1>12, <1>13, <4>1, <4>2 DEF IsParam
    <3>3. CASE IsShadow(n)
      BY <1>1, <3>3 DEF IsShadow
    <3> QED BY <1>1, <3>1, <3>2, <3>3 DEF Content
  <2>2. ASSUME NEW n, n = EntryNode(x)' PROVE IsEntry(n)'
    <3>1. /\ x \in Entries(mod)' /\ Before(x)' /\ EntryName(x)' \in module_vars'
          /\ (IsSigvar(x) => x \in Renamed')
      BY <1>1, <1>8, <1>9, <1>12, SameModule
    <3> QED BY <2>2, <3>1 DEF IsEntry
  <2> QED BY <1>9, <1>17, <2>1, <2>2 DEF Content
<1>19. PortsApart'
  <2>1. ASSUME NEW e \in Entries(mod) \ Renamed', e # x, EntryNode(e)' \in h_ports'
        PROVE  EntryNode(e) \in h_ports /\ e \notin Renamed /\ EntryName(e) \in module_vars
    <3>1. EntryNode(e)' # EntryNode(x)' /\ EntryNode(e)' = EntryNode(e)
      BY <1>13, <2>1 DEF EntryNode
    <3>2. EntryNode(e) \in h_ports /\ EntryNode(e).decl = e
      BY <1>9, <1>17, <2>1, <3>1 DEF EntryNode
    <3>3. IsEntry(EntryNode(e))
      BY <1>1, <3>2, EntryOnly
    <3>4. PICK f \in Entries(mod) : EntryNode(e) = EntryNode(f) /\ EntryName(f) \in module_vars
      BY <3>3 DEF IsEntry
    <3>5. e = f
      BY <3>4 DEF EntryNode
    <3> QED BY <1>12, <2>1, <3>2, <3>4, <3>5
  <2>2. ASSUME x \notin Renamed' PROVE nm \notin module_vars
    BY <1>9, <1>12, <2>2
  <2> SUFFICES ASSUME NEW e \in Entries(mod) \ Renamed', NEW f \in Entries(mod) \ Renamed',
                      EntryNode(e)' \in h_ports', EntryNode(f)' \in h_ports',
                      EntryName(e) = EntryName(f)
               PROVE  e = f
    BY <1>1, SameModule DEF PortsApart
  <2>3. CASE e # x /\ f # x
    BY <1>1, <2>1, <2>3 DEF PortsApart
  <2>4. CASE e = x \/ f = x
    BY <1>8, <2>1, <2>2, <2>4
  <2> QED BY <2>3, <2>4
<1>20. Referenced'
  <2>1. \A t \in DOMAIN mod.threads : ~(t < thread)
    BY <1>1 DEF Types, IsModule, IsSequence
  <2> QED BY <1>1, <2>1 DEF Referenced
<1> QED BY <1>14, <1>15, <1>16, <1>18, <1>19, <1>20 DEF Inv

LEMMA InvTranslateThread ==
  ASSUME Inv, TranslateThread PROVE Inv'
<1> DEFINE hit == {d \in mod.threads[thread] \cap Renamed : IsSigvar(d)}
<1>1. /\ Types /\ Control /\ Table /\ Content /\ PortsApart /\ Referenced
      /\ UNCHANGED <<mod, pc, cls, lst, pos, param, mod_vname_map, module_vars, h_ports>>
      /\ pc = "threads" /\ thread \in DOMAIN mod.threads /\ thread' = thread + 1
      /\ referenced' = referenced \cup hit
  <2>1. Types /\ thread <= Len(mod.threads)
    BY DEF Inv, TranslateThread
  <2>2. thread \in DOMAIN mod.threads
    BY <2>1 DEF Types, IsModule, IsSequence
  <2> QED BY <2>2 DEF Inv, TranslateThread, Renamed
<1>2. /\ Entries(mod)' = Entries(mod) /\ Renamed' = Renamed
      /\ \A d : EntryNode(d)' = EntryNode(d) /\ ParamNode(d)' = ParamNode(d)
                /\ EntryName(d)' = EntryName(d)
  BY <1>1, SameModule, SameNodes
<1>3. Types'
  BY <1>1, SameModule DEF Types
<1>4. Control'
  BY <1>1 DEF Control
<1>5. Table'
  BY <1>1, <1>2 DEF Table
<1>6. Content'
  <2> SUFFICES ASSUME NEW n \in h_ports PROVE (IsEntry(n) \/ IsParam(n) \/ IsShadow(n))'
    BY <1>1 DEF Content
  <2>1. CASE IsEntry(n)
    BY <1>1, <1>2, <2>1 DEF IsEntry
  <2>2. CASE IsParam(n)
    BY <1>2, <2>2 DEF IsParam
  <2>3. CASE IsShadow(n)
    BY <1>1, <2>3 DEF IsShadow
  <2> QED BY <1>1, <2>1, <2>2, <2>3 DEF Content
<1>7. PortsApart'
  BY <1>1, <1>2 DEF PortsApart
<1>8. Referenced'
  <2>1. hit \subseteq {d \in Entries(mod) \cap Renamed : IsSigvar(d)}
    BY <1>1 DEF Types, IsModule
  <2>2. \A t \in DOMAIN mod.threads : t < thread + 1 => t < thread \/ t = thread
    BY <1>1 DEF Types, IsModule, IsSequence
  <2>3. ASSUME NEW t \in DOMAIN mod.threads, t < thread',
               NEW d \in mod.threads[t] \cap Renamed, IsSigvar(d)
        PROVE  d \in referenced'
    <3>1. CASE t < thread
      BY <1>1, <2>3, <3>1 DEF Referenced
    <3>2. CASE t = thread
      BY <1>1, <2>3, <3>2
    <3> QED BY <1>1, <2>2, <2>3, <3>1, <3>2
  <2>4. referenced' \subseteq {d \in Entries(mod) \cap Renamed : IsSigvar(d)}
    BY <1>1, <2>1 DEF Referenced
  <2>5. \A d \in referenced' : \E t \in DOMAIN mod.threads : d \in mod.threads[t]
    BY <1>1 DEF Referenced
  <2> QED BY <1>1, <1>2, <2>3, <2>4, <2>5 DEF Referenced
<1> QED BY <1>3, <1>4, <1>5, <1>6, <1>7, <1>8 DEF Inv

\* The declaration of a copy is none of an entry.
LEMMA ShadowDecl ==
  ASSUME Types, NEW d \in Entries(mod), d \in Renamed
  PROVE  Shadow(EntryNode(d)).decl \notin Entries(mod)
<1>1. Shadow(EntryNode(d)).decl = <<"_main_", d[1], d[2], d[3]>>
  BY ShadowFacts
<1>2. ASSUME NEW e \in Entries(mod) PROVE e # <<"_main_", d[1], d[2], d[3]>>
  <2>1. e = <<e[1], e[2], e[3]>>
    BY EntryFacts DEF Types
  <2> QED BY <2>1
<1> QED BY <1>1, <1>2

LEMMA InvAddShadows ==
  ASSUME Inv, AddShadows PROVE Inv'
<1>1. /\ Types /\ Control /\ Table /\ Content /\ PortsApart /\ Referenced
      /\ UNCHANGED <<mod, cls, lst, pos, thread, param, mod_vname_map, referenced, module_vars>>
      /\ pc = "threads" /\ thread > Len(mod.threads) /\ pc' = "functions"
      /\ h_ports' = h_ports \cup {Shadow(n) : n \in {x \in h_ports : x.decl \in referenced}}
  BY DEF Inv, AddShadows
<1>2. /\ Entries(mod)' = Entries(mod) /\ Renamed' = Renamed
      /\ \A d : EntryNode(d)' = EntryNode(d) /\ ParamNode(d)' = ParamNode(d)
                /\ EntryName(d)' = EntryName(d)
  BY <1>1, SameModule, SameNodes
<1>3. ASSUME NEW k \in h_ports', k \notin h_ports
      PROVE  \E d \in referenced : k = Shadow(EntryNode(d))
  <2>1. PICK n \in h_ports : n.decl \in referenced /\ k = Shadow(n)
    BY <1>1, <1>3
  <2>2. n.decl \in Entries(mod)
    BY <1>1, <2>1 DEF Referenced
  <2>3. n = EntryNode(n.decl)
    BY <1>1, <2>2, EntryOnly
  <2> QED BY <2>1, <2>3
<1>4. ASSUME NEW k \in h_ports', k.decl \in Entries(mod) PROVE k \in h_ports
  <2> SUFFICES ASSUME k \notin h_ports PROVE FALSE
    OBVIOUS
  <2>1. PICK d \in referenced : k = Shadow(EntryNode(d))
    BY <1>3
  <2>2. d \in Entries(mod) /\ d \in Renamed
    BY <1>1, <2>1 DEF Referenced
  <2> QED BY <1>1, <1>4, <2>1, <2>2, ShadowDecl
<1>5. Types'
  BY <1>1, SameModule DEF Types
<1>6. Control'
  BY <1>1 DEF Control
<1>7. Table'
  BY <1>1, <1>2 DEF Table
<1>8. Content'
  <2>1. ASSUME NEW n \in h_ports PROVE (IsEntry(n) \/ IsParam(n))'
    <3>1. CASE IsEntry(n)
      BY <1>1, <1>2, <3>1 DEF IsEntry
    <3>2. CASE IsParam(n)
      BY <1>2, <3>2 DEF IsParam
    <3>3. CASE IsShadow(n)
      BY <1>1, <3>3 DEF IsShadow
    <3> QED BY <1>1, <3>1, <3>2, <3>3 DEF Content
  <2>2. ASSUME NEW n \in h_ports', n \notin h_ports PROVE IsShadow(n)'
    <3>1. PICK d \in referenced : n = Shadow(EntryNode(d))
      BY <1>3, <2>2
    <3>2. Shadow(EntryNode(d))' = Shadow(EntryNode(d))
      BY <1>2 DEF Shadow
    <3> QED BY <1>1, <3>1, <3>2 DEF IsShadow
  <2> QED BY <2>1, <2>2 DEF Content
<1>9. PortsApart'
  <2>1. ASSUME NEW d \in Entries(mod), EntryNode(d)' \in h_ports' PROVE EntryNode(d) \in h_ports
    BY <1>2, <1>4, <2>1 DEF EntryNode
  <2> QED BY <1>1, <1>2, <2>1 DEF PortsApart
<1>10. Referenced'
  <2>1. ASSUME NEW n \in h_ports', n.decl \in referenced PROVE Shadow(n) \in h_ports'
    <3>1. n \in h_ports
      BY <1>1, <1>4, <2>1 DEF Referenced
    <3> QED BY <1>1, <2>1, <3>1
  <2>2. \A n : Shadow(n)' = Shadow(n)
    BY DEF Shadow
  <2> QED BY <1>1, <1>2, <2>1, <2>2 DEF Referenced
<1> QED BY <1>5, <1>6, <1>7, <1>8, <1>9, <1>10 DEF Inv

LEMMA InvDeclareParameter ==
  ASSUME Inv, DeclareParameter PROVE Inv'
<1>1. /\ Types /\ Control /\ Table /\ Content /\ PortsApart /\ Referenced
      /\ UNCHANGED <<mod, pc, cls, lst, pos, thread, referenced, module_vars>>
      /\ pc = "functions" /\ param' = param + 1 /\ param \in Nat
  BY DEF Inv, DeclareParameter, Types
<1>2. PICK x : x = <<0, 0, param>>
  OBVIOUS
<1>3. PICK nm : nm = mod.params[param]
  OBVIOUS
<1>4. /\ mod_vname_map' = add_entry(mod_vname_map, x, nm)
      /\ h_ports' = h_ports \cup {Declaration(x, nm, "hVardecl")}
  BY <1>2, <1>3 DEF DeclareParameter
<1>5. x \in Params /\ x[3] = param /\ x \in Decls /\ x \notin Renamed /\ x \notin Entries(mod)
  <2>1. x \in Params /\ x[3] = param
    BY <1>1, <1>2 DEF Params
  <2>2. x \notin Renamed
    BY <1>1, <2>1 DEF Table
  <2>3. x \notin Entries(mod)
    BY <1>1, <2>1, EntryFacts DEF Types
  <2> QED BY <2>1, <2>2, <2>3 DEF Decls
<1>6. <<nm, mod_vname_map.cnt>> \in VarNames
  <2>1. param \in DOMAIN mod.params
    BY <1>1 DEF Types, IsModule, IsSequence, DeclareParameter
  <2>2. mod_vname_map.cnt \in Nat
    BY <1>1, RenamedFacts
  <2> QED BY <1>3, <2>1, <2>2 DEF VarNames
<1>7. /\ Entered(x, nm)
      /\ \A e \in Renamed' : mod_vname_map'.map[e][2] < mod_vname_map'.cnt
      /\ \A e, f \in Renamed' : mod_vname_map'.map[e] = mod_vname_map'.map[f] => e = f
  BY <1>1, <1>4, <1>5, <1>6, EnterFacts
<1>8. /\ Entries(mod)' = Entries(mod)
      /\ \A e : e # x => (e \in Renamed' <=> e \in Renamed)
      /\ \A e \in Renamed : mod_vname_map'.map[e] = mod_vname_map.map[e]
      /\ \A e : EntryName(e)' = EntryName(e)
  BY <1>1, <1>7, SameModule DEF Entered
<1>9. \A e : e # x => /\ EntryNode(e)' = EntryNode(e)
                      /\ e \in Renamed => ParamNode(e)' = ParamNode(e)
  BY <1>1, <1>8, NodesStay
<1>10. Declaration(x, nm, "hVardecl") = ParamNode(x)'
  <2>1. x \in Renamed' /\ mod_vname_map'.map[x] = <<nm, mod_vname_map.cnt>>
    BY <1>7 DEF Entered
  <2>2. <<nm, mod_vname_map.cnt>> # NoName
    BY DEF NoName
  <2> QED BY <2>1, <2>2 DEF Declaration, ParamNode, find_entry_newn, Renamed
<1>11. ASSUME NEW n \in h_ports', n.decl \in Entries(mod) PROVE n \in h_ports
  <2>1. ParamNode(x)'.decl = x
    BY DEF ParamNode
  <2> QED BY <1>4, <1>5, <1>10, <1>11, <2>1
<1>12. Types'
  BY <1>1, <1>7, SameModule DEF Types, Entered
<1>13. Control'
  BY <1>1 DEF Control
<1>14. Table'
  <2>1. \A e \in Renamed' \cap Params : e[3] < param + 1
    <3>1. ASSUME NEW e \in Renamed' \cap Params, e # x PROVE e[3] < param + 1
      <4>1. e[3] \in Nat /\ e[3] < param
        BY <1>1, <1>8, <3>1, ParamFacts DEF Table
      <4> QED BY <1>1, <4>1
    <3>2. x[3] < param + 1
      BY <1>1, <1>5
    <3> QED BY <3>1, <3>2
  <2> QED BY <1>1, <1>7, <2>1 DEF Table
<1>15. Content'
  <2>1. ASSUME NEW n \in h_ports PROVE (IsEntry(n) \/ IsParam(n) \/ IsShadow(n))'
    <3>1. CASE IsEntry(n)
      <4>1. PICK e \in Entries(mod) : /\ n = EntryNode(e) /\ EntryName(e) \in module_vars
                                      /\ (IsSigvar(e) => e \in Renamed)
        BY <1>1, <3>1 DEF IsEntry
      <4>2. e # x
        BY <1>5, <4>1
      <4>3. /\ e \in Entries(mod)' /\ n = EntryNode(e)' /\ EntryName(e)' \in module_vars'
            /\ (IsSigvar(e) => e \in Renamed')
        BY <1>1, <1>8, <1>9, <4>1, <4>2
      <4>4. pc' # "chain"
        BY <1>1
      <4> QED BY <4>3, <4>4 DEF IsEntry
    <3>2. CASE IsParam(n)
      <4>1. PICK e \in Params \cap Renamed : n = ParamNode(e)
        BY <3>2 DEF IsParam
      <4>2. e # x
        BY <1>5, <4>1
      <4> QED BY <1>8, <1>9, <4>1, <4>2 DEF IsParam
    <3>3. CASE IsShadow(n)
      <4>1. PICK e \in referenced : n = Shadow(EntryNode(e))
        BY <3>3 DEF IsShadow
      <4>2. e # x
        BY <1>1, <1>5, <4>1 DEF Referenced
      <4>3. Shadow(EntryNode(e))' = Shadow(EntryNode(e))
        BY <1>9, <4>2 DEF Shadow
      <4> QED BY <1>1, <4>1, <4>3 DEF IsShadow
    <3> QED BY <1>1, <3>1, <3>2, <3>3 DEF Content
  <2>2. ASSUME NEW n, n = ParamNode(x)' PROVE IsParam(n)'
    BY <1>5, <1>7, <2>2 DEF IsParam, Entered
  <2> QED BY <1>4, <1>10, <2>1, <2>2 DEF Content
<1>16. PortsApart'
  <2>1. ASSUME NEW e \in Entries(mod) \ Renamed', EntryNode(e)' \in h_ports'
        PROVE  EntryNode(e) \in h_ports /\ e \notin Renamed
    <3>1. e # x
      BY <1>5, <2>1
    <3>2. EntryNode(e)' = EntryNode(e) /\ EntryNode(e).decl = e
      BY <1>9, <3>1 DEF EntryNode
    <3> QED BY <1>8, <1>11, <2>1, <3>1, <3>2
  <2> QED BY <1>1, <1>8, <2>1 DEF PortsApart
<1>17. Referenced'
  <2>1. referenced \subseteq {d \in Entries(mod) \cap Renamed' : IsSigvar(d)}
    BY <1>1, <1>5, <1>8 DEF Referenced
  <2>2. ASSUME NEW t \in DOMAIN mod.threads, t < thread,
               NEW d \in mod.threads[t] \cap Renamed', IsSigvar(d)
        PROVE  d \in referenced
    <3>1. d \in Entries(mod)
      BY <1>1 DEF Types, IsModule
    <3> QED BY <1>1, <1>5, <1>8, <2>2, <3>1 DEF Referenced
  <2>3. ASSUME NEW n \in h_ports', n.decl \in referenced PROVE Shadow(n) \in h_ports'
    <3>1. n \in h_ports
      BY <1>1, <1>11, <2>3 DEF Referenced
    <3> QED BY <1>1, <1>4, <2>3, <3>1 DEF Referenced
  <2>4. \A n : Shadow(n)' = Shadow(n)
    BY DEF Shadow
  <2> QED BY <1>1, <1>8, <2>1, <2>2, <2>3, <2>4 DEF Referenced
<1> QED BY <1>12, <1>13, <1>14, <1>15, <1>16, <1>17 DEF Inv

LEMMA InvStep == Inv /\ [Next]_vars => Inv'
BY InvMoves, InvDeclare, InvTranslateThread, InvAddShadows, InvDeclareParameter DEF Next

LEMMA AlwaysInv == Spec => []Inv
BY InvInit, InvStep, PTL DEF Spec

(***************************************************************************)
(* The properties of the run.                                              *)
(***************************************************************************)
\* The tables and bits that SCport2hcode and SCsig2hcode fill hold only entries of
\* the module's own chain and parameters of its functions.
THEOREM VariableTypes == Spec => []TypeOK
<1>1. Inv => TypeOK
  <2> SUFFICES ASSUME Inv PROVE TypeOK
    OBVIOUS
  <2>1. Types /\ Referenced
    BY DEF Inv
  <2>2. Renamed \subseteq Entries(mod) \cup ({0} \X {0} \X Nat)
    BY <2>1, RenamedFacts DEF Decls, Params
  <2>3. referenced \subseteq Entries(mod)
    BY <2>1 DEF Referenced
  <2>4. module_vars \subseteq {mod.chain[e[1]][e[2]][e[3]].name : e \in Entries(mod)}
    BY <2>1 DEF Types, EntryNames, EntryName
  <2> QED BY <2>1, <2>2, <2>3, <2>4 DEF TypeOK, Types, Renamed
<1> QED BY <1>1, AlwaysInv, PTL

\* The three kinds of names.
Kept(n) == \E d \in Entries(mod) \ Renamed : n = EntryNode(d) /\ n.name = <<EntryName(d)>>
TableNode(d) == IF d \in Entries(mod) THEN EntryNode(d) ELSE ParamNode(d)
Named(n) == \E d \in Renamed : n = TableNode(d) /\ n.name = mod_vname_map.map[d]
Copied(n) ==
  \E d \in referenced : n = Shadow(EntryNode(d)) /\
    LET v == mod_vname_map.map[d] IN n.name = <<"_main_", v[1], v[2]>>

LEMMA Kinds ==
  ASSUME Inv, NEW n \in h_ports PROVE Kept(n) \/ Named(n) \/ Copied(n)
<1>1. Types /\ Content /\ Referenced
  BY DEF Inv
<1>2. CASE IsEntry(n)
  <2>1. PICK d \in Entries(mod) : n = EntryNode(d)
    BY <1>2 DEF IsEntry
  <2>2. CASE d \in Renamed
    <3>1. n.name = mod_vname_map.map[d] /\ n = TableNode(d)
      BY <2>1, <2>2 DEF EntryNode, TableNode
    <3> QED BY <2>2, <3>1 DEF Named
  <2>3. CASE d \notin Renamed
    <3>1. n.name = <<EntryName(d)>>
      BY <2>1, <2>3 DEF EntryNode
    <3> QED BY <2>1, <2>3, <3>1 DEF Kept
  <2> QED BY <2>2, <2>3
<1>3. CASE IsParam(n)
  <2>1. PICK d \in Params \cap Renamed : n = ParamNode(d)
    BY <1>3 DEF IsParam
  <2>2. d \notin Entries(mod)
    BY <1>1, <2>1, EntryFacts DEF Types
  <2>3. n.name = mod_vname_map.map[d] /\ n = TableNode(d)
    BY <2>1, <2>2 DEF ParamNode, TableNode
  <2> QED BY <2>1, <2>3 DEF Named
<1>4. CASE IsShadow(n)
  <2>1. PICK d \in referenced : n = Shadow(EntryNode(d))
    BY <1>4 DEF IsShadow
  <2>2. d \in Entries(mod) /\ d \in Renamed
    BY <1>1, <2>1 DEF Referenced
  <2>3. n.name = <<"_main_", mod_vname_map.map[d][1], mod_vname_map.map[d][2]>>
    BY <1>1, <2>1, <2>2, ShadowFacts
  <2> QED BY <2>1, <2>3 DEF Copied
<1> QED BY <1>1, <1>2, <1>3, <1>4 DEF Content

\* The number of parts of a name tells its kind.
LEMMA KindsApart ==
  ASSUME Inv, NEW n, NEW k, n.name = k.name
  PROVE  /\ ~(Kept(n) /\ Named(k)) /\ ~(Kept(n) /\ Copied(k)) /\ ~(Named(n) /\ Copied(k))
<1>1. /\ \A d \in Renamed : LET v == mod_vname_map.map[d] IN v = <<v[1], v[2]>>
  BY RenamedFacts DEF Inv
<1>2. ASSUME Kept(n) PROVE \E a : n.name = <<a>>
  BY <1>2 DEF Kept
<1>3. ASSUME NEW x, Named(x) PROVE \E a, b : x.name = <<a, b>>
  BY <1>1, <1>3 DEF Named
<1>4. ASSUME Copied(k) PROVE \E a, b, c : k.name = <<a, b, c>>
  BY <1>4 DEF Copied
<1>5. \A a, b, c, d, e : <<a>> # <<b, c>> /\ <<a>> # <<b, c, d>> /\ <<a, b>> # <<c, d, e>>
  OBVIOUS
<1> QED BY <1>2, <1>3, <1>4, <1>5

LEMMA NamesApart == Inv => DeclaredNamesDistinct
<1> SUFFICES ASSUME Inv, NEW n \in h_ports, NEW k \in h_ports, n.name = k.name PROVE n = k
  BY DEF DeclaredNamesDistinct
<1>1. Types /\ Table /\ PortsApart /\ Referenced
  BY DEF Inv
<1>2. /\ Kept(n) \/ Named(n) \/ Copied(n)
      /\ Kept(k) \/ Named(k) \/ Copied(k)
  BY Kinds
<1>3. CASE Kept(n) /\ Kept(k)
  <2>1. PICK d \in Entries(mod) \ Renamed : n = EntryNode(d) /\ n.name = <<EntryName(d)>>
    BY <1>3 DEF Kept
  <2>2. PICK e \in Entries(mod) \ Renamed : k = EntryNode(e) /\ k.name = <<EntryName(e)>>
    BY <1>3 DEF Kept
  <2>3. EntryName(d) = EntryName(e)
    BY <2>1, <2>2
  <2> QED BY <1>1, <2>1, <2>2, <2>3 DEF PortsApart
<1>4. CASE Named(n) /\ Named(k)
  BY <1>1, <1>4 DEF Named, Table
<1>5. CASE Copied(n) /\ Copied(k)
  <2> DEFINE v(d) == mod_vname_map.map[d]
  <2>1. PICK d \in referenced : n = Shadow(EntryNode(d)) /\ n.name = <<"_main_", v(d)[1], v(d)[2]>>
    BY <1>5 DEF Copied
  <2>2. PICK e \in referenced : k = Shadow(EntryNode(e)) /\ k.name = <<"_main_", v(e)[1], v(e)[2]>>
    BY <1>5 DEF Copied
  <2>3. d \in Renamed /\ e \in Renamed
    BY <1>1 DEF Referenced
  <2>4. v(d) = <<v(d)[1], v(d)[2]>> /\ v(e) = <<v(e)[1], v(e)[2]>>
    BY <1>1, <2>3, RenamedFacts
  <2>5. v(d)[1] = v(e)[1] /\ v(d)[2] = v(e)[2]
    BY <2>1, <2>2
  <2>6. d = e
    BY <1>1, <2>3, <2>4, <2>5 DEF Table
  <2> QED BY <2>1, <2>2, <2>6
<1>6. /\ ~(Kept(n) /\ Named(k)) /\ ~(Kept(n) /\ Copied(k)) /\ ~(Named(n) /\ Copied(k))
      /\ ~(Kept(k) /\ Named(n)) /\ ~(Kept(k) /\ Copied(n)) /\ ~(Named(k) /\ Copied(n))
  BY KindsApart, SMTT(30)
<1> QED BY <1>2, <1>3, <1>4, <1>5, <1>6

\* SCport2hcode and SCsig2hcode give no two declarations of a module one name, for
\* every chain of classes and every way in which their ports, signals, variables
\* and parameters share names.
THEOREM DeclarationsApart == Spec => []DeclaredNamesDistinct
BY NamesApart, AlwaysInv, PTL

\* The name FindVname finds for an entry is that of the entry's own declaration.
THEOREM ReferencesReachDeclarations == Spec => []ReferencesResolve
<1>1. Inv => ReferencesResolve
  <2> SUFFICES ASSUME Inv, NEW n \in h_ports, n.decl \in Entries(mod)
               PROVE  LET d == n.decl
                          newn == find_entry_newn(mod_vname_map, d)
                          ref == IF newn = NoName THEN <<mod.chain[d[1]][d[2]][d[3]].name>> ELSE newn
                      IN  {x \in h_ports : x.name = ref} = {n}
    BY DEF ReferencesResolve
  <2>1. PICK d \in Entries(mod) : d = n.decl
    OBVIOUS
  <2> DEFINE newn == find_entry_newn(mod_vname_map, d)
             ref == IF newn = NoName THEN <<mod.chain[d[1]][d[2]][d[3]].name>> ELSE newn
  <2>2. n = EntryNode(d)
    BY <2>1, EntryOnly DEF Inv
  <2>3. n.name = ref
    <3>1. CASE d \in Renamed
      <4>1. n.name = mod_vname_map.map[d] /\ mod_vname_map.map[d] # NoName
        BY <2>2, <3>1, RenamedFacts DEF EntryNode, Inv
      <4> QED BY <3>1, <4>1 DEF find_entry_newn, Renamed
    <3>2. CASE d \notin Renamed
      <4>1. n.name = <<EntryName(d)>>
        BY <2>2, <3>2 DEF EntryNode
      <4> QED BY <3>2, <4>1 DEF find_entry_newn, Renamed, EntryName
    <3> QED BY <3>1, <3>2
  <2> HIDE DEF newn, ref
  <2>4. {x \in h_ports : x.name = ref} = {n}
    BY <2>3, NamesApart DEF DeclaredNamesDistinct
  <2> QED BY <2>1, <2>4 DEF newn, ref
<1> QED BY <1>1, AlwaysInv, PTL

\* The second declaration that SCmodule2hcode adds for what its threads reference
\* is there once for every such signal or variable and for nothing else.
THEOREM ShadowsOnce == Spec => []OneShadowEach
<1>1. Inv => OneShadowEach
  <2> SUFFICES ASSUME Inv, pc = "done", NEW n \in h_ports, n.decl \in Entries(mod)
               PROVE  Cardinality({s \in h_ports : s.name = <<"_main_">> \o n.name}) =
                        IF IsSigvar(n.decl) /\ \E t \in DOMAIN mod.threads : n.decl \in mod.threads[t]
                          THEN 1 ELSE 0
    BY DEF OneShadowEach
  <2> DEFINE Copies == {s \in h_ports : s.name = <<"_main_">> \o n.name}
  <2>1. Types /\ Control /\ Table /\ Content /\ Referenced
    BY DEF Inv
  <2>2. PICK d \in Entries(mod) : d = n.decl
    OBVIOUS
  <2>3. n = EntryNode(d) /\ (IsSigvar(d) => d \in Renamed)
    <3>1. n = EntryNode(d) /\ IsEntry(n)
      BY <2>1, <2>2, EntryOnly
    <3>2. PICK e \in Entries(mod) : n = EntryNode(e) /\ (IsSigvar(e) => e \in Renamed)
      BY <3>1 DEF IsEntry
    <3>3. e = d
      BY <2>2, <3>2 DEF EntryNode
    <3> QED BY <3>1, <3>2, <3>3
  <2>4. CASE IsSigvar(d) /\ \E t \in DOMAIN mod.threads : d \in mod.threads[t]
    <3>1. d \in referenced
      <4>1. PICK t \in DOMAIN mod.threads : d \in mod.threads[t]
        BY <2>4
      <4>2. t < thread
        BY <2>1 DEF Control, Types, IsModule, IsSequence
      <4> QED BY <2>1, <2>3, <2>4, <4>1, <4>2 DEF Referenced
    <3>2. Shadow(n) \in h_ports
      BY <2>1, <2>2, <3>1 DEF Referenced
    <3>3. Shadow(n).name = <<"_main_">> \o n.name
      BY DEF Shadow
    <3>4. Copies = {Shadow(n)}
      BY <3>2, <3>3, NamesApart DEF DeclaredNamesDistinct
    <3> HIDE DEF Copies
    <3>5. Cardinality(Copies) = 1
      BY <3>4, FS_Singleton
    <3> QED BY <2>2, <2>4, <3>5 DEF Copies
  <2>5. CASE ~(IsSigvar(d) /\ \E t \in DOMAIN mod.threads : d \in mod.threads[t])
    <3>1. d \notin referenced
      BY <2>1, <2>5 DEF Referenced
    <3>2. ASSUME NEW s \in h_ports, s.name = <<"_main_">> \o n.name PROVE FALSE
      <4>1. Kept(s) \/ Named(s) \/ Copied(s)
        BY Kinds
      <4>2. CASE d \in Renamed
        <5> DEFINE v(e) == mod_vname_map.map[e]
        <5>1. n.name = v(d)
          BY <2>3, <4>2 DEF EntryNode
        <5>2. v(d) = <<v(d)[1], v(d)[2]>>
          BY <2>1, <4>2, RenamedFacts
        <5>3. s.name = <<"_main_", v(d)[1], v(d)[2]>>
          <6>1. s.name = <<"_main_">> \o <<v(d)[1], v(d)[2]>>
            BY <3>2, <5>1, <5>2, Zenon
          <6> QED BY <6>1, FrontTwo
        <5>4. ASSUME Copied(s) PROVE FALSE
          <6>1. PICK e \in referenced : s.name = <<"_main_", v(e)[1], v(e)[2]>>
            BY <5>4 DEF Copied
          <6>2. e \in Renamed
            BY <2>1 DEF Referenced
          <6>3. v(e) = <<v(e)[1], v(e)[2]>>
            BY <2>1, <6>2, RenamedFacts
          <6>4. v(e)[1] = v(d)[1] /\ v(e)[2] = v(d)[2]
            BY <5>3, <6>1
          <6>5. e = d
            BY <2>1, <4>2, <5>2, <6>2, <6>3, <6>4 DEF Table
          <6> QED BY <3>1, <6>1, <6>5
        <5>5. ASSUME Kept(s) PROVE FALSE
          BY <5>3, <5>5 DEF Kept
        <5>6. ASSUME Named(s) PROVE FALSE
          <6>1. PICK e \in Renamed : s.name = v(e)
            BY <5>6 DEF Named
          <6>2. v(e) = <<v(e)[1], v(e)[2]>>
            BY <2>1, <6>1, RenamedFacts
          <6> QED BY <5>3, <6>1, <6>2
        <5> QED BY <4>1, <5>4, <5>5, <5>6
      <4>3. CASE d \notin Renamed
        <5>1. n.name = <<EntryName(d)>>
          BY <2>3, <4>3 DEF EntryNode
        <5>2. s.name = <<"_main_", EntryName(d)>>
          BY <3>2, <5>1, FrontOne
        <5>3. ASSUME Kept(s) PROVE FALSE
          BY <5>2, <5>3 DEF Kept
        <5>4. ASSUME Named(s) PROVE FALSE
          <6>1. PICK e \in Renamed : s.name = mod_vname_map.map[e]
            BY <5>4 DEF Named
          <6>2. /\ mod_vname_map.map[e] = <<mod_vname_map.map[e][1], mod_vname_map.map[e][2]>>
                /\ mod_vname_map.map[e][2] \in Nat
            BY <2>1, <6>1, RenamedFacts
          <6>3. EntryName(d) \notin Nat
            BY <2>1, EntryFacts DEF Types
          <6> QED BY <5>2, <6>1, <6>2, <6>3
        <5>5. ASSUME Copied(s) PROVE FALSE
          BY <5>2, <5>5 DEF Copied
        <5> QED BY <4>1, <5>3, <5>4, <5>5
      <4> QED BY <4>2, <4>3
    <3>3. Copies = {}
      BY <3>2
    <3> HIDE DEF Copies
    <3>4. Cardinality(Copies) = 0
      BY <3>3, FS_EmptySet
    <3> QED BY <2>2, <2>5, <3>4 DEF Copies
  <2> QED BY <2>4, <2>5
<1> QED BY <1>1, AlwaysInv, PTL
=============================================================================
