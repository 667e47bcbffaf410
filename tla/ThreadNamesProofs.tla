-------------------------- MODULE ThreadNamesProofs --------------------------
(***************************************************************************)
(* Proofs about the names of a thread's local variables, for code of any   *)
(* size whose elements are met in any order that enters blocks first, and  *)
(* whatever names the variables share.                                     *)
(***************************************************************************)
EXTENDS ThreadNames, NameMapsProofs

Names == {<<n, c>> : n \in {NameOf(v) : v \in Int}, c \in Nat}
LocalTables == Tables(Int, Names)
Declarations == [var : Int, name : Names]

\* The declaration of v under name n is among the hoisted ones.
Hoisted(h, v, n) == \E i \in DOMAIN h : h[i].var = v /\ h[i].name = n

TypesInv ==
  /\ visits \in Seq(Seq(VisitedElements))
  /\ st \in Nat \ {0} /\ nx \in Nat \ {0}
  /\ DOMAIN SGVisited \subseteq Nat /\ \A i \in DOMAIN SGVisited : SGVisited[i] \in Nat
  /\ vname_map \in LocalTables /\ thread_vname_map \in LocalTables
  /\ hlocalvars \in Seq(Declarations)

\* Every name in use was hoisted, for the variable it is used for.
NamesHoisted ==
  /\ \A v \in DOMAIN vname_map.map : Hoisted(hlocalvars, v, vname_map.map[v])
  /\ \A v \in DOMAIN thread_vname_map.map : Hoisted(hlocalvars, v, thread_vname_map.map[v])
  /\ \A r \in Found : Hoisted(hlocalvars, r.var, r.name)

\* The counter is above the numbers of all names, which are different.
CounterAbove ==
  /\ \A i \in DOMAIN hlocalvars : hlocalvars[i].name[2] < vname_map.cnt
  /\ \A i, j \in DOMAIN hlocalvars : hlocalvars[i].name = hlocalvars[j].name => i = j

NamesInv == TypesInv /\ NamesHoisted /\ CounterAbove

\* Nothing is done before the paths are known.
NotBegun == visits = <<>> => nx = 1 /\ st = 1 /\ hlocalvars = <<>>

\* SGVisited counts the entries of a block among the elements behind us.
EntriesCounted ==
  \A p \in 1 .. nx - 1 :
    st <= Len(visits) /\ p <= Len(visits[st]) /\ visits[st][p].enters =>
      /\ Count(SGVisited, visits[st][p].id) >= 1
      /\ \A q \in 1 .. p - 1 :
           visits[st][q].enters /\ visits[st][q].id = visits[st][p].id =>
             Count(SGVisited, visits[st][p].id) >= 2

\* A declaration is hoisted when it is met.
HoistedAtVisit ==
  \A i \in DOMAIN hlocalvars : \E k \in DOMAIN visits : \E p \in DOMAIN visits[k] :
    /\ Declares(visits[k][p], hlocalvars[i].var)
    /\ k < st \/ (k = st /\ p < nx)

HoistedOnce ==
  \A i, j \in DOMAIN hlocalvars : \A k \in DOMAIN visits :
    hlocalvars[i].var = hlocalvars[j].var /\ DeclaringStates(hlocalvars[i].var) = {k} => i = j

OnceInv ==
  /\ \A k \in DOMAIN visits : EnteredFirst(visits[k])
  /\ NotBegun /\ EntriesCounted /\ HoistedAtVisit /\ HoistedOnce
-----------------------------------------------------------------------------
(***************************************************************************)
(* The element visited next, and its variable.                             *)
(***************************************************************************)
LEMMA ElementFacts ==
  ASSUME TypesInv, st <= Len(visits), nx <= Len(visits[st])
  PROVE  /\ st \in DOMAIN visits /\ nx \in DOMAIN visits[st]
         /\ visits[st] \in Seq(VisitedElements)
         /\ visits[st][nx] \in VisitedElements
         /\ visits[st][nx].el.n \in Int /\ visits[st][nx].id \in Nat
<1>1. st \in DOMAIN visits /\ visits[st] \in Seq(VisitedElements)
  BY DEF TypesInv
<1>2. nx \in DOMAIN visits[st]
  BY <1>1 DEF TypesInv
<1>3. visits[st][nx] \in VisitedElements
  BY <1>1, <1>2
<1> QED BY <1>1, <1>2, <1>3 DEF VisitedElements, Elements

(***************************************************************************)
(* A name is not the empty one, and has a number.                          *)
(***************************************************************************)
LEMMA NamesAreNames == ASSUME NEW n \in Names PROVE n # NoName /\ n[2] \in Nat
BY DEF Names, NoName

(***************************************************************************)
(* The table after a declaration of v has v alone, under a new name.       *)
(***************************************************************************)
LEMMA NewTable ==
  ASSUME TypesInv, NEW v \in Int
  PROVE  LET table == add_entry(clear(vname_map), v, NameOf(v))
             name == find_entry_newn(table, v)
         IN  /\ table \in LocalTables /\ DOMAIN table.map = {v} /\ table.map[v] = name
             /\ name = <<NameOf(v), vname_map.cnt>> /\ name \in Names
             /\ table.cnt = vname_map.cnt + 1
<1> DEFINE c == clear(vname_map)
           table == add_entry(c, v, NameOf(v))
<1>1. vname_map \in LocalTables /\ vname_map.cnt \in Nat
  BY TableFacts DEF TypesInv, LocalTables
<1>2. c \in LocalTables /\ DOMAIN c.map = {} /\ c.cnt = vname_map.cnt
  BY <1>1, ClearFacts DEF LocalTables
<1>3. <<NameOf(v), vname_map.cnt>> \in Names
  BY <1>1 DEF Names
<1> HIDE DEF c
<1>4. /\ table \in LocalTables /\ DOMAIN table.map = {v}
      /\ table.map[v] = <<NameOf(v), vname_map.cnt>> /\ table.cnt = vname_map.cnt + 1
  <2>1. c \in Tables(Int, Names) /\ <<NameOf(v), c.cnt>> \in Names /\ v \notin DOMAIN c.map
    BY <1>2, <1>3 DEF LocalTables
  <2>2. /\ table \in Tables(Int, Names) /\ DOMAIN table.map = DOMAIN c.map \cup {v}
        /\ table.map[v] = <<NameOf(v), c.cnt>> /\ table.cnt = c.cnt + 1
    BY <2>1, AddEntryFacts
  <2> QED BY <1>2, <2>2 DEF LocalTables
<1> HIDE DEF table
<1>5. find_entry_newn(table, v) = table.map[v]
  BY <1>4 DEF find_entry_newn
<1> USE DEF c
<1> QED BY <1>3, <1>4, <1>5 DEF table

(***************************************************************************)
(* A name found in tables that have hoisted names only is hoisted.         *)
(***************************************************************************)
LEMMA LookupHoisted ==
  ASSUME NEW t \in LocalTables, NEW v \in Int,
         \A w \in DOMAIN t.map : Hoisted(hlocalvars, w, t.map[w])
  PROVE  /\ find_entry_newn(t, v) \in Names \cup {NoName}
         /\ find_entry_newn(t, v) # NoName => Hoisted(hlocalvars, v, find_entry_newn(t, v))
<1>1. \A w \in DOMAIN t.map : t.map[w] \in Names
  BY TableFacts DEF LocalTables
<1> QED BY <1>1 DEF find_entry_newn

(***************************************************************************)
(* What is hoisted stays hoisted when another declaration is appended.     *)
(***************************************************************************)
LEMMA AppendHoists ==
  ASSUME hlocalvars \in Seq(Declarations), NEW d \in Declarations,
         hlocalvars' = Append(hlocalvars, d)
  PROVE  /\ hlocalvars' \in Seq(Declarations)
         /\ DOMAIN hlocalvars' = DOMAIN hlocalvars \cup {Len(hlocalvars) + 1}
         /\ Len(hlocalvars) + 1 \notin DOMAIN hlocalvars
         /\ hlocalvars'[Len(hlocalvars) + 1] = d
         /\ \A i \in DOMAIN hlocalvars : hlocalvars'[i] = hlocalvars[i]
         /\ \A v, n : Hoisted(hlocalvars, v, n) => Hoisted(hlocalvars', v, n)
         /\ Hoisted(hlocalvars', d.var, d.name)
<1>1. /\ hlocalvars' \in Seq(Declarations)
      /\ DOMAIN hlocalvars' = DOMAIN hlocalvars \cup {Len(hlocalvars) + 1}
      /\ Len(hlocalvars) + 1 \notin DOMAIN hlocalvars
      /\ hlocalvars'[Len(hlocalvars) + 1] = d
      /\ \A i \in DOMAIN hlocalvars : hlocalvars'[i] = hlocalvars[i]
  OBVIOUS
<1>2. \A v, n : Hoisted(hlocalvars, v, n) => Hoisted(hlocalvars', v, n)
  BY <1>1 DEF Hoisted
<1>3. Hoisted(hlocalvars', d.var, d.name)
  BY <1>1 DEF Hoisted
<1> QED BY <1>1, <1>2, <1>3

(***************************************************************************)
(* A declaration met for the first time in a state.                        *)
(***************************************************************************)
LEMMA RunDeclarationKeeps ==
  ASSUME NamesInv, NEW e \in Elements, RunDeclaration(e)
  PROVE  /\ vname_map' \in LocalTables /\ thread_vname_map' \in LocalTables
         /\ hlocalvars' \in Seq(Declarations)
         /\ NamesHoisted' /\ CounterAbove'
<1> DEFINE v == e.n
           table == add_entry(clear(vname_map), v, NameOf(v))
           name == find_entry_newn(table, v)
           d == [var |-> v, name |-> name]
<1>1. v \in Int
  BY DEF Elements
<1>2. /\ table \in LocalTables /\ DOMAIN table.map = {v} /\ table.map[v] = name
      /\ name = <<NameOf(v), vname_map.cnt>> /\ name \in Names
      /\ table.cnt = vname_map.cnt + 1
  BY <1>1, NewTable DEF NamesInv
<1>3. /\ vname_map' = table /\ thread_vname_map' = insertall(thread_vname_map, table)
      /\ hlocalvars' = Append(hlocalvars, d)
      /\ refs' = refs \cup IF e.args = 1 THEN {Ref(e, "init", FindVname(table, v))} ELSE {}
  BY DEF RunDeclaration
<1>4. FindVname(table, v) = name
  BY <1>2, NamesAreNames DEF FindVname
<1>5. d \in Declarations /\ d.var = v /\ d.name = name
  BY <1>1, <1>2 DEF Declarations
<1> HIDE DEF table, name, d
<1>6. hlocalvars \in Seq(Declarations)
  BY DEF NamesInv, TypesInv
<1>7. /\ hlocalvars' \in Seq(Declarations)
      /\ DOMAIN hlocalvars' = DOMAIN hlocalvars \cup {Len(hlocalvars) + 1}
      /\ Len(hlocalvars) + 1 \notin DOMAIN hlocalvars
      /\ hlocalvars'[Len(hlocalvars) + 1] = d
      /\ \A i \in DOMAIN hlocalvars : hlocalvars'[i] = hlocalvars[i]
      /\ \A w, n : Hoisted(hlocalvars, w, n) => Hoisted(hlocalvars', w, n)
      /\ Hoisted(hlocalvars', v, name)
  BY <1>3, <1>5, <1>6, AppendHoists
<1>8. /\ thread_vname_map' \in LocalTables
      /\ DOMAIN thread_vname_map'.map = DOMAIN thread_vname_map.map \cup {v}
      /\ \A w \in DOMAIN thread_vname_map.map : thread_vname_map'.map[w] = thread_vname_map.map[w]
      /\ v \notin DOMAIN thread_vname_map.map => thread_vname_map'.map[v] = name
  BY <1>2, <1>3, InsertallFacts DEF LocalTables, NamesInv, TypesInv
<1>9. NamesHoisted'
  <2>1. \A w \in DOMAIN vname_map'.map : Hoisted(hlocalvars', w, vname_map'.map[w])
    BY <1>2, <1>3, <1>7
  <2>2. ASSUME NEW w \in DOMAIN thread_vname_map'.map
        PROVE  Hoisted(hlocalvars', w, thread_vname_map'.map[w])
    <3>1. CASE w \in DOMAIN thread_vname_map.map
      BY <1>7, <1>8, <3>1 DEF NamesInv, NamesHoisted
    <3>2. CASE w = v /\ v \notin DOMAIN thread_vname_map.map
      BY <1>7, <1>8, <3>2
    <3> QED BY <1>8, <3>1, <3>2
  <2>3. ASSUME NEW r \in Found' PROVE Hoisted(hlocalvars', r.var, r.name)
    <3>1. r \in refs' /\ r.name # NoName
      BY DEF Found
    <3>2. CASE r \in refs
      BY <1>7, <3>1, <3>2 DEF NamesInv, NamesHoisted, Found
    <3>3. CASE r = Ref(e, "init", name)
      BY <1>7, <3>3 DEF Ref
    <3> QED BY <1>3, <1>4, <3>1, <3>2, <3>3
  <2> QED BY <2>1, <2>2, <2>3 DEF NamesHoisted
<1>10. CounterAbove'
  <2>1. vname_map.cnt \in Nat
    BY TableFacts DEF NamesInv, TypesInv, LocalTables
  <2>2. \A i \in DOMAIN hlocalvars : hlocalvars[i].name[2] \in Nat
    <3>1. \A i \in DOMAIN hlocalvars : hlocalvars[i] \in Declarations
      BY <1>6
    <3>2. \A i \in DOMAIN hlocalvars : hlocalvars[i].name \in Names
      BY <3>1 DEF Declarations
    <3> QED BY <3>2, NamesAreNames
  <2>3. name[2] = vname_map.cnt
    BY <1>2
  <2>4. \A i \in DOMAIN hlocalvars : hlocalvars[i].name[2] < vname_map.cnt
    BY DEF NamesInv, CounterAbove
  <2>5. \A i \in DOMAIN hlocalvars : hlocalvars[i].name # name
    BY <2>1, <2>2, <2>3, <2>4
  <2>6. \A i \in DOMAIN hlocalvars' : hlocalvars'[i].name[2] < vname_map'.cnt
    BY <1>2, <1>3, <1>5, <1>7, <2>1, <2>2, <2>3, <2>4
  <2>7. \A i, j \in DOMAIN hlocalvars' : hlocalvars'[i].name = hlocalvars'[j].name => i = j
    BY <1>5, <1>7, <2>5 DEF NamesInv, CounterAbove
  <2> QED BY <2>6, <2>7 DEF CounterAbove
<1> QED BY <1>2, <1>3, <1>7, <1>8, <1>9, <1>10

(***************************************************************************)
(* A declaration met again, or another statement: a reference may be       *)
(* added, under a name that one of the tables has.                         *)
(***************************************************************************)
LEMMA ReferenceKeeps ==
  ASSUME NamesInv, UNCHANGED <<thread_vname_map, hlocalvars>>,
         vname_map' \in {vname_map, clear(vname_map)},
         NEW e \in Elements, NEW kind,
         refs' \subseteq refs \cup {Ref(e, kind, find_entry_newn(thread_vname_map, e.n))}
  PROVE  /\ vname_map' \in LocalTables /\ thread_vname_map' \in LocalTables
         /\ hlocalvars' \in Seq(Declarations)
         /\ NamesHoisted' /\ CounterAbove'
<1>1. /\ vname_map' \in LocalTables /\ vname_map'.cnt = vname_map.cnt
      /\ vname_map' = vname_map \/ DOMAIN vname_map'.map = {}
  BY ClearFacts DEF NamesInv, TypesInv, LocalTables
<1>2. thread_vname_map' \in LocalTables /\ hlocalvars' \in Seq(Declarations)
  BY DEF NamesInv, TypesInv
<1>3. \A w, n : Hoisted(hlocalvars, w, n) => Hoisted(hlocalvars', w, n)
  BY DEF Hoisted
<1>4. e.n \in Int
  BY DEF Elements
<1> DEFINE name == find_entry_newn(thread_vname_map, e.n)
<1>5. name # NoName => Hoisted(hlocalvars, e.n, name)
  BY <1>4, LookupHoisted DEF NamesInv, NamesHoisted, TypesInv
<1> HIDE DEF name
<1>6. ASSUME NEW r \in Found' PROVE Hoisted(hlocalvars', r.var, r.name)
  <2>1. r \in refs' /\ r.name # NoName
    BY DEF Found
  <2>2. CASE r \in refs
    BY <1>3, <2>1, <2>2 DEF NamesInv, NamesHoisted, Found
  <2>3. CASE r = Ref(e, kind, name)
    BY <1>3, <1>5, <2>1, <2>3 DEF Ref
  <2> QED BY <2>1, <2>2, <2>3 DEF name
<1>7. NamesHoisted'
  BY <1>1, <1>3, <1>6 DEF NamesInv, NamesHoisted
<1>8. CounterAbove'
  BY <1>1 DEF NamesInv, CounterAbove
<1> QED BY <1>1, <1>2, <1>7, <1>8

(***************************************************************************)
(* The count of the visited block is set, the others stay.                 *)
(***************************************************************************)
LEMMA VisitCounts ==
  ASSUME TypesInv, VisitElement
  PROVE  LET x == visits[st][nx]
             count == Count(SGVisited, x.id) + IF x.enters THEN 1 ELSE 0
         IN  /\ DOMAIN SGVisited' \subseteq Nat /\ \A i \in DOMAIN SGVisited' : SGVisited'[i] \in Nat
             /\ Count(SGVisited, x.id) \in Nat /\ count \in Nat /\ Count(SGVisited', x.id) = count
             /\ \A id : id # x.id => Count(SGVisited', id) = Count(SGVisited, id)
<1> DEFINE x == visits[st][nx]
           count == Count(SGVisited, x.id) + IF x.enters THEN 1 ELSE 0
<1>1. x.id \in Nat
  BY ElementFacts DEF VisitElement
<1>2. Count(SGVisited, x.id) \in Nat
  BY DEF Count, TypesInv
<1>3. count \in Nat
  BY <1>2
<1>4. SGVisited' = [i \in DOMAIN SGVisited \cup {x.id} |-> IF i = x.id THEN count ELSE SGVisited[i]]
  BY DEF VisitElement
<1> HIDE DEF count, x
<1>5. /\ DOMAIN SGVisited' = DOMAIN SGVisited \cup {x.id} /\ SGVisited'[x.id] = count
      /\ \A i \in DOMAIN SGVisited : i # x.id => SGVisited'[i] = SGVisited[i]
  BY <1>4
<1>6. DOMAIN SGVisited' \subseteq Nat /\ \A i \in DOMAIN SGVisited' : SGVisited'[i] \in Nat
  BY <1>1, <1>3, <1>5 DEF TypesInv
<1>7. Count(SGVisited', x.id) = count
  BY <1>5 DEF Count
<1>8. ASSUME NEW id, id # x.id
      PROVE  Count(SGVisited', id) = Count(SGVisited, id)
  BY <1>5, <1>8 DEF Count
<1> USE DEF x, count
<1> QED BY <1>2, <1>3, <1>6, <1>7, <1>8

(***************************************************************************)
(* A step of the translation keeps the names apart.                        *)
(***************************************************************************)
LEMMA VisitKeepsNames ==
  ASSUME NamesInv, VisitElement
  PROVE  NamesInv'
<1> DEFINE x == visits[st][nx]
           e == x.el
           count == Count(SGVisited, x.id) + IF x.enters THEN 1 ELSE 0
           Kept == /\ vname_map' \in LocalTables /\ thread_vname_map' \in LocalTables
                   /\ hlocalvars' \in Seq(Declarations)
                   /\ NamesHoisted' /\ CounterAbove'
<1>1. TypesInv /\ e \in Elements
  BY ElementFacts DEF NamesInv, VisitElement, VisitedElements
<1>2. IF e.op = "decl" THEN TranslateDeclaration(e, count > 1) ELSE RunStatement(e)
  BY DEF VisitElement
<1>3. Kept
  <2> HIDE DEF count, e
  <2>1. CASE RunDeclaration(e)
    BY <1>1, <2>1, RunDeclarationKeeps
  <2>2. CASE ProcessDeclStmt(e)
    <3>1. /\ UNCHANGED <<thread_vname_map, hlocalvars>>
          /\ vname_map' \in {vname_map, clear(vname_map)}
          /\ refs' \subseteq refs \cup {Ref(e, "init", find_entry_newn(thread_vname_map, e.n))}
      BY <2>2 DEF ProcessDeclStmt
    <3> QED BY <1>1, <3>1, ReferenceKeeps
  <2>3. CASE RunStatement(e)
    <3>1. DOMAIN clear(vname_map).map = {}
      BY <1>1, ClearFacts DEF TypesInv, LocalTables
    <3>2. FindVname(clear(vname_map), e.n) = find_entry_newn(thread_vname_map, e.n)
      BY <3>1 DEF FindVname, find_entry_newn
    <3>3. vname_map' = clear(vname_map)
      BY <2>3 DEF RunStatement
    <3>4. refs' \subseteq refs \cup {Ref(e, "use", FindVname(vname_map', e.n))}
      BY <2>3 DEF RunStatement
    <3>5. /\ UNCHANGED <<thread_vname_map, hlocalvars>>
          /\ vname_map' \in {vname_map, clear(vname_map)}
          /\ refs' \subseteq refs \cup {Ref(e, "use", find_entry_newn(thread_vname_map, e.n))}
      BY <2>3, <3>2, <3>3, <3>4 DEF RunStatement
    <3> QED BY <1>1, <3>5, ReferenceKeeps
  <2> QED BY <1>2, <2>1, <2>2, <2>3 DEF TranslateDeclaration
<1>4. DOMAIN SGVisited' \subseteq Nat /\ \A i \in DOMAIN SGVisited' : SGVisited'[i] \in Nat
  BY <1>1, VisitCounts
<1>5. visits' \in Seq(Seq(VisitedElements)) /\ st' \in Nat \ {0} /\ nx' \in Nat \ {0}
  BY <1>1 DEF TypesInv, VisitElement
<1> HIDE DEF count, e
<1> QED BY <1>3, <1>4, <1>5 DEF NamesInv, TypesInv

(***************************************************************************)
(* Nothing has a name at first.                                            *)
(***************************************************************************)
LEMMA NamesInitially ==
  ASSUME NamesInit
  PROVE  NamesInv
<1>1. NewNameMap \in LocalTables /\ DOMAIN NewNameMap.map = {}
  BY NewNameMapFacts DEF LocalTables
<1>2. TypesInv
  BY <1>1 DEF NamesInit, TypesInv, NoVisits
<1>3. NamesHoisted
  BY <1>1 DEF NamesInit, NamesHoisted, Found
<1>4. CounterAbove
  BY DEF NamesInit, CounterAbove
<1> QED BY <1>2, <1>3, <1>4 DEF NamesInv

(***************************************************************************)
(* Every step keeps the names apart.                                       *)
(***************************************************************************)
LEMMA NamesKept ==
  ASSUME NamesInv, [NamesNext]_threadvars
  PROVE  NamesInv'
<1>1. CASE VisitElement
  BY <1>1, VisitKeepsNames
<1>2. CASE TakePaths \/ NextState \/ UNCHANGED threadvars
  <2>1. UNCHANGED tables
    BY <1>2 DEF TakePaths, NextState, threadvars
  <2>2. UNCHANGED <<vname_map, thread_vname_map, hlocalvars, refs>>
    BY <2>1 DEF tables
  <2>3. visits' \in Seq(Seq(VisitedElements)) /\ st' \in Nat \ {0} /\ nx' \in Nat \ {0}
    BY <1>2 DEF NamesInv, TypesInv, TakePaths, NextState, threadvars
  <2>4. SGVisited' = SGVisited \/ SGVisited' = NoVisits
    BY <1>2 DEF TakePaths, NextState, threadvars
  <2>5. DOMAIN SGVisited' \subseteq Nat /\ \A i \in DOMAIN SGVisited' : SGVisited'[i] \in Nat
    BY <2>4 DEF NamesInv, TypesInv, NoVisits
  <2>6. TypesInv'
    BY <2>2, <2>3, <2>5 DEF NamesInv, TypesInv
  <2>7. NamesHoisted' /\ CounterAbove'
    BY <2>2 DEF NamesInv, NamesHoisted, CounterAbove, Found
  <2> QED BY <2>6, <2>7 DEF NamesInv
<1> QED BY <1>1, <1>2 DEF NamesNext

(***************************************************************************)
(* The names of the local variables of a thread belong to one variable     *)
(* each, whatever code is translated and whatever names the variables      *)
(* share: the counter behind newname_map_t outlives the table it numbers.  *)
(***************************************************************************)
THEOREM LocalsApart == NamesSpec => []LocalNamesDistinct
<1>1. NamesInit => NamesInv
  BY NamesInitially
<1>2. NamesInv /\ [NamesNext]_threadvars => NamesInv'
  BY NamesKept
<1>3. NamesInv => LocalNamesDistinct
  <2> SUFFICES ASSUME NamesInv PROVE LocalNamesDistinct
    OBVIOUS
  <2>1. ASSUME NEW r \in Found, NEW s \in Found, r.name = s.name
        PROVE  r.var = s.var
    <3>1. PICK i \in DOMAIN hlocalvars : hlocalvars[i].var = r.var /\ hlocalvars[i].name = r.name
      BY DEF NamesInv, NamesHoisted, Hoisted
    <3>2. PICK j \in DOMAIN hlocalvars : hlocalvars[j].var = s.var /\ hlocalvars[j].name = s.name
      BY DEF NamesInv, NamesHoisted, Hoisted
    <3>3. i = j
      BY <2>1, <3>1, <3>2 DEF NamesInv, CounterAbove
    <3> QED BY <3>1, <3>2, <3>3
  <2> QED BY <2>1 DEF LocalNamesDistinct, NamesInv, CounterAbove
<1> QED BY <1>1, <1>2, <1>3, PTL DEF NamesSpec
-----------------------------------------------------------------------------
(***************************************************************************)
(* A declaration hoisted before is not hoisted again in the same state:    *)
(* its block was entered then and has been entered since.                  *)
(***************************************************************************)
LEMMA NotHoistedAgain ==
  ASSUME TypesInv, OnceInv, st <= Len(visits), nx <= Len(visits[st]),
         visits[st][nx].el.op = "decl",
         NEW i \in DOMAIN hlocalvars, hlocalvars[i].var = visits[st][nx].el.n,
         NEW k, DeclaringStates(visits[st][nx].el.n) = {k}
  PROVE  Count(SGVisited, visits[st][nx].id) + (IF visits[st][nx].enters THEN 1 ELSE 0) > 1
<1> DEFINE s == visits[st]
           x == s[nx]
           v == x.el.n
<1>1. st \in DOMAIN visits /\ nx \in DOMAIN s /\ s \in Seq(VisitedElements) /\ x.id \in Nat
  BY ElementFacts
<1>2. Declares(x, v)
  BY DEF Declares
<1>3. k = st
  <2>1. \E j \in DOMAIN visits[st] : Declares(visits[st][j], v)
    BY <1>1, <1>2
  <2>2. st \in DeclaringStates(v)
    BY <1>1, <2>1 DEF DeclaringStates
  <2> QED BY <2>2
<1>4. PICK m \in DOMAIN visits : \E p \in DOMAIN visits[m] :
        Declares(visits[m][p], v) /\ (m < st \/ (m = st /\ p < nx))
  BY DEF OnceInv, HoistedAtVisit
<1>5. m = st
  BY <1>3, <1>4 DEF DeclaringStates
<1>6. PICK p \in DOMAIN s : Declares(s[p], v) /\ p < nx
  BY <1>4, <1>5 DEF TypesInv
<1>7. EnteredFirst(s)
  BY <1>1 DEF OnceInv
<1> HIDE DEF s
<1>8. s[p].id = x.id
  BY <1>1, <1>2, <1>6, <1>7 DEF EnteredFirst, Declares
<1>9. PICK q \in 1 .. nx : s[q].enters /\ s[q].id = x.id
                           /\ \A r \in q .. nx - 1 : ~Declares(s[r], v)
  BY <1>1, <1>2, <1>7 DEF EnteredFirst, Declares
<1>10. PICK q1 \in 1 .. p : s[q1].enters /\ s[q1].id = x.id
  BY <1>6, <1>7, <1>8 DEF EnteredFirst, Declares
<1>11. nx \in Nat /\ p \in Nat /\ nx <= Len(s) /\ DOMAIN s = 1 .. Len(s) /\ Len(s) \in Nat
  BY <1>1, <1>6 DEF TypesInv, s
<1>12. p < q /\ q1 < q
  <2>1. ~(p \in q .. nx - 1)
    BY <1>6, <1>9
  <2> QED BY <1>6, <1>9, <1>10, <1>11, <2>1
<1>13. Count(SGVisited, x.id) \in Nat
  BY <1>1 DEF Count, TypesInv
<1>14. \A a \in 1 .. nx - 1 : s[a].enters =>
         /\ Count(SGVisited, s[a].id) >= 1
         /\ \A b \in 1 .. a - 1 : s[b].enters /\ s[b].id = s[a].id => Count(SGVisited, s[a].id) >= 2
  BY <1>11 DEF OnceInv, EntriesCounted, s
<1>15. CASE q = nx
  <2>1. q1 \in 1 .. nx - 1
    BY <1>10, <1>11, <1>12, <1>15
  <2>2. Count(SGVisited, x.id) >= 1
    BY <1>10, <1>14, <2>1
  <2>3. x.enters
    BY <1>9, <1>15
  <2> QED BY <1>13, <2>2, <2>3 DEF s
<1>16. CASE q # nx
  <2>1. q \in 1 .. nx - 1 /\ q1 \in 1 .. q - 1
    BY <1>9, <1>10, <1>11, <1>12, <1>16
  <2>2. Count(SGVisited, x.id) >= 2
    BY <1>9, <1>10, <1>14, <2>1
  <2> QED BY <1>13, <2>2 DEF s
<1> QED BY <1>15, <1>16

(***************************************************************************)
(* What a visit adds to the hoisted declarations.                          *)
(***************************************************************************)
LEMMA VisitHoists ==
  ASSUME TypesInv, VisitElement
  PROVE  LET x == visits[st][nx]
             count == Count(SGVisited, x.id) + IF x.enters THEN 1 ELSE 0
         IN  \/ hlocalvars' = hlocalvars
             \/ /\ x.el.op = "decl" /\ ~(count > 1)
                /\ \E d \in Declarations : d.var = x.el.n /\ hlocalvars' = Append(hlocalvars, d)
<1> DEFINE x == visits[st][nx]
           e == x.el
           count == Count(SGVisited, x.id) + IF x.enters THEN 1 ELSE 0
<1>1. e.n \in Int
  BY ElementFacts DEF VisitElement
<1>2. IF e.op = "decl" THEN TranslateDeclaration(e, count > 1) ELSE RunStatement(e)
  BY DEF VisitElement
<1> HIDE DEF e, count
<1>3. CASE e.op = "decl" /\ ~(count > 1)
  <2> DEFINE d == [var |-> e.n,
                   name |-> find_entry_newn(add_entry(clear(vname_map), e.n, NameOf(e.n)), e.n)]
  <2>1. RunDeclaration(e)
    BY <1>2, <1>3 DEF TranslateDeclaration
  <2>2. hlocalvars' = Append(hlocalvars, d)
    BY <2>1 DEF RunDeclaration
  <2>3. d \in Declarations
    BY <1>1, NewTable DEF Declarations
  <2>4. d.var = e.n
    OBVIOUS
  <2> HIDE DEF d
  <2>5. \E f \in Declarations : f.var = e.n /\ hlocalvars' = Append(hlocalvars, f)
    BY <2>2, <2>3, <2>4
  <2> QED BY <1>3, <2>5 DEF e, count
<1>4. CASE ~(e.op = "decl" /\ ~(count > 1))
  BY <1>2, <1>4 DEF TranslateDeclaration, ProcessDeclStmt, RunStatement
<1> QED BY <1>3, <1>4

(***************************************************************************)
(* A visit keeps the counts.                                               *)
(***************************************************************************)
LEMMA VisitKeepsCounts ==
  ASSUME TypesInv, OnceInv, VisitElement
  PROVE  EntriesCounted'
<1> DEFINE s == visits[st]
           x == s[nx]
           C(id) == Count(SGVisited, id)
           D(id) == Count(SGVisited', id)
<1>1. /\ st \in DOMAIN visits /\ nx \in DOMAIN s /\ s \in Seq(VisitedElements)
      /\ st <= Len(visits) /\ nx <= Len(s)
  BY ElementFacts DEF VisitElement
<1>2. /\ C(x.id) \in Nat /\ D(x.id) = C(x.id) + (IF x.enters THEN 1 ELSE 0)
      /\ \A id : id # x.id => D(id) = C(id)
  BY VisitCounts
<1>3. visits' = visits /\ st' = st /\ nx' = nx + 1 /\ nx \in Nat /\ nx >= 1
  BY DEF VisitElement, TypesInv
<1>4. \A a \in 1 .. nx - 1 : s[a].enters =>
        /\ C(s[a].id) >= 1
        /\ \A b \in 1 .. a - 1 : s[b].enters /\ s[b].id = s[a].id => C(s[a].id) >= 2
  <2>1. \A a \in 1 .. nx - 1 : a <= Len(s)
    BY <1>1, <1>3
  <2> QED BY <1>1, <2>1 DEF OnceInv, EntriesCounted
<1> HIDE DEF s, C, D
<1>5. ASSUME NEW p \in 1 .. nx, s[p].enters
      PROVE  /\ D(s[p].id) >= 1
             /\ \A q \in 1 .. p - 1 : s[q].enters /\ s[q].id = s[p].id => D(s[p].id) >= 2
  <2>1. CASE p = nx
    <3>1. D(x.id) = C(x.id) + 1 /\ D(x.id) >= 1
      BY <1>2, <1>5, <2>1
    <3>2. ASSUME NEW q \in 1 .. nx - 1, s[q].enters, s[q].id = x.id
          PROVE  D(x.id) >= 2
      <4>1. C(x.id) >= 1
        BY <1>4, <3>2
      <4> QED BY <1>2, <3>1, <4>1
    <3> QED BY <2>1, <3>1, <3>2
  <2>2. CASE p \in 1 .. nx - 1
    <3>1. C(s[p].id) >= 1
      BY <1>4, <1>5, <2>2
    <3>2. \A q \in 1 .. p - 1 : s[q].enters /\ s[q].id = s[p].id => C(s[p].id) >= 2
      BY <1>4, <1>5, <2>2
    <3>3. CASE s[p].id = x.id
      BY <1>2, <3>1, <3>2, <3>3
    <3>4. CASE s[p].id # x.id
      BY <1>2, <3>1, <3>2, <3>4
    <3> QED BY <3>3, <3>4
  <2> QED BY <1>3, <2>1, <2>2
<1>6. nx' - 1 = nx /\ visits'[st'] = s
  BY <1>3 DEF s
<1> QED BY <1>5, <1>6 DEF EntriesCounted, D

(***************************************************************************)
(* A visit hoists a declaration where it stands, and only once.            *)
(***************************************************************************)
LEMMA VisitKeepsOnce ==
  ASSUME TypesInv, OnceInv, VisitElement
  PROVE  OnceInv'
<1> DEFINE x == visits[st][nx]
           count == Count(SGVisited, x.id) + IF x.enters THEN 1 ELSE 0
<1>1. /\ st \in DOMAIN visits /\ nx \in DOMAIN visits[st]
      /\ st <= Len(visits) /\ nx <= Len(visits[st]) /\ nx \in Nat /\ st \in Nat
  BY ElementFacts DEF VisitElement, TypesInv
<1>2. visits' = visits /\ st' = st /\ nx' = nx + 1
  BY DEF VisitElement
<1>3. EntriesCounted'
  BY VisitKeepsCounts
<1>4. \A k \in DOMAIN visits' : EnteredFirst(visits'[k])
  BY <1>2 DEF OnceInv
<1>5. NotBegun'
  BY <1>1, <1>2 DEF NotBegun
<1>6. \A v : DeclaringStates(v)' = DeclaringStates(v)
  BY <1>2 DEF DeclaringStates
<1> DEFINE At(v) == \E k \in DOMAIN visits : \E p \in DOMAIN visits[k] :
                      Declares(visits[k][p], v) /\ (k < st \/ (k = st /\ p < nx + 1))
<1>7. \A i \in DOMAIN hlocalvars : At(hlocalvars[i].var)
  <2> TAKE i \in DOMAIN hlocalvars
  <2>1. PICK k \in DOMAIN visits : \E p \in DOMAIN visits[k] :
          Declares(visits[k][p], hlocalvars[i].var) /\ (k < st \/ (k = st /\ p < nx))
    BY DEF OnceInv, HoistedAtVisit
  <2>2. PICK p \in DOMAIN visits[k] :
          Declares(visits[k][p], hlocalvars[i].var) /\ (k < st \/ (k = st /\ p < nx))
    BY <2>1
  <2>3. k = st => p < nx + 1
    <3> SUFFICES ASSUME k = st PROVE p < nx + 1
      OBVIOUS
    <3>1. p \in Nat /\ (k < st \/ p < nx)
      BY <2>2 DEF TypesInv
    <3> QED BY <1>1, <3>1
  <2> QED BY <2>2, <2>3
<1>8. CASE hlocalvars' = hlocalvars
  <2>1. HoistedAtVisit'
    BY <1>2, <1>7, <1>8 DEF HoistedAtVisit
  <2>2. HoistedOnce'
    BY <1>2, <1>6, <1>8 DEF OnceInv, HoistedOnce
  <2> QED BY <1>3, <1>4, <1>5, <2>1, <2>2 DEF OnceInv
<1>9. CASE /\ x.el.op = "decl" /\ ~(count > 1)
           /\ \E d \in Declarations : d.var = x.el.n /\ hlocalvars' = Append(hlocalvars, d)
  <2>1. PICK d \in Declarations : d.var = x.el.n /\ hlocalvars' = Append(hlocalvars, d)
    BY <1>9
  <2>2. /\ DOMAIN hlocalvars' = DOMAIN hlocalvars \cup {Len(hlocalvars) + 1}
        /\ hlocalvars'[Len(hlocalvars) + 1] = d
        /\ \A i \in DOMAIN hlocalvars : hlocalvars'[i] = hlocalvars[i]
    BY <2>1, AppendHoists DEF TypesInv
  <2>3. At(x.el.n)
    <3>1. Declares(x, x.el.n) /\ nx < nx + 1
      BY <1>1, <1>9 DEF Declares
    <3> QED BY <1>1, <3>1
  <2>4. ASSUME NEW i \in DOMAIN hlocalvars, hlocalvars[i].var = x.el.n, NEW k,
               DeclaringStates(x.el.n) = {k}
        PROVE  FALSE
    BY <1>1, <1>9, <2>4, NotHoistedAgain
  <2> HIDE DEF x, At
  <2>5. \A i \in DOMAIN hlocalvars' : At(hlocalvars'[i].var)
    BY <1>7, <2>1, <2>2, <2>3
  <2>6. HoistedAtVisit'
    BY <1>2, <2>5 DEF HoistedAtVisit, At
  <2>7. ASSUME NEW i \in DOMAIN hlocalvars', NEW j \in DOMAIN hlocalvars', NEW k \in DOMAIN visits,
               hlocalvars'[i].var = hlocalvars'[j].var, DeclaringStates(hlocalvars'[i].var) = {k}
        PROVE  i = j
    <3>1. CASE i \in DOMAIN hlocalvars /\ j \in DOMAIN hlocalvars
      BY <2>2, <2>7, <3>1 DEF OnceInv, HoistedOnce
    <3>2. CASE i \in DOMAIN hlocalvars /\ j = Len(hlocalvars) + 1
      BY <2>1, <2>2, <2>4, <2>7, <3>2
    <3>3. CASE j \in DOMAIN hlocalvars /\ i = Len(hlocalvars) + 1
      BY <2>1, <2>2, <2>4, <2>7, <3>3
    <3> QED BY <2>2, <3>1, <3>2, <3>3
  <2>8. HoistedOnce'
    BY <1>2, <2>7 DEF HoistedOnce, DeclaringStates
  <2> QED BY <1>3, <1>4, <1>5, <2>6, <2>8 DEF OnceInv
<1>10. \/ hlocalvars' = hlocalvars
       \/ /\ x.el.op = "decl" /\ ~(count > 1)
          /\ \E d \in Declarations : d.var = x.el.n /\ hlocalvars' = Append(hlocalvars, d)
  BY VisitHoists
<1> QED BY <1>8, <1>9, <1>10

(***************************************************************************)
(* Every step keeps that a declaration is hoisted once in a state.         *)
(***************************************************************************)
LEMMA OnceKept ==
  ASSUME NamesInv, OnceInv, [NamesNext]_threadvars
  PROVE  OnceInv'
<1>1. CASE VisitElement
  BY <1>1, VisitKeepsOnce DEF NamesInv
<1>2. CASE TakePaths
  <2>1. nx' = 1 /\ st' = 1 /\ hlocalvars' = <<>>
    BY <1>2 DEF TakePaths, OnceInv, NotBegun, tables
  <2>2. \A k \in DOMAIN visits' : EnteredFirst(visits'[k])
    BY <1>2 DEF TakePaths
  <2> QED BY <2>1, <2>2
          DEF OnceInv, NotBegun, EntriesCounted, HoistedAtVisit, HoistedOnce
<1>3. CASE NextState
  <2>1. visits' = visits /\ st' = st + 1 /\ nx' = 1 /\ hlocalvars' = hlocalvars /\ st \in Nat
    BY <1>3 DEF NextState, tables, NamesInv, TypesInv
  <2>2. visits # <<>>
    BY <1>3 DEF NextState, NamesInv, TypesInv
  <2>3. NotBegun' /\ EntriesCounted'
    BY <2>1, <2>2 DEF NotBegun, EntriesCounted
  <2>4. \A k \in DOMAIN visits : k < st \/ k = st => k < st + 1
    BY <2>1 DEF NamesInv, TypesInv
  <2>5. HoistedAtVisit'
    <3> SUFFICES ASSUME NEW i \in DOMAIN hlocalvars
                 PROVE  \E k \in DOMAIN visits : \E p \in DOMAIN visits[k] :
                          Declares(visits[k][p], hlocalvars[i].var) /\ k < st + 1
      BY <2>1 DEF HoistedAtVisit
    <3> QED BY <2>4 DEF OnceInv, HoistedAtVisit
  <2>6. HoistedOnce'
    BY <2>1 DEF OnceInv, HoistedOnce, DeclaringStates
  <2> QED BY <2>1, <2>3, <2>5, <2>6 DEF OnceInv
<1>4. CASE UNCHANGED threadvars
  BY <1>4 DEF threadvars, tables, OnceInv, NotBegun, EntriesCounted, HoistedAtVisit, HoistedOnce,
              DeclaringStates
<1> QED BY <1>1, <1>2, <1>3, <1>4 DEF NamesNext

(***************************************************************************)
(* A variable declared on the path of one state has one name, however      *)
(* often the code of that state runs through the declaration and whatever  *)
(* the order of states and branches: SGVisited lets CheckVardecls hoist it *)
(* once, and ProcessDeclStmt finds the name again.                         *)
(***************************************************************************)
THEOREM DeclaredOnceNamedOnce == NamesSpec => []OneNameInOneState
<1> DEFINE I == NamesInv /\ OnceInv
<1>1. NamesInit => I
  <2> SUFFICES ASSUME NamesInit PROVE I
    OBVIOUS
  <2>1. NamesInv
    BY NamesInitially
  <2>2. OnceInv
    BY DEF NamesInit, OnceInv, NotBegun, EntriesCounted, HoistedAtVisit, HoistedOnce
  <2> QED BY <2>1, <2>2
<1>2. I /\ [NamesNext]_threadvars => I'
  BY NamesKept, OnceKept
<1>3. I => OneNameInOneState
  <2> SUFFICES ASSUME I, NEW r \in refs, NEW k \in DOMAIN visits, DeclaringStates(r.var) = {k},
                      NEW a \in Found, NEW b \in Found, a.var = r.var, b.var = r.var
               PROVE  a.name = b.name
    BY DEF OneNameInOneState, OneName
  <2>1. PICK i \in DOMAIN hlocalvars : hlocalvars[i].var = a.var /\ hlocalvars[i].name = a.name
    BY DEF NamesInv, NamesHoisted, Hoisted
  <2>2. PICK j \in DOMAIN hlocalvars : hlocalvars[j].var = b.var /\ hlocalvars[j].name = b.name
    BY DEF NamesInv, NamesHoisted, Hoisted
  <2>3. i = j
    BY <2>1, <2>2 DEF OnceInv, HoistedOnce
  <2> QED BY <2>1, <2>2, <2>3
<1> HIDE DEF I
<1> QED BY <1>1, <1>2, <1>3, PTL DEF NamesSpec
=============================================================================
