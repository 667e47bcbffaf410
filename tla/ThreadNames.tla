----------------------------- MODULE ThreadNames -----------------------------
(***************************************************************************)
(* plugins/hdl/HDLThread.cpp: the names of the local variables of a        *)
(* thread.  The constructor translates the paths of the states in turn; a  *)
(* declaration met on the way is hoisted to the module under a new name,   *)
(* which the later statements are to find.  One step is one call of        *)
(* HDLBody::Run, or of ProcessDeclStmt, with what HDLThread does after it. *)
(*                                                                         *)
(* The order in which elements are met is arbitrary here, except that      *)
(* blocks are gone through from their start.                               *)
(***************************************************************************)
EXTENDS SplitCFG, NameMaps

CONSTANT NameOf(_)       \* the name of a variable, which others may have too

VARIABLES
  visits,                \* per state, the elements in the order they are translated
  st, nx,                \* the state and the element that are next
  SGVisited,             \* ids of blocks of the state -> visits so far
  vname_map,             \* the table of the thread's HDLBody
  thread_vname_map,      \* the table of the thread
  hlocalvars,            \* the declarations hoisted, in order
  refs                   \* what the code of the states refers to

tables == <<vname_map, thread_vname_map, hlocalvars, refs>>
threadvars == <<visits, st, nx, SGVisited, tables>>

\* An element, the id of its block, and whether the block is entered with it.
VisitedElements == [el : Elements, id : Nat, enters : BOOLEAN]

Declares(x, v) == x.el.op = "decl" /\ x.el.n = v

\* A variable is declared in one block, which is entered anew before each time
\* its declaration is met.
EnteredFirst(s) ==
  /\ \A p \in DOMAIN s : s[p].el.op = "decl" =>
       \E q \in 1 .. p : /\ s[q].enters /\ s[q].id = s[p].id
                         /\ \A r \in q .. p - 1 : ~Declares(s[r], s[p].el.n)
  /\ \A p, q \in DOMAIN s : s[p].el.op = "decl" /\ Declares(s[q], s[p].el.n) => s[p].id = s[q].id

NoVisits == [id \in {} |-> 0]

NamesInit ==
  /\ visits = <<>> /\ st = 1 /\ nx = 1 /\ SGVisited = NoVisits
  /\ vname_map = NewNameMap /\ thread_vname_map = NewNameMap
  /\ hlocalvars = <<>> /\ refs = {}

TakePaths ==
  /\ visits = <<>>
  /\ visits' \in Seq(Seq(VisitedElements))
  /\ \A k \in DOMAIN visits' : EnteredFirst(visits'[k])
  /\ UNCHANGED <<st, nx, SGVisited, tables>>

\* SGVisited and pathnodevisited are cleared for each state.
NextState ==
  /\ st <= Len(visits) /\ nx > Len(visits[st])
  /\ st' = st + 1 /\ nx' = 1 /\ SGVisited' = NoVisits
  /\ UNCHANGED <<visits, tables>>

Count(counts, id) == IF id \in DOMAIN counts THEN counts[id] ELSE 0

Ref(e, kind, name) == [state |-> st, lab |-> e.lab, var |-> e.n, kind |-> kind, name |-> name]

\* HDLBody::FindVname, with the table of the thread for the module's.
FindVname(table, v) ==
  IF find_entry_newn(table, v) # NoName THEN find_entry_newn(table, v)
  ELSE find_entry_newn(thread_vname_map, v)

\* Mutant: the declaration is hoisted but not added to the thread's table.
HoistOnly(e) ==
  LET table == add_entry(clear(vname_map), e.n, NameOf(e.n))
  IN  /\ vname_map' = table
      /\ hlocalvars' = Append(hlocalvars, [var |-> e.n, name |-> find_entry_newn(table, e.n)])
      /\ refs' = refs \cup IF e.args = 1 THEN {Ref(e, "init", FindVname(table, e.n))} ELSE {}
      /\ UNCHANGED thread_vname_map

\* HDLBody::Run on a declaration: the table is emptied, the variable entered, and
\* the initializer assigned to the name found.  CheckVardecls, in a block's first
\* visit for this state, hoists the declaration and adds the table to the thread's.
RunDeclaration(e) ==
  LET table == add_entry(clear(vname_map), e.n, NameOf(e.n))
  IN  /\ vname_map' = table
      /\ thread_vname_map' = insertall(thread_vname_map, table)
      /\ hlocalvars' = Append(hlocalvars, [var |-> e.n, name |-> find_entry_newn(table, e.n)])
      /\ refs' = refs \cup IF e.args = 1 THEN {Ref(e, "init", FindVname(table, e.n))} ELSE {}

\* ProcessDeclStmt: only the initializer, assigned to the name the thread has.
ProcessDeclStmt(e) ==
  /\ refs' = refs \cup IF e.args = 1
                         THEN {Ref(e, "init", find_entry_newn(thread_vname_map, e.n))} ELSE {}
  /\ vname_map' = IF e.args = 1 THEN clear(vname_map) ELSE vname_map
  /\ UNCHANGED <<thread_vname_map, hlocalvars>>

\* Mutant: a declaration is hoisted again on every visit.
AlwaysHoist(e, again) == RunDeclaration(e)

TranslateDeclaration(e, again) == IF again THEN ProcessDeclStmt(e) ELSE RunDeclaration(e)

RunStatement(e) ==
  /\ vname_map' = clear(vname_map)
  /\ refs' = refs \cup IF e.op \in {"stmt", "cond"} /\ e.n # 0
                         THEN {Ref(e, "use", FindVname(vname_map', e.n))} ELSE {}
  /\ UNCHANGED <<thread_vname_map, hlocalvars>>

VisitElement ==
  /\ st <= Len(visits) /\ nx <= Len(visits[st])
  /\ LET x == visits[st][nx]
         count == Count(SGVisited, x.id) + IF x.enters THEN 1 ELSE 0
     IN  /\ SGVisited' = [i \in DOMAIN SGVisited \cup {x.id} |->
                            IF i = x.id THEN count ELSE SGVisited[i]]
         /\ IF x.el.op = "decl" THEN TranslateDeclaration(x.el, count > 1) ELSE RunStatement(x.el)
  /\ nx' = nx + 1
  /\ UNCHANGED <<visits, st>>

NamesNext == TakePaths \/ NextState \/ VisitElement

(***************************************************************************)
(* The names of a thread whose elements come in any order.  ThreadSpec,    *)
(* which takes the order HDLThread generates code in, implements it:       *)
(* ProcessSplitGraphBlock generates a block whole, from its first element, *)
(* each time it counts a visit of it.                                      *)
(***************************************************************************)
NamesSpec == NamesInit /\ [][NamesNext]_threadvars
-----------------------------------------------------------------------------
\* The references that found a name.
Found == {r \in refs : r.name # NoName}

\* A name belongs to one variable, also when variables of several scopes share
\* theirs: the counter of the HDLBody of a thread is not reset when its table is
\* emptied before every statement (newname_map_t::clear).
LocalNamesDistinct ==
  /\ \A r, s \in Found : r.name = s.name => r.var = s.var
  /\ \A i, j \in DOMAIN hlocalvars : hlocalvars[i].name = hlocalvars[j].name => i = j

\* Whatever the order in which the states are translated, a statement that reads
\* a variable finds it declared: the name it gets was hoisted before.
UsesAreDeclared ==
  \A r \in refs : \E i \in DOMAIN hlocalvars : hlocalvars[i] = [var |-> r.var, name |-> r.name]

\* The states whose code holds the declaration of v.
DeclaringStates(v) ==
  {k \in DOMAIN visits : \E j \in DOMAIN visits[k] : Declares(visits[k][j], v)}

OneName(v) == \A r, s \in Found : r.var = v /\ s.var = v => r.name = s.name

\* A variable declared on the path of one state only has one name, in its
\* initializers and in every state that reads it, also when several branches of
\* that state run through its declaration (ProcessDeclStmt, SGVisited).
OneNameInOneState ==
  \A r \in refs : \A k \in DOMAIN visits : DeclaringStates(r.var) = {k} => OneName(r.var)

\* HDLThread.cpp: "Check if this CFG block has already been generated / if so, skip
\* the var decls. they were done on the first instantiation": a variable has one
\* name, whatever the states its declaration is in.
OneNamePerVariable == \A r \in refs : OneName(r.var)
=============================================================================
