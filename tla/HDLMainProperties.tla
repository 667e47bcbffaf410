------------------------- MODULE HDLMainProperties -------------------------
(***************************************************************************)
(* What the translation of a design promises: the modules printed are the  *)
(* instances of the design and hold every function they need.              *)
(***************************************************************************)
EXTENDS HDLMain

Funs == DOMAIN design.funs
Names == {NoName} \cup ({design.funs[f].qual : f \in Funs} \X Nat)
FunTable(t) == DOMAIN t.map \subseteq Funs /\ \A f \in DOMAIN t.map : t.map[f] \in Names \ {NoName}

\* The translation is at instances, bodies and functions of the design, and no
\* table has an entry without a name (SCmodule2hcode, newname_map_t).
TypeOK ==
  /\ IsDesign(design)
  /\ pc \in {"start", "module", "inits", "subs", "ctors", "procs", "functions", "done"}
  /\ todo \in Seq(DOMAIN design.mods)
  /\ cls \in Nat /\ ix \in Nat
  /\ run.mode \in {"none", "rnomode", "rmodinit", "rmethod", "rthread", "rtail", "function"}
  /\ run.fun \in Funs \cup {NoFun}
  /\ calls \in Seq(Calls(design))
  /\ FunTable(xbody) /\ FunTable(tbody) /\ FunTable(allmethodecls)
  /\ generated_functions \subseteq Funs

Elements(s) == {s[i] : i \in DOMAIN s}

\* The calls of a body that count: what only the tail of a thread calls is never
\* added to the functions of the module.
MergedCalls(b) == IF b.mode = "rtail" THEN {} ELSE Elements(b.calls)

ProcessCalls(m) ==
  LET chain == design.mods[m].chain
  IN  UNION {UNION {MergedCalls(ProcessBody(chain[i].procs[j])) : j \in DOMAIN chain[i].procs} :
               i \in DOMAIN chain}

\* A set of functions that has what the processes of m call and, for each of its
\* functions that has a body, what that body calls.
ClosedFor(m, S) ==
  /\ \A c \in ProcessCalls(m) : Callee(m, c) \in S
  /\ \A f \in S : HasBody(f) => \A c \in Elements(design.funs[f].calls) : Callee(m, c) \in S

\* The work list of SCmodule2hcode finds all that a module needs and nothing else:
\* the functions of a printed module are the ones with a body in the least set
\* that holds the callees of its processes, up to the last statement of a thread,
\* and is closed under calls.
FunctionsComplete ==
  \A p \in printed :
    \E S \in SUBSET Funs :
      /\ ClosedFor(p.inst, S)
      /\ \A T \in SUBSET S : ClosedFor(p.inst, T) => T = S
      /\ {h.fun : h \in p.funs} = {f \in S : HasBody(f)}

Defines(p, f, name) == [fun |-> f, name |-> name] \in p.funs

\* Every call in a process, up to the last statement of a thread, or in a function
\* of a printed module, of anything but a constructor, carries the name under which
\* that module defines the function: the tables of the bodies, cleared and refilled,
\* agree with the table of the module (FindFname, insertall).
CallsResolve ==
  \A p \in printed : \A c \in p.calls :
    (c.mode \notin {"rnomode", "rtail"} /\ c.call.kind # "ctor" /\ HasBody(c.fun)) => Defines(p, c.fun, c.name)

\* The bodies of the threads of m, which have name servers of their own, call no
\* function that shares its qualified name with another one.
OverloadsOutsideThreads(m) ==
  LET chain == design.mods[m].chain
  IN  \A i \in DOMAIN chain : \A j \in DOMAIN chain[i].procs :
        LET b == ProcessBody(chain[i].procs[j])
        IN  b.mode = "rthread" => \A c \in Elements(b.calls) : \A g \in Funs :
              design.funs[g].qual = design.funs[Callee(m, c)].qual => g = Callee(m, c)

DistinctFunctionNames(p) == \A h, k \in p.funs : h.name = k.name => h = k

\* Two functions of a printed module have two names, overloaded ones too, as long
\* as no thread calls an overloaded one: the counter of the name server survives
\* newname_map_t::clear, so that the bodies sharing an HDLBody never reuse a name.
FunctionNamesDistinct ==
  \A p \in printed : OverloadsOutsideThreads(p.inst) => DistinctFunctionNames(p)

\* Every submodule declared in a printed module has as its type the name of the
\* module printed for that very instance, once the translation is over.
InstancesResolve ==
  pc = "done" => \A p \in printed : \A s \in p.subs :
    \E q \in printed : /\ q.inst = s.inst
                       /\ {r \in printed : r.name = s.type} = {q}

\* The method that C++ calls for the slot of f in an instance of m.
FinalOverrider(m, f) ==
  LET chain == design.mods[m].chain
      Slots == {v \in UNION {DOMAIN chain[i].methods : i \in DOMAIN chain} :
                  \E i \in DOMAIN chain : v \in DOMAIN chain[i].methods /\ chain[i].methods[v] = f}
      Definers(v) == {i \in DOMAIN chain : v \in DOMAIN chain[i].methods}
  IN  UNION {{chain[i].methods[v] : i \in {k \in Definers(v) : \A j \in Definers(v) : k <= j}} :
               v \in Slots}

\* The method that C++ calls: a call that names the class is not dispatched.
CalledBy(m, c) == IF c.qualified THEN {c.fun} ELSE FinalOverrider(m, c.fun)

DispatchedTo(p) ==
  \A c \in p.calls :
    (c.call.kind = "member" /\ (c.call.cast <=> c.call.qualified))
      => CalledBy(p.inst, c.call) \subseteq {c.fun}

\* A member call in a module with at most one base class is translated to the
\* method that C++ would call (overridden_method_map), when the methods overridden
\* have bodies and the object is cast just when the call names the class.  The
\* other calls are excluded: the code takes the cast of a const method called from
\* one that is not, or of a pointer variable, for the name of a class.
OneLevelDispatch ==
  \A p \in printed :
    LET chain == design.mods[p.inst].chain
    IN  (Len(chain) <= 2 /\ \A i \in DOMAIN chain : \A v \in DOMAIN chain[i].methods :
                              HasBody(chain[i].methods[v]))
          => DispatchedTo(p)

\* The translation ends, recursive functions or not: no function is generated
\* twice in a module (generated_functions).
TranslationEnds == <>(pc = "done")
=============================================================================
