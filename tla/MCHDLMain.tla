----------------------------- MODULE MCHDLMain -----------------------------
(***************************************************************************)
(* Small designs for HDLMain: every way two processes and three functions  *)
(* may call one another, trees of instances, and a class with bases.       *)
(***************************************************************************)
EXTENDS HDLMainProperties

Call(f) == [fun |-> f, kind |-> "function", qualified |-> FALSE, cast |-> FALSE]
Member(f) == [Call(f) EXCEPT !.kind = "member"]
Ctor(f) == [Call(f) EXCEPT !.kind = "ctor"]

Function(q, body, cs) == [qual |-> q, hasBody |-> body, ctor |-> FALSE, calls |-> cs]
Process(t, cs) == [type |-> t, hasBody |-> TRUE, calls |-> cs]
Class(procs) ==
  [inits |-> <<>>, hasCtor |-> TRUE, ctor |-> <<>>, procs |-> procs, methods |-> <<>>]
Module(n, ss, chain) == [name |-> n, subs |-> ss, chain |-> chain]
Design(ms, fs) == [root |-> "top", mods |-> ms, funs |-> fs]
Top(procs) == [top |-> Module("Top", <<>>, <<Class(procs)>>)]

Processes(cs) == {Process(t, s) : t \in {"METHOD", "THREAD"}, s \in cs}

\* f, g and h may call one another in a cycle; f and g may be overloads of one
\* name, and h may have no body.
CallGraphs ==
  {Design(Top(<<p, q>>),
          [f |-> Function("F", TRUE, cf), g |-> Function(qg, TRUE, cg), h |-> Function("H", bh, ch)]) :
     p \in Processes({<<Call("f")>>, <<Call("g"), Call("f")>>}),
     q \in Processes({<<>>, <<Call("g")>>, <<Call("h"), Call("g")>>}),
     cf \in {<<>>, <<Call("g")>>, <<Call("f"), Call("h")>>}, cg \in {<<>>, <<Call("f"), Call("h")>>},
     ch \in {<<>>, <<Call("f")>>}, qg \in {"F", "G"}, bh \in BOOLEAN}

\* A process that is skipped, an initializer, a constructor of a user class, a
\* module's constructor and a class of the chain without one.
Skipped == [type |-> "METHOD", hasBody |-> FALSE, calls |-> <<Call("g")>>]
OddBodies ==
  {Design([top |-> Module("Top", <<>>,
             <<[Class(<<Skipped, Process("OTHER", <<Call("h")>>), Process(t, <<Ctor("k"), Call("f")>>)>>)
                  EXCEPT !.inits = <<ci>>, !.hasCtor = hc, !.ctor = <<Call("g"), Ctor("k")>>],
               [Class(<<Process("CTHREAD", <<Call("g")>>)>>) EXCEPT !.ctor = <<Call("h")>>]>>)],
          [f |-> Function("F", TRUE, <<Call("h")>>), g |-> Function("G", TRUE, <<>>),
           h |-> Function("H", TRUE, <<>>), k |-> [Function("K", TRUE, <<Call("g")>>) EXCEPT !.ctor = TRUE]]) :
     t \in {"METHOD", "THREAD"}, ci \in {<<>>, <<Call("f")>>}, hc \in BOOLEAN}

\* Instances of the same class at several places of the tree, and no instance.
Leaf(n) == Module(n, <<>>, <<Class(<<Process("METHOD", <<Call("f")>>)>>)>>)
Trees ==
  {Design([top |-> Module("Top", ss, <<Class(<<>>)>>), a |-> Module(na, sa, <<Class(<<>>)>>),
           b |-> Leaf("Leaf"), c |-> Leaf("Leaf")],
          [f |-> Function("F", TRUE, <<>>)]) :
     <<ss, sa>> \in {<<<<"a", "b", "c">>, <<>>>>, <<<<"a", "b">>, <<"c">>>>, <<<<"b", "a">>, <<"c">>>>},
     na \in {"Leaf", "Top"}}
NoRoots == {[d EXCEPT !.root = NoModule] : d \in Trees}

\* The slots a class of the chain may define; the processes of the base class call
\* the base method, by its name or through its class, on an object cast or not.
Methods(k) == {<<>>, [v |-> k]}
Chained(k, procs) == [Class(procs) EXCEPT !.methods = [v |-> k]]
Dispatches ==
  {Design([top |-> Module("Top", <<>>, <<[Class(<<>>) EXCEPT !.methods = md],
                                         Chained("f", <<Process(t, <<c, Member("g")>>)>>)>>)],
          [f |-> Function("F", TRUE, <<>>), g |-> Function("G", TRUE, <<Member("f")>>),
           h |-> Function("H", bh, <<Member("g")>>)]) :
     md \in Methods("h"), bh \in BOOLEAN, t \in {"METHOD", "THREAD"},
     c \in {[Member("f") EXCEPT !.qualified = q, !.cast = k] : q, k \in BOOLEAN}}

\* A call in the last condition of a thread, of a function that another process
\* or a function of the module may call too.
Tails ==
  {Design(Top(<<Process("THREAD", cp), Process("TAIL", <<Call("g"), Call("f")>>), Process(t, cq)>>),
          [f |-> Function("F", TRUE, cf), g |-> Function("G", TRUE, <<>>)]) :
     cp, cq \in {<<>>, <<Call("f")>>}, cf \in {<<>>, <<Call("g")>>}, t \in {"METHOD", "CTHREAD"}}

SmallDesigns == Tails \cup CallGraphs \cup OddBodies \cup Trees \cup NoRoots \cup Dispatches
=============================================================================
