------------------------- MODULE MCModuleVariables -------------------------
(***************************************************************************)
(* Modules with a base class that repeats their names, threads that share  *)
(* variables and functions whose parameters share a name.                  *)
(***************************************************************************)
EXTENDS ModuleVariables

CONSTANTS MaxEntries, Names, Parameter

Entry(n, p) == [name |-> n, pointer |-> p]
Lists(ptrs) == UNION {[1 .. n -> {Entry(x, p) : x \in Names, p \in ptrs}] : n \in 0 .. MaxEntries}

\* Names within a class are distinct, as C++ has it.
ClassesOf(ptrs) ==
  {c \in {<<i, <<>>, o, <<>>, <<>>, s, v>> : i \in Lists({FALSE}), o \in Lists({FALSE}),
                                             s \in Lists(ptrs), v \in Lists({FALSE})} :
     \A a, b \in {<<l, k>> \in (1 .. 7) \X (1 .. MaxEntries) : k <= Len(c[l])} :
       c[a[1]][a[2]].name = c[b[1]][b[2]].name => a = b}

WithChain(ch, ths) ==
  [chain |-> ch, maxEntries |-> MaxEntries, threads |-> ths, params |-> <<Parameter, Parameter>>]
AllEntries(ch) == Entries(WithChain(ch, <<>>))

Shared(ch, ts) == [t \in DOMAIN ts |-> {e \in AllEntries(ch) : e[ts[t][1]] = ts[t][2]}]
ChainedModules ==
  {WithChain(<<c, b>>, Shared(<<c, b>>, <<<<1, 2>>, <<2, 6>>>>)) :
     c \in ClassesOf({FALSE}), b \in ClassesOf({FALSE, TRUE})}
    \cup {WithChain(<<c, c, c>>, Shared(<<c, c, c>>, <<<<2, 7>>>>)) : c \in ClassesOf({FALSE})}
=============================================================================
