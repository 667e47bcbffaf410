--------------------------- MODULE NameMapsProofs ---------------------------
(***************************************************************************)
(* What the operations of newname_map_t leave in a table of names for the  *)
(* declarations of a set D, the names being of a set N.                    *)
(***************************************************************************)
EXTENDS NameMaps, TLAPS

Tables(D, N) == [map : UNION {[S -> N] : S \in SUBSET D}, cnt : Nat]

LEMMA TableFacts ==
  ASSUME NEW D, NEW N, NEW t \in Tables(D, N)
  PROVE  /\ DOMAIN t.map \subseteq D /\ t.cnt \in Nat
         /\ \A d \in DOMAIN t.map : t.map[d] \in N
         /\ t.map \in [DOMAIN t.map -> N]
<1>1. PICK S \in SUBSET D : t.map \in [S -> N]
  BY DEF Tables
<1> QED BY <1>1 DEF Tables

LEMMA MakeTable ==
  ASSUME NEW D, NEW N, NEW S \in SUBSET D, NEW m \in [S -> N], NEW n \in Nat
  PROVE  [map |-> m, cnt |-> n] \in Tables(D, N)
BY DEF Tables

(***************************************************************************)
(* A new table is empty.                                                   *)
(***************************************************************************)
LEMMA NewNameMapFacts ==
  ASSUME NEW D, NEW N
  PROVE  /\ NewNameMap \in Tables(D, N)
         /\ DOMAIN NewNameMap.map = {} /\ NewNameMap.cnt = 0
<1>1. NewNameMap.map \in [{} -> N] /\ DOMAIN NewNameMap.map = {} /\ NewNameMap.cnt = 0
  BY DEF NewNameMap
<1>2. NewNameMap = [map |-> NewNameMap.map, cnt |-> 0]
  BY DEF NewNameMap
<1>3. NewNameMap \in Tables(D, N)
  <2>1. {} \in SUBSET D /\ 0 \in Nat
    OBVIOUS
  <2>2. [map |-> NewNameMap.map, cnt |-> 0] \in Tables(D, N)
    BY <1>1, <2>1, MakeTable, Zenon
  <2> QED BY <1>2, <2>2, Zenon
<1> QED BY <1>1, <1>3

(***************************************************************************)
(* add_entry gives a new declaration a name made of the counter, and       *)
(* leaves an old one alone.                                                *)
(***************************************************************************)
LEMMA AddEntryFacts ==
  ASSUME NEW D, NEW N, NEW t \in Tables(D, N), NEW d \in D, NEW old, <<old, t.cnt>> \in N
  PROVE  LET r == add_entry(t, d, old)
         IN  /\ r \in Tables(D, N) /\ DOMAIN r.map = DOMAIN t.map \cup {d}
             /\ \A e \in DOMAIN t.map : r.map[e] = t.map[e]
             /\ d \in DOMAIN t.map => r = t
             /\ d \notin DOMAIN t.map => r.map[d] = <<old, t.cnt>> /\ r.cnt = t.cnt + 1
<1> DEFINE m == [e \in DOMAIN t.map \cup {d} |-> IF e = d THEN <<old, t.cnt>> ELSE t.map[e]]
           r == add_entry(t, d, old)
<1>1. DOMAIN t.map \subseteq D /\ t.cnt \in Nat /\ \A e \in DOMAIN t.map : t.map[e] \in N
  BY TableFacts
<1>2. CASE d \in DOMAIN t.map
  BY <1>2 DEF add_entry
<1>3. CASE d \notin DOMAIN t.map
  <2>1. r = [map |-> m, cnt |-> t.cnt + 1]
    BY <1>3 DEF add_entry
  <2>2. /\ DOMAIN t.map \cup {d} \in SUBSET D /\ m \in [DOMAIN t.map \cup {d} -> N]
        /\ DOMAIN m = DOMAIN t.map \cup {d}
        /\ m[d] = <<old, t.cnt>> /\ \A e \in DOMAIN t.map : m[e] = t.map[e]
    BY <1>1, <1>3
  <2>3. t.cnt + 1 \in Nat
    BY <1>1
  <2> HIDE DEF m
  <2>4. [map |-> m, cnt |-> t.cnt + 1] \in Tables(D, N)
    BY <2>2, <2>3, MakeTable
  <2> QED BY <1>3, <2>1, <2>2, <2>4
<1> QED BY <1>2, <1>3

(***************************************************************************)
(* insertall adds the declarations of another table and keeps its own      *)
(* names.                                                                  *)
(***************************************************************************)
LEMMA InsertallFacts ==
  ASSUME NEW D, NEW N, NEW t \in Tables(D, N), NEW u \in Tables(D, N)
  PROVE  LET r == insertall(t, u)
         IN  /\ r \in Tables(D, N) /\ DOMAIN r.map = DOMAIN t.map \cup DOMAIN u.map
             /\ \A e \in DOMAIN t.map : r.map[e] = t.map[e]
             /\ \A e \in DOMAIN u.map \ DOMAIN t.map : r.map[e] = u.map[e]
<1> DEFINE m == [e \in DOMAIN t.map \cup DOMAIN u.map |->
                   IF e \in DOMAIN t.map THEN t.map[e] ELSE u.map[e]]
<1>1. /\ DOMAIN t.map \subseteq D /\ t.cnt \in Nat /\ \A e \in DOMAIN t.map : t.map[e] \in N
      /\ DOMAIN u.map \subseteq D /\ \A e \in DOMAIN u.map : u.map[e] \in N
  BY TableFacts
<1>2. insertall(t, u) = [t EXCEPT !.map = m]
  BY DEF insertall
<1>3. /\ DOMAIN t.map \cup DOMAIN u.map \in SUBSET D
      /\ m \in [DOMAIN t.map \cup DOMAIN u.map -> N]
      /\ DOMAIN m = DOMAIN t.map \cup DOMAIN u.map
      /\ \A e \in DOMAIN t.map : m[e] = t.map[e]
      /\ \A e \in DOMAIN u.map \ DOMAIN t.map : m[e] = u.map[e]
  BY <1>1
<1> HIDE DEF m
<1>4. [t EXCEPT !.map = m] = [map |-> m, cnt |-> t.cnt]
  BY DEF Tables
<1>5. [map |-> m, cnt |-> t.cnt] \in Tables(D, N)
  BY <1>1, <1>3, MakeTable
<1> QED BY <1>2, <1>3, <1>4, <1>5

(***************************************************************************)
(* clear drops the names and keeps the counter.                            *)
(***************************************************************************)
LEMMA ClearFacts ==
  ASSUME NEW D, NEW N, NEW t \in Tables(D, N)
  PROVE  clear(t) \in Tables(D, N) /\ DOMAIN clear(t).map = {} /\ clear(t).cnt = t.cnt
<1> DEFINE m == NewNameMap.map
<1>1. m \in [{} -> N] /\ DOMAIN m = {} /\ t.cnt \in Nat
  BY TableFacts DEF NewNameMap
<1> HIDE DEF m
<1>2. clear(t) = [map |-> m, cnt |-> t.cnt]
  BY DEF clear, Tables, m
<1>3. [map |-> m, cnt |-> t.cnt] \in Tables(D, N)
  BY <1>1, MakeTable
<1> QED BY <1>1, <1>2, <1>3
=============================================================================
