------------------------------ MODULE NameMaps ------------------------------
(***************************************************************************)
(* plugins/hdl/hNode.h, name_serve and newname_map_t: the tables that give *)
(* every declaration of a design (a module instance, a variable, a         *)
(* function) the identifier it has in the hcode.                           *)
(*                                                                         *)
(* A generated identifier is the old name, the prefix of its table and the *)
(* value of the table's counter, concatenated; it is the pair of old name  *)
(* and counter here, the prefix being the same for a whole table.          *)
(***************************************************************************)
EXTENDS Naturals

NoName == <<>>           \* the empty string

NewNameMap == [map |-> [d \in {} |-> NoName], cnt |-> 0]

find_entry_newn(t, d) == IF d \in DOMAIN t.map THEN t.map[d] ELSE NoName

add_entry(t, d, old) ==
  IF d \in DOMAIN t.map THEN t
  ELSE [map |-> [e \in DOMAIN t.map \cup {d} |->
                   IF e = d THEN <<old, t.cnt>> ELSE t.map[e]],
        cnt |-> t.cnt + 1]

\* std::map::insert: an entry already there is kept.
insertall(t, u) ==
  [t EXCEPT !.map = [e \in DOMAIN t.map \cup DOMAIN u.map |->
                       IF e \in DOMAIN t.map THEN t.map[e] ELSE u.map[e]]]

\* Mutant: the counter restarts with the table.
ClearCounterToo(t) == NewNameMap

\* The entries go, the counter of the name server stays.
clear(t) == [t EXCEPT !.map = NewNameMap.map]
=============================================================================
