------------------------------- MODULE MCMCDMA -------------------------------
(***************************************************************************)
(* Two channels, and descriptions of one or two channels with every kind   *)
(* of size: less than a block, a block, several blocks, the rest of the    *)
(* array, and a channel that does not exist.                               *)
(***************************************************************************)
EXTENDS MCDMA

Transfer(c, from, n) == [channel_id |-> c, start |-> from, nbytes |-> n]

Parts(c) == {Transfer(c, 0, 0), Transfer(c, 3, 0), Transfer(c, 1, 2), Transfer(c, 0, 4)}

Requests ==
  {<<d>> : d \in Parts(0) \cup Parts(1)}
  \cup {<<d, e>> : d \in Parts(1), e \in Parts(0)}
  \cup {<<d, Transfer(2, 0, 0)>> : d \in Parts(1)}
=============================================================================
