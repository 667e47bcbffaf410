---------------------------- MODULE MCStreamFifo ----------------------------
(***************************************************************************)
(* The stream FIFO with three places in registers indexed by two bits, so  *)
(* that the indices wrap before their width does.                          *)
(***************************************************************************)
EXTENDS StreamFifo
=============================================================================
