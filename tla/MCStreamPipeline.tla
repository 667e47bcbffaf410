-------------------------- MODULE MCStreamPipeline --------------------------
(***************************************************************************)
(* All pipelines of a few stages, register slices of sreg.h and FIFOs of   *)
(* one to three places, and with a splitter at the end whose FIFOs differ  *)
(* in depth.                                                               *)
(***************************************************************************)
EXTENDS StreamPipeline

CONSTANTS MaxStages, MaxBeforeSplit

Stage(kind, cap) == [kind |-> kind, cap |-> cap]
Slices == {Stage("BYPASS", 1), Stage("FWD", 1), Stage("QUEUE", 1), Stage("QUEUE", 2),
           Stage("QUEUE", 3)}

Rows(max) == UNION {[1 .. n -> Slices] : n \in 0 .. max}
SmallNetworks ==
  {[pipe |-> r, split |-> <<>>] : r \in Rows(MaxStages)}
  \cup {[pipe |-> r, split |-> <<2, 4>>] : r \in Rows(MaxBeforeSplit)}
=============================================================================
