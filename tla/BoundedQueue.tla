---------------------------- MODULE BoundedQueue ----------------------------
(***************************************************************************)
(* What a stream FIFO promises: at each clock edge it takes a value that   *)
(* is offered unless it holds Capacity of them, and hands over its oldest  *)
(* value to a reader that is ready, if it holds one; both may happen at    *)
(* the same edge.  Reset empties it.                                       *)
(***************************************************************************)
EXTENDS Integers, Sequences

CONSTANTS Data, Capacity

VARIABLES
  q,                     \* the values held, oldest first
  taken,                 \* whether a value was taken at the last edge
  given                  \* the value handed over at the last edge, if any

qvars == <<q, taken, given>>

QInit == q = <<>> /\ taken = FALSE /\ given = <<>>

QReset == q' = <<>> /\ taken' = FALSE /\ given' = <<>>

QEdge(valid, d, ready) ==
  /\ taken' = (valid /\ Len(q) < Capacity)
  /\ given' = IF ready /\ q # <<>> THEN <<Head(q)>> ELSE <<>>
  /\ q' = (IF given' # <<>> THEN Tail(q) ELSE q) \o (IF taken' THEN <<d>> ELSE <<>>)

QNext == QReset \/ \E valid, ready \in BOOLEAN, d \in Data : QEdge(valid, d, ready)

QSpec == QInit /\ [][QNext]_qvars
=============================================================================
