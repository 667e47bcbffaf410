--------------------------- MODULE StreamPipeline ---------------------------
(***************************************************************************)
(* Stream modules between threads: sc_stream.h, sreg.h, sfifo_cc.h and     *)
(* ssplit.h.  One thread sends values with the blocking write() of the     *)
(* first stream.  The stream passes stages in a row; the last one leads to *)
(* a thread that receives with the blocking read(), or to a splitter with  *)
(* a FIFO and a receiving thread on each of its two ports.  One step is    *)
(* one rising clock edge, at which every process reads the signals as they *)
(* have settled before it.                                                 *)
(*                                                                         *)
(* A stage is BYPASS or FWD, sreg.h, or QUEUE: sfifo_cc.h, and the FWD_REV *)
(* of sreg.h, which is the same code with depth 2.  StreamFifo shows that  *)
(* code to be a bounded queue, which stands for it here.                   *)
(***************************************************************************)
EXTENDS Integers, Sequences

CONSTANTS
  Networks,              \* the stages of a pipeline, and the two depths of a
                         \* splitter or <<>> without one
  N                      \* the number of values sent

StageTypes == [kind : {"BYPASS", "FWD", "QUEUE"}, cap : Nat \ {0}]

ASSUME NetworkAssumption ==
  /\ N \in Nat
  /\ \A w \in Networks : /\ w.pipe \in Seq(StageTypes)
                         /\ Len(w.split) \in {0, 2} /\ w.split \in Seq(Nat \ {0})

VARIABLES
  pipe, split,           \* the network, fixed
  held,                  \* the values in the registers of each stage, oldest first
  que,                   \* and in the FIFOs of the splitter
  valid, data,           \* written by the sender, data counting from 1
  ready,                 \* written by each receiver
  sent, received         \* what write() and each read() have returned for

vars == <<pipe, split, held, que, valid, data, ready, sent, received>>

Stages == DOMAIN pipe
Ports == IF split = <<>> THEN {1} ELSE {1, 2}
Other(p) == 3 - p

Init ==
  /\ \E w \in Networks : pipe = w.pipe /\ split = w.split
  /\ held = [k \in Stages |-> <<>>]
  /\ que = [p \in DOMAIN split |-> <<>>]
  /\ valid = FALSE /\ data = 0
  /\ ready = [p \in Ports |-> FALSE]
  /\ sent = <<>>
  /\ received = [p \in Ports |-> <<>>]
-----------------------------------------------------------------------------
(***************************************************************************)
(* The combinational processes.  Stream k, from 0 to the number of stages, *)
(* leads from stage k to stage k + 1; stream 0 comes from the sender and   *)
(* the last one goes to the receiver or to the s_port of the splitter.     *)
(***************************************************************************)
Streams == 0 .. Len(pipe)

valid_r ==
  LET v[k \in Streams] ==
        IF k = 0 THEN valid
        ELSE IF pipe[k].kind = "BYPASS" THEN v[k - 1] ELSE held[k] # <<>>
  IN  v

data_r ==
  LET d[k \in Streams] ==
        IF k = 0 THEN data
        ELSE IF pipe[k].kind = "BYPASS" THEN d[k - 1]
        ELSE IF held[k] # <<>> THEN Head(held[k]) ELSE 0
  IN  d

c_ready(p) == Len(que[p]) < split[p]

\* What the last stream ends in: a receiver, or mc_proc of the splitter, which
\* is ready when both of its FIFOs are.
EndReady == IF split = <<>> THEN ready[1] ELSE c_ready(1) /\ c_ready(2)

\* Mutant: a FIFO is not ready when one place is left.
FullTooEarly ==
  LET r[k \in Streams] ==
        IF k = Len(pipe) THEN EndReady
        ELSE CASE pipe[k + 1].kind = "BYPASS" -> r[k + 1]
               [] pipe[k + 1].kind = "FWD"    -> r[k + 1] \/ held[k + 1] = <<>>
               [] pipe[k + 1].kind = "QUEUE"  -> Len(held[k + 1]) + 1 < pipe[k + 1].cap
  IN  r

ready_r ==
  LET r[k \in Streams] ==
        IF k = Len(pipe) THEN EndReady
        ELSE CASE pipe[k + 1].kind = "BYPASS" -> r[k + 1]
               [] pipe[k + 1].kind = "FWD"    -> r[k + 1] \/ held[k + 1] = <<>>
               [] pipe[k + 1].kind = "QUEUE"  -> Len(held[k + 1]) < pipe[k + 1].cap
  IN  r

\* Mutant: a FIFO is offered the value whether or not the other can take it.
OfferedAlone(p) == valid_r[Len(pipe)]

\* mc_proc: each FIFO is offered a value only when the other one is ready.
c_valid(p) == valid_r[Len(pipe)] /\ c_ready(Other(p))

Transfer(k) == valid_r[k] /\ ready_r[k]

\* What ms_proc of stage k leaves in its registers.
ms_proc(k) ==
  LET offered == IF valid_r[k - 1] THEN <<data_r[k - 1]>> ELSE <<>>
  IN  CASE pipe[k].kind = "BYPASS" -> <<>>
        [] pipe[k].kind = "FWD"    ->
             IF ready_r[k] \/ held[k] = <<>> THEN offered ELSE held[k]
        [] pipe[k].kind = "QUEUE"  ->
             (IF Transfer(k) THEN Tail(held[k]) ELSE held[k])
             \o (IF Transfer(k - 1) THEN offered ELSE <<>>)

\* What the receiver at port p sees.
m_valid(p) == IF split = <<>> THEN valid_r[Len(pipe)] ELSE que[p] # <<>>
m_data(p)  == IF split = <<>> THEN data_r[Len(pipe)] ELSE Head(que[p])

\* The FIFO u_que1 or u_que2.
u_que(p) ==
  (IF ready[p] /\ m_valid(p) THEN Tail(que[p]) ELSE que[p])
  \o (IF c_valid(p) /\ c_ready(p) THEN <<data_r[Len(pipe)]>> ELSE <<>>)
-----------------------------------------------------------------------------
\* Mutant: write() gives up when the stream is not ready.
GivesUp(start) ==
  /\ sent' = IF valid /\ ready_r[0] THEN Append(sent, data) ELSE sent
  /\ IF start /\ Len(sent') < N
       THEN valid' = TRUE /\ data' = Len(sent') + 1
       ELSE valid' = FALSE /\ data' = data

(***************************************************************************)
(* sc_stream::write, which returns at the first edge at which the stream   *)
(* is ready; the sender may call it again at once.                         *)
(***************************************************************************)
write(start) ==
  IF valid /\ ~ready_r[0] THEN UNCHANGED <<valid, data, sent>>
  ELSE /\ sent' = IF valid THEN Append(sent, data) ELSE sent
       /\ IF start /\ Len(sent') < N
            THEN valid' = TRUE /\ data' = Len(sent') + 1
            ELSE valid' = FALSE /\ data' = data

\* sc_stream::read, which returns at the first edge at which it is valid.
read(starts) ==
  /\ received' = [p \in Ports |-> IF ready[p] /\ m_valid(p)
                                    THEN Append(received[p], m_data(p)) ELSE received[p]]
  /\ ready' = [p \in Ports |-> (ready[p] /\ ~m_valid(p)) \/ p \in starts]

ClockEdge(writes, reads) ==
  /\ write(writes)
  /\ read(reads)
  /\ held' = [k \in Stages |-> ms_proc(k)]
  /\ que' = [p \in DOMAIN split |-> u_que(p)]
  /\ UNCHANGED <<pipe, split>>

Next == \E writes \in BOOLEAN, reads \in SUBSET Ports : ClockEdge(writes, reads)

\* The clock keeps ticking, and all threads call write() and read() again and
\* again, though each may pause for any time between two calls.
Spec ==
  /\ Init /\ [][Next]_vars
  /\ WF_vars(\E reads \in SUBSET Ports : ClockEdge(TRUE, reads))
  /\ \A p \in {1, 2} :
       WF_vars(\E writes \in BOOLEAN, reads \in SUBSET Ports :
                 p \in reads /\ ClockEdge(writes, reads))
-----------------------------------------------------------------------------
\* The values in stages 1 to k, oldest first.
InStages ==
  LET c[k \in Streams] == IF k = 0 THEN <<>> ELSE held[k] \o c[k - 1]
  IN  c

(***************************************************************************)
(* Every value for which write() has returned is on its way to, or has     *)
(* been returned by read() to, every receiver, once and in order, however  *)
(* the threads pause, whichever stages let ready or valid through within   *)
(* the cycle, and whichever FIFO of a splitter is full.                    *)
(***************************************************************************)
NothingLost ==
  \A p \in Ports :
    sent = received[p] \o (IF split = <<>> THEN <<>> ELSE que[p]) \o InStages[Len(pipe)]

(***************************************************************************)
(* A value offered and not taken is still offered, unchanged, at the next  *)
(* edge, on every stream of the pipeline.                                  *)
(***************************************************************************)
OffersStand ==
  [][\A k \in Streams : valid_r[k] /\ ~ready_r[k] =>
       valid_r'[k] /\ data_r'[k] = data_r[k]]_vars

\* Every value reaches every receiver: the threads do not wait for each other
\* for ever, and a full FIFO of a splitter holds the other branch back only as
\* long as its own receiver pauses.
AllArrive == <>(\A p \in Ports : received[p] = [i \in 1 .. N |-> i])
=============================================================================
