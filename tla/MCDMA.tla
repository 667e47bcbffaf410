------------------------------- MODULE MCDMA -------------------------------
(***************************************************************************)
(* hardware/app/MCDMA.py: the driver of one direction of the multi-channel *)
(* DMA engine, _SGDMAControl with its _SGDMAChannels.  A client calls      *)
(* reset, stop, transfer (start_transfer) and wait in any order.  Every    *)
(* loop that polls a register is a step that waits for the register, so    *)
(* the engine works between any two accesses of the driver.                *)
(*                                                                         *)
(* The engine is not part of the repository: it is what the driver's       *)
(* registers and comments say of it.                                       *)
(*                                                                         *)
(* An array is the set of its byte offsets, and every channel has one of   *)
(* its own.  owed is what the client is waiting for, as                    *)
(* ChannelTransferDescription words it, not as the descriptors say it.     *)
(***************************************************************************)
EXTENDS Integers, Sequences, FiniteSets, SequencesExt

CONSTANTS
  Channels,          \* the ids of the channels of this direction: 0 ..
  Descriptions,      \* what clients ask for, a sequence of channels and bytes
  ArrayBytes,        \* array.nbytes
  MaxSize, Align,    \* 1 << c_sg_length_width, and the width of the stream
  LengthBits         \* the length field of a descriptor: 0x3ffffff is 26 bits

VARIABLES
  eng,               \* the common registers of the engine
  ch,                \* the registers of each channel, and what it works on
  owed,              \* the bytes a transfer that was not refused has to move
  pc, call, k,       \* the driver: where it is, in which description
  description,       \* self._description
  last               \* how the last call ended

vars == <<eng, ch, owed, pc, call, k, description, last>>
engine == <<eng, ch, owed>>
driver == <<pc, call, k, description, last>>

Never == <<>>        \* no _description has been assigned yet

\* The fields that say which bytes of the channel's array to move.
ChannelTransferDescription == [channel_id : Nat, start : Nat, nbytes : Nat]

\* Mutant: the rest of the array is the whole of it.
WholeArray(d) == IF d.nbytes = 0 THEN ArrayBytes ELSE d.nbytes

\* "Default is 0, meaning transfer the whole array to the end"
nbytes(d) == IF d.nbytes = 0 THEN ArrayBytes - d.start ELSE d.nbytes
Asked(d) == d.start .. d.start + nbytes(d) - 1

blk_size == MaxSize - (MaxSize % Align)

\* create_tx_control and create_rx_control: the length in its field.
create_control(length) == length % 2 ^ LengthBits

\* What is written into a length field fits it: every block does, or a transfer is
\* never longer than the field can say.  With a c_sg_length_width of 26 a full
\* block has 2 ^ 26 bytes, its field holds 0, and it moves nothing; so what
\* depends on the lengths is promised for shorter arrays only.
LengthsFit == ArrayBytes < 2 ^ LengthBits \/ blk_size < 2 ^ LengthBits

\* A client asks for some bytes of the array, of each channel at most once.  A
\* block has room for one beat of the stream.
ASSUME TransferAssumption ==
  /\ ArrayBytes \in Nat /\ Align \in Nat \ {0} /\ MaxSize \in Nat /\ MaxSize >= Align
  /\ 2 ^ LengthBits \in Nat \ {0}
  /\ \A asked \in Descriptions :
       /\ asked # <<>> /\ asked \in Seq(ChannelTransferDescription)
       /\ \A i, j \in DOMAIN asked : asked[i].channel_id = asked[j].channel_id => i = j
       /\ \A i \in DOMAIN asked : /\ asked[i].start < ArrayBytes
                                  /\ asked[i].start + asked[i].nbytes <= ArrayBytes

\* Mutant: the last block is a full one.
FullBlocks(d) ==
  LET num_descr == (nbytes(d) + blk_size - 1) \div blk_size
  IN  [i \in 1 .. num_descr |->
        [addr |-> d.start + (i - 1) * blk_size,
         len  |-> create_control(blk_size),
         next |-> (i % num_descr) + 1]]

\* The ring of descriptors of a transfer, by place in its buffer.
construct_descriptors(d) ==
  LET num_descr == (nbytes(d) + blk_size - 1) \div blk_size
      remain(i) == nbytes(d) - (i - 1) * blk_size
  IN  [i \in 1 .. num_descr |->
        [addr |-> d.start + (i - 1) * blk_size,
         len  |-> create_control(IF remain(i) > blk_size THEN blk_size ELSE remain(i)),
         next |-> (i % num_descr) + 1]]

Bytes(bd) == bd.addr .. bd.addr + bd.len - 1

----------------------------------------------------------------------------
(* The engine. *)

Fresh == [idle |-> TRUE, busy |-> FALSE, descr |-> <<>>, at |-> 1, started |-> FALSE]

\* After a reset the engine is halted, and may or may not call itself idle.
Init ==
  /\ \E idle \in BOOLEAN :
       eng = [rs |-> FALSE, reset |-> FALSE, halted |-> TRUE, idle |-> idle,
              error |-> FALSE, enabled |-> {}]
  /\ ch = [c \in Channels |-> Fresh]
  /\ owed = [c \in Channels |-> {}]
  /\ pc = "ready" /\ call = <<>> /\ k = 1 /\ description = Never /\ last = "none"

EngineReset ==
  /\ eng.reset
  /\ \E idle \in BOOLEAN :
       eng' = [rs |-> FALSE, reset |-> FALSE, halted |-> TRUE, idle |-> idle,
               error |-> FALSE, enabled |-> {}]
  /\ ch' = [c \in Channels |-> [Fresh EXCEPT !.started = ch[c].started]]
  /\ owed' = [c \in Channels |-> {}]
  /\ UNCHANGED driver

EngineRun ==
  /\ eng.rs /\ eng.halted /\ ~eng.error /\ ~eng.reset
  /\ eng' = [eng EXCEPT !.halted = FALSE]
  /\ UNCHANGED <<ch, owed, driver>>

\* Stopping aborts the transfer; a channel it interrupts may stay not idle.
EngineHalt ==
  /\ ~eng.rs /\ ~eng.halted /\ ~eng.reset
  /\ eng' = [eng EXCEPT !.halted = TRUE]
  /\ \E stuck \in SUBSET {c \in Channels : ch[c].busy} :
       ch' = [c \in Channels |-> [ch[c] EXCEPT !.busy = FALSE,
                                              !.idle = (@ \/ ch[c].busy) /\ c \notin stuck]]
  /\ owed' = [c \in Channels |-> {}]
  /\ UNCHANGED driver

Working(c) == eng.rs /\ ~eng.halted /\ ~eng.reset /\ c \in eng.enabled /\ ch[c].busy

\* One descriptor is processed; the engine is idle once every enabled channel
\* has reached its tail.
EngineMove(c) ==
  /\ Working(c)
  /\ LET bd == ch[c].descr[ch[c].at]
         done == ch[c].at = Len(ch[c].descr)
     IN  /\ owed' = [owed EXCEPT ![c] = @ \ Bytes(bd)]
         /\ ch' = [ch EXCEPT ![c].at = bd.next, ![c].busy = ~done, ![c].idle = done]
         /\ eng' = [eng EXCEPT !.idle = \A e \in eng.enabled \cap Channels : ch'[e].idle]
  /\ UNCHANGED driver

\* An error halts the engine until it is reset.
EngineFail(c) ==
  /\ Working(c)
  /\ eng' = [eng EXCEPT !.halted = TRUE, !.error = TRUE]
  /\ ch' = [e \in Channels |-> [ch[e] EXCEPT !.busy = FALSE]]
  /\ UNCHANGED <<owed, driver>>

Engine == EngineReset \/ EngineRun \/ EngineHalt \/ \E c \in Channels : EngineMove(c)

----------------------------------------------------------------------------
(* The driver. *)

Return(how) == pc' = "ready" /\ last' = how /\ call' = <<>> /\ k' = 1

reset ==
  /\ pc = "ready"
  /\ eng' = [eng EXCEPT !.reset = TRUE, !.rs = FALSE]
  /\ pc' = "reset" /\ last' = "none"
  /\ UNCHANGED <<ch, owed, call, k, description>>

ResetDone == pc = "reset" /\ ~eng.reset /\ Return("reset") /\ UNCHANGED <<engine, description>>

stop ==
  /\ pc = "ready"
  /\ eng' = [eng EXCEPT !.rs = FALSE]
  /\ pc' = "stop" /\ last' = "none"
  /\ UNCHANGED <<ch, owed, call, k, description>>

Stopped == pc = "stop" /\ eng.halted /\ Return("stopped") /\ UNCHANGED <<engine, description>>

\* Mutant: only the last channel is enabled.
EnableLast ==
  /\ pc = "ready"
  /\ IF ~eng.idle /\ ~eng.halted
     THEN Return("raised") /\ UNCHANGED eng
     ELSE \E asked \in Descriptions :
            /\ call' = asked /\ k' = 1 /\ pc' = "phase1" /\ last' = "none"
            /\ eng' = [eng EXCEPT !.enabled = {Last(asked).channel_id}]
  /\ UNCHANGED <<ch, owed, description>>

\* start_transfer: refused while the engine works; then the channels are enabled.
start_transfer ==
  /\ pc = "ready"
  /\ IF ~eng.idle /\ ~eng.halted
     THEN Return("raised") /\ UNCHANGED eng
     ELSE \E asked \in Descriptions :
            /\ call' = asked /\ k' = 1 /\ pc' = "phase1" /\ last' = "none"
            /\ eng' = [eng EXCEPT !.enabled = {asked[i].channel_id : i \in DOMAIN asked}]
  /\ UNCHANGED <<ch, owed, description>>

\* Mutant: the tail pointer is written with the current descriptor, when a later
\* channel can still refuse.
StartAtOnce ==
  /\ pc = "phase1" /\ k <= Len(call)
  /\ LET c == call[k].channel_id
     IN  IF c \notin Channels \/ ~ch[c].idle
         THEN Return("raised") /\ UNCHANGED <<eng, ch, owed>>
         ELSE /\ ch' = [ch EXCEPT ![c].started = TRUE, ![c].at = 1, ![c].busy = TRUE,
                                  ![c].idle = FALSE, ![c].descr = construct_descriptors(call[k])]
              /\ owed' = [owed EXCEPT ![c] = Asked(call[k])]
              /\ eng' = [eng EXCEPT !.idle = FALSE]
              /\ k' = k + 1 /\ UNCHANGED <<pc, last, call>>
  /\ UNCHANGED description

\* start_transfer_phase_1 of the next channel.
start_transfer_phase_1 ==
  /\ pc = "phase1" /\ k <= Len(call)
  /\ LET c == call[k].channel_id
     IN  IF c \notin Channels \/ ~ch[c].idle
         THEN Return("raised") /\ UNCHANGED ch
         ELSE /\ ch' = [ch EXCEPT ![c].started = FALSE, ![c].at = 1,
                                  ![c].descr = construct_descriptors(call[k])]
              /\ k' = k + 1 /\ UNCHANGED <<pc, last, call>>
  /\ UNCHANGED <<eng, owed, description>>

start ==
  /\ pc = "phase1" /\ k > Len(call)
  /\ eng' = [eng EXCEPT !.rs = TRUE]
  /\ owed' = [c \in Channels |->
               owed[c] \cup UNION {Asked(d) : d \in {e \in Range(call) : e.channel_id = c}}]
  /\ pc' = "start"
  /\ UNCHANGED <<ch, call, k, description, last>>

Started ==
  /\ pc = "start" /\ ~eng.halted
  /\ pc' = "phase2" /\ k' = 1
  /\ UNCHANGED <<engine, call, description, last>>

\* start_transfer_phase_2 of the next channel: its tail pointer is written.
start_transfer_phase_2 ==
  /\ pc = "phase2"
  /\ IF k > Len(call)
     THEN Return("transferred") /\ description' = call /\ UNCHANGED engine
     ELSE LET c == call[k].channel_id
          IN  /\ ch' = [ch EXCEPT ![c].started = TRUE, ![c].busy = TRUE, ![c].idle = FALSE]
              /\ eng' = [eng EXCEPT !.idle = FALSE]
              /\ k' = k + 1 /\ UNCHANGED <<owed, pc, call, description, last>>

wait ==
  /\ pc = "ready"
  /\ pc' = "wait" /\ k' = 1 /\ last' = "none"
  /\ UNCHANGED <<engine, call, description>>

\* Mutant: the first channel is waited for, not the engine.
FirstChannelOnly ==
  /\ pc = "wait" /\ description # Never /\ ch[description[1].channel_id].idle
  /\ Return("waited")
  /\ UNCHANGED <<engine, description>>

\* The engine is idle; then every channel in turn.  Without a transfer there is no
\* self._description to go through.  The 0 written to the status register of each
\* channel changes none of what is modelled: it is for the interrupt bits, which
\* the driver never enables, and idle is the engine's to set.
WaitDone ==
  /\ pc = "wait" /\ eng.idle
  /\ IF description = Never
       THEN Return("raised")
       ELSE /\ \A i \in DOMAIN description : ch[description[i].channel_id].idle
            /\ Return("waited")
  /\ UNCHANGED <<engine, description>>

\* _SGDMAChannel.wait of channel c, which k holds meanwhile.
channel_wait(c) ==
  /\ pc = "ready"
  /\ IF ch[c].started THEN pc' = "channel" /\ k' = c /\ last' = "none" /\ UNCHANGED call
                      ELSE Return("raised")
  /\ UNCHANGED <<engine, description>>

ChannelDone ==
  /\ pc = "channel" /\ ch[k].idle
  /\ ch' = [ch EXCEPT ![k].started = FALSE]
  /\ Return("channel")
  /\ UNCHANGED <<eng, owed, description>>

Calls == reset \/ stop \/ start_transfer \/ wait \/ \E c \in Channels : channel_wait(c)
Steps == ResetDone \/ Stopped \/ start_transfer_phase_1 \/ start \/ Started
         \/ start_transfer_phase_2 \/ WaitDone \/ ChannelDone

Next == Engine \/ (\E c \in Channels : EngineFail(c)) \/ Calls \/ Steps

\* The engine works while it is told to, and the driver's code runs on.
Spec == Init /\ [][Next]_vars /\ WF_vars(Engine) /\ WF_vars(Steps)

----------------------------------------------------------------------------
(* Properties. *)

\* Nothing outside the array is asked for, and a busy channel points into its ring
\* of descriptors (_construct_descriptors, start_transfer).
TypeOK ==
  /\ eng.enabled \subseteq UNION {{d[i].channel_id : i \in DOMAIN d} : d \in Descriptions}
  /\ \A c \in Channels :
       /\ owed[c] \subseteq 0 .. ArrayBytes - 1
       /\ ch[c].busy => ch[c].at \in DOMAIN ch[c].descr
  /\ pc \in {"phase1", "start", "phase2"} => call \in Descriptions
  /\ k \in 0 .. 1 + Len(call) \/ pc = "channel"
  /\ description \in Descriptions \cup {Never}

\* What a busy channel has left of its descriptors is, byte for byte and each
\* byte once, what is left of the transfer that was asked for: the blocks of
\* _construct_descriptors tile the bytes of the array, whatever their number,
\* and their ring leads from the first to the tail; as long as every length fits
\* its field.
DescriptorsTile ==
  LengthsFit => \A c \in Channels : ch[c].busy =>
    LET left == {i \in DOMAIN ch[c].descr : i >= ch[c].at}
    IN  /\ UNION {Bytes(ch[c].descr[i]) : i \in left} = owed[c]
        /\ \A i, j \in left :
             i # j => Bytes(ch[c].descr[i]) \cap Bytes(ch[c].descr[j]) = {}

\* Once wait() has returned, every byte of every transfer that was not refused, and
\* neither stopped nor reset, has been moved: polling the engine's idle bit and
\* then the channels of _description leaves out none, as long as every length
\* fits its field.
WaitMeansDone ==
  LengthsFit => (last = "waited" => \A c \in Channels : owed[c] = {})

\* No channel gets its tail pointer before every channel of the call has its
\* descriptors: when start_transfer raises, at whichever channel, it has started
\* none of them.
RefusedStartsNothing ==
  [][\A c \in Channels : ~ch[c].busy /\ ch'[c].busy =>
       \A i \in DOMAIN call :
         /\ call[i].channel_id \in Channels
         /\ ch[call[i].channel_id].descr = construct_descriptors(call[i])]_vars

\* A wait() ends, and so does the wait() of a channel at work, unless the engine
\* has halted, on an error or because it was stopped: the loops that poll idle
\* have no error handling, and poll on.
WaitEnds ==
  (pc = "wait" \/ (pc = "channel" /\ ch[k].busy)) ~> (pc = "ready" \/ eng.halted)

\* "a blocking version of transfering the data": when transfer() returns, the
\* data has been moved.
TransferBlocks == last = "transferred" => \A c \in Channels : owed[c] = {}

=============================================================================
