----------------------------- MODULE StreamFifo -----------------------------
(***************************************************************************)
(* sfifo_cc.h: the stream FIFO with a common clock.  mc_proc is            *)
(* combinational: its outputs are functions of the registers and of the    *)
(* inputs.  ms_proc runs at every rising clock edge, with the inputs       *)
(* settled then.                                                           *)
(*                                                                         *)
(* The registers start as the reset leaves them: before the first reset    *)
(* empty_i is false, and nothing is promised.                              *)
(***************************************************************************)
EXTENDS Integers, Sequences

CONSTANTS
  Data, Default,         \* the values of T, and T()
  MAX_DEPTH,             \* 1 << IW
  depth                  \* the size given to the constructor

\* The constructor reports any other size as an error.
ASSUME SizeAssumption ==
  /\ MAX_DEPTH \in Nat /\ depth \in 1 .. MAX_DEPTH
  /\ Default \in Data

VARIABLES
  data, rd_idx, wr_idx, full_i, empty_i,     \* the registers
  taken, given                               \* the handshakes of the last edge

registers == <<data, rd_idx, wr_idx, full_i, empty_i>>
vars == <<registers, taken, given>>

Indices == 0 .. MAX_DEPTH - 1

\* mc_proc: s_port.ready, m_port.valid and m_port.data.
s_ready == ~full_i
m_valid == ~empty_i

\* Mutant: the place after the oldest value.
OneAhead == data[(rd_idx + 1) % depth]

m_data == data[rd_idx]

Init ==
  /\ data = [i \in Indices |-> Default]
  /\ rd_idx = 0 /\ wr_idx = 0
  /\ full_i = FALSE /\ empty_i = TRUE
  /\ taken = FALSE /\ given = <<>>

\* ms_proc, while reset is active.
Reset ==
  /\ data' = [i \in Indices |-> IF i < depth THEN Default ELSE data[i]]
  /\ rd_idx' = 0 /\ wr_idx' = 0
  /\ full_i' = FALSE /\ empty_i' = TRUE
  /\ taken' = FALSE /\ given' = <<>>

\* Mutant: the index wraps with the width of its register only.
WrapAtWidth(i) == (i + 1) % MAX_DEPTH

\* wr_inc and rd_inc, in a register of IW bits.
inc(i) == ((i + 1) % depth) % MAX_DEPTH

\* Mutant: full_i is set without looking at a read at the same edge.
FullWhileReading(valid, d, ready) ==
  LET wr_en_i == valid /\ s_ready
      rd_en_i == ready /\ m_valid
  IN  /\ data' = IF wr_en_i THEN [data EXCEPT ![wr_idx] = d] ELSE data
      /\ wr_idx' = IF wr_en_i THEN inc(wr_idx) ELSE wr_idx
      /\ rd_idx' = IF rd_en_i THEN inc(rd_idx) ELSE rd_idx
      /\ full_i' = IF wr_en_i THEN full_i \/ inc(wr_idx) = rd_idx
                   ELSE full_i /\ ~rd_en_i
      /\ empty_i' = IF rd_en_i /\ ~wr_en_i THEN empty_i \/ inc(rd_idx) = wr_idx
                    ELSE empty_i /\ ~(wr_en_i /\ ~rd_en_i)
      /\ taken' = wr_en_i
      /\ given' = IF rd_en_i THEN <<m_data>> ELSE <<>>

\* ms_proc otherwise: a full FIFO does not take, an empty one does not give.
\* The flags change only when one of both happens.
Edge(valid, d, ready) ==
  LET wr_en_i == valid /\ s_ready
      rd_en_i == ready /\ m_valid
  IN  /\ data' = IF wr_en_i THEN [data EXCEPT ![wr_idx] = d] ELSE data
      /\ wr_idx' = IF wr_en_i THEN inc(wr_idx) ELSE wr_idx
      /\ rd_idx' = IF rd_en_i THEN inc(rd_idx) ELSE rd_idx
      /\ full_i' = IF wr_en_i /\ ~rd_en_i THEN full_i \/ inc(wr_idx) = rd_idx
                   ELSE full_i /\ ~(rd_en_i /\ ~wr_en_i)
      /\ empty_i' = IF rd_en_i /\ ~wr_en_i THEN empty_i \/ inc(rd_idx) = wr_idx
                    ELSE empty_i /\ ~(wr_en_i /\ ~rd_en_i)
      /\ taken' = wr_en_i
      /\ given' = IF rd_en_i THEN <<m_data>> ELSE <<>>

Next == Reset \/ \E valid, ready \in BOOLEAN, d \in Data : Edge(valid, d, ready)

Spec == Init /\ [][Next]_vars
-----------------------------------------------------------------------------
\* The indices of ms_proc stay below the depth given to the constructor.
TypeOK ==
  /\ data \in [Indices -> Data]
  /\ rd_idx \in 0 .. depth - 1 /\ wr_idx \in 0 .. depth - 1
  /\ full_i \in BOOLEAN /\ empty_i \in BOOLEAN

(***************************************************************************)
(* The two flags tell the two cases of equal indices apart: with equal     *)
(* indices exactly one of them is set, with different ones none is.        *)
(* Registers updated by independent conditions keep this through every     *)
(* sequence of reads, writes and both at once.                             *)
(***************************************************************************)
FlagsTellApart == (rd_idx = wr_idx <=> full_i \/ empty_i) /\ ~(full_i /\ empty_i)

\* How many values are held, and the values.
Used ==
  IF full_i THEN depth
  ELSE IF wr_idx >= rd_idx THEN wr_idx - rd_idx ELSE wr_idx - rd_idx + depth

\* The register of the i-th value held, from 0.
Slot(i) == IF rd_idx + i < depth THEN rd_idx + i ELSE rd_idx + i - depth

Held == [i \in 1 .. Used |-> data[Slot(i - 1)]]

Queue == INSTANCE BoundedQueue WITH Capacity <- depth, q <- Held

(***************************************************************************)
(* The FIFO is a bounded queue of depth values: it loses, repeats and      *)
(* reorders none, refuses a value only when depth of them are held, and    *)
(* has one to give whenever it holds one, also when its depth is no power  *)
(* of two.                                                                 *)
(***************************************************************************)
ImplementsQueue == Queue!QSpec
=============================================================================
