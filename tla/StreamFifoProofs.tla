-------------------------- MODULE StreamFifoProofs --------------------------
(***************************************************************************)
(* The stream FIFO implements a bounded queue, for every depth, register   *)
(* width and type of data.                                                 *)
(***************************************************************************)
EXTENDS StreamFifo, SequenceTheorems, TLAPS

(***************************************************************************)
(* An index that has been incremented in a register of IW bits is again an *)
(* index below depth: the remainder is the wrap of a ring of depth places. *)
(***************************************************************************)
LEMMA IncWraps ==
  ASSUME NEW i \in 0 .. depth - 1
  PROVE  /\ inc(i) = IF i = depth - 1 THEN 0 ELSE i + 1
         /\ inc(i) \in 0 .. depth - 1
<1> USE SizeAssumption
<1>1. depth \in Nat /\ depth > 0 /\ depth <= MAX_DEPTH /\ MAX_DEPTH \in Nat
  OBVIOUS
<1>2. \A x, n \in Nat : x < n => x % n = x
  OBVIOUS
<1>3. CASE i = depth - 1
  <2>1. (i + 1) % depth = 0
    BY <1>1, <1>3
  <2>2. 0 % MAX_DEPTH = 0
    BY <1>1, <1>2
  <2> QED BY <2>1, <2>2, <1>1, <1>3 DEF inc
<1>4. CASE i # depth - 1
  <2>1. i + 1 \in Nat /\ i + 1 < depth
    BY <1>1, <1>4
  <2>2. (i + 1) % depth = i + 1
    BY <1>1, <1>2, <2>1
  <2>3. (i + 1) % MAX_DEPTH = i + 1
    BY <1>1, <1>2, <2>1
  <2> QED BY <2>1, <2>2, <2>3, <1>1, <1>4 DEF inc
<1> QED BY <1>3, <1>4

-----------------------------------------------------------------------------
Inv == TypeOK /\ FlagsTellApart

LEMMA InitInv == Init => Inv
<1>1. Init => TypeOK
  <2>1. Init => rd_idx \in 0 .. depth - 1 /\ wr_idx \in 0 .. depth - 1
    BY SizeAssumption DEF Init
  <2>2. Init => data \in [Indices -> Data]
    BY SizeAssumption, Zenon DEF Init
  <2> QED BY <2>1, <2>2, Zenon DEF Init, TypeOK
<1>2. Init => FlagsTellApart
  BY Zenon DEF Init, FlagsTellApart
<1> QED BY <1>1, <1>2 DEF Inv

LEMMA ResetInv == Inv /\ Reset => Inv'
<1>1. Inv /\ Reset => TypeOK'
  BY SizeAssumption DEF Reset, Inv, TypeOK, Indices
<1>2. Reset => FlagsTellApart'
  BY Zenon DEF Reset, FlagsTellApart
<1> QED BY <1>1, <1>2 DEF Inv

LEMMA EdgeInv ==
  ASSUME Inv, NEW valid \in BOOLEAN, NEW ready \in BOOLEAN, NEW d \in Data,
         Edge(valid, d, ready)
  PROVE  Inv'
<1> DEFINE wr == valid /\ s_ready
           rd == ready /\ m_valid
<1>1. /\ rd_idx \in 0 .. depth - 1 /\ wr_idx \in 0 .. depth - 1
      /\ full_i \in BOOLEAN /\ empty_i \in BOOLEAN
      /\ depth \in Nat /\ depth > 0
  BY SizeAssumption DEF Inv, TypeOK
<1>2. /\ inc(rd_idx) = IF rd_idx = depth - 1 THEN 0 ELSE rd_idx + 1
      /\ inc(rd_idx) \in 0 .. depth - 1
      /\ inc(wr_idx) = IF wr_idx = depth - 1 THEN 0 ELSE wr_idx + 1
      /\ inc(wr_idx) \in 0 .. depth - 1
  BY <1>1, IncWraps
<1>3. TypeOK'
  <2>1. data' \in [Indices -> Data]
    BY SizeAssumption DEF Inv, TypeOK, Edge, Indices
  <2> QED BY <2>1, <1>1, <1>2 DEF TypeOK, Edge
<1>4. FlagsTellApart'
  <2>1. CASE wr /\ rd
    BY <2>1, <1>1, <1>2 DEF Inv, FlagsTellApart, Edge, s_ready, m_valid
  <2>2. CASE wr /\ ~rd
    BY <2>2, <1>1, <1>2 DEF Inv, FlagsTellApart, Edge, s_ready, m_valid
  <2>3. CASE ~wr /\ rd
    BY <2>3, <1>1, <1>2 DEF Inv, FlagsTellApart, Edge, s_ready, m_valid
  <2>4. CASE ~wr /\ ~rd
    BY <2>4, <1>1, <1>2 DEF Inv, FlagsTellApart, Edge, s_ready, m_valid
  <2> QED BY <2>1, <2>2, <2>3, <2>4
<1> QED BY <1>3, <1>4 DEF Inv

(***************************************************************************)
(* The registers of sfifo_cc.h keep their types and the two flags tell the *)
(* cases of equal indices apart, whatever is read and written when.        *)
(***************************************************************************)
THEOREM FlagsCorrect == Spec => [](TypeOK /\ FlagsTellApart)
<1>1. Inv /\ [Next]_vars => Inv'
  <2> SUFFICES ASSUME Inv, [Next]_vars PROVE Inv'
    OBVIOUS
  <2>1. CASE Reset
    BY <2>1, ResetInv
  <2>2. ASSUME NEW valid \in BOOLEAN, NEW ready \in BOOLEAN, NEW d \in Data,
               Edge(valid, d, ready)
        PROVE  Inv'
    BY <2>2, EdgeInv
  <2>3. CASE UNCHANGED vars
    BY <2>3 DEF vars, registers, Inv, TypeOK, FlagsTellApart
  <2> QED BY <2>1, <2>2, <2>3 DEF Next
<1> QED BY <1>1, InitInv, PTL DEF Spec, Inv

(***************************************************************************)
(* The indices, flags and registers of sfifo_cc.h stay in their ranges.    *)
(***************************************************************************)
THEOREM FifoTypes == Spec => []TypeOK
BY FlagsCorrect, PTL
-----------------------------------------------------------------------------
(***************************************************************************)
(* The values held: as many as the indices and flags say, in the registers *)
(* from rd_idx on, around the ring.                                        *)
(***************************************************************************)
LEMMA UsedFacts ==
  ASSUME Inv
  PROVE  /\ Used \in 0 .. depth
         /\ Used = depth <=> full_i
         /\ Used = 0 <=> empty_i
<1>1. /\ rd_idx \in 0 .. depth - 1 /\ wr_idx \in 0 .. depth - 1
      /\ depth \in Nat /\ depth > 0
  BY SizeAssumption DEF Inv, TypeOK
<1>2. Used \in 0 .. depth
  BY <1>1 DEF Used
<1>3. CASE full_i
  BY <1>1, <1>2, <1>3 DEF Used, Inv, FlagsTellApart
<1>4. CASE empty_i
  BY <1>1, <1>2, <1>4 DEF Used, Inv, FlagsTellApart
<1>5. CASE ~full_i /\ ~empty_i
  BY <1>1, <1>2, <1>5 DEF Used, Inv, FlagsTellApart
<1> QED BY <1>2, <1>3, <1>4, <1>5

LEMMA SlotFacts ==
  ASSUME Inv
  PROVE  /\ \A i \in 0 .. depth - 1 : Slot(i) \in 0 .. depth - 1
         /\ Slot(0) = rd_idx
         /\ ~full_i => Slot(Used) = wr_idx /\ \A i \in 0 .. Used - 1 : Slot(i) # wr_idx
<1>1. /\ rd_idx \in 0 .. depth - 1 /\ wr_idx \in 0 .. depth - 1
      /\ depth \in Nat /\ depth > 0
  BY SizeAssumption DEF Inv, TypeOK
<1> QED BY <1>1 DEF Slot, Used

LEMMA HeldFacts ==
  ASSUME Inv
  PROVE  /\ Held \in Seq(Data)
         /\ Len(Held) = Used
         /\ \A i \in 1 .. Used : Held[i] = data[Slot(i - 1)]
<1>1. Used \in Nat /\ Used <= depth /\ depth \in Nat /\ depth <= MAX_DEPTH /\ MAX_DEPTH \in Nat
  BY UsedFacts, SizeAssumption
<1>2. \A i \in 1 .. Used : data[Slot(i - 1)] \in Data
  <2> SUFFICES ASSUME NEW i \in 1 .. Used PROVE data[Slot(i - 1)] \in Data
    OBVIOUS
  <2>1. i - 1 \in 0 .. depth - 1
    BY <1>1
  <2>2. Slot(i - 1) \in Indices
    BY <2>1, <1>1, SlotFacts DEF Indices
  <2> QED BY <2>2 DEF Inv, TypeOK
<1> HIDE DEF Used, Slot
<1>3. Held \in [1 .. Used -> Data]
  BY <1>2 DEF Held
<1>4. Held \in Seq(Data)
  BY <1>1, <1>3
<1>5. Len(Held) = Used
  BY <1>1, <1>3, <1>4, LenProperties
<1> QED BY <1>4, <1>5 DEF Held

HeldOK ==
  /\ Held \in Seq(Data) /\ Len(Held) = Used
  /\ \A i \in 1 .. Used : Held[i] = data[Slot(i - 1)]

LEMMA HeldFactsPrime == Inv' => HeldOK'
<1>1. Inv => HeldOK
  BY HeldFacts DEF HeldOK
<1> QED BY <1>1, PTL

(***************************************************************************)
(* A clock edge without reset is a step of the queue: the four cases are   *)
(* those of ms_proc.                                                       *)
(***************************************************************************)
LEMMA EdgeIsQueueEdge ==
  ASSUME Inv, NEW valid \in BOOLEAN, NEW ready \in BOOLEAN, NEW d \in Data,
         Edge(valid, d, ready)
  PROVE  Queue!QEdge(valid, d, ready)
<1> DEFINE wr == valid /\ s_ready
           rd == ready /\ m_valid
           front == IF rd THEN Tail(Held) ELSE Held
           back == IF wr THEN <<d>> ELSE <<>>
           k == IF rd THEN 1 ELSE 0
<1>1. /\ rd_idx \in 0 .. depth - 1 /\ wr_idx \in 0 .. depth - 1
      /\ full_i \in BOOLEAN /\ empty_i \in BOOLEAN
      /\ depth \in Nat /\ depth > 0 /\ depth <= MAX_DEPTH /\ MAX_DEPTH \in Nat
  BY SizeAssumption DEF Inv, TypeOK
<1>2. /\ inc(rd_idx) = IF rd_idx = depth - 1 THEN 0 ELSE rd_idx + 1
      /\ inc(wr_idx) = IF wr_idx = depth - 1 THEN 0 ELSE wr_idx + 1
  BY <1>1, IncWraps
<1>3. Inv'
  BY EdgeInv
<1>4. /\ Used \in 0 .. depth
      /\ Used = depth <=> full_i
      /\ Used = 0 <=> empty_i
  BY UsedFacts
<1>5. /\ Held \in Seq(Data) /\ Len(Held) = Used
      /\ \A i \in 1 .. Used : Held[i] = data[Slot(i - 1)]
  BY HeldFacts
<1>6. /\ Held' \in Seq(Data) /\ Len(Held') = Used'
      /\ \A i \in 1 .. Used' : Held'[i] = data'[Slot(i - 1)']
  BY <1>3, HeldFactsPrime DEF HeldOK
<1>7. /\ wr => ~full_i
      /\ rd => Held # <<>> /\ Head(Held) = data[rd_idx]
      /\ ~empty_i <=> Held # <<>>
  <2>1. ~empty_i <=> Held # <<>>
    BY <1>4, <1>5, EmptySeq
  <2>2. ~empty_i => Head(Held) = Held[1] /\ Held[1] = data[rd_idx]
    BY <1>1, <1>4, <1>5, <2>1, SlotFacts
  <2> QED BY <2>1, <2>2 DEF s_ready, m_valid
<1>8. Used' = Used - k + (IF wr THEN 1 ELSE 0)
  <2>1. CASE wr /\ rd
    BY <2>1, <1>1, <1>2, <1>4 DEF Used, Edge, s_ready, m_valid, Inv, FlagsTellApart
  <2>2. CASE wr /\ ~rd
    <3>1. /\ wr_idx' = inc(wr_idx) /\ rd_idx' = rd_idx /\ ~full_i
          /\ full_i' <=> inc(wr_idx) = rd_idx
      BY <2>2 DEF Edge, s_ready
    <3>2. wr_idx = rd_idx => empty_i
      BY <3>1 DEF Inv, FlagsTellApart
    <3> QED BY <2>2, <3>1, <3>2, <1>1, <1>2, <1>4 DEF Used
  <2>3. CASE ~wr /\ rd
    BY <2>3, <1>1, <1>2, <1>4 DEF Used, Edge, s_ready, m_valid, Inv, FlagsTellApart
  <2>4. CASE ~wr /\ ~rd
    BY <2>4, <1>1 DEF Used, Edge, s_ready, m_valid
  <2> QED BY <2>1, <2>2, <2>3, <2>4
<1>9. \A i \in 0 .. depth - 1 - k : Slot(i)' = Slot(i + k)
  BY <1>1, <1>2 DEF Slot, Edge
<1>10. /\ \A i \in 0 .. Used - 1 : data'[Slot(i)] = data[Slot(i)]
       /\ wr => data'[Slot(Used)] = d
  <2>1. CASE ~wr
    BY <2>1 DEF Edge
  <2>2. CASE wr
    <3>1. data' = [data EXCEPT ![wr_idx] = d]
      BY <2>2 DEF Edge
    <3>2. data \in [Indices -> Data] /\ wr_idx \in Indices
      BY <1>1 DEF Inv, TypeOK, Indices
    <3>3. /\ Slot(Used) = wr_idx
          /\ \A i \in 0 .. Used - 1 : Slot(i) # wr_idx /\ Slot(i) \in Indices
      <4>1. ~full_i
        BY <2>2, <1>7
      <4>2. 0 .. depth - 1 \subseteq Indices /\ 0 .. Used - 1 \subseteq 0 .. depth - 1
        BY <1>1, <1>4 DEF Indices
      <4> HIDE DEF Used, Slot
      <4> QED BY <4>1, <4>2, SlotFacts
    <3> QED BY <3>1, <3>2, <3>3
  <2> QED BY <2>1, <2>2
<1>11. /\ front \in Seq(Data) /\ Len(front) = Used - k
       /\ \A i \in 1 .. Used - k : front[i] = Held[i + k]
  <2>1. CASE rd
    BY <2>1, <1>4, <1>5, <1>7, HeadTailProperties
  <2>2. CASE ~rd
    BY <2>2, <1>4, <1>5
  <2> QED BY <2>1, <2>2
<1>12. back \in Seq(Data) /\ Len(back) = (IF wr THEN 1 ELSE 0) /\ (wr => back[1] = d)
  OBVIOUS
<1> HIDE DEF front, back
<1>13. Held' = front \o back
  <2>1. /\ front \o back \in Seq(Data)
        /\ Len(front \o back) = Len(front) + Len(back)
        /\ \A i \in 1 .. Len(front) + Len(back) :
             (front \o back)[i] = IF i <= Len(front) THEN front[i] ELSE back[i - Len(front)]
    BY <1>11, <1>12, ConcatProperties
  <2>2. Len(Held') = Len(front \o back)
    BY <1>6, <1>8, <1>11, <1>12, <2>1
  <2>3. ASSUME NEW i \in 1 .. Len(Held') PROVE Held'[i] = (front \o back)[i]
    <3>1. i \in 1 .. Used' /\ i - 1 \in 0 .. depth - 1 - k
      BY <1>1, <1>4, <1>6, <1>7, <1>8 DEF m_valid
    <3>2. Held'[i] = data'[Slot(i - 1 + k)]
      BY <1>6, <1>9, <3>1
    <3>3. CASE i <= Used - k
      <4>1. Held'[i] = data[Slot(i - 1 + k)]
        BY <3>1, <3>2, <3>3, <1>4, <1>10
      <4>2. front[i] = data[Slot(i + k - 1)]
        <5>1. i \in 1 .. Used - k /\ i + k \in 1 .. Used
          BY <3>1, <3>3, <1>4
        <5> QED BY <5>1, <1>5, <1>11
      <4>3. i - 1 + k = i + k - 1
        BY <3>1
      <4> QED BY <4>1, <4>2, <4>3, <3>1, <3>3, <1>11, <1>12, <2>1, <2>2
    <3>4. CASE i > Used - k
      <4>1. wr /\ i = Used - k + 1
        BY <3>1, <3>4, <1>4, <1>8
      <4>2. i - 1 + k = Used
        BY <4>1, <1>4
      <4>3. Held'[i] = d
        BY <3>2, <4>1, <4>2, <1>10
      <4>4. (front \o back)[i] = back[1]
        BY <4>1, <1>4, <1>11, <1>12, <2>1
      <4> QED BY <4>1, <4>3, <4>4, <1>12
    <3>5. i <= Used - k \/ i > Used - k
      BY <3>1, <1>4
    <3> QED BY <3>3, <3>4, <3>5, Zenon
  <2> QED BY <2>1, <2>2, <2>3, <1>6, SeqEqual
<1>14. taken' = (valid /\ Len(Held) < depth)
  <2>1. taken' = (valid /\ ~full_i)
    BY DEF Edge, s_ready
  <2>2. Len(Held) < depth <=> ~full_i
    BY <1>1, <1>4, <1>5
  <2> QED BY <2>1, <2>2
<1>15. given' = IF ready /\ Held # <<>> THEN <<Head(Held)>> ELSE <<>>
  BY <1>7 DEF Edge, m_valid, m_data
<1>16. given' # <<>> <=> rd
  BY DEF Edge
<1>17. taken' <=> wr
  BY DEF Edge
<1>18. Held' = (IF given' # <<>> THEN Tail(Held) ELSE Held) \o (IF taken' THEN <<d>> ELSE <<>>)
  BY <1>13, <1>16, <1>17 DEF front, back
<1> QED BY <1>14, <1>15, <1>18 DEF Queue!QEdge

LEMMA EmptyHeld == Used = 0 => Held = <<>>
BY DEF Held

LEMMA EmptyHeldPrime == (Used = 0)' => (Held = <<>>)'
BY EmptyHeld, PTL

LEMMA ResetIsQueueReset == ASSUME Reset PROVE Queue!QReset
<1>1. Used' = 0
  BY SizeAssumption DEF Reset, Used
<1>2. Held' = <<>>
  BY <1>1, EmptyHeldPrime
<1> QED BY <1>2 DEF Reset, Queue!QReset

LEMMA InitIsQueueInit == ASSUME Init PROVE Queue!QInit
<1>1. Used = 0
  BY SizeAssumption DEF Init, Used
<1>2. Held = <<>>
  BY <1>1, EmptyHeld
<1> QED BY <1>2 DEF Init, Queue!QInit

(***************************************************************************)
(* sfifo_cc.h implements a bounded queue of depth values, for every depth  *)
(* up to the range of the index registers: no value is lost, repeated or   *)
(* reordered, and none is refused while there is room.                     *)
(***************************************************************************)
THEOREM FifoIsQueue == Spec => ImplementsQueue
<1>1. Inv /\ [Next]_vars => [Queue!QNext]_(Queue!qvars)
  <2> SUFFICES ASSUME Inv, [Next]_vars PROVE [Queue!QNext]_(Queue!qvars)
    OBVIOUS
  <2>1. CASE Reset
    BY <2>1, ResetIsQueueReset DEF Queue!QNext
  <2>2. ASSUME NEW valid \in BOOLEAN, NEW ready \in BOOLEAN, NEW d \in Data,
               Edge(valid, d, ready)
        PROVE  Queue!QNext
    BY <2>2, EdgeIsQueueEdge DEF Queue!QNext
  <2>3. CASE UNCHANGED vars
    BY <2>3 DEF vars, registers, Queue!qvars, Held, Used, Slot
  <2> QED BY <2>1, <2>2, <2>3 DEF Next
<1>2. Init => Queue!QInit
  BY InitIsQueueInit
<1> QED BY <1>1, <1>2, FlagsCorrect, PTL DEF Spec, Inv, ImplementsQueue, Queue!QSpec
=============================================================================
