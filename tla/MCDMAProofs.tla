---------------------------- MODULE MCDMAProofs ----------------------------
(***************************************************************************)
(* The driver of the DMA engine, for any channels, array, block size and   *)
(* descriptions: its descriptors tile what is asked for, a transfer that   *)
(* is refused starts nothing, and wait() returns when all is moved.        *)
(***************************************************************************)
EXTENDS MCDMA, SequenceTheorems, TLAPS

\* What clients ask of one channel, and the channels of a call.
Items == UNION {{asked[i] : i \in DOMAIN asked} : asked \in Descriptions}
Ids(asked) == {asked[i].channel_id : i \in DOMAIN asked}

num_descr(d) == (nbytes(d) + blk_size - 1) \div blk_size
Rings == {<<>>} \cup {construct_descriptors(d) : d \in Items}

\* The bytes of the descriptors from place i on.
Remaining(d, i) == d.start + (i - 1) * blk_size .. d.start + nbytes(d) - 1

Registers ==
  /\ eng \in [rs : BOOLEAN, reset : BOOLEAN, halted : BOOLEAN, idle : BOOLEAN, error : BOOLEAN,
              enabled : SUBSET {d.channel_id : d \in Items}]
  /\ ch \in [Channels -> [idle : BOOLEAN, busy : BOOLEAN, descr : Rings, at : Nat,
                          started : BOOLEAN]]
  /\ owed \in [Channels -> SUBSET (0 .. ArrayBytes - 1)]

Driver ==
  /\ pc \in {"ready", "reset", "stop", "phase1", "start", "phase2", "wait", "channel"}
  /\ IF pc \in {"phase1", "start", "phase2"}
       THEN call \in Descriptions /\ eng.enabled = Ids(call)
       ELSE call = <<>>
  /\ IF pc = "channel" THEN k \in Channels ELSE k \in 1 .. 1 + Len(call)
  /\ description \in Descriptions \cup {Never}

\* Only reset() resets, and only an error stops the engine under a transfer.
Status ==
  /\ eng.reset => pc = "reset"
  /\ pc \in {"start", "phase2"} => eng.rs
  /\ pc = "phase2" /\ ~eng.error => ~eng.halted
  /\ eng.error => eng.halted /\ ~eng.idle

\* Channel i of the call has its descriptors; it waits for its tail pointer; and
\* what it is to move is owed.
Prepared(i) == pc \in {"start", "phase2"} \/ (pc = "phase1" /\ i < k)
Waits(i)    == (pc = "phase1" /\ i < k) \/ pc = "start" \/ (pc = "phase2" /\ i >= k)
Owing(i)    == pc = "start" \/ (pc = "phase2" /\ i >= k)

Slot(i) ==
  LET c == call[i].channel_id
  IN  /\ Prepared(i) => c \in Channels /\ ch[c].descr = construct_descriptors(call[i])
      /\ Waits(i) => ch[c].idle /\ ~ch[c].busy /\ ch[c].at = 1
      /\ LengthsFit /\ Owing(i) => owed[c] = Asked(call[i])

Call == \A i \in DOMAIN call : Slot(i)

Busy(c) ==
  /\ ~ch[c].idle
  /\ eng.error \/ (c \in eng.enabled /\ ~eng.idle /\ ~eng.halted)
  /\ \E d \in Items : /\ ch[c].descr = construct_descriptors(d)
                      /\ ch[c].at \in 1 .. num_descr(d)
                      /\ LengthsFit => owed[c] = Remaining(d, ch[c].at)

Expects(c) == \E i \in DOMAIN call : Owing(i) /\ call[i].channel_id = c

\* A channel that is not at work owes nothing, unless it waits to be started or
\* was interrupted by an error, which leaves it not idle.
NotBusy(c) ==
  LengthsFit /\ (ch[c].idle \/ ~eng.error) /\ ~Expects(c) => owed[c] = {}

ChannelsOK == \A c \in Channels : IF ch[c].busy THEN Busy(c) ELSE NotBusy(c)

Waited ==
  last = "waited" => pc = "ready" /\ (LengthsFit => \A c \in Channels : owed[c] = {})

Inv == Registers /\ Driver /\ Status /\ Call /\ ChannelsOK /\ Waited
-----------------------------------------------------------------------------
(* What is asked for, and the blocks it is cut into. *)

LEMMA DivBounds ==
  ASSUME NEW a \in Nat, NEW b \in Nat, b > 0
  PROVE  /\ a \div b \in Nat
         /\ (a \div b) * b <= a
         /\ a < (a \div b) * b + b
OBVIOUS

LEMMA ModSmall ==
  ASSUME NEW a \in Nat, NEW b \in Nat, a < b
  PROVE  a % b = a
OBVIOUS

LEMMA TimesUp ==
  ASSUME NEW i \in Nat, NEW j \in Nat, NEW b \in Nat, i <= j
  PROVE  i * b \in Nat /\ j * b \in Nat /\ i * b <= j * b
OBVIOUS

LEMMA TimesNext ==
  ASSUME NEW i \in Int, NEW b \in Int
  PROVE  (i + 1) * b = i * b + b /\ (i - 1) * b = i * b - b
OBVIOUS

LEMMA BlockSize == blk_size \in Nat /\ blk_size > 0
<1>1. MaxSize % Align \in Nat /\ MaxSize % Align < Align
  BY TransferAssumption
<1> QED BY <1>1, TransferAssumption DEF blk_size

LEMMA ItemFacts ==
  ASSUME NEW d \in Items
  PROVE  /\ d.channel_id \in Nat /\ d.start \in Nat /\ nbytes(d) \in Nat /\ nbytes(d) > 0
         /\ d.start + nbytes(d) <= ArrayBytes
         /\ LengthsFit => nbytes(d) < 2 ^ LengthBits \/ blk_size < 2 ^ LengthBits
<1>0. PICK asked \in Descriptions : d \in {asked[i] : i \in DOMAIN asked}
  BY DEF Items
<1>1. PICK i \in DOMAIN asked : d = asked[i]
  BY <1>0
<1>2. /\ asked \in Seq(ChannelTransferDescription)
      /\ d.start < ArrayBytes /\ d.start + d.nbytes <= ArrayBytes
  BY <1>1, TransferAssumption
<1>3. d \in ChannelTransferDescription
  BY <1>1, <1>2, ElementOfSeq
<1>4. d.channel_id \in Nat /\ d.start \in Nat /\ d.nbytes \in Nat
  BY <1>3 DEF ChannelTransferDescription
<1>5. nbytes(d) \in Nat /\ nbytes(d) > 0 /\ d.start + nbytes(d) <= ArrayBytes
  BY <1>2, <1>4, TransferAssumption, SMTT(30) DEF nbytes
<1> QED BY <1>4, <1>5, BlockSize, TransferAssumption DEF LengthsFit

(***************************************************************************)
(* _construct_descriptors: all blocks but the last are full, the last one  *)
(* holds the rest, and its successor is the first.                         *)
(***************************************************************************)
LEMMA Ring ==
  ASSUME NEW d \in Items
  PROVE  LET num == num_descr(d)
             ring == construct_descriptors(d)
         IN  /\ num \in Nat /\ num > 0 /\ nbytes(d) <= num * blk_size
             /\ DOMAIN ring = 1 .. num /\ Len(ring) = num
             /\ \A i \in 1 .. num :
                  /\ ring[i].addr = d.start + (i - 1) * blk_size
                  /\ i < num => /\ i * blk_size < nbytes(d)
                                /\ ring[i].next = i + 1
                                /\ ring[i].len = create_control(blk_size)
                                /\ LengthsFit => ring[i].len = blk_size
                  /\ i = num => /\ LengthsFit => ring[i].len = nbytes(d) - (i - 1) * blk_size
                                /\ nbytes(d) - (i - 1) * blk_size > 0 /\ ring[i].next = 1
<1> DEFINE n == nbytes(d)
           b == blk_size
           num == num_descr(d)
           ring == construct_descriptors(d)
           len(i) == IF n - (i - 1) * b > b THEN b ELSE n - (i - 1) * b
<1>1. /\ b \in Nat /\ b > 0 /\ n \in Nat /\ n > 0 /\ d.start \in Nat
      /\ LengthsFit => n < 2 ^ LengthBits \/ b < 2 ^ LengthBits
      /\ 2 ^ LengthBits \in Nat
  BY BlockSize, ItemFacts, TransferAssumption
<1>2. ring = [i \in 1 .. num |-> [addr |-> d.start + (i - 1) * b,
                                  len  |-> create_control(len(i)),
                                  next |-> (i % num) + 1]]
  BY DEF construct_descriptors, num_descr
<1>3. num = (n + b - 1) \div b
  BY DEF num_descr
<1> HIDE DEF n, b, num, ring
<1>4. num \in Nat /\ num * b <= n + b - 1 /\ n + b - 1 < num * b + b
  <2>1. n + b - 1 \in Nat
    BY <1>1
  <2> HIDE DEF num
  <2> QED BY <1>1, <1>3, <2>1, DivBounds
<1>5. num > 0 /\ n <= num * b
  <2>1. num = 0 => num * b = 0
    BY <1>1
  <2>2. num * b \in Nat
    BY <1>1, <1>4, TimesUp
  <2> QED BY <1>1, <1>4, <2>1, <2>2
<1>6. DOMAIN ring = 1 .. num /\ Len(ring) = num
  <2>1. ring \in [1 .. num -> {ring[i] : i \in 1 .. num}]
    BY <1>2
  <2>2. ring \in Seq({ring[i] : i \in 1 .. num})
    BY <2>1, <1>4
  <2>3. DOMAIN ring = 1 .. num
    BY <1>2
  <2> QED BY <2>2, <2>3, <1>4
<1>7. ASSUME NEW i \in 1 .. num
      PROVE  /\ ring[i].addr = d.start + (i - 1) * b
             /\ i < num => /\ i * b < n /\ ring[i].next = i + 1
                           /\ ring[i].len = create_control(b)
                           /\ LengthsFit => ring[i].len = b
             /\ i = num => /\ n - (i - 1) * b > 0 /\ ring[i].next = 1
                           /\ LengthsFit => ring[i].len = n - (i - 1) * b
  <2>1. /\ ring[i].addr = d.start + (i - 1) * b
        /\ ring[i].len = len(i) % 2 ^ LengthBits
        /\ ring[i].next = (i % num) + 1
    BY <1>2 DEF create_control
  <2>2. (i - 1) * b = i * b - b /\ i * b \in Nat /\ num * b \in Nat
    BY <1>1, <1>4, TimesNext, TimesUp
  <2>3. CASE i < num
    <3>1. i * b <= (num - 1) * b /\ (num - 1) * b = num * b - b
      BY <1>1, <1>4, <1>5, <2>3, TimesNext, TimesUp
    <3>2. i * b < n
      BY <1>1, <1>4, <2>2, <3>1
    <3>3. len(i) = b /\ b < n
      <4>1. n - (i - 1) * b > b
        BY <1>1, <2>2, <3>2
      <4>2. b <= i * b
        <5>1. 1 * b <= i * b
          BY <1>1, <1>4, TimesUp
        <5> QED BY <5>1, <1>1
      <4> QED BY <4>1, <4>2, <3>2, <1>1, <2>2
    <3>4. LengthsFit => b % 2 ^ LengthBits = b
      BY <1>1, <3>3, ModSmall
    <3>5. i % num = i
      BY <1>4, <2>3, ModSmall
    <3> QED BY <2>1, <2>3, <3>2, <3>3, <3>4, <3>5 DEF create_control
  <2>4. CASE i = num
    <3>1. n - (i - 1) * b <= b /\ n - (i - 1) * b > 0
      BY <1>1, <1>4, <2>2, <2>4
    <3>2. len(i) = n - (i - 1) * b /\ len(i) \in Nat /\ len(i) <= b /\ len(i) <= n
      <4>1. (i - 1) * b \in Nat
        BY <1>1, <1>4, TimesUp
      <4> QED BY <1>1, <3>1, <4>1
    <3>3. LengthsFit => len(i) % 2 ^ LengthBits = len(i)
      <4> SUFFICES ASSUME LengthsFit PROVE len(i) % 2 ^ LengthBits = len(i)
        OBVIOUS
      <4>1. len(i) < 2 ^ LengthBits
        BY <1>1, <3>2
      <4> HIDE DEF len
      <4> QED BY <1>1, <3>2, <4>1, ModSmall
    <3>4. i % num = 0
      BY <1>4, <1>5, <2>4
    <3> QED BY <2>1, <2>4, <3>1, <3>2, <3>3, <3>4
  <2> QED BY <1>4, <2>1, <2>3, <2>4
<1> QED BY <1>4, <1>5, <1>6, <1>7 DEF n, b, num, ring

(***************************************************************************)
(* The blocks from place i on tile what remains: one more block leaves     *)
(* what remains after it, and together they are what remains.              *)
(***************************************************************************)
LEMMA BlockBytes ==
  ASSUME LengthsFit, NEW d \in Items, NEW i \in 1 .. num_descr(d)
  PROVE  Bytes(construct_descriptors(d)[i]) =
           {x \in Remaining(d, i) : i < num_descr(d) => x < d.start + i * blk_size}
<1> DEFINE b == blk_size
           num == num_descr(d)
           bd == construct_descriptors(d)[i]
<1>1. b \in Nat /\ nbytes(d) \in Nat /\ d.start \in Nat /\ num \in Nat
  BY BlockSize, ItemFacts, Ring
<1>2. /\ bd.addr = d.start + (i - 1) * b
      /\ i < num => i * b < nbytes(d) /\ bd.len = b
      /\ i = num => bd.len = nbytes(d) - (i - 1) * b
  BY Ring
<1>3. i * b \in Nat /\ (i - 1) * b = i * b - b /\ (i - 1) * b \in Nat
  BY <1>1, TimesNext, TimesUp
<1> HIDE DEF b, num, bd
<1>4. CASE i < num
  BY <1>1, <1>2, <1>3, <1>4 DEF Bytes, Remaining, b, num, bd
<1>5. CASE i = num
  BY <1>1, <1>2, <1>3, <1>5 DEF Bytes, Remaining, b, num, bd
<1> QED BY <1>1, <1>4, <1>5 DEF num

LEMMA AfterBlock ==
  ASSUME LengthsFit, NEW d \in Items, NEW i \in 1 .. num_descr(d)
  PROVE  /\ i < num_descr(d) =>
              Remaining(d, i) \ Bytes(construct_descriptors(d)[i]) = Remaining(d, i + 1)
         /\ i = num_descr(d) =>
              Remaining(d, i) \ Bytes(construct_descriptors(d)[i]) = {}
<1> DEFINE b == blk_size
<1>1. b \in Nat /\ nbytes(d) \in Nat /\ d.start \in Nat /\ num_descr(d) \in Nat
  BY BlockSize, ItemFacts, Ring
<1>2. i * b \in Nat /\ (i - 1) * b = i * b - b /\ (i + 1) - 1 = i
  BY <1>1, TimesNext, TimesUp
<1>3. Bytes(construct_descriptors(d)[i]) =
        {x \in Remaining(d, i) : i < num_descr(d) => x < d.start + i * blk_size}
  BY BlockBytes
<1>4. CASE i = num_descr(d)
  BY <1>1, <1>3, <1>4
<1>5. CASE i < num_descr(d)
  <2>1. Remaining(d, i) = d.start + (i * b - b) .. d.start + nbytes(d) - 1
        /\ Remaining(d, i + 1) = d.start + i * b .. d.start + nbytes(d) - 1
    BY <1>2 DEF Remaining
  <2> QED BY <1>1, <1>2, <1>3, <1>5, <2>1
<1> QED BY <1>1, <1>4, <1>5

LEMMA RemainingBytes ==
  ASSUME NEW d \in Items
  PROVE  /\ Remaining(d, 1) = Asked(d)
         /\ \A i \in 1 .. num_descr(d) : Remaining(d, i) \subseteq 0 .. ArrayBytes - 1
<1>1. blk_size \in Nat /\ nbytes(d) \in Nat /\ d.start \in Nat /\ num_descr(d) \in Nat
      /\ d.start + nbytes(d) <= ArrayBytes /\ ArrayBytes \in Nat
  BY BlockSize, ItemFacts, Ring, TransferAssumption
<1>2. (1 - 1) * blk_size = 0
  BY <1>1
<1>3. Remaining(d, 1) = Asked(d)
  BY <1>1, <1>2 DEF Remaining, Asked
<1>4. ASSUME NEW i \in 1 .. num_descr(d) PROVE Remaining(d, i) \subseteq 0 .. ArrayBytes - 1
  <2>1. (i - 1) * blk_size \in Nat
    BY <1>1, TimesUp
  <2> QED BY <1>1, <2>1 DEF Remaining
<1> QED BY <1>3, <1>4

LEMMA Tile ==
  ASSUME LengthsFit, NEW d \in Items, NEW at \in 1 .. num_descr(d)
  PROVE  LET ring == construct_descriptors(d)
             left == {i \in DOMAIN ring : i >= at}
         IN  /\ UNION {Bytes(ring[i]) : i \in left} = Remaining(d, at)
             /\ \A i, j \in left : i # j => Bytes(ring[i]) \cap Bytes(ring[j]) = {}
<1> DEFINE b == blk_size
           num == num_descr(d)
           ring == construct_descriptors(d)
           left == {i \in DOMAIN ring : i >= at}
<1>1. b \in Nat /\ b > 0 /\ nbytes(d) \in Nat /\ d.start \in Nat /\ num \in Nat
      /\ DOMAIN ring = 1 .. num
  BY BlockSize, ItemFacts, Ring
<1>2. ASSUME NEW i \in 1 .. num
      PROVE  /\ Bytes(ring[i]) = {x \in Remaining(d, i) : i < num => x < d.start + i * b}
             /\ i * b \in Nat /\ (i - 1) * b = i * b - b
             /\ Remaining(d, i) = d.start + (i - 1) * b .. d.start + nbytes(d) - 1
  <2>1. Bytes(ring[i]) = {x \in Remaining(d, i) : i < num => x < d.start + i * b}
    BY BlockBytes
  <2>2. i * b \in Nat /\ (i - 1) * b = i * b - b
    BY <1>1, TimesNext, TimesUp
  <2> QED BY <2>1, <2>2 DEF Remaining
<1> HIDE DEF num, ring, b
<1>3. ASSUME NEW i \in left PROVE Bytes(ring[i]) \subseteq Remaining(d, at)
  <2>1. i \in 1 .. num /\ at \in 1 .. num /\ at - 1 <= i - 1 /\ at - 1 \in Nat /\ i - 1 \in Nat
    BY <1>1 DEF num
  <2>2. (at - 1) * b <= (i - 1) * b /\ (at - 1) * b \in Nat /\ (i - 1) * b \in Nat
    BY <1>1, <2>1, TimesUp
  <2>3. Remaining(d, i) \subseteq Remaining(d, at)
    BY <1>1, <2>2 DEF Remaining, b
  <2> QED BY <1>2, <2>1, <2>3
<1>4. ASSUME NEW x \in Remaining(d, at) PROVE \E i \in left : x \in Bytes(ring[i])
  <2> DEFINE y == x - d.start
             q == y \div b
  <2>1. at \in 1 .. num /\ at - 1 \in Nat /\ (at - 1) * b \in Nat
    BY <1>1, TimesUp DEF num
  <2>2. y \in Nat /\ (at - 1) * b <= y /\ y < nbytes(d) /\ x = d.start + y
    <3>1. x \in d.start + (at - 1) * b .. d.start + nbytes(d) - 1
      BY DEF Remaining, b
    <3> QED BY <1>1, <2>1, <3>1, SMTT(30)
  <2> HIDE DEF y
  <2>3. q \in Nat /\ q * b <= y /\ y < q * b + b
    BY <1>1, <2>2, DivBounds
  <2> HIDE DEF q
  <2>4. q >= at - 1
    <3> SUFFICES ASSUME q + 1 <= at - 1 PROVE FALSE
      BY <2>1, <2>3
    <3>1. (q + 1) * b <= (at - 1) * b /\ (q + 1) * b = q * b + b /\ q * b \in Nat
      BY <1>1, <2>1, <2>3, TimesUp, TimesNext
    <3> QED BY <2>1, <2>2, <2>3, <3>1, <1>1
  <2>5. q + 1 <= num
    <3> SUFFICES ASSUME num <= q PROVE FALSE
      BY <1>1, <2>3
    <3>1. num * b <= q * b /\ num * b \in Nat /\ q * b \in Nat
      BY <1>1, <2>3, TimesUp
    <3>2. nbytes(d) <= num * b
      BY Ring DEF num, b
    <3> QED BY <1>1, <2>2, <2>3, <3>1, <3>2
  <2>6. q + 1 \in left /\ q + 1 \in 1 .. num /\ (q + 1) - 1 = q
    BY <1>1, <2>1, <2>3, <2>4, <2>5 DEF num
  <2>7. q * b \in Nat /\ (q + 1) * b = q * b + b
    BY <1>1, <2>3, TimesUp, TimesNext
  <2>8. x \in Bytes(ring[q + 1])
    <3> DEFINE i == q + 1
    <3>1. /\ Bytes(ring[i]) = {z \in Remaining(d, i) : i < num => z < d.start + i * b}
          /\ Remaining(d, i) = d.start + q * b .. d.start + nbytes(d) - 1
      BY <1>2, <2>6
    <3>2. x < d.start + i * b /\ x \in Remaining(d, i)
      BY <1>1, <2>2, <2>3, <2>7, <3>1, SMTT(30)
    <3> QED BY <3>1, <3>2
  <2> QED BY <2>6, <2>8
<1>5. ASSUME NEW i \in 1 .. num, NEW j \in 1 .. num, i < j
      PROVE  Bytes(ring[i]) \cap Bytes(ring[j]) = {}
  <2>1. i * b <= (j - 1) * b /\ i * b \in Nat /\ (j - 1) * b \in Nat
    BY <1>1, <1>5, TimesUp
  <2>2. \A x \in Bytes(ring[i]) : x \in Int /\ x < d.start + i * b
    BY <1>1, <1>2, <1>5, <2>1
  <2>3. \A x \in Bytes(ring[j]) : x \in Int /\ x >= d.start + (j - 1) * b
    BY <1>1, <1>2, <2>1
  <2> QED BY <1>1, <2>1, <2>2, <2>3, SMTT(30)
<1>6. \A i, j \in left : i # j => Bytes(ring[i]) \cap Bytes(ring[j]) = {}
  <2> SUFFICES ASSUME NEW i \in left, NEW j \in left, i # j
               PROVE  Bytes(ring[i]) \cap Bytes(ring[j]) = {}
    OBVIOUS
  <2>1. i \in 1 .. num /\ j \in 1 .. num /\ (i < j \/ j < i)
    BY <1>1
  <2> QED BY <2>1, <1>5
<1>7. UNION {Bytes(ring[i]) : i \in left} = Remaining(d, at)
  BY <1>3, <1>4
<1> QED BY <1>6, <1>7 DEF ring
-----------------------------------------------------------------------------
(* The steps of the engine. *)

LEMMA CallFacts ==
  ASSUME Driver
  PROVE  /\ Len(call) \in Nat /\ DOMAIN call = 1 .. Len(call)
         /\ \A i \in DOMAIN call : call[i] \in Items
         /\ \A i, j \in DOMAIN call : call[i].channel_id = call[j].channel_id => i = j
<1>1. CASE call = <<>>
  BY <1>1
<1>2. CASE call \in Descriptions
  <2>1. call \in Seq(ChannelTransferDescription)
    BY <1>2, TransferAssumption
  <2>2. Len(call) \in Nat /\ DOMAIN call = 1 .. Len(call)
    BY <2>1, LenProperties
  <2> QED BY <1>2, <2>2, TransferAssumption DEF Items
<1> QED BY <1>1, <1>2 DEF Driver

\* Where a driver that does not move is with each channel of its call.
LEMMA SlotsStay ==
  ASSUME UNCHANGED driver, NEW i
  PROVE  /\ call' = call
         /\ Prepared(i)' <=> Prepared(i)
         /\ Waits(i)' <=> Waits(i)
         /\ Owing(i)' <=> Owing(i)
BY DEF driver, Prepared, Waits, Owing

LEMMA ExpectsStay == ASSUME UNCHANGED driver, NEW c PROVE Expects(c)' <=> Expects(c)
BY DEF driver, Expects, Owing

LEMMA SlotOrder == \A i : (Waits(i) => Prepared(i)) /\ (Owing(i) => Waits(i))
BY DEF Prepared, Waits, Owing

LEMMA InitInv == ASSUME Init PROVE Inv
<1>1. Registers
  BY DEF Init, Registers, Fresh, Rings
<1>2. Driver
  BY DEF Init, Driver, Never
<1>3. Status /\ Waited
  BY DEF Init, Status, Waited
<1>4. Call
  BY DEF Init, Call
<1>5. ChannelsOK
  BY DEF Init, ChannelsOK, NotBusy, Fresh
<1> QED BY <1>1, <1>2, <1>3, <1>4, <1>5 DEF Inv

LEMMA EngineResetKeeps == ASSUME Inv, EngineReset PROVE Inv'
<1>1. /\ pc = "reset" /\ call = <<>> /\ UNCHANGED driver
      /\ eng'.error = FALSE /\ eng'.reset = FALSE /\ eng'.enabled = {}
      /\ \A c \in Channels : owed'[c] = {} /\ ~ch'[c].busy
  BY DEF EngineReset, Inv, Status, Driver, Fresh
<1>2. Registers'
  <2>1. eng' \in [rs : BOOLEAN, reset : BOOLEAN, halted : BOOLEAN, idle : BOOLEAN,
                  error : BOOLEAN, enabled : SUBSET {d.channel_id : d \in Items}]
    BY DEF EngineReset
  <2>2. ch' \in [Channels -> [idle : BOOLEAN, busy : BOOLEAN, descr : Rings, at : Nat,
                              started : BOOLEAN]]
    BY DEF EngineReset, Inv, Registers, Fresh, Rings
  <2>3. owed' \in [Channels -> SUBSET (0 .. ArrayBytes - 1)]
    BY DEF EngineReset
  <2> QED BY <2>1, <2>2, <2>3 DEF Registers
<1>3. Driver' /\ Status' /\ Waited'
  BY <1>1 DEF Inv, Driver, Status, Waited, driver
<1>4. Call'
  BY <1>1 DEF Call, driver
<1>5. ChannelsOK'
  BY <1>1 DEF ChannelsOK, NotBusy
<1> QED BY <1>2, <1>3, <1>4, <1>5 DEF Inv

LEMMA EngineRunKeeps == ASSUME Inv, EngineRun PROVE Inv'
<1>1. /\ UNCHANGED <<ch, owed, driver>>
      /\ eng.rs /\ eng.halted /\ ~eng.error /\ ~eng.reset
      /\ eng' = [eng EXCEPT !.halted = FALSE]
  BY DEF EngineRun
<1>2. Registers'
  BY <1>1 DEF Inv, Registers
<1>3. /\ eng'.rs = eng.rs /\ eng'.reset = eng.reset /\ eng'.idle = eng.idle
      /\ eng'.error = eng.error /\ eng'.enabled = eng.enabled /\ eng'.halted = FALSE
  BY <1>1 DEF Inv, Registers
<1>4. Driver' /\ Status' /\ Waited'
  BY <1>1, <1>3 DEF Inv, Driver, Status, Waited, driver
<1>5. Call'
  BY <1>1, SlotsStay DEF Inv, Call, Slot
<1>6. ChannelsOK'
  BY <1>1, <1>3, ExpectsStay DEF Inv, ChannelsOK, Busy, NotBusy
<1> QED BY <1>2, <1>4, <1>5, <1>6 DEF Inv

LEMMA EngineHaltKeeps == ASSUME Inv, EngineHalt PROVE Inv'
<1>1. /\ UNCHANGED driver /\ ~eng.rs /\ ~eng.halted /\ ~eng.reset
      /\ eng' = [eng EXCEPT !.halted = TRUE]
      /\ owed' = [c \in Channels |-> {}]
  BY DEF EngineHalt
<1>2. PICK stuck \in SUBSET {c \in Channels : ch[c].busy} :
        ch' = [c \in Channels |-> [ch[c] EXCEPT !.busy = FALSE,
                                               !.idle = (@ \/ ch[c].busy) /\ c \notin stuck]]
  BY DEF EngineHalt
<1>3. ASSUME NEW c \in Channels
      PROVE  /\ ch'[c] \in [idle : BOOLEAN, busy : BOOLEAN, descr : Rings, at : Nat,
                            started : BOOLEAN]
             /\ ch'[c].descr = ch[c].descr /\ ch'[c].at = ch[c].at /\ ch'[c].busy = FALSE
             /\ ~ch[c].busy => ch'[c].idle = ch[c].idle
  BY <1>2 DEF Inv, Registers
<1>4. Registers'
  <2>1. ch' \in [Channels -> [idle : BOOLEAN, busy : BOOLEAN, descr : Rings, at : Nat,
                              started : BOOLEAN]]
    BY <1>2, <1>3
  <2> QED BY <1>1, <2>1 DEF Inv, Registers
<1>5. /\ eng'.rs = eng.rs /\ eng'.reset = eng.reset /\ eng'.idle = eng.idle
      /\ eng'.error = eng.error /\ eng'.enabled = eng.enabled /\ eng'.halted = TRUE
  BY <1>1 DEF Inv, Registers
<1>6. pc \notin {"start", "phase2"}
  BY <1>1 DEF Inv, Status
<1>7. Driver' /\ Status' /\ Waited'
  BY <1>1, <1>5, <1>6 DEF Inv, Driver, Status, Waited, driver
<1>8. Call'
  <2> SUFFICES ASSUME NEW i \in DOMAIN call PROVE Slot(i)'
    BY <1>1 DEF Call, driver
  <2>1. Slot(i) /\ ~Owing(i)
    BY <1>6 DEF Inv, Call, Owing
  <2> QED BY <1>1, <1>3, <2>1, SlotsStay, SlotOrder, ZenonT(30) DEF Slot
<1>9. ChannelsOK'
  BY <1>1, <1>3 DEF ChannelsOK, NotBusy
<1> QED BY <1>4, <1>7, <1>8, <1>9 DEF Inv

LEMMA EngineFailKeeps == ASSUME Inv, NEW c \in Channels, EngineFail(c) PROVE Inv'
<1>1. /\ UNCHANGED <<owed, driver>> /\ Working(c)
      /\ eng' = [eng EXCEPT !.halted = TRUE, !.error = TRUE]
      /\ ch' = [e \in Channels |-> [ch[e] EXCEPT !.busy = FALSE]]
  BY DEF EngineFail
<1>2. ASSUME NEW e \in Channels
      PROVE  /\ ch'[e] \in [idle : BOOLEAN, busy : BOOLEAN, descr : Rings, at : Nat,
                            started : BOOLEAN]
             /\ ch'[e].descr = ch[e].descr /\ ch'[e].at = ch[e].at /\ ch'[e].busy = FALSE
             /\ ch'[e].idle = ch[e].idle
  BY <1>1 DEF Inv, Registers
<1>3. Registers'
  <2>1. ch' \in [Channels -> [idle : BOOLEAN, busy : BOOLEAN, descr : Rings, at : Nat,
                              started : BOOLEAN]]
    BY <1>1, <1>2
  <2> QED BY <1>1, <2>1 DEF Inv, Registers
<1>4. /\ eng'.rs = eng.rs /\ eng'.reset = eng.reset /\ eng'.idle = eng.idle
      /\ eng'.error = TRUE /\ eng'.enabled = eng.enabled /\ eng'.halted = TRUE
  BY <1>1 DEF Inv, Registers
<1>5. ~eng.idle
  BY <1>1 DEF Inv, ChannelsOK, Busy, Working, Status
<1>6. Driver' /\ Status' /\ Waited'
  BY <1>1, <1>4, <1>5 DEF Inv, Driver, Status, Waited, driver
<1>7. Call'
  <2> SUFFICES ASSUME NEW i \in DOMAIN call PROVE Slot(i)'
    BY <1>1 DEF Call, driver
  <2>1. Slot(i)
    BY DEF Inv, Call
  <2> QED BY <1>1, <1>2, <2>1, SlotsStay, SlotOrder DEF Slot
<1>8. ChannelsOK'
  <2> SUFFICES ASSUME NEW e \in Channels PROVE NotBusy(e)'
    BY <1>2 DEF ChannelsOK
  <2>1. ch[e].idle => NotBusy(e)
    BY DEF Inv, ChannelsOK, Busy
  <2> QED BY <1>1, <1>2, <1>4, <2>1, ExpectsStay DEF NotBusy
<1> QED BY <1>3, <1>6, <1>7, <1>8 DEF Inv

LEMMA EngineMoveKeeps == ASSUME Inv, NEW c \in Channels, EngineMove(c) PROVE Inv'
<1> DEFINE bd == ch[c].descr[ch[c].at]
           done == ch[c].at = Len(ch[c].descr)
<1>1. /\ UNCHANGED driver /\ Working(c)
      /\ owed' = [owed EXCEPT ![c] = @ \ Bytes(bd)]
      /\ ch' = [ch EXCEPT ![c].at = bd.next, ![c].busy = ~done, ![c].idle = done]
      /\ eng' = [eng EXCEPT !.idle = \A e \in eng.enabled \cap Channels : ch'[e].idle]
  BY DEF EngineMove
<1>2. PICK d \in Items : /\ ch[c].descr = construct_descriptors(d)
                         /\ ch[c].at \in 1 .. num_descr(d)
                         /\ LengthsFit => owed[c] = Remaining(d, ch[c].at)
  BY <1>1 DEF Working, Inv, ChannelsOK, Busy
<1> DEFINE at == ch[c].at
           num == num_descr(d)
<1>3. /\ num \in Nat /\ Len(ch[c].descr) = num
      /\ at < num => bd.next = at + 1
      /\ at = num => bd.next = 1
  BY <1>2, Ring
<1>4. /\ LengthsFit /\ at < num => owed[c] \ Bytes(bd) = Remaining(d, at + 1)
      /\ LengthsFit /\ at = num => owed[c] \ Bytes(bd) = {}
  BY <1>2, AfterBlock
<1>5. /\ ch'[c] \in [idle : BOOLEAN, busy : BOOLEAN, descr : Rings, at : Nat, started : BOOLEAN]
      /\ ch'[c].descr = ch[c].descr /\ ch'[c].at = bd.next /\ ch'[c].at \in 1 .. num
      /\ ch'[c].busy = (at # num) /\ ch'[c].idle = (at = num)
  <2>1. ch[c] \in [idle : BOOLEAN, busy : BOOLEAN, descr : Rings, at : Nat, started : BOOLEAN]
    BY DEF Inv, Registers
  <2>2. ch'[c] = [ch[c] EXCEPT !.at = bd.next, !.busy = ~done, !.idle = done]
    BY <1>1 DEF Inv, Registers
  <2>3. bd.next \in 1 .. num /\ done = (at = num)
    BY <1>2, <1>3
  <2> HIDE DEF bd, done
  <2>4. /\ ch'[c].descr = ch[c].descr /\ ch'[c].at = bd.next
        /\ ch'[c].busy = ~done /\ ch'[c].idle = done
    BY <2>1, <2>2
  <2>5. done \in BOOLEAN
    BY DEF done
  <2>6. bd.next \in Nat
    BY <2>3, <1>3
  <2>7. ch'[c] \in [idle : BOOLEAN, busy : BOOLEAN, descr : Rings, at : Nat, started : BOOLEAN]
    BY <2>1, <2>2, <2>5, <2>6
  <2> QED BY <2>3, <2>4, <2>7
<1>6. \A e \in Channels : e # c => ch'[e] = ch[e] /\ owed'[e] = owed[e]
  BY <1>1 DEF Inv, Registers
<1>7. owed'[c] = owed[c] \ Bytes(bd)
  BY <1>1 DEF Inv, Registers
<1>8. /\ eng'.rs = eng.rs /\ eng'.reset = eng.reset /\ eng'.halted = eng.halted
      /\ eng'.error = eng.error /\ eng'.enabled = eng.enabled
      /\ eng'.idle = \A e \in eng.enabled \cap Channels : ch'[e].idle
  BY <1>1 DEF Inv, Registers
<1>9. Registers'
  <2>1. ch' \in [Channels -> [idle : BOOLEAN, busy : BOOLEAN, descr : Rings, at : Nat,
                              started : BOOLEAN]]
    BY <1>1, <1>5, <1>6 DEF Inv, Registers
  <2>2. owed' \in [Channels -> SUBSET (0 .. ArrayBytes - 1)]
    BY <1>1, SMTT(30) DEF Inv, Registers
  <2>3. eng' \in [rs : BOOLEAN, reset : BOOLEAN, halted : BOOLEAN, idle : BOOLEAN,
                  error : BOOLEAN, enabled : SUBSET {x.channel_id : x \in Items}]
    BY <1>1 DEF Inv, Registers
  <2> QED BY <2>1, <2>2, <2>3 DEF Registers
<1>10. ~eng.halted /\ ~eng.error /\ ch[c].busy /\ ~ch[c].idle
  BY <1>1 DEF Working, Inv, Status, ChannelsOK, Busy
<1> HIDE DEF bd, done
<1>11. Driver' /\ Status'
  BY <1>1, <1>8, <1>10 DEF Inv, Driver, Status, driver
<1>12. Waited'
  BY <1>1, <1>6, <1>7 DEF Inv, Waited, driver
<1>13. Call'
  <2> SUFFICES ASSUME NEW i \in DOMAIN call PROVE Slot(i)'
    BY <1>1 DEF Call, driver
  <2>1. Slot(i)
    BY DEF Inv, Call
  <2>2. Waits(i) => call[i].channel_id # c
    BY <2>1, <1>10 DEF Slot
  <2> QED BY <1>1, <1>5, <1>6, <2>1, <2>2, SlotsStay, SlotOrder, ZenonT(30) DEF Slot
<1>14. ChannelsOK'
  <2>1. ASSUME NEW e \in Channels, e # c, ch'[e].busy PROVE Busy(e)'
    <3>1. Busy(e) /\ ~ch'[e].idle /\ e \in eng.enabled
      BY <1>6, <1>10, <2>1 DEF Inv, ChannelsOK, Busy
    <3>2. ~eng'.idle
      BY <1>8, <3>1
    <3> QED BY <1>6, <1>8, <1>10, <2>1, <3>1, <3>2 DEF Busy
  <2>2. ASSUME NEW e \in Channels, e # c, ~ch'[e].busy PROVE NotBusy(e)'
    BY <1>1, <1>6, <1>8, <2>2, ExpectsStay DEF Inv, ChannelsOK, NotBusy
  <2>3. CASE at = num
    <3>1. ~ch'[c].busy /\ (LengthsFit => owed'[c] = {})
      BY <1>4, <1>5, <1>7, <2>3
    <3> QED BY <2>1, <2>2, <3>1 DEF ChannelsOK, NotBusy
  <2>4. CASE at < num
    <3>1. /\ ch'[c].busy /\ ~ch'[c].idle /\ ch'[c].at = at + 1
          /\ LengthsFit => owed'[c] = Remaining(d, at + 1)
      BY <1>2, <1>3, <1>4, <1>5, <1>7, <2>4
    <3>2. c \in eng.enabled
      BY <1>1 DEF Working
    <3>3. Busy(c)'
      BY <1>2, <1>5, <1>8, <1>10, <3>1, <3>2 DEF Busy
    <3> QED BY <2>1, <2>2, <3>1, <3>3 DEF ChannelsOK
  <2> QED BY <1>2, <1>3, <2>3, <2>4
<1> QED BY <1>9, <1>11, <1>12, <1>13, <1>14 DEF Inv
-----------------------------------------------------------------------------
(* The steps of the driver. *)

LEMMA CallEnds == ASSUME call' = <<>> PROVE Call'
BY DEF Call

LEMMA ExpectsNothing ==
  ASSUME Driver, pc \notin {"start", "phase2"} \/ k > Len(call), pc # "start"
  PROVE  \A c : ~Expects(c)
<1>1. Len(call) \in Nat /\ DOMAIN call = 1 .. Len(call)
  BY CallFacts
<1>2. CASE pc \notin {"start", "phase2"}
  BY <1>2 DEF Expects, Owing
<1>3. CASE pc = "phase2" /\ k > Len(call)
  <2>1. k \in Nat
    BY <1>1, <1>3 DEF Driver
  <2> QED BY <1>1, <1>3, <2>1 DEF Expects, Owing
<1> QED BY <1>2, <1>3

\* A step that only moves the driver, or tells the engine to run, stop or reset.
LEMMA ChannelsStay ==
  ASSUME ChannelsOK, \A c : ~Expects(c),
         UNCHANGED <<ch, owed>>, eng'.error = eng.error, eng'.idle = eng.idle,
         eng'.halted = eng.halted,
         \A c \in Channels : ch[c].busy => eng.error \/ c \in eng'.enabled
  PROVE  ChannelsOK'
<1> SUFFICES ASSUME NEW c \in Channels
             PROVE  (ch[c].busy => Busy(c)') /\ (~ch[c].busy => NotBusy(c)')
  BY DEF ChannelsOK
<1>1. ASSUME ch[c].busy PROVE Busy(c)'
  BY <1>1 DEF ChannelsOK, Busy
<1>2. ASSUME ~ch[c].busy PROVE NotBusy(c)'
  BY <1>2 DEF ChannelsOK, NotBusy
<1> QED BY <1>1, <1>2

\* A busy channel is enabled, or the engine has failed.
LEMMA BusyEnabled ==
  ASSUME ChannelsOK PROVE \A c \in Channels : ch[c].busy => eng.error \/ c \in eng.enabled
BY DEF ChannelsOK, Busy

LEMMA resetKeeps == ASSUME Inv, reset PROVE Inv'
<1>1. /\ pc = "ready" /\ pc' = "reset" /\ last' = "none" /\ call = <<>>
      /\ UNCHANGED <<ch, owed, call, k, description>>
      /\ eng' = [eng EXCEPT !.reset = TRUE, !.rs = FALSE]
  BY DEF reset, Inv, Driver
<1>2. Registers'
  BY <1>1 DEF Inv, Registers
<1>3. /\ eng'.halted = eng.halted /\ eng'.idle = eng.idle /\ eng'.error = eng.error
      /\ eng'.enabled = eng.enabled /\ eng'.reset = TRUE
  BY <1>1 DEF Inv, Registers
<1>4. Driver' /\ Status' /\ Waited'
  BY <1>1, <1>3 DEF Inv, Driver, Status, Waited
<1>5. ChannelsOK'
  BY <1>1, <1>3, ExpectsNothing, ChannelsStay, BusyEnabled DEF Inv
<1> QED BY <1>1, <1>2, <1>4, <1>5, CallEnds DEF Inv

LEMMA stopKeeps == ASSUME Inv, stop PROVE Inv'
<1>1. /\ pc = "ready" /\ pc' = "stop" /\ last' = "none" /\ call = <<>>
      /\ UNCHANGED <<ch, owed, call, k, description>>
      /\ eng' = [eng EXCEPT !.rs = FALSE]
  BY DEF stop, Inv, Driver
<1>2. Registers'
  BY <1>1 DEF Inv, Registers
<1>3. /\ eng'.halted = eng.halted /\ eng'.idle = eng.idle /\ eng'.error = eng.error
      /\ eng'.enabled = eng.enabled /\ eng'.reset = eng.reset
  BY <1>1 DEF Inv, Registers
<1>4. Driver' /\ Status' /\ Waited'
  BY <1>1, <1>3 DEF Inv, Driver, Status, Waited
<1>5. ChannelsOK'
  BY <1>1, <1>3, ExpectsNothing, ChannelsStay, BusyEnabled DEF Inv
<1> QED BY <1>1, <1>2, <1>4, <1>5, CallEnds DEF Inv

\* A call that returns without a word to the engine, and not from wait().
LEMMA ReturnKeeps ==
  ASSUME Inv, NEW how, Return(how), how # "waited", UNCHANGED engine,
         ~eng.reset, pc # "start", pc = "phase2" => k > Len(call),
         description' \in Descriptions \cup {Never}
  PROVE  Inv'
<1>1. pc' = "ready" /\ call' = <<>> /\ k' = 1 /\ last' = how /\ UNCHANGED <<eng, ch, owed>>
  BY DEF Return, engine
<1>2. Registers' /\ Driver' /\ Status' /\ Waited'
  BY <1>1 DEF Inv, Registers, Driver, Status, Waited
<1>3. ChannelsOK'
  BY <1>1, ExpectsNothing, ChannelsStay, BusyEnabled DEF Inv
<1> QED BY <1>1, <1>2, <1>3, CallEnds DEF Inv

LEMMA start_transferKeeps == ASSUME Inv, start_transfer PROVE Inv'
<1>1. pc = "ready" /\ call = <<>> /\ ~eng.reset /\ UNCHANGED <<ch, owed, description>>
  BY DEF start_transfer, Inv, Driver, Status
<1>2. CASE ~eng.idle /\ ~eng.halted
  <2>1. Return("raised") /\ UNCHANGED engine
    BY <1>1, <1>2 DEF start_transfer, engine
  <2> QED BY <1>1, <2>1, ReturnKeeps DEF Inv, Driver
<1>3. CASE ~(~eng.idle /\ ~eng.halted)
  <2>1. PICK asked \in Descriptions :
          /\ call' = asked /\ k' = 1 /\ pc' = "phase1" /\ last' = "none"
          /\ eng' = [eng EXCEPT !.enabled = Ids(asked)]
    BY <1>3 DEF start_transfer, Ids
  <2>2. Ids(asked) \subseteq {d.channel_id : d \in Items}
    BY DEF Ids, Items
  <2>3. Registers'
    BY <1>1, <2>1, <2>2 DEF Inv, Registers
  <2>4. /\ eng'.halted = eng.halted /\ eng'.idle = eng.idle /\ eng'.error = eng.error
        /\ eng'.enabled = Ids(asked) /\ eng'.reset = eng.reset
    BY <2>1 DEF Inv, Registers
  <2>5. Driver'
    <3>1. Len(asked) \in Nat
      BY TransferAssumption, LenProperties
    <3> QED BY <1>1, <2>1, <2>4, <3>1 DEF Inv, Driver
  <2>6. Status' /\ Waited'
    BY <1>1, <2>1, <2>4 DEF Inv, Status, Waited
  <2>7. Call'
    <3>1. Len(asked) \in Nat /\ DOMAIN asked = 1 .. Len(asked)
      BY TransferAssumption, LenProperties
    <3> SUFFICES ASSUME NEW i \in DOMAIN asked PROVE Slot(i)'
      BY <2>1 DEF Call
    <3>2. ~Prepared(i)' /\ ~Waits(i)' /\ ~Owing(i)'
      BY <2>1, <3>1 DEF Prepared, Waits, Owing
    <3> QED BY <3>2 DEF Slot
  <2>8. \A c \in Channels : ch[c].busy => eng.error
    BY <1>3 DEF Inv, ChannelsOK, Busy
  <2>9. ChannelsOK'
    BY <1>1, <2>4, <2>8, ExpectsNothing, ChannelsStay DEF Inv
  <2> QED BY <2>3, <2>5, <2>6, <2>7, <2>9 DEF Inv
<1> QED BY <1>2, <1>3

LEMMA waitKeeps == ASSUME Inv, wait PROVE Inv'
<1>1. /\ pc = "ready" /\ call = <<>> /\ ~eng.reset
      /\ pc' = "wait" /\ k' = 1 /\ last' = "none"
      /\ UNCHANGED <<eng, ch, owed, call, description>>
  BY DEF wait, engine, Inv, Driver, Status
<1>2. Registers' /\ Driver' /\ Status' /\ Waited'
  BY <1>1 DEF Inv, Registers, Driver, Status, Waited
<1>3. ChannelsOK'
  BY <1>1, ExpectsNothing, ChannelsStay, BusyEnabled DEF Inv
<1> QED BY <1>1, <1>2, <1>3, CallEnds DEF Inv

LEMMA channel_waitKeeps == ASSUME Inv, NEW c \in Channels, channel_wait(c) PROVE Inv'
<1>1. pc = "ready" /\ call = <<>> /\ ~eng.reset /\ UNCHANGED <<engine, description>>
  BY DEF channel_wait, Inv, Driver, Status
<1>2. CASE ~ch[c].started
  <2>1. Return("raised")
    BY <1>2 DEF channel_wait
  <2> QED BY <1>1, <2>1, ReturnKeeps DEF Inv, Driver
<1>3. CASE ch[c].started
  <2>1. pc' = "channel" /\ k' = c /\ last' = "none" /\ call' = <<>> /\ UNCHANGED <<eng, ch, owed>>
    BY <1>1, <1>3 DEF channel_wait, engine
  <2>2. Registers' /\ Driver' /\ Status' /\ Waited'
    BY <1>1, <2>1 DEF Inv, Registers, Driver, Status, Waited
  <2>3. ChannelsOK'
    BY <1>1, <2>1, ExpectsNothing, ChannelsStay, BusyEnabled DEF Inv
  <2> QED BY <2>1, <2>2, <2>3, CallEnds DEF Inv
<1> QED BY <1>2, <1>3

LEMMA ResetDoneKeeps == ASSUME Inv, ResetDone PROVE Inv'
BY ReturnKeeps DEF ResetDone, Inv, Driver

LEMMA StoppedKeeps == ASSUME Inv, Stopped PROVE Inv'
BY ReturnKeeps DEF Stopped, Inv, Driver, Status

\* The engine calls itself idle only when nothing is owed.
LEMMA IdleMeansDone ==
  ASSUME Inv, LengthsFit, eng.idle, pc = "wait" PROVE \A c \in Channels : owed[c] = {}
<1>1. \A c : ~Expects(c)
  BY ExpectsNothing DEF Inv
<1>2. ~eng.error
  BY DEF Inv, Status
<1>3. \A c \in Channels : ~ch[c].busy
  BY <1>2 DEF Inv, ChannelsOK, Busy
<1> QED BY <1>1, <1>2, <1>3 DEF Inv, ChannelsOK, NotBusy

LEMMA WaitDoneKeeps == ASSUME Inv, WaitDone PROVE Inv'
<1>1. CASE description = Never
  <2>1. Return("raised") /\ UNCHANGED <<engine, description>> /\ pc = "wait" /\ ~eng.reset
    BY <1>1 DEF WaitDone, Inv, Status
  <2> QED BY <2>1, ReturnKeeps DEF Inv, Driver
<1>2. CASE description # Never
  <2>1. /\ pc = "wait" /\ eng.idle /\ UNCHANGED <<eng, ch, owed, description>>
        /\ pc' = "ready" /\ call' = <<>> /\ k' = 1 /\ last' = "waited"
    BY <1>2 DEF WaitDone, Return, engine
  <2>2. Registers' /\ Driver' /\ Status'
    BY <2>1 DEF Inv, Registers, Driver, Status
  <2>3. Waited'
    BY <2>1, IdleMeansDone DEF Waited
  <2>4. ChannelsOK'
    BY <2>1, ExpectsNothing, ChannelsStay, BusyEnabled DEF Inv
  <2> QED BY <2>1, <2>2, <2>3, <2>4, CallEnds DEF Inv
<1> QED BY <1>1, <1>2

LEMMA StartedKeeps == ASSUME Inv, Started PROVE Inv'
<1>1. /\ pc = "start" /\ ~eng.halted /\ pc' = "phase2" /\ k' = 1
      /\ UNCHANGED <<eng, ch, owed, call, description, last>>
  BY DEF Started, engine
<1>2. Len(call) \in Nat /\ DOMAIN call = 1 .. Len(call)
  BY CallFacts DEF Inv
<1>3. Registers' /\ Driver' /\ Status' /\ Waited'
  BY <1>1, <1>2 DEF Inv, Registers, Driver, Status, Waited
<1>4. ASSUME NEW i \in DOMAIN call
      PROVE  /\ Prepared(i)' <=> Prepared(i)
             /\ Waits(i)' <=> Waits(i)
             /\ Owing(i)' <=> Owing(i)
  BY <1>1, <1>2 DEF Prepared, Waits, Owing
<1>5. Call'
  BY <1>1, <1>4 DEF Inv, Call, Slot
<1>6. \A c : Expects(c)' <=> Expects(c)
  BY <1>1, <1>2 DEF Expects, Owing
<1>7. ChannelsOK'
  BY <1>1, <1>6 DEF Inv, ChannelsOK, Busy, NotBusy
<1> QED BY <1>3, <1>5, <1>7 DEF Inv

LEMMA ChannelDoneKeeps == ASSUME Inv, ChannelDone PROVE Inv'
<1>1. /\ pc = "channel" /\ k \in Channels /\ UNCHANGED <<eng, owed, description>>
      /\ ch' = [ch EXCEPT ![k].started = FALSE]
      /\ pc' = "ready" /\ call' = <<>> /\ k' = 1 /\ last' = "channel"
  BY DEF ChannelDone, Return, Inv, Driver
<1>2. \A c \in Channels : /\ ch'[c].busy = ch[c].busy /\ ch'[c].idle = ch[c].idle
                          /\ ch'[c].descr = ch[c].descr /\ ch'[c].at = ch[c].at
  BY <1>1 DEF Inv, Registers
<1>3. Registers'
  BY <1>1 DEF Inv, Registers
<1>4. Driver' /\ Status' /\ Waited'
  BY <1>1 DEF Inv, Driver, Status, Waited
<1>5. ASSUME NEW c \in Channels PROVE (ch'[c].busy => Busy(c)') /\ (~ch'[c].busy => NotBusy(c)')
  <2>1. ~Expects(c)
    BY <1>1, ExpectsNothing DEF Inv
  <2>2. ASSUME ch'[c].busy PROVE Busy(c)'
    BY <1>1, <1>2, <2>2 DEF Inv, ChannelsOK, Busy
  <2>3. ASSUME ~ch'[c].busy PROVE NotBusy(c)'
    BY <1>1, <1>2, <2>1, <2>3 DEF Inv, ChannelsOK, NotBusy
  <2> QED BY <2>2, <2>3
<1>6. ChannelsOK'
  BY <1>5 DEF ChannelsOK
<1> QED BY <1>1, <1>3, <1>4, <1>6, CallEnds DEF Inv

LEMMA start_transfer_phase_1Keeps == ASSUME Inv, start_transfer_phase_1 PROVE Inv'
<1> DEFINE c == call[k].channel_id
<1>1. pc = "phase1" /\ k <= Len(call) /\ ~eng.reset /\ UNCHANGED <<eng, owed, description>>
  BY DEF start_transfer_phase_1, Inv, Status
<1>2. k \in DOMAIN call /\ call[k] \in Items /\ Len(call) \in Nat /\ DOMAIN call = 1 .. Len(call)
      /\ \A i \in DOMAIN call : i # k => call[i].channel_id # c
  BY <1>1, CallFacts DEF Inv, Driver
<1>3. CASE c \notin Channels \/ ~ch[c].idle
  <2>1. Return("raised") /\ UNCHANGED engine
    BY <1>1, <1>3 DEF start_transfer_phase_1, engine
  <2> QED BY <1>1, <2>1, ReturnKeeps DEF Inv, Driver
<1>4. CASE c \in Channels /\ ch[c].idle
  <2>1. /\ ch' = [ch EXCEPT ![c].started = FALSE, ![c].at = 1,
                            ![c].descr = construct_descriptors(call[k])]
        /\ k' = k + 1 /\ UNCHANGED <<pc, last, call>>
    BY <1>4 DEF start_transfer_phase_1
  <2>2. ~ch[c].busy
    BY <1>4 DEF Inv, ChannelsOK, Busy
  <2>3. construct_descriptors(call[k]) \in Rings
    BY <1>2 DEF Rings
  <2>4. /\ ch'[c] \in [idle : BOOLEAN, busy : BOOLEAN, descr : Rings, at : Nat, started : BOOLEAN]
        /\ ch'[c].busy = FALSE /\ ch'[c].idle = TRUE /\ ch'[c].at = 1
        /\ ch'[c].descr = construct_descriptors(call[k])
    BY <1>4, <2>1, <2>2, <2>3 DEF Inv, Registers
  <2>5. \A e \in Channels : e # c => ch'[e] = ch[e]
    BY <2>1 DEF Inv, Registers
  <2>6. Registers'
    <3>1. ch' \in [Channels -> [idle : BOOLEAN, busy : BOOLEAN, descr : Rings, at : Nat,
                                started : BOOLEAN]]
      BY <2>1, <2>4, <2>5 DEF Inv, Registers
    <3> QED BY <1>1, <3>1, SMTT(30) DEF Inv, Registers
  <2>7. Driver' /\ Status' /\ Waited'
    BY <1>1, <1>2, <2>1 DEF Inv, Driver, Status, Waited
  <2> HIDE DEF c
  <2>8. Call'
    <3> SUFFICES ASSUME NEW i \in DOMAIN call PROVE Slot(i)'
      BY <2>1 DEF Call
    <3>1. Slot(i) /\ ~Owing(i)' /\ call'[i] = call[i]
      BY <1>1, <2>1 DEF Inv, Call, Owing
    <3>2. (Prepared(i)' <=> i <= k) /\ (Waits(i)' <=> i <= k)
      BY <1>1, <1>2, <2>1 DEF Prepared, Waits
    <3>3. CASE i = k
      BY <1>4, <2>4, <3>1, <3>3 DEF Slot, c
    <3>4. CASE i # k
      <4>1. (i <= k => Prepared(i) /\ Waits(i)) /\ call[i].channel_id # c
        BY <1>1, <1>2, <3>4 DEF Prepared, Waits
      <4> QED BY <2>5, <3>1, <3>2, <4>1 DEF Slot
    <3> QED BY <3>3, <3>4
  <2>9. ChannelsOK'
    <3> SUFFICES ASSUME NEW e \in Channels
                 PROVE  (ch'[e].busy => Busy(e)') /\ (~ch'[e].busy => NotBusy(e)')
      BY DEF ChannelsOK
    <3>1. ~Expects(e)
      BY <1>1, ExpectsNothing DEF Inv
    <3>2. ASSUME ch'[e].busy PROVE Busy(e)'
      <4>1. e # c /\ ch'[e] = ch[e] /\ Busy(e)
        BY <2>4, <2>5, <3>2 DEF Inv, ChannelsOK
      <4> QED BY <1>1, <4>1 DEF Busy
    <3>3. ASSUME ~ch'[e].busy PROVE NotBusy(e)'
      <4>1. ch'[e].idle = ch[e].idle /\ ~ch[e].busy
        BY <1>4, <2>2, <2>4, <2>5, <3>3
      <4> QED BY <1>1, <3>1, <4>1 DEF Inv, ChannelsOK, NotBusy
    <3> QED BY <3>2, <3>3
  <2> QED BY <2>6, <2>7, <2>8, <2>9 DEF Inv
<1> QED BY <1>3, <1>4

LEMMA startKeeps == ASSUME Inv, start PROVE Inv'
<1>1. /\ pc = "phase1" /\ k > Len(call) /\ pc' = "start"
      /\ eng' = [eng EXCEPT !.rs = TRUE]
      /\ owed' = [c \in Channels |->
                   owed[c] \cup UNION {Asked(d) : d \in {e \in Range(call) : e.channel_id = c}}]
      /\ UNCHANGED <<ch, call, k, description, last>>
  BY DEF start
<1>2. /\ Len(call) \in Nat /\ DOMAIN call = 1 .. Len(call) /\ \A i \in DOMAIN call : call[i] \in Items
      /\ \A i, j \in DOMAIN call : call[i].channel_id = call[j].channel_id => i = j
      /\ k \in Nat /\ call \in Descriptions
  BY <1>1, CallFacts DEF Inv, Driver
<1>3. /\ eng'.halted = eng.halted /\ eng'.idle = eng.idle /\ eng'.error = eng.error
      /\ eng'.enabled = eng.enabled /\ eng'.reset = eng.reset /\ eng'.rs = TRUE
  BY <1>1 DEF Inv, Registers
<1>4. ASSUME NEW i \in DOMAIN call
      PROVE  /\ Slot(i) /\ Prepared(i) /\ Waits(i) /\ call[i].channel_id \in Channels
             /\ LengthsFit => owed'[call[i].channel_id] = Asked(call[i])
             /\ owed'[call[i].channel_id] \subseteq owed[call[i].channel_id] \cup Asked(call[i])
  <2> DEFINE c == call[i].channel_id
  <2>1. Slot(i) /\ Prepared(i) /\ Waits(i)
    BY <1>1, <1>2 DEF Inv, Call, Prepared, Waits
  <2>2. c \in Channels /\ ch[c].idle /\ ~ch[c].busy
    BY <2>1 DEF Slot
  <2>3. LengthsFit => owed[c] = {}
    BY <1>1, <2>2, ExpectsNothing DEF Inv, ChannelsOK, NotBusy
  <2>4. {e \in Range(call) : e.channel_id = c} = {call[i]}
    BY <1>2 DEF Range
  <2>5. owed'[c] = owed[c] \cup UNION {Asked(d) : d \in {call[i]}}
    BY <1>1, <2>2, <2>4
  <2> QED BY <2>1, <2>2, <2>3, <2>5
<1>5. ASSUME NEW c \in Channels, \A i \in DOMAIN call : call[i].channel_id # c
      PROVE  owed'[c] = owed[c]
  <2>1. {e \in Range(call) : e.channel_id = c} = {}
    BY <1>5 DEF Range
  <2> QED BY <1>1, <2>1
<1>6. Registers'
  <2>1. ASSUME NEW i \in DOMAIN call PROVE Asked(call[i]) \subseteq 0 .. ArrayBytes - 1
    <3>1. call[i] \in Items /\ num_descr(call[i]) \in Nat /\ num_descr(call[i]) > 0
      BY <1>2, Ring
    <3>2. 1 \in 1 .. num_descr(call[i])
      BY <3>1
    <3> QED BY <3>1, <3>2, RemainingBytes
  <2>2. ASSUME NEW c \in Channels PROVE owed'[c] \subseteq 0 .. ArrayBytes - 1
    <3>1. CASE \E i \in DOMAIN call : call[i].channel_id = c
      BY <1>4, <2>1, <3>1 DEF Inv, Registers
    <3>2. CASE \A i \in DOMAIN call : call[i].channel_id # c
      BY <1>5, <3>2 DEF Inv, Registers
    <3> QED BY <3>1, <3>2
  <2>3. owed' \in [Channels -> SUBSET (0 .. ArrayBytes - 1)]
    BY <1>1, <2>2
  <2> QED BY <1>1, <2>3 DEF Inv, Registers
<1>7. Driver' /\ Status' /\ Waited'
  BY <1>1, <1>2, <1>3 DEF Inv, Driver, Status, Waited
<1>8. Call'
  <2> SUFFICES ASSUME NEW i \in DOMAIN call PROVE Slot(i)'
    BY <1>1 DEF Call
  <2> QED BY <1>1, <1>4 DEF Slot
<1>9. ChannelsOK'
  <2> SUFFICES ASSUME NEW c \in Channels
               PROVE  (ch[c].busy => Busy(c)') /\ (~ch[c].busy => NotBusy(c)')
    BY <1>1 DEF ChannelsOK
  <2>1. ASSUME ch[c].busy PROVE Busy(c)'
    <3>1. \A i \in DOMAIN call : call[i].channel_id # c
      BY <1>4, <2>1 DEF Slot
    <3>2. owed'[c] = owed[c] /\ Busy(c)
      BY <1>5, <2>1, <3>1 DEF Inv, ChannelsOK
    <3> QED BY <1>1, <1>3, <3>2 DEF Busy
  <2>2. ASSUME ~ch[c].busy PROVE NotBusy(c)'
    <3>1. CASE \E i \in DOMAIN call : call[i].channel_id = c
      BY <1>1, <3>1 DEF NotBusy, Expects, Owing
    <3>2. CASE \A i \in DOMAIN call : call[i].channel_id # c
      <4>1. owed'[c] = owed[c] /\ NotBusy(c) /\ ~Expects(c)
        BY <1>1, <1>5, <2>2, <3>2, ExpectsNothing DEF Inv, ChannelsOK
      <4> QED BY <1>1, <1>3, <4>1 DEF NotBusy
    <3> QED BY <3>1, <3>2
  <2> QED BY <2>1, <2>2
<1> QED BY <1>6, <1>7, <1>8, <1>9 DEF Inv

LEMMA start_transfer_phase_2Keeps == ASSUME Inv, start_transfer_phase_2 PROVE Inv'
<1> DEFINE c == call[k].channel_id
<1>1. pc = "phase2" /\ ~eng.reset /\ Len(call) \in Nat /\ DOMAIN call = 1 .. Len(call) /\ k \in Nat
      /\ k >= 1 /\ call \in Descriptions
  BY CallFacts DEF start_transfer_phase_2, Inv, Driver, Status
<1>2. CASE k > Len(call)
  <2>1. Return("transferred") /\ UNCHANGED engine /\ description' = call
    BY <1>2 DEF start_transfer_phase_2
  <2> QED BY <1>1, <1>2, <2>1, ReturnKeeps
<1>3. CASE k <= Len(call)
  <2>1. /\ ch' = [ch EXCEPT ![c].started = TRUE, ![c].busy = TRUE, ![c].idle = FALSE]
        /\ eng' = [eng EXCEPT !.idle = FALSE]
        /\ k' = k + 1 /\ UNCHANGED <<owed, pc, call, description, last>>
    BY <1>1, <1>3 DEF start_transfer_phase_2
  <2>2. /\ k \in DOMAIN call /\ call[k] \in Items
        /\ \A i \in DOMAIN call : i # k => call[i].channel_id # c
    BY <1>1, <1>3, CallFacts DEF Inv
  <2>3. Slot(k) /\ Prepared(k) /\ Waits(k) /\ Owing(k)
    BY <1>1, <2>2 DEF Inv, Call, Prepared, Waits, Owing
  <2>4. /\ c \in Channels /\ ch[c].descr = construct_descriptors(call[k])
        /\ ~ch[c].busy /\ ch[c].at = 1 /\ (LengthsFit => owed[c] = Asked(call[k]))
    BY <2>3 DEF Slot
  <2>5. /\ ch'[c] \in [idle : BOOLEAN, busy : BOOLEAN, descr : Rings, at : Nat, started : BOOLEAN]
        /\ ch'[c].busy = TRUE /\ ch'[c].idle = FALSE /\ ch'[c].at = ch[c].at
        /\ ch'[c].descr = ch[c].descr
    BY <2>1, <2>4 DEF Inv, Registers
  <2>6. \A e \in Channels : e # c => ch'[e] = ch[e]
    BY <2>1 DEF Inv, Registers
  <2>7. /\ eng'.rs = eng.rs /\ eng'.reset = eng.reset /\ eng'.halted = eng.halted
        /\ eng'.error = eng.error /\ eng'.enabled = eng.enabled /\ eng'.idle = FALSE
    BY <2>1, SMTT(30) DEF Inv, Registers
  <2>8. Registers'
    <3>1. ch' \in [Channels -> [idle : BOOLEAN, busy : BOOLEAN, descr : Rings, at : Nat,
                                started : BOOLEAN]]
      BY <2>1, <2>5, <2>6 DEF Inv, Registers
    <3> QED BY <2>1, <3>1 DEF Inv, Registers
  <2>9. Driver' /\ Status' /\ Waited'
    BY <1>1, <1>3, <2>1, <2>7 DEF Inv, Driver, Status, Waited
  <2> HIDE DEF c
  <2>10. Call'
    <3> SUFFICES ASSUME NEW i \in DOMAIN call PROVE Slot(i)'
      BY <2>1 DEF Call
    <3>1. Slot(i) /\ call'[i] = call[i] /\ Prepared(i)
      BY <1>1, <2>1 DEF Inv, Call, Prepared
    <3>2. (Waits(i)' => i > k) /\ (Owing(i)' => i > k)
      BY <1>1, <2>1 DEF Waits, Owing
    <3>3. CASE i = k
      BY <1>1, <2>4, <2>5, <3>1, <3>2, <3>3 DEF Slot, c
    <3>4. CASE i # k
      <4>1. (i > k => Waits(i) /\ Owing(i)) /\ call[i].channel_id # c
        BY <1>1, <2>2, <3>4 DEF Waits, Owing
      <4> QED BY <2>1, <2>6, <3>1, <3>2, <4>1 DEF Slot
    <3> QED BY <3>3, <3>4
  <2>11. ChannelsOK'
    <3> SUFFICES ASSUME NEW e \in Channels
                 PROVE  (ch'[e].busy => Busy(e)') /\ (~ch'[e].busy => NotBusy(e)')
      BY DEF ChannelsOK
    <3>1. CASE e = c
      <4>1. ch'[c].descr = construct_descriptors(call[k]) /\ ch'[c].at = 1
        BY <2>4, <2>5
      <4>2. 1 \in 1 .. num_descr(call[k]) /\ (LengthsFit => owed'[c] = Remaining(call[k], 1))
        BY <2>1, <2>2, <2>4, Ring, RemainingBytes
      <4>3. eng'.error \/ (c \in eng'.enabled /\ ~eng'.idle /\ ~eng'.halted)
        BY <1>1, <2>2, <2>7 DEF Inv, Status, Driver, Ids, c
      <4>4. /\ ~ch'[e].idle /\ ch'[e].descr = construct_descriptors(call[k])
            /\ ch'[e].at = 1 /\ (LengthsFit => owed'[e] = Remaining(call[k], 1))
            /\ eng'.error \/ (e \in eng'.enabled /\ ~eng'.idle /\ ~eng'.halted)
        BY <2>5, <3>1, <4>1, <4>2, <4>3
      <4>5. Busy(e)'
        BY <2>2, <4>2, <4>4 DEF Busy
      <4> QED BY <2>5, <3>1, <4>5
    <3>2. CASE e # c
      <4>1. ch'[e] = ch[e] /\ owed'[e] = owed[e]
        BY <2>1, <2>6, <3>2
      <4>2. ASSUME ch'[e].busy PROVE Busy(e)'
        BY <2>7, <4>1, <4>2 DEF Inv, ChannelsOK, Busy
      <4>3. Expects(e) => Expects(e)'
        <5> SUFFICES ASSUME NEW i \in DOMAIN call, Owing(i), call[i].channel_id = e
                     PROVE  Expects(e)'
          BY DEF Expects
        <5>1. i # k
          BY <3>2 DEF c
        <5>2. Owing(i)'
          BY <1>1, <2>1, <5>1 DEF Owing
        <5> QED BY <2>1, <5>2 DEF Expects
      <4>4. ASSUME ~ch'[e].busy PROVE NotBusy(e)'
        BY <2>7, <4>1, <4>3, <4>4 DEF Inv, ChannelsOK, NotBusy
      <4> QED BY <4>2, <4>4
    <3> QED BY <3>1, <3>2
  <2> QED BY <2>8, <2>9, <2>10, <2>11 DEF Inv
<1> QED BY <1>1, <1>2, <1>3
-----------------------------------------------------------------------------
LEMMA NextKeeps == Inv /\ [Next]_vars => Inv'
<1> SUFFICES ASSUME Inv, [Next]_vars PROVE Inv'
  OBVIOUS
<1>1. CASE Engine
  BY <1>1, EngineResetKeeps, EngineRunKeeps, EngineHaltKeeps, EngineMoveKeeps DEF Engine
<1>2. CASE \E c \in Channels : EngineFail(c)
  BY <1>2, EngineFailKeeps
<1>3. CASE Calls
  BY <1>3, resetKeeps, stopKeeps, start_transferKeeps, waitKeeps, channel_waitKeeps DEF Calls
<1>4. CASE Steps
  BY <1>4, ResetDoneKeeps, StoppedKeeps, start_transfer_phase_1Keeps, startKeeps, StartedKeeps,
     start_transfer_phase_2Keeps, WaitDoneKeeps, ChannelDoneKeeps DEF Steps
<1>5. CASE UNCHANGED vars
  <2>1. UNCHANGED driver /\ UNCHANGED <<eng, ch, owed>>
    BY <1>5 DEF vars, driver
  <2>2. Registers' /\ Driver' /\ Status' /\ Waited'
    BY <2>1 DEF Inv, Registers, Driver, Status, Waited, driver
  <2>3. Call'
    BY <2>1, SlotsStay DEF Inv, Call, Slot
  <2>4. ChannelsOK'
    BY <2>1, ExpectsStay DEF Inv, ChannelsOK, Busy, NotBusy
  <2> QED BY <2>2, <2>3, <2>4 DEF Inv
<1> QED BY <1>1, <1>2, <1>3, <1>4, <1>5 DEF Next

LEMMA SpecInv == Spec => []Inv
<1>1. Init => Inv
  BY InitInv
<1> QED BY <1>1, NextKeeps, PTL DEF Spec

(***************************************************************************)
(* Whatever the engine does between two accesses of the driver, a busy     *)
(* channel points into its ring, nothing outside the array is asked for,   *)
(* and the driver is within its description.                               *)
(***************************************************************************)
THEOREM DriverTypes == Spec => []TypeOK
<1>1. Inv => TypeOK
  <2> SUFFICES ASSUME Inv PROVE TypeOK
    OBVIOUS
  <2>1. {d.channel_id : d \in Items}
          = UNION {{d[i].channel_id : i \in DOMAIN d} : d \in Descriptions}
    BY DEF Items
  <2>2. eng.enabled \subseteq UNION {{d[i].channel_id : i \in DOMAIN d} : d \in Descriptions}
    BY <2>1 DEF Inv, Registers
  <2>3. ASSUME NEW c \in Channels, ch[c].busy PROVE ch[c].at \in DOMAIN ch[c].descr
    BY <2>3, Ring DEF Inv, ChannelsOK, Busy
  <2>4. \A c \in Channels : owed[c] \subseteq 0 .. ArrayBytes - 1
    BY DEF Inv, Registers
  <2>5. k \in 0 .. 1 + Len(call) \/ pc = "channel"
    BY CallFacts DEF Inv, Driver
  <2> QED BY <2>2, <2>3, <2>4, <2>5 DEF TypeOK, Inv, Driver
<1> QED BY <1>1, SpecInv, PTL

(***************************************************************************)
(* The descriptors a busy channel has left are what is left of its         *)
(* transfer, each byte once, for every array, start, length and block size *)
(* whose lengths fit their field (_construct_descriptors).                 *)
(***************************************************************************)
THEOREM DescriptorsTileTheTransfer == Spec => []DescriptorsTile
<1>1. Inv => DescriptorsTile
  <2> SUFFICES ASSUME Inv, LengthsFit, NEW c \in Channels, ch[c].busy
               PROVE  LET left == {i \in DOMAIN ch[c].descr : i >= ch[c].at}
                      IN  /\ UNION {Bytes(ch[c].descr[i]) : i \in left} = owed[c]
                          /\ \A i, j \in left :
                               i # j => Bytes(ch[c].descr[i]) \cap Bytes(ch[c].descr[j]) = {}
    BY DEF DescriptorsTile
  <2>1. PICK d \in Items : /\ ch[c].descr = construct_descriptors(d)
                           /\ ch[c].at \in 1 .. num_descr(d)
                           /\ owed[c] = Remaining(d, ch[c].at)
    BY DEF Inv, ChannelsOK, Busy
  <2> QED BY <2>1, Tile
<1> QED BY <1>1, SpecInv, PTL

(***************************************************************************)
(* Where they do not fit: when a full block is as long as the length field *)
(* is wide, which a c_sg_length_width of 26 and an alignment that is a     *)
(* power of two make it, every descriptor of a transfer but the last says  *)
(* that there is nothing to move (create_tx_control, create_rx_control).   *)
(***************************************************************************)
THEOREM FullBlocksVanish ==
  ASSUME blk_size = 2 ^ LengthBits, NEW d \in Items, NEW i \in 1 .. num_descr(d) - 1
  PROVE  construct_descriptors(d)[i].len = 0 /\ Bytes(construct_descriptors(d)[i]) = {}
<1> DEFINE bd == construct_descriptors(d)[i]
<1>1. i \in 1 .. num_descr(d) /\ i < num_descr(d) /\ d.start \in Nat /\ i - 1 \in Nat
  BY Ring, ItemFacts
<1>2. bd.addr = d.start + (i - 1) * blk_size /\ bd.len = create_control(blk_size)
  BY <1>1, Ring
<1>3. create_control(blk_size) = 0
  BY BlockSize DEF create_control
<1>4. bd.addr \in Nat
  BY <1>1, <1>2, BlockSize, TimesUp
<1> HIDE DEF bd
<1> QED BY <1>2, <1>3, <1>4 DEF Bytes, bd

(***************************************************************************)
(* wait() of _SGDMAControl returns only when every byte of every transfer  *)
(* that was not refused, stopped or reset has been moved, when the lengths *)
(* fit their field.                                                        *)
(***************************************************************************)
THEOREM WaitedMeansMoved == Spec => []WaitMeansDone
<1>1. Inv => WaitMeansDone
  BY DEF Inv, Waited, WaitMeansDone
<1> QED BY <1>1, SpecInv, PTL

(***************************************************************************)
(* No tail pointer is written before every channel of the call has its     *)
(* descriptors: a start_transfer that raises has started nothing.          *)
(***************************************************************************)
THEOREM AllOrNothingStarted == Spec => RefusedStartsNothing
<1> DEFINE Act == \A c \in Channels : ~ch[c].busy /\ ch'[c].busy =>
                    \A i \in DOMAIN call :
                      /\ call[i].channel_id \in Channels
                      /\ ch[call[i].channel_id].descr = construct_descriptors(call[i])
<1>1. Inv /\ [Next]_vars => [Act]_vars
  <2> SUFFICES ASSUME Inv, Next, NEW c \in Channels, ~ch[c].busy, ch'[c].busy,
                      NEW i \in DOMAIN call
               PROVE  /\ call[i].channel_id \in Channels
                      /\ ch[call[i].channel_id].descr = construct_descriptors(call[i])
    OBVIOUS
  <2>1. start_transfer_phase_2
    <3>1. ~EngineReset /\ ~EngineRun /\ ~EngineHalt
      <4>1. ch[c] \in [idle : BOOLEAN, busy : BOOLEAN, descr : Rings, at : Nat, started : BOOLEAN]
        BY DEF Inv, Registers
      <4>2. EngineReset => ~ch'[c].busy
        BY <4>1 DEF EngineReset, Fresh
      <4>3. EngineRun => ~ch'[c].busy
        BY DEF EngineRun
      <4>4. EngineHalt => ~ch'[c].busy
        BY <4>1 DEF EngineHalt
      <4> QED BY <4>2, <4>3, <4>4
    <3>2. ASSUME NEW e \in Channels PROVE ~EngineMove(e) /\ ~EngineFail(e)
      <4>1. ch[c] \in [idle : BOOLEAN, busy : BOOLEAN, descr : Rings, at : Nat, started : BOOLEAN]
            /\ DOMAIN ch = Channels
        BY DEF Inv, Registers
      <4>2. EngineMove(e) => e # c
        BY DEF EngineMove, Working
      <4>3. EngineMove(e) => ch'[c] = ch[c]
        BY <4>1, <4>2 DEF EngineMove
      <4>4. EngineFail(e) => ~ch'[c].busy
        BY <4>1 DEF EngineFail
      <4> QED BY <4>3, <4>4
    <3>3. ~Calls
      BY DEF Calls, reset, stop, start_transfer, wait, channel_wait, engine
    <3>4. ~start_transfer_phase_1 /\ ~ChannelDone
      <4>1. ch[c] \in [idle : BOOLEAN, busy : BOOLEAN, descr : Rings, at : Nat, started : BOOLEAN]
            /\ DOMAIN ch = Channels
        BY DEF Inv, Registers
      <4>2. start_transfer_phase_1 => ch'[c].busy = ch[c].busy
        BY <4>1 DEF start_transfer_phase_1
      <4>3. ChannelDone => ch'[c].busy = ch[c].busy
        BY <4>1 DEF ChannelDone
      <4> QED BY <4>2, <4>3
    <3>5. ~ResetDone /\ ~Stopped /\ ~start /\ ~Started /\ ~WaitDone
      BY DEF ResetDone, Stopped, start, Started, WaitDone, engine
    <3> QED BY <3>1, <3>2, <3>3, <3>4, <3>5 DEF Next, Engine, Steps
  <2>2. pc = "phase2"
    BY <2>1 DEF start_transfer_phase_2
  <2>3. Slot(i) /\ Prepared(i)
    BY <2>2 DEF Inv, Call, Prepared
  <2> QED BY <2>3 DEF Slot
<1> QED BY <1>1, SpecInv, PTL DEF Spec, RefusedStartsNothing
=============================================================================
