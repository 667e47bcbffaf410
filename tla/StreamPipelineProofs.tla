------------------------ MODULE StreamPipelineProofs ------------------------
(***************************************************************************)
(* A network of stream modules loses, repeats and reorders nothing, for    *)
(* any number of stages of any kind and depth, with or without a splitter. *)
(*                                                                         *)
(* The signals of a network and its contents are recursive functions over  *)
(* the stages.  Their equations, and what follows from them, are proved by *)
(* induction along the pipeline, which rests on the least element of a set *)
(* of natural numbers.                                                     *)
(***************************************************************************)
EXTENDS StreamPipeline, SequenceTheorems, WellFoundedInduction, TLAPS

(***************************************************************************)
(* A set of natural numbers that is not empty has a least element.         *)
(***************************************************************************)
LEMMA LeastNat ==
  ASSUME NEW T, T \subseteq Nat, T # {}
  PROVE  \E n \in T : \A m \in T : n <= m
<1>1. PICK n \in T : \A m \in T : <<m, n>> \notin OpToRel(<, Nat)
  BY NatLessThanWellFounded, WFMin
<1>2. \A m \in T : ~(m < n)
  BY <1>1 DEF OpToRel
<1> QED BY <1>2

(***************************************************************************)
(* Induction along the streams 0 to n, for what holds on the set S.        *)
(***************************************************************************)
LEMMA UpInduction ==
  ASSUME NEW n \in Nat, NEW S, 0 \in S, \A k \in 1 .. n : k - 1 \in S => k \in S
  PROVE  \A k \in 0 .. n : k \in S
<1> DEFINE T == {k \in 0 .. n : k \notin S}
<1> SUFFICES ASSUME T # {} PROVE FALSE
  OBVIOUS
<1>1. T \subseteq Nat
  OBVIOUS
<1>2. PICK k \in T : \A m \in T : k <= m
  BY <1>1, LeastNat, Zenon
<1>3. k \in 1 .. n /\ k - 1 \in 0 .. n /\ k - 1 < k
  BY <1>2
<1>4. k - 1 \notin T
  BY <1>2, <1>3
<1> QED BY <1>2, <1>3, <1>4

(***************************************************************************)
(* The same from the last stream back to the first.                        *)
(***************************************************************************)
LEMMA DownInduction ==
  ASSUME NEW n \in Nat, NEW S, n \in S, \A k \in 1 .. n : k \in S => k - 1 \in S
  PROVE  \A k \in 0 .. n : k \in S
<1> DEFINE R == {k \in 0 .. n : n - k \in S}
<1>1. 0 \in R
  OBVIOUS
<1>2. ASSUME NEW k \in 1 .. n, k - 1 \in R PROVE k \in R
  <2>1. n - (k - 1) \in S /\ n - (k - 1) \in 1 .. n /\ (n - (k - 1)) - 1 = n - k
    BY <1>2
  <2>2. n - k \in S
    BY <2>1
  <2> QED BY <2>2
<1> HIDE DEF R
<1>3. \A k \in 0 .. n : k \in R
  BY <1>1, <1>2, UpInduction
<1> USE DEF R
<1>4. ASSUME NEW k \in 0 .. n PROVE k \in S
  <2>1. n - k \in R
    BY <1>3
  <2>2. n - (n - k) = k
    OBVIOUS
  <2> QED BY <2>1, <2>2
<1> QED BY <1>4

(***************************************************************************)
(* Each stage making a value of X from the one before, there is a function *)
(* of all of the values, from the front or from the back.                  *)
(***************************************************************************)
UpSolution(f, n, base, step) == f[0] = base /\ \A k \in 1 .. n : f[k] = step[k][f[k - 1]]

LEMMA UpRecursion ==
  ASSUME NEW n \in Nat, NEW X, NEW base \in X, NEW step \in [1 .. n -> [X -> X]]
  PROVE  \E f \in [0 .. n -> X] : UpSolution(f, n, base, step)
<1> DEFINE Sol(f, m) == UpSolution(f, m, base, step)
           S == {m \in 0 .. n : \E f \in [0 .. m -> X] : Sol(f, m)}
<1>1. 0 \in S
  <2> DEFINE g == [k \in 0 .. 0 |-> base]
  <2>1. g \in [0 .. 0 -> X] /\ Sol(g, 0)
    BY DEF UpSolution
  <2>2. 0 \in 0 .. n
    OBVIOUS
  <2> HIDE DEF g, Sol
  <2> QED BY <2>1, <2>2, Zenon
<1>2. ASSUME NEW m \in 1 .. n, m - 1 \in S PROVE m \in S
  <2>1. PICK f \in [0 .. m - 1 -> X] : Sol(f, m - 1)
    BY <1>2
  <2> DEFINE g == [k \in 0 .. m |-> IF k = m THEN step[m][f[m - 1]] ELSE f[k]]
  <2>2. m - 1 \in 0 .. m - 1 /\ f[m - 1] \in X /\ step[m][f[m - 1]] \in X
    OBVIOUS
  <2>3. g \in [0 .. m -> X]
    BY <2>2
  <2>4. g[0] = base
    BY <2>1 DEF UpSolution
  <2>5. ASSUME NEW k \in 1 .. m PROVE g[k] = step[k][g[k - 1]]
    <3>1. CASE k = m
      BY <3>1
    <3>2. CASE k # m
      <4>1. k \in 1 .. m - 1 /\ k - 1 # m /\ k - 1 \in 0 .. m
        BY <3>2
      <4>2. g[k] = f[k] /\ g[k - 1] = f[k - 1]
        BY <4>1, <3>2
      <4> QED BY <4>1, <4>2, <2>1 DEF UpSolution
    <3> QED BY <3>1, <3>2
  <2>6. Sol(g, m)
    BY <2>4, <2>5 DEF UpSolution
  <2>7. m \in 0 .. n
    OBVIOUS
  <2> HIDE DEF g, Sol
  <2> QED BY <2>3, <2>6, <2>7, Zenon
<1>3. n \in S
  <2> HIDE DEF S
  <2>1. \A k \in 0 .. n : k \in S
    BY <1>1, <1>2, UpInduction
  <2> QED BY <2>1
<1> QED BY <1>3, Zenon

DownSolution(f, n, base, step) == f[n] = base /\ \A k \in 1 .. n : f[k - 1] = step[k][f[k]]

LEMMA DownRecursion ==
  ASSUME NEW n \in Nat, NEW X, NEW base \in X, NEW step \in [1 .. n -> [X -> X]]
  PROVE  \E f \in [0 .. n -> X] : DownSolution(f, n, base, step)
<1> DEFINE back == [j \in 1 .. n |-> step[n + 1 - j]]
<1>1. back \in [1 .. n -> [X -> X]]
  <2>1. \A j \in 1 .. n : n + 1 - j \in 1 .. n
    OBVIOUS
  <2> QED BY <2>1
<1> HIDE DEF back
<1>2. PICK h \in [0 .. n -> X] : UpSolution(h, n, base, back)
  BY <1>1, UpRecursion, Zenon
<1> DEFINE f == [k \in 0 .. n |-> h[n - k]]
<1>3. f \in [0 .. n -> X] /\ f[n] = base
  BY <1>2 DEF UpSolution
<1>4. ASSUME NEW k \in 1 .. n PROVE f[k - 1] = step[k][f[k]]
  <2>1. n + 1 - k \in 1 .. n /\ n - (k - 1) = n + 1 - k /\ (n + 1 - k) - 1 = n - k
        /\ n + 1 - (n + 1 - k) = k
    OBVIOUS
  <2>2. f[k - 1] = h[n + 1 - k] /\ f[k] = h[n - k]
    BY <2>1
  <2>3. h[n + 1 - k] = back[n + 1 - k][h[n - k]]
    BY <1>2, <2>1 DEF UpSolution
  <2>4. back[n + 1 - k] = step[k]
    BY <2>1 DEF back
  <2> QED BY <2>2, <2>3, <2>4
<1>5. DownSolution(f, n, base, step)
  BY <1>3, <1>4 DEF DownSolution
<1> HIDE DEF f
<1> QED BY <1>3, <1>5, Zenon
-----------------------------------------------------------------------------
(***************************************************************************)
(* The types of the signals, and what the registers of a slice can hold: a *)
(* BYPASS has none, a FWD has one.                                         *)
(***************************************************************************)
Val == Nat

TypeInv ==
  /\ pipe \in Seq(StageTypes)
  /\ split \in Seq(Nat \ {0}) /\ Len(split) \in {0, 2}
  /\ held \in [Stages -> Seq(Val)]
  /\ que \in [DOMAIN split -> Seq(Val)]
  /\ valid \in BOOLEAN /\ data \in Val
  /\ ready \in [Ports -> BOOLEAN]
  /\ sent \in Seq(Val)
  /\ received \in [Ports -> Seq(Val)]

SlicesFit ==
  \A k \in Stages : /\ pipe[k].kind = "BYPASS" => held[k] = <<>>
                    /\ pipe[k].kind = "FWD" => Len(held[k]) <= 1

Inv == TypeInv /\ SlicesFit /\ NothingLost

LEMMA StageFacts ==
  ASSUME TypeInv
  PROVE  /\ Len(pipe) \in Nat /\ Stages = 1 .. Len(pipe)
         /\ \A k \in Stages : /\ pipe[k].kind \in {"BYPASS", "FWD", "QUEUE"}
                             /\ pipe[k].cap \in Nat /\ pipe[k].cap > 0
                             /\ held[k] \in Seq(Val)
         /\ split = <<>> => Ports = {1} /\ DOMAIN split = {}
         /\ split # <<>> => Ports = {1, 2} /\ DOMAIN split = {1, 2} /\ \A p \in Ports : split[p] \in Nat
<1>1. Len(pipe) \in Nat /\ Stages = 1 .. Len(pipe) /\ \A k \in Stages : pipe[k] \in StageTypes
  BY DEF TypeInv, Stages
<1>2. \A k \in Stages : /\ pipe[k].kind \in {"BYPASS", "FWD", "QUEUE"}
                        /\ pipe[k].cap \in Nat /\ pipe[k].cap > 0
                        /\ held[k] \in Seq(Val)
  BY <1>1, SMTT(30) DEF TypeInv, StageTypes
<1>3. DOMAIN split = 1 .. Len(split) /\ (split = <<>> <=> Len(split) = 0)
  BY EmptySeq DEF TypeInv
<1>4. split = <<>> => Ports = {1} /\ DOMAIN split = {}
  BY <1>3 DEF Ports
<1>5. split # <<>> => Ports = {1, 2} /\ DOMAIN split = {1, 2} /\ \A p \in Ports : split[p] \in Nat
  <2> SUFFICES ASSUME split # <<>>
               PROVE  Ports = {1, 2} /\ DOMAIN split = {1, 2} /\ \A p \in Ports : split[p] \in Nat
    OBVIOUS
  <2>1. Len(split) = 2
    BY <1>3 DEF TypeInv
  <2>2. Ports = {1, 2} /\ DOMAIN split = {1, 2}
    BY <2>1, <1>3 DEF Ports
  <2>3. \A p \in 1 .. Len(split) : split[p] \in Nat \ {0}
    BY ElementOfSeq DEF TypeInv
  <2> QED BY <2>1, <2>2, <2>3
<1> QED BY <1>1, <1>2, <1>4, <1>5

(***************************************************************************)
(* The equations of the combinational processes: their recursive           *)
(* definitions have the solutions they are meant to have.                  *)
(***************************************************************************)
LEMMA ValidEquations ==
  ASSUME TypeInv
  PROVE  /\ \A k \in Streams : valid_r[k] \in BOOLEAN
         /\ valid_r[0] = valid
         /\ \A k \in Stages : valid_r[k] = IF pipe[k].kind = "BYPASS" THEN valid_r[k - 1]
                                            ELSE held[k] # <<>>
<1> DEFINE n == Len(pipe)
           Eq(v) == v = [k \in Streams |->
                          IF k = 0 THEN valid
                          ELSE IF pipe[k].kind = "BYPASS" THEN v[k - 1] ELSE held[k] # <<>>]
           step == [k \in 1 .. n |-> [x \in BOOLEAN |->
                      IF pipe[k].kind = "BYPASS" THEN x ELSE held[k] # <<>>]]
<1>1. n \in Nat /\ Stages = 1 .. n /\ valid \in BOOLEAN
  BY StageFacts DEF TypeInv
<1>2. step \in [1 .. n -> [BOOLEAN -> BOOLEAN]]
  OBVIOUS
<1>3. PICK f \in [0 .. n -> BOOLEAN] : UpSolution(f, n, valid, step)
  <2> HIDE DEF step, n
  <2> QED BY <1>1, <1>2, UpRecursion, Zenon
<1>4. Eq(f)
  <2>1. ASSUME NEW k \in 0 .. n
        PROVE  f[k] = IF k = 0 THEN valid
                      ELSE IF pipe[k].kind = "BYPASS" THEN f[k - 1] ELSE held[k] # <<>>
    <3>1. CASE k = 0
      BY <3>1, <1>3 DEF UpSolution
    <3>2. CASE k # 0
      <4>1. k \in 1 .. n /\ k - 1 \in 0 .. n
        BY <3>2, <1>1
      <4>2. f[k] = step[k][f[k - 1]] /\ f[k - 1] \in BOOLEAN
        BY <4>1, <1>3 DEF UpSolution
      <4> QED BY <4>1, <4>2, <3>2
    <3> QED BY <3>1, <3>2
  <2> QED BY <2>1, <1>1 DEF Streams
<1>5. valid_r = CHOOSE v : Eq(v)
  BY DEF valid_r
<1>6. Eq(CHOOSE v : Eq(v))
  <2> HIDE DEF Eq
  <2> QED BY <1>4, Zenon
<1>7. Eq(valid_r)
  <2> HIDE DEF Eq
  <2> QED BY <1>5, <1>6, Zenon
<1>8. valid_r[0] = valid
  BY <1>1, <1>7 DEF Streams
<1>9. ASSUME NEW k \in Stages
      PROVE  valid_r[k] = IF pipe[k].kind = "BYPASS" THEN valid_r[k - 1] ELSE held[k] # <<>>
  <2>1. k \in Streams /\ k # 0
    BY <1>1 DEF Streams
  <2> QED BY <2>1, <1>7
<1>10. \A k \in 0 .. n : valid_r[k] \in BOOLEAN
  <2> DEFINE S == {k \in 0 .. n : valid_r[k] \in BOOLEAN}
  <2>1. 0 \in S
    BY <1>1, <1>8
  <2>2. ASSUME NEW k \in 1 .. n, k - 1 \in S PROVE k \in S
    <3>1. k \in 0 .. n /\ k \in Stages /\ valid_r[k - 1] \in BOOLEAN
      BY <2>2, <1>1
    <3>2. valid_r[k] = IF pipe[k].kind = "BYPASS" THEN valid_r[k - 1] ELSE held[k] # <<>>
      BY <3>1, <1>9
    <3> QED BY <3>1, <3>2, Zenon
  <2> HIDE DEF S
  <2>3. \A k \in 0 .. n : k \in S
    BY <1>1, <2>1, <2>2, UpInduction
  <2> QED BY <2>3 DEF S
<1> QED BY <1>8, <1>9, <1>10 DEF Streams

ContentOf(s) == IF s # <<>> THEN Head(s) ELSE 0

LEMMA ContentType == ASSUME NEW s \in Seq(Val) PROVE ContentOf(s) \in Val
BY HeadTailProperties DEF ContentOf, Val

LEMMA DataEquations ==
  ASSUME TypeInv
  PROVE  /\ \A k \in Streams : data_r[k] \in Val
         /\ data_r[0] = data
         /\ \A k \in Stages : data_r[k] = IF pipe[k].kind = "BYPASS" THEN data_r[k - 1]
                                            ELSE ContentOf(held[k])
<1> DEFINE n == Len(pipe)
           Eq(d) == d = [k \in Streams |->
                          IF k = 0 THEN data
                          ELSE IF pipe[k].kind = "BYPASS" THEN d[k - 1] ELSE ContentOf(held[k])]
           step == [k \in 1 .. n |-> [x \in Val |->
                      IF pipe[k].kind = "BYPASS" THEN x ELSE ContentOf(held[k])]]
<1>1. n \in Nat /\ Stages = 1 .. n /\ data \in Val /\ \A k \in Stages : ContentOf(held[k]) \in Val
  BY StageFacts, ContentType DEF TypeInv
<1>2. step \in [1 .. n -> [Val -> Val]]
  BY <1>1
<1>3. PICK f \in [0 .. n -> Val] : UpSolution(f, n, data, step)
  <2> HIDE DEF step, n
  <2> QED BY <1>1, <1>2, UpRecursion, Zenon
<1>4. Eq(f)
  <2>1. ASSUME NEW k \in 0 .. n
        PROVE  f[k] = IF k = 0 THEN data
                      ELSE IF pipe[k].kind = "BYPASS" THEN f[k - 1] ELSE ContentOf(held[k])
    <3>1. CASE k = 0
      BY <3>1, <1>3 DEF UpSolution
    <3>2. CASE k # 0
      <4>1. k \in 1 .. n /\ k - 1 \in 0 .. n
        BY <3>2, <1>1
      <4>2. f[k] = step[k][f[k - 1]] /\ f[k - 1] \in Val
        BY <4>1, <1>3 DEF UpSolution
      <4> QED BY <4>1, <4>2, <3>2
    <3> QED BY <3>1, <3>2
  <2> QED BY <2>1, <1>1 DEF Streams
<1>5. data_r = CHOOSE d : Eq(d)
  BY DEF data_r, ContentOf
<1>6. Eq(CHOOSE d : Eq(d))
  <2> HIDE DEF Eq
  <2> QED BY <1>4, Zenon
<1>7. Eq(data_r)
  <2> HIDE DEF Eq
  <2> QED BY <1>5, <1>6, Zenon
<1>8. data_r[0] = data
  BY <1>1, <1>7 DEF Streams
<1>9. ASSUME NEW k \in Stages
      PROVE  data_r[k] = IF pipe[k].kind = "BYPASS" THEN data_r[k - 1] ELSE ContentOf(held[k])
  <2>1. k \in Streams /\ k # 0
    BY <1>1 DEF Streams
  <2> QED BY <2>1, <1>7
<1>10. \A k \in 0 .. n : data_r[k] \in Val
  <2> DEFINE S == {k \in 0 .. n : data_r[k] \in Val}
  <2>1. 0 \in S
    BY <1>1, <1>8
  <2>2. ASSUME NEW k \in 1 .. n, k - 1 \in S PROVE k \in S
    <3>1. k \in 0 .. n /\ k \in Stages /\ data_r[k - 1] \in Val
      BY <2>2, <1>1
    <3>2. data_r[k] = IF pipe[k].kind = "BYPASS" THEN data_r[k - 1] ELSE ContentOf(held[k])
      BY <3>1, <1>9
    <3> QED BY <3>1, <3>2, <1>1
  <2> HIDE DEF S
  <2>3. \A k \in 0 .. n : k \in S
    BY <1>1, <2>1, <2>2, UpInduction
  <2> QED BY <2>3 DEF S
<1> QED BY <1>8, <1>9, <1>10 DEF Streams

LEMMA ContentEquations ==
  ASSUME TypeInv
  PROVE  /\ \A k \in Streams : InStages[k] \in Seq(Val)
         /\ InStages[0] = <<>>
         /\ \A k \in Stages : InStages[k] = held[k] \o InStages[k - 1]
<1> DEFINE n == Len(pipe)
           Eq(c) == c = [k \in Streams |->
                          IF k = 0 THEN <<>>
                          ELSE held[k] \o c[k - 1]]
           step == [k \in 1 .. n |-> [x \in Seq(Val) |->
                      held[k] \o x]]
<1>1. n \in Nat /\ Stages = 1 .. n /\ <<>> \in Seq(Val)
      /\ \A k \in Stages : \A x \in Seq(Val) : held[k] \o x \in Seq(Val)
  BY StageFacts, ConcatProperties
<1>2. step \in [1 .. n -> [Seq(Val) -> Seq(Val)]]
  BY <1>1
<1>3. PICK f \in [0 .. n -> Seq(Val)] : UpSolution(f, n, <<>>, step)
  <2> HIDE DEF step, n
  <2> QED BY <1>1, <1>2, UpRecursion, Zenon
<1>4. Eq(f)
  <2>1. ASSUME NEW k \in 0 .. n
        PROVE  f[k] = IF k = 0 THEN <<>>
                      ELSE held[k] \o f[k - 1]
    <3>1. CASE k = 0
      BY <3>1, <1>3 DEF UpSolution
    <3>2. CASE k # 0
      <4>1. k \in 1 .. n /\ k - 1 \in 0 .. n
        BY <3>2, <1>1
      <4>2. f[k] = step[k][f[k - 1]] /\ f[k - 1] \in Seq(Val)
        BY <4>1, <1>3 DEF UpSolution
      <4> QED BY <4>1, <4>2, <3>2
    <3> QED BY <3>1, <3>2
  <2> QED BY <2>1, <1>1 DEF Streams
<1>5. InStages = CHOOSE c : Eq(c)
  BY DEF InStages
<1>6. Eq(CHOOSE c : Eq(c))
  <2> HIDE DEF Eq
  <2> QED BY <1>4, Zenon
<1>7. Eq(InStages)
  <2> HIDE DEF Eq
  <2> QED BY <1>5, <1>6, Zenon
<1>8. InStages[0] = <<>>
  BY <1>1, <1>7 DEF Streams
<1>9. ASSUME NEW k \in Stages
      PROVE  InStages[k] = held[k] \o InStages[k - 1]
  <2>1. k \in Streams /\ k # 0
    BY <1>1 DEF Streams
  <2> QED BY <2>1, <1>7
<1>10. \A k \in 0 .. n : InStages[k] \in Seq(Val)
  <2> DEFINE S == {k \in 0 .. n : InStages[k] \in Seq(Val)}
  <2>1. 0 \in S
    <3>1. 0 \in 0 .. n
      BY <1>1
    <3> QED BY <3>1, <1>1, <1>8, Zenon
  <2>2. ASSUME NEW k \in 1 .. n, k - 1 \in S PROVE k \in S
    <3>1. k \in 0 .. n /\ k \in Stages /\ InStages[k - 1] \in Seq(Val)
      BY <2>2, <1>1
    <3>2. InStages[k] = held[k] \o InStages[k - 1]
      BY <3>1, <1>9
    <3> QED BY <3>1, <3>2, <1>1, Zenon
  <2> HIDE DEF S
  <2>3. \A k \in 0 .. n : k \in S
    BY <1>1, <2>1, <2>2, UpInduction
  <2> QED BY <2>3 DEF S
<1> QED BY <1>8, <1>9, <1>10 DEF Streams

(***************************************************************************)
(* Whether stage k is ready, when the stream after it is or is not.        *)
(***************************************************************************)
Through(k, after) ==
  CASE pipe[k].kind = "BYPASS" -> after
    [] pipe[k].kind = "FWD"    -> after \/ held[k] = <<>>
    [] pipe[k].kind = "QUEUE"  -> Len(held[k]) < pipe[k].cap

LEMMA ThroughType ==
  ASSUME TypeInv, NEW k \in Stages, NEW x \in BOOLEAN
  PROVE  Through(k, x) \in BOOLEAN
<1>1. pipe[k].kind \in {"BYPASS", "FWD", "QUEUE"}
  BY StageFacts
<1>2. CASE pipe[k].kind = "BYPASS"
  BY <1>2 DEF Through
<1>3. CASE pipe[k].kind = "FWD"
  BY <1>3 DEF Through
<1>4. CASE pipe[k].kind = "QUEUE"
  BY <1>4 DEF Through
<1> QED BY <1>1, <1>2, <1>3, <1>4

LEMMA EndReadyType == ASSUME TypeInv PROVE EndReady \in BOOLEAN
<1>1. CASE split = <<>>
  <2>1. ready[1] \in BOOLEAN
    BY <1>1, StageFacts DEF TypeInv
  <2> QED BY <1>1, <2>1 DEF EndReady
<1>2. CASE split # <<>>
  BY <1>2 DEF EndReady, c_ready
<1> QED BY <1>1, <1>2

LEMMA ReadyEquations ==
  ASSUME TypeInv
  PROVE  /\ \A k \in Streams : ready_r[k] \in BOOLEAN
         /\ ready_r[Len(pipe)] = EndReady
         /\ \A k \in Stages : ready_r[k - 1] = Through(k, ready_r[k])
<1> DEFINE n == Len(pipe)
           Eq(r) == r = [k \in Streams |->
                          IF k = Len(pipe) THEN EndReady ELSE Through(k + 1, r[k + 1])]
           step == [k \in 1 .. n |-> [x \in BOOLEAN |-> Through(k, x)]]
<1>1. n \in Nat /\ Stages = 1 .. n /\ EndReady \in BOOLEAN
      /\ \A k \in Stages : \A x \in BOOLEAN : Through(k, x) \in BOOLEAN
  BY StageFacts, EndReadyType, ThroughType
<1>2. step \in [1 .. n -> [BOOLEAN -> BOOLEAN]]
  BY <1>1
<1>3. PICK f \in [0 .. n -> BOOLEAN] : DownSolution(f, n, EndReady, step)
  <2> HIDE DEF step, n
  <2> QED BY <1>1, <1>2, DownRecursion, Zenon
<1>4. Eq(f)
  <2>1. ASSUME NEW k \in 0 .. n
        PROVE  f[k] = IF k = n THEN EndReady ELSE Through(k + 1, f[k + 1])
    <3>1. CASE k = n
      BY <3>1, <1>3 DEF DownSolution
    <3>2. CASE k # n
      <4>1. k + 1 \in 1 .. n /\ k + 1 \in 0 .. n /\ (k + 1) - 1 = k
        BY <3>2, <1>1
      <4>2. f[(k + 1) - 1] = step[k + 1][f[k + 1]] /\ f[k + 1] \in BOOLEAN
        BY <4>1, <1>3 DEF DownSolution
      <4>3. step[k + 1][f[k + 1]] = Through(k + 1, f[k + 1])
        BY <4>1, <4>2
      <4> QED BY <4>1, <4>2, <4>3, <3>2
    <3> QED BY <3>1, <3>2
  <2> QED BY <2>1, <1>1 DEF Streams
<1>5. ready_r = CHOOSE r : Eq(r)
  BY DEF ready_r, Through
<1>6. Eq(CHOOSE r : Eq(r))
  <2> HIDE DEF Eq
  <2> QED BY <1>4, Zenon
<1>7. Eq(ready_r)
  <2> HIDE DEF Eq
  <2> QED BY <1>5, <1>6, Zenon
<1>8. ready_r[n] = EndReady
  BY <1>1, <1>7 DEF Streams
<1>9. ASSUME NEW k \in Stages PROVE ready_r[k - 1] = Through(k, ready_r[k])
  <2>1. k - 1 \in Streams /\ k - 1 # n /\ (k - 1) + 1 = k
    BY <1>1 DEF Streams
  <2>2. ready_r[k - 1] = Through((k - 1) + 1, ready_r[(k - 1) + 1])
    BY <2>1, <1>7
  <2> QED BY <2>1, <2>2
<1>10. \A k \in 0 .. n : ready_r[k] \in BOOLEAN
  <2> DEFINE S == {k \in 0 .. n : ready_r[k] \in BOOLEAN}
  <2>1. n \in S
    BY <1>1, <1>8
  <2>2. ASSUME NEW k \in 1 .. n, k \in S PROVE k - 1 \in S
    <3>1. k - 1 \in 0 .. n /\ k \in Stages /\ ready_r[k] \in BOOLEAN
      BY <2>2, <1>1
    <3>2. ready_r[k - 1] = Through(k, ready_r[k])
      BY <3>1, <1>9
    <3> QED BY <3>1, <3>2, <1>1, Zenon
  <2> HIDE DEF S
  <2>3. \A k \in 0 .. n : k \in S
    BY <1>1, <2>1, <2>2, DownInduction
  <2> QED BY <2>3 DEF S
<1> QED BY <1>8, <1>9, <1>10 DEF Streams
-----------------------------------------------------------------------------
(***************************************************************************)
(* What passes stream k at a clock edge.                                   *)
(***************************************************************************)
Moved(k) == IF Transfer(k) THEN <<data_r[k]>> ELSE <<>>

LEMMA Associative ==
  ASSUME NEW r \in Seq(Val), NEW s \in Seq(Val), NEW t \in Seq(Val)
  PROVE  r \o (s \o t) = (r \o s) \o t
BY ConcatAssociative

\* Concatenation as a symbol of its own, for steps that only regroup.
Cat(s, t) == s \o t

LEMMA Regroup == \A r, s, t \in Seq(Val) : Cat(r, Cat(s, t)) = Cat(Cat(r, s), t)
BY Associative DEF Cat

LEMMA HeadThenTail ==
  ASSUME NEW s \in Seq(Val), s # <<>>
  PROVE  <<Head(s)>> \o Tail(s) = s
<1> DEFINE h == <<Head(s)>>
           t == Tail(s)
<1>1. /\ h \in Seq(Val) /\ Len(h) = 1 /\ h[1] = s[1]
      /\ t \in Seq(Val) /\ Len(t) = Len(s) - 1 /\ \A i \in 1 .. Len(t) : t[i] = s[i + 1]
  BY HeadTailProperties
<1>2. Len(s) \in Nat /\ Len(s) > 0
  BY EmptySeq, LenProperties
<1> HIDE DEF h, t
<1>3. /\ h \o t \in Seq(Val) /\ Len(h \o t) = Len(s)
      /\ \A i \in 1 .. Len(s) : (h \o t)[i] = IF i <= 1 THEN h[i] ELSE t[i - 1]
  <2>0. h \in Seq(Val) /\ t \in Seq(Val)
    BY <1>1
  <2>1. /\ h \o t \in Seq(Val) /\ Len(h \o t) = Len(h) + Len(t)
        /\ \A i \in 1 .. Len(h) + Len(t) : (h \o t)[i] = IF i <= Len(h) THEN h[i] ELSE t[i - Len(h)]
    BY <2>0, ConcatProperties
  <2> QED BY <2>1, <1>1, <1>2
<1>4. ASSUME NEW i \in 1 .. Len(s) PROVE (h \o t)[i] = s[i]
  <2>1. CASE i = 1
    BY <2>1, <1>1, <1>3
  <2>2. CASE i # 1
    <3>1. i - 1 \in 1 .. Len(t) /\ (i - 1) + 1 = i
      BY <2>2, <1>1, <1>2
    <3> QED BY <3>1, <2>2, <1>1, <1>3
  <2> QED BY <2>1, <2>2
<1>5. h \o t = s
  BY <1>3, <1>4, SeqEqual
<1> QED BY <1>5 DEF h, t

LEMMA OneElement ==
  ASSUME NEW s \in Seq(Val), s # <<>>, Len(s) <= 1
  PROVE  <<Head(s)>> = s
<1>1. Len(s) \in Nat /\ Len(s) # 0
  BY EmptySeq, LenProperties
<1>2. Len(s) = 1 /\ Head(s) = s[1]
  <2>1. \A n \in Nat : n # 0 /\ n <= 1 => n = 1
    OBVIOUS
  <2>2. Len(s) = 1
    BY <1>1, <2>1, Zenon
  <2>3. Head(s) = s[1]
    OBVIOUS
  <2> QED BY <2>2, <2>3
<1>3. s[1] \in Val
  BY <1>2, ElementOfSeq
<1>4. <<Head(s)>> \in Seq(Val) /\ Len(<<Head(s)>>) = 1 /\ <<Head(s)>>[1] = s[1]
  BY <1>2, <1>3
<1> QED BY <1>2, <1>4, SeqEqual

LEMMA MovedType == ASSUME TypeInv, NEW k \in Streams PROVE Moved(k) \in Seq(Val)
BY DataEquations DEF Moved

(***************************************************************************)
(* ms_proc of a stage gives away what passes the stream after it and keeps *)
(* what passes the stream before it, and nothing else, in order.           *)
(***************************************************************************)
LEMMA StageKeeps ==
  ASSUME TypeInv, SlicesFit, NEW k \in Stages
  PROVE  /\ ms_proc(k) \in Seq(Val)
         /\ pipe[k].kind = "BYPASS" => ms_proc(k) = <<>>
         /\ pipe[k].kind = "FWD" => Len(ms_proc(k)) <= 1
         /\ Moved(k) \o ms_proc(k) = held[k] \o Moved(k - 1)
<1> DEFINE offered == IF valid_r[k - 1] THEN <<data_r[k - 1]>> ELSE <<>>
<1>1. /\ k \in Streams /\ k - 1 \in Streams
      /\ held[k] \in Seq(Val) /\ pipe[k].cap \in Nat
      /\ pipe[k].kind \in {"BYPASS", "FWD", "QUEUE"}
  BY StageFacts DEF Streams
<1>2. /\ valid_r[k] \in BOOLEAN /\ valid_r[k - 1] \in BOOLEAN
      /\ ready_r[k] \in BOOLEAN /\ ready_r[k - 1] \in BOOLEAN
      /\ data_r[k] \in Val /\ data_r[k - 1] \in Val
  BY <1>1, ValidEquations, ReadyEquations, DataEquations
<1>3. /\ valid_r[k] = IF pipe[k].kind = "BYPASS" THEN valid_r[k - 1] ELSE held[k] # <<>>
      /\ data_r[k] = IF pipe[k].kind = "BYPASS" THEN data_r[k - 1] ELSE ContentOf(held[k])
      /\ ready_r[k - 1] = Through(k, ready_r[k])
  BY ValidEquations, ReadyEquations, DataEquations
<1>4. offered \in Seq(Val) /\ Len(offered) <= 1
  BY <1>2
<1>5. Moved(k) \in Seq(Val) /\ Moved(k - 1) \in Seq(Val)
  BY <1>1, MovedType
<1>6. CASE pipe[k].kind = "BYPASS"
  <2>1. held[k] = <<>> /\ ms_proc(k) = <<>>
    BY <1>6 DEF SlicesFit, ms_proc
  <2>2. valid_r[k] = valid_r[k - 1] /\ data_r[k] = data_r[k - 1] /\ ready_r[k - 1] = ready_r[k]
    BY <1>3, <1>6 DEF Through
  <2>3. Moved(k) = Moved(k - 1)
    BY <2>2 DEF Moved, Transfer
  <2> QED BY <1>5, <1>6, <2>1, <2>3, ConcatEmptySeq
<1>7. CASE pipe[k].kind = "FWD"
  <2>1. /\ valid_r[k] = (held[k] # <<>>) /\ data_r[k] = ContentOf(held[k])
        /\ ready_r[k - 1] = (ready_r[k] \/ held[k] = <<>>)
        /\ Len(held[k]) <= 1
        /\ ms_proc(k) = IF ready_r[k] \/ held[k] = <<>> THEN offered ELSE held[k]
    BY <1>3, <1>7 DEF Through, SlicesFit, ms_proc
  <2>2. ms_proc(k) \in Seq(Val) /\ Len(ms_proc(k)) <= 1
    BY <1>1, <1>4, <2>1
  <2>3. CASE ready_r[k] /\ held[k] # <<>>
    <3>1. Moved(k) = held[k]
      BY <2>1, <2>3, <1>1, OneElement DEF Moved, Transfer, ContentOf
    <3>2. ms_proc(k) = Moved(k - 1)
      BY <2>1, <2>3 DEF Moved, Transfer
    <3> QED BY <1>7, <2>2, <3>1, <3>2
  <2>4. CASE held[k] = <<>>
    <3>1. Moved(k) = <<>>
      BY <2>1, <2>4 DEF Moved, Transfer
    <3>2. ms_proc(k) = Moved(k - 1)
      BY <2>1, <2>4 DEF Moved, Transfer
    <3> QED BY <1>7, <2>2, <2>4, <3>1, <3>2
  <2>5. CASE ~ready_r[k] /\ held[k] # <<>>
    <3>1. Moved(k) = <<>> /\ Moved(k - 1) = <<>> /\ ms_proc(k) = held[k]
      BY <2>1, <2>5 DEF Moved, Transfer
    <3> QED BY <1>1, <1>7, <2>2, <3>1, ConcatEmptySeq
  <2> QED BY <1>2, <2>3, <2>4, <2>5
<1>8. CASE pipe[k].kind = "QUEUE"
  <2> DEFINE rest == IF Transfer(k) THEN Tail(held[k]) ELSE held[k]
  <2>1. /\ valid_r[k] = (held[k] # <<>>) /\ data_r[k] = ContentOf(held[k])
        /\ ms_proc(k) = rest \o (IF Transfer(k - 1) THEN offered ELSE <<>>)
    BY <1>3, <1>8 DEF Through, ms_proc
  <2>2. (IF Transfer(k - 1) THEN offered ELSE <<>>) = Moved(k - 1)
    BY DEF Moved, Transfer
  <2>3. rest \in Seq(Val) /\ Moved(k) \o rest = held[k]
    <3>1. CASE Transfer(k)
      <4>1. held[k] # <<>> /\ Moved(k) = <<Head(held[k])>> /\ rest = Tail(held[k])
        BY <2>1, <3>1 DEF Moved, Transfer, ContentOf
      <4> QED BY <1>1, <4>1, HeadThenTail, HeadTailProperties
    <3>2. CASE ~Transfer(k)
      BY <1>1, <3>2, ConcatEmptySeq DEF Moved
    <3> QED BY <3>1, <3>2
  <2> HIDE DEF rest
  <2>4. ms_proc(k) = rest \o Moved(k - 1)
    BY <2>1, <2>2
  <2>5. Moved(k) \o (rest \o Moved(k - 1)) = (Moved(k) \o rest) \o Moved(k - 1)
    BY <1>5, <2>3, Associative
  <2>6. rest \o Moved(k - 1) \in Seq(Val)
    BY <1>5, <2>3, ConcatProperties
  <2> QED BY <1>8, <2>3, <2>4, <2>5, <2>6
<1> QED BY <1>1, <1>6, <1>7, <1>8

(***************************************************************************)
(* The same for the stages 1 to k together.                                *)
(***************************************************************************)
ContentFacts ==
  /\ \A k \in Streams : InStages[k] \in Seq(Val)
  /\ InStages[0] = <<>>
  /\ \A k \in Stages : InStages[k] = held[k] \o InStages[k - 1]

LEMMA ContentFactsPrime == TypeInv' => ContentFacts'
<1>1. TypeInv => ContentFacts
  BY ContentEquations DEF ContentFacts
<1> QED BY <1>1, PTL

StagesStep == UNCHANGED <<pipe, split>> /\ held' = [k \in Stages |-> ms_proc(k)]

LEMMA PipeKeeps ==
  ASSUME TypeInv, SlicesFit, StagesStep, TypeInv'
  PROVE  \A k \in Streams : Moved(k) \o InStages'[k] = InStages[k] \o Moved(0)
<1> DEFINE n == Len(pipe)
           S == {k \in 0 .. n : Moved(k) \o InStages'[k] = InStages[k] \o Moved(0)}
<1>1. n \in Nat /\ Stages = 1 .. n /\ Streams = 0 .. n /\ Stages' = Stages /\ Streams' = Streams
      /\ 0 \in Streams
  BY StageFacts DEF StagesStep, Stages, Streams
<1>2. ContentFacts /\ ContentFacts'
  BY ContentEquations, ContentFactsPrime DEF ContentFacts
<1>3. /\ \A k \in Streams : InStages'[k] \in Seq(Val)
      /\ InStages'[0] = <<>>
      /\ \A k \in Stages : InStages'[k] = ms_proc(k) \o InStages'[k - 1]
  BY <1>1, <1>2 DEF ContentFacts, StagesStep
<1>4. \A k \in Streams : Moved(k) \in Seq(Val)
  BY MovedType
<1>5. 0 \in S
  <2>1. Moved(0) \o InStages'[0] = Moved(0) /\ InStages[0] \o Moved(0) = Moved(0)
    BY <1>1, <1>2, <1>3, <1>4, ConcatEmptySeq DEF ContentFacts
  <2> QED BY <1>1, <2>1
<1>6. ASSUME NEW k \in 1 .. n, k - 1 \in S PROVE k \in S
  <2>1. k \in Stages /\ k \in Streams /\ k - 1 \in Streams /\ k \in 0 .. n
    BY <1>1
  <2>2. /\ Moved(k) \in Seq(Val) /\ ms_proc(k) \in Seq(Val) /\ InStages'[k - 1] \in Seq(Val)
        /\ held[k] \in Seq(Val) /\ Moved(k - 1) \in Seq(Val) /\ InStages[k - 1] \in Seq(Val)
        /\ Moved(0) \in Seq(Val)
    BY <1>1, <1>2, <1>3, <1>4, <2>1, StageKeeps, StageFacts DEF ContentFacts
  <2>3. Moved(k) \o ms_proc(k) = held[k] \o Moved(k - 1)
    BY <2>1, StageKeeps
  <2>4. Moved(k - 1) \o InStages'[k - 1] = InStages[k - 1] \o Moved(0)
    BY <1>6
  <2>5. InStages'[k] = ms_proc(k) \o InStages'[k - 1] /\ InStages[k] = held[k] \o InStages[k - 1]
    BY <1>2, <1>3, <2>1 DEF ContentFacts
  <2>6. Cat(Moved(k), ms_proc(k)) = Cat(held[k], Moved(k - 1))
        /\ Cat(Moved(k - 1), InStages'[k - 1]) = Cat(InStages[k - 1], Moved(0))
    BY <2>3, <2>4 DEF Cat
  <2>7. Cat(Moved(k), Cat(ms_proc(k), InStages'[k - 1]))
          = Cat(Cat(held[k], Moved(k - 1)), InStages'[k - 1])
    BY <2>2, <2>6, Regroup
  <2>8. Cat(Cat(held[k], Moved(k - 1)), InStages'[k - 1])
          = Cat(Cat(held[k], InStages[k - 1]), Moved(0))
    BY <2>2, <2>6, Regroup
  <2>9. Moved(k) \o InStages'[k] = InStages[k] \o Moved(0)
    BY <2>5, <2>7, <2>8 DEF Cat
  <2> QED BY <2>1, <2>9
<1> HIDE DEF S
<1>7. \A k \in 0 .. n : k \in S
  BY <1>1, <1>5, <1>6, UpInduction
<1> QED BY <1>1, <1>7 DEF S
-----------------------------------------------------------------------------
(***************************************************************************)
(* write() returns for what passes the first stream, and read() for what   *)
(* the last one, or the FIFO of the splitter, gives.                       *)
(***************************************************************************)
LEMMA WriteKeeps ==
  ASSUME TypeInv, NEW start \in BOOLEAN, write(start)
  PROVE  /\ sent' \in Seq(Val) /\ valid' \in BOOLEAN /\ data' \in Val
         /\ sent' = sent \o Moved(0)
         /\ valid /\ ~ready_r[0] => valid' = valid /\ data' = data
<1>1. 0 \in Streams
  BY StageFacts DEF Streams
<1>2. /\ valid_r[0] = valid /\ data_r[0] = data /\ ready_r[0] \in BOOLEAN
      /\ sent \in Seq(Val) /\ data \in Val /\ valid \in BOOLEAN
  BY <1>1, ValidEquations, DataEquations, ReadyEquations DEF TypeInv
<1>3. CASE valid /\ ~ready_r[0]
  <2>1. UNCHANGED <<valid, data, sent>> /\ Moved(0) = <<>>
    BY <1>2, <1>3 DEF write, Moved, Transfer
  <2> QED BY <1>2, <2>1, ConcatEmptySeq
<1>4. CASE ~(valid /\ ~ready_r[0])
  <2>1. /\ sent' = IF valid THEN Append(sent, data) ELSE sent
        /\ IF start /\ Len(sent') < N
             THEN valid' = TRUE /\ data' = Len(sent') + 1
             ELSE valid' = FALSE /\ data' = data
    BY <1>4 DEF write
  <2>2. Moved(0) = IF valid THEN <<data>> ELSE <<>>
    BY <1>2, <1>4 DEF Moved, Transfer
  <2>3. sent' = sent \o Moved(0) /\ sent' \in Seq(Val)
    <3>1. CASE valid
      <4>1. sent' = Append(sent, data) /\ Moved(0) = <<data>>
        BY <2>1, <2>2, <3>1
      <4>2. Append(sent, data) = sent \o <<data>>
        BY <1>2, AppendIsConcat
      <4>3. Append(sent, data) \in Seq(Val)
        BY <1>2, AppendProperties
      <4> QED BY <4>1, <4>2, <4>3
    <3>2. CASE ~valid
      BY <1>2, <2>1, <2>2, <3>2, ConcatEmptySeq
    <3> QED BY <3>1, <3>2
  <2>4. Len(sent') + 1 \in Val
    <3>1. Len(sent') \in Nat
      BY <2>3, LenProperties
    <3> QED BY <3>1 DEF Val
  <2> QED BY <1>2, <1>4, <2>1, <2>3, <2>4
<1> QED BY <1>3, <1>4

Out(p) == IF ready[p] /\ m_valid(p) THEN <<m_data(p)>> ELSE <<>>

(***************************************************************************)
(* Without a splitter the receiver gets what passes the last stream.  Both *)
(* FIFOs of a splitter take it, and give it to their receivers in turn.    *)
(***************************************************************************)
LEMMA EndKeeps ==
  ASSUME TypeInv, NEW p \in Ports
  PROVE  /\ Out(p) \in Seq(Val)
         /\ split = <<>> => Out(p) = Moved(Len(pipe))
         /\ split # <<>> => u_que(p) \in Seq(Val) /\ Out(p) \o u_que(p) = que[p] \o Moved(Len(pipe))
<1> DEFINE n == Len(pipe)
<1>1. n \in Streams
  BY StageFacts DEF Streams
<1>2. /\ valid_r[n] \in BOOLEAN /\ data_r[n] \in Val /\ ready_r[n] = EndReady
      /\ Moved(n) \in Seq(Val) /\ ready[p] \in BOOLEAN
  BY <1>1, ValidEquations, DataEquations, ReadyEquations, MovedType DEF TypeInv
<1>3. CASE split = <<>>
  <2>1. p = 1
    BY <1>3, StageFacts
  <2>2. Out(p) = Moved(n)
    BY <1>2, <1>3, <2>1 DEF Out, Moved, Transfer, EndReady, m_valid, m_data
  <2> QED BY <1>2, <1>3, <2>2
<1>4. CASE split # <<>>
  <2> DEFINE rest == IF ready[p] /\ m_valid(p) THEN Tail(que[p]) ELSE que[p]
  <2>1. p \in {1, 2} /\ que[p] \in Seq(Val)
    BY <1>4, StageFacts DEF TypeInv
  <2>2. (c_valid(p) /\ c_ready(p)) <=> Transfer(n)
    <3>1. Other(p) \in {1, 2} /\ {p, Other(p)} = {1, 2}
      BY <2>1 DEF Other
    <3>2. EndReady <=> c_ready(p) /\ c_ready(Other(p))
      BY <1>4, <3>1 DEF EndReady
    <3> QED BY <1>2, <3>2, Zenon DEF c_valid, Transfer
  <2>3. (IF c_valid(p) /\ c_ready(p) THEN <<data_r[n]>> ELSE <<>>) = Moved(n)
    BY <2>2 DEF Moved
  <2>4. Out(p) \in Seq(Val) /\ rest \in Seq(Val) /\ Out(p) \o rest = que[p]
    <3>1. CASE ready[p] /\ m_valid(p)
      <4>1. que[p] # <<>> /\ Out(p) = <<Head(que[p])>> /\ rest = Tail(que[p])
        BY <1>4, <3>1 DEF Out, m_valid, m_data
      <4>2. Head(que[p]) \in Val /\ Tail(que[p]) \in Seq(Val)
        BY <2>1, <4>1, HeadTailProperties
      <4>3. <<Head(que[p])>> \in Seq(Val)
        BY <4>2
      <4>4. <<Head(que[p])>> \o Tail(que[p]) = que[p]
        BY <2>1, <4>1, HeadThenTail
      <4> QED BY <4>1, <4>2, <4>3, <4>4
    <3>2. CASE ~(ready[p] /\ m_valid(p))
      BY <2>1, <3>2, ConcatEmptySeq DEF Out
    <3> QED BY <3>1, <3>2
  <2>5. u_que(p) = rest \o Moved(n)
    BY <2>3 DEF u_que
  <2> HIDE DEF rest
  <2>6. Out(p) \o (rest \o Moved(n)) = (Out(p) \o rest) \o Moved(n)
    BY <1>2, <2>4, Associative
  <2>7. rest \o Moved(n) \in Seq(Val)
    BY <1>2, <2>4, ConcatProperties
  <2> QED BY <1>4, <2>4, <2>5, <2>6, <2>7
<1> QED BY <1>3, <1>4
-----------------------------------------------------------------------------
LEMMA InitInv == Init => Inv
<1> SUFFICES ASSUME Init PROVE Inv
  OBVIOUS
<1>1. PICK w \in Networks : pipe = w.pipe /\ split = w.split
  BY DEF Init
<1>2. pipe \in Seq(StageTypes) /\ split \in Seq(Nat \ {0}) /\ Len(split) \in {0, 2}
  BY <1>1, NetworkAssumption
<1>3. <<>> \in Seq(Val) /\ 0 \in Val
  BY DEF Val
<1>4. TypeInv
  BY <1>2, <1>3 DEF Init, TypeInv
<1>5. SlicesFit
  BY <1>4, StageFacts DEF Init, SlicesFit
<1>6. \A k \in Streams : InStages[k] = <<>>
  <2> DEFINE n == Len(pipe)
             S == {k \in 0 .. n : InStages[k] = <<>>}
  <2>1. n \in Nat /\ Stages = 1 .. n /\ Streams = 0 .. n
    BY <1>4, StageFacts DEF Streams
  <2>2. InStages[0] = <<>> /\ \A k \in Stages : InStages[k] = <<>> \o InStages[k - 1]
    BY <1>4, ContentEquations DEF Init
  <2>3. 0 \in S
    BY <2>1, <2>2
  <2>4. ASSUME NEW k \in 1 .. n, k - 1 \in S PROVE k \in S
    <3>1. InStages[k] = <<>> \o <<>> /\ k \in 0 .. n
      BY <2>1, <2>2, <2>4
    <3>2. <<>> \o <<>> = <<>>
      BY <1>3, ConcatEmptySeq
    <3> QED BY <3>1, <3>2
  <2> HIDE DEF S
  <2>5. \A k \in 0 .. n : k \in S
    BY <2>1, <2>3, <2>4, UpInduction
  <2> QED BY <2>1, <2>5 DEF S
<1>7. NothingLost
  <2> SUFFICES ASSUME NEW p \in Ports
               PROVE  sent = received[p] \o (IF split = <<>> THEN <<>> ELSE que[p]) \o InStages[Len(pipe)]
    BY DEF NothingLost
  <2>1. Len(pipe) \in Streams
    BY <1>4, StageFacts DEF Streams
  <2>2. received[p] = <<>> /\ InStages[Len(pipe)] = <<>> /\ sent = <<>>
    BY <2>1, <1>6 DEF Init
  <2>3. (IF split = <<>> THEN <<>> ELSE que[p]) = <<>>
    BY <1>4, StageFacts DEF Init
  <2>4. <<>> \o <<>> = <<>>
    BY <1>3, ConcatEmptySeq
  <2> QED BY <2>2, <2>3, <2>4
<1> QED BY <1>4, <1>5, <1>7 DEF Inv

LEMMA EdgeTypes ==
  ASSUME TypeInv, SlicesFit, NEW writes \in BOOLEAN, NEW reads \in SUBSET Ports,
         ClockEdge(writes, reads)
  PROVE  /\ StagesStep /\ TypeInv' /\ SlicesFit'
         /\ \A p \in Ports : received'[p] = received[p] \o Out(p)
<1>1. StagesStep /\ Stages' = Stages /\ Ports' = Ports
  BY DEF ClockEdge, StagesStep, Stages, Ports
<1>2. \A k \in Stages : /\ ms_proc(k) \in Seq(Val)
                        /\ pipe[k].kind = "BYPASS" => ms_proc(k) = <<>>
                        /\ pipe[k].kind = "FWD" => Len(ms_proc(k)) <= 1
  BY StageKeeps
<1>3. held' \in [Stages' -> Seq(Val)] /\ SlicesFit'
  BY <1>1, <1>2 DEF StagesStep, SlicesFit
<1>4. sent' \in Seq(Val) /\ valid' \in BOOLEAN /\ data' \in Val
  BY WriteKeeps DEF ClockEdge
<1>5. que' \in [DOMAIN split' -> Seq(Val)]
  <2>1. ASSUME NEW p \in DOMAIN split PROVE u_que(p) \in Seq(Val)
    <3>1. p \in Ports /\ split # <<>>
      BY StageFacts
    <3> QED BY <3>1, EndKeeps
  <2> QED BY <2>1 DEF ClockEdge
<1>6. ready' \in [Ports' -> BOOLEAN]
  BY <1>1 DEF ClockEdge, read
<1>7. \A p \in Ports : received'[p] = received[p] \o Out(p) /\ received'[p] \in Seq(Val)
  <2> SUFFICES ASSUME NEW p \in Ports
               PROVE  received'[p] = received[p] \o Out(p) /\ received'[p] \in Seq(Val)
    OBVIOUS
  <2>1. received[p] \in Seq(Val) /\ Out(p) \in Seq(Val)
    BY EndKeeps DEF TypeInv
  <2>2. received'[p] = IF ready[p] /\ m_valid(p) THEN Append(received[p], m_data(p)) ELSE received[p]
    BY DEF ClockEdge, read
  <2>3. received'[p] = received[p] \o Out(p)
    <3>1. CASE ready[p] /\ m_valid(p)
      <4>1. Append(received[p], m_data(p)) = received[p] \o <<m_data(p)>>
        <5>1. Out(p) = <<m_data(p)>>
          BY <3>1 DEF Out
        <5>2. m_data(p) \in Val
          BY <2>1, <5>1
        <5> QED BY <2>1, <5>2, AppendIsConcat
      <4> QED BY <2>2, <3>1, <4>1 DEF Out
    <3>2. CASE ~(ready[p] /\ m_valid(p))
      BY <2>1, <2>2, <3>2, ConcatEmptySeq DEF Out
    <3> QED BY <3>1, <3>2
  <2> QED BY <2>1, <2>3, ConcatProperties
<1>8. received' \in [Ports' -> Seq(Val)]
  BY <1>1, <1>7 DEF ClockEdge, read
<1>9. TypeInv'
  BY <1>1, <1>3, <1>4, <1>5, <1>6, <1>8 DEF TypeInv, StagesStep
<1> QED BY <1>1, <1>3, <1>7, <1>9

LEMMA EdgeNothingLost ==
  ASSUME Inv, NEW writes \in BOOLEAN, NEW reads \in SUBSET Ports, ClockEdge(writes, reads)
  PROVE  NothingLost'
<1> DEFINE n == Len(pipe)
<1>1. /\ TypeInv /\ SlicesFit /\ StagesStep /\ TypeInv' /\ Len(pipe') = n /\ split' = split
      /\ Ports' = Ports /\ n \in Streams /\ 0 \in Streams /\ Streams' = Streams
  BY EdgeTypes, StageFacts DEF Inv, StagesStep, Ports, Streams
<1> SUFFICES ASSUME NEW p \in Ports
             PROVE  sent' = received'[p] \o (IF split = <<>> THEN <<>> ELSE que'[p]) \o InStages'[n]
  BY <1>1 DEF NothingLost
<1> DEFINE q == IF split = <<>> THEN <<>> ELSE que[p]
           q1 == IF split = <<>> THEN <<>> ELSE que'[p]
<1>2. sent' = Cat(sent, Moved(0))
  BY <1>1, WriteKeeps DEF ClockEdge, Cat
<1>3. received'[p] = Cat(received[p], Out(p))
  BY <1>1, EdgeTypes DEF Cat
<1>4. Cat(Moved(n), InStages'[n]) = Cat(InStages[n], Moved(0))
  BY <1>1, PipeKeeps DEF Cat
<1>5. Cat(Out(p), q1) = Cat(q, Moved(n)) /\ q \in Seq(Val) /\ q1 \in Seq(Val)
  <2>1. CASE split = <<>>
    <3>1. Out(p) = Moved(n) /\ Moved(n) \in Seq(Val) /\ q = <<>> /\ q1 = <<>>
      BY <1>1, <2>1, EndKeeps, MovedType
    <3> HIDE DEF q, q1, n
    <3>2. Cat(Moved(n), <<>>) = Moved(n) /\ Cat(<<>>, Moved(n)) = Moved(n) /\ <<>> \in Seq(Val)
      BY <3>1, ConcatEmptySeq DEF Cat
    <3> QED BY <3>1, <3>2
  <2>2. CASE split # <<>>
    <3>1. p \in DOMAIN split /\ que[p] \in Seq(Val) /\ que'[p] = u_que(p)
      BY <1>1, <2>2, StageFacts DEF TypeInv, ClockEdge
    <3> QED BY <1>1, <2>2, <3>1, EndKeeps DEF Cat
  <2> QED BY <2>1, <2>2
<1>6. sent = Cat(Cat(received[p], q), InStages[n])
  BY DEF Inv, NothingLost, Cat
<1>7. /\ received[p] \in Seq(Val) /\ Out(p) \in Seq(Val) /\ Moved(0) \in Seq(Val)
      /\ Moved(n) \in Seq(Val) /\ InStages[n] \in Seq(Val) /\ InStages'[n] \in Seq(Val)
  BY <1>1, EndKeeps, MovedType, ContentEquations, ContentFactsPrime DEF TypeInv, ContentFacts
<1> HIDE DEF q, q1
<1>8. Cat(received[p], q) \in Seq(Val)
  BY <1>5, <1>7, ConcatProperties DEF Cat
<1>9. sent' = Cat(Cat(received[p], q), Cat(Moved(n), InStages'[n]))
  BY <1>2, <1>4, <1>6, <1>7, <1>8, Regroup
<1>10. sent' = Cat(Cat(Cat(received[p], q), Moved(n)), InStages'[n])
  BY <1>7, <1>8, <1>9, Regroup
<1>11. Cat(Cat(received[p], q), Moved(n)) = Cat(Cat(received[p], Out(p)), q1)
  BY <1>5, <1>7, Regroup
<1>12. sent' = Cat(Cat(received'[p], q1), InStages'[n])
  BY <1>3, <1>10, <1>11
<1> QED BY <1>12 DEF Cat, q1

LEMMA InvStep == Inv /\ [Next]_vars => Inv'
<1> SUFFICES ASSUME Inv, [Next]_vars PROVE Inv'
  OBVIOUS
<1>1. ASSUME NEW writes \in BOOLEAN, NEW reads \in SUBSET Ports, ClockEdge(writes, reads)
      PROVE  Inv'
  BY <1>1, EdgeTypes, EdgeNothingLost DEF Inv
<1>2. CASE UNCHANGED vars
  <2>1. InStages' = InStages
    BY <1>2 DEF vars, InStages, Streams
  <2>2. Stages' = Stages /\ Ports' = Ports
    BY <1>2 DEF vars, Stages, Ports
  <2>3. TypeInv' /\ SlicesFit'
    BY <1>2, <2>2 DEF vars, Inv, TypeInv, SlicesFit
  <2>4. NothingLost'
    BY <1>2, <2>1, <2>2 DEF vars, Inv, NothingLost
  <2> QED BY <2>3, <2>4 DEF Inv
<1> QED BY <1>1, <1>2 DEF Next

LEMMA SpecInv == Spec => []Inv
BY InvStep, InitInv, PTL DEF Spec

(***************************************************************************)
(* Stages of sreg.h and sfifo_cc.h in any number and order, and the        *)
(* splitter of ssplit.h behind them, lose, repeat and reorder no value.    *)
(***************************************************************************)
THEOREM StreamsKeepAll == Spec => []NothingLost
<1>1. Inv => NothingLost
  BY DEF Inv
<1> QED BY <1>1, SpecInv, PTL
-----------------------------------------------------------------------------
(***************************************************************************)
(* The signals after an edge obey the same equations.                      *)
(***************************************************************************)
SignalFacts ==
  /\ valid_r[0] = valid /\ data_r[0] = data
  /\ \A k \in Stages :
       /\ valid_r[k] = IF pipe[k].kind = "BYPASS" THEN valid_r[k - 1] ELSE held[k] # <<>>
       /\ data_r[k] = IF pipe[k].kind = "BYPASS" THEN data_r[k - 1] ELSE ContentOf(held[k])

LEMMA SignalFactsPrime == TypeInv' => SignalFacts'
<1>1. TypeInv => SignalFacts
  BY ValidEquations, DataEquations DEF SignalFacts
<1> QED BY <1>1, PTL

LEMMA HeadKept ==
  ASSUME NEW s \in Seq(Val), NEW t \in Seq(Val), s # <<>>
  PROVE  s \o t # <<>> /\ Head(s \o t) = Head(s)
<1>1. Len(s) \in Nat /\ Len(s) > 0 /\ Len(t) \in Nat
  BY EmptySeq, LenProperties
<1>2. /\ s \o t \in Seq(Val) /\ Len(s \o t) = Len(s) + Len(t)
      /\ \A i \in 1 .. Len(s) + Len(t) : (s \o t)[i] = IF i <= Len(s) THEN s[i] ELSE t[i - Len(s)]
  BY ConcatProperties
<1>3. Len(s \o t) > 0 /\ (s \o t)[1] = s[1]
  BY <1>1, <1>2
<1>4. s \o t # <<>>
  BY <1>2, <1>3, EmptySeq
<1>5. Head(s \o t) = (s \o t)[1] /\ Head(s) = s[1]
  BY <1>2, <1>4, HeadTailProperties
<1> QED BY <1>3, <1>4, <1>5

(***************************************************************************)
(* The registers of a slice or a FIFO keep the value they offer until it   *)
(* is taken.                                                               *)
(***************************************************************************)
LEMMA StageOffers ==
  ASSUME TypeInv, SlicesFit, NEW k \in Stages, pipe[k].kind # "BYPASS", held[k] # <<>>, ~ready_r[k]
  PROVE  ms_proc(k) # <<>> /\ ContentOf(ms_proc(k)) = ContentOf(held[k])
<1>1. /\ k \in Streams /\ k - 1 \in Streams /\ held[k] \in Seq(Val)
      /\ pipe[k].kind \in {"FWD", "QUEUE"}
  BY StageFacts DEF Streams
<1>2. CASE pipe[k].kind = "FWD"
  <2>1. ms_proc(k) = held[k]
    BY <1>2 DEF ms_proc
  <2> QED BY <2>1
<1>3. CASE pipe[k].kind = "QUEUE"
  <2> DEFINE taken == IF Transfer(k - 1)
                        THEN IF valid_r[k - 1] THEN <<data_r[k - 1]>> ELSE <<>>
                        ELSE <<>>
  <2>1. ~Transfer(k)
    BY DEF Transfer
  <2>2. ms_proc(k) = held[k] \o taken
    BY <1>3, <2>1 DEF ms_proc
  <2>3. taken \in Seq(Val)
    BY <1>1, DataEquations
  <2> HIDE DEF taken
  <2>4. held[k] \o taken # <<>> /\ Head(held[k] \o taken) = Head(held[k])
    BY <1>1, <2>3, HeadKept
  <2> QED BY <2>2, <2>4 DEF ContentOf
<1> QED BY <1>1, <1>2, <1>3

Stands(k) == valid_r[k] /\ ~ready_r[k] => valid_r'[k] /\ data_r'[k] = data_r[k]

LEMMA EdgeOffersStand ==
  ASSUME Inv, NEW writes \in BOOLEAN, NEW reads \in SUBSET Ports, ClockEdge(writes, reads)
  PROVE  \A k \in Streams : Stands(k)
<1> DEFINE n == Len(pipe)
           S == {k \in 0 .. n : Stands(k)}
<1>1. TypeInv /\ SlicesFit /\ StagesStep /\ TypeInv'
  BY EdgeTypes DEF Inv
<1>2. n \in Nat /\ Stages = 1 .. n /\ Streams = 0 .. n /\ Stages' = Stages
  BY <1>1, StageFacts DEF StagesStep, Stages, Streams
<1>3. SignalFacts /\ SignalFacts'
  BY <1>1, SignalFactsPrime, ValidEquations, DataEquations DEF SignalFacts
<1>4. 0 \in S
  <2>1. valid_r[0] = valid /\ data_r[0] = data /\ valid_r'[0] = valid' /\ data_r'[0] = data'
    BY <1>3 DEF SignalFacts
  <2>2. valid /\ ~ready_r[0] => valid' = valid /\ data' = data
    BY <1>1, WriteKeeps DEF ClockEdge
  <2>3. Stands(0)
    BY <2>1, <2>2 DEF Stands
  <2>4. 0 \in 0 .. n
    BY <1>2
  <2> QED BY <2>3, <2>4
<1>5. ASSUME NEW k \in 1 .. n, k - 1 \in S PROVE k \in S
  <2>1. k \in Stages /\ k \in 0 .. n /\ pipe'[k] = pipe[k] /\ held'[k] = ms_proc(k)
    BY <1>1, <1>2 DEF StagesStep
  <2>2. /\ valid_r[k] = IF pipe[k].kind = "BYPASS" THEN valid_r[k - 1] ELSE held[k] # <<>>
        /\ data_r[k] = IF pipe[k].kind = "BYPASS" THEN data_r[k - 1] ELSE ContentOf(held[k])
    BY <1>3, <2>1 DEF SignalFacts
  <2>3. /\ valid_r'[k] = IF pipe[k].kind = "BYPASS" THEN valid_r'[k - 1] ELSE ms_proc(k) # <<>>
        /\ data_r'[k] = IF pipe[k].kind = "BYPASS" THEN data_r'[k - 1] ELSE ContentOf(ms_proc(k))
    BY <1>2, <1>3, <2>1 DEF SignalFacts
  <2>4. CASE pipe[k].kind = "BYPASS"
    <3>1. ready_r[k - 1] = ready_r[k]
      BY <1>1, <2>1, <2>4, ReadyEquations DEF Through
    <3>2. Stands(k - 1)
      BY <1>5
    <3>3. Stands(k)
      BY <2>2, <2>3, <2>4, <3>1, <3>2 DEF Stands
    <3> QED BY <2>1, <3>3
  <2>5. CASE pipe[k].kind # "BYPASS"
    <3>1. Stands(k)
      BY <1>1, <2>1, <2>2, <2>3, <2>5, StageOffers DEF Stands
    <3> QED BY <2>1, <3>1
  <2> QED BY <2>4, <2>5
<1> HIDE DEF S
<1>6. \A k \in 0 .. n : k \in S
  BY <1>2, <1>4, <1>5, UpInduction
<1> QED BY <1>2, <1>6 DEF S

(***************************************************************************)
(* On every stream, also on those that a row of BYPASS slices lets through *)
(* within the cycle, a value offered and not taken stands: data and valid  *)
(* of sreg.h and sfifo_cc.h never change under a receiver that waits.      *)
(***************************************************************************)
THEOREM StreamsStand == Spec => OffersStand
<1> DEFINE Act == \A k \in Streams : valid_r[k] /\ ~ready_r[k] =>
                    valid_r'[k] /\ data_r'[k] = data_r[k]
<1>1. Inv /\ [Next]_vars => [Act]_vars
  <2> SUFFICES ASSUME Inv, Next PROVE Act
    OBVIOUS
  <2>1. PICK writes \in BOOLEAN, reads \in SUBSET Ports : ClockEdge(writes, reads)
    BY DEF Next
  <2>2. \A k \in Streams : Stands(k)
    BY <2>1, EdgeOffersStand
  <2> QED BY <2>2 DEF Stands
<1> QED BY <1>1, SpecInv, PTL DEF Spec, OffersStand
=============================================================================
