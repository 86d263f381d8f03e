---------------------------- MODULE Backlash_proofs ----------------------------
(***************************************************************************)
(* Proofs about Backlash: whatever offsets come and whatever the user      *)
(* sets, tracking reads beyond the history only when the user clears it    *)
(* under the worker, and an adjustment goes the way the miss demands and   *)
(* stays within the limits.                                                *)
(***************************************************************************)
EXTENDS Backlash, TLAPS, SequenceTheorems, FiniteSetTheorems, WellFoundedInduction

-------------------------------------------------------------------------------
(* Induction: a set of numbers that is not empty has a least one.          *)

LEMMA LeastNumber ==
    ASSUME NEW S, S \subseteq Nat, S # {}
    PROVE  \E n \in S : \A m \in S : n <= m
  <1>1. IsWellFoundedOn(OpToRel(<, Nat), Nat)
    BY NatLessThanWellFounded
  <1>2. PICK n \in S : \A m \in S : <<m, n>> \notin OpToRel(<, Nat)
    <2> HIDE DEF OpToRel
    <2> QED BY <1>1, WFMin
  <1>3. \A m \in S : ~(m < n)
    BY <1>2 DEF OpToRel
  <1> QED BY <1>3

\* The sum of the first numbers of a sequence, as Total defines it.
SumOf(f, n, a) == f = [k \in 0..n |-> IF k = 0 THEN 0 ELSE f[k - 1] + a[k]]

\* There is such a function, for any sequence of numbers.
LEMMA SumExists ==
    \A n \in Nat : \A a \in [1..n -> Int] : \E f \in [0..n -> Int] : SumOf(f, n, a)
  <1> DEFINE Has(n) == \A a \in [1..n -> Int] : \E f \in [0..n -> Int] : SumOf(f, n, a)
             Bad == {n \in Nat : ~Has(n)}
  <1> SUFFICES ASSUME Bad # {} PROVE FALSE
    OBVIOUS
  <1>1. PICK n \in Bad : \A m \in Bad : n <= m
    <2> HIDE DEF Has
    <2> QED BY LeastNumber
  <1>2. PICK a \in [1..n -> Int] : ~\E f \in [0..n -> Int] : SumOf(f, n, a)
    OBVIOUS
  <1>3. CASE n = 0
    <2> DEFINE f == [k \in 0..0 |-> 0]
    <2>1. f \in [0..n -> Int] /\ SumOf(f, n, a)
      BY <1>3 DEF SumOf
    <2> QED BY <2>1, <1>2
  <1>4. CASE n # 0
    <2> DEFINE m == n - 1
               b == [k \in 1..m |-> a[k]]
    <2>1. m \in Nat /\ n = m + 1 /\ b \in [1..m -> Int]
      BY <1>4
    <2>2. Has(m)
      <3> HIDE DEF Has
      <3> QED BY <2>1, <1>1
    <2>3. PICK g \in [0..m -> Int] : SumOf(g, m, b)
      BY <2>1, <2>2
    <2> DEFINE f == [k \in 0..n |-> IF k = n THEN g[m] + a[n] ELSE g[k]]
    <2>4. f \in [0..n -> Int]
      BY <2>1, <2>3
    <2>5. ASSUME NEW k \in 0..n
          PROVE  f[k] = IF k = 0 THEN 0 ELSE f[k - 1] + a[k]
      <3>1. CASE k = n
        BY <3>1, <2>1, <2>3
      <3>2. CASE k # n
        <4>1. k \in 0..m
          BY <3>2, <2>1
        <4>2. g[k] = IF k = 0 THEN 0 ELSE g[k - 1] + b[k]
          BY <4>1, <2>3 DEF SumOf
        <4>3. k # 0 => k - 1 \in 0..n /\ k - 1 # n /\ k \in 1..m
          BY <4>1, <2>1
        <4> QED BY <3>2, <4>2, <4>3
      <3> QED BY <3>1, <3>2
    <2>6. SumOf(f, n, a)
      <3> HIDE DEF f
      <3>1. f = [k \in 0..n |-> f[k]]
        BY <2>4
      <3> QED BY <3>1, <2>5 DEF SumOf
    <2> QED BY <2>4, <2>6, <1>2
  <1> QED BY <1>3, <1>4

\* The sum of numbers is a number.
LEMMA TotalType ==
    ASSUME NEW n \in Nat, NEW a \in [1..n -> Int]
    PROVE  Total(a) \in Int
  <1> DEFINE sum == CHOOSE f : SumOf(f, n, a)
  <1>1. a \in Seq(Int) /\ Len(a) = n
    OBVIOUS
  <1>2. SumOf(sum, n, a)
    BY SumExists
  <1>3. Total(a) = sum[n]
    BY <1>1 DEF Total, SumOf
  <1> HIDE DEF sum
  <1> DEFINE Bad == {k \in 0..n : sum[k] \notin Int}
  <1>4. ASSUME Bad # {} PROVE FALSE
    <2> Bad \subseteq Nat
      OBVIOUS
    <2>1. PICK k \in Bad : \A m \in Bad : k <= m
      <3> HIDE DEF Bad
      <3> QED BY <1>4, LeastNumber
    <2>2. sum[k] = IF k = 0 THEN 0 ELSE sum[k - 1] + a[k]
      BY <1>2 DEF SumOf
    <2>3. k # 0 => sum[k - 1] \in Int /\ a[k] \in Int
      BY <2>1
    <2> QED BY <2>1, <2>2, <2>3
  <1> QED BY <1>3, <1>4

-------------------------------------------------------------------------------
(* The history.                                                            *)

Events == Seq(Seq(Int))

LEMMA AssumptionTypes ==
    /\ HISTORY_DEPTH \in Nat /\ HISTORY_DEPTH > 0 /\ MinMove \in Int
    /\ MIN_COMP_AMOUNT \in Nat /\ MIN_COMP_AMOUNT > 0
    /\ MAX_COMP_AMOUNT \in Nat /\ MIN_COMP_AMOUNT <= MAX_COMP_AMOUNT
  BY BacklashAssumption

\* Parts of sequences.
LEMMA SequenceParts ==
    ASSUME NEW S, NEW q \in Seq(S)
    PROVE  /\ Len(q) \in Nat /\ (q # <<>> <=> Len(q) > 0)
           /\ \A m \in 1..(Len(q) + 1), n \in 0..Len(q) :
                 /\ SubSeq(q, m, n) \in Seq(S)
                 /\ Len(SubSeq(q, m, n)) = IF m <= n THEN n - m + 1 ELSE 0
  <1>1. Len(q) \in Nat /\ (q # <<>> <=> Len(q) > 0)
    OBVIOUS
  <1>2. ASSUME NEW m \in 1..(Len(q) + 1), NEW n \in 0..Len(q)
        PROVE  /\ SubSeq(q, m, n) \in Seq(S)
               /\ Len(SubSeq(q, m, n)) = IF m <= n THEN n - m + 1 ELSE 0
    OBVIOUS
  <1> QED BY <1>1, <1>2

LEMMA FrontLen ==
    ASSUME NEW S, NEW q \in Seq(S), q # <<>>
    PROVE  Len(Front(q)) = Len(q) - 1
  <1>1. Len(q) \in Nat /\ Len(q) > 0 /\ 1 \in 1..(Len(q) + 1) /\ Len(q) - 1 \in 0..Len(q)
    OBVIOUS
  <1>2. Len(SubSeq(q, 1, Len(q) - 1)) = IF 1 <= Len(q) - 1 THEN Len(q) - 1 - 1 + 1 ELSE 0
    BY <1>1, SequenceParts
  <1> QED BY <1>1, <1>2 DEF Front

LEMMA RemoveAtType ==
    ASSUME NEW S, NEW q \in Seq(S), NEW i \in 1..Len(q)
    PROVE  RemoveAt(q, i) \in Seq(S) /\ Len(RemoveAt(q, i)) = Len(q) - 1
  <1>1. /\ SubSeq(q, 1, i - 1) \in Seq(S) /\ Len(SubSeq(q, 1, i - 1)) = i - 1
        /\ SubSeq(q, i + 1, Len(q)) \in Seq(S)
        /\ Len(SubSeq(q, i + 1, Len(q))) = Len(q) - i
    BY SequenceParts
  <1> DEFINE a == SubSeq(q, 1, i - 1)
             b == SubSeq(q, i + 1, Len(q))
  <1>2. RemoveAt(q, i) = a \o b
    BY DEF RemoveAt
  <1>3. a \in Seq(S) /\ b \in Seq(S) /\ Len(a) = i - 1 /\ Len(b) = Len(q) - i
    BY <1>1
  <1>4. Len(q) \in Nat /\ i \in Int
    OBVIOUS
  <1> HIDE DEF a, b
  <1>5. a \o b \in Seq(S) /\ Len(a \o b) = Len(a) + Len(b)
    BY <1>3, ConcatProperties
  <1> QED BY <1>2, <1>3, <1>4, <1>5

\* An event is found where there is one, and never the last.
LEMMA SelectedBounds ==
    ASSUME NEW e \in Events, e # <<>>
    PROVE  /\ SelectInSeq(Front(e), InitialOvershoot) \in 0..(Len(e) - 1)
           /\ SelectInSeq(Front(e), StictionSeen) \in 0..(Len(e) - 1)
  <1>1. Len(e) \in Nat /\ Len(e) > 0
    BY DEF Events
  <1>2. Len(Front(e)) = Len(e) - 1
    BY FrontLen DEF Events
  <1> DEFINE I == {i \in 1..Len(Front(e)) : InitialOvershoot(Front(e)[i])}
             J == {i \in 1..Len(Front(e)) : StictionSeen(Front(e)[i])}
  <1>3. ASSUME NEW S, S \subseteq 1..Len(Front(e)), S # {}
        PROVE  Min(S) \in S
    <2>1. S \subseteq Nat
      BY <1>1, <1>2, <1>3
    <2>2. \E n \in S : \A m \in S : n <= m
      BY <2>1, <1>3, LeastNumber
    <2> QED BY <2>2 DEF Min
  <1>4. SelectInSeq(Front(e), InitialOvershoot) = IF I # {} THEN Min(I) ELSE 0
    BY DEF SelectInSeq
  <1>5. SelectInSeq(Front(e), StictionSeen) = IF J # {} THEN Min(J) ELSE 0
    BY DEF SelectInSeq
  <1>6. I \subseteq 1..Len(Front(e)) /\ J \subseteq 1..Len(Front(e))
    OBVIOUS
  <1>7. (I # {} => Min(I) \in 1..Len(Front(e))) /\ (J # {} => Min(J) \in 1..Len(Front(e)))
    <2> HIDE DEF I, J
    <2> QED BY <1>3, <1>6
  <1> HIDE DEF I, J
  <1>8. 0 \in 0..(Len(e) - 1) /\ \A i \in 1..Len(Front(e)) : i \in 0..(Len(e) - 1)
    BY <1>1, <1>2
  <1> QED BY <1>4, <1>5, <1>7, <1>8

\* What a history that is worked on is.
HistoryOK(h) ==
    /\ h \in [events : Events, index : Nat, open : BOOLEAN]
    /\ Len(h.events) <= HISTORY_DEPTH

LEMMA RemovedType ==
    ASSUME NEW h, HistoryOK(h), h.events # <<>>, NEW i \in 0..(Len(h.events) - 1)
    PROVE  /\ HistoryOK(Removed(h, i))
           /\ Removed(h, i).events # <<>>
  <1> DEFINE e == h.events
  <1>1. e \in Events /\ Len(e) \in Nat /\ Len(e) > 0 /\ Len(e) <= HISTORY_DEPTH
    BY DEF HistoryOK, Events
  <1>2. CASE i = 0
    BY <1>2 DEF Removed
  <1>3. CASE i # 0
    <2>1. i \in 1..Len(e) /\ i < Len(e)
      BY <1>1, <1>3
    <2>3. RemoveAt(e, i) \in Events /\ Len(RemoveAt(e, i)) = Len(e) - 1
      BY <1>1, <2>1, RemoveAtType DEF Events
    <2>4. Removed(h, i) = [h EXCEPT !.events = RemoveAt(e, i), !.index = Len(e) - 2]
      BY <1>3 DEF Removed
    <2>5. /\ Removed(h, i).events = RemoveAt(e, i) /\ Removed(h, i).index = Len(e) - 2
          /\ Removed(h, i) \in [events : Events, index : Nat, open : BOOLEAN]
      <3>1. Len(e) - 2 \in Nat
        BY <1>1, <2>1
      <3> QED BY <2>3, <2>4, <3>1 DEF HistoryOK
    <2>6. RemoveAt(e, i) # <<>>
      BY <2>1, <2>3
    <2> HIDE DEF e
    <2> QED BY <1>1, <2>3, <2>5, <2>6, AssumptionTypes DEF HistoryOK
  <1> QED BY <1>2, <1>3

LEMMA RemovalTypes ==
    ASSUME NEW h, HistoryOK(h), h.events # <<>>
    PROVE  /\ HistoryOK(RemoveOldestOvershoot(h)) /\ RemoveOldestOvershoot(h).events # <<>>
           /\ HistoryOK(RemoveOldestStiction(h))
  <1>1. h.events \in Events
    BY DEF HistoryOK
  <1> QED BY <1>1, SelectedBounds, RemovedType DEF RemoveOldestOvershoot, RemoveOldestStiction

-------------------------------------------------------------------------------
(* Its statistics, and what is decided by them.                            *)

LEMMA NominalType ==
    ASSUME NEW total \in Int, NEW count \in Nat
    PROVE  Nominal(total, count) \in Nat
  <1>1. CASE count = 0
    BY <1>1 DEF Nominal
  <1>2. CASE count # 0
    <2>1. Abs(total) \in Nat
      BY DEF Abs
    <2>2. \A a \in Nat, n \in Nat : n > 0 => a \div n \in Nat
      OBVIOUS
    <2> QED BY <1>2, <2>1, <2>2 DEF Nominal
  <1> QED BY <1>1, <1>2

LEMMA ElementInt ==
    ASSUME NEW q \in Seq(Int), NEW i \in 1..Len(q)
    PROVE  q[i] \in Int
  OBVIOUS

LEMMA StatisticsTypes ==
    ASSUME NEW e \in Events
    PROVE  /\ Missed(e) \in Nat /\ Overshoots(e) \in Nat /\ Stictions(e) \in Nat
           /\ TotalMissed(e) \in Int /\ TotalStiction(e) \in Int
  <1>1. Len(e) \in Nat /\ DOMAIN e = 1..Len(e) /\ \A n \in 1..Len(e) : e[n] \in Seq(Int)
    BY DEF Events
  <1>2. \A S \in SUBSET (1..Len(e)) : Cardinality(S) \in Nat
    <2>1. IsFiniteSet(1..Len(e))
      BY <1>1, FS_Interval
    <2> QED BY <2>1, FS_Subset, FS_CardinalityType
  <1>3. Missed(e) \in Nat /\ Overshoots(e) \in Nat /\ Stictions(e) \in Nat
    BY <1>1, <1>2 DEF Missed, Overshoots, Stictions
  <1>4. TotalMissed(e) \in Int
    <2> DEFINE a == [n \in 1..Len(e) |-> IF e[n] = <<>> THEN 0 ELSE e[n][1]]
    <2>1. ASSUME NEW n \in 1..Len(e), e[n] # <<>> PROVE e[n][1] \in Int
      BY <1>1, <2>1
    <2>2. a \in [1..Len(e) -> Int]
      BY <2>1
    <2> QED BY <1>1, <2>2, TotalType DEF TotalMissed
  <1>5. TotalStiction(e) \in Int
    <2> DEFINE a == [n \in 1..Len(e) |-> IF StictionSeen(e[n]) THEN e[n][2] ELSE 0]
    <2>1. ASSUME NEW n \in 1..Len(e), StictionSeen(e[n]) PROVE e[n][2] \in Int
      <3>1. e[n] \in Seq(Int) /\ Len(e[n]) = 2
        BY <1>1, <2>1 DEF StictionSeen
      <3> QED BY <3>1, ElementInt
    <2>2. a \in [1..Len(e) -> Int]
      BY <2>1
    <2> QED BY <1>1, <2>2, TotalType DEF TotalStiction
  <1> QED BY <1>3, <1>4, <1>5

LEMMA RecentType ==
    ASSUME NEW h, HistoryOK(h), InHistory(h)
    PROVE  Recent(h) \in Events
  <1>1. /\ h.events \in Seq(Seq(Int)) /\ h.index \in Nat /\ Len(h.events) \in Nat
        /\ h.index + 1 <= Len(h.events)
    BY DEF HistoryOK, InHistory, Events
  <1>2. /\ Greater(1, h.index + 2 - HISTORY_DEPTH) \in 1..(Len(h.events) + 1)
        /\ h.index + 1 \in 0..Len(h.events)
    BY <1>1, AssumptionTypes DEF Greater
  <1> QED BY <1>1, <1>2, SequenceParts DEF Recent, Events

\* What is decided: an adjustment closes the window, and makes the pulse longer
\* after a move that fell short, shorter after one that went too far.
DecisionOK(d, h, miss) ==
    /\ d.adjust \in BOOLEAN /\ d.correction \in Int
    /\ HistoryOK(d.history)
    /\ d.adjust => ~d.history.open
    /\ d.history.open => d.history = h
    /\ IF miss > 0 THEN d.correction >= 0 ELSE d.correction <= 0

LEMMA DecisionTypes ==
    ASSUME NEW h, HistoryOK(h), NEW miss \in Int
    PROVE  /\ DecisionOK(NoAdjustment(h), h, miss)
           /\ DecisionOK(NoAdjustment(Closed(h)), h, miss)
           /\ \A c \in Int : \A g :
                 HistoryOK(g) /\ (IF miss > 0 THEN c >= 0 ELSE c <= 0)
                    => DecisionOK(Decision(TRUE, c, g), h, miss)
  <1>1. ASSUME NEW g, HistoryOK(g)
        PROVE  HistoryOK(Closed(g)) /\ ~Closed(g).open
    BY <1>1 DEF HistoryOK, Closed
  <1>2. DecisionOK(NoAdjustment(h), h, miss)
    BY DEF NoAdjustment, Decision, DecisionOK
  <1>3. DecisionOK(NoAdjustment(Closed(h)), h, miss)
    BY <1>1 DEF NoAdjustment, Decision, DecisionOK
  <1>4. ASSUME NEW c \in Int, NEW g, HistoryOK(g), IF miss > 0 THEN c >= 0 ELSE c <= 0
        PROVE  DecisionOK(Decision(TRUE, c, g), h, miss)
    BY <1>1, <1>4 DEF Decision, DecisionOK
  <1> QED BY <1>2, <1>3, <1>4

LEMMA AdjustmentDecided ==
    ASSUME NEW h, HistoryOK(h), InHistory(h), NEW miss \in Int
    PROVE  DecisionOK(AdjustmentNeeded(h, miss), h, miss)
  <1> DEFINE r == Recent(h)
  <1>1. /\ Missed(r) \in Nat /\ Stictions(r) \in Nat
        /\ Nominal(TotalMissed(r), Missed(r)) \in Nat
        /\ Nominal(TotalStiction(r), Stictions(r)) \in Nat
    BY RecentType, StatisticsTypes, NominalType
  <1>2. h.events # <<>>
    BY DEF HistoryOK, InHistory, Events
  <1>3. HistoryOK(RemoveOldestStiction(h))
    BY <1>2, RemovalTypes
  <1>4. HistoryOK(RemoveOldestOvershoot(RemoveOldestOvershoot(h)))
    BY <1>2, RemovalTypes
  <1>5. ASSUME miss > 0 PROVE DecisionOK(Undershoot(h), h, miss)
    <2> DEFINE n == Nominal(TotalMissed(r), Missed(r))
    <2>1. n \in Int /\ n >= 0
      BY <1>1
    <2> HIDE DEF n
    <2>2. DecisionOK(Decision(TRUE, n, h), h, miss)
      BY <1>5, <2>1, DecisionTypes
    <2>3. \/ Undershoot(h) = NoAdjustment(Closed(h)) \/ Undershoot(h) = NoAdjustment(h)
          \/ Undershoot(h) = Decision(TRUE, n, h)
      BY DEF Undershoot, n
    <2> QED BY <2>2, <2>3, DecisionTypes
  <1>6. ASSUME ~(miss > 0) PROVE DecisionOK(Overshoot(h), h, miss)
    <2>1. /\ -Nominal(TotalMissed(r), Missed(r)) \in Int
          /\ -Nominal(TotalMissed(r), Missed(r)) <= 0
          /\ -Nominal(TotalStiction(r), Stictions(r)) \in Int
          /\ -Nominal(TotalStiction(r), Stictions(r)) <= 0
      BY <1>1
    <2> QED BY <1>3, <1>4, <1>6, <2>1, DecisionTypes DEF Overshoot
  <1>7. DecisionOK(NoAdjustment(h), h, miss)
    BY DecisionTypes
  <1>8. Abs(miss) \in Int /\ MinMove \in Int
    BY AssumptionTypes DEF Abs
  <1> QED BY <1>5, <1>6, <1>7, <1>8 DEF AdjustmentNeeded

-------------------------------------------------------------------------------
(* The fields of BacklashComp.                                             *)

BLC == [active : BOOLEAN, last : {"none", "up", "down"}, pulse : Nat,
        floor : Nat, ceiling : Nat, fixed : BOOLEAN]
Limits(b) ==
    /\ MIN_COMP_AMOUNT <= b.floor
    /\ b.pulse > 0 => b.floor <= b.pulse
    /\ b.pulse <= b.ceiling /\ b.ceiling <= MAX_COMP_AMOUNT
Fixed(b) == b.fixed <=> Abs(b.ceiling - b.floor) < MIN_COMP_AMOUNT

\* Whatever is asked for, if it is no pulse or one the dialog allows, the limits are
\* sound.
LEMMA CompValuesSound ==
    ASSUME NEW b \in BLC, NEW requested \in Nat, NEW floor \in Nat, NEW ceiling \in Nat,
           requested = 0 \/ requested >= MIN_COMP_AMOUNT
    PROVE  /\ CompValues(b, requested, floor, ceiling) \in BLC
           /\ Limits(CompValues(b, requested, floor, ceiling))
           /\ Fixed(CompValues(b, requested, floor, ceiling))
           /\ requested > 0 => CompValues(b, requested, floor, ceiling).pulse > 0
           /\ CompValues(b, requested, floor, ceiling).active = b.active
           /\ CompValues(b, requested, floor, ceiling).last = b.last
  <1> DEFINE pulse == Smaller(requested, MAX_COMP_AMOUNT)
             low == IF floor > pulse \/ floor < MIN_COMP_AMOUNT THEN MIN_COMP_AMOUNT
                    ELSE floor
             high == Smaller(IF ceiling < pulse THEN (3 * pulse) \div 2 ELSE ceiling,
                             MAX_COMP_AMOUNT)
             fixed == Abs(high - low) < MIN_COMP_AMOUNT
  <1>1. /\ pulse \in Nat /\ pulse <= MAX_COMP_AMOUNT /\ (requested > 0 => pulse > 0)
        /\ pulse = 0 \/ pulse >= MIN_COMP_AMOUNT
    BY AssumptionTypes DEF Smaller
  <1> HIDE DEF pulse
  <1>2. low \in Nat /\ MIN_COMP_AMOUNT <= low /\ (pulse > 0 => low <= pulse)
    BY <1>1, AssumptionTypes
  <1>3. (3 * pulse) \div 2 \in Nat /\ pulse <= (3 * pulse) \div 2
    BY <1>1
  <1>4. high \in Nat /\ pulse <= high /\ high <= MAX_COMP_AMOUNT
    <2> DEFINE half == (3 * pulse) \div 2
    <2>1. half \in Nat /\ pulse <= half
      BY <1>3
    <2> HIDE DEF half
    <2>2. high = Smaller(IF ceiling < pulse THEN half ELSE ceiling, MAX_COMP_AMOUNT)
      BY DEF half
    <2> HIDE DEF high
    <2> QED BY <1>1, <2>1, <2>2, AssumptionTypes DEF Smaller
  <1>5. fixed \in BOOLEAN
    OBVIOUS
  <1>6. CompValues(b, requested, floor, ceiling)
           = [b EXCEPT !.pulse = pulse, !.floor = low, !.ceiling = high, !.fixed = fixed]
    BY DEF CompValues, pulse
  <1> HIDE DEF low, high, fixed
  <1> DEFINE new == CompValues(b, requested, floor, ceiling)
  <1>7. /\ new \in BLC
        /\ new.active = b.active /\ new.last = b.last /\ new.pulse = pulse
        /\ new.floor = low /\ new.ceiling = high /\ new.fixed = fixed
    BY <1>1, <1>2, <1>4, <1>5, <1>6 DEF BLC
  <1> HIDE DEF new
  <1>8. Limits(new)
    BY <1>1, <1>2, <1>4, <1>7 DEF Limits
  <1>9. Fixed(new)
    BY <1>7 DEF Fixed, fixed
  <1> QED BY <1>1, <1>7, <1>8, <1>9 DEF new

\* What an adjustment makes of a pulse, one that is fixed in the meantime as well.
LEMMA PulseAdjusted ==
    ASSUME NEW b \in BLC, Limits(b), Fixed(b), b.pulse > 0, NEW correction \in Int
    PROVE  LET q == AdjustedPulse(b, correction)
           IN /\ q \in Nat /\ q >= MIN_COMP_AMOUNT /\ b.floor <= q /\ q <= b.ceiling
              /\ CompValues(b, q, b.floor, b.ceiling) = [b EXCEPT !.pulse = q]
              /\ correction > 0 => b.pulse <= q /\ 10 * q <= 11 * b.pulse + 5
              /\ correction <= 0 => q <= b.pulse /\ 10 * q >= 8 * b.pulse - 5
              /\ correction = 0 => q = b.pulse
  <1> DEFINE p == b.pulse
             f == b.floor
             c == b.ceiling
             q == AdjustedPulse(b, correction)
             more == (11 * p + 5) \div 10
             less == (8 * p + 5) \div 10
  <1>1. p \in Nat /\ f \in Nat /\ c \in Nat /\ p > 0
    BY DEF BLC
  <1>2. MIN_COMP_AMOUNT <= f /\ f <= p /\ p <= c /\ c <= MAX_COMP_AMOUNT
    BY DEF Limits
  <1>3. b.fixed = (Abs(c - f) < MIN_COMP_AMOUNT)
    BY DEF Fixed, BLC
  <1>4. /\ more \in Int /\ p <= more /\ 10 * more <= 11 * p + 5
        /\ less \in Int /\ less <= p /\ 10 * less >= 8 * p - 5 /\ less >= 0
    <2> HIDE DEF p
    <2> QED BY <1>1
  <1>5. q = IF correction > 0
            THEN Smaller(Smaller(more, p + correction), c)
            ELSE Greater(Greater(less, p + correction), f)
    BY DEF AdjustedPulse, UnlimitedPulse
  <1> HIDE DEF p, f, c, q, more, less
  <1>7. ASSUME correction > 0
        PROVE  q \in Nat /\ p <= q /\ q <= c /\ 10 * q <= 11 * p + 5
    BY <1>1, <1>2, <1>4, <1>5, <1>7 DEF Smaller
  <1>8. ASSUME ~(correction > 0)
        PROVE  q \in Nat /\ f <= q /\ q <= c /\ q <= p /\ 10 * q >= 8 * p - 5
    BY <1>1, <1>2, <1>4, <1>5, <1>8 DEF Greater
  <1>9. q \in Nat /\ q > 0 /\ q >= MIN_COMP_AMOUNT /\ f <= q /\ q <= c
    BY <1>1, <1>2, <1>7, <1>8, AssumptionTypes
  <1>11. CompValues(b, q, f, c) = [b EXCEPT !.pulse = q]
    <2>1. Smaller(q, MAX_COMP_AMOUNT) = q
      BY <1>1, <1>2, <1>9, AssumptionTypes DEF Smaller
    <2>2. (IF f > q \/ f < MIN_COMP_AMOUNT THEN MIN_COMP_AMOUNT ELSE f) = f
      BY <1>1, <1>2, <1>9, AssumptionTypes
    <2>3. Smaller(IF c < q THEN (3 * q) \div 2 ELSE c, MAX_COMP_AMOUNT) = c
      BY <1>1, <1>2, <1>9, AssumptionTypes DEF Smaller
    <2> DEFINE fixed == Abs(c - f) < MIN_COMP_AMOUNT
    <2>4. CompValues(b, q, f, c)
             = [b EXCEPT !.pulse = q, !.floor = f, !.ceiling = c, !.fixed = fixed]
      BY <2>1, <2>2, <2>3 DEF CompValues
    <2>5. fixed = b.fixed
      BY <1>3 DEF BLC
    <2>6. b.floor = f /\ b.ceiling = c
      BY DEF f, c
    <2> HIDE DEF fixed
    <2>7. [b EXCEPT !.pulse = q, !.floor = f, !.ceiling = c, !.fixed = fixed]
             = [b EXCEPT !.pulse = q]
      BY <2>5, <2>6 DEF BLC
    <2> QED BY <2>4, <2>7
  <1>12. correction = 0 => q = p
    BY <1>1, <1>2, <1>4, <1>5 DEF Greater
  <1>13. correction <= 0 <=> ~(correction > 0)
    OBVIOUS
  <1>14. /\ correction > 0 => p <= q /\ 10 * q <= 11 * p + 5
         /\ correction <= 0 => q <= p /\ 10 * q >= 8 * p - 5
    BY <1>7, <1>8, <1>13
  <1> QED BY <1>9, <1>11, <1>12, <1>14 DEF p, f, c, q

-------------------------------------------------------------------------------
(* The steps.                                                              *)

LEMMA ExceptType ==
    ASSUME NEW S, NEW q \in Seq(S), NEW i \in 1..Len(q), NEW x \in S
    PROVE  [q EXCEPT ![i] = x] \in Seq(S) /\ Len([q EXCEPT ![i] = x]) = Len(q)
  OBVIOUS

LEMMA DeflectionAdded ==
    ASSUME NEW h, HistoryOK(h), InHistory(h), NEW miss \in Int
    PROVE  LET g == AddDeflection(h, miss)
           IN /\ HistoryOK(g) /\ InHistory(g)
              /\ g.index = h.index /\ Len(g.events) = Len(h.events)
              /\ g.open => h.open
  <1> DEFINE e == h.events
             i == h.index + 1
             g == [h EXCEPT !.events = [e EXCEPT ![i] = Append(e[i], miss)]]
  <1>1. e \in Seq(Seq(Int)) /\ i \in 1..Len(e) /\ e[i] \in Seq(Int)
    BY DEF HistoryOK, Events, InHistory
  <1>2. Append(e[i], miss) \in Seq(Int)
    BY <1>1
  <1>3. /\ [e EXCEPT ![i] = Append(e[i], miss)] \in Seq(Seq(Int))
        /\ Len([e EXCEPT ![i] = Append(e[i], miss)]) = Len(e)
    BY <1>1, <1>2, ExceptType
  <1>4. AddDeflection(h, miss) = IF Len(e[i]) < ENTRY_CAPACITY THEN g ELSE Closed(h)
    BY DEF AddDeflection
  <1> DEFINE new == [e EXCEPT ![i] = Append(e[i], miss)]
  <1>5. /\ g \in [events : Events, index : Nat, open : BOOLEAN]
        /\ g.events = new /\ g.index = h.index /\ g.open = h.open
    <2> HIDE DEF e, i, new
    <2> QED BY <1>3 DEF HistoryOK, Events, new
  <1>6. DOMAIN new = 1..Len(new) /\ DOMAIN e = 1..Len(e)
    BY <1>1, <1>3
  <1>7. /\ HistoryOK(g) /\ InHistory(g)
        /\ g.index = h.index /\ Len(g.events) = Len(h.events) /\ g.open = h.open
    <2> HIDE DEF g, new
    <2> QED BY <1>1, <1>3, <1>5, <1>6 DEF HistoryOK, InHistory, new
  <1>8. /\ HistoryOK(Closed(h)) /\ InHistory(Closed(h)) /\ Closed(h).index = h.index
        /\ Closed(h).events = h.events /\ ~Closed(h).open
    BY DEF HistoryOK, Closed, InHistory
  <1> HIDE DEF g
  <1> QED BY <1>4, <1>7, <1>8

\* The state, in the terms of these lemmas.
Places == {"idle", "adjust", "apply", "crashed"}

LEMMA InvParts ==
    BacklashInv <=>
        /\ blc \in BLC /\ Limits(blc) /\ Fixed(blc) /\ (blc.pulse = 0 => ~blc.active)
        /\ HistoryOK(history) /\ WindowSound
        /\ maxDec \in Nat /\ worker \in Places
        /\ move \in [kind : Kinds, y : Int]
  BY DEF BacklashInv, TypeOK, LimitsSound, BLC, Limits, Fixed, HistoryOK, Events, WindowSound,
         Places

LEMMA InvPartsNext ==
    /\ blc' \in BLC /\ Limits(blc)' /\ Fixed(blc)' /\ (blc'.pulse = 0 => ~blc'.active)
    /\ HistoryOK(history)' /\ WindowSound'
    /\ maxDec' \in Nat /\ worker' \in Places
    /\ move' \in [kind : Kinds, y : Int]
    => BacklashInv'
  BY DEF BacklashInv, TypeOK, LimitsSound, BLC, Limits, Fixed, HistoryOK, Events, WindowSound,
         Places

LEMMA InitSound == Init => BacklashInv
  <1> SUFFICES ASSUME Init PROVE BacklashInv
    OBVIOUS
  <1>1. PICK s \in Settings \cup {<<0, 0, 0>>}, enabled \in BOOLEAN :
           blc = CompValues([active |-> enabled /\ s[1] > 0, last |-> "none", pulse |-> 0,
                             floor |-> 0, ceiling |-> 0, fixed |-> FALSE],
                            s[1], s[2], s[3])
    BY DEF Init
  <1> DEFINE b == [active |-> enabled /\ s[1] > 0, last |-> "none", pulse |-> 0,
                   floor |-> 0, ceiling |-> 0, fixed |-> FALSE]
  <1>2. /\ s[1] \in Nat /\ s[2] \in Nat /\ s[3] \in Nat
        /\ s[1] = 0 \/ s[1] >= MIN_COMP_AMOUNT
    BY BacklashAssumption
  <1>3. b \in BLC /\ (b.active => s[1] > 0)
    BY <1>2 DEF BLC
  <1> HIDE DEF b
  <1>4. blc = CompValues(b, s[1], s[2], s[3])
    BY <1>1 DEF b
  <1>5. blc \in BLC /\ Limits(blc) /\ Fixed(blc) /\ (blc.pulse = 0 => ~blc.active)
    <2>1. /\ blc \in BLC /\ Limits(blc) /\ Fixed(blc)
          /\ s[1] > 0 => blc.pulse > 0
          /\ blc.active = b.active
      BY <1>2, <1>3, <1>4, CompValuesSound
    <2>2. blc.active => blc.pulse > 0
      BY <1>3, <2>1
    <2> QED BY <2>1, <2>2
  <1>6. HistoryOK(history)
    <2>1. <<>> \in Events /\ Len(<<>>) = 0
      BY DEF Events
    <2> QED BY <2>1, AssumptionTypes DEF Init, HistoryOK
  <1>7. maxDec \in Nat
    BY <1>5, BacklashAssumption DEF Init, Greater, BLC
  <1>8. worker = "idle" /\ worker \in Places /\ move \in [kind : Kinds, y : Int]
    BY DEF Init, NoMove, Kinds, Places
  <1>9. WindowSound
    BY <1>8, AssumptionTypes DEF Init, WindowSound
  <1> QED BY <1>5, <1>6, <1>7, <1>8, <1>9, InvParts

\* The histories the steps leave.
LEMMA HistorySteps ==
    ASSUME NEW h, HistoryOK(h)
    PROVE  /\ HistoryOK(Closed(h)) /\ ~Closed(h).open
           /\ Closed(h).events = h.events /\ Closed(h).index = h.index
           /\ HistoryOK(Cleared(h)) /\ ~Cleared(h).open /\ Cleared(h).events = <<>>
           /\ HistoryOK(RecordNewBLCPulse(h))
           /\ RecordNewBLCPulse(h).events # <<>>
           /\ RecordNewBLCPulse(h).index = Len(RecordNewBLCPulse(h).events) - 1
  <1>1. /\ HistoryOK(Closed(h)) /\ ~Closed(h).open
        /\ Closed(h).events = h.events /\ Closed(h).index = h.index
    BY DEF HistoryOK, Closed
  <1>2. HistoryOK(Cleared(h)) /\ ~Cleared(h).open /\ Cleared(h).events = <<>>
    <2>1. <<>> \in Events /\ Len(<<>>) = 0
      BY DEF Events
    <2>2. /\ Cleared(h) \in [events : Events, index : Nat, open : BOOLEAN]
          /\ Cleared(h).events = <<>> /\ Cleared(h).open = FALSE
      <3>1. /\ Closed(h) \in [events : Events, index : Nat, open : BOOLEAN]
            /\ Closed(h).open = FALSE
        BY DEF HistoryOK, Closed
      <3> HIDE DEF Closed
      <3> QED BY <2>1, <3>1 DEF Cleared
    <2> QED BY <2>1, <2>2, AssumptionTypes DEF HistoryOK
  <1> DEFINE e == h.events
             kept == IF Len(e) >= HISTORY_DEPTH THEN Tail(e) ELSE e
             new == Append(kept, <<>>)
  <1>3. e \in Seq(Seq(Int)) /\ Len(e) <= HISTORY_DEPTH /\ Len(e) \in Nat
    BY DEF HistoryOK, Events
  <1>4. Len(e) >= HISTORY_DEPTH =>
           Tail(e) \in Seq(Seq(Int)) /\ Len(Tail(e)) = Len(e) - 1
    <2>1. Len(e) >= HISTORY_DEPTH => e # <<>>
      BY <1>3, AssumptionTypes
    <2> QED BY <1>3, <2>1, HeadTailProperties
  <1>5. kept \in Seq(Seq(Int)) /\ Len(kept) \in Nat /\ Len(kept) + 1 <= HISTORY_DEPTH
    BY <1>3, <1>4, AssumptionTypes
  <1> HIDE DEF kept
  <1>6. new \in Seq(Seq(Int)) /\ Len(new) = Len(kept) + 1 /\ new # <<>>
    <2>1. <<>> \in Seq(Int)
      OBVIOUS
    <2> QED BY <1>5, <2>1, AppendProperties
  <1> HIDE DEF new
  <1>7. RecordNewBLCPulse(h) = [events |-> new, index |-> Len(kept), open |-> TRUE]
    BY DEF RecordNewBLCPulse, new, kept
  <1>8. /\ HistoryOK(RecordNewBLCPulse(h))
        /\ RecordNewBLCPulse(h).events # <<>>
        /\ RecordNewBLCPulse(h).index = Len(RecordNewBLCPulse(h).events) - 1
    <2>1. new \in Events
      BY <1>6 DEF Events
    <2> QED BY <1>5, <1>6, <1>7, <2>1 DEF HistoryOK
  <1> QED BY <1>1, <1>2, <1>8

LEMMA TrackSound == BacklashInv /\ Track => BacklashInv'
  <1> SUFFICES ASSUME BacklashInv, Track PROVE BacklashInv'
    OBVIOUS
  <1>1. PICK kind \in Kinds, y \in Offsets :
          /\ move' = [kind |-> kind, y |-> y]
          /\ history' = IF kind = "direct" /\ blc.active THEN Closed(history) ELSE history
          /\ worker' = IF kind = "guide" /\ blc.active /\ history.open /\ ~blc.fixed
                       THEN "adjust" ELSE "apply"
    BY DEF Track
  <1>2. /\ blc \in BLC /\ Limits(blc) /\ Fixed(blc) /\ (blc.pulse = 0 => ~blc.active)
        /\ HistoryOK(history) /\ WindowSound /\ maxDec \in Nat
    BY InvParts
  <1>3. blc' = blc /\ maxDec' = maxDec
    BY DEF Track
  <1>4. y \in Int /\ y # 0
    BY BacklashAssumption
  <1>5. HistoryOK(history') /\ history'.events = history.events
        /\ history'.index = history.index /\ (history'.open => history.open)
    BY <1>1, <1>2, HistorySteps
  <1>6. history.open => InHistory(history)
    BY <1>2 DEF HistoryOK, Events, WindowSound, InHistory
  <1>7. /\ worker' = "adjust" => /\ InHistory(history') /\ move'.y # 0
                                 /\ blc.pulse > 0
        /\ worker' # "crashed"
    BY <1>1, <1>2, <1>4, <1>5, <1>6 DEF InHistory, BLC
  <1>8. WindowSound'
    BY <1>2, <1>3, <1>5, <1>7 DEF WindowSound
  <1>9. worker' \in Places /\ move' \in [kind : Kinds, y : Int]
    BY <1>1, <1>4 DEF Places
  <1>10. Limits(blc)' /\ Fixed(blc)' /\ HistoryOK(history)'
    BY <1>2, <1>3, <1>5
  <1>11. blc' \in BLC /\ (blc'.pulse = 0 => ~blc'.active) /\ maxDec' \in Nat
    BY <1>2, <1>3
  <1> QED BY <1>8, <1>9, <1>10, <1>11, InvPartsNext

\* The offset of a move the worker tracks: by how much it missed.
Miss == IF Direction(move.y) = blc.last THEN Abs(move.y) ELSE -Abs(move.y)
Decided == AdjustmentNeeded(AddDeflection(history, Miss), Miss)

\* Of a history that has been cleared the worker reads what is not there.
LEMMA AdjustCrashes ==
    ASSUME BacklashInv, Adjust, ~InHistory(history)
    PROVE  BacklashInv' /\ blc' = blc
  <1>1. /\ blc \in BLC /\ Limits(blc) /\ Fixed(blc) /\ HistoryOK(history) /\ WindowSound
        /\ (blc.pulse = 0 => ~blc.active) /\ maxDec \in Nat
        /\ move \in [kind : Kinds, y : Int]
    BY InvParts
  <1>2. /\ worker = "adjust" /\ worker' = "crashed" /\ worker' \in Places
        /\ history' = history /\ blc' = blc /\ maxDec' = maxDec /\ move' = move
    BY DEF Adjust, Places
  <1>3. WindowSound'
    BY <1>1, <1>2 DEF WindowSound, InHistory
  <1>4. Limits(blc)' /\ Fixed(blc)' /\ HistoryOK(history)'
    BY <1>1, <1>2
  <1> QED BY <1>1, <1>2, <1>3, <1>4, InvPartsNext

LEMMA AdjustDecides ==
    ASSUME BacklashInv, Adjust, InHistory(history)
    PROVE  /\ Miss \in Int /\ (Miss > 0 <=> Direction(move.y) = blc.last)
           /\ DecisionOK(Decided, AddDeflection(history, Miss), Miss)
           /\ blc.pulse > 0
           /\ history' = Decided.history
           /\ blc' = IF Decided.adjust
                     THEN [blc EXCEPT !.pulse = AdjustedPulse(blc, Decided.correction)]
                     ELSE blc
           /\ maxDec' = IF Decided.adjust THEN Raised(blc') ELSE maxDec
           /\ worker' = "apply" /\ move' = move
  <1>1. /\ blc \in BLC /\ Limits(blc) /\ Fixed(blc) /\ HistoryOK(history) /\ WindowSound
        /\ move \in [kind : Kinds, y : Int]
    BY InvParts
  <1>2. worker = "adjust"
    BY DEF Adjust
  <1>3. InHistory(history) /\ move.y # 0 /\ blc.pulse > 0
    BY <1>1, <1>2 DEF WindowSound
  <1>4. Miss \in Int /\ (Miss > 0 <=> Direction(move.y) = blc.last)
    <2>1. Abs(move.y) \in Int /\ Abs(move.y) > 0
      BY <1>1, <1>3 DEF Abs
    <2> QED BY <2>1 DEF Miss
  <1>5. DecisionOK(Decided, AddDeflection(history, Miss), Miss)
    <2>1. HistoryOK(AddDeflection(history, Miss)) /\ InHistory(AddDeflection(history, Miss))
      BY <1>1, <1>3, <1>4, DeflectionAdded
    <2> QED BY <1>4, <2>1, AdjustmentDecided DEF Decided
  <1>6. /\ history' = Decided.history
        /\ blc' = IF Decided.adjust
                  THEN CompValues(blc, AdjustedPulse(blc, Decided.correction),
                                  blc.floor, blc.ceiling)
                  ELSE blc
        /\ maxDec' = IF Decided.adjust THEN Raised(blc') ELSE maxDec
        /\ worker' = "apply" /\ move' = move
    BY <1>3 DEF Adjust, Decided, Miss
  <1>7. Decided.correction \in Int
    BY <1>5 DEF DecisionOK
  <1>8. CompValues(blc, AdjustedPulse(blc, Decided.correction), blc.floor, blc.ceiling)
           = [blc EXCEPT !.pulse = AdjustedPulse(blc, Decided.correction)]
    BY <1>1, <1>3, <1>7, PulseAdjusted
  <1> QED BY <1>3, <1>4, <1>5, <1>6, <1>8

LEMMA AdjustSound == BacklashInv /\ Adjust => BacklashInv'
  <1> SUFFICES ASSUME BacklashInv, Adjust, InHistory(history) PROVE BacklashInv'
    BY AdjustCrashes
  <1>1. /\ blc \in BLC /\ Limits(blc) /\ Fixed(blc) /\ HistoryOK(history) /\ WindowSound
        /\ (blc.pulse = 0 => ~blc.active) /\ maxDec \in Nat
        /\ move \in [kind : Kinds, y : Int]
    BY InvParts
  <1> DEFINE d == Decided
             q == AdjustedPulse(blc, d.correction)
  <1>2. /\ DecisionOK(d, AddDeflection(history, Miss), Miss) /\ Miss \in Int
        /\ blc.pulse > 0
        /\ history' = d.history
        /\ blc' = IF d.adjust THEN [blc EXCEPT !.pulse = q] ELSE blc
        /\ maxDec' = IF d.adjust THEN Raised(blc') ELSE maxDec
        /\ worker' = "apply" /\ worker' \in Places /\ move' = move
    BY AdjustDecides DEF Places
  <1>3. /\ HistoryOK(history')
        /\ history'.open => history' = AddDeflection(history, Miss)
        /\ d.correction \in Int
    BY <1>2 DEF DecisionOK
  <1>4. WindowSound'
    <2> DEFINE g == AddDeflection(history, Miss)
    <2>1. /\ HistoryOK(g) /\ InHistory(g)
          /\ g.index = history.index /\ Len(g.events) = Len(history.events)
          /\ g.open => history.open
      BY <1>1, <1>2, DeflectionAdded
    <2>2. g.events # <<>>
      BY <2>1 DEF HistoryOK, InHistory, Events
    <2> HIDE DEF g
    <2>3. history'.open => /\ history'.events # <<>>
                           /\ history'.index = Len(history'.events) - 1
      BY <1>1, <1>3, <2>1, <2>2 DEF WindowSound, g
    <2>4. Len(history'.events) <= HISTORY_DEPTH
      BY <1>3 DEF HistoryOK
    <2> QED BY <1>2, <2>3, <2>4 DEF WindowSound
  <1>5. CASE ~d.adjust
    <2>1. blc' = blc /\ maxDec' = maxDec
      BY <1>2, <1>5
    <2>2. /\ blc' \in BLC /\ Limits(blc)' /\ Fixed(blc)' /\ HistoryOK(history)'
          /\ (blc'.pulse = 0 => ~blc'.active) /\ maxDec' \in Nat
      BY <1>1, <1>3, <2>1
    <2> QED BY <1>1, <1>2, <1>4, <2>2, InvPartsNext
  <1>6. CASE d.adjust
    <2>1. /\ q \in Nat /\ q >= MIN_COMP_AMOUNT /\ q > 0
          /\ CompValues(blc, q, blc.floor, blc.ceiling) = blc'
      BY <1>1, <1>2, <1>3, <1>6, PulseAdjusted, AssumptionTypes
    <2>2. blc.floor \in Nat /\ blc.ceiling \in Nat
      BY <1>1 DEF BLC
    <2>3. blc' \in BLC /\ Limits(blc') /\ Fixed(blc') /\ blc'.pulse > 0
      BY <1>1, <2>1, <2>2, CompValuesSound
    <2>4. maxDec' \in Nat
      BY <1>1, <1>2, <1>6, <2>3 DEF Raised, Greater, BLC
    <2>5. blc'.pulse = 0 => ~blc'.active
      BY <2>3 DEF BLC
    <2>6. Limits(blc)' /\ Fixed(blc)' /\ HistoryOK(history)'
      BY <1>3, <2>3
    <2> QED BY <1>1, <1>2, <1>4, <2>3, <2>4, <2>5, <2>6, InvPartsNext
  <1> QED BY <1>5, <1>6

LEMMA ApplySound == BacklashInv /\ Apply => BacklashInv'
  <1> SUFFICES ASSUME BacklashInv, Apply PROVE BacklashInv'
    OBVIOUS
  <1>1. /\ blc \in BLC /\ Limits(blc) /\ Fixed(blc) /\ HistoryOK(history) /\ WindowSound
        /\ (blc.pulse = 0 => ~blc.active) /\ maxDec \in Nat
    BY InvParts
  <1>2. worker' = "idle" /\ worker' \in Places /\ move' = NoMove /\ maxDec' = maxDec
    BY DEF Apply, Places
  <1>3. /\ \/ blc' = blc
           \/ \E y \in Offsets \cup {0, move.y} : blc' = [blc EXCEPT !.last = Direction(y)]
        /\ \/ history' = history
           \/ history' = RecordNewBLCPulse(history)
           \/ history' = Closed(history)
    BY DEF Apply
  <1>4. blc' \in BLC /\ Limits(blc)' /\ Fixed(blc)' /\ (blc'.pulse = 0 => ~blc'.active)
    <2>1. \A y : Direction(y) \in {"down", "up"}
      BY DEF Direction
    <2> QED BY <1>1, <1>3, <2>1 DEF BLC, Limits, Fixed
  <1>5. HistoryOK(history)'
    BY <1>1, <1>3, HistorySteps
  <1>6. WindowSound'
    <2>1. Len(history'.events) <= HISTORY_DEPTH
      BY <1>5 DEF HistoryOK
    <2>2. history'.open => history'.events # <<>> /\ history'.index = Len(history'.events) - 1
      BY <1>1, <1>3, HistorySteps DEF WindowSound
    <2> QED BY <1>2, <2>1, <2>2 DEF WindowSound
  <1>7. move' \in [kind : Kinds, y : Int]
    BY <1>2 DEF NoMove, Kinds
  <1> QED BY <1>1, <1>2, <1>4, <1>5, <1>6, <1>7, InvPartsNext

LEMMA SettingsSound ==
    ASSUME BacklashInv, NEW b \in BLC, NEW enable \in BOOLEAN,
           NEW s \in Nat \X Nat \X Nat, s[1] >= MIN_COMP_AMOUNT,
           SetBacklashPulseWidth(b, s, enable)
    PROVE  BacklashInv'
  <1>1. /\ HistoryOK(history) /\ WindowSound /\ maxDec \in Nat
        /\ worker \in Places /\ move \in [kind : Kinds, y : Int]
    BY InvParts
  <1> DEFINE new == CompValues(b, s[1], s[2], s[3])
  <1>2. new \in BLC /\ Limits(new) /\ Fixed(new) /\ new.pulse > 0
    <2>1. s[1] \in Nat /\ s[2] \in Nat /\ s[3] \in Nat /\ s[1] > 0
      BY AssumptionTypes
    <2> QED BY <2>1, CompValuesSound
  <1> HIDE DEF new
  <1>3. /\ worker # "crashed" /\ worker' = worker /\ move' = move
        /\ blc' = [new EXCEPT !.active = enable] /\ maxDec' = Raised(new)
        /\ history' = history \/ history' = Cleared(history)
    BY DEF SetBacklashPulseWidth, new
  <1>4. /\ blc' \in BLC /\ blc'.pulse = new.pulse /\ blc'.floor = new.floor
        /\ blc'.ceiling = new.ceiling /\ blc'.fixed = new.fixed
    BY <1>2, <1>3 DEF BLC
  <1>5. new.pulse # 0
    BY <1>2 DEF BLC
  <1>6. Limits(blc)' /\ Fixed(blc)' /\ (blc'.pulse = 0 => ~blc'.active)
    BY <1>2, <1>4, <1>5 DEF Limits, Fixed
  <1>7. maxDec' \in Nat
    BY <1>1, <1>2, <1>3 DEF Raised, Greater, BLC
  <1>8. HistoryOK(history)'
    BY <1>1, <1>3, HistorySteps
  <1>9. WindowSound'
    <2>1. Len(history'.events) <= HISTORY_DEPTH
      BY <1>8 DEF HistoryOK
    <2>2. history'.open => history'.events # <<>> /\ history'.index = Len(history'.events) - 1
      BY <1>1, <1>3, HistorySteps DEF WindowSound
    <2>3. worker' = "adjust" => InHistory(history') \/ history'.events = <<>>
      <3>1. Cleared(history).events = <<>>
        BY <1>1, HistorySteps
      <3> QED BY <1>1, <1>3, <3>1 DEF WindowSound
    <2>4. worker' = "adjust" => move'.y # 0 /\ blc'.pulse > 0
      BY <1>1, <1>2, <1>3, <1>4 DEF WindowSound
    <2> QED BY <1>3, <2>1, <2>2, <2>3, <2>4 DEF WindowSound
  <1> QED BY <1>1, <1>3, <1>4, <1>6, <1>7, <1>8, <1>9, InvPartsNext

\* A reset, and the end of the compensation, while the worker tracks or not.
LEMMA ResetSound ==
    ASSUME BacklashInv, UNCHANGED <<maxDec, worker, move>>,
           \/ blc' = [blc EXCEPT !.active = FALSE] /\ UNCHANGED history
           \/ Reset
    PROVE  BacklashInv'
  <1>1. /\ blc \in BLC /\ Limits(blc) /\ Fixed(blc) /\ HistoryOK(history) /\ WindowSound
        /\ (blc.pulse = 0 => ~blc.active) /\ maxDec \in Nat
        /\ worker \in Places /\ move \in [kind : Kinds, y : Int]
    BY InvParts
  <1>2. /\ \/ blc' = blc
           \/ blc' = [blc EXCEPT !.active = FALSE]
           \/ blc' = [blc EXCEPT !.last = "none"]
        /\ history' = history \/ history' = Closed(history)
    BY DEF Reset
  <1>3. /\ blc' \in BLC /\ Limits(blc)' /\ Fixed(blc)' /\ (blc'.pulse = 0 => ~blc'.active)
        /\ blc'.pulse = blc.pulse /\ blc'.fixed = blc.fixed
    BY <1>1, <1>2 DEF BLC, Limits, Fixed
  <1>4. /\ HistoryOK(history)' /\ history'.events = history.events
        /\ history'.index = history.index /\ (history'.open => history.open)
    BY <1>1, <1>2, HistorySteps
  <1>5. worker' = worker /\ move' = move /\ maxDec' = maxDec
    OBVIOUS
  <1>6. WindowSound'
    BY <1>1, <1>3, <1>4, <1>5 DEF WindowSound, InHistory
  <1> QED BY <1>1, <1>3, <1>4, <1>5, <1>6, InvPartsNext

LEMMA NextSound == BacklashInv /\ [Next]_vars => BacklashInv'
  <1> SUFFICES ASSUME BacklashInv, [Next]_vars PROVE BacklashInv'
    OBVIOUS
  <1>1. blc \in BLC
    BY InvParts
  <1>2. CASE SettingsChanged
    <2>1. PICK s \in Settings, enable \in BOOLEAN :
             SetBacklashPulseWidth([blc EXCEPT !.active = enable], s, enable)
      BY <1>2 DEF SettingsChanged
    <2>2. [blc EXCEPT !.active = enable] \in BLC
      BY <1>1 DEF BLC
    <2>3. s \in Nat \X Nat \X Nat /\ s[1] >= MIN_COMP_AMOUNT
      BY BacklashAssumption
    <2> QED BY <2>1, <2>2, <2>3, SettingsSound
  <1>3. CASE Recommended
    <2>1. PICK s \in Settings, enable \in BOOLEAN :
             SetBacklashPulseWidth(blc, <<s[1], 0, 0>>, enable)
      BY <1>3 DEF Recommended
    <2>2. <<s[1], 0, 0>> \in Nat \X Nat \X Nat /\ s[1] >= MIN_COMP_AMOUNT
      BY BacklashAssumption
    <2> QED BY <1>1, <2>1, <2>2, SettingsSound
  <1>4. CASE SetDecGuideMode
    BY <1>4, ResetSound DEF SetDecGuideMode
  <1>5. CASE GuidingStopped
    BY <1>5, ResetSound DEF GuidingStopped
  <1>6. CASE UNCHANGED vars
    <2>1. /\ blc' = blc /\ history' = history /\ maxDec' = maxDec
          /\ worker' = worker /\ move' = move
      BY <1>6 DEF vars
    <2>2. /\ Limits(blc) /\ Fixed(blc) /\ (blc.pulse = 0 => ~blc.active)
          /\ HistoryOK(history) /\ WindowSound
          /\ maxDec \in Nat /\ worker \in Places
          /\ move \in [kind : Kinds, y : Int]
      BY InvParts
    <2>3. WindowSound' /\ Limits(blc)' /\ Fixed(blc)' /\ HistoryOK(history)'
      BY <2>1, <2>2 DEF WindowSound, InHistory
    <2> QED BY <1>1, <2>1, <2>2, <2>3, InvPartsNext
  <1> QED BY <1>2, <1>3, <1>4, <1>5, <1>6, TrackSound, AdjustSound, ApplySound DEF Next

-------------------------------------------------------------------------------
(* The theorems.                                                           *)

\* The invariant: the fields have their types, the limits are sound, and what the
\* worker tracks has an event in the history unless the user has cleared it under the
\* worker.
THEOREM InvHolds == Spec => []BacklashInv
  BY InitSound, NextSound, PTL DEF Spec

\* The history is read beyond its end in one case only, when the user clears it while
\* the worker tracks; nothing else that shortens it does that, for any depth and any
\* settings.
THEOREM HistorySoundHolds == Spec => []HistorySound
  <1>1. BacklashInv => HistorySound
    BY DEF BacklashInv, TypeOK, WindowSound, HistorySound
  <1> QED BY <1>1, InvHolds, PTL

\* Adjustments leave the user's limits alone, stay within them and go the way the
\* miss demands, for any history and any average of it.
THEOREM AdjustmentBoundedHolds == Spec => AdjustmentBounded
  <1> DEFINE Bounded ==
         /\ blc' = [blc EXCEPT !.pulse = blc'.pulse]
         /\ blc'.pulse \in blc.floor..blc.ceiling
         /\ 10 * blc'.pulse <= 11 * blc.pulse + 5
         /\ 10 * blc'.pulse >= 8 * blc.pulse - 5
         /\ blc'.pulse > blc.pulse <=> Direction(move.y) = blc.last
  <1>1. ASSUME BacklashInv, Adjust, blc' # blc PROVE Bounded
    <2>0. InHistory(history)
      BY <1>1, AdjustCrashes
    <2> DEFINE q == AdjustedPulse(blc, Decided.correction)
    <2>1. /\ blc \in BLC /\ Limits(blc) /\ Fixed(blc)
      BY <1>1, InvParts
    <2>2. /\ Miss > 0 <=> Direction(move.y) = blc.last
          /\ DecisionOK(Decided, AddDeflection(history, Miss), Miss) /\ Miss \in Int
          /\ blc.pulse > 0
          /\ blc' = [blc EXCEPT !.pulse = q]
      BY <1>1, <2>0, AdjustDecides
    <2>3. /\ Decided.correction \in Int
          /\ IF Miss > 0 THEN Decided.correction >= 0 ELSE Decided.correction <= 0
      BY <2>2 DEF DecisionOK
    <2>4. /\ q \in Nat /\ blc.floor <= q /\ q <= blc.ceiling
          /\ Decided.correction > 0 =>
                blc.pulse <= q /\ 10 * q <= 11 * blc.pulse + 5
          /\ Decided.correction <= 0 =>
                q <= blc.pulse /\ 10 * q >= 8 * blc.pulse - 5
          /\ Decided.correction = 0 => q = blc.pulse
      BY <2>1, <2>2, <2>3, PulseAdjusted
    <2> HIDE DEF q
    <2>5. blc'.pulse = q /\ q # blc.pulse
      BY <1>1, <2>1, <2>2 DEF BLC
    <2>6. blc.pulse \in Nat /\ blc.floor \in Nat /\ blc.ceiling \in Nat
      BY <2>1 DEF BLC
    <2>7. blc' = [blc EXCEPT !.pulse = blc'.pulse]
      BY <2>1, <2>2, <2>5
    <2>8. /\ q \in blc.floor..blc.ceiling
          /\ 10 * q <= 11 * blc.pulse + 5
          /\ 10 * q >= 8 * blc.pulse - 5
          /\ q > blc.pulse <=> Miss > 0
      <3>1. Decided.correction # 0
        BY <2>3, <2>4, <2>5
      <3>2. CASE Miss > 0
        BY <2>3, <2>4, <2>5, <2>6, <3>1, <3>2
      <3>3. CASE ~(Miss > 0)
        BY <2>3, <2>4, <2>5, <2>6, <3>1, <3>3
      <3> QED BY <3>2, <3>3
    <2> QED BY <2>2, <2>5, <2>7, <2>8
  <1>2. BacklashInv /\ [Next]_vars =>
           [Adjust /\ blc' # blc => Bounded]_vars
    BY <1>1
  <1> QED BY <1>2, InvHolds, PTL DEF Spec, AdjustmentBounded

===============================================================================
