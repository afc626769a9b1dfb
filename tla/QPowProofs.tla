----------------------------- MODULE QPowProofs -----------------------------
(***************************************************************************)
(* Safety of the difficulty pallet, for every scale, clamp, target, period, *)
(* ring size and initial threshold.                                        *)
(***************************************************************************)
EXTENDS QPow, FiniteSetTheorems, FunctionTheorems, TLAPS

----------------------------------------------------------------------------
(* Arithmetic *)

\* What integer division leaves.
LEMMA DivBounds ==
  ASSUME NEW a \in Nat, NEW b \in Nat \ {0}
  PROVE  /\ a \div b \in Nat
         /\ (a \div b) * b <= a
         /\ a < (a \div b) * b + b
  OBVIOUS

\* Multiplying keeps an order.
LEMMA TimesMonotone ==
  ASSUME NEW a \in Nat, NEW b \in Nat, NEW c \in Nat, a <= b
  PROVE  /\ a * c \in Nat /\ b * c \in Nat
         /\ a * c <= b * c
         /\ c * a <= c * b
  OBVIOUS

\* Multiplication distributes over addition and subtraction.
LEMMA TimesDistributes ==
  ASSUME NEW a \in Int, NEW b \in Int, NEW c \in Int
  PROVE  a * (b + c) = a * b + a * c /\ a * (b - c) = a * b - a * c
  OBVIOUS

----------------------------------------------------------------------------
(* The sum of block times *)

\* A finite sequence of naturals has finitely many units.
LEMMA UnitsFinite ==
  ASSUME NEW n \in Nat, NEW s \in [1 .. n -> Nat]
  PROVE  IsFiniteSet(Units(s))
<1> DEFINE f == [i \in 1 .. n |-> {i} \X (1 .. s[i])]
           R == {f[i] : i \in 1 .. n}
<1>1. IsFiniteSet(1 .. n)
  BY FS_Interval
<1>2. f \in Surjection(1 .. n, R)
  BY DEF Surjection
<1>3. IsFiniteSet(R)
  BY <1>1, <1>2, FS_Surjection
<1>4. \A i \in 1 .. n : IsFiniteSet(f[i])
  <2> TAKE i \in 1 .. n
  <2>1. IsFiniteSet({i})
    BY FS_Singleton
  <2>2. 1 \in Int /\ s[i] \in Int
    OBVIOUS
  <2>3. IsFiniteSet(1 .. s[i])
    BY <2>2, FS_Interval
  <2>4. IsFiniteSet({i} \X (1 .. s[i]))
    BY <2>1, <2>3, FS_Product
  <2> QED BY <2>4
<1>5. IsFiniteSet(UNION R)
  BY <1>3, <1>4, FS_UNION
<1>6. Units(s) = UNION R
  BY DEF Units
<1> QED BY <1>5, <1>6

\* Their number is a natural number.
LEMMA TotalType ==
  ASSUME NEW n \in Nat, NEW s \in [1 .. n -> Nat]
  PROVE  Total(s) \in Nat
<1>1. IsFiniteSet(Units(s))
  BY UnitsFinite
<1>2. Cardinality(Units(s)) \in Nat
  BY ONLY <1>1, FS_CardinalityType
<1> QED BY ONLY <1>2 DEF Total

\* get_block_time_sum of any ring.
LEMMA SumType ==
  ASSUME NEW ts \in [0 .. HistoryMax - 1 -> Nat], NEW n \in 0 .. HistoryMax
  PROVE  BlockTimeSum(ts, n) \in Nat
<1>1. n \in Nat /\ Samples(ts, n) \in [1 .. n -> Nat]
  BY QPowAssumption DEF Samples
<1>2. Total(Samples(ts, n)) \in Nat
  BY ONLY <1>1, TotalType
<1> QED BY <1>2, QPowAssumption DEF BlockTimeSum

----------------------------------------------------------------------------
(* The adjustment *)

ClampStep == (Clamp * Scale) \div 100

\* The clamp is at most one, and leaves Shift below one minus itself.
LEMMA ClampBounds == /\ ClampStep \in 0 .. Scale
                     /\ 100 * ClampStep <= Clamp * Scale
                     /\ Shift <= Scale - ClampStep
<1> USE QPowAssumption
<1>1. Clamp * Scale \in Nat /\ Clamp * Scale <= 100 * Scale
  BY TimesMonotone
<1>2. ClampStep \in Nat /\ ClampStep * 100 <= Clamp * Scale
  BY <1>1, DivBounds DEF ClampStep
<1>3. Shift + ClampStep <= Scale
  BY DEF ClampStep
<1> QED BY <1>1, <1>2, <1>3

\* The target of some samples is not zero.
LEMMA PeriodIsPositive ==
  ASSUME NEW n \in 1 .. HistoryMax
  PROVE  Target * n \in Nat \ {0}
<1> USE QPowAssumption
<1>1. n \in Nat /\ 1 \in Nat /\ 1 <= n /\ Target \in Nat
  OBVIOUS
<1>2. Target * 1 <= Target * n /\ n * Target \in Nat
  BY <1>1, TimesMonotone
<1> QED BY <1>1, <1>2

\* The ratio stays within the clamp, and is one at least when blocks are slow.
LEMMA RatioBounds ==
  ASSUME NEW observed \in Nat, NEW target \in Nat \ {0}
  PROVE  /\ Ratio(observed, target) \in Scale - ClampStep .. Scale + ClampStep
         /\ observed >= target => Ratio(observed, target) >= Scale
<1> USE QPowAssumption
<1> DEFINE x == (observed * Scale) \div target
<1>1. observed * Scale \in Nat
  OBVIOUS
<1>2. x \in Nat /\ observed * Scale < x * target + target
  BY <1>1, DivBounds
<1>3. ASSUME observed >= target PROVE x >= Scale
  <2>1. target * Scale <= observed * Scale
    BY <1>3, TimesMonotone
  <2>2. ASSUME x + 1 <= Scale PROVE FALSE
    <3>1. (x + 1) * target <= Scale * target
      BY <1>2, <2>2, TimesMonotone
    <3>2. (x + 1) * target = x * target + target
      BY <1>2
    <3> QED BY <1>1, <1>2, <2>1, <3>1, <3>2
  <2> QED BY <1>2, <2>2
<1>4. Ratio(observed, target)
        = Greater(Lesser(x, Scale + ClampStep), Scale - ClampStep)
  BY DEF Ratio, ClampStep
<1> HIDE DEF x
<1> QED BY <1>2, <1>3, <1>4, ClampBounds DEF Greater, Lesser

\* One adjustment of a threshold within its limits, in all its bounds.
LEMMA AdjustedBounds ==
  ASSUME NEW t \in MinDistance .. MaxDistance,
         NEW observed \in Nat, NEW target \in Nat \ {0}
  PROVE  LET a == Adjusted(t, observed, target)
         IN  /\ a \in MinDistance .. MaxDistance
             /\ a = MinDistance \/ a >= Shift \/ a = t
             /\ 100 * a <= (100 + Clamp) * t
             /\ 100 * (a + 2 * Scale) >= (100 - Clamp) * t
             /\ (a < t /\ observed >= target) => t - a < Scale
             /\ (t < Scale /\ a # t) => a = MinDistance
<1> USE QPowAssumption
<1> DEFINE q == t \div Scale
           r == Ratio(observed, target)
           m == q * r
           a == Adjusted(t, observed, target)
<1>1. t \in Nat /\ t >= 1 /\ t <= 4 * Initial /\ 4 * Initial <= WordMax
  BY DEF MinDistance, MaxDistance
<1>2. q \in Nat /\ q * Scale <= t /\ t < q * Scale + Scale
  BY <1>1, DivBounds
<1>3. /\ r \in Nat /\ Scale - ClampStep <= r /\ r <= Scale + ClampStep
      /\ observed >= target => r >= Scale
  BY RatioBounds, ClampBounds
<1>4. m \in Nat
  BY <1>2, <1>3
<1>5. a = IF r = Scale THEN t
          ELSE IF Lesser(m, WordMax) < 1 THEN 1
          ELSE Lesser(Lesser(m, WordMax), 4 * Initial)
  BY <1>1 DEF Adjusted, Saturate, MinDistance, MaxDistance, Lesser
<1>6. a = IF r = Scale THEN t
          ELSE IF m < 1 THEN 1
          ELSE IF m > 4 * Initial THEN 4 * Initial ELSE m
  BY <1>1, <1>4, <1>5 DEF Lesser
<1> HIDE DEF a
<1>7. a \in MinDistance .. MaxDistance
  BY <1>1, <1>4, <1>6 DEF MinDistance, MaxDistance
<1>8. q >= 1 => m >= r
  BY <1>2, <1>3, TimesMonotone
<1>9. q = 0 => m = 0
  BY <1>3
<1> HIDE DEF m, q, r
<1>10. a = MinDistance \/ a >= Shift \/ a = t
  BY <1>1, <1>2, <1>3, <1>4, <1>6, <1>8, <1>9, ClampBounds DEF MinDistance
<1>11. (t < Scale /\ a # t) => a = MinDistance
  <2>1. q >= 1 => q * Scale >= Scale
    BY <1>2, TimesMonotone
  <2> QED BY <1>1, <1>2, <1>6, <1>9, <2>1 DEF MinDistance
<1> DEFINE w == q * Scale
           e == q * ClampStep
           c == Clamp * w
<1>12. w \in Nat /\ w <= t /\ t < w + Scale
  BY <1>2
<1>13. e \in Nat /\ c \in Nat /\ 100 * e <= c
  <2>1. q * (100 * ClampStep) <= q * (Clamp * Scale)
    BY <1>2, ClampBounds, TimesMonotone
  <2>2. q * (100 * ClampStep) = 100 * e
    BY <1>2, ClampBounds
  <2>3. q * (Clamp * Scale) = Clamp * w
    BY <1>2
  <2> QED BY <1>2, <1>12, <2>1, <2>2, <2>3, ClampBounds
<1>14. c <= Clamp * t /\ Clamp * t \in Nat
  BY <1>1, <1>12, TimesMonotone
<1>15. w - e <= m /\ m <= w + e
  <2>1. q * (Scale - ClampStep) = w - e /\ q * (Scale + ClampStep) = w + e
    BY <1>2, ClampBounds, TimesDistributes
  <2>2. q * (Scale - ClampStep) <= q * r /\ q * r <= q * (Scale + ClampStep)
    BY <1>2, <1>3, ClampBounds, TimesMonotone
  <2> QED BY <2>1, <2>2 DEF m
<1>16. 100 * a <= (100 + Clamp) * t
  <2>1. (100 + Clamp) * t = 100 * t + Clamp * t
    BY <1>1
  <2>2. a <= t \/ a <= m
    BY <1>1, <1>4, <1>6
  <2>3. 100 * m <= 100 * t + Clamp * t
    BY <1>1, <1>4, <1>12, <1>13, <1>14, <1>15
  <2>4. a \in Nat
    BY <1>7 DEF MinDistance, MaxDistance
  <2> QED BY <1>1, <1>4, <1>14, <2>1, <2>2, <2>3, <2>4
<1>17. 100 * (a + 2 * Scale) >= (100 - Clamp) * t
  <2>1. (100 - Clamp) * t = 100 * t - Clamp * t
    BY <1>1
  <2>2. a >= t \/ a >= m
    BY <1>1, <1>4, <1>6
  <2>3. a \in Nat
    BY <1>7 DEF MinDistance, MaxDistance
  <2>4. 100 * m >= 100 * w - c
    BY <1>4, <1>12, <1>13, <1>15
  <2>5. c + 100 * t <= 100 * w + Clamp * t + 100 * Scale
    BY <1>1, <1>12, <1>13, <1>14
  <2> QED BY <1>1, <1>4, <1>12, <1>13, <1>14, <2>1, <2>2, <2>3, <2>4, <2>5
<1>18. (a < t /\ observed >= target) => t - a < Scale
  <2> SUFFICES ASSUME a < t, observed >= target PROVE t - a < Scale
    OBVIOUS
  <2>1. q * Scale <= q * r
    BY <1>2, <1>3, TimesMonotone
  <2>2. m >= w
    BY <2>1 DEF m
  <2> QED BY <1>1, <1>4, <1>6, <1>12, <2>2
<1> QED BY <1>7, <1>10, <1>11, <1>16, <1>17, <1>18 DEF a

----------------------------------------------------------------------------
(* The invariant *)

\* Before the first block is done the threshold is the initial one, so that
\* on_idle changes nothing: then, because it is; later, because of last.
Fresh == (last = 0 \/ number = 0) =>
           number = 0 /\ size = 0 /\ threshold = Initial

\* A threshold that has not reached the floor is far from it.
Floor == threshold = MinDistance \/ threshold >= Shift

QInv == TypeOK /\ Fresh /\ Floor /\ TotalsAgree /\ HaltsAtTheFloor

\* It holds of genesis.
LEMMA InitQInv == Init => QInv
<1> SUFFICES ASSUME Init PROVE QInv
  OBVIOUS
<1> USE QPowAssumption DEF Init
<1>1. Initial \in MinDistance .. MaxDistance
  BY DEF MinDistance, MaxDistance
<1>2. times \in [0 .. HistoryMax - 1 -> Nat] /\ index \in 0 .. HistoryMax - 1
  OBVIOUS
<1>3. TypeOK
  <2>1. period \in 0 .. Period /\ size \in 0 .. HistoryMax
    OBVIOUS
  <2>2. halted \in BOOLEAN
    OBVIOUS
  <2>3. threshold = Initial /\ stored = Initial
    OBVIOUS
  <2>4. number \in Nat /\ last \in Nat /\ work \in Nat /\ aux \in Nat
    OBVIOUS
  <2> QED BY <1>1, <1>2, <2>1, <2>2, <2>3, <2>4, Zenon DEF TypeOK
<1>4. Fresh /\ Floor /\ TotalsAgree /\ HaltsAtTheFloor
  BY DEF Fresh, Floor, TotalsAgree, HaltsAtTheFloor
<1> QED BY <1>3, <1>4 DEF QInv

\* What record_block_time leaves is a ring again.
LEMMA RecordedType ==
  ASSUME TypeOK, NEW gap \in Gap
  PROVE  LET rec == Recorded(gap)
         IN  /\ rec.times \in [0 .. HistoryMax - 1 -> Nat]
             /\ rec.index \in 0 .. HistoryMax - 1
             /\ rec.size \in 1 .. HistoryMax
  BY QPowAssumption DEF TypeOK, Recorded

\* The difficulty of a threshold is a number.
LEMMA DifficultyType ==
  ASSUME NEW t \in MinDistance .. MaxDistance
  PROVE  DifficultyOf(t) \in Nat /\ Demand(t) = t
<1>1. t \in Nat \ {0} /\ MaxDistance \in Nat
  BY QPowAssumption DEF MinDistance, MaxDistance
<1> QED BY <1>1, DivBounds DEF DifficultyOf, Demand

\* All that a block which does not panic changes.
LEMMA Adjustment ==
  ASSUME QInv, NEW gap \in Gap, NEW idle \in BOOLEAN, Finalize(gap, idle)
  PROVE  /\ ~halted
         /\ \/ halted' /\ UNCHANGED <<number, last, threshold, stored, work,
                                      period, times, index, size, recent, aux>>
               /\ PercentagePanics(threshold)
            \/ /\ halted' = halted
               /\ number' = number + 1 /\ last' = last + gap
               /\ stored' = threshold
               /\ work' = work + DifficultyOf(threshold)
               /\ aux' = aux + DifficultyOf(threshold)
               /\ period' = IF period >= Period THEN 0 ELSE period + 1
               /\ times' \in [0 .. HistoryMax - 1 -> Nat]
               /\ index' \in 0 .. HistoryMax - 1
               /\ size' \in 0 .. HistoryMax
               /\ \/ threshold' = threshold
                  \/ /\ size' > 0
                     /\ threshold' = Adjusted(threshold,
                                       BlockTimeSum(times', size'),
                                       Target * size')
<1> DEFINE rec == IF Recording THEN Recorded(gap)
                  ELSE [times |-> times, index |-> index, size |-> size]
           adjust == Adjusting(rec.size)
<1>1. Idled(idle) = threshold
  BY DEF Idled, QInv, Fresh
<1>2. /\ rec.times \in [0 .. HistoryMax - 1 -> Nat]
      /\ rec.index \in 0 .. HistoryMax - 1
      /\ rec.size \in 0 .. HistoryMax
  <2>1. CASE Recording
    <3>1. rec = Recorded(gap)
      BY <2>1
    <3>2. 1 .. HistoryMax \subseteq 0 .. HistoryMax
      BY QPowAssumption
    <3> HIDE DEF rec
    <3> QED BY <3>1, <3>2, RecordedType DEF QInv
  <2>2. CASE ~Recording
    BY <2>2 DEF QInv, TypeOK
  <2> QED BY <2>1, <2>2
<1>3. ~halted
  BY DEF Finalize
<1>4. IF adjust /\ PercentagePanics(threshold)
      THEN halted' = TRUE
           /\ UNCHANGED <<number, last, threshold, stored, work, period,
                          times, index, size, recent, aux>>
      ELSE /\ number' = number + 1 /\ last' = last + gap
           /\ stored' = threshold
           /\ work' = work + DifficultyOf(threshold)
           /\ aux' = aux + DifficultyOf(threshold)
           /\ times' = rec.times /\ index' = rec.index /\ size' = rec.size
           /\ threshold' = IF adjust
                           THEN Adjusted(threshold,
                                         BlockTimeSum(rec.times, rec.size),
                                         Target * rec.size)
                           ELSE threshold
           /\ period' = IF period >= Period THEN 0 ELSE period + 1
           /\ UNCHANGED halted
  BY <1>1 DEF Finalize, AdjustDistanceThreshold, Worked
<1>5. adjust => rec.size > 0
  BY <1>2 DEF Adjusting
<1> HIDE DEF rec, adjust
<1> QED BY <1>2, <1>3, <1>4, <1>5

\* The adjustment's bounds, for the threshold of a step.
LEMMA StepBounds ==
  ASSUME TypeOK, size' \in 1 .. HistoryMax,
         times' \in [0 .. HistoryMax - 1 -> Nat],
         threshold' = Adjusted(threshold, BlockTimeSum(times', size'),
                               Target * size')
  PROVE  /\ threshold' \in MinDistance .. MaxDistance
         /\ threshold' = MinDistance \/ threshold' >= Shift
              \/ threshold' = threshold
         /\ 100 * threshold' <= (100 + Clamp) * threshold
         /\ 100 * (threshold' + 2 * Scale) >= (100 - Clamp) * threshold
         /\ (threshold' < threshold
               /\ BlockTimeSum(times', size') >= Target * size')
              => threshold - threshold' < Scale
         /\ (threshold < Scale /\ threshold' # threshold)
              => threshold' = MinDistance
<1> USE QPowAssumption
<1>1. BlockTimeSum(times', size') \in Nat
  BY SumType
<1>2. Target * size' \in Nat \ {0}
  BY PeriodIsPositive
<1>3. threshold \in MinDistance .. MaxDistance
  BY DEF TypeOK
<1> DEFINE sum == BlockTimeSum(times', size')
           due == Target * size'
           a == Adjusted(threshold, sum, due)
<1>4. threshold' = a
  OBVIOUS
<1>5. threshold \in MinDistance .. MaxDistance /\ sum \in Nat /\ due \in Nat \ {0}
  BY <1>1, <1>2, <1>3
<1> HIDE DEF sum, due
<1>6. /\ a \in MinDistance .. MaxDistance
      /\ a = MinDistance \/ a >= Shift \/ a = threshold
      /\ 100 * a <= (100 + Clamp) * threshold
      /\ 100 * (a + 2 * Scale) >= (100 - Clamp) * threshold
      /\ (a < threshold /\ sum >= due) => threshold - a < Scale
      /\ (threshold < Scale /\ a # threshold) => a = MinDistance
  BY ONLY <1>5, AdjustedBounds, Zenon
<1> HIDE DEF a
<1> QED BY <1>4, <1>6 DEF sum, due

\* Every block keeps it.
LEMMA NextQInv == QInv /\ [Next]_vars => QInv'
<1> SUFFICES ASSUME QInv, [Next]_vars PROVE QInv'
  OBVIOUS
<1> USE QPowAssumption
<1>1. ASSUME NEW gap \in Gap, NEW idle \in BOOLEAN, Finalize(gap, idle)
      PROVE  QInv'
  <2>1. threshold \in MinDistance .. MaxDistance /\ threshold \in Nat
    BY DEF QInv, TypeOK, MinDistance, MaxDistance
  <2>2. ~halted
    BY <1>1, Adjustment
  <2>3. CASE /\ halted' /\ PercentagePanics(threshold)
             /\ UNCHANGED <<number, last, threshold, stored, work, period,
                            times, index, size, recent, aux>>
    <3>1. threshold < Shift
      BY <2>1, <2>3, DivBounds DEF PercentagePanics
    <3>2. HaltsAtTheFloor'
      BY <2>1, <2>3, <3>1 DEF HaltsAtTheFloor, QInv, Floor, MinDistance
    <3>3. TypeOK' /\ Fresh' /\ Floor' /\ TotalsAgree'
      BY <2>3 DEF QInv, TypeOK, Fresh, Floor, TotalsAgree
    <3> QED BY <3>2, <3>3 DEF QInv
  <2>4. CASE halted' = halted
    <3>1. /\ number' = number + 1 /\ last' = last + gap
          /\ stored' = threshold
          /\ work' = work + DifficultyOf(threshold)
          /\ aux' = aux + DifficultyOf(threshold)
          /\ period' = IF period >= Period THEN 0 ELSE period + 1
          /\ times' \in [0 .. HistoryMax - 1 -> Nat]
          /\ index' \in 0 .. HistoryMax - 1
          /\ size' \in 0 .. HistoryMax
          /\ \/ threshold' = threshold
             \/ /\ size' > 0
                /\ threshold' = Adjusted(threshold,
                                  BlockTimeSum(times', size'),
                                  Target * size')
      BY <1>1, <2>2, <2>4, Adjustment
    <3>2. DifficultyOf(threshold) \in Nat
      BY <2>1, DifficultyType
    <3>3. /\ threshold' \in MinDistance .. MaxDistance
          /\ threshold' = MinDistance \/ threshold' >= Shift
               \/ threshold' = threshold
      <4>1. CASE threshold' = threshold
        BY <2>1, <4>1
      <4>2. CASE threshold' # threshold
        BY <3>1, <4>2, StepBounds DEF QInv
      <4> QED BY <4>1, <4>2
    <3>4. TypeOK'
      <4>1. number' \in Nat /\ last' \in Nat
        BY <3>1 DEF QInv, TypeOK
      <4>2. work' \in Nat /\ aux' \in Nat
        <5>1. work \in Nat /\ aux \in Nat
          BY DEF QInv, TypeOK
        <5> QED BY ONLY <5>1, <3>1, <3>2
      <4>3. period' \in 0 .. Period
        BY <3>1 DEF QInv, TypeOK
      <4>4. stored' \in MinDistance .. MaxDistance /\ halted' \in BOOLEAN
        BY <2>1, <2>4, <3>1 DEF QInv, TypeOK
      <4> QED BY <3>1, <3>3, <4>1, <4>2, <4>3, <4>4
              DEF TypeOK, MinDistance, MaxDistance
    <3>5. Fresh'
      BY <3>1 DEF QInv, TypeOK, Fresh
    <3>6. Floor'
      BY <3>3 DEF QInv, Floor
    <3>7. TotalsAgree'
      BY <3>1, <3>2 DEF QInv, TypeOK, TotalsAgree
    <3>8. HaltsAtTheFloor'
      BY <2>2, <2>4 DEF HaltsAtTheFloor
    <3> QED BY <3>4, <3>5, <3>6, <3>7, <3>8 DEF QInv
  <2> QED BY <1>1, <2>2, <2>3, <2>4, Adjustment
<1>2. CASE UNCHANGED vars
  BY <1>2 DEF vars, QInv, TypeOK, Fresh, Floor, TotalsAgree, HaltsAtTheFloor
<1> QED BY <1>1, <1>2 DEF Next

\* The strengthened invariant holds of every chain of blocks (lib.rs:303).
THEOREM Invariance == Spec => []QInv
<1> QED BY InitQInv, NextQInv, PTL DEF Spec

----------------------------------------------------------------------------
(* The theorems *)

\* Threshold and history are always within their bounds (TypeOK): no sequence
\* of block times brings the difficulty to zero or to a division by zero.
THEOREM ThresholdStaysBounded == Spec => []TypeOK
<1>1. QInv => TypeOK
  BY DEF QInv
<1> QED BY <1>1, Invariance, PTL

\* TotalWork and the total of PowAux always agree: selection and import
\* compare the same totals.
THEOREM TotalsAlwaysAgree == Spec => []TotalsAgree
<1>1. QInv => TotalsAgree
  BY DEF QInv
<1> QED BY <1>1, Invariance, PTL

\* Only a threshold that has fallen to the minimum makes percentage_change
\* panic.
THEOREM OnlyTheFloorHalts == Spec => []HaltsAtTheFloor
<1>1. QInv => HaltsAtTheFloor
  BY DEF QInv
<1> QED BY <1>1, Invariance, PTL

\* What verify_historical_block accepts for a block is what was accepted for
\* its import.
THEOREM HistoryAlwaysAgrees == Spec => HistoryAgrees
<1> DEFINE Accepts == \A d \in {Demand(threshold), Demand(threshold) + 1} :
                        VerifyForImport(d) = VerifyHistorical(d)'
<1>1. ASSUME QInv, [Next]_vars, number' # number PROVE Accepts
  <2>1. threshold \in MinDistance .. MaxDistance /\ threshold \in Nat \ {0}
    BY <1>1, QPowAssumption DEF QInv, TypeOK, MinDistance, MaxDistance
  <2>2. PICK gap \in Gap, idle \in BOOLEAN : Finalize(gap, idle)
    BY <1>1 DEF Next, vars
  <2>3. stored' = threshold
    BY <1>1, <2>2, Adjustment
  <2>4. Demand(threshold) = threshold
    BY <2>1, DifficultyType
  <2> QED BY <2>1, <2>3, <2>4 DEF VerifyForImport, VerifyHistorical
<1>2. QInv /\ [Next]_vars => [number' # number => Accepts]_vars
  BY <1>1
<1>3. HistoryAgrees <=> [][number' # number => Accepts]_vars
  BY DEF HistoryAgrees
<1> QED BY <1>2, <1>3, Invariance, PTL DEF Spec

\* No adjustment moves the threshold by more than the clamp and what the
\* division drops.
THEOREM AdjustmentAlwaysBounded == Spec => AdjustmentBounded
<1> DEFINE Bounded ==
      /\ 100 * threshold' <= (100 + Clamp) * threshold
      /\ 100 * (threshold' + 2 * Scale) >= (100 - Clamp) * threshold
      /\ (threshold' < threshold
            /\ BlockTimeSum(times', size') >= Target * size')
          => threshold - threshold' < Scale
      /\ (threshold < Scale /\ threshold' # threshold)
          => threshold' = MinDistance
<1>1. ASSUME QInv, threshold' = threshold PROVE Bounded
  <2>1. threshold \in Nat
    BY <1>1, QPowAssumption DEF QInv, TypeOK, MinDistance, MaxDistance
  <2>2. Clamp * threshold \in Nat
    BY <2>1, QPowAssumption
  <2>3. /\ (100 + Clamp) * threshold = 100 * threshold + Clamp * threshold
        /\ (100 - Clamp) * threshold = 100 * threshold - Clamp * threshold
    BY <2>1, QPowAssumption
  <2> QED BY <1>1, <2>1, <2>2, <2>3, QPowAssumption
<1>2. ASSUME QInv, [Next]_vars PROVE Bounded
  <2>1. CASE threshold' = threshold
    BY <1>1, <1>2, <2>1
  <2>2. CASE threshold' # threshold
    <3>1. PICK gap \in Gap, idle \in BOOLEAN : Finalize(gap, idle)
      BY <1>2, <2>2 DEF Next, vars
    <3>2. /\ times' \in [0 .. HistoryMax - 1 -> Nat]
          /\ size' \in 1 .. HistoryMax
          /\ threshold' = Adjusted(threshold, BlockTimeSum(times', size'),
                                   Target * size')
      BY <1>2, <2>2, <3>1, Adjustment, QPowAssumption
    <3> QED BY <1>2, <3>2, StepBounds DEF QInv
  <2> QED BY <2>1, <2>2
<1>3. QInv /\ [Next]_vars => [Bounded]_vars
  BY <1>2
<1>4. AdjustmentBounded <=> [][Bounded]_vars
  BY DEF AdjustmentBounded
<1> QED BY <1>3, <1>4, Invariance, PTL DEF Spec

----------------------------------------------------------------------------
(* Rearranging and sorting block times *)

\* A unit of a sequence is a position and a count up to the value there.
LEMMA UnitsOf ==
  ASSUME NEW n \in Nat, NEW s \in [1 .. n -> Nat]
  PROVE  \A u : u \in Units(s)
                <=> \E i \in 1 .. n : \E j \in 1 .. s[i] : u = <<i, j>>
<1>1. DOMAIN s = 1 .. n
  OBVIOUS
<1>2. ASSUME NEW u
      PROVE  u \in Units(s) <=> \E i \in 1 .. n : u \in {i} \X (1 .. s[i])
  BY ONLY <1>1, Zenon DEF Units
<1>3. ASSUME NEW u, NEW i \in 1 .. n
      PROVE  u \in {i} \X (1 .. s[i]) <=> \E j \in 1 .. s[i] : u = <<i, j>>
  BY ONLY SMT
<1> SUFFICES ASSUME NEW u
             PROVE  u \in Units(s)
                      <=> \E i \in 1 .. n : \E j \in 1 .. s[i] : u = <<i, j>>
  OBVIOUS
<1> QED BY ONLY <1>2, <1>3

\* A rearranged sequence has the same sum.
LEMMA SumOfRearranged ==
  ASSUME NEW n \in Nat, NEW s \in [1 .. n -> Nat], NEW t \in [1 .. n -> Nat],
         NEW p \in Bijection(1 .. n, 1 .. n), \A k \in 1 .. n : s[k] = t[p[k]]
  PROVE  Total(s) = Total(t)
<1> DEFINE f == [u \in Units(s) |-> <<p[u[1]], u[2]>>]
<1>0. /\ \A u : u \in Units(s) <=> \E i \in 1 .. n : \E j \in 1 .. s[i] : u = <<i, j>>
      /\ \A u : u \in Units(t) <=> \E i \in 1 .. n : \E j \in 1 .. t[i] : u = <<i, j>>
  BY ONLY UnitsOf, Zenon
<1>1. /\ p \in [1 .. n -> 1 .. n]
      /\ \A i, j \in 1 .. n : p[i] = p[j] => i = j
      /\ \A k \in 1 .. n : \E i \in 1 .. n : p[i] = k
  BY DEF Bijection, Injection, Surjection, IsInjective
<1>2. ASSUME NEW u \in Units(s) PROVE f[u] \in Units(t)
  <2>0. PICK i \in 1 .. n : \E j \in 1 .. s[i] : u = <<i, j>>
    BY <1>0
  <2>1. PICK j \in 1 .. s[i] : u = <<i, j>>
    BY <2>0
  <2>2. f[u] = <<p[i], j>> /\ p[i] \in 1 .. n /\ j \in 1 .. t[p[i]]
    BY <1>1, <2>1
  <2>3. <<p[i], j>> \in Units(t)
    BY <1>0, <2>2
  <2> QED BY <2>2, <2>3
<1>3. ASSUME NEW u \in Units(s), NEW v \in Units(s), f[u] = f[v] PROVE u = v
  <2>1. PICK i \in 1 .. n : \E j \in 1 .. s[i] : u = <<i, j>>
    BY <1>0
  <2>2. PICK k \in 1 .. n : \E l \in 1 .. s[k] : v = <<k, l>>
    BY <1>0
  <2>3. PICK j \in 1 .. s[i] : u = <<i, j>>
    BY <2>1
  <2>4. PICK l \in 1 .. s[k] : v = <<k, l>>
    BY <2>2
  <2>5. f[u] = <<p[i], j>> /\ f[v] = <<p[k], l>>
    BY <2>3, <2>4
  <2> QED BY <1>1, <1>3, <2>3, <2>4, <2>5
<1>4. ASSUME NEW v \in Units(t) PROVE \E u \in Units(s) : f[u] = v
  <2>0. PICK k \in 1 .. n : \E l \in 1 .. t[k] : v = <<k, l>>
    BY <1>0
  <2>1. PICK l \in 1 .. t[k] : v = <<k, l>>
    BY <2>0
  <2>2. PICK i \in 1 .. n : p[i] = k
    BY <1>1
  <2>3. l \in 1 .. s[i]
    BY <2>1, <2>2
  <2>4. <<i, l>> \in Units(s)
    BY <2>2, <2>3, <1>0
  <2>5. f[<<i, l>>] = v
    BY <2>1, <2>2, <2>4
  <2> QED BY <2>4, <2>5
<1>5. f \in [Units(s) -> Units(t)]
  BY <1>2
<1> HIDE DEF f
<1>6. f \in Bijection(Units(s), Units(t))
  <2>1. f \in Injection(Units(s), Units(t))
    <3>1. \A u, v \in Units(s) : f[u] = f[v] => u = v
      BY <1>3
    <3> QED BY ONLY <1>5, <3>1, Zenon DEF Injection, IsInjective
  <2>2. f \in Surjection(Units(s), Units(t))
    BY ONLY <1>4, <1>5, Zenon DEF Surjection
  <2> QED BY ONLY <2>1, <2>2, Zenon DEF Bijection
<1>7. ExistsBijection(Units(s), Units(t))
  BY <1>6 DEF ExistsBijection
<1>8. IsFiniteSet(Units(s))
  BY UnitsFinite
<1> QED BY <1>7, <1>8, FS_Bijection DEF Total

\* The image of an interval under a permutation is as large as the interval.
LEMMA SizeOfImage ==
  ASSUME NEW n \in Nat, NEW p \in Bijection(1 .. n, 1 .. n),
         NEW a \in 1 .. n + 1, NEW b \in 0 .. n, a <= b + 1,
         NEW S \in SUBSET (1 .. n), \A k \in a .. b : p[k] \in S
  PROVE  Cardinality(S) \in Nat /\ Cardinality(S) >= b - a + 1
<1> DEFINE g == [k \in a .. b |-> p[k]]
<1>1. /\ p \in [1 .. n -> 1 .. n]
      /\ \A i, j \in 1 .. n : p[i] = p[j] => i = j
  BY DEF Bijection, Injection, IsInjective
<1>2. g \in [a .. b -> S] /\ \A i, j \in a .. b : g[i] = g[j] => i = j
  BY <1>1
<1> HIDE DEF g
<1>3. g \in Injection(a .. b, S)
  BY <1>2, Zenon DEF Injection, IsInjective
<1>10. 1 \in Int /\ n \in Int /\ a \in Int /\ b \in Int /\ ~(a > b + 1)
  OBVIOUS
<1>8. IsFiniteSet(1 .. n)
  BY <1>10, FS_Interval
<1>4. IsFiniteSet(S)
  BY <1>8, FS_Subset
<1>5. Cardinality(a .. b) <= Cardinality(S)
  BY <1>3, <1>4, FS_Injection
<1>9. Cardinality(a .. b) = IF a > b THEN 0 ELSE b - a + 1
  BY <1>10, FS_Interval
<1>6. Cardinality(a .. b) = b - a + 1
  BY <1>10, <1>9
<1>7. Cardinality(S) \in Nat
  BY <1>4, FS_CardinalityType
<1> QED BY <1>5, <1>6, <1>7

\* One sample goes before another: it is shorter, or as short and earlier.
Before(s, j, i) == s[j] < s[i] \/ (s[j] = s[i] /\ j <= i)

\* Any samples can be sorted: each goes where the count of those before it says.
LEMMA CanBeSorted ==
  ASSUME NEW n \in Nat, NEW s \in [1 .. n -> Nat]
  PROVE  \E p \in Bijection(1 .. n, 1 .. n) :
            \A i, j \in 1 .. n : i < j => s[p[i]] <= s[p[j]]
<1> DEFINE B(i) == {j \in 1 .. n : Before(s, j, i)}
           rank == [i \in 1 .. n |-> Cardinality(B(i))]
<1>1. IsFiniteSet(1 .. n) /\ Cardinality(1 .. n) = n
  BY FS_Interval
<1>2. ASSUME NEW i \in 1 .. n
      PROVE  /\ IsFiniteSet(B(i)) /\ i \in B(i)
             /\ Cardinality(B(i)) \in 1 .. n
  <2>1. B(i) \in SUBSET (1 .. n)
    OBVIOUS
  <2>2. i \in B(i)
    BY DEF Before
  <2> HIDE DEF B
  <2>3. IsFiniteSet(B(i)) /\ Cardinality(B(i)) <= n
    BY <1>1, <2>1, FS_Subset
  <2>4. Cardinality(B(i)) \in Nat /\ Cardinality(B(i)) # 0
    BY <2>2, <2>3, FS_CardinalityType, FS_EmptySet
  <2> QED BY <2>2, <2>3, <2>4
<1>3. ASSUME NEW i \in 1 .. n, NEW k \in 1 .. n, i # k, Before(s, i, k)
      PROVE  rank[i] < rank[k]
  <2>1. B(i) \in SUBSET B(k) /\ k \notin B(i)
    <3>1. ASSUME NEW j \in 1 .. n, Before(s, j, i) PROVE Before(s, j, k)
      BY <1>3, <3>1 DEF Before
    <3>2. ~Before(s, k, i)
      BY <1>3 DEF Before
    <3> QED BY <3>1, <3>2
  <2>2. k \in B(k) /\ IsFiniteSet(B(k)) /\ Cardinality(B(k)) \in 1 .. n
        /\ Cardinality(B(i)) \in 1 .. n
    BY <1>2
  <2> HIDE DEF B
  <2>3. /\ Cardinality(B(i)) <= Cardinality(B(k))
        /\ Cardinality(B(i)) # Cardinality(B(k))
    BY <2>1, <2>2, FS_Subset
  <2>4. rank[i] = Cardinality(B(i)) /\ rank[k] = Cardinality(B(k))
    OBVIOUS
  <2> HIDE DEF rank
  <2> QED BY <2>2, <2>3, <2>4
<1>4. rank \in [1 .. n -> 1 .. n]
  BY <1>2
<1> HIDE DEF rank, B
<1>5. ASSUME NEW i \in 1 .. n, NEW k \in 1 .. n, rank[i] = rank[k] PROVE i = k
  <2>1. Before(s, i, k) \/ Before(s, k, i)
    BY DEF Before
  <2>2. rank[i] \in Int
    BY <1>4
  <2> QED BY <1>3, <1>5, <2>1, <2>2
<1>6. rank \in Injection(1 .. n, 1 .. n)
  BY <1>4, <1>5, Zenon DEF Injection, IsInjective
<1>7. rank \in Surjection(1 .. n, 1 .. n)
  BY <1>1, <1>6, FS_Injection
<1>8. \A k \in 1 .. n : \E i \in 1 .. n : rank[i] = k
  BY <1>7 DEF Surjection
<1> DEFINE p == [k \in 1 .. n |-> CHOOSE i \in 1 .. n : rank[i] = k]
<1>9. \A k \in 1 .. n : p[k] \in 1 .. n /\ rank[p[k]] = k
  BY <1>8
<1>10. p \in [1 .. n -> 1 .. n]
  BY <1>9
<1> HIDE DEF p
<1>11. \A i, j \in 1 .. n : p[i] = p[j] => i = j
  BY <1>9
<1>12. \A i \in 1 .. n : \E k \in 1 .. n : p[k] = i
  BY <1>4, <1>5, <1>9
<1>13. p \in Bijection(1 .. n, 1 .. n)
  BY <1>10, <1>11, <1>12, Zenon DEF Bijection, Injection, Surjection, IsInjective
<1>14. ASSUME NEW i \in 1 .. n, NEW j \in 1 .. n, i < j PROVE s[p[i]] <= s[p[j]]
  <2>1. p[i] \in 1 .. n /\ p[j] \in 1 .. n /\ rank[p[i]] = i /\ rank[p[j]] = j
    BY <1>9
  <2>4. \A x, y \in 1 .. n : x # y /\ Before(s, x, y) => rank[x] < rank[y]
    BY <1>3
  <2>2. ASSUME p[j] # p[i], Before(s, p[j], p[i]) PROVE FALSE
    <3>1. rank[p[j]] < rank[p[i]]
      BY <2>1, <2>2, <2>4
    <3>2. i \in Int /\ j \in Int /\ i < j
      BY <1>14
    <3> QED BY <2>1, <3>1, <3>2
  <2>3. s[p[i]] \in Nat /\ s[p[j]] \in Nat
    BY <2>1
  <2> QED BY <1>14, <2>1, <2>2, <2>3 DEF Before
<1> QED BY <1>13, <1>14
\* The order that sorting picks.
LEMMA RisingOrder ==
  ASSUME NEW n \in Nat, NEW s \in [1 .. n -> Nat]
  PROVE  /\ Rising(s) \in Bijection(1 .. n, 1 .. n)
         /\ \A i, j \in 1 .. n : i < j => s[Rising(s)[i]] <= s[Rising(s)[j]]
<1>1. DOMAIN s = 1 .. n
  OBVIOUS
<1> DEFINE Good(p) == \A i, j \in 1 .. n : i < j => s[p[i]] <= s[p[j]]
<1>2. Rising(s) = CHOOSE p \in Bijection(1 .. n, 1 .. n) : Good(p)
  BY <1>1 DEF Rising
<1>3. \E p \in Bijection(1 .. n, 1 .. n) : Good(p)
  BY CanBeSorted
<1> HIDE DEF Good
<1>4. Rising(s) \in Bijection(1 .. n, 1 .. n) /\ Good(Rising(s))
  BY <1>2, <1>3, Zenon
<1> QED BY <1>4 DEF Good
\* Values up to one and values from one on, when the values rise.
LEMMA RisingSplits ==
  ASSUME NEW n \in Nat, NEW v \in [1 .. n -> Nat],
         \A i, j \in 1 .. n : i < j => v[i] <= v[j],
         NEW m \in Nat, NEW lo \in 1 .. n, NEW hi \in 1 .. n,
         v[lo] <= m, m <= v[hi]
  PROVE  /\ \A k \in 1 .. lo : k \in 1 .. n /\ v[k] <= m
         /\ \A k \in hi .. n : k \in 1 .. n /\ v[k] >= m
<1>1. ASSUME NEW k \in 1 .. lo PROVE k \in 1 .. n /\ v[k] <= m
  <2>1. k \in 1 .. n
    OBVIOUS
  <2>2. v[k] <= v[lo]
    <3>1. CASE k = lo
      BY <2>1, <3>1
    <3>2. CASE k # lo
      BY <2>1, <3>2
    <3> QED BY <3>1, <3>2
  <2>3. v[k] \in Nat /\ v[lo] \in Nat
    BY <2>1
  <2> QED BY <2>1, <2>2, <2>3
<1>2. ASSUME NEW k \in hi .. n PROVE k \in 1 .. n /\ v[k] >= m
  <2>1. k \in 1 .. n
    OBVIOUS
  <2>2. v[hi] <= v[k]
    <3>1. CASE k = hi
      BY <2>1, <3>1
    <3>2. CASE k # hi
      BY <2>1, <3>2
    <3> QED BY <3>1, <3>2
  <2>3. v[k] \in Nat /\ v[hi] \in Nat
    BY <2>1
  <2> QED BY <2>1, <2>2, <2>3
<1> QED BY <1>1, <1>2

\* How many values of r are at most m, and at least m.
AtMost(r, n, m) == Cardinality({i \in 1 .. n : r[i] <= m})
AtLeast(r, n, m) == Cardinality({i \in 1 .. n : r[i] >= m})

\* v lists the values of r in another order, where they rise.
Sorts(v, g, r, n) == /\ \A i, j \in 1 .. n : i < j => v[i] <= v[j]
                     /\ \A k \in 1 .. n : v[k] = r[g[k]]

\* A value between two middle ones of a rising rearrangement of r is a median
\* of r: no more than half of r lies on either side of it.
LEMMA MiddleOfRising ==
  ASSUME NEW n \in Nat, NEW v \in [1 .. n -> Nat], NEW r \in [1 .. n -> Nat],
         NEW g \in Bijection(1 .. n, 1 .. n), Sorts(v, g, r, n),
         NEW m \in Nat, NEW lo \in 1 .. n, NEW hi \in 1 .. n,
         v[lo] <= m, m <= v[hi]
  PROVE  /\ AtMost(r, n, m) \in Nat /\ AtMost(r, n, m) >= lo
         /\ AtLeast(r, n, m) \in Nat /\ AtLeast(r, n, m) >= n - hi + 1
<1> DEFINE below == {i \in 1 .. n : r[i] <= m}
           above == {i \in 1 .. n : r[i] >= m}
<1>1. /\ \A k \in 1 .. lo : k \in 1 .. n /\ v[k] <= m
      /\ \A k \in hi .. n : k \in 1 .. n /\ v[k] >= m
  <2>1. \A i, j \in 1 .. n : i < j => v[i] <= v[j]
    BY DEF Sorts
  <2> QED BY <2>1, RisingSplits
<1>2. g \in [1 .. n -> 1 .. n]
  BY DEF Bijection, Injection
<1>3. \A k \in 1 .. lo : g[k] \in below
  BY <1>1, <1>2 DEF Sorts
<1>4. \A k \in hi .. n : g[k] \in above
  BY <1>1, <1>2 DEF Sorts
<1>5. below \in SUBSET (1 .. n) /\ above \in SUBSET (1 .. n)
  OBVIOUS
<1> HIDE DEF below, above
<1>6. /\ 1 \in 1 .. n + 1 /\ lo \in 0 .. n /\ 1 <= lo + 1
      /\ hi \in 1 .. n + 1 /\ n \in 0 .. n /\ hi <= n + 1
      /\ lo - 1 + 1 = lo
  OBVIOUS
<1>7. Cardinality(below) \in Nat /\ Cardinality(below) >= lo - 1 + 1
  BY <1>3, <1>5, <1>6, SizeOfImage
<1>8. Cardinality(above) \in Nat /\ Cardinality(above) >= n - hi + 1
  BY <1>4, <1>5, <1>6, SizeOfImage
<1> QED BY <1>6, <1>7, <1>8 DEF below, above, AtMost, AtLeast

\* One rearrangement after another.
After(D, p, q) == [k \in D |-> q[p[k]]]

\* It is a rearrangement too.
LEMMA Rearrangements ==
  ASSUME NEW D, NEW p \in Bijection(D, D), NEW q \in Bijection(D, D)
  PROVE  After(D, p, q) \in Bijection(D, D)
  BY Fun_BijTransitive DEF After

\* The middle of two numbers lies between them.
LEMMA HalfWay ==
  ASSUME NEW a \in Nat, NEW b \in Nat, a <= b
  PROVE  (a + b) \div 2 \in Nat /\ a <= (a + b) \div 2 /\ (a + b) \div 2 <= b
  OBVIOUS
\* How far get_median_block_time's two middles reach.
LEMMA HalfOf ==
  ASSUME NEW n \in Nat \ {0}
  PROVE  /\ n \div 2 \in Nat
         /\ n % 2 = 0 => n = 2 * (n \div 2) /\ n \div 2 >= 1
         /\ n % 2 # 0 => n = 2 * (n \div 2) + 1
  OBVIOUS

\* get_median_block_time of a ring that holds r in some rotation.
LEMMA MedianIsMiddle ==
  ASSUME NEW n \in 1 .. HistoryMax, NEW ts \in [0 .. HistoryMax - 1 -> Nat],
         NEW r \in [1 .. n -> Nat], NEW q \in Bijection(1 .. n, 1 .. n),
         \A k \in 1 .. n : ts[k - 1] = r[q[k]]
  PROVE  /\ 2 * AtMost(r, n, Median(ts, n)) >= n
         /\ 2 * AtLeast(r, n, Median(ts, n)) >= n
<1> USE QPowAssumption
<1> DEFINE s == Samples(ts, n)
           p == Rising(s)
           v == [k \in 1 .. n |-> s[p[k]]]
           g == After(1 .. n, p, q)
           half == n \div 2
<1>1. n \in Nat \ {0} /\ n \in Nat
  OBVIOUS
<1>2. s \in [1 .. n -> Nat] /\ \A k \in 1 .. n : s[k] = r[q[k]]
  BY DEF Samples
<1> HIDE DEF s
<1>3. /\ p \in Bijection(1 .. n, 1 .. n)
      /\ \A i, j \in 1 .. n : i < j => s[p[i]] <= s[p[j]]
  BY <1>1, <1>2, RisingOrder
<1>4. Median(ts, n) = IF n % 2 = 0 THEN (s[p[half]] + s[p[half + 1]]) \div 2
                      ELSE s[p[half + 1]]
  BY <1>1 DEF Median, s
<1> HIDE DEF p
<1>5. p \in [1 .. n -> 1 .. n]
  BY <1>3 DEF Bijection, Injection
<1>6. v \in [1 .. n -> Nat] /\ \A i, j \in 1 .. n : i < j => v[i] <= v[j]
  BY <1>2, <1>3, <1>5
<1>7. g \in Bijection(1 .. n, 1 .. n)
  BY <1>3, Rearrangements
<1>8. \A k \in 1 .. n : v[k] = r[g[k]]
  BY <1>2, <1>5 DEF After
<1>9. \A k \in 1 .. n : v[k] = s[p[k]]
  OBVIOUS
<1>13. Sorts(v, g, r, n)
  BY <1>6, <1>8 DEF Sorts
<1> HIDE DEF v, g
<1>10. /\ half \in Nat /\ n \in Nat
       /\ n % 2 = 0 => n = 2 * half /\ half >= 1
       /\ n % 2 # 0 => n = 2 * half + 1
  BY <1>1, HalfOf
<1> HIDE DEF half
<1> DEFINE m == Median(ts, n)
           below == AtMost(r, n, m)
           above == AtLeast(r, n, m)
<1>11. CASE n % 2 = 0
  <2>1. half \in 1 .. n /\ half + 1 \in 1 .. n /\ half < half + 1
    BY <1>10, <1>11
  <2>2. v[half] \in Nat /\ v[half + 1] \in Nat /\ v[half] <= v[half + 1]
    BY <1>6, <2>1
  <2>3. m = (v[half] + v[half + 1]) \div 2
    BY <1>4, <1>9, <1>11, <2>1
  <2> HIDE DEF m
  <2>4. m \in Nat /\ v[half] <= m /\ m <= v[half + 1]
    BY <2>2, <2>3, HalfWay
  <2>5. /\ below \in Nat /\ below >= half
        /\ above \in Nat /\ above >= n - (half + 1) + 1
    BY <1>1, <1>6, <1>7, <1>13, <2>1, <2>4, MiddleOfRising
  <2> HIDE DEF below, above
  <2>6. 2 * below >= n /\ 2 * above >= n
    BY <1>10, <1>11, <2>5
  <2> QED BY <2>6 DEF below, above, m
<1>12. CASE n % 2 # 0
  <2>1. half + 1 \in 1 .. n
    BY <1>10, <1>12
  <2>2. m = v[half + 1]
    BY <1>4, <1>9, <1>12, <2>1
  <2> HIDE DEF m
  <2>3. m \in Nat /\ v[half + 1] <= m /\ m <= v[half + 1]
    BY <1>6, <2>1, <2>2
  <2>4. /\ below \in Nat /\ below >= half + 1
        /\ above \in Nat /\ above >= n - (half + 1) + 1
    BY <1>1, <1>6, <1>7, <1>13, <2>1, <2>3, MiddleOfRising
  <2> HIDE DEF below, above
  <2>5. 2 * below >= n /\ 2 * above >= n
    BY <1>10, <1>12, <2>4
  <2> QED BY <2>5 DEF below, above, m
<1> QED BY <1>11, <1>12
----------------------------------------------------------------------------
(* The ring buffer *)

\* How many block times are not younger than slot k - 1 of the ring, k among
\* them: where recent keeps what is in that slot.
Place(k) == IF size < HistoryMax THEN k
            ELSE IF k > index THEN k - index ELSE k - index + HistoryMax

\* A ring that is not full is filled from the front; in any case each slot
\* holds what its age says.
InRing == /\ recent \in Seq(Nat) /\ Len(recent) = size
          /\ size < HistoryMax => index = size
          /\ \A k \in 1 .. size : times[k - 1] = recent[Place(k)]

RInv == QInv /\ InRing

\* Adding one to the index, and back to the front at the end.
LEMMA Wraps ==
  ASSUME NEW b \in Nat \ {0}, NEW a \in 0 .. b - 1
  PROVE  (a + 1) % b = IF a + 1 = b THEN 0 ELSE a + 1
<1>1. CASE a + 1 = b
  BY <1>1
<1>2. CASE a + 1 # b
  BY <1>2
<1> QED BY <1>1, <1>2

\* The places of the slots are a rearrangement of them.
LEMMA PlaceRearranges ==
  ASSUME TypeOK, InRing
  PROVE  [k \in 1 .. size |-> Place(k)] \in Bijection(1 .. size, 1 .. size)
<1> DEFINE q == [k \in 1 .. size |-> Place(k)]
<1>1. /\ size \in Nat /\ index \in Nat /\ HistoryMax \in Nat
      /\ size <= HistoryMax /\ index < HistoryMax
  BY QPowAssumption DEF TypeOK
<1>2. \A k \in 1 .. size : Place(k) \in 1 .. size
  BY <1>1 DEF Place
<1>3. \A i, j \in 1 .. size : Place(i) = Place(j) => i = j
  BY <1>1 DEF Place
<1>4. ASSUME NEW k \in 1 .. size PROVE \E i \in 1 .. size : Place(i) = k
  <2>1. CASE size < HistoryMax
    BY <2>1 DEF Place
  <2>2. CASE size = HistoryMax /\ k + index <= HistoryMax
    <3>1. k + index \in 1 .. size /\ Place(k + index) = k
      BY <1>1, <2>2 DEF Place
    <3> QED BY <3>1
  <2>3. CASE size = HistoryMax /\ k + index > HistoryMax
    <3>1. /\ k + index - HistoryMax \in 1 .. size
          /\ Place(k + index - HistoryMax) = k
      BY <1>1, <2>3 DEF Place
    <3> QED BY <3>1
  <2> QED BY <1>1, <2>1, <2>2, <2>3
<1>5. q \in [1 .. size -> 1 .. size] /\ \A k \in 1 .. size : q[k] = Place(k)
  BY <1>2
<1> HIDE DEF q
<1>6. /\ \A i, j \in 1 .. size : q[i] = q[j] => i = j
      /\ \A k \in 1 .. size : \E i \in 1 .. size : q[i] = k
  BY <1>3, <1>4, <1>5
<1>7. q \in Bijection(1 .. size, 1 .. size)
  BY <1>5, <1>6, Zenon DEF Bijection, Injection, Surjection, IsInjective
<1> QED BY <1>7 DEF q

\* What a block does to the ring and to the history.
Records(gap) ==
  /\ times' = [times EXCEPT ![index] = gap]
  /\ index' = IF index + 1 = HistoryMax THEN 0 ELSE index + 1
  /\ size' = IF size < HistoryMax THEN size + 1 ELSE HistoryMax
  /\ recent' = IF Len(recent) < HistoryMax THEN Append(recent, gap)
               ELSE Append(Tail(recent), gap)

\* A block records one time, or none when it is the first or panics.
LEMMA RingStep ==
  ASSUME TypeOK, NEW gap \in Gap, NEW idle \in BOOLEAN, Finalize(gap, idle)
  PROVE  UNCHANGED <<times, index, size, recent>> \/ Records(gap)
<1>1. (index + 1) % HistoryMax = IF index + 1 = HistoryMax THEN 0 ELSE index + 1
  BY QPowAssumption, Wraps DEF TypeOK
<1>2. CASE Recording
  BY <1>1, <1>2 DEF Finalize, AdjustDistanceThreshold, Recorded, Records
<1>3. CASE ~Recording
  BY <1>3 DEF Finalize, AdjustDistanceThreshold
<1> QED BY <1>2, <1>3

\* One more time in the ring: it comes after all of them, and when the ring is
\* full it takes the slot of the oldest.
LEMMA RecordsKeep ==
  ASSUME TypeOK, InRing, NEW gap \in Gap, Records(gap)
  PROVE  InRing'
<1>1. /\ size \in Nat /\ index \in Nat /\ HistoryMax \in Nat \ {0}
      /\ size <= HistoryMax /\ index < HistoryMax
      /\ times \in [0 .. HistoryMax - 1 -> Nat]
  BY QPowAssumption DEF TypeOK
<1>5. gap \in Nat
  BY QPowAssumption
<1>2. /\ recent \in Seq(Nat) /\ Len(recent) = size
      /\ \A k \in 1 .. size : times[k - 1] = recent[Place(k)]
  BY DEF InRing
<1>3. CASE size < HistoryMax
  <2>1. /\ index = size /\ size' = size + 1 /\ recent' = Append(recent, gap)
        /\ times' = [times EXCEPT ![size] = gap]
        /\ index' = IF size + 1 = HistoryMax THEN 0 ELSE size + 1
    BY <1>2, <1>3 DEF InRing, Records
  <2>2. /\ recent' \in Seq(Nat) /\ Len(recent') = size + 1
        /\ \A k \in 1 .. size : recent'[k] = recent[k]
        /\ recent'[size + 1] = gap
    BY <1>1, <1>2, <1>5, <2>1
  <2>3. ASSUME NEW k \in 1 .. size + 1 PROVE Place(k)' = k
    BY <1>1, <1>3, <2>1 DEF Place
  <2>4. ASSUME NEW k \in 1 .. size + 1 PROVE times'[k - 1] = recent'[k]
    <3>1. CASE k = size + 1
      BY <1>1, <1>3, <2>1, <2>2, <3>1
    <3>2. CASE k # size + 1
      <4>1. k \in 1 .. size /\ k - 1 \in 0 .. HistoryMax - 1 /\ k - 1 # size
        BY <1>1, <1>3, <3>2
      <4>2. times'[k - 1] = times[k - 1]
        BY <1>1, <2>1, <4>1
      <4>3. Place(k) = k
        BY <1>3 DEF Place
      <4> QED BY <1>2, <2>2, <4>1, <4>2, <4>3
    <3> QED BY <3>1, <3>2
  <2>5. size' < HistoryMax => index' = size'
    BY <1>1, <2>1
  <2> QED BY <2>1, <2>2, <2>3, <2>4, <2>5 DEF InRing
<1>4. CASE size = HistoryMax
  <2>1. /\ size' = size /\ recent' = Append(Tail(recent), gap)
        /\ times' = [times EXCEPT ![index] = gap]
        /\ index' = IF index + 1 = HistoryMax THEN 0 ELSE index + 1
    BY <1>1, <1>2, <1>4 DEF Records
  <2>2. /\ recent' \in Seq(Nat) /\ Len(recent') = size
        /\ \A k \in 1 .. size - 1 : recent'[k] = recent[k + 1]
        /\ recent'[size] = gap
    BY <1>1, <1>2, <1>4, <1>5, <2>1
  <2>3. ASSUME NEW k \in 1 .. size PROVE times'[k - 1] = recent'[Place(k)']
    <3>1. CASE k = index + 1
      <4>1. Place(k)' = size
        BY <1>1, <1>4, <2>1, <3>1 DEF Place
      <4>2. times'[k - 1] = gap
        BY <1>1, <2>1, <3>1
      <4> QED BY <2>2, <4>1, <4>2
    <3>2. CASE k # index + 1
      <4>1. Place(k)' \in 1 .. size - 1 /\ Place(k) = Place(k)' + 1
        BY <1>1, <1>4, <2>1, <3>2 DEF Place
      <4>2. times'[k - 1] = times[k - 1]
        BY <1>1, <1>4, <2>1, <3>2
      <4>3. recent'[Place(k)'] = recent[Place(k)]
        BY <2>2, <4>1
      <4> QED BY <1>2, <4>2, <4>3
    <3> QED BY <3>1, <3>2
  <2>4. size' < HistoryMax => index' = size'
    BY <1>1, <1>4, <2>1
  <2> QED BY <2>1, <2>2, <2>3, <2>4 DEF InRing
<1> QED BY <1>1, <1>3, <1>4

\* The ring's invariant holds after every block.
LEMMA RingInvariance == Spec => []RInv
<1>1. Init => RInv
  <2> SUFFICES ASSUME Init PROVE RInv
    OBVIOUS
  <2>1. InRing
    BY QPowAssumption DEF Init, InRing
  <2> QED BY <2>1, InitQInv DEF RInv
<1>2. RInv /\ [Next]_vars => RInv'
  <2> SUFFICES ASSUME RInv, [Next]_vars PROVE RInv'
    OBVIOUS
  <2>1. QInv'
    BY NextQInv DEF RInv
  <2>2. CASE UNCHANGED <<times, index, size, recent>>
    BY <2>1, <2>2 DEF RInv, InRing, Place
  <2>3. ASSUME NEW gap \in Gap, NEW idle \in BOOLEAN, Finalize(gap, idle)
        PROVE  UNCHANGED <<times, index, size, recent>> \/ InRing'
    BY <2>1, <2>3, RingStep, RecordsKeep DEF RInv, QInv
  <2> QED BY <2>1, <2>2, <2>3 DEF Next, vars, RInv
<1> QED BY <1>1, <1>2, PTL DEF Spec

\* The sum and the median that the pallet reads from its ring are those of the
\* latest block times, however often the ring has wrapped.
THEOREM RingAlwaysRecent == Spec => []RingIsRecent
<1>1. ASSUME RInv PROVE RingIsRecent
  <2> DEFINE q == [k \in 1 .. size |-> Place(k)]
             s == Samples(times, size)
  <2>1. /\ size \in 0 .. HistoryMax /\ size \in Nat
        /\ times \in [0 .. HistoryMax - 1 -> Nat]
    BY <1>1, QPowAssumption DEF RInv, QInv, TypeOK
  <2>2. /\ recent \in [1 .. size -> Nat] /\ size = Len(recent)
        /\ \A k \in 1 .. size : times[k - 1] = recent[q[k]]
    BY <1>1, <2>1 DEF RInv, InRing
  <2>3. q \in Bijection(1 .. size, 1 .. size)
    BY <1>1, PlaceRearranges DEF RInv, QInv
  <2>4. s \in [1 .. size -> Nat] /\ \A k \in 1 .. size : s[k] = recent[q[k]]
    BY <2>1, <2>2, QPowAssumption DEF Samples
  <2> HIDE DEF q, s
  <2>5. Total(s) = Total(recent)
    BY <2>1, <2>2, <2>3, <2>4, SumOfRearranged
  <2>6. ASSUME size > 0
        PROVE  /\ 2 * AtMost(recent, size, Median(times, size)) >= size
               /\ 2 * AtLeast(recent, size, Median(times, size)) >= size
    <3>1. size \in 1 .. HistoryMax
      BY <2>1, <2>6
    <3> QED BY <2>1, <2>2, <2>3, <3>1, MedianIsMiddle
  <2>7. size > 0 => BlockTimeSum(times, size) = Total(recent)
    BY <2>5 DEF BlockTimeSum, s
  <2> QED BY <2>2, <2>6, <2>7 DEF RingIsRecent, AtMost, AtLeast
<1> QED BY <1>1, RingInvariance, PTL
=============================================================================
