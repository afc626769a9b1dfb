-------------------------------- MODULE QPow --------------------------------
(***************************************************************************)
(* The difficulty pallet.  A nonce is good when its distance is at most the *)
(* threshold; the difficulty of a block is MaxDistance over the threshold   *)
(* its parent left.  Block times go to a ring buffer, and every period the  *)
(* threshold is scaled by their sum over the target.                        *)
(*                                                                          *)
(* The pallet's numbers are scaled down together: Scale stands for 10^18,   *)
(* Shift for the 2^10 that percentage_change discards.  Time is the sum of  *)
(* the gaps between timestamps.                                             *)
(***************************************************************************)
EXTENDS Integers, Sequences, FiniteSets, Functions

CONSTANTS
  Initial,     \* 2^InitialDistanceThresholdExponent
  Scale,       \* FIXED_U128_SCALE
  Shift,       \* what shr(10) divides by
  Clamp,       \* DifficultyAdjustPercentClamp
  Target,      \* TargetBlockTime
  Period,      \* AdjustmentPeriod
  HistoryMax,  \* BlockTimeHistorySize
  WordMax,     \* largest U512
  Gap,         \* times between blocks
  MaxBlocks    \* length of the chain: a bound for the model

ASSUME QPowAssumption ==
  /\ Initial \in Nat \ {0} /\ Scale \in Nat \ {0} /\ Shift \in Nat \ {0}
  /\ Clamp \in 0 .. 100 /\ Target \in Nat \ {0} /\ Period \in Nat
  /\ HistoryMax \in Nat \ {0} /\ Gap \subseteq Nat \ {0}
  /\ WordMax \in Nat /\ 4 * Initial <= WordMax /\ MaxBlocks \in Nat
  /\ Shift <= Initial /\ Shift + (Clamp * Scale) \div 100 <= Scale

VARIABLES
  number,     \* System::block_number
  last,       \* LastBlockTime
  threshold,  \* CurrentDistanceThreshold
  stored,     \* BlockDistanceThresholds of the last block; no entry is
              \* written again once its block is done
  work,       \* TotalWork
  period,     \* BlocksInPeriod
  times,      \* BlockTimeHistory
  index,      \* HistoryIndex
  size,       \* HistorySize
  halted,     \* the last attempt to build a block panicked
  recent,     \* history: the last block times, oldest first
  aux         \* history: PowAux.total_difficulty of the last block

vars == <<number, last, threshold, stored, work, period, times, index, size,
          halted, recent, aux>>

Lesser(a, b) == IF a < b THEN a ELSE b
Greater(a, b) == IF a > b THEN a ELSE b
Saturate(n) == Lesser(n, WordMax)

(* The sum of a sequence is the number of its units: no recursion needed. *)
Units(s) == UNION {{i} \X (1 .. s[i]) : i \in DOMAIN s}
Total(s) == Cardinality(Units(s))

MinDistance == 1
MaxDistance == 4 * Initial

(* get_distance_threshold and get_difficulty of a stored threshold *)
Demand(t) == IF t = 0 THEN Initial ELSE t
DifficultyOf(t) == MaxDistance \div Demand(t)

(* verify_for_import and submit_nonce, for a nonce at distance d.  They run in
   a runtime API call, so what they put in LatestNonce is dropped with it. *)
VerifyForImport(d) == d <= Demand(threshold)

VerifyHistorical(d) == stored # 0 /\ d <= stored

----------------------------------------------------------------------------
(* Mutant: the ring wraps one entry early. *)
RecordedShort(gap) ==
  [times |-> [times EXCEPT ![index] = gap],
   index |-> (index + 1) % (HistoryMax - 1),
   size  |-> IF size < HistoryMax THEN size + 1 ELSE HistoryMax]

(* record_block_time on the ring: the times, the next index and the size. *)
Recorded(gap) ==
  [times |-> [times EXCEPT ![index] = gap],
   index |-> (index + 1) % HistoryMax,
   size  |-> IF size < HistoryMax THEN size + 1 ELSE HistoryMax]

Samples(ts, n) == [i \in 1 .. n |-> ts[i - 1]]

BlockTimeSum(ts, n) == IF n = 0 THEN Target ELSE Total(Samples(ts, n))

(* A rearrangement of the samples in which they rise: what sorting leaves. *)
Rising(s) ==
  CHOOSE p \in Bijection(DOMAIN s, DOMAIN s) :
    \A i, j \in DOMAIN s : i < j => s[p[i]] <= s[p[j]]

Median(ts, n) ==
  IF n = 0 THEN Target
  ELSE LET s == Samples(ts, n)
           p == Rising(s)
           half == n \div 2
       IN IF n % 2 = 0 THEN (s[p[half]] + s[p[half + 1]]) \div 2
                       ELSE s[p[half + 1]]

(* Mutant: the ratio is the wrong way round. *)
RatioInverted(observed, target) ==
  LET clamp == (Clamp * Scale) \div 100
  IN Greater(Lesser((target * Scale) \div observed, Scale + clamp),
             Scale - clamp)

(* The clamped ratio, a FixedU128 rounded down. *)
Ratio(observed, target) ==
  LET clamp == (Clamp * Scale) \div 100
  IN Greater(Lesser((observed * Scale) \div target, Scale + clamp),
             Scale - clamp)

(* Mutant: no lower bound. *)
AdjustedUnbounded(t, observed, target) ==
  LET r == Ratio(observed, target)
      a == IF r = Scale THEN t ELSE Saturate((t \div Scale) * r)
  IN Lesser(a, MaxDistance)

(* calculate_distance_threshold divides before it multiplies. *)
Adjusted(t, observed, target) ==
  LET r == Ratio(observed, target)
      a == IF r = Scale THEN t ELSE Saturate((t \div Scale) * r)
  IN IF a < MinDistance THEN MinDistance ELSE Lesser(a, MaxDistance)

(* Mutant: it discards twice as many bits. *)
PercentagePanicsEarly(t) == t \div (Shift * Shift) = 0

(* percentage_change divides by what is left of the old threshold. *)
PercentagePanics(t) == t \div Shift = 0

----------------------------------------------------------------------------
Init ==
  /\ number = 0 /\ last = 0 /\ period = 0
  /\ threshold = Initial /\ stored = Initial /\ work = 1
  /\ times = [i \in 0 .. HistoryMax - 1 |-> 0] /\ index = 0 /\ size = 0
  /\ halted = FALSE /\ recent = <<>> /\ aux = 0

(* Mutant: on_idle does not look at LastBlockTime. *)
IdledAlways(idle) == IF idle THEN Initial ELSE threshold

(* on_idle before the first on_finalize; afterwards it changes nothing. *)
Idled(idle) == IF idle /\ last = 0 THEN Initial ELSE threshold

(* The time that on_finalize measures: on_idle may have set LastBlockTime. *)
Recording == number + 1 > 1

(* The period is compared with the counter before its increment. *)
Adjusting(n) == period >= Period /\ n > 0

(* Mutant: the work is added after the adjustment. *)
WorkedLate(t, new) == work + DifficultyOf(new)

(* TotalWork grows before the threshold changes from t to new. *)
Worked(t, new) == work + DifficultyOf(t)

(* adjust_distance_threshold, gap after the last block. *)
AdjustDistanceThreshold(gap, idle) ==
  LET t == Idled(idle)
      rec == IF Recording THEN Recorded(gap)
             ELSE [times |-> times, index |-> index, size |-> size]
      adjust == Adjusting(rec.size)
      new == IF adjust
             THEN Adjusted(t, BlockTimeSum(rec.times, rec.size),
                           Target * rec.size)
             ELSE t
  IN IF adjust /\ PercentagePanics(t)
     THEN /\ halted' = TRUE
          /\ UNCHANGED <<number, last, threshold, stored, work, period,
                         times, index, size, recent, aux>>
     ELSE /\ number' = number + 1
          /\ last' = last + gap
          /\ stored' = t
          /\ work' = Worked(t, new)
          /\ aux' = aux + DifficultyOf(threshold)
          /\ times' = rec.times /\ index' = rec.index /\ size' = rec.size
          /\ recent' = IF ~Recording THEN recent
                       ELSE IF Len(recent) < HistoryMax
                            THEN Append(recent, gap)
                            ELSE Append(Tail(recent), gap)
          /\ threshold' = new
          /\ period' = IF period >= Period THEN 0 ELSE period + 1
          /\ UNCHANGED halted

(* on_finalize of the next block; a panic there ends the chain. *)
Finalize(gap, idle) ==
  /\ number < MaxBlocks /\ ~halted
  /\ AdjustDistanceThreshold(gap, idle)

Next == \E gap \in Gap, idle \in BOOLEAN : Finalize(gap, idle)

Spec == Init /\ [][Next]_vars

----------------------------------------------------------------------------
(* Type invariant, with the bounds that keep the difficulty above zero. *)
TypeOK ==
  /\ number \in Nat /\ last \in Nat /\ work \in Nat /\ aux \in Nat
  /\ threshold \in MinDistance .. MaxDistance
  /\ stored \in MinDistance .. MaxDistance
  /\ period \in 0 .. Period
  /\ times \in [0 .. HistoryMax - 1 -> Nat]
  /\ index \in 0 .. HistoryMax - 1 /\ size \in 0 .. HistoryMax
  /\ halted \in BOOLEAN

(* The ring buffer (lib.rs:197) always holds exactly the latest block times:
   their sum is the one the adjustment uses, and get_median_block_time lies
   between their middle values. *)
RingIsRecent ==
  /\ size = Len(recent)
  /\ size > 0 =>
       /\ BlockTimeSum(times, size) = Total(recent)
       /\ LET m == Median(times, size)
              below == {i \in 1 .. size : recent[i] <= m}
              above == {i \in 1 .. size : recent[i] >= m}
          IN 2 * Cardinality(below) >= size /\ 2 * Cardinality(above) >= size

(* The runtime's TotalWork, which best_chain compares, and the total of
   PowAux, which import compares (pow/src/lib.rs:384), differ by the one of
   genesis and nothing else: a block adds the difficulty its parent's state
   demanded, not the one it arrives at itself. *)
TotalsAgree == work = aux + 1

(* verify_historical_block (lib.rs:481) accepts for a block the very distances
   that verify_for_import accepted for it in the state of its parent. *)
HistoryAgrees ==
  [][number' # number =>
       \A d \in {Demand(threshold), Demand(threshold) + 1} :
         VerifyForImport(d) = VerifyHistorical(d)']_vars

(* One adjustment (lib.rs:384) raises the threshold by no more than the clamp
   and lowers it by no more than the clamp and two steps of Scale; blocks that
   are slower than the target lower it only by what the division drops; and
   a threshold below Scale that changes falls to the minimum, for good. *)
AdjustmentBounded ==
  [][/\ 100 * threshold' <= (100 + Clamp) * threshold
     /\ 100 * (threshold' + 2 * Scale) >= (100 - Clamp) * threshold
     /\ (threshold' < threshold
           /\ BlockTimeSum(times', size') >= Target * size')
         => threshold - threshold' < Scale
     /\ (threshold < Scale /\ threshold' # threshold)
         => threshold' = MinDistance]_vars

(* While the chain is above Shift no block panics: the division by the old
   threshold in percentage_change (lib.rs:282) fails only below it, which
   takes a fall through Scale first. *)
HaltsAtTheFloor == halted => threshold < Shift /\ threshold = MinDistance
=============================================================================
