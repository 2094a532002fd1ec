----------------------- MODULE FundingOracle_proofs -----------------------
(***************************************************************************)
(* The bounds on the funding rate hold for every limit, every length of the *)
(* swing and every sequence of updates.                                     *)
(***************************************************************************)
EXTENDS FundingOracle, P1Settlement_proofs

-----------------------------------------------------------------------------
(* The limit per second                                                     *)

\* What the division that defines the limit rounds to.
LEMMA DiffFacts ==
  /\ MAX_ABS_DIFF_PER_SECOND \in Nat
  /\ MAX_ABS_DIFF_PER_SECOND * SwingTime <= MAX_ABS_VALUE * 2
<1>1. SwingTime \in Nat \ {0} /\ MAX_ABS_VALUE * 2 \in Nat
  BY SwingAssumption, RateAssumption
<1> QED
  BY <1>1 DEF MAX_ABS_DIFF_PER_SECOND

\* Limits of consecutive periods add up.
LEMMA LimitsAddUp ==
  ASSUME NEW d \in Nat, NEW s \in Nat, NEW t \in Nat
  PROVE  d * s \in Nat /\ d * s + d * t = d * (s + t)
OBVIOUS

\* A longer period has no smaller limit.
LEMMA LimitGrows ==
  ASSUME NEW d \in Nat, NEW s \in Nat, NEW t \in Nat, s <= t
  PROVE  d * s <= d * t
<1>1. t - s \in Nat /\ s + (t - s) = t
  OBVIOUS
<1>2. d * (t - s) \in Nat /\ d * s \in Nat
  BY <1>1, LimitsAddUp
<1>3. d * s + d * (t - s) = d * t
  BY <1>1, LimitsAddUp
<1> QED
  BY <1>2, <1>3

\* The integers of the two bounds and of the limit for the time since the update.
LEMMA BoundTypes ==
  ASSUME TypeOK
  PROVE  /\ MaxDiff \in Nat
         /\ SignedIndex(fundingRate) \in SignedInt
         /\ CurrentRate \in Int
         /\ CurrentRate <= MAX_ABS_VALUE /\ -MAX_ABS_VALUE <= CurrentRate
         /\ Highest \in SignedInt /\ ToInt(Highest) = MAX_ABS_VALUE
         /\ Lowest \in SignedInt /\ ToInt(Lowest) = -MAX_ABS_VALUE
<1>1. now - fundingRate.timestamp \in Nat
  BY ClockAssumption DEF TypeOK
<1>2. MaxDiff \in Nat
  BY <1>1, DiffFacts, LimitsAddUp DEF MaxDiff
<1>3. SignedIndex(fundingRate) \in SignedInt
  BY DEF TypeOK, Index, SignedIndex, SignedInt
<1>4. /\ CurrentRate \in Int
      /\ CurrentRate <= MAX_ABS_VALUE /\ -MAX_ABS_VALUE <= CurrentRate
  BY RateAssumption DEF TypeOK, Index, CurrentRate, SignedIndex, ToInt
<1>5. /\ Highest \in SignedInt /\ ToInt(Highest) = MAX_ABS_VALUE
      /\ Lowest \in SignedInt /\ ToInt(Lowest) = -MAX_ABS_VALUE
  BY RateAssumption DEF Highest, Lowest, SignedInt, ToInt
<1> QED
  BY <1>2, <1>3, <1>4, <1>5

\* _boundRate computes, on pairs of magnitude and sign, the request moved into
\* the interval of the allowed rates.
THEOREM BoundRateCorrect ==
  ASSUME TypeOK, NEW newRate \in SignedInt
  PROVE  LET asked   == ToInt(newRate)
             bounded == ToInt(BoundRate(newRate))
         IN  /\ BoundRate(newRate) \in SignedInt
             /\ bounded <= MAX_ABS_VALUE /\ -MAX_ABS_VALUE <= bounded
             /\ bounded - CurrentRate <= MaxDiff /\ CurrentRate - bounded <= MaxDiff
             /\ asked < bounded =>
                   bounded = CurrentRate - MaxDiff \/ bounded = -MAX_ABS_VALUE
             /\ bounded < asked =>
                   bounded = CurrentRate + MaxDiff \/ bounded = MAX_ABS_VALUE
<1> DEFINE old   == SignedIndex(fundingRate)
           above == Add(old, MaxDiff)
           below == Sub(old, MaxDiff)
           upper == SignedMin(above, Highest)
           lower == SignedMax(below, Lowest)
<1>1. /\ MaxDiff \in Nat /\ old \in SignedInt /\ MAX_ABS_VALUE \in Nat
      /\ CurrentRate \in Int /\ ToInt(old) = CurrentRate
      /\ CurrentRate <= MAX_ABS_VALUE /\ -MAX_ABS_VALUE <= CurrentRate
      /\ Highest \in SignedInt /\ ToInt(Highest) = MAX_ABS_VALUE
      /\ Lowest \in SignedInt /\ ToInt(Lowest) = -MAX_ABS_VALUE
  BY BoundTypes, RateAssumption DEF CurrentRate
<1>2. /\ above \in SignedInt /\ ToInt(above) = CurrentRate + MaxDiff
      /\ below \in SignedInt /\ ToInt(below) = CurrentRate - MaxDiff
  BY <1>1, AddCorrect, SubCorrect
<1>3. /\ upper \in {above, Highest}
      /\ ToInt(upper) <= ToInt(above) /\ ToInt(upper) <= ToInt(Highest)
  BY <1>1, <1>2, MinMaxCorrect
<1>4. /\ lower \in {below, Lowest}
      /\ ToInt(lower) >= ToInt(below) /\ ToInt(lower) >= ToInt(Lowest)
  BY <1>1, <1>2, MinMaxCorrect
<1>5. /\ BoundRate(newRate) =
           IF Gt(newRate, old) THEN SignedMin(newRate, upper) ELSE SignedMax(newRate, lower)
      /\ Gt(newRate, old) <=> ToInt(newRate) > CurrentRate
      /\ ToInt(newRate) \in Int
  BY <1>1, GtCorrect DEF BoundRate, SignedInt, ToInt
<1> HIDE DEF old, above, below, upper, lower
<1>6. upper \in SignedInt /\ lower \in SignedInt
  BY <1>1, <1>2, <1>3, <1>4
<1>7. CASE Gt(newRate, old)
  <2>1. /\ BoundRate(newRate) = SignedMin(newRate, upper)
        /\ BoundRate(newRate) \in {newRate, upper}
        /\ ToInt(BoundRate(newRate)) <= ToInt(newRate)
        /\ ToInt(BoundRate(newRate)) <= ToInt(upper)
    BY <1>5, <1>6, <1>7, MinMaxCorrect
  <2>2. ToInt(upper) = CurrentRate + MaxDiff \/ ToInt(upper) = MAX_ABS_VALUE
    BY <1>1, <1>2, <1>3
  <2>3. ToInt(BoundRate(newRate)) >= CurrentRate
    BY <1>1, <1>5, <1>7, <2>1, <2>2
  <2>4. BoundRate(newRate) \in SignedInt
    BY <1>6, <2>1
  <2> QED BY <1>1, <1>2, <1>3, <1>5, <2>1, <2>2, <2>3, <2>4
<1>8. CASE ~Gt(newRate, old)
  <2>1. /\ BoundRate(newRate) = SignedMax(newRate, lower)
        /\ BoundRate(newRate) \in {newRate, lower}
        /\ ToInt(BoundRate(newRate)) >= ToInt(newRate)
        /\ ToInt(BoundRate(newRate)) >= ToInt(lower)
    BY <1>5, <1>6, <1>8, MinMaxCorrect
  <2>2. ToInt(lower) = CurrentRate - MaxDiff \/ ToInt(lower) = -MAX_ABS_VALUE
    BY <1>1, <1>2, <1>4
  <2>3. ToInt(BoundRate(newRate)) <= CurrentRate
    BY <1>1, <1>5, <1>8, <2>1, <2>2
  <2>4. BoundRate(newRate) \in SignedInt
    BY <1>6, <2>1
  <2> QED BY <1>1, <1>2, <1>4, <1>5, <2>1, <2>2, <2>3, <2>4
<1> QED
  BY <1>7, <1>8

-----------------------------------------------------------------------------
(* The inductive invariant                                                  *)

\* Setting the rate stores what _boundRate returns, with the time of the block.
LEMMA StoredRate ==
  ASSUME TypeOK, NEW sender \in Provider, NEW newRate \in SignedInt,
         SetFundingRate(sender, newRate)
  PROVE  /\ fundingRate' \in Index /\ FitsIndex(fundingRate)'
         /\ fundingRate'.value <= MAX_ABS_VALUE
         /\ fundingRate'.timestamp = now /\ now' = now
         /\ CurrentRate' \in Int
         /\ CurrentRate' - CurrentRate <= MaxDiff /\ CurrentRate - CurrentRate' <= MaxDiff
         /\ updates' = updates \union {<<now, CurrentRate'>>}
         /\ CurrentRate' = ToInt(BoundRate(newRate))
<1> DEFINE bounded == BoundRate(newRate)
           stored  == [timestamp |-> now, isPositive |-> bounded.isPositive,
                       value |-> bounded.value]
<1>2. /\ bounded \in SignedInt
      /\ ToInt(bounded) <= MAX_ABS_VALUE /\ -MAX_ABS_VALUE <= ToInt(bounded)
      /\ ToInt(bounded) - CurrentRate <= MaxDiff
      /\ CurrentRate - ToInt(bounded) <= MaxDiff
  BY BoundRateCorrect
<1>3. /\ fundingRate' = stored /\ FitsIndex(stored) /\ now' = now
      /\ updates' = updates \union {<<now, ToInt(bounded)>>}
  BY DEF SetFundingRate
<1> HIDE DEF bounded
<1>4. stored \in Index /\ stored.timestamp = now /\ SignedIndex(stored) = bounded
  BY <1>2 DEF TypeOK, Index, SignedIndex, SignedInt
<1>5. stored.value = bounded.value
  OBVIOUS
<1> HIDE DEF stored
<1>6. bounded.value <= MAX_ABS_VALUE /\ ToInt(bounded) \in Int
  BY <1>2, RateAssumption DEF SignedInt, ToInt
<1>7. CurrentRate' = ToInt(bounded)
  BY <1>3, <1>4 DEF CurrentRate
<1>8. FitsIndex(fundingRate)'
  BY <1>3 DEF FitsIndex
<1>9. CurrentRate' = ToInt(BoundRate(newRate))
  BY <1>7 DEF bounded
<1> QED
  BY <1>2, <1>3, <1>4, <1>5, <1>6, <1>7, <1>8, <1>9

\* The rate set now is within the limit of every earlier update.
LEMMA SpeedOfNewUpdate ==
  ASSUME IInv, NEW rate \in Int,
         rate - CurrentRate <= MaxDiff, CurrentRate - rate <= MaxDiff,
         NEW u \in updates
  PROVE  /\ u[1] <= now
         /\ rate - u[2] <= MAX_ABS_DIFF_PER_SECOND * (now - u[1])
         /\ u[2] - rate <= MAX_ABS_DIFF_PER_SECOND * (now - u[1])
<1> DEFINE d == MAX_ABS_DIFF_PER_SECOND
           ts == fundingRate.timestamp
<1>1. /\ d \in Nat /\ ts \in Int /\ now \in Int /\ ts <= now
      /\ u[1] \in Int /\ u[1] <= ts /\ u[2] \in Int
      /\ CurrentRate \in Int
      /\ <<ts, CurrentRate>> \in updates
  BY DiffFacts, BoundTypes, ClockAssumption DEF IInv, TypeOK
<1>2. /\ CurrentRate - u[2] <= d * (ts - u[1])
      /\ u[2] - CurrentRate <= d * (ts - u[1])
  BY <1>1 DEF IInv, UpdatesSpeedLimited
<1>3. rate - CurrentRate <= d * (now - ts) /\ CurrentRate - rate <= d * (now - ts)
  BY DEF MaxDiff
<1> HIDE DEF d, ts
<1>4. ts - u[1] \in Nat /\ now - ts \in Nat /\ (ts - u[1]) + (now - ts) = now - u[1]
  BY <1>1
<1>5. d * (ts - u[1]) \in Nat /\ d * (now - ts) \in Nat
  BY <1>1, <1>4, LimitsAddUp
<1>6. d * (ts - u[1]) + d * (now - ts) = d * (now - u[1])
  BY <1>1, <1>4, LimitsAddUp
<1>7. /\ u[1] <= now
      /\ rate - u[2] <= d * (now - u[1]) /\ u[2] - rate <= d * (now - u[1])
  BY <1>1, <1>2, <1>3, <1>5, <1>6
<1> QED
  BY <1>7 DEF d

\* The bound on the rate bounds what is charged for any period.
LEMMA FundingFacts ==
  fundingRate \in Index /\ fundingRate.value <= MAX_ABS_VALUE => FundingBounded
<1> SUFFICES ASSUME fundingRate \in Index, fundingRate.value <= MAX_ABS_VALUE,
                    NEW timeDelta \in 0..MaxTime
             PROVE  GetFunding(timeDelta)
                      \in -(MAX_ABS_VALUE * timeDelta)..(MAX_ABS_VALUE * timeDelta)
  BY DEF FundingBounded
<1>1. /\ fundingRate.value \in Nat /\ MAX_ABS_VALUE \in Nat /\ timeDelta \in Nat
      /\ MAX_ABS_VALUE - fundingRate.value \in Nat
  BY RateAssumption, ClockAssumption DEF Index
<1>2. /\ fundingRate.value * timeDelta \in Nat
      /\ (MAX_ABS_VALUE - fundingRate.value) * timeDelta \in Nat
      /\ fundingRate.value * timeDelta + (MAX_ABS_VALUE - fundingRate.value) * timeDelta
           = MAX_ABS_VALUE * timeDelta
  BY <1>1
<1>3. fundingRate.value * timeDelta <= MAX_ABS_VALUE * timeDelta
  BY <1>1, <1>2
<1> QED
  BY <1>1, <1>2, <1>3 DEF GetFunding, ToInt

\* The constructor establishes the invariant.
LEMMA InitIInv == Init => IInv
<1> SUFFICES ASSUME Init PROVE IInv
  OBVIOUS
<1>1. /\ fundingRate = [timestamp |-> StartTime, isPositive |-> TRUE, value |-> 0]
      /\ FitsIndex(fundingRate) /\ fundingRateProvider \in Provider
      /\ now = StartTime /\ updates = {<<StartTime, 0>>}
      /\ StartTime \in Nat
  BY ClockAssumption DEF Init
<1>2. CurrentRate = 0
  BY <1>1 DEF CurrentRate, SignedIndex, ToInt
<1>3. fundingRate \in Index /\ fundingRate.value <= MAX_ABS_VALUE
  BY <1>1, RateAssumption DEF Index
<1>5. TypeOK
  BY <1>1, <1>2, <1>3, FundingFacts DEF TypeOK
<1>4. UpdatesSpeedLimited
  <2>1. ASSUME NEW u \in updates, NEW v \in updates
        PROVE  /\ v[2] - u[2] = 0 /\ u[2] - v[2] = 0
               /\ MAX_ABS_DIFF_PER_SECOND * (v[1] - u[1]) >= 0
    <3>1. u[1] = StartTime /\ v[1] = StartTime /\ u[2] = 0 /\ v[2] = 0
      BY <1>1
    <3>2. v[1] - u[1] \in Nat
      BY <1>1, <3>1
    <3>3. MAX_ABS_DIFF_PER_SECOND * (v[1] - u[1]) \in Nat
      BY <3>2, DiffFacts, LimitsAddUp
    <3> QED BY <3>1, <3>3
  <2> QED BY <2>1 DEF UpdatesSpeedLimited
<1> QED
  BY <1>1, <1>5, <1>4 DEF IInv

\* Whatever rate is asked for, setting the rate preserves it.
LEMMA SetKeepsIInv ==
  ASSUME IInv, NEW sender \in Provider, NEW newRate \in SignedInt,
         SetFundingRate(sender, newRate)
  PROVE  IInv'
<1>1. TypeOK
  BY DEF IInv
<1>2. /\ fundingRate' \in Index /\ FitsIndex(fundingRate)'
      /\ fundingRate'.value <= MAX_ABS_VALUE
      /\ fundingRate'.timestamp = now /\ now' = now
      /\ CurrentRate' \in Int
      /\ CurrentRate' - CurrentRate <= MaxDiff /\ CurrentRate - CurrentRate' <= MaxDiff
      /\ updates' = updates \union {<<now, CurrentRate'>>}
  BY <1>1, StoredRate
<1>3. /\ fundingRateProvider' = fundingRateProvider
  BY DEF SetFundingRate
<1>4. /\ now \in StartTime..now /\ updates \subseteq (StartTime..now) \X Int
      /\ fundingRateProvider \in Provider
  BY <1>1, ClockAssumption DEF TypeOK
<1>9. FundingBounded'
  <2>1. (fundingRate \in Index /\ fundingRate.value <= MAX_ABS_VALUE => FundingBounded)'
    BY FundingFacts, PTL
  <2> QED BY <1>2, <2>1
<1>5. TypeOK'
  BY <1>1, <1>2, <1>3, <1>4, <1>9 DEF TypeOK
<1>6. \A u \in updates :
         /\ u[1] <= now
         /\ CurrentRate' - u[2] <= MAX_ABS_DIFF_PER_SECOND * (now - u[1])
         /\ u[2] - CurrentRate' <= MAX_ABS_DIFF_PER_SECOND * (now - u[1])
  BY <1>2, SpeedOfNewUpdate
<1>7. UpdatesSpeedLimited'
  <2> SUFFICES ASSUME NEW u \in updates', NEW v \in updates', u[1] <= v[1]
               PROVE  /\ v[2] - u[2] <= MAX_ABS_DIFF_PER_SECOND * (v[1] - u[1])
                      /\ u[2] - v[2] <= MAX_ABS_DIFF_PER_SECOND * (v[1] - u[1])
    BY DEF UpdatesSpeedLimited, MAX_ABS_DIFF_PER_SECOND
  <2> DEFINE w == <<now, CurrentRate'>>
  <2>1. w[1] = now /\ w[2] = CurrentRate'
    OBVIOUS
  <2>2. now \in Int /\ CurrentRate' \in Int /\ MAX_ABS_DIFF_PER_SECOND \in Nat
    BY <1>1, <1>2, DiffFacts DEF TypeOK
  <2> HIDE DEF w
  <2>3. CASE u \in updates /\ v \in updates
    BY <2>3 DEF IInv, UpdatesSpeedLimited
  <2>4. CASE u \in updates /\ v = w
    BY <1>6, <2>1, <2>4
  <2>5. CASE u = w /\ v \in updates
    <3>1. v[1] = now
      <4>1. v[1] \in Int /\ v[1] <= now
        BY <1>4, <1>6, <2>5
      <4> QED BY <2>1, <2>2, <2>5, <4>1
    <3> QED BY <1>6, <2>1, <2>5, <3>1
  <2>6. CASE u = w /\ v = w
    <3>1. /\ v[2] - u[2] = 0 /\ u[2] - v[2] = 0 /\ v[1] - u[1] = 0
      BY <2>1, <2>2, <2>6
    <3>2. MAX_ABS_DIFF_PER_SECOND * 0 = 0
      BY <2>2
    <3> QED BY <3>1, <3>2
  <2> QED
    BY <1>2, <2>3, <2>4, <2>5, <2>6 DEF w
<1>8. \A u \in updates' : u[1] <= fundingRate'.timestamp
  <2>1. now <= now
    BY <1>1 DEF TypeOK
  <2> QED BY <1>2, <1>6, <2>1
<1> QED
  BY <1>2, <1>5, <1>7, <1>8 DEF IInv

\* Every call, and the passing of time, preserves it.
LEMMA StepIInv == IInv /\ [Next]_vars => IInv'
<1> SUFFICES ASSUME IInv, [Next]_vars PROVE IInv'
  OBVIOUS
<1>1. ASSUME NEW sender \in Provider, NEW newRate \in NewRate,
             SetFundingRate(sender, newRate)
      PROVE  IInv'
  BY <1>1, SetKeepsIInv, AskedAssumption
<1>2. ASSUME NEW newProvider \in Provider, SetFundingRateProvider(newProvider)
      PROVE  IInv'
  BY <1>2 DEF IInv, TypeOK, UpdatesSpeedLimited, SetFundingRateProvider,
              CurrentRate, FitsIndex, MAX_ABS_DIFF_PER_SECOND, FundingBounded, GetFunding
<1>3. CASE Tick
  <2>1. /\ fundingRate' = fundingRate /\ fundingRateProvider' = fundingRateProvider
        /\ updates' = updates /\ now' = now + 1
    BY <1>3 DEF Tick
  <2>2. FundingBounded'
    BY <2>1 DEF IInv, TypeOK, FundingBounded, GetFunding
  <2>3. /\ now \in Nat
        /\ fundingRate.timestamp \in StartTime..now
        /\ updates \subseteq (StartTime..now) \X Int
    BY DEF IInv, TypeOK
  <2>4. /\ now' \in Nat
        /\ StartTime..now \subseteq StartTime..now'
    BY <2>1, <2>3, ClockAssumption
  <2>5. /\ fundingRate.timestamp \in StartTime..now'
        /\ updates \subseteq (StartTime..now') \X Int
    BY <2>3, <2>4
  <2>6. CurrentRate' = CurrentRate /\ (FitsIndex(fundingRate)' <=> FitsIndex(fundingRate))
    BY <2>1 DEF CurrentRate, FitsIndex
  <2>7. TypeOK'
    BY <2>1, <2>2, <2>4, <2>5, <2>6 DEF IInv, TypeOK
  <2>8. UpdatesSpeedLimited' /\ \A u \in updates' : u[1] <= fundingRate'.timestamp
    BY <2>1 DEF IInv, UpdatesSpeedLimited, MAX_ABS_DIFF_PER_SECOND
  <2> QED
    BY <2>1, <2>7, <2>8 DEF IInv
<1>4. CASE UNCHANGED vars
  BY <1>4 DEF IInv, TypeOK, UpdatesSpeedLimited, vars, CurrentRate, FitsIndex,
              MAX_ABS_DIFF_PER_SECOND, FundingBounded, GetFunding
<1> QED
  BY <1>1, <1>2, <1>3, <1>4 DEF Next

\* The inductive invariant holds in every reachable state.
THEOREM InductiveInvariant == Spec => []IInv
BY InitIInv, StepIInv, PTL DEF Spec

\* The stored rate always fits its widths and the bound on its size.
THEOREM TypeCorrect == Spec => []TypeOK
<1>1. IInv => TypeOK
  BY DEF IInv
<1> QED
  BY <1>1, InductiveInvariant, PTL

\* The limit on the speed holds between any two updates, however many others
\* were made between them.
THEOREM SpeedIsLimited == Spec => []UpdatesSpeedLimited
<1>1. IInv => UpdatesSpeedLimited
  BY DEF IInv
<1> QED
  BY <1>1, InductiveInvariant, PTL

\* From an update to the lowest rate to one to the highest it takes 45 minutes.
THEOREM FullSwingIsSlow == Spec => []FullSwingTakesTime
<1>1. IInv => FullSwingTakesTime
  <2> SUFFICES ASSUME IInv, NEW u \in updates, NEW v \in updates,
                      u[2] = -MAX_ABS_VALUE, v[2] = MAX_ABS_VALUE
               PROVE  u[1] - v[1] >= SwingTime \/ v[1] - u[1] >= SwingTime
    BY DEF FullSwingTakesTime
  <2> DEFINE d == MAX_ABS_DIFF_PER_SECOND
  <2>1. /\ u[1] \in Int /\ v[1] \in Int
        /\ MAX_ABS_VALUE \in Nat /\ MAX_ABS_VALUE > 0
        /\ SwingTime \in Nat /\ SwingTime > 0
        /\ d \in Nat /\ d * SwingTime <= MAX_ABS_VALUE * 2
    BY DiffFacts, RateAssumption, SwingAssumption, ClockAssumption DEF IInv, TypeOK
  <2>2. ASSUME NEW t \in Nat, MAX_ABS_VALUE * 2 <= d * t
        PROVE  t >= SwingTime
    <3>1. SUFFICES ASSUME t < SwingTime PROVE FALSE
      BY <2>1, <2>2
    <3> HIDE DEF d
    <3>2. t + 1 \in Nat /\ t + 1 <= SwingTime
      BY <2>1, <3>1
    <3>3. d * (t + 1) <= d * SwingTime
      BY <2>1, <3>2, LimitGrows
    <3>4. d * t \in Nat /\ d * t + d * 1 = d * (t + 1)
      BY <2>1, LimitsAddUp
    <3>5. d = 0
      BY <2>1, <2>2, <3>3, <3>4
    <3>6. d * t = 0
      BY <3>5
    <3> QED BY <2>1, <2>2, <3>6
  <2>3. CASE u[1] <= v[1]
    <3>1. v[2] - u[2] <= d * (v[1] - u[1])
      BY <2>3 DEF IInv, UpdatesSpeedLimited
    <3>2. v[1] - u[1] \in Nat /\ v[2] - u[2] = MAX_ABS_VALUE * 2
      BY <2>1, <2>3
    <3> QED BY <2>2, <3>1, <3>2
  <2>4. CASE v[1] <= u[1]
    <3>1. v[2] - u[2] <= d * (u[1] - v[1])
      BY <2>4 DEF IInv, UpdatesSpeedLimited
    <3>2. u[1] - v[1] \in Nat /\ v[2] - u[2] = MAX_ABS_VALUE * 2
      BY <2>1, <2>4
    <3> QED BY <2>2, <3>1, <3>2
  <2> QED
    BY <2>1, <2>3, <2>4
<1> QED
  BY <1>1, InductiveInvariant, PTL

-----------------------------------------------------------------------------
(* Funding that is charged later                                            *)

\* A non-empty set of times that are not after t has a latest one.
LEMMA LatestExists ==
  ASSUME NEW s \in Int, NEW t \in Int, NEW Times, Times \subseteq s..t, Times # {}
  PROVE  \E x \in Times : \A y \in Times : y <= x
<1> DEFINE S == s..t
           After(x) == {y \in S : x <= y}
           T == {After(x) : x \in Times}
<1>1. IsFiniteSet(S)
  BY FS_Interval
<1>2. Times \subseteq S /\ S \subseteq Int
  OBVIOUS
<1> HIDE DEF S
<1>6. T \subseteq SUBSET S /\ T # {}
  OBVIOUS
<1> HIDE DEF T
<1>3. PICK A \in T : \A B \in T : B \subseteq A => B = A
  BY <1>1, <1>6, MinimalSubset
<1>4. PICK x \in Times : A = After(x)
  BY DEF T
<1>5. ASSUME NEW y \in Times, x < y
      PROVE  FALSE
  <2>1. After(y) \in T /\ x \in Int /\ y \in Int
    BY <1>2 DEF T
  <2>2. After(y) \subseteq After(x)
    <3>1. \A z \in S : y <= z => x <= z
      BY <1>2, <1>5, <2>1
    <3> QED BY <3>1
  <2>3. x \in After(x) /\ x \notin After(y)
    BY <1>2, <1>5, <2>1
  <2> QED BY <1>3, <1>4, <2>1, <2>2, <2>3
<1> QED
  BY <1>2, <1>5

\* From the deployment on, some update is in force.
LEMMA InForceExists ==
  ASSUME IInv, NEW time \in Int, StartTime <= time
  PROVE  /\ InForce(time) \in updates
         /\ InForce(time)[1] \in Int /\ InForce(time)[2] \in Int
         /\ InForce(time)[1] <= time /\ InForce(time)[1] <= fundingRate.timestamp
         /\ \A v \in updates : v[1] <= time => v[1] <= InForce(time)[1]
<1> DEFINE Early == {u \in updates : u[1] <= time}
           Times == {u[1] : u \in Early}
<1>1. /\ StartTime \in Int /\ <<StartTime, 0>> \in updates
      /\ \A u \in updates : /\ u[1] \in Int /\ u[2] \in Int
                            /\ StartTime <= u[1] /\ u[1] <= fundingRate.timestamp
  BY ClockAssumption DEF IInv, TypeOK
<1>2. Times \subseteq StartTime..time
  BY <1>1
<1>3. <<StartTime, 0>> \in Early
  BY <1>1
<1>4. Times # {}
  BY <1>3
<1> HIDE DEF Times
<1>5. PICK x \in Times : \A y \in Times : y <= x
  BY <1>1, <1>2, <1>4, LatestExists
<1>6. PICK u \in Early : x = u[1]
  BY DEF Times
<1>7. \A v \in updates : v[1] <= time => v[1] <= u[1]
  BY <1>5, <1>6 DEF Times
<1>8. \E w \in updates : /\ w[1] <= time
                         /\ \A v \in updates : v[1] <= time => v[1] <= w[1]
  BY <1>6, <1>7
<1>9. /\ InForce(time) \in updates
      /\ InForce(time)[1] <= time
      /\ \A v \in updates : v[1] <= time => v[1] <= InForce(time)[1]
  BY <1>8 DEF InForce
<1> QED
  BY <1>1, <1>9

\* The rate in force at a time differs from the present one by at most what it may
\* have moved since the update in force at any earlier time, and since the last
\* update it is the present one.
LEMMA RateSince ==
  ASSUME IInv, NEW from \in Int, NEW time \in Int, StartTime <= from, from <= time
  PROVE  LET last  == fundingRate.timestamp
             moved == CurrentRate - InForce(time)[2]
             limit == MAX_ABS_DIFF_PER_SECOND * (last - InForce(from)[1])
         IN  /\ limit \in Nat
             /\ moved <= limit /\ -moved <= limit
             /\ last <= time => moved = 0
<1> DEFINE d == MAX_ABS_DIFF_PER_SECOND
           last == fundingRate.timestamp
           u == InForce(from)
           v == InForce(time)
<1>1. /\ d \in Nat /\ last \in Int /\ CurrentRate \in Int
      /\ <<last, CurrentRate>> \in updates
  BY DiffFacts, BoundTypes DEF IInv, TypeOK
<1>0. StartTime \in Int /\ StartTime <= time
  BY ClockAssumption
<1>2. u \in updates /\ u[1] \in Int /\ u[1] <= from /\ u[1] <= last
  BY InForceExists
<1>3. /\ v \in updates /\ v[1] \in Int /\ v[2] \in Int /\ v[1] <= last
      /\ \A w \in updates : w[1] <= time => w[1] <= v[1]
  BY <1>0, InForceExists
<1>4. u[1] <= v[1]
  BY <1>2, <1>3
<1>5. /\ CurrentRate - v[2] <= d * (last - v[1])
      /\ v[2] - CurrentRate <= d * (last - v[1])
  BY <1>1, <1>3 DEF IInv, UpdatesSpeedLimited
<1> HIDE DEF u, v, d, last
<1>6. last - v[1] \in Nat /\ last - u[1] \in Nat /\ last - v[1] <= last - u[1]
  BY <1>1, <1>2, <1>3, <1>4
<1>7. d * (last - v[1]) <= d * (last - u[1])
  BY <1>1, <1>6, LimitGrows
<1>8. d * (last - v[1]) \in Nat /\ d * (last - u[1]) \in Nat
  BY <1>1, <1>6, LimitsAddUp
<1>9. ASSUME last <= time PROVE CurrentRate - v[2] = 0
  <2>1. v[1] = last
    BY <1>1, <1>3, <1>9
  <2>2. d * (last - v[1]) = 0
    BY <1>1, <2>1
  <2> QED BY <1>1, <1>3, <1>5, <2>2
<1>10. /\ CurrentRate - v[2] <= d * (last - u[1])
       /\ -(CurrentRate - v[2]) <= d * (last - u[1])
  BY <1>1, <1>3, <1>5, <1>7, <1>8
<1> QED
  BY <1>8, <1>9, <1>10 DEF u, v, d, last

\* The funding of a period is as many times the present charge per second.
LEMMA FundingOfPeriod ==
  ASSUME TypeOK, NEW n \in Nat
  PROVE  GetFunding(n) = Charged(CurrentRate) * n
<1>1. /\ fundingRate.value \in Nat /\ fundingRate.isPositive \in BOOLEAN
      /\ InverseMarket \in BOOLEAN
  BY SwingAssumption DEF TypeOK, Index
<1>2. (-fundingRate.value) * n = -(fundingRate.value * n) /\ fundingRate.value * n \in Nat
  BY <1>1
<1>3. CurrentRate = IF fundingRate.isPositive THEN fundingRate.value ELSE -fundingRate.value
  BY DEF CurrentRate, SignedIndex, ToInt
<1>4. GetFunding(n) = IF fundingRate.isPositive # InverseMarket
                      THEN fundingRate.value * n ELSE -(fundingRate.value * n)
  BY DEF GetFunding, ToInt
<1>5. Charged(CurrentRate) = IF fundingRate.isPositive # InverseMarket
                             THEN fundingRate.value ELSE -fundingRate.value
  BY <1>1, <1>3 DEF Charged
<1> QED
  BY <1>2, <1>4, <1>5

\* What a period costs at the present rate, less what its seconds cost, is the total
\* of the differences of the rates.
LEMMA DifferencesAddUp ==
  ASSUME NEW S, IsFiniteSet(S), NEW f \in [S -> Int], NEW r \in Int
  PROVE  Total([t \in S |-> r - f[t]]) = r * Cardinality(S) - Total(f)
<1> DEFINE ones == [t \in S |-> 1]
           neg == Negated(f)
           h == [t \in S |-> r - f[t]]
<1>0. neg \in [S -> Int] /\ ones \in [S -> Int] /\ h \in [S -> Int]
  BY NegatedType
<1>1. \A t \in S : neg[t] = -f[t] /\ ones[t] = 1 /\ h[t] = r - f[t]
  BY NegatedType
<1>2. Total(ones) = Cardinality(S)
  BY TotalOfOnes
<1>3. Total(neg) = -Total(f) /\ Total(f) \in Int /\ Cardinality(S) \in Nat
  BY TotalNegated, TotalType, FS_CardinalityType
<1> HIDE DEF ones, neg, h
<1>4. \A t \in S : h[t] = neg[t] + r * ones[t]
  <2> SUFFICES ASSUME NEW t \in S PROVE h[t] = neg[t] + r * ones[t]
    OBVIOUS
  <2>1. f[t] \in Int /\ r * 1 = r
    OBVIOUS
  <2> QED BY <1>1, <2>1
<1>5. Total(h) = Total(neg) + r * Total(ones)
  BY ONLY IsFiniteSet(S), r \in Int, <1>0, <1>4, TotalLinear, SMT
<1>6. r * Cardinality(S) \in Int
  BY <1>3
<1>7. Total(h) = r * Cardinality(S) - Total(f)
  BY <1>2, <1>3, <1>5, <1>6
<1> QED
  BY <1>7 DEF h

\* What getFunding charges for a period differs from the funding of its seconds by at
\* most the bound, for any limit, swing, market and updates, and any time at which the
\* period begins (P1FundingOracle.getFunding).
THEOREM RetroactiveIsBounded == Spec => []RetroactiveFundingBounded
<1>1. ASSUME IInv, NEW from \in StartTime..now
      PROVE  LET last  == fundingRate.timestamp
                 late  == IF from < last THEN last - from ELSE 0
                 limit == MAX_ABS_DIFF_PER_SECOND * (last - InForce(from)[1]) * late
             IN  GetFunding(now - from) - FundingEverySecond(from) \in -limit..limit
  <2> DEFINE last == fundingRate.timestamp
             S == from..(now - 1)
             T == {t \in S : t < last}
             r == Charged(CurrentRate)
             f == [t \in S |-> Charged(InForce(t)[2])]
             h == [t \in S |-> r - f[t]]
             b == MAX_ABS_DIFF_PER_SECOND * (last - InForce(from)[1])
             late == IF from < last THEN last - from ELSE 0
  <2>1. /\ TypeOK /\ StartTime \in Int /\ now \in Int /\ last \in Int /\ last <= now
        /\ from \in Int /\ StartTime <= from /\ from <= now /\ CurrentRate \in Int
        /\ InverseMarket \in BOOLEAN
    BY <1>1, BoundTypes, ClockAssumption, SwingAssumption DEF IInv, TypeOK
  <2>2. /\ IsFiniteSet(S) /\ Cardinality(S) = now - from
    BY <2>1, FS_Interval
  <2>3. T \in SUBSET S /\ Cardinality(T) = late
    <3>1. T = from..(last - 1)
      BY <2>1
    <3> DEFINE end == last - 1
    <3>4. end \in Int
      BY <2>1
    <3> HIDE DEF end
    <3>5. Cardinality(from..end) = IF from > end THEN 0 ELSE end - from + 1
      BY <2>1, <3>4, FS_Interval
    <3>2. Cardinality(from..(last - 1)) = IF from > last - 1 THEN 0 ELSE last - 1 - from + 1
      BY <3>5 DEF end
    <3>3. Cardinality(from..(last - 1)) = late
      BY <2>1, <3>2
    <3> QED BY <3>1, <3>3
  <2>4. \A t \in S : /\ InForce(t)[2] \in Int /\ b \in Nat
                     /\ CurrentRate - InForce(t)[2] <= b
                     /\ -(CurrentRate - InForce(t)[2]) <= b
                     /\ last <= t => CurrentRate - InForce(t)[2] = 0
    <3> SUFFICES ASSUME NEW t \in S
                 PROVE  /\ InForce(t)[2] \in Int /\ b \in Nat
                        /\ CurrentRate - InForce(t)[2] <= b
                        /\ -(CurrentRate - InForce(t)[2]) <= b
                        /\ last <= t => CurrentRate - InForce(t)[2] = 0
      OBVIOUS
    <3>1. t \in Int /\ StartTime <= t /\ from <= t
      BY <2>1
    <3> QED BY <1>1, <2>1, <3>1, InForceExists, RateSince
  <2>5. b \in Nat
    BY <1>1, <2>1, RateSince
  <2> HIDE DEF b, T
  <2>6. f \in [S -> Int] /\ r \in Int
    <3>1. \A x \in Int : Charged(x) \in Int
      BY <2>1 DEF Charged
    <3> QED BY <2>1, <2>4, <3>1
  <2>7. \A t \in S : /\ r - f[t] <= b /\ -(r - f[t]) <= b
                     /\ t \notin T => r - f[t] = 0
    <3> SUFFICES ASSUME NEW t \in S
                 PROVE  /\ r - f[t] <= b /\ -(r - f[t]) <= b
                        /\ t \notin T => r - f[t] = 0
      OBVIOUS
    <3>1. f[t] = Charged(InForce(t)[2]) /\ t \in Int
      BY <2>1
    <3>2. t \notin T => last <= t
      BY <2>1, <3>1 DEF T
    <3>3. \A x, y \in Int : \/ Charged(x) - Charged(y) = x - y
                            \/ Charged(x) - Charged(y) = -(x - y)
      BY <2>1 DEF Charged
    <3> DEFINE moved == CurrentRate - InForce(t)[2]
    <3>4. /\ moved \in Int /\ moved <= b /\ -moved <= b
          /\ t \notin T => moved = 0
      BY <2>1, <2>4, <3>2
    <3>5. r - f[t] = moved \/ r - f[t] = -moved
      BY <2>1, <2>4, <3>1, <3>3
    <3> HIDE DEF moved, f, r
    <3> QED BY <3>4, <3>5
  <2>8. FundingEverySecond(from) = Total(f)
    BY DEF FundingEverySecond
  <2>9. GetFunding(now - from) = r * (now - from)
    BY <2>1, FundingOfPeriod
  <2> HIDE DEF S, f, r
  <2>10. Total(h) = r * (now - from) - Total(f)
    BY <2>2, <2>6, DifferencesAddUp
  <2>11. /\ h \in [S -> Int] /\ Negated(h) \in [S -> Int]
         /\ \A t \in S : h[t] = r - f[t] /\ Negated(h)[t] = -(r - f[t])
    BY <2>6, NegatedType DEF Negated
  <2> HIDE DEF h
  <2>12. Total(h) <= b * Cardinality(T)
    <3>1. ASSUME NEW t \in S PROVE h[t] <= b /\ (t \notin T => h[t] <= 0)
      BY <2>7, <2>11
    <3>2. T \in SUBSET S
      BY <2>3
    <3> QED BY <2>2, <2>5, <2>11, <3>1, <3>2, TotalBounded
  <2>13. Total(Negated(h)) <= b * Cardinality(T)
    <3>1. ASSUME NEW t \in S PROVE Negated(h)[t] <= b /\ (t \notin T => Negated(h)[t] <= 0)
      BY <2>7, <2>11
    <3>2. T \in SUBSET S
      BY <2>3
    <3> QED BY <2>2, <2>5, <2>11, <3>1, <3>2, TotalBounded
  <2>14. Total(Negated(h)) = -Total(h) /\ Total(h) \in Int
    BY <2>2, <2>11, TotalNegated, TotalType
  <2>15. late \in Nat /\ b * late \in Nat
    BY <2>1, <2>5
  <2> HIDE DEF late
  <2>16. Total(h) \in -(b * late)..(b * late)
    BY <2>3, <2>12, <2>13, <2>14, <2>15
  <2>17. GetFunding(now - from) - FundingEverySecond(from) = Total(h)
    BY <2>8, <2>9, <2>10
  <2> QED BY <2>16, <2>17 DEF b, late
<1>2. IInv => RetroactiveFundingBounded
  BY <1>1 DEF RetroactiveFundingBounded
<1> QED
  BY <1>2, InductiveInvariant, PTL

-----------------------------------------------------------------------------
(* The closest rate                                                         *)

\* Of the rates that both bounds allow, an update sets the one closest to the request.
LEMMA UpdateIsClosest ==
  ASSUME TypeOK, NEW sender \in Provider, NEW newRate \in SignedInt,
         SetFundingRate(sender, newRate)
  PROVE  /\ CurrentRate' \in Allowed
         /\ \A rate \in Allowed :
              Miss(CurrentRate', ToInt(newRate)) <= Miss(rate, ToInt(newRate))
<1> DEFINE asked == ToInt(newRate)
           stored == CurrentRate'
<1>1. asked \in Int
  BY DEF SignedInt, ToInt
<1>2. stored = ToInt(BoundRate(newRate)) /\ stored \in Int
  BY StoredRate
<1>3. /\ stored <= MAX_ABS_VALUE /\ -MAX_ABS_VALUE <= stored
      /\ stored - CurrentRate <= MaxDiff /\ CurrentRate - stored <= MaxDiff
      /\ asked < stored => stored = CurrentRate - MaxDiff \/ stored = -MAX_ABS_VALUE
      /\ stored < asked => stored = CurrentRate + MaxDiff \/ stored = MAX_ABS_VALUE
  BY <1>1, <1>2, BoundRateCorrect
<1>4. MaxDiff \in Nat /\ CurrentRate \in Int /\ MAX_ABS_VALUE \in Nat
  BY BoundTypes, RateAssumption
<1> HIDE DEF asked, stored
<1>5. stored \in Allowed
  BY <1>2, <1>3, <1>4 DEF Allowed
<1>6. ASSUME NEW rate \in Allowed PROVE Miss(stored, asked) <= Miss(rate, asked)
  <2>1. /\ rate \in Int /\ rate <= MAX_ABS_VALUE /\ -MAX_ABS_VALUE <= rate
        /\ rate - CurrentRate <= MaxDiff /\ -MaxDiff <= rate - CurrentRate
    BY <1>4 DEF Allowed
  <2>2. CASE asked < stored
    <3>1. stored <= rate
      BY <1>2, <1>3, <1>4, <2>1, <2>2
    <3> QED BY <1>1, <1>2, <2>1, <2>2, <3>1 DEF Miss
  <2>3. CASE stored < asked
    <3>1. rate <= stored
      BY <1>2, <1>3, <1>4, <2>1, <2>3
    <3> QED BY <1>1, <1>2, <2>1, <2>3, <3>1 DEF Miss
  <2>4. CASE stored = asked
    BY <1>1, <2>1, <2>4 DEF Miss
  <2> QED BY <1>1, <1>2, <2>2, <2>3, <2>4
<1> QED
  BY <1>5, <1>6 DEF asked, stored

\* Of the rates that both bounds allow the provider gets the one closest to its
\* request.
THEOREM ProviderGetsClosest == Spec => ClosestAllowedRate
<1> DEFINE Closest ==
        \A sender \in Provider, newRate \in NewRate :
          SetFundingRate(sender, newRate) =>
              /\ CurrentRate' \in Allowed
              /\ \A rate \in Allowed :
                    Miss(CurrentRate', ToInt(newRate)) <= Miss(rate, ToInt(newRate))
<1>1. TypeOK => Closest
  BY UpdateIsClosest, AskedAssumption
<1>2. TypeOK /\ [Next]_vars => [Closest]_vars
  BY <1>1
<1> QED
  BY <1>2, TypeCorrect, PTL DEF Spec, ClosestAllowedRate

-----------------------------------------------------------------------------
(* The client                                                               *)

\* A rate that goes to the client and back is the same (types.ts: the units of the
\* contract are units of the client, and minus zero stays minus zero).
LEMMA ConversionsCancel ==
  ASSUME NEW rate \in SignedInt
  PROVE  ToSoliditySignedInt(FromSolidity(rate)) = rate
<1>1. rate.value \in Nat /\ PARTS \in Nat \ {0} /\ rate.isPositive \in BOOLEAN
  BY ClientTypesAssumption DEF SignedInt
<1>2. /\ 2 * (rate.value * PARTS) + PARTS = rate.value * (2 * PARTS) + PARTS
      /\ 2 * (rate.value * PARTS) + PARTS \in Int /\ 2 * PARTS \in Nat \ {0}
      /\ 0 <= PARTS /\ PARTS < 2 * PARTS
  BY <1>1
<1>3. (2 * (rate.value * PARTS) + PARTS) \div (2 * PARTS) = rate.value
  <2> DEFINE n == 2 * (rate.value * PARTS) + PARTS
             d == 2 * PARTS
  <2>1. /\ n \in Int /\ d \in Nat \ {0} /\ n = rate.value * d + PARTS
        /\ 0 <= PARTS /\ PARTS < d
    BY <1>2
  <2> HIDE DEF n, d
  <2>2. n \div d = rate.value
    BY <1>1, <2>1, QuotientIs
  <2> QED BY <2>2 DEF n, d
<1>4. /\ FromSolidity(rate).value = rate.value * PARTS
      /\ FromSolidity(rate).isNegative = ~rate.isPositive
  BY DEF FromSolidity
<1>5. ToSolidity(FromSolidity(rate)) = rate.value
  BY <1>3, <1>4 DEF ToSolidity
<1> QED
  BY <1>1, <1>4, <1>5 DEF ToSoliditySignedInt, SignedInt

\* What the client sends is a rate of the contract.
LEMMA SentRate ==
  ASSUME NEW rate \in BaseValue
  PROVE  ToSoliditySignedInt(rate) \in SignedInt
<1>1. /\ rate.value \in Nat /\ PARTS \in Nat \ {0} /\ rate.isNegative \in BOOLEAN
  BY ClientTypesAssumption DEF BaseValue
<1>2. 2 * rate.value + PARTS \in Nat /\ 2 * PARTS \in Nat \ {0}
  BY <1>1
<1>3. (2 * rate.value + PARTS) \div (2 * PARTS) \in Nat
  BY <1>2
<1> QED
  BY <1>1, <1>3 DEF ToSoliditySignedInt, ToSolidity, SignedInt

\* The words of a log hold the fields they were put together from (Logs.parseIndex).
LEMMA IndexWord ==
  ASSUME NEW index \in Index, index.value <= MAX_UINT128
  PROVE  ParseIndex(IndexToBytes32(index))
           = [timestamp |-> index.timestamp, baseValue |-> ToInt(SignedIndex(index))]
<1> DEFINE w == MAX_UINT128 + 1
           flag == Flag(index.isPositive)
           field == flag * w + index.value
<1>1. /\ w \in Nat \ {0} /\ flag \in {0, 1} /\ flag \in Nat
      /\ index.value \in Nat /\ index.value < w /\ index.timestamp \in Nat
      /\ index.isPositive \in BOOLEAN
      /\ flag # 0 <=> index.isPositive
  BY IndexWidthAssumption DEF Index, Flag
<1>2. /\ SignedField(MAX_UINT128) = 256 * w
      /\ IndexToBytes32(index) = index.timestamp * (256 * w) + flag * w + index.value
  BY DEF SignedField, Byte, IndexToBytes32
<1> HIDE DEF w, flag
<1>3. /\ field \in Nat /\ 0 <= field /\ field < 256 * w
      /\ 256 * w \in Nat \ {0} /\ index.timestamp * (256 * w) \in Nat
      /\ flag * w \in Nat
  BY <1>1
<1>4. field \div w = flag /\ field % w = index.value
  BY <1>1, <1>3, QuotientIs
<1>5. /\ IndexToBytes32(index) = index.timestamp * (256 * w) + field
      /\ IndexToBytes32(index) \in Int
  BY <1>1, <1>2, <1>3
<1> HIDE DEF field
<1>6. /\ IndexToBytes32(index) \div (256 * w) = index.timestamp
      /\ IndexToBytes32(index) % (256 * w) = field
  <2> DEFINE d == 256 * w
  <2>1. d \in Nat \ {0} /\ field < d /\ IndexToBytes32(index) = index.timestamp * d + field
    BY <1>3, <1>5
  <2> HIDE DEF d
  <2>2. IndexToBytes32(index) \div d = index.timestamp /\ IndexToBytes32(index) % d = field
    BY <1>1, <1>3, <1>5, <2>1, QuotientIs
  <2> QED BY <2>2 DEF d
<1>7. ParseSigned(field, MAX_UINT128) = ToInt(SignedIndex(index))
  <2>1. ParseSigned(field, MAX_UINT128)
          = IF index.isPositive THEN index.value ELSE -index.value
    BY <1>1, <1>4 DEF ParseSigned, w
  <2> QED BY <1>1, <2>1 DEF SignedIndex, ToInt
<1> QED
  BY <1>2, <1>6, <1>7 DEF ParseIndex

\* The result of a simulation is a rate of the contract, and as long as nobody else has
\* set the rate it is still allowed.
SimulationAllowed ==
    Simulated =>
        /\ simulation.asked \in ClientRate
        /\ \E bounded \in SignedInt :
              /\ simulation.result = FromSolidity(bounded)
              /\ ~outdated => ToInt(bounded) \in Allowed

ClientIInv == IInv /\ SimulationAllowed

\* What is allowed stays allowed while time passes and the rate stays.
LEMMA AllowedGrows ==
  ASSUME TypeOK, fundingRate' = fundingRate, now' \in Nat, now <= now'
  PROVE  Allowed \subseteq Allowed'
<1>1. CurrentRate' = CurrentRate /\ CurrentRate \in Int
  BY BoundTypes DEF CurrentRate
<1>2. MaxDiff \in Nat /\ MaxDiff' \in Nat /\ MaxDiff <= MaxDiff'
  <2> DEFINE d == MAX_ABS_DIFF_PER_SECOND
             s == now - fundingRate.timestamp
             t == now' - fundingRate.timestamp
  <2>1. s \in Nat /\ t \in Nat /\ s <= t /\ d \in Nat
    BY ClockAssumption, DiffFacts DEF TypeOK
  <2>2. MaxDiff = d * s /\ MaxDiff' = d * t
    BY DEF MaxDiff, MAX_ABS_DIFF_PER_SECOND
  <2> HIDE DEF d, s, t
  <2>3. d * s <= d * t /\ d * s \in Nat /\ d * t \in Nat
    BY <2>1, LimitGrows, LimitsAddUp
  <2> QED BY <2>2, <2>3
<1>3. MAX_ABS_VALUE \in Nat
  BY RateAssumption
<1> SUFFICES ASSUME NEW rate \in Allowed PROVE rate \in Allowed'
  OBVIOUS
<1>4. /\ rate \in Int /\ rate \in -MAX_ABS_VALUE..MAX_ABS_VALUE
      /\ rate - CurrentRate <= MaxDiff /\ -MaxDiff <= rate - CurrentRate
  BY <1>1, <1>2, <1>3 DEF Allowed
<1>5. rate - CurrentRate \in -(MaxDiff')..MaxDiff'
  <2> DEFINE max == MaxDiff'
  <2>1. max \in Nat /\ MaxDiff <= max /\ MaxDiff \in Nat
    BY <1>2
  <2> HIDE DEF max
  <2>2. rate - CurrentRate \in -max..max
    BY <1>1, <1>4, <2>1
  <2> QED BY <2>2 DEF max
<1>6. rate - CurrentRate' \in -(MaxDiff')..MaxDiff'
  BY <1>1, <1>5
<1> QED
  BY <1>4, <1>6 DEF Allowed

\* What the contract answers to the simulation is allowed now.
LEMMA SimulatedIsAllowed ==
  ASSUME TypeOK, NEW rate \in SignedInt
  PROVE  BoundRate(rate) \in SignedInt /\ ToInt(BoundRate(rate)) \in Allowed
<1> DEFINE bounded == ToInt(BoundRate(rate))
<1>1. /\ BoundRate(rate) \in SignedInt
      /\ bounded <= MAX_ABS_VALUE /\ -MAX_ABS_VALUE <= bounded
      /\ bounded - CurrentRate <= MaxDiff /\ CurrentRate - bounded <= MaxDiff
  BY BoundRateCorrect
<1>2. bounded \in Int
  BY <1>1 DEF SignedInt, ToInt
<1>3. MaxDiff \in Nat /\ CurrentRate \in Int /\ MAX_ABS_VALUE \in Nat
  BY BoundTypes, RateAssumption
<1> HIDE DEF bounded
<1>4. bounded \in Allowed
  BY <1>1, <1>2, <1>3 DEF Allowed
<1> QED
  BY <1>1, <1>4 DEF bounded

\* An update that a caller of the client sends.
LEMMA ClientRates ==
  ASSUME SimulationAllowed, Simulated
  PROVE  /\ ToSoliditySignedInt(simulation.asked) \in SignedInt
         /\ ToSoliditySignedInt(simulation.result) \in SignedInt
         /\ ~outdated => IntOf(simulation.result) \in Allowed
<1>1. simulation.asked \in BaseValue
  BY ClientRateAssumption DEF SimulationAllowed
<1>2. ToSoliditySignedInt(simulation.asked) \in SignedInt
  BY <1>1, SentRate
<1>3. PICK bounded \in SignedInt : /\ simulation.result = FromSolidity(bounded)
                                   /\ ~outdated => ToInt(bounded) \in Allowed
  BY DEF SimulationAllowed
<1>4. ToSoliditySignedInt(simulation.result) = bounded
  BY <1>3, ConversionsCancel
<1> QED
  BY <1>2, <1>3, <1>4 DEF IntOf

\* The inductive step, with the calls of the client and those of others.
LEMMA ClientStepIInv ==
  ASSUME ClientIInv, [ClientNext]_allVars
  PROVE  ClientIInv'
<1>1. IInv /\ SimulationAllowed /\ TypeOK
  BY DEF ClientIInv, IInv
<1>2. ASSUME NEW sender \in Provider, NEW rate \in ClientRate,
             GetBoundedFundingRate(sender, rate)
      PROVE  ClientIInv'
  <2>1. IInv'
    <3>1. UNCHANGED vars
      BY <1>2 DEF GetBoundedFundingRate
    <3> QED BY <1>1, <3>1, StepIInv
  <2>2. /\ ToSoliditySignedInt(rate) \in SignedInt
    BY ClientRateAssumption, SentRate
  <2> DEFINE bounded == BoundRate(ToSoliditySignedInt(rate))
  <2>3. bounded \in SignedInt /\ ToInt(bounded) \in Allowed
    BY <1>1, <2>2, SimulatedIsAllowed
  <2>4. Allowed' = Allowed
    BY <1>2 DEF GetBoundedFundingRate, vars, Allowed, CurrentRate, MaxDiff,
                MAX_ABS_DIFF_PER_SECOND
  <2>5. simulation' = [asked |-> rate, result |-> FromSolidity(bounded)]
    BY <1>2 DEF GetBoundedFundingRate
  <2> HIDE DEF bounded
  <2>6. simulation'.asked = rate /\ simulation'.result = FromSolidity(bounded)
    BY <2>5
  <2>7. SimulationAllowed'
    BY <2>3, <2>4, <2>6 DEF SimulationAllowed
  <2> QED BY <2>1, <2>7 DEF ClientIInv
<1>3. ASSUME NEW sender \in Provider, SetSimulatedRate(sender) \/ SetAskedRate(sender)
      PROVE  ClientIInv'
  <2>1. /\ Simulated /\ simulation' = NoSimulation
        /\ \/ SetFundingRate(sender, ToSoliditySignedInt(simulation.result))
           \/ SetFundingRate(sender, ToSoliditySignedInt(simulation.asked))
    BY <1>3 DEF SetSimulatedRate, SetAskedRate, ClientSetFundingRate
  <2>2. IInv'
    BY <1>1, <2>1, ClientRates, SetKeepsIInv
  <2> QED BY <2>1, <2>2 DEF ClientIInv, SimulationAllowed, Simulated
<1>4. CASE OthersStep
  <2>1. Next /\ simulation' = simulation
        /\ outdated' = (outdated \/ (Simulated /\ fundingRate' # fundingRate))
    BY <1>4 DEF OthersStep
  <2>2. IInv'
    BY <1>1, <2>1, StepIInv
  <2>3. now' \in Nat /\ now <= now'
    <3>1. now' = now \/ now' = now + 1
      BY <2>1 DEF Next, SetFundingRate, SetFundingRateProvider, Tick
    <3> QED BY <1>1, <3>1 DEF TypeOK
  <2>4. ASSUME Simulated'
        PROVE  /\ simulation'.asked \in ClientRate
               /\ \E bounded \in SignedInt :
                     /\ simulation'.result = FromSolidity(bounded)
                     /\ ~outdated' => ToInt(bounded) \in Allowed'
    <3>1. Simulated
      BY <2>1, <2>4 DEF Simulated
    <3>2. PICK bounded \in SignedInt : /\ simulation.result = FromSolidity(bounded)
                                       /\ ~outdated => ToInt(bounded) \in Allowed
      BY <1>1, <3>1 DEF SimulationAllowed
    <3>3. ASSUME ~outdated' PROVE ToInt(bounded) \in Allowed'
      <4>1. ~outdated /\ fundingRate' = fundingRate
        BY <2>1, <3>1, <3>3
      <4> QED BY <1>1, <2>3, <3>2, <4>1, AllowedGrows
    <3> QED BY <1>1, <2>1, <3>1, <3>2, <3>3 DEF SimulationAllowed
  <2>5. SimulationAllowed'
    BY <2>4 DEF SimulationAllowed
  <2> QED BY <2>2, <2>5 DEF ClientIInv
<1>5. CASE UNCHANGED allVars
  <2>1. UNCHANGED vars /\ UNCHANGED <<simulation, outdated>>
    BY <1>5 DEF allVars, clientVars
  <2>2. IInv'
    BY <1>1, <2>1, StepIInv
  <2>3. Allowed' = Allowed
    BY <2>1 DEF vars, Allowed, CurrentRate, MaxDiff, MAX_ABS_DIFF_PER_SECOND
  <2>4. SimulationAllowed'
    BY <1>1, <2>1, <2>3 DEF SimulationAllowed, Simulated
  <2> QED BY <2>2, <2>4 DEF ClientIInv
<1> QED
  BY <1>2, <1>3, <1>4, <1>5 DEF ClientNext

\* The client's simulations are of use for any limit, any rate asked for and any delay:
\* the invariant of the contract carries over to the client's calls.
THEOREM ClientInvariant == ClientSpec => []ClientIInv
<1>1. ClientInit => ClientIInv
  BY InitIInv DEF ClientInit, ClientIInv, SimulationAllowed, Simulated
<1>2. ClientIInv /\ [ClientNext]_allVars => ClientIInv'
  BY ClientStepIInv
<1> QED
  BY <1>1, <1>2, PTL DEF ClientSpec

\* The client undoes the sign of the inverse market.
LEMMA RateOfClient == fundingRate \in Index => GetFundingRate = CurrentRate
<1> SUFFICES ASSUME fundingRate \in Index PROVE GetFundingRate = CurrentRate
  OBVIOUS
<1>1. fundingRate.value \in Nat /\ fundingRate.isPositive \in BOOLEAN /\ InverseMarket \in BOOLEAN
  BY SwingAssumption DEF Index
<1>2. fundingRate.value * 1 = fundingRate.value
  BY <1>1
<1>3. GetFunding(1) = IF fundingRate.isPositive # InverseMarket
                      THEN fundingRate.value ELSE -fundingRate.value
  BY <1>2 DEF GetFunding, ToInt
<1>4. CurrentRate = IF fundingRate.isPositive THEN fundingRate.value ELSE -fundingRate.value
  BY DEF CurrentRate, SignedIndex, ToInt
<1>5. GetFundingRate = IF InverseMarket THEN -GetFunding(1) ELSE GetFunding(1)
  BY DEF GetFundingRate, ClientFunding
<1> DEFINE funding == GetFunding(1)
<1> HIDE DEF funding
<1>6. CASE fundingRate.isPositive # InverseMarket
  <2>1. funding = fundingRate.value
    BY <1>3, <1>6 DEF funding
  <2>2. GetFundingRate = IF InverseMarket THEN -fundingRate.value ELSE fundingRate.value
    BY <1>5, <2>1 DEF funding
  <2> QED BY <1>1, <1>4, <1>6, <2>2
<1>7. CASE fundingRate.isPositive = InverseMarket
  <2>1. funding = -fundingRate.value
    BY <1>3, <1>7 DEF funding
  <2>2. GetFundingRate = IF InverseMarket THEN fundingRate.value ELSE -fundingRate.value
    BY <1>1, <1>5, <2>1 DEF funding
  <2> QED BY <1>1, <1>4, <1>7, <2>2
<1> QED
  BY <1>1, <1>6, <1>7

\* What the client reads of a rate that was just set is the rate, from the contract and
\* from its log.
LEMMA ClientReads ==
  ASSUME TypeOK, NEW sender \in Provider, NEW newRate \in SignedInt,
         SetFundingRate(sender, newRate)
  PROVE  /\ GetFundingRate' = CurrentRate'
         /\ ParseFundingRate(IndexToBytes32(fundingRate'))
              = [timestamp |-> now, baseValue |-> GetFundingRate']
<1>1. /\ fundingRate' \in Index /\ fundingRate'.value <= MAX_UINT128
      /\ fundingRate'.timestamp = now
  BY StoredRate DEF FitsIndex
<1>2. CurrentRate' = ToInt(SignedIndex(fundingRate'))
  BY DEF CurrentRate
<1>3. (fundingRate \in Index => GetFundingRate = CurrentRate)'
  BY RateOfClient, PTL
<1> QED
  BY <1>1, <1>2, <1>3, IndexWord DEF ParseFundingRate

\* The simulation of an update keeps its promise, for every pair of client and
\* contract, every rate and every delay (FundingOracle.getBoundedFundingRate).
THEOREM SimulationsAreKept == ClientSpec => SimulationsHold
<1> DEFINE Held ==
        ~outdated => \A sender \in Provider :
          /\ SetSimulatedRate(sender) => GetFundingRate' = IntOf(simulation.result)
          /\ SetAskedRate(sender) =>
                 LET asked == IntOf(simulation.asked)
                 IN  Miss(GetFundingRate', asked) <= Miss(IntOf(simulation.result), asked)
          /\ SetSimulatedRate(sender) \/ SetAskedRate(sender) =>
                 ParseFundingRate(IndexToBytes32(fundingRate')) =
                     [timestamp |-> now, baseValue |-> GetFundingRate']
<1>1. ClientIInv => Held
  <2> SUFFICES ASSUME ClientIInv, ~outdated, NEW sender \in Provider
               PROVE  /\ SetSimulatedRate(sender) => GetFundingRate' = IntOf(simulation.result)
                      /\ SetAskedRate(sender) =>
                            Miss(GetFundingRate', IntOf(simulation.asked))
                              <= Miss(IntOf(simulation.result), IntOf(simulation.asked))
                      /\ SetSimulatedRate(sender) \/ SetAskedRate(sender) =>
                            ParseFundingRate(IndexToBytes32(fundingRate')) =
                                [timestamp |-> now, baseValue |-> GetFundingRate']
    OBVIOUS
  <2>1. TypeOK /\ SimulationAllowed
    BY DEF ClientIInv, IInv
  <2>2. ASSUME SetSimulatedRate(sender)
        PROVE  /\ GetFundingRate' = IntOf(simulation.result)
               /\ ParseFundingRate(IndexToBytes32(fundingRate')) =
                     [timestamp |-> now, baseValue |-> GetFundingRate']
    <3> DEFINE rate == ToSoliditySignedInt(simulation.result)
    <3>1. Simulated /\ SetFundingRate(sender, rate)
      BY <2>2 DEF SetSimulatedRate, ClientSetFundingRate
    <3>2. rate \in SignedInt /\ ToInt(rate) \in Allowed /\ ToInt(rate) = IntOf(simulation.result)
      BY <2>1, <3>1, ClientRates DEF IntOf
    <3> HIDE DEF rate
    <3>3. /\ CurrentRate' \in Int /\ ToInt(rate) \in Int
          /\ Miss(CurrentRate', ToInt(rate)) <= Miss(ToInt(rate), ToInt(rate))
      BY <2>1, <3>1, <3>2, UpdateIsClosest, StoredRate DEF SignedInt, ToInt
    <3>4. CurrentRate' = ToInt(rate)
      BY <3>3 DEF Miss
    <3> QED BY <2>1, <3>1, <3>2, <3>4, ClientReads
  <2>3. ASSUME SetAskedRate(sender)
        PROVE  /\ Miss(GetFundingRate', IntOf(simulation.asked))
                    <= Miss(IntOf(simulation.result), IntOf(simulation.asked))
               /\ ParseFundingRate(IndexToBytes32(fundingRate')) =
                     [timestamp |-> now, baseValue |-> GetFundingRate']
    <3> DEFINE rate == ToSoliditySignedInt(simulation.asked)
    <3>1. Simulated /\ SetFundingRate(sender, rate)
      BY <2>3 DEF SetAskedRate, ClientSetFundingRate
    <3>2. /\ rate \in SignedInt /\ ToInt(rate) = IntOf(simulation.asked)
          /\ IntOf(simulation.result) \in Allowed
      BY <2>1, <3>1, ClientRates DEF IntOf
    <3> HIDE DEF rate
    <3>3. Miss(CurrentRate', ToInt(rate)) <= Miss(IntOf(simulation.result), ToInt(rate))
      BY <2>1, <3>1, <3>2, UpdateIsClosest
    <3> QED BY <2>1, <3>1, <3>2, <3>3, ClientReads
  <2> QED BY <2>2, <2>3
<1>2. ClientIInv /\ [ClientNext]_allVars => [Held]_allVars
  BY <1>1
<1> QED
  BY <1>2, ClientInvariant, PTL DEF ClientSpec, SimulationsHold
=============================================================================
