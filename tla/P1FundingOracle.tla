-------------------------- MODULE P1FundingOracle --------------------------
(***************************************************************************)
(* v1/oracles/P1FundingOracle.sol and P1InverseFundingOracle.sol: the rate  *)
(* per second that the provider sets, bounded in size and in speed, and the *)
(* funding that PerpetualV1 is charged for a period of time.                *)
(*                                                                          *)
(* The contract stores the rate and the time it was set, nothing older. A   *)
(* history variable keeps every rate that was ever set.                     *)
(***************************************************************************)
EXTENDS P1Index, Totals

CONSTANTS
    MAX_ABS_VALUE,      \* largest rate, positive or negative
    SwingTime,          \* "45 minutes"
    InverseMarket,      \* whether this is a P1InverseFundingOracle
    Provider,           \* addresses that may provide the rate
    NewRate,            \* rates the provider asks for
    StartTime, MaxTime  \* block times: of the deployment, and the last one explored

ASSUME RateAssumption  == MAX_ABS_VALUE \in Nat \ {0} /\ MAX_ABS_VALUE <= MAX_UINT128
ASSUME SwingAssumption == SwingTime \in Nat \ {0} /\ InverseMarket \in BOOLEAN
ASSUME AskedAssumption == NewRate \subseteq SignedInt
ASSUME ClockAssumption == StartTime \in Nat /\ MaxTime \in Nat

VARIABLES
    fundingRate,            \* _FUNDING_RATE_
    fundingRateProvider,    \* _FUNDING_RATE_PROVIDER_
    now,                    \* block.timestamp
    updates                 \* history: the time and the integer of every rate set

vars == <<fundingRate, fundingRateProvider, now, updates>>

\* Mutation of MAX_ABS_DIFF_PER_SECOND: rounded up.
DiffRoundedUp == (MAX_ABS_VALUE * 2 + SwingTime - 1) \div SwingTime

MAX_ABS_DIFF_PER_SECOND == (MAX_ABS_VALUE * 2) \div SwingTime

\* The integer the rate stands for.
CurrentRate == ToInt(SignedIndex(fundingRate))

\* What getFunding returns, as an integer: the rate of this moment for all of
\* the time, with its sign flipped by P1InverseFundingOracle.
GetFunding(timeDelta) ==
    ToInt([value      |-> fundingRate.value * timeDelta,
           isPositive |-> fundingRate.isPositive # InverseMarket])

MaxDiff == MAX_ABS_DIFF_PER_SECOND * (now - fundingRate.timestamp)

Highest == [value |-> MAX_ABS_VALUE, isPositive |-> TRUE]
Lowest  == [value |-> MAX_ABS_VALUE, isPositive |-> FALSE]

\* Mutation of BoundRate: the speed is limited, the size is not.
BoundRateBySpeed(newRate) ==
    LET oldRate == SignedIndex(fundingRate)
    IN  IF Gt(newRate, oldRate)
        THEN SignedMin(newRate, Add(oldRate, MaxDiff))
        ELSE SignedMax(newRate, Sub(oldRate, MaxDiff))

\* Mutation of BoundRate: one second too many is allowed for.
BoundRateOneSecondMore(newRate) ==
    LET oldRate == SignedIndex(fundingRate)
        maxDiff == MaxDiff + MAX_ABS_DIFF_PER_SECOND
    IN  IF Gt(newRate, oldRate)
        THEN SignedMin(newRate, SignedMin(Add(oldRate, maxDiff), Highest))
        ELSE SignedMax(newRate, SignedMax(Sub(oldRate, maxDiff), Lowest))

\* Mutation of BoundRate: a rate that goes too far is refused.
BoundRateAllOrNothing(newRate) ==
    LET oldRate == SignedIndex(fundingRate)
    IN  IF \/ Gt(newRate, SignedMin(Add(oldRate, MaxDiff), Highest))
           \/ Gt(SignedMax(Sub(oldRate, MaxDiff), Lowest), newRate)
        THEN oldRate
        ELSE newRate

BoundRate(newRate) ==
    LET oldRate == SignedIndex(fundingRate)
    IN  IF Gt(newRate, oldRate)
        THEN SignedMin(newRate, SignedMin(Add(oldRate, MaxDiff), Highest))
        ELSE SignedMax(newRate, SignedMax(Sub(oldRate, MaxDiff), Lowest))

-----------------------------------------------------------------------------
\* The constructor; the rate starts as the positive zero.
Init ==
    /\ fundingRate = [timestamp |-> StartTime, isPositive |-> TRUE, value |-> 0]
    /\ FitsIndex(fundingRate)
    /\ fundingRateProvider \in Provider
    /\ now = StartTime
    /\ updates = {<<StartTime, 0>>}

SetFundingRate(sender, newRate) ==
    LET bounded == BoundRate(newRate)
        stored  == [timestamp |-> now, isPositive |-> bounded.isPositive,
                    value |-> bounded.value]
    IN  /\ sender = fundingRateProvider
        /\ FitsIndex(stored)
        /\ fundingRate' = stored
        /\ updates' = updates \union {<<now, ToInt(bounded)>>}
        /\ UNCHANGED <<fundingRateProvider, now>>

\* Called by the owner.
SetFundingRateProvider(newProvider) ==
    /\ fundingRateProvider' = newProvider
    /\ UNCHANGED <<fundingRate, now, updates>>

\* A second passes.
Tick ==
    /\ now < MaxTime
    /\ now' = now + 1
    /\ UNCHANGED <<fundingRate, fundingRateProvider, updates>>

Next ==
    \/ \E sender \in Provider, newRate \in NewRate : SetFundingRate(sender, newRate)
    \/ \E newProvider \in Provider : SetFundingRateProvider(newProvider)
    \/ Tick

Spec == Init /\ [][Next]_vars

-----------------------------------------------------------------------------
\* What PerpetualV1 is charged for a period is within the bound on the rate.
FundingBounded ==
    \A timeDelta \in 0..MaxTime :
        GetFunding(timeDelta) \in -(MAX_ABS_VALUE * timeDelta)..(MAX_ABS_VALUE * timeDelta)

\* The stored rate always fits, within the bounds, at a time that has passed.
TypeOK ==
    /\ fundingRate \in Index
    /\ FitsIndex(fundingRate)
    /\ fundingRate.value <= MAX_ABS_VALUE
    /\ fundingRate.timestamp \in StartTime..now
    /\ fundingRateProvider \in Provider
    /\ now \in Nat
    /\ updates \subseteq (StartTime..now) \X Int
    /\ <<fundingRate.timestamp, CurrentRate>> \in updates
    /\ FundingBounded

\* The distance of two rates set at any two times, with any updates in between,
\* is at most the limit per second times the seconds between them.
UpdatesSpeedLimited ==
    \A u, v \in updates :
        u[1] <= v[1] =>
            /\ v[2] - u[2] <= MAX_ABS_DIFF_PER_SECOND * (v[1] - u[1])
            /\ u[2] - v[2] <= MAX_ABS_DIFF_PER_SECOND * (v[1] - u[1])

\* From the update that sets the lowest rate to the one that sets the highest, or
\* the other way round, it takes at least the 45 minutes of the documentation,
\* although the limit per second is rounded to whole units of rate.
FullSwingTakesTime ==
    \A u, v \in updates :
        u[2] = -MAX_ABS_VALUE /\ v[2] = MAX_ABS_VALUE =>
            u[1] - v[1] >= SwingTime \/ v[1] - u[1] >= SwingTime

\* The update that was in force at a time, which is the last one that was not later.
InForce(time) ==
    CHOOSE u \in updates : /\ u[1] <= time
                           /\ \A v \in updates : v[1] <= time => v[1] <= u[1]

\* What the market is charged for a second at a rate.
Charged(rate) == IF InverseMarket THEN -rate ELSE rate

\* The funding for all of the seconds since a time, each at the rate in force then.
FundingEverySecond(from) == Total([t \in from..(now - 1) |-> Charged(InForce(t)[2])])

\* getFunding charges the present rate for a period that began under earlier ones.
\* What it charges differs from the funding of every second at its own rate by no more
\* than the seconds before the last update, times what the rate may have moved since
\* the update in force when the period began; not at all if no update came after that.
RetroactiveFundingBounded ==
    \A from \in StartTime..now :
        LET last  == fundingRate.timestamp
            late  == IF from < last THEN last - from ELSE 0
            limit == MAX_ABS_DIFF_PER_SECOND * (last - InForce(from)[1]) * late
        IN  GetFunding(now - from) - FundingEverySecond(from) \in -limit..limit

\* The inductive invariant from which the four above follow: no rate was set after
\* the stored one, and the first was that of the deployment.
IInv ==
    /\ TypeOK
    /\ UpdatesSpeedLimited
    /\ <<StartTime, 0>> \in updates
    /\ \A u \in updates : u[1] <= fundingRate.timestamp

\* The distance of a rate to the rate asked for.
Miss(rate, newRate) == IF rate > newRate THEN rate - newRate ELSE newRate - rate

Allowed == {rate \in -MAX_ABS_VALUE..MAX_ABS_VALUE :
               rate - CurrentRate \in -MaxDiff..MaxDiff}

\* The provider gets the rate closest to the one it asks for that both bounds
\* allow: no request is refused, and repeating it loses nothing.
ClosestAllowedRate ==
    [][\A sender \in Provider, newRate \in NewRate :
          SetFundingRate(sender, newRate) =>
              /\ CurrentRate' \in Allowed
              /\ \A rate \in Allowed :
                    Miss(CurrentRate', ToInt(newRate)) <= Miss(rate, ToInt(newRate))]_vars
=============================================================================
