---------------------------- MODULE P1Settlement ----------------------------
(***************************************************************************)
(* v1/impl/P1Settlement.sol as operators: how the global index accumulates  *)
(* funding, how an account catches up with it, and when an account is       *)
(* collateralized. The actions that store the results are in PerpetualV1.   *)
(***************************************************************************)
EXTENDS P1BalanceMath, P1Index

\* Mutation of NextIndex: the time of the update is not recorded.
NextIndexSameTime(index, now, rate, price) ==
    LET fundingValue == BaseMul(rate.value * (now - index.timestamp), price)
        signedIndex  == IF rate.isPositive
                        THEN Add(SignedIndex(index), fundingValue)
                        ELSE Sub(SignedIndex(index), fundingValue)
    IN  [timestamp  |-> index.timestamp,
         isPositive |-> signedIndex.isPositive,
         value      |-> signedIndex.value]

(***************************************************************************)
(* The global index of a transaction executed at time now, when the funder  *)
(* pays rate per second and the oracle reports price. All the time since    *)
(* the last update is charged at the rate and the price of this moment.     *)
(***************************************************************************)
NextIndex(index, now, rate, price) ==
    LET fundingValue == BaseMul(rate.value * (now - index.timestamp), price)
        signedIndex  == IF rate.isPositive
                        THEN Add(SignedIndex(index), fundingValue)
                        ELSE Sub(SignedIndex(index), fundingValue)
    IN  IF now = index.timestamp
        THEN index
        ELSE [timestamp  |-> now,
              isPositive |-> signedIndex.isPositive,
              value      |-> signedIndex.value]

\* newIndex - oldIndex
SignedIndexDiff(oldIndex, newIndex) ==
    SignedSub(SignedIndex(newIndex), SignedIndex(oldIndex))

\* Mutation of SettledBalance: a debit is rounded down like a credit.
SettledRoundingDown(balance, oldIndex, newIndex) ==
    LET diff == SignedIndexDiff(oldIndex, newIndex)
        settlement == BaseMul(diff.value, balance.position)
    IN  IF oldIndex.timestamp = newIndex.timestamp \/ balance.position = 0
        THEN balance
        ELSE IF diff.isPositive # balance.positionIsPositive
        THEN AddToMargin(balance, settlement)
        ELSE SubFromMargin(balance, settlement)

(***************************************************************************)
(* The balance of an account that last settled at oldIndex, brought to      *)
(* newIndex. Longs pay when the index went up, shorts when it went down;    *)
(* a credit is rounded down and a debit rounded up.                         *)
(***************************************************************************)
SettledBalance(balance, oldIndex, newIndex) ==
    LET diff == SignedIndexDiff(oldIndex, newIndex)
        settlementIsPositive == diff.isPositive # balance.positionIsPositive
    IN  IF oldIndex.timestamp = newIndex.timestamp \/ balance.position = 0
        THEN balance
        ELSE IF settlementIsPositive
        THEN AddToMargin(balance, BaseMul(diff.value, balance.position))
        ELSE SubFromMargin(balance, BaseMulRoundUp(diff.value, balance.position))

IsCollateralized(balance, price, minCollateral) ==
    PositiveValue(balance, price) * BASE
      >= NegativeValue(balance, price) * minCollateral

(***************************************************************************)
(* The claim of an account that last settled at index, in units of 1/BASE   *)
(* token. When the index rises by d, a position pays d * position: computed *)
(* exactly, settling would keep this quantity; the code's rounding can only *)
(* lower it. The contract computes no claims, the invariants do.            *)
(***************************************************************************)
Claim(balance, index) ==
    BASE * Margin(balance) + ToInt(SignedIndex(index)) * Position(balance)
=============================================================================
