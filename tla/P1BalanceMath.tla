---------------------------- MODULE P1BalanceMath ----------------------------
(***************************************************************************)
(* v1/lib/P1BalanceMath.sol: operations on the Balance struct of P1Types.   *)
(* The in-place updates of the library return the updated balance here, and *)
(* the toUint120 of its setters is the operator FitsBalance, which every    *)
(* action that stores the result has among its guards (a value that does    *)
(* not fit reverts the transaction).                                        *)
(***************************************************************************)
EXTENDS SignedMath, BaseMath

CONSTANT MAX_UINT120        \* largest uint120

ASSUME Uint120Assumption == MAX_UINT120 \in Nat

\* P1Types.Balance
Balance == [marginIsPositive : BOOLEAN, positionIsPositive : BOOLEAN,
            margin : Nat, position : Nat]

ZeroBalance == [marginIsPositive |-> FALSE, positionIsPositive |-> FALSE,
                margin |-> 0, position |-> 0]

GetMargin(balance) ==
    [value |-> balance.margin, isPositive |-> balance.marginIsPositive]

GetPosition(balance) ==
    [value |-> balance.position, isPositive |-> balance.positionIsPositive]

\* The two integers a balance stands for.
Margin(balance) == ToInt(GetMargin(balance))
Position(balance) == ToInt(GetPosition(balance))

SetMargin(balance, newMargin) ==
    [marginIsPositive   |-> newMargin.isPositive,
     positionIsPositive |-> balance.positionIsPositive,
     margin             |-> newMargin.value,
     position           |-> balance.position]

SetPosition(balance, newPosition) ==
    [marginIsPositive   |-> balance.marginIsPositive,
     positionIsPositive |-> newPosition.isPositive,
     margin             |-> balance.margin,
     position           |-> newPosition.value]

FitsBalance(balance) ==
    balance.margin <= MAX_UINT120 /\ balance.position <= MAX_UINT120

AddToMargin(balance, amount) ==
    SetMargin(balance, Add(GetMargin(balance), amount))
SubFromMargin(balance, amount) ==
    SetMargin(balance, Sub(GetMargin(balance), amount))
AddToPosition(balance, amount) ==
    SetPosition(balance, Add(GetPosition(balance), amount))
SubFromPosition(balance, amount) ==
    SetPosition(balance, Sub(GetPosition(balance), amount))

\* The two results of getPositiveAndNegativeValue, in units of 1/BASE token.
PositiveValue(balance, price) ==
    (IF balance.marginIsPositive THEN balance.margin * BASE ELSE 0)
      + (IF balance.positionIsPositive THEN balance.position * price ELSE 0)
NegativeValue(balance, price) ==
    (IF balance.marginIsPositive THEN 0 ELSE balance.margin * BASE)
      + (IF balance.positionIsPositive THEN 0 ELSE balance.position * price)
=============================================================================
