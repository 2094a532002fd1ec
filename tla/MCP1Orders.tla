----------------------------- MODULE MCP1Orders -----------------------------
(***************************************************************************)
(* Instances of P1Orders for TLC: the orders and fills, which are records.  *)
(***************************************************************************)
EXTENDS P1Orders

CONSTANTS o1, o2, f1, t1, t2

NoFunding == {[value |-> 0, isPositive |-> FALSE]}

\* An order without fee, trigger and expiration.
PlainOrder(maker, taker, isBuy, isDecreaseOnly, amount, limitPrice) ==
    [maker |-> maker, taker |-> taker, isBuy |-> isBuy,
     isDecreaseOnly |-> isDecreaseOnly, amount |-> amount, limitPrice |-> limitPrice,
     triggerPrice |-> 0, limitFee |-> 0, isNegativeLimitFee |-> FALSE, expiration |-> 0,
     salt |-> 0]

CloseOnly == {PlainOrder(1, Anyone, FALSE, TRUE, 2, 2)}

FreeFills == {[amount |-> a, price |-> 2, fee |-> 0, isNegativeFee |-> FALSE] : a \in {1, 2}}

\* What may change between transactions: operators are never removed, nothing is
\* donated.
BetweenTransactions ==
    /\ \/ \E account \in Account, amount \in Amount : Deposit(account, amount)
       \/ \E operator \in Operator : SetGlobalOperator(operator, TRUE)
       \/ \E o \in Oracle, price \in Price : ChangePrice(o, price)
       \/ Tick
    /\ UNCHANGED <<orderVars, transaction>>

OrdersMarketNext == OrderStep \/ TransactionStep \/ BetweenTransactions

OrdersMarketSpec == OrdersInit /\ [][OrdersMarketNext]_allVars
=============================================================================
