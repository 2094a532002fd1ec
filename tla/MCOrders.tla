------------------------------ MODULE MCOrders ------------------------------
(***************************************************************************)
(* Instances of OrderEstimates for TLC: the orders and fills of the run     *)
(* "orders", made by the client.                                            *)
(***************************************************************************)
EXTENDS MCP1Orders, OrderEstimates

Whole(n) == [value |-> n * PARTS, isNegative |-> FALSE]
Rebate(n) == [value |-> n * PARTS, isNegative |-> TRUE]

\* An order that waits for its trigger, half a unit under 2, and expires; its
\* salt has more digits than the flags have room for.
ClientTriggered ==
    [isBuy |-> TRUE, isDecreaseOnly |-> FALSE, amount |-> 2, limitPrice |-> Whole(3),
     triggerPrice |-> [value |-> 2 * PARTS - PARTS \div 2, isNegative |-> FALSE],
     limitFee |-> Whole(1), maker |-> 1, taker |-> 2, expiration |-> 1, salt |-> SALT + 1]

\* One that asks for a rebate.
ClientRebate ==
    [isBuy |-> FALSE, isDecreaseOnly |-> FALSE, amount |-> 2, limitPrice |-> Whole(3),
     triggerPrice |-> Whole(0), limitFee |-> Rebate(1), maker |-> 2, taker |-> Anyone,
     expiration |-> 0, salt |-> 0]

ClientLimited == {ClientTriggered, ClientRebate}

ClientFills == [amount : {1, 2}, price : {Whole(1), Whole(3)},
                fee : [value : {0, PARTS}, isNegative : BOOLEAN]]

ChainOrders == {OrderToSolidity(order) : order \in ClientLimited}
ChainFills == {FillToSolidity(fill) : fill \in ClientFills}

\* The wallet of the maker of the second order adds the prefix, that of the first
\* one is asked for typed data, which it refuses.
ChainSigned ==
    {OrderToSolidity(order) : order \in {o \in {ClientRebate} :
        HashHasValidSignature(GetOrderHash(o, 1),
            SignHash("DECIMAL", GetOrderHash(o, 1), o.maker, "Hash"), o.maker)}}

MCMakerFee == Rebate(0)
MCSmallFee == Whole(2)
MCTakerFee == Whole(1)
=============================================================================
