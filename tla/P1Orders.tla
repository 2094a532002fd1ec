------------------------------ MODULE P1Orders ------------------------------
(***************************************************************************)
(* v1/traders/P1Orders.sol as a trader of PerpetualV1: signed or approved   *)
(* limit orders, filled in parts and by any number of calls.                *)
(*                                                                          *)
(* The contract keeps its state by the hash of an order; orders are records *)
(* here and stand for their hash (salt is what the flags hold beside the    *)
(* three of them that the contract looks at). Its trade() is a step of the  *)
(* trade() of PerpetualV1, with the result computed instead of chosen, and  *)
(* is undone when that reverts. Other traders may be used in the same call, *)
(* and what they call may approve or cancel orders in the middle of it.     *)
(***************************************************************************)
EXTENDS PerpetualV1

CONSTANTS
    OrdersTrader,       \* address of the contract
    Order, Fill,        \* orders and fills that appear in calls
    Signed,             \* orders the caller has a valid signature of the maker for
    Anyone              \* the taker 0x0 of an order that anyone may take

OrderType ==
    [maker : Account, taker : Account \union {Anyone}, isBuy : BOOLEAN,
     isDecreaseOnly : BOOLEAN, amount : Nat, limitPrice : Nat, triggerPrice : Nat,
     limitFee : Nat, isNegativeLimitFee : BOOLEAN, expiration : Nat, salt : Nat]

FillType == [amount : Nat, price : Nat, fee : Nat, isNegativeFee : BOOLEAN]

ASSUME OrdersAssumption ==
    /\ OrdersTrader \in Operator /\ Anyone \notin Account
    /\ Order \subseteq OrderType /\ Signed \subseteq Order /\ Fill \subseteq FillType
    \* The fields of an order have a fixed width.
    /\ IsFiniteSet(Order)

VARIABLES
    filledAmount,   \* _FILLED_AMOUNT_
    orderStatus,    \* _STATUS_
    takenAmount,    \* history: how much of each order each taker has taken
    transaction     \* sender of the trade() being executed, and what a revert restores

orderVars == <<filledAmount, orderStatus, takenAmount>>
allVars   == <<vars, orderVars, transaction>>

Open     == "OPEN"
Approved == "APPROVED"
Canceled == "CANCELED"

NoTransaction == [sender |-> Anyone, filledAmount |-> <<>>, orderStatus |-> <<>>,
                  takenAmount |-> <<>>]

-----------------------------------------------------------------------------
(* trade()                                                                  *)

\* _verifyOrderStateAndSignature
VerifyOrderState(order) ==
    \/ orderStatus[order] = Open /\ order \in Signed
    \/ orderStatus[order] = Approved

\* Mutation of ReducesPosition: the balance before the call decides.
ReducesInitialPosition(order, fill) ==
    LET balance == call.saved.balances[order.maker]
    IN  order.isBuy # balance.positionIsPositive /\ fill.amount <= balance.position

\* Reads what PerpetualV1 has stored for the maker at this moment.
ReducesPosition(order, fill) ==
    LET balance == balances[order.maker]
    IN  order.isBuy # balance.positionIsPositive /\ fill.amount <= balance.position

\* _verifyOrderRequest; the fee is signed, and a negative one goes to the maker.
VerifyOrderRequest(order, fill, maker, taker) ==
    /\ order.maker = maker
    /\ order.taker \in {taker, Anyone}
    /\ order.expiration >= now \/ order.expiration = 0
    /\ IF order.isBuy THEN fill.price <= order.limitPrice
                      ELSE fill.price >= order.limitPrice
    /\ IF order.isNegativeLimitFee
       THEN fill.isNegativeFee /\ fill.fee >= order.limitFee
       ELSE fill.isNegativeFee \/ fill.fee <= order.limitFee
    /\ \/ order.triggerPrice = 0
       \/ IF order.isBuy THEN order.triggerPrice <= call.price
                         ELSE order.triggerPrice >= call.price
    /\ order.isDecreaseOnly => ReducesPosition(order, fill)

\* Mutation of MarginPerPosition: a seller's fee is added like a buyer's.
MarginPerPositionOfBuyer(isBuy, price, fee, isNegativeFee) ==
    IF isNegativeFee THEN price - BaseMul(fee, price) ELSE price + BaseMul(fee, price)

\* The price per unit of position with the fee, which the maker pays or receives.
MarginPerPosition(isBuy, price, fee, isNegativeFee) ==
    IF isBuy = isNegativeFee THEN price - BaseMul(fee, price)
                             ELSE price + BaseMul(fee, price)

FillPrice(order, fill) ==
    MarginPerPosition(order.isBuy, fill.price, fill.fee, fill.isNegativeFee)

\* Mutation of WithinAmount: what was filled before does not count.
WithinAmountAlone(order, fill) == fill.amount <= order.amount

WithinAmount(order, fill) == filledAmount[order] + fill.amount <= order.amount

\* Mutation of TradeResult: isBuy from the perspective of the maker.
TradeResultOfMaker(order, fill) ==
    [marginAmount   |-> BaseMul(fill.amount, FillPrice(order, fill)),
     positionAmount |-> fill.amount,
     isBuy          |-> order.isBuy]

\* isBuy is from the perspective of the taker.
TradeResult(order, fill) ==
    [marginAmount   |-> BaseMul(fill.amount, FillPrice(order, fill)),
     positionAmount |-> fill.amount,
     isBuy          |-> ~order.isBuy]

\* One iteration of the loop of PerpetualV1.trade() with this trader: maker and
\* taker are positions in call.accounts, and Amount bounds the result as it does
\* that of any trader.
OrderTrade(order, fill, maker, taker) ==
    LET takerAccount == call.accounts[taker]
        result       == TradeResult(order, fill)
    IN  /\ status = Entered
        /\ hasAccountPermissions(takerAccount, transaction.sender)
        /\ VerifyOrderState(order)
        /\ VerifyOrderRequest(order, fill, call.accounts[maker], takerAccount)
        /\ WithinAmount(order, fill)
        /\ FillPrice(order, fill) >= 0
        /\ {result.marginAmount, result.positionAmount} \subseteq Amount
        /\ TradeStep(OrdersTrader, maker, taker, result.marginAmount,
                     result.positionAmount, result.isBuy)
        /\ filledAmount' = [filledAmount EXCEPT ![order] = @ + fill.amount]
        /\ takenAmount' = [takenAmount EXCEPT ![order][takerAccount] = @ + fill.amount]
        /\ UNCHANGED <<orderStatus, transaction>>

-----------------------------------------------------------------------------
(* Functions the maker calls                                                *)

\* Mutation of ApproveOrder: the status is not looked at.
ApproveAnyOrder(sender, order) ==
    /\ sender = order.maker
    /\ orderStatus' = [orderStatus EXCEPT ![order] = Approved]
    /\ UNCHANGED <<vars, filledAmount, takenAmount, transaction>>

ApproveOrder(sender, order) ==
    /\ sender = order.maker
    /\ orderStatus[order] # Canceled
    /\ orderStatus' = [orderStatus EXCEPT ![order] = Approved]
    /\ UNCHANGED <<vars, filledAmount, takenAmount, transaction>>

CancelOrder(sender, order) ==
    /\ sender = order.maker
    /\ orderStatus' = [orderStatus EXCEPT ![order] = Canceled]
    /\ UNCHANGED <<vars, filledAmount, takenAmount, transaction>>

-----------------------------------------------------------------------------
(* The functions of PerpetualV1                                             *)

OrdersInit ==
    /\ Init
    /\ filledAmount = [order \in Order |-> 0]
    /\ orderStatus = [order \in Order |-> Open]
    /\ takenAmount = [order \in Order |-> [account \in Account |-> 0]]
    /\ transaction = NoTransaction

BeginTransaction(sender, accounts) ==
    /\ TradeBegin(accounts)
    /\ transaction' = [sender |-> sender, filledAmount |-> filledAmount,
                       orderStatus |-> orderStatus, takenAmount |-> takenAmount]
    /\ UNCHANGED orderVars

EndTransaction ==
    /\ TradeEnd
    /\ transaction' = NoTransaction
    /\ UNCHANGED orderVars

RevertTransaction ==
    /\ TradeRevert
    /\ filledAmount' = transaction.filledAmount
    /\ orderStatus' = transaction.orderStatus
    /\ takenAmount' = transaction.takenAmount
    /\ transaction' = NoTransaction

\* A trade with another trader.
OtherTrade ==
    /\ \E trader \in Operator \ {OrdersTrader}, maker, taker \in DOMAIN call.accounts,
          marginAmount, positionAmount \in Amount, isBuy \in BOOLEAN :
           TradeStep(trader, maker, taker, marginAmount, positionAmount, isBuy)
    /\ UNCHANGED <<orderVars, transaction>>

\* What else happens to PerpetualV1.
OtherStep ==
    /\ MarginStep \/ FinalSettlementStep \/ AdminStep \/ OperatorStep \/ WorldStep
    /\ UNCHANGED <<orderVars, transaction>>

OrderStep ==
    \/ \E order \in Order, fill \in Fill, maker, taker \in DOMAIN call.accounts :
           OrderTrade(order, fill, maker, taker)
    \/ \E sender \in Account, order \in Order : ApproveOrder(sender, order)
    \/ \E sender \in Account, order \in Order : CancelOrder(sender, order)

TransactionStep ==
    \/ \E sender \in Account \union Operator, accounts \in AccountList :
           BeginTransaction(sender, accounts)
    \/ EndTransaction
    \/ RevertTransaction

OrdersNext == OrderStep \/ TransactionStep \/ OtherTrade \/ OtherStep

OrdersSpec == OrdersInit /\ [][OrdersNext]_allVars

-----------------------------------------------------------------------------
(* Properties                                                               *)

FilledAmounts == {f \in [Order -> Nat] : \A order \in Order : f[order] <= order.amount}
OrderStatuses == [Order -> {Open, Approved, Canceled}]
TakenAmounts  == [Order -> [Account -> Nat]]

\* No order is ever filled beyond its amount, by however many fills in however
\* many calls, committed or not.
OrdersTypeOK ==
    /\ filledAmount \in FilledAmounts
    /\ orderStatus \in OrderStatuses
    /\ takenAmount \in TakenAmounts
    /\ IF status = Entered
       THEN /\ transaction.sender \in Account \union Operator
            /\ transaction.filledAmount \in FilledAmounts
            /\ transaction.orderStatus \in OrderStatuses
            /\ transaction.takenAmount \in TakenAmounts
       ELSE transaction = NoTransaction

\* A part of an order as a change of the position of its maker.
Bought(order, amount) == IF order.isBuy THEN amount ELSE -amount

\* The orders of an account, and the orders of others it took: what its position
\* should be when no other trader is used.
PositionByFills(account) ==
    Total([order \in Order |->
        (IF order.maker = account THEN Bought(order, filledAmount[order]) ELSE 0)
          - Bought(order, takenAmount[order][account])])

\* The fills recorded explain the positions of the ledger, at every step of a
\* trade(), after a revert, and when somebody takes its own order.
PositionsComeFromFills ==
    Operator = {OrdersTrader} /\ noFinalSettlement =>
        \A account \in Account : Position(balances[account]) = PositionByFills(account)

\* The status of an order as the last transaction that ended left it.
CommittedStatus(order) ==
    IF status = Entered THEN transaction.orderStatus[order] ELSE orderStatus[order]

\* Once a cancellation is final the order is never filled again, nor approved.
CanceledForever ==
    [][\A order \in Order :
          CommittedStatus(order) = Canceled =>
              CommittedStatus(order)' = Canceled /\ filledAmount'[order] = filledAmount[order]
      ]_allVars

\* A step that fills a part of the order.
Filled(order) == status = Entered /\ status' = Entered
                    /\ filledAmount'[order] > filledAmount[order]

\* Filling a decrease-only order leaves the position of its maker smaller and on
\* the same side, whatever trades came before in the same call.
DecreaseOnlyDecreases ==
    [][\A order \in Order :
          order.isDecreaseOnly /\ Filled(order) =>
              LET before == Position(balances[order.maker])
                  after  == Position(balances[order.maker])'
              IN  IF before > 0 THEN after \in 0..before ELSE after \in before..0]_allVars

\* What the limits of an order allow its maker to pay, or promise it to receive,
\* per unit.
LimitPerPosition(order) ==
    LET fee == BaseMul(order.limitFee, order.limitPrice)
    IN  order.limitPrice + (IF order.isBuy = order.isNegativeLimitFee THEN -fee ELSE fee)

\* The maker gets its limits, fees included: the margin changes by at least what
\* they promise, up to less than one token unit of rounding per fill. A buyer who
\* asks for a rebate of more than 100% pays nothing, but cannot count on being paid:
\* at a price below zero the trade reverts.
LimitsRespected ==
    [][\A order \in Order :
          LET amount == filledAmount'[order] - filledAmount[order]
              gain   == Margin(balances[order.maker])' - Margin(balances[order.maker])
              limit  == LimitPerPosition(order)
          IN  Filled(order) /\ balances' # balances =>
                  IF order.isBuy
                  THEN -gain * BASE <= amount * (IF limit > 0 THEN limit ELSE 0)
                  ELSE (gain + 1) * BASE > amount * limit]_allVars
=============================================================================
