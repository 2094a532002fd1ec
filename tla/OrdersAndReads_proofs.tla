----------------------- MODULE OrdersAndReads_proofs -----------------------
(***************************************************************************)
(* Proofs about what is used next to PerpetualV1.                           *)
(*                                                                          *)
(* P1Orders: it is a use of PerpetualV1, whose theorems carry over, and     *)
(* what it promises the makers of orders holds for every set of orders and  *)
(* fills; what the client predicts and estimates of orders agrees with it.  *)
(*                                                                          *)
(* Getters: the net balance the client computes is the one the contract     *)
(* would settle to, the liquidatable status it tells is the contract's, and *)
(* the words of the logs hold what was logged.                              *)
(***************************************************************************)
EXTENDS OrderEstimates, Getters, PerpetualV1_proofs

-----------------------------------------------------------------------------
(* Steps of PerpetualV1                                                     *)

\* The order trader's trade() is a trade of PerpetualV1.
LEMMA OrderTradeImplements ==
  ASSUME NEW order \in Order, NEW fill \in Fill,
         NEW maker \in DOMAIN call.accounts, NEW taker \in DOMAIN call.accounts,
         OrderTrade(order, fill, maker, taker)
  PROVE  Next
<1> DEFINE result == TradeResult(order, fill)
<1>1. /\ result.marginAmount \in Amount /\ result.positionAmount \in Amount
      /\ TradeStep(OrdersTrader, maker, taker, result.marginAmount,
                   result.positionAmount, result.isBuy)
  BY DEF OrderTrade
<1>2. result.isBuy \in BOOLEAN /\ OrdersTrader \in Operator
  BY OrdersAssumption DEF TradeResult, OrderType
<1> HIDE DEF result
<1> QED
  BY <1>1, <1>2 DEF Next, TradeCallStep

\* Every step is one of PerpetualV1 or leaves it alone.
LEMMA StepImplements == [OrdersNext]_allVars => [Next]_vars
<1> SUFFICES ASSUME [OrdersNext]_allVars PROVE [Next]_vars
  OBVIOUS
<1>1. CASE OrderStep
  <2>1. CASE \E order \in Order, fill \in Fill, maker, taker \in DOMAIN call.accounts :
                 OrderTrade(order, fill, maker, taker)
    BY <2>1, OrderTradeImplements
  <2>2. CASE \E sender \in Account, order \in Order :
                 ApproveOrder(sender, order) \/ CancelOrder(sender, order)
    BY <2>2 DEF ApproveOrder, CancelOrder
  <2> QED BY <1>1, <2>1, <2>2 DEF OrderStep
<1>2. CASE TransactionStep
  BY <1>2 DEF TransactionStep, BeginTransaction, EndTransaction, RevertTransaction,
              Next, TradeCallStep
<1>3. CASE OtherTrade
  BY <1>3 DEF OtherTrade, Next, TradeCallStep
<1>4. CASE OtherStep
  BY <1>4 DEF OtherStep, Next
<1>5. CASE UNCHANGED allVars
  BY <1>5 DEF allVars
<1> QED
  BY <1>1, <1>2, <1>3, <1>4, <1>5 DEF OrdersNext

\* The order trader makes no use of PerpetualV1 its specification does not allow
\* (trade() of P1Orders), so everything proved of PerpetualV1 holds with it.
THEOREM OrdersImplement == OrdersSpec => Spec
<1>1. OrdersInit => Init
  BY DEF OrdersInit
<1> QED
  BY <1>1, StepImplements, PTL DEF OrdersSpec, Spec

\* PerpetualV1 stays solvent with the order trader.
THEOREM OrdersSolvent == OrdersSpec => []Solvent
BY OrdersImplement, ContractIsSolvent, PTL

-----------------------------------------------------------------------------
(* Type correctness                                                         *)

\* A step of the rest of PerpetualV1 neither begins nor ends a trade().
LEMMA OtherStepStatus ==
  ASSUME OtherStep
  PROVE  status' = status /\ UNCHANGED <<orderVars, transaction>>
<1>1. CASE MarginStep
  BY <1>1 DEF OtherStep, MarginStep, Deposit, Withdraw
<1>2. CASE FinalSettlementStep
  BY <1>2 DEF OtherStep, FinalSettlementStep, WithdrawFinalSettlement
<1>3. CASE AdminStep
  BY <1>3 DEF OtherStep, AdminStep, SetGlobalOperator, SetOracle, SetFunder,
              SetMinCollateral, EnableFinalSettlement
<1>4. CASE OperatorStep
  BY <1>4 DEF OtherStep, OperatorStep, SetLocalOperator
<1>5. CASE WorldStep
  BY <1>5 DEF OtherStep, WorldStep, Tick, ChangePrice, ChangeRate, Donate
<1> QED
  BY <1>1, <1>2, <1>3, <1>4, <1>5 DEF OtherStep

\* Orders and fills have natural amounts.
LEMMA OrderTypes ==
  ASSUME NEW order \in Order, NEW fill \in Fill
  PROVE  /\ order.maker \in Account /\ order.isBuy \in BOOLEAN
         /\ order.amount \in Nat /\ fill.amount \in Nat
BY OrdersAssumption DEF OrderType, FillType

\* What the order trader keeps, with what a revert of the trade() being executed
\* restores: a cancellation made before it is not undone by it.
OrdersInv ==
    /\ OrdersTypeOK
    /\ status = Entered =>
          \A order \in Order :
              transaction.orderStatus[order] = Canceled =>
                  /\ orderStatus[order] = Canceled
                  /\ filledAmount[order] = transaction.filledAmount[order]

\* A fill within the amount of the order keeps the invariant.
LEMMA OrderTradeInv ==
  ASSUME OrdersInv, call.accounts \in AccountList,
         NEW order \in Order, NEW fill \in Fill,
         NEW maker \in DOMAIN call.accounts, NEW taker \in DOMAIN call.accounts,
         OrderTrade(order, fill, maker, taker)
  PROVE  OrdersInv'
<1> DEFINE takerAccount == call.accounts[taker]
<1>1. /\ status = Entered /\ status' = Entered
      /\ UNCHANGED <<orderStatus, transaction>>
      /\ filledAmount[order] + fill.amount <= order.amount
      /\ filledAmount' = [filledAmount EXCEPT ![order] = @ + fill.amount]
      /\ takenAmount' = [takenAmount EXCEPT ![order][takerAccount] = @ + fill.amount]
      /\ orderStatus[order] # Canceled
  BY DEF OrderTrade, TradeStep, WithinAmount, VerifyOrderState, Open, Approved, Canceled
<1>2. takerAccount \in Account
  BY DEF AccountList
<1>3. fill.amount \in Nat /\ order.amount \in Nat
  BY OrderTypes
<1> HIDE DEF takerAccount
<1>4. filledAmount' \in FilledAmounts
  BY <1>1, <1>3 DEF OrdersInv, OrdersTypeOK, FilledAmounts
<1>5. takenAmount' \in TakenAmounts
  BY <1>1, <1>2, <1>3 DEF OrdersInv, OrdersTypeOK, TakenAmounts
<1>6. OrdersTypeOK'
  BY <1>1, <1>4, <1>5 DEF OrdersInv, OrdersTypeOK
<1>7. \A other \in Order :
         transaction'.orderStatus[other] = Canceled =>
             /\ orderStatus'[other] = Canceled
             /\ filledAmount'[other] = transaction'.filledAmount[other]
  BY <1>1 DEF OrdersInv, OrdersTypeOK, FilledAmounts
<1> QED
  BY <1>6, <1>7 DEF OrdersInv

\* The invariant is inductive, given the types of PerpetualV1.
LEMMA StepOrdersInv == OrdersInv /\ TypeOK /\ [OrdersNext]_allVars => OrdersInv'
<1> SUFFICES ASSUME OrdersInv, TypeOK, [OrdersNext]_allVars PROVE OrdersInv'
  OBVIOUS
<1>1. CASE OrderStep
  <2>1. CASE \E order \in Order, fill \in Fill, maker, taker \in DOMAIN call.accounts :
                 OrderTrade(order, fill, maker, taker)
    <3>1. PICK order \in Order, fill \in Fill, maker \in DOMAIN call.accounts,
               taker \in DOMAIN call.accounts : OrderTrade(order, fill, maker, taker)
      BY <2>1
    <3>2. call.accounts \in AccountList
      BY <3>1 DEF OrderTrade, TypeOK, CallTypeOK
    <3> QED BY <3>1, <3>2, OrderTradeInv
  <2>2. CASE \E sender \in Account, order \in Order : ApproveOrder(sender, order)
    <3>1. PICK sender \in Account, order \in Order : ApproveOrder(sender, order)
      BY <2>2
    <3>2. /\ orderStatus[order] # Canceled
          /\ orderStatus' = [orderStatus EXCEPT ![order] = Approved]
          /\ status' = status /\ UNCHANGED <<filledAmount, takenAmount, transaction>>
      BY <3>1 DEF ApproveOrder, vars
    <3>3. OrdersTypeOK'
      BY <3>2 DEF OrdersInv, OrdersTypeOK, OrderStatuses
    <3> QED BY <3>2, <3>3 DEF OrdersInv, OrdersTypeOK, OrderStatuses, Approved, Canceled
  <2>3. CASE \E sender \in Account, order \in Order : CancelOrder(sender, order)
    <3>1. PICK sender \in Account, order \in Order : CancelOrder(sender, order)
      BY <2>3
    <3>2. /\ orderStatus' = [orderStatus EXCEPT ![order] = Canceled]
          /\ status' = status /\ UNCHANGED <<filledAmount, takenAmount, transaction>>
      BY <3>1 DEF CancelOrder, vars
    <3>3. OrdersTypeOK'
      BY <3>2 DEF OrdersInv, OrdersTypeOK, OrderStatuses
    <3> QED BY <3>2, <3>3 DEF OrdersInv, OrdersTypeOK, OrderStatuses
  <2> QED BY <1>1, <2>1, <2>2, <2>3 DEF OrderStep
<1>2. CASE TransactionStep
  <2>1. CASE \E sender \in Account \union Operator, accounts \in AccountList :
                 BeginTransaction(sender, accounts)
    <3>1. PICK sender \in Account \union Operator, accounts \in AccountList :
                 BeginTransaction(sender, accounts)
      BY <2>1
    <3>2. /\ status' = Entered
          /\ transaction' = [sender |-> sender, filledAmount |-> filledAmount,
                 orderStatus |-> orderStatus, takenAmount |-> takenAmount]
          /\ UNCHANGED <<filledAmount, orderStatus, takenAmount>>
      BY <3>1 DEF BeginTransaction, TradeBegin, orderVars
    <3> QED BY <3>2 DEF OrdersInv, OrdersTypeOK
  <2>2. CASE EndTransaction
    BY <2>2 DEF EndTransaction, TradeEnd, orderVars, OrdersInv, OrdersTypeOK,
                Entered, NotEntered
  <2>3. CASE RevertTransaction
    BY <2>3 DEF RevertTransaction, TradeRevert, OrdersInv, OrdersTypeOK,
                Entered, NotEntered
  <2> QED BY <1>2, <2>1, <2>2, <2>3 DEF TransactionStep
<1>3. CASE OtherTrade
  BY <1>3 DEF OtherTrade, TradeStep, orderVars, OrdersInv, OrdersTypeOK
<1>4. CASE OtherStep
  BY <1>4, OtherStepStatus DEF orderVars, OrdersInv, OrdersTypeOK
<1>5. CASE UNCHANGED allVars
  BY <1>5 DEF allVars, vars, orderVars, OrdersInv, OrdersTypeOK
<1> QED
  BY <1>1, <1>2, <1>3, <1>4, <1>5 DEF OrdersNext

\* The invariant of the order trader holds in every state.
LEMMA OrdersInvariant == OrdersSpec => []OrdersInv
<1>1. OrdersInit => OrdersInv
  BY OrdersAssumption
     DEF OrdersInit, Init, OrdersInv, OrdersTypeOK, FilledAmounts, OrderStatuses,
         TakenAmounts, OrderType, Entered, NotEntered
<1>2. OrdersSpec => []TypeOK
  BY OrdersImplement, TypeCorrect, PTL
<1> QED
  BY <1>1, <1>2, StepOrdersInv, PTL DEF OrdersSpec

\* No order is filled beyond its amount (_FILLED_AMOUNT_ of P1Orders).
THEOREM OrdersTypeCorrect == OrdersSpec => []OrdersTypeOK
<1>1. OrdersInv => OrdersTypeOK
  BY DEF OrdersInv
<1> QED
  BY <1>1, OrdersInvariant, PTL

-----------------------------------------------------------------------------
(* Canceled orders                                                          *)

\* A canceled order stays as it is, step by step.
LEMMA StepCanceled ==
  ASSUME OrdersInv, [OrdersNext]_allVars, NEW order \in Order,
         CommittedStatus(order) = Canceled
  PROVE  CommittedStatus(order)' = Canceled /\ filledAmount'[order] = filledAmount[order]
<1>1. orderStatus[order] = Canceled
  BY DEF OrdersInv, CommittedStatus
<1>2. CASE OrderStep
  <2>1. CASE \E o \in Order, fill \in Fill, maker, taker \in DOMAIN call.accounts :
                 OrderTrade(o, fill, maker, taker)
    <3>1. PICK o \in Order, fill \in Fill, maker \in DOMAIN call.accounts,
               taker \in DOMAIN call.accounts : OrderTrade(o, fill, maker, taker)
      BY <2>1
    <3>2. /\ orderStatus[o] # Canceled
          /\ status' = status /\ UNCHANGED <<orderStatus, transaction>>
          /\ filledAmount' = [filledAmount EXCEPT ![o] = @ + fill.amount]
      BY <3>1 DEF OrderTrade, TradeStep, VerifyOrderState, Open, Approved, Canceled
    <3> QED BY <1>1, <3>2 DEF CommittedStatus, OrdersInv, OrdersTypeOK, FilledAmounts
  <2>2. CASE \E sender \in Account, o \in Order :
                 ApproveOrder(sender, o) \/ CancelOrder(sender, o)
    <3>1. PICK o \in Order :
              /\ \/ /\ orderStatus[o] # Canceled
                    /\ orderStatus' = [orderStatus EXCEPT ![o] = Approved]
                 \/ orderStatus' = [orderStatus EXCEPT ![o] = Canceled]
              /\ status' = status /\ UNCHANGED <<filledAmount, transaction>>
      BY <2>2 DEF ApproveOrder, CancelOrder, vars
    <3>2. orderStatus \in OrderStatuses
      BY DEF OrdersInv, OrdersTypeOK
    <3> QED BY <1>1, <3>1, <3>2 DEF CommittedStatus, OrderStatuses
  <2> QED BY <1>2, <2>1, <2>2 DEF OrderStep
<1>3. CASE TransactionStep
  <2>1. CASE \E sender \in Account \union Operator, accounts \in AccountList :
                 BeginTransaction(sender, accounts)
    BY <1>1, <2>1 DEF BeginTransaction, TradeBegin, orderVars, CommittedStatus
  <2>2. CASE EndTransaction
    BY <1>1, <2>2 DEF EndTransaction, TradeEnd, orderVars, CommittedStatus,
                      Entered, NotEntered
  <2>3. CASE RevertTransaction
    BY <1>1, <2>3 DEF RevertTransaction, TradeRevert, CommittedStatus, OrdersInv,
                      Entered, NotEntered
  <2> QED BY <1>3, <2>1, <2>2, <2>3 DEF TransactionStep
<1>4. CASE OtherTrade
  BY <1>4 DEF OtherTrade, TradeStep, orderVars, CommittedStatus
<1>5. CASE OtherStep
  BY <1>5, OtherStepStatus DEF orderVars, CommittedStatus
<1>6. CASE UNCHANGED allVars
  BY <1>6 DEF allVars, vars, orderVars, CommittedStatus
<1> QED
  BY <1>2, <1>3, <1>4, <1>5, <1>6 DEF OrdersNext

\* A cancellation that has been committed is final: no approval and no revert of a
\* trade() in progress brings the order back (approveOrder, cancelOrder).
THEOREM CancellationIsFinal == OrdersSpec => CanceledForever
<1>1. OrdersInv /\ [OrdersNext]_allVars =>
        [\A order \in Order :
            CommittedStatus(order) = Canceled =>
                CommittedStatus(order)' = Canceled
                  /\ filledAmount'[order] = filledAmount[order]]_allVars
  BY StepCanceled
<1> QED
  BY <1>1, OrdersInvariant, PTL DEF OrdersSpec, CanceledForever

-----------------------------------------------------------------------------
(* Decrease-only orders                                                     *)

\* No step fills an order except a trade with it.
LEMMA OnlyTradesFill ==
  ASSUME OrdersInv, [OrdersNext]_allVars, NEW order \in Order, Filled(order)
  PROVE  \E fill \in Fill, maker, taker \in DOMAIN call.accounts :
             OrderTrade(order, fill, maker, taker)
<1>0. /\ status = Entered /\ status' = Entered
      /\ filledAmount \in [Order -> Nat]
      /\ filledAmount'[order] # filledAmount[order]
  BY DEF Filled, OrdersInv, OrdersTypeOK, FilledAmounts
<1>1. CASE OrderStep
  <2>1. CASE \E o \in Order, fill \in Fill, maker, taker \in DOMAIN call.accounts :
                 OrderTrade(o, fill, maker, taker)
    <3>1. PICK o \in Order, fill \in Fill, maker \in DOMAIN call.accounts,
               taker \in DOMAIN call.accounts : OrderTrade(o, fill, maker, taker)
      BY <2>1
    <3>2. filledAmount' = [filledAmount EXCEPT ![o] = @ + fill.amount]
      BY <3>1 DEF OrderTrade
    <3>3. o = order
      BY <1>0, <3>2
    <3> QED BY <3>1, <3>3
  <2>2. CASE \E sender \in Account, o \in Order :
                 ApproveOrder(sender, o) \/ CancelOrder(sender, o)
    BY <1>0, <2>2 DEF ApproveOrder, CancelOrder
  <2> QED BY <1>1, <2>1, <2>2 DEF OrderStep
<1>2. CASE TransactionStep
  BY <1>0, <1>2 DEF TransactionStep, BeginTransaction, EndTransaction, RevertTransaction,
       TradeBegin, TradeEnd, TradeRevert, nonReentrant, Entered, NotEntered, orderVars
<1>3. CASE OtherTrade
  BY <1>0, <1>3 DEF OtherTrade, orderVars
<1>4. CASE OtherStep
  BY <1>0, <1>4 DEF OtherStep, orderVars
<1>5. CASE UNCHANGED allVars
  BY <1>0, <1>5 DEF allVars, orderVars
<1> QED
  BY <1>1, <1>2, <1>3, <1>4, <1>5 DEF OrdersNext

\* The position of an account, by its fields.
LEMMA PositionOf ==
  ASSUME NEW b \in StoredBalance
  PROVE  /\ b.position \in Nat /\ b.positionIsPositive \in BOOLEAN
         /\ b.positionIsPositive => Position(b) = b.position /\ b.position > 0
         /\ ~b.positionIsPositive => Position(b) = 0 - b.position
<1>1. b \in Balance /\ Canonical(GetPosition(b))
  BY DEF StoredBalance
<1> QED
  BY <1>1 DEF Balance, Position, GetPosition, ToInt, Canonical

\* A fill of a decrease-only order leaves the maker on the same side, with less.
LEMMA StepDecreases ==
  ASSUME OrdersInv, TypeOK, MemoryMatchesStorage, [OrdersNext]_allVars,
         NEW order \in Order, order.isDecreaseOnly, Filled(order)
  PROVE  LET before == Position(balances[order.maker])
             after  == Position(balances[order.maker])'
         IN  IF before > 0 THEN after \in 0..before ELSE after \in before..0
<1>1. PICK fill \in Fill, maker \in DOMAIN call.accounts, taker \in DOMAIN call.accounts :
          OrderTrade(order, fill, maker, taker)
  BY OnlyTradesFill
<1> DEFINE b     == balances[order.maker]
           after == Position(balances'[order.maker])
<1>2. /\ order.maker = call.accounts[maker]
      /\ order.isBuy # b.positionIsPositive /\ fill.amount <= b.position
  BY <1>1 DEF OrderTrade, VerifyOrderRequest, ReducesPosition
<1>3. fill.amount \in Nat /\ order.isBuy \in BOOLEAN /\ order.maker \in Account
  BY OrderTypes
<1>4. \/ balances' = balances
      \/ after = Position(b) + (IF order.isBuy THEN fill.amount ELSE -fill.amount)
  <2>1. PICK m \in Amount, isBuy \in BOOLEAN :
            /\ isBuy = ~order.isBuy
            /\ TradeStep(OrdersTrader, maker, taker, m, fill.amount, isBuy)
    BY <1>1, <1>3 DEF OrderTrade, TradeResult
  <2>2. m \in Nat
    BY AmountAssumption
  <2>3. \/ balances' = balances
        \/ after = Position(b) + (IF isBuy THEN -fill.amount ELSE fill.amount)
    <3>1. /\ order.maker = call.accounts[maker]
          /\ TradeStep(OrdersTrader, maker, taker, m, fill.amount, isBuy)
      BY <1>2, <2>1
    <3> DEFINE account == order.maker
               p       == fill.amount
    <3>2. account = call.accounts[maker] /\ p \in Nat
          /\ TradeStep(OrdersTrader, maker, taker, m, p, isBuy)
      BY <1>3, <3>1
    <3> HIDE DEF account, p
    <3>3. \/ balances' = balances
          \/ Position(balances'[account])
                = Position(balances[account]) + (IF isBuy THEN -p ELSE p)
      BY <2>2, <3>2, MakerTraded
    <3> QED BY <3>3 DEF account, p
  <2> QED BY <1>3, <2>1, <2>3
<1>5. b \in StoredBalance
  BY <1>3 DEF TypeOK, StoredBalances
<1>6. /\ b.position \in Nat /\ b.positionIsPositive \in BOOLEAN
      /\ b.positionIsPositive => Position(b) = b.position /\ b.position > 0
      /\ ~b.positionIsPositive => Position(b) = 0 - b.position
  BY <1>5, PositionOf
<1>7. balances' = balances => after = Position(b)
  OBVIOUS
<1>0. after = Position(balances[order.maker])'
  BY DEF Position, GetPosition
<1> HIDE DEF b, after
<1>8. IF Position(b) > 0 THEN after \in 0..Position(b) ELSE after \in Position(b)..0
  BY <1>2, <1>3, <1>4, <1>6, <1>7
<1> QED
  BY <1>0, <1>8 DEF b

\* Decrease-only orders only ever decrease positions, whatever trades came before in
\* the same call (_verifyOrderRequest reads what trade() has already stored).
THEOREM DecreaseOnlyHolds == OrdersSpec => DecreaseOnlyDecreases
<1>1. OrdersSpec => [](OrdersInv /\ TypeOK /\ MemoryMatchesStorage)
  BY OrdersInvariant, OrdersImplement, TypeCorrect, MemoryIsStorage, PTL
<1>2. OrdersInv /\ TypeOK /\ MemoryMatchesStorage /\ [OrdersNext]_allVars =>
        [\A order \in Order :
            order.isDecreaseOnly /\ Filled(order) =>
                LET before == Position(balances[order.maker])
                    after  == Position(balances[order.maker])'
                IN  IF before > 0 THEN after \in 0..before ELSE after \in before..0]_allVars
  BY StepDecreases
<1> QED
  BY <1>1, <1>2, PTL DEF OrdersSpec, DecreaseOnlyDecreases

-----------------------------------------------------------------------------
(* The limits of an order                                                   *)

\* A fee takes at most its part of what a price grows by, and when it is 100% or more
\* at least the price itself.
LEMMA FeeOfPrice ==
  ASSUME NEW f \in Nat, NEW p \in Nat
  PROVE  /\ \A g, q \in Nat : f <= g /\ p <= q => BaseMul(f, p) <= BaseMul(g, q)
         /\ \A q \in Nat : f <= BASE /\ p <= q => BaseMul(f, q) - BaseMul(f, p) <= q - p
         /\ f >= BASE => BaseMul(f, p) >= p
<1>0. BASE \in Nat /\ BASE > 0
  BY BaseAssumption
<1>1. /\ BaseMul(f, p) \in Nat /\ BASE * BaseMul(f, p) <= f * p
      /\ f * p < BASE * BaseMul(f, p) + BASE
  BY BaseMulBounds
<1>2. ASSUME NEW g \in Nat, NEW q \in Nat, f <= g, p <= q
      PROVE  BaseMul(f, p) <= BaseMul(g, q)
  <2> DEFINE x == BaseMul(f, p)  y == BaseMul(g, q)
  <2>1. y \in Nat /\ g * q < BASE * y + BASE
    BY BaseMulBounds
  <2>2. f * p <= g * q
    <3>1. f * p <= g * p /\ p * g <= q * g
      BY <1>2, ProductMonotone
    <3>2. f * p \in Nat /\ g * p \in Nat /\ g * q \in Nat /\ p * g = g * p /\ q * g = g * q
      BY ProductNat
    <3> QED BY <3>1, <3>2
  <2>3. f * p \in Nat /\ g * q \in Nat /\ x \in Nat
    BY <1>1, ProductNat
  <2> HIDE DEF x, y
  <2>4. BASE * x < BASE * (y + 1)
    BY <1>0, <1>1, <2>1, <2>2, <2>3 DEF x
  <2>5. ASSUME x >= y + 1 PROVE FALSE
    <3>1. (y + 1) * BASE <= x * BASE
      BY <1>0, <2>1, <2>3, <2>5, ProductMonotone
    <3> QED BY <1>0, <2>1, <2>3, <2>4, <3>1
  <2>6. x <= y
    BY <2>1, <2>3, <2>5
  <2> QED BY <2>6 DEF x, y
<1>3. ASSUME NEW q \in Nat, f <= BASE, p <= q
      PROVE  BaseMul(f, q) - BaseMul(f, p) <= q - p
  <2> DEFINE x == BaseMul(f, p)  y == BaseMul(f, q)
  <2>1. y \in Nat /\ BASE * y <= f * q
    BY BaseMulBounds
  <2>2. f * q - f * p <= BASE * q - BASE * p
    <3>1. f * (q - p) <= BASE * (q - p)
      BY <1>0, <1>3, ProductMonotone
    <3>2. f * (q - p) = f * q - f * p /\ BASE * (q - p) = BASE * q - BASE * p
      BY <1>0
    <3> QED BY <3>1, <3>2
  <2>3. f * p \in Nat /\ f * q \in Nat /\ BASE * p \in Nat /\ BASE * q \in Nat /\ x \in Nat
    BY <1>0, <1>1, ProductNat
  <2> HIDE DEF x, y
  <2>4. BASE * y - BASE * x < BASE * q - BASE * p + BASE
    <3>1. BASE * x \in Nat /\ BASE * y \in Nat /\ f * p < BASE * x + BASE
      BY <1>0, <1>1, <2>1, <2>3, ProductNat DEF x
    <3> QED BY <1>0, <2>1, <2>2, <2>3, <3>1
  <2>5. ASSUME y - x >= q - p + 1 PROVE FALSE
    <3>1. (q - p + 1) * BASE <= (y - x) * BASE
      BY <1>0, <1>3, <2>1, <2>3, <2>5, ProductMonotone
    <3> QED BY <1>0, <2>1, <2>3, <2>4, <3>1
  <2>6. y - x <= q - p
    BY <2>1, <2>3, <2>5
  <2> QED BY <2>6 DEF x, y
<1>4. ASSUME f >= BASE PROVE BaseMul(f, p) >= p
  <2> DEFINE x == BaseMul(f, p)
  <2>1. BASE * p <= f * p
    BY <1>0, <1>4, ProductMonotone
  <2>2. BASE * p \in Nat /\ f * p \in Nat /\ x \in Nat
    BY <1>0, <1>1, ProductNat
  <2> HIDE DEF x
  <2>3. BASE * p < BASE * (x + 1)
    BY <1>0, <1>1, <2>1, <2>2 DEF x
  <2>4. ASSUME p >= x + 1 PROVE FALSE
    <3>1. (x + 1) * BASE <= p * BASE
      BY <1>0, <2>2, <2>4, ProductMonotone
    <3> QED BY <1>0, <2>2, <2>3, <3>1
  <2>5. x >= p
    BY <2>2, <2>4
  <2> QED BY <2>5 DEF x
<1> QED
  BY <1>2, <1>3, <1>4

\* The price with the fee that the contract accepts is within the limits.
LEMMA FillWithinLimits ==
  ASSUME NEW order \in Order, NEW fill \in Fill, NEW maker, NEW taker,
         VerifyOrderRequest(order, fill, maker, taker), FillPrice(order, fill) >= 0
  PROVE  LET limit == LimitPerPosition(order)
             price == FillPrice(order, fill)
         IN  /\ limit \in Int /\ price \in Nat
             /\ IF order.isBuy THEN price <= (IF limit > 0 THEN limit ELSE 0)
                               ELSE price >= limit
<1> DEFINE l == order.limitPrice  g == order.limitFee
           p == fill.price        f == fill.fee
<1>0. BASE \in Nat /\ BASE > 0
  BY BaseAssumption
<1>1. /\ l \in Nat /\ g \in Nat /\ p \in Nat /\ f \in Nat
      /\ order.isBuy \in BOOLEAN /\ order.isNegativeLimitFee \in BOOLEAN
      /\ fill.isNegativeFee \in BOOLEAN
  BY OrdersAssumption DEF OrderType, FillType
<1>2. /\ IF order.isBuy THEN p <= l ELSE p >= l
      /\ IF order.isNegativeLimitFee THEN fill.isNegativeFee /\ f >= g
                                     ELSE fill.isNegativeFee \/ f <= g
  BY DEF VerifyOrderRequest
<1> HIDE DEF l, g, p, f
<1> DEFINE limitFee == BaseMul(g, l)  fee == BaseMul(f, p)  limitOfFee == BaseMul(g, p)
<1>3. limitFee \in Nat /\ fee \in Nat /\ limitOfFee \in Nat
  BY <1>1, BaseMulBounds
<1>4. /\ f <= g /\ p <= l => fee <= limitFee
      /\ g <= f /\ l <= p => limitFee <= fee
      /\ f <= g => fee <= limitOfFee
      /\ g <= f => limitOfFee <= fee
  BY <1>1, FeeOfPrice
<1>5. /\ g <= BASE /\ p <= l => limitFee - limitOfFee <= l - p
      /\ g <= BASE /\ l <= p => limitOfFee - limitFee <= p - l
      /\ g >= BASE => limitOfFee >= p /\ limitFee >= l
  BY <1>1, FeeOfPrice
<1>6. LimitPerPosition(order) = l + (IF order.isBuy = order.isNegativeLimitFee
                                     THEN -limitFee ELSE limitFee)
  BY DEF LimitPerPosition, l, g
<1>7. FillPrice(order, fill) = IF order.isBuy = fill.isNegativeFee THEN p - fee ELSE p + fee
  BY DEF FillPrice, MarginPerPosition, p, f
<1> HIDE DEF limitFee, fee, limitOfFee
<1> QED
  BY <1>0, <1>1, <1>2, <1>3, <1>4, <1>5, <1>6, <1>7

\* A fill changes the margin of its maker by its price per unit, rounded down.
LEMMA StepWithinLimits ==
  ASSUME OrdersInv, TypeOK, MemoryMatchesStorage, [OrdersNext]_allVars,
         NEW order \in Order, Filled(order), balances' # balances
  PROVE  LET amount == filledAmount'[order] - filledAmount[order]
             gain   == Margin(balances[order.maker])' - Margin(balances[order.maker])
             limit  == LimitPerPosition(order)
         IN  IF order.isBuy
             THEN -gain * BASE <= amount * (IF limit > 0 THEN limit ELSE 0)
             ELSE (gain + 1) * BASE > amount * limit
<1>1. PICK fill \in Fill, maker \in DOMAIN call.accounts, taker \in DOMAIN call.accounts :
          OrderTrade(order, fill, maker, taker)
  BY OnlyTradesFill
<1> DEFINE account == order.maker
           a     == fill.amount
           price == FillPrice(order, fill)
           m     == BaseMul(a, price)
           limit == LimitPerPosition(order)
           gain  == Margin(balances'[account]) - Margin(balances[account])
<1>2. a \in Nat /\ order.isBuy \in BOOLEAN /\ account \in Account
  BY OrderTypes
<1>3. /\ limit \in Int /\ price \in Nat
      /\ IF order.isBuy THEN price <= (IF limit > 0 THEN limit ELSE 0) ELSE price >= limit
  BY <1>1, FillWithinLimits DEF OrderTrade
<1>4. filledAmount'[order] - filledAmount[order] = a
  BY <1>1, <1>2 DEF OrderTrade, OrdersInv, OrdersTypeOK, FilledAmounts
<1>5. /\ account = call.accounts[maker]
      /\ TradeStep(OrdersTrader, maker, taker, m, a, ~order.isBuy)
  BY <1>1 DEF OrderTrade, VerifyOrderRequest, TradeResult
<1>6. m \in Nat /\ BASE * m <= a * price /\ a * price < BASE * m + BASE
  BY <1>2, <1>3, BaseMulBounds
<1> HIDE DEF account, a, price, m, limit
<1>7. gain = IF order.isBuy THEN -m ELSE m
  <2>1. Margin(balances'[account])
          = Margin(balances[account]) + (IF ~order.isBuy THEN m ELSE -m)
    <3>1. PICK isBuy \in BOOLEAN : isBuy = ~order.isBuy
      BY <1>2
    <3>2. TradeStep(OrdersTrader, maker, taker, m, a, isBuy)
      BY <1>5, <3>1
    <3>3. Margin(balances'[account])
            = Margin(balances[account]) + (IF isBuy THEN m ELSE -m)
      BY <1>2, <1>5, <1>6, <3>2, MakerTraded
    <3> QED BY <3>1, <3>3
  <2>2. Margin(balances[account]) \in Int
    BY <1>2, StoredLedger, BalanceInt
  <2> QED BY <1>2, <1>6, <2>1, <2>2
<1>8. BASE \in Nat /\ a * price \in Nat /\ BASE * m \in Nat
  BY <1>2, <1>3, <1>6, BaseAssumption, ProductNat
<1>9. CASE order.isBuy
  <2> DEFINE allowed == IF limit > 0 THEN limit ELSE 0
  <2>1. allowed \in Nat /\ price <= allowed
    BY <1>3, <1>9
  <2> HIDE DEF allowed
  <2>2. a * price <= a * allowed
    <3>1. price * a <= allowed * a
      BY <1>2, <1>3, <2>1, ProductMonotone
    <3> QED BY <1>2, <1>3, <2>1, <3>1
  <2>3. a * allowed \in Nat
    BY <1>2, <2>1, ProductNat
  <2>4. -gain * BASE = BASE * m
    BY <1>6, <1>7, <1>8, <1>9
  <2>5. -gain * BASE <= a * allowed
    BY <1>6, <1>8, <2>2, <2>3, <2>4
  <2> QED BY <1>4, <1>9, <2>5 DEF allowed, account, limit, Margin, GetMargin
<1>10. CASE ~order.isBuy
  <2>1. a * (price - limit) \in Nat /\ a * (price - limit) = a * price - a * limit
    BY <1>2, <1>3, <1>10, ProductNat
  <2>2. a * limit \in Int
    BY <1>2, <1>3
  <2>3. (gain + 1) * BASE = BASE * m + BASE
    BY <1>6, <1>7, <1>8, <1>10
  <2>4. (gain + 1) * BASE > a * limit
    BY <1>6, <1>8, <2>1, <2>2, <2>3
  <2> QED BY <1>4, <1>10, <2>4 DEF account, limit, Margin, GetMargin
<1> QED
  BY <1>2, <1>9, <1>10

\* Whatever the fills of an order, and whatever trades came before in the same call:
\* the maker pays no more, and receives no less, than the limits of the order say
\* (_verifyOrderRequest and the rounding of trade() of P1Orders).
THEOREM MakersGetTheirLimits == OrdersSpec => LimitsRespected
<1>1. OrdersSpec => [](OrdersInv /\ TypeOK /\ MemoryMatchesStorage)
  BY OrdersInvariant, OrdersImplement, TypeCorrect, MemoryIsStorage, PTL
<1>2. OrdersInv /\ TypeOK /\ MemoryMatchesStorage /\ [OrdersNext]_allVars =>
        [\A order \in Order :
            LET amount == filledAmount'[order] - filledAmount[order]
                gain   == Margin(balances[order.maker])' - Margin(balances[order.maker])
                limit  == LimitPerPosition(order)
            IN  Filled(order) /\ balances' # balances =>
                    IF order.isBuy
                    THEN -gain * BASE <= amount * (IF limit > 0 THEN limit ELSE 0)
                    ELSE (gain + 1) * BASE > amount * limit]_allVars
  BY StepWithinLimits
<1> QED
  BY <1>1, <1>2, PTL DEF OrdersSpec, LimitsRespected

-----------------------------------------------------------------------------
(* The positions that the fills explain                                     *)

\* What each order contributes to the position of an account.
FillsOf(account, filled, taken) ==
    [order \in Order |->
        (IF order.maker = account THEN Bought(order, filled[order]) ELSE 0)
          - Bought(order, taken[order][account])]

Explained(bals, filled, taken) ==
    \A account \in Account :
        Position(bals[account]) = Total(FillsOf(account, filled, taken))

\* The inductive form of PositionsComeFromFills: the fills that a revert restores
\* explain the positions that it restores.
FillsInv ==
    Operator = {OrdersTrader} /\ noFinalSettlement =>
        /\ Explained(balances, filledAmount, takenAmount)
        /\ status = Entered =>
              Explained(call.saved.balances, transaction.filledAmount,
                        transaction.takenAmount)

\* A part of an order that is filled is a change of the position of its maker and
\* the opposite one of the taker: none when they are the same.
LEMMA FillMovesTotal ==
  ASSUME NEW filled \in [Order -> Nat], NEW taken \in TakenAmounts,
         NEW order \in Order, NEW taker \in Account, NEW a \in Nat, NEW account \in Account,
         NEW newFilled, NEW newTaken,
         newFilled[order] = filled[order] + a,
         newTaken[order][account] = taken[order][account] + (IF taker = account THEN a ELSE 0),
         \A o \in Order : o # order => newFilled[o] = filled[o] /\ newTaken[o] = taken[o]
  PROVE  LET change    == (IF order.maker = account THEN Bought(order, a) ELSE 0)
                            - (IF taker = account THEN Bought(order, a) ELSE 0)
         IN  /\ Total(FillsOf(account, filled, taken)) \in Int
             /\ Total(FillsOf(account, newFilled, newTaken))
                   = Total(FillsOf(account, filled, taken)) + change
<1> DEFINE change    == (IF order.maker = account THEN Bought(order, a) ELSE 0)
                          - (IF taker = account THEN Bought(order, a) ELSE 0)
           f == FillsOf(account, filled, taken)
           g == FillsOf(account, newFilled, newTaken)
<1>1. /\ IsFiniteSet(Order)
      /\ \A o \in Order : o.isBuy \in BOOLEAN
  BY OrdersAssumption DEF OrderType
<1>2. \A o \in Order : filled[o] \in Nat /\ taken[o][account] \in Nat
  BY DEF TakenAmounts
<1>3. \A o \in Order, n \in Nat : Bought(o, n) \in Int
  BY <1>1 DEF Bought
<1>4. f \in [Order -> Int]
  <2>1. \A o \in Order : f[o] \in Int
    BY <1>2, <1>3 DEF FillsOf
  <2> QED BY <2>1 DEF FillsOf
<1>5. change \in Int /\ f[order] + change \in Int
  <2>1. Bought(order, a) \in Int /\ f[order] \in Int
    BY <1>3, <1>4
  <2> HIDE DEF f
  <2> QED BY <2>1
<1>6. g = [f EXCEPT ![order] = f[order] + change]
  <2>3. g[order] = f[order] + change
    <3> DEFINE n == filled[order]  t == taken[order][account]
    <3>1. n \in Nat /\ t \in Nat /\ order.isBuy \in BOOLEAN
      BY <1>1, <1>2
    <3>2. f[order] = (IF order.maker = account THEN Bought(order, n) ELSE 0) - Bought(order, t)
      BY DEF FillsOf
    <3>3. g[order] = (IF order.maker = account THEN Bought(order, n + a) ELSE 0)
                       - Bought(order, t + (IF taker = account THEN a ELSE 0))
      BY DEF FillsOf
    <3> HIDE DEF n, t, f, g
    <3> QED BY <3>1, <3>2, <3>3 DEF Bought
  <2>4. \A o \in Order : o # order => g[o] = f[o]
    BY DEF FillsOf
  <2>5. g = [o \in Order |-> g[o]] /\ f = [o \in Order |-> f[o]]
    BY DEF FillsOf
  <2> HIDE DEF f, g, change
  <2>6. \A o \in Order : g[o] = [f EXCEPT ![order] = f[order] + change][o]
    BY <2>3, <2>4, <2>5
  <2> QED BY <1>4, <2>5, <2>6
<1> HIDE DEF f, g, change
<1>7. Total(g) = Total(f) - f[order] + (f[order] + change) /\ Total(f) \in Int
  BY <1>1, <1>4, <1>5, <1>6, TotalUpdate, TotalType
<1>8. f[order] \in Int
  BY <1>4
<1>9. Total(g) = Total(f) + change
  BY <1>5, <1>7, <1>8
<1> QED
  BY <1>7, <1>9 DEF f, g, change

\* A fill changes the positions by what it adds to the fills.
LEMMA OrderTradeExplained ==
  ASSUME OrdersInv, TypeOK, MemoryMatchesStorage, Explained(balances, filledAmount, takenAmount),
         NEW order \in Order, NEW fill \in Fill,
         NEW maker \in DOMAIN call.accounts, NEW taker \in DOMAIN call.accounts,
         OrderTrade(order, fill, maker, taker)
  PROVE  Explained(balances, filledAmount, takenAmount)'
<1> DEFINE a == fill.amount
           M == call.accounts[maker]
           T == call.accounts[taker]
           result == TradeResult(order, fill)
           d == Bought(order, a)
<1>1. /\ filledAmount' = [filledAmount EXCEPT ![order] = @ + a]
      /\ takenAmount' = [takenAmount EXCEPT ![order][T] = @ + a]
      /\ order.maker = M
      /\ result.marginAmount \in Amount /\ a \in Amount
      /\ TradeStep(OrdersTrader, maker, taker, result.marginAmount, a, ~order.isBuy)
  BY DEF OrderTrade, VerifyOrderRequest, TradeResult
<1>2. a \in Nat /\ order.isBuy \in BOOLEAN /\ M \in Account
  BY <1>1, OrderTypes
<1>3. T \in Account
  <2>1. call.accounts \in AccountList
    BY DEF OrderTrade, TypeOK, CallTypeOK
  <2> QED BY <2>1, AccountListType
<1>4. filledAmount \in [Order -> Nat] /\ takenAmount \in TakenAmounts
  BY DEF OrdersInv, OrdersTypeOK, FilledAmounts
<1>5. d \in Int /\ d = IF order.isBuy THEN a ELSE -a
  BY <1>2 DEF Bought
<1>6. \A c \in Account : Position(balances[c]) \in Int
  BY StoredLedger, BalanceInt
<1> HIDE DEF a, M, T, result, d
<1>7. ASSUME NEW c \in Account
      PROVE  Position(balances'[c]) = Total(FillsOf(c, filledAmount', takenAmount'))
  <2> DEFINE change == (IF M = c THEN d ELSE 0) - (IF T = c THEN d ELSE 0)
  <2>1. Position(balances[c]) = Total(FillsOf(c, filledAmount, takenAmount))
    BY DEF Explained
  <2>2. Total(FillsOf(c, filledAmount', takenAmount')) = Position(balances[c]) + change
    <3>1. /\ filledAmount'[order] = filledAmount[order] + a
          /\ takenAmount'[order][c] = takenAmount[order][c] + (IF T = c THEN a ELSE 0)
      BY <1>1, <1>2, <1>3, <1>4 DEF TakenAmounts
    <3>2. \A o \in Order : o # order =>
             filledAmount'[o] = filledAmount[o] /\ takenAmount'[o] = takenAmount[o]
      BY <1>1, <1>4 DEF TakenAmounts
    <3> DEFINE filled == filledAmount  newFilled == filledAmount'
               taken == takenAmount    newTaken == takenAmount'
    <3>3. /\ filled \in [Order -> Nat] /\ taken \in TakenAmounts
          /\ newFilled[order] = filled[order] + a
          /\ newTaken[order][c] = taken[order][c] + (IF T = c THEN a ELSE 0)
          /\ \A o \in Order : o # order => newFilled[o] = filled[o] /\ newTaken[o] = taken[o]
      BY <1>4, <3>1, <3>2
    <3> HIDE DEF filled, taken, newFilled, newTaken
    <3>4. Total(FillsOf(c, newFilled, newTaken))
            = Total(FillsOf(c, filled, taken))
                + ((IF order.maker = c THEN Bought(order, a) ELSE 0)
                    - (IF T = c THEN Bought(order, a) ELSE 0))
      BY <1>2, <1>3, <3>3, FillMovesTotal
    <3> QED BY <1>1, <2>1, <3>4 DEF d, filled, taken, newFilled, newTaken
  <2>3. CASE M = T
    <3>1. balances' = balances
      BY <1>1, <2>3 DEF TradeStep, M, T
    <3>2. change = 0
      BY <1>5, <2>3
    <3> HIDE DEF change
    <3> QED BY <1>6, <2>1, <2>2, <3>1, <3>2
  <2>4. CASE M # T
    <3>0. PICK isBuy \in BOOLEAN : isBuy = ~order.isBuy
      BY <1>2
    <3>1. /\ balances' = [balances EXCEPT ![M] = balances'[M], ![T] = balances'[T]]
          /\ Position(balances'[M]) = Position(balances[M]) + (IF isBuy THEN -a ELSE a)
          /\ Position(balances'[M]) + Position(balances'[T])
               = Position(balances[M]) + Position(balances[T])
          /\ balances'[T] \in Balance
      <4>1. TradeStep(OrdersTrader, maker, taker, result.marginAmount, a, isBuy)
        BY <1>1, <3>0
      <4>2. call.accounts[maker] # call.accounts[taker]
        BY <2>4 DEF M, T
      <4> QED BY <1>1, <4>1, <4>2, TradedPair DEF M, T
    <3>2. (IF isBuy THEN -a ELSE a) = d
      BY <1>2, <1>5, <3>0
    <3>3. /\ Position(balances'[M]) = Position(balances[M]) + d
          /\ Position(balances'[T]) = Position(balances[T]) - d
      <4>1. Position(balances'[T]) \in Int /\ Position(balances[M]) \in Int
            /\ Position(balances[T]) \in Int
        BY <1>2, <1>3, <1>6, <3>1, BalanceInt
      <4>2. Position(balances'[M]) = Position(balances[M]) + d
        BY <3>1, <3>2
      <4> QED BY <1>5, <3>1, <4>1, <4>2
    <3>4. c # M /\ c # T => balances'[c] = balances[c]
      BY <3>1, StoredLedger
    <3> QED BY <1>5, <1>6, <2>2, <2>4, <3>3, <3>4
  <2> QED BY <2>3, <2>4
<1> QED
  BY <1>7 DEF Explained, FillsOf

\* Settling, deposits and withdrawals move no position, and final settlement is never
\* disabled.
LEMMA OtherStepPositions ==
  ASSUME TypeOK, IndexesInSync, OtherStep, noFinalSettlement'
  PROVE  /\ noFinalSettlement
         /\ \A account \in Account : Position(balances'[account]) = Position(balances[account])
         /\ UNCHANGED <<status, call, filledAmount, takenAmount, transaction>>
<1>0. UNCHANGED <<filledAmount, takenAmount, transaction>>
  BY DEF OtherStep, orderVars
<1>1. CASE MarginStep
  <2>1. PICK account \in Account, amount \in Amount, b \in Balance :
            /\ Position(b) = Position(Settled(account, ContextIndex))
            /\ LoadContextAndSettle({account}, [a \in {account} |-> b])
            /\ noFinalSettlement /\ UNCHANGED <<status, call>>
    <3>1. PICK account \in Account, amount \in Amount :
              \/ Deposit(account, amount)
              \/ \E sender, destination : Withdraw(sender, account, destination, amount)
      BY <1>1 DEF MarginStep
    <3> DEFINE s == Settled(account, ContextIndex)
    <3>2. s \in Balance /\ amount \in Nat
      BY ContextTypes, SettledTypes, AmountAssumption
    <3>3. \A b \in {AddToMargin(s, amount), SubFromMargin(s, amount)} :
             b \in Balance /\ Position(b) = Position(s)
      BY <3>2, MarginUpdates DEF Position
    <3>4. \E b \in {AddToMargin(s, amount), SubFromMargin(s, amount)} :
             /\ LoadContextAndSettle({account}, [a \in {account} |-> b])
             /\ noFinalSettlement /\ UNCHANGED <<status, call>>
      BY <3>1 DEF Deposit, Withdraw
    <3> QED BY <3>3, <3>4
  <2>2. balances' = [balances EXCEPT ![account] = b]
    BY <2>1, StoredLedger DEF LoadContextAndSettle
  <2>3. Position(b) = Position(balances[account])
    BY <2>1, SettleOne
  <2> QED BY <1>0, <2>1, <2>2, <2>3, StoredLedger
<1>2. CASE FinalSettlementStep
  BY <1>2 DEF FinalSettlementStep, WithdrawFinalSettlement, onlyFinalSettlement,
              noFinalSettlement, final
<1>3. CASE AdminStep
  BY <1>0, <1>3 DEF AdminStep, SetGlobalOperator, SetOracle, SetFunder, SetMinCollateral,
              EnableFinalSettlement, ledger, final, noFinalSettlement
<1>4. CASE OperatorStep
  BY <1>0, <1>4 DEF OperatorStep, SetLocalOperator, ledger, final, noFinalSettlement
<1>5. CASE WorldStep
  BY <1>0, <1>5 DEF WorldStep, Tick, ChangePrice, ChangeRate, Donate, ledger, final,
              noFinalSettlement
<1> QED
  BY <1>1, <1>2, <1>3, <1>4, <1>5 DEF OtherStep

\* The invariant is inductive: what trade() reverts, it reverts in both contracts.
LEMMA StepFills ==
  ASSUME FillsInv, OrdersInv, IInv, [OrdersNext]_allVars
  PROVE  FillsInv'
<1>0. TypeOK /\ MemoryMatchesStorage /\ IndexesInSync
  BY DEF IInv, BooksBalance, IndexesInSync
<1>1. SUFFICES ASSUME Operator = {OrdersTrader}, noFinalSettlement'
               PROVE  /\ Explained(balances, filledAmount, takenAmount)'
                      /\ status' = Entered =>
                            Explained(call.saved.balances, transaction.filledAmount,
                                      transaction.takenAmount)'
  BY DEF FillsInv
<1>2. CASE OrderStep
  <2>1. CASE \E order \in Order, fill \in Fill, maker, taker \in DOMAIN call.accounts :
                 OrderTrade(order, fill, maker, taker)
    <3>1. PICK order \in Order, fill \in Fill, maker \in DOMAIN call.accounts,
               taker \in DOMAIN call.accounts : OrderTrade(order, fill, maker, taker)
      BY <2>1
    <3>2. /\ status = Entered /\ status' = Entered /\ noFinalSettlement
          /\ call'.saved = call.saved /\ transaction' = transaction
      BY <1>1, <3>1 DEF OrderTrade, TradeStep, AfterTrade, final, noFinalSettlement
    <3>3. /\ Explained(balances, filledAmount, takenAmount)
          /\ Explained(call.saved.balances, transaction.filledAmount, transaction.takenAmount)
      BY <1>1, <3>2 DEF FillsInv
    <3>4. Explained(balances, filledAmount, takenAmount)'
      BY <1>0, <3>1, <3>3, OrderTradeExplained
    <3> QED BY <3>2, <3>3, <3>4 DEF Explained, FillsOf
  <2>2. CASE \E sender \in Account, order \in Order :
                 ApproveOrder(sender, order) \/ CancelOrder(sender, order)
    <3>1. UNCHANGED <<vars, filledAmount, takenAmount, transaction>>
      BY <2>2 DEF ApproveOrder, CancelOrder
    <3> QED BY <1>1, <3>1 DEF vars, ledger, final, noFinalSettlement, FillsInv, Explained, FillsOf
  <2> QED BY <1>2, <2>1, <2>2 DEF OrderStep
<1>3. CASE TransactionStep
  <2>1. CASE \E sender \in Account \union Operator, accounts \in AccountList :
                 BeginTransaction(sender, accounts)
    <3>1. PICK sender \in Account \union Operator, accounts \in AccountList :
                 BeginTransaction(sender, accounts)
      BY <2>1
    <3>2. /\ noFinalSettlement /\ UNCHANGED <<filledAmount, takenAmount>>
          /\ call'.saved.balances = balances
          /\ transaction'.filledAmount = filledAmount
          /\ transaction'.takenAmount = takenAmount
          /\ balances' = [a \in Account |-> IF a \in Elements(accounts)
                             THEN Settled(a, ContextIndex) ELSE balances[a]]
      BY <3>1 DEF BeginTransaction, TradeBegin, Saved, orderVars, LoadContextAndSettle
    <3>3. Explained(balances, filledAmount, takenAmount)
      BY <1>1, <3>2 DEF FillsInv
    <3>4. \A a \in Account : Position(balances'[a]) = Position(balances[a])
      BY <1>0, <3>2, SettleOne
    <3>5. Explained(balances, filledAmount, takenAmount)'
      BY <3>2, <3>3, <3>4 DEF Explained, FillsOf
    <3> QED BY <3>2, <3>3, <3>5 DEF Explained, FillsOf
  <2>2. CASE EndTransaction
    <3>1. /\ status' # Entered /\ noFinalSettlement
          /\ UNCHANGED <<balances, filledAmount, takenAmount>>
      BY <1>1, <2>2 DEF EndTransaction, TradeEnd, orderVars, ledger, final,
                        noFinalSettlement, Entered, NotEntered
    <3> QED BY <1>1, <3>1 DEF FillsInv, Explained, FillsOf
  <2>3. CASE RevertTransaction
    <3>1. /\ status = Entered /\ status' # Entered /\ noFinalSettlement
          /\ balances' = call.saved.balances
          /\ filledAmount' = transaction.filledAmount
          /\ takenAmount' = transaction.takenAmount
      BY <1>1, <2>3 DEF RevertTransaction, TradeRevert, final, noFinalSettlement,
                        Entered, NotEntered
    <3> QED BY <1>1, <3>1 DEF FillsInv, Explained, FillsOf
  <2> QED BY <1>3, <2>1, <2>2, <2>3 DEF TransactionStep
<1>4. CASE OtherTrade
  BY <1>1, <1>4 DEF OtherTrade
<1>5. CASE OtherStep
  <2>1. /\ noFinalSettlement
        /\ \A account \in Account : Position(balances'[account]) = Position(balances[account])
        /\ UNCHANGED <<status, call, filledAmount, takenAmount, transaction>>
    BY <1>0, <1>1, <1>5, OtherStepPositions
  <2> QED BY <1>1, <2>1 DEF FillsInv, Explained, FillsOf
<1>6. CASE UNCHANGED allVars
  <2>1. UNCHANGED <<vars, filledAmount, takenAmount, transaction>>
    BY <1>6 DEF allVars, orderVars
  <2> QED BY <1>1, <2>1 DEF vars, ledger, final, noFinalSettlement, FillsInv, Explained, FillsOf
<1> QED
  BY <1>2, <1>3, <1>4, <1>5, <1>6 DEF OrdersNext

\* The fills that P1Orders has recorded explain every position of PerpetualV1 when no
\* other trader is used, in the middle of a trade() and after a revert too.
THEOREM FillsExplainPositions == OrdersSpec => []PositionsComeFromFills
<1>1. OrdersInit => FillsInv
  <2> SUFFICES ASSUME OrdersInit PROVE FillsInv
    OBVIOUS
  <2>1. /\ status # Entered /\ balances = [a \in Account |-> ZeroBalance]
        /\ filledAmount = [order \in Order |-> 0]
        /\ takenAmount = [order \in Order |-> [account \in Account |-> 0]]
    BY DEF OrdersInit, Init, Entered, NotEntered
  <2>2. ASSUME NEW a \in Account
        PROVE  Position(balances[a]) = Total(FillsOf(a, filledAmount, takenAmount))
    <3>1. FillsOf(a, filledAmount, takenAmount) \in [Order -> {0}]
      BY <2>1 DEF FillsOf, Bought
    <3>2. Position(balances[a]) = 0
      BY <2>1 DEF Position, GetPosition, ToInt, ZeroBalance
    <3> QED BY <3>1, <3>2, TotalZero
  <2> QED BY <2>1, <2>2 DEF FillsInv, Explained
<1>2. FillsInv => PositionsComeFromFills
  BY DEF FillsInv, Explained, FillsOf, PositionsComeFromFills, PositionByFills
<1>3. OrdersSpec => [](OrdersInv /\ IInv)
  BY OrdersInvariant, OrdersImplement, InductiveInvariant, PTL
<1>4. FillsInv /\ OrdersInv /\ IInv /\ [OrdersNext]_allVars => FillsInv'
  BY StepFills
<1> QED
  BY <1>1, <1>2, <1>3, <1>4, PTL DEF OrdersSpec
-----------------------------------------------------------------------------
(* What the client predicts                                                 *)

\* The three flags of an order and the end of its salt, which the client packs into one
\* word (getOrderFlags of Orders.ts), are what the contract takes out of it.
THEOREM FlagsRoundTrip ==
  ASSUME NEW order, IsClientOrder(order)
  PROVE  /\ OrderToSolidity(order).isBuy = order.isBuy
         /\ OrderToSolidity(order).isDecreaseOnly = order.isDecreaseOnly
         /\ OrderToSolidity(order).isNegativeLimitFee = order.limitFee.isNegative
         /\ OrderToSolidity(order).salt = order.salt % SALT
<1> DEFINE digit(b, n) == IF b THEN n ELSE 0
           s    == order.salt % SALT
           low  == digit(order.limitFee.isNegative, 4) + digit(order.isDecreaseOnly, 2)
                     + digit(order.isBuy, 1)
           flags == OrderFlags(order)
<1>1. /\ s \in Nat
      /\ order.isBuy \in BOOLEAN /\ order.isDecreaseOnly \in BOOLEAN
      /\ order.limitFee.isNegative \in BOOLEAN
  BY ClientOrdersAssumption DEF IsClientOrder, BaseValue
<1>2. flags = 16 * s + low
  BY <1>1 DEF OrderFlags, IS_BUY, IS_DECREASE_ONLY, IS_NEGATIVE_LIMIT_FEE
<1> HIDE DEF flags, s
<1>3. flags % 8 = low /\ flags \div 16 = s
  BY <1>1, <1>2
<1>4. /\ HasFlag(flags, IS_BUY) = order.isBuy
      /\ HasFlag(flags, IS_DECREASE_ONLY) = order.isDecreaseOnly
      /\ HasFlag(flags, IS_NEGATIVE_LIMIT_FEE) = order.limitFee.isNegative
  BY <1>1, <1>3 DEF HasFlag, IS_BUY, IS_DECREASE_ONLY, IS_NEGATIVE_LIMIT_FEE
<1> QED
  BY <1>3, <1>4 DEF OrderToSolidity, flags, s

\* A common factor does not change a quotient.
LEMMA CommonFactor ==
  ASSUME NEW n \in Nat, NEW d \in Nat \ {0}, NEW k \in Nat \ {0}
  PROVE  (k * n) \div (k * d) = n \div d
<1> DEFINE q == n \div d
           r == n % d
<1>1. q \in Nat /\ r \in Nat /\ n = q * d + r /\ r < d
  OBVIOUS
<1> HIDE DEF q, r
<1>2. k * n = q * (k * d) + k * r
  BY <1>1
<1>3. k * r < k * d
  <2>1. (r + 1) * k <= d * k /\ (r + 1) * k = k * r + k
    BY <1>1, ProductMonotone
  <2>2. k * r \in Nat /\ k * d \in Nat
    BY <1>1, ProductNat
  <2> QED BY <2>1, <2>2
<1>4. k * n \in Nat /\ k * r \in Nat /\ k * d \in Nat \ {0}
  BY <1>1, <1>3, ProductNat
<1> QED
  BY <1>1, <1>2, <1>3, <1>4, QuotientIs DEF q

\* What the contract can hold reaches it as it is.
LEMMA WholeToSolidity ==
  ASSUME NEW baseValue \in BaseValue, Representable(baseValue)
  PROVE  /\ ToSolidity(baseValue) \in Nat
         /\ baseValue.value = PARTS * ToSolidity(baseValue)
<1> DEFINE v == baseValue.value
           s == v \div PARTS
<1>0. PARTS \in Nat \ {0}
  BY ClientTypesAssumption
<1>1. v \in Nat /\ s \in Nat /\ v = PARTS * s
  BY <1>0 DEF BaseValue, Representable
<1> HIDE DEF v, s
<1>2. 2 * v + PARTS = s * (2 * PARTS) + PARTS
  BY <1>0, <1>1
<1>3. (2 * v + PARTS) \div (2 * PARTS) = s
  BY <1>0, <1>1, <1>2, QuotientIs
<1> QED
  BY <1>1, <1>3 DEF ToSolidity, v

\* The fee the client adds to a price: the part of the price it is, in whole units.
FeePerPosition(price, fee) ==
    Truncate(fee.value * price.value * (IF fee.isNegative THEN -1 ELSE 1),
             PARTS * PARTS * BASE)

\* The price with the fee, in the contract's units.
LEMMA PredictedPerPosition ==
  ASSUME NEW price \in BaseValue, NEW fee \in BaseValue, NEW isBuy \in BOOLEAN,
         Representable(price), Representable(fee)
  PROVE  LET truncated == FeePerPosition(price, fee)
             per == MarginPerPosition(isBuy, ToSolidity(price), ToSolidity(fee),
                                      fee.isNegative)
         IN  /\ per \in Int
             /\ (IF isBuy THEN price.value + truncated * PARTS
                          ELSE price.value - truncated * PARTS) = PARTS * per
<1> DEFINE p == ToSolidity(price)
           f == ToSolidity(fee)
           part == BaseMul(f, p)
           sign == IF fee.isNegative THEN -1 ELSE 1
           per == MarginPerPosition(isBuy, p, f, fee.isNegative)
           feeUnit == PARTS * PARTS * BASE
           signedFee == fee.value * price.value * sign
           truncated == Truncate(signedFee, feeUnit)
<1>0. PARTS \in Nat \ {0} /\ BASE \in Nat \ {0} /\ PARTS * PARTS \in Nat \ {0}
  BY ClientTypesAssumption, BaseAssumption
<1>1. /\ p \in Nat /\ price.value = PARTS * p
      /\ f \in Nat /\ fee.value = PARTS * f
      /\ fee.isNegative \in BOOLEAN
  BY WholeToSolidity DEF BaseValue
<1> HIDE DEF p, f
<1>2. /\ part \in Nat /\ f * p \in Nat
      /\ per = IF isBuy = fee.isNegative THEN p - part ELSE p + part
  <2>1. part \in Nat /\ f * p \in Nat
    BY <1>1, BaseMulBounds, ProductNat
  <2>2. per = IF isBuy = fee.isNegative THEN p - part ELSE p + part
    BY DEF MarginPerPosition
  <2> QED BY <2>1, <2>2
<1>3. truncated = part * sign
  <2>1. fee.value * price.value = (PARTS * PARTS) * (f * p)
    BY <1>0, <1>1
  <2>2. ((PARTS * PARTS) * (f * p)) \div ((PARTS * PARTS) * BASE) = part
    BY <1>0, <1>2, CommonFactor DEF BaseMul
  <2> DEFINE n == fee.value * price.value
  <2>3. n \in Nat /\ n \div feeUnit = part
    BY <1>0, <1>2, <2>1, <2>2, ProductNat
  <2> HIDE DEF n, part, feeUnit
  <2>4. CASE fee.isNegative
    <3>1. signedFee = -n
      BY <2>3, <2>4 DEF n
    <3>2. n = 0 => part = 0
      BY <1>0, <2>3 DEF feeUnit
    <3> HIDE DEF signedFee
    <3>3. truncated = -part
      BY <1>2, <2>3, <3>1, <3>2 DEF Truncate
    <3> QED BY <1>2, <2>4, <3>3
  <2>5. CASE ~fee.isNegative
    <3>1. signedFee = n
      BY <2>3, <2>5 DEF n
    <3> HIDE DEF signedFee
    <3>2. truncated = part
      BY <1>2, <2>3, <3>1 DEF Truncate
    <3> QED BY <1>2, <2>5, <3>2
  <2> QED BY <1>1, <2>4, <2>5
<1> HIDE DEF part, truncated, per
<1>4. per \in Int
  BY <1>1, <1>2
<1>5. (IF isBuy THEN price.value + truncated * PARTS ELSE price.value - truncated * PARTS)
        = PARTS * per
  BY <1>0, <1>1, <1>2, <1>3
<1> QED BY <1>4, <1>5 DEF per, p, f, truncated, FeePerPosition

\* The client's prediction in terms of that price: the maker's margin changes by its
\* multiple, rounded towards zero.
LEMMA PredictedMargin ==
  ASSUME NEW amount \in Nat, NEW price \in BaseValue, NEW fee \in BaseValue,
         NEW isBuy \in BOOLEAN, Representable(price), Representable(fee)
  PROVE  LET per == MarginPerPosition(isBuy, ToSolidity(price), ToSolidity(fee),
                                      fee.isNegative)
             margin == Truncate(PARTS * (amount * per), PARTS * BASE)
         IN  GetBalanceUpdatesAfterFillingOrder(amount, price, fee, isBuy)
               = [marginDelta |-> IF isBuy THEN -margin ELSE margin,
                  positionDelta |-> IF isBuy THEN amount ELSE -amount]
<1> DEFINE truncated == FeePerPosition(price, fee)
           per == MarginPerPosition(isBuy, ToSolidity(price), ToSolidity(fee), fee.isNegative)
           withFee == amount * (IF isBuy THEN price.value + truncated * PARTS
                                         ELSE price.value - truncated * PARTS)
           margin == Truncate(withFee, PARTS * BASE)
<1>1. withFee = PARTS * (amount * per)
  <2>1. per \in Int /\ (IF isBuy THEN price.value + truncated * PARTS
                                 ELSE price.value - truncated * PARTS) = PARTS * per
    BY PredictedPerPosition
  <2>2. PARTS \in Nat
    BY ClientTypesAssumption
  <2> HIDE DEF per, truncated
  <2> QED BY <2>1, <2>2
<1>2. GetBalanceUpdatesAfterFillingOrder(amount, price, fee, isBuy)
        = [marginDelta |-> IF isBuy THEN -margin ELSE margin,
           positionDelta |-> IF isBuy THEN amount ELSE -amount]
  BY DEF GetBalanceUpdatesAfterFillingOrder, FeePerPosition
<1> HIDE DEF withFee
<1> QED BY <1>1, <1>2

\* When it is not below zero, this is the margin amount of the contract.
LEMMA PredictedUpdates ==
  ASSUME NEW amount \in Nat, NEW price \in BaseValue, NEW fee \in BaseValue,
         NEW isBuy \in BOOLEAN, Representable(price), Representable(fee),
         MarginPerPosition(isBuy, ToSolidity(price), ToSolidity(fee), fee.isNegative) >= 0
  PROVE  LET perPosition ==
                 MarginPerPosition(isBuy, ToSolidity(price), ToSolidity(fee), fee.isNegative)
             margin == BaseMul(amount, perPosition)
         IN  GetBalanceUpdatesAfterFillingOrder(amount, price, fee, isBuy)
               = [marginDelta |-> IF isBuy THEN -margin ELSE margin,
                  positionDelta |-> IF isBuy THEN amount ELSE -amount]
<1> DEFINE per == MarginPerPosition(isBuy, ToSolidity(price), ToSolidity(fee), fee.isNegative)
<1>0. PARTS \in Nat \ {0} /\ BASE \in Nat \ {0}
  BY ClientTypesAssumption, BaseAssumption
<1>1. per \in Nat
  BY PredictedPerPosition
<1> HIDE DEF per
<1>2. Truncate(PARTS * (amount * per), PARTS * BASE) = BaseMul(amount, per)
  <2>1. amount * per \in Nat /\ PARTS * (amount * per) \in Nat
    BY <1>0, <1>1, ProductNat
  <2>2. (PARTS * (amount * per)) \div (PARTS * BASE) = (amount * per) \div BASE
    BY <1>0, <2>1, CommonFactor
  <2> QED BY <2>1, <2>2 DEF Truncate, BaseMul
<1> QED BY <1>2, PredictedMargin DEF per

\* What the step of a fill does to its maker is what the client says of it.
LEMMA StepAsPredicted ==
  ASSUME TypeOK, MemoryMatchesStorage, balances' # balances,
         NEW order \in ClientOrder, NEW fill \in ClientFill,
         NEW maker \in DOMAIN call.accounts, NEW taker \in DOMAIN call.accounts,
         call.accounts[maker] = order.maker,
         Representable(fill.price), Representable(fill.fee),
         OrderTrade(Hashed(order), FillToSolidity(fill), maker, taker)
  PROVE  LET before == BalanceFromSolidity(balances[order.maker])
             after == BalanceFromSolidity(balances[order.maker])'
             updates == GetBalanceUpdatesAfterFillingOrder(
                            fill.amount, fill.price, fill.fee, order.isBuy)
         IN  after = [margin |-> before.margin + updates.marginDelta,
                      position |-> before.position + updates.positionDelta]
<1> DEFINE account == order.maker
           sent == FillToSolidity(fill)
           per == MarginPerPosition(order.isBuy, ToSolidity(fill.price),
                                    ToSolidity(fill.fee), fill.fee.isNegative)
           a == fill.amount
           m == BaseMul(a, per)
<1>1. IsClientOrder(order) /\ order.isBuy \in BOOLEAN /\ Hashed(order).isBuy = order.isBuy
  BY OrderEstimatesAssumption, FlagsRoundTrip DEF IsClientOrder, Hashed
<1>2. a \in Nat /\ fill.price \in BaseValue /\ fill.fee \in BaseValue
  BY OrderEstimatesAssumption
<1>3. FillPrice(Hashed(order), sent) = per /\ sent.amount = a
  BY <1>1 DEF FillPrice, FillToSolidity
<1>4. /\ per >= 0 /\ m \in Amount /\ a \in Amount
      /\ TradeStep(OrdersTrader, maker, taker, m, a, ~order.isBuy)
  BY <1>1, <1>3 DEF OrderTrade, TradeResult
<1>5. m \in Nat
  BY <1>4, AmountAssumption
<1>6. GetBalanceUpdatesAfterFillingOrder(a, fill.price, fill.fee, order.isBuy)
        = [marginDelta |-> IF order.isBuy THEN -m ELSE m,
           positionDelta |-> IF order.isBuy THEN a ELSE -a]
  BY <1>1, <1>2, <1>4, PredictedUpdates
<1> HIDE DEF m, a, account
<1>7. /\ Position(balances'[account]) = Position(balances[account])
                                          + (IF order.isBuy THEN a ELSE -a)
      /\ Margin(balances'[account]) = Margin(balances[account])
                                        + (IF order.isBuy THEN -m ELSE m)
  <2>1. PICK isBuy \in BOOLEAN : isBuy = ~order.isBuy
    BY <1>1
  <2>2. TradeStep(OrdersTrader, maker, taker, m, a, isBuy) /\ account = call.accounts[maker]
    BY <1>4, <2>1 DEF account
  <2>3. /\ Position(balances'[account]) = Position(balances[account])
                                            + (IF isBuy THEN -a ELSE a)
        /\ Margin(balances'[account]) = Margin(balances[account])
                                          + (IF isBuy THEN m ELSE -m)
    BY <1>2, <1>5, <2>2, MakerTraded
  <2> QED BY <1>1, <2>1, <2>3
<1> QED
  BY <1>6, <1>7 DEF BalanceFromSolidity, Margin, Position, GetMargin, GetPosition, account, a

\* Calculating in numbers of its own, the client predicts what a fill does to the maker
\* to the last unit (getBalanceUpdatesAfterFillingOrder of Orders.ts, trade() of P1Orders),
\* for every price and fee that the contract can hold.
THEOREM PredictionsAreExact == OrdersSpec => FillsAsPredicted
<1>1. OrdersSpec => [](TypeOK /\ MemoryMatchesStorage)
  BY OrdersImplement, TypeCorrect, MemoryIsStorage, PTL
<1>2. TypeOK /\ MemoryMatchesStorage /\ [OrdersNext]_allVars =>
        [\A order \in ClientOrder : Filled(Hashed(order)) /\ balances' # balances =>
            \A fill \in ClientFill, maker, taker \in DOMAIN call.accounts :
                /\ call.accounts[maker] = order.maker
                /\ filledAmount'[Hashed(order)] = filledAmount[Hashed(order)] + fill.amount
                /\ Representable(fill.price) /\ Representable(fill.fee)
                /\ OrderTrade(Hashed(order), FillToSolidity(fill), maker, taker)
                => LET before == BalanceFromSolidity(balances[order.maker])
                       after == BalanceFromSolidity(balances[order.maker])'
                       updates == GetBalanceUpdatesAfterFillingOrder(
                                      fill.amount, fill.price, fill.fee, order.isBuy)
                   IN  after = [margin |-> before.margin + updates.marginDelta,
                                position |-> before.position + updates.positionDelta]
        ]_allVars
  BY StepAsPredicted
<1> QED
  BY <1>1, <1>2, PTL DEF OrdersSpec, FillsAsPredicted

-----------------------------------------------------------------------------
(* What the client estimates                                                *)

\* Floors: a whole is worth as much as two parts of it, and at most one unit more.
LEMMA FloorsAdd ==
  ASSUME NEW m \in Nat, NEW n \in Nat, NEW p \in Nat
  PROVE  /\ BaseMul(m, p) + BaseMul(n, p) <= BaseMul(m + n, p)
         /\ BaseMul(m + n, p) <= BaseMul(m, p) + BaseMul(n, p) + 1
<1> DEFINE x == BaseMul(m, p)  y == BaseMul(n, p)  z == BaseMul(m + n, p)
<1>0. BASE \in Nat /\ BASE > 0
  BY BaseAssumption
<1>1. /\ x \in Nat /\ y \in Nat /\ z \in Nat
      /\ BASE * x <= m * p /\ m * p < BASE * x + BASE
      /\ BASE * y <= n * p /\ n * p < BASE * y + BASE
      /\ BASE * z <= m * p + n * p /\ m * p + n * p < BASE * z + BASE
  <2>1. (m + n) * p = m * p + n * p /\ m + n \in Nat
    OBVIOUS
  <2>2. z \in Nat /\ BASE * z <= (m + n) * p /\ (m + n) * p < BASE * z + BASE
    BY <2>1, BaseMulBounds
  <2>3. x \in Nat /\ BASE * x <= m * p /\ m * p < BASE * x + BASE
    BY BaseMulBounds
  <2>4. y \in Nat /\ BASE * y <= n * p /\ n * p < BASE * y + BASE
    BY BaseMulBounds
  <2> HIDE DEF x, y, z
  <2> QED BY <2>1, <2>2, <2>3, <2>4
<1>2. m * p \in Nat /\ n * p \in Nat /\ BASE * x \in Nat /\ BASE * y \in Nat /\ BASE * z \in Nat
  BY <1>0, <1>1, ProductNat
<1> HIDE DEF x, y, z
<1>3. ASSUME x + y >= z + 1 PROVE FALSE
  <2>1. (z + 1) * BASE <= (x + y) * BASE
    BY <1>0, <1>1, <1>3, ProductMonotone
  <2> QED BY <1>0, <1>1, <1>2, <2>1
<1>4. ASSUME z >= x + y + 2 PROVE FALSE
  <2>1. (x + y + 2) * BASE <= z * BASE
    BY <1>0, <1>1, <1>4, ProductMonotone
  <2> QED BY <1>0, <1>1, <1>2, <2>1
<1>5. x + y <= z /\ z <= x + y + 1
  BY <1>1, <1>3, <1>4
<1> QED BY <1>5 DEF x, y, z

\* The most a maker pays per unit, or the least it gets: never below zero.
AtLeastZero(limit) == IF limit > 0 THEN limit ELSE 0

\* The margin that a filled amount of the order promises at its limits, rounded once.
AtLimit(order, amount) ==
    LET margin == BaseMul(amount, AtLeastZero(LimitPerPosition(order)))
    IN  IF order.isBuy THEN -margin ELSE margin

LEMMA LimitTypes ==
  ASSUME NEW order \in Order
  PROVE  /\ LimitPerPosition(order) \in Int /\ AtLeastZero(LimitPerPosition(order)) \in Nat
         /\ \A n \in Nat : AtLimit(order, n) \in Int
<1> DEFINE limit == LimitPerPosition(order)
<1>1. /\ order.limitPrice \in Nat /\ order.limitFee \in Nat
      /\ order.isBuy \in BOOLEAN /\ order.isNegativeLimitFee \in BOOLEAN
  BY OrdersAssumption DEF OrderType
<1>2. limit \in Int
  <2>1. BaseMul(order.limitFee, order.limitPrice) \in Nat
    BY <1>1, BaseMulBounds
  <2> QED BY <1>1, <2>1 DEF LimitPerPosition
<1> HIDE DEF limit
<1>3. AtLeastZero(limit) \in Nat
  BY <1>2 DEF AtLeastZero
<1>4. \A n \in Nat : BaseMul(n, AtLeastZero(limit)) \in Nat
  BY <1>3, BaseMulBounds
<1> QED BY <1>1, <1>2, <1>3, <1>4 DEF AtLimit, limit

\* A fill gains its maker what its limits promise, less one unit when it sells.
LEMMA FillGains ==
  ASSUME NEW order \in Order, NEW a \in Nat, NEW n \in Nat, NEW price \in Nat,
         LET limit == LimitPerPosition(order)
         IN  IF order.isBuy THEN price <= AtLeastZero(limit) ELSE price >= limit
  PROVE  LET gain == IF order.isBuy THEN -BaseMul(a, price) ELSE BaseMul(a, price)
         IN  gain + (IF order.isBuy THEN 0 ELSE 1)
               >= AtLimit(order, n + a) - AtLimit(order, n)
<1> DEFINE limit == AtLeastZero(LimitPerPosition(order))
           m == BaseMul(a, price)
           before == BaseMul(n, limit)
           after == BaseMul(n + a, limit)
           part == BaseMul(a, limit)
<1>1. limit \in Nat
  BY LimitTypes
<1>2. IF order.isBuy THEN price <= limit ELSE price >= limit
  BY LimitTypes DEF AtLeastZero
<1>3. /\ AtLimit(order, n) = IF order.isBuy THEN -before ELSE before
      /\ AtLimit(order, n + a) = IF order.isBuy THEN -after ELSE after
  BY DEF AtLimit
<1> HIDE DEF limit
<1>4. /\ m \in Nat /\ before \in Nat /\ after \in Nat /\ part \in Nat
      /\ before + part <= after /\ after <= before + part + 1
  <2>1. m \in Nat /\ before \in Nat /\ part \in Nat
    BY <1>1, BaseMulBounds
  <2>2. n + a \in Nat
    OBVIOUS
  <2>3. after \in Nat
    BY <1>1, <2>2, BaseMulBounds
  <2>4. before + part <= after /\ after <= before + part + 1
    BY <1>1, FloorsAdd
  <2> QED BY <2>1, <2>3, <2>4
<1>5. IF order.isBuy THEN m <= part ELSE m >= part
  BY <1>1, <1>2, FeeOfPrice
<1> HIDE DEF m, before, after, part
<1>6. (IF order.isBuy THEN -m ELSE m) + (IF order.isBuy THEN 0 ELSE 1)
        >= AtLimit(order, n + a) - AtLimit(order, n)
  BY <1>3, <1>4, <1>5
<1> QED BY <1>6 DEF m

\* Each order of the client is another order of the contract.
LEMMA ClientOrderTypes ==
  /\ IsFiniteSet(ClientOrder)
  /\ \A order \in ClientOrder :
        /\ Hashed(order) \in Order /\ Hashed(order).maker = order.maker
        /\ Hashed(order).isBuy = order.isBuy /\ order.isBuy \in BOOLEAN
<1>1. \A order \in ClientOrder : Hashed(order) \in Order
  BY OrderEstimatesAssumption DEF Hashed
<1>2. IsFiniteSet(ClientOrder)
  <2> DEFINE f == [order \in ClientOrder |-> Hashed(order)]
  <2>1. f \in Injection(ClientOrder, Order)
    <3>1. f \in [ClientOrder -> Order]
      BY <1>1
    <3>2. \A o1, o2 \in ClientOrder : f[o1] = f[o2] => o1 = o2
      BY OrderEstimatesAssumption DEF Hashed
    <3> HIDE DEF f
    <3> QED BY <3>1, <3>2 DEF Injection, IsInjective
  <2>2. IsFiniteSet(Order)
    BY OrdersAssumption
  <2> QED BY <2>1, <2>2, FS_Injection
<1>3. ASSUME NEW order \in ClientOrder
      PROVE  /\ Hashed(order).maker = order.maker
             /\ Hashed(order).isBuy = order.isBuy /\ order.isBuy \in BOOLEAN
  BY OrderEstimatesAssumption, FlagsRoundTrip DEF IsClientOrder, Hashed, OrderToSolidity
<1> QED BY <1>1, <1>2, <1>3

\* A total of which one entry changes.
LEMMA TotalOfChanged ==
  ASSUME NEW S, IsFiniteSet(S), NEW f \in [S -> Int], NEW g \in [S -> Int], NEW k \in S,
         \A x \in S : x # k => g[x] = f[x]
  PROVE  Total(f) \in Int /\ Total(g) = Total(f) + (g[k] - f[k])
<1>1. g = [f EXCEPT ![k] = g[k]]
  OBVIOUS
<1>2. g[k] \in Int /\ f[k] \in Int
  OBVIOUS
<1>3. Total([f EXCEPT ![k] = g[k]]) = Total(f) - f[k] + g[k]
  BY ONLY IsFiniteSet(S), f \in [S -> Int], k \in S, <1>2, TotalUpdate
<1>4. Total(f) \in Int
  BY TotalType
<1>5. Total(g) = Total(f) - f[k] + g[k]
  BY <1>1, <1>3
<1> QED BY <1>2, <1>4, <1>5

\* What the orders of an account have moved since the call began, as far as the amounts
\* filled tell: exactly the position, and the margin at the limits.
PositionParts(account, filled, before) ==
    [order \in OrdersOf(account) |->
        Bought(Hashed(order), filled[Hashed(order)] - before[Hashed(order)])]

MarginParts(account, filled, before) ==
    [order \in OrdersOf(account) |->
        AtLimit(Hashed(order), filled[Hashed(order)] - before[Hashed(order)])]

OnlyBuys(account) == \A order \in OrdersOf(account) : order.isBuy

\* A balance that its orders account for, up to a unit for each trade when some sell.
Accounted(balance, initial, account, trades, filled, before) ==
    /\ Position(balance) = Position(initial) + Total(PositionParts(account, filled, before))
    /\ Margin(balance) + (IF OnlyBuys(account) THEN 0 ELSE trades)
         >= Margin(initial) + Total(MarginParts(account, filled, before))

\* The inductive form of EstimatesAreConservative: the orders account for the balance of
\* everyone who has not been a taker in the call.
EstimatesInv ==
    status = Entered /\ Operator = {OrdersTrader} =>
        /\ \A order \in Order :
              /\ transaction.filledAmount[order] <= filledAmount[order]
              /\ \A account \in Account :
                    transaction.takenAmount[order][account] <= takenAmount[order][account]
        /\ \A i \in DOMAIN call.accounts :
              LET account == call.accounts[i]
              IN  ~TakesInCall(account) =>
                      Accounted(balances[account], call.initial[i], account, call.trades,
                                filledAmount, transaction.filledAmount)

LEMMA PartsTypes ==
  ASSUME NEW account, NEW filled \in [Order -> Nat], NEW before \in [Order -> Nat],
         \A order \in Order : before[order] <= filled[order]
  PROVE  /\ IsFiniteSet(OrdersOf(account))
         /\ PositionParts(account, filled, before) \in [OrdersOf(account) -> Int]
         /\ MarginParts(account, filled, before) \in [OrdersOf(account) -> Int]
         /\ Total(PositionParts(account, filled, before)) \in Int
         /\ Total(MarginParts(account, filled, before)) \in Int
<1>1. OrdersOf(account) \subseteq ClientOrder /\ IsFiniteSet(OrdersOf(account))
  BY ClientOrderTypes, FS_Subset DEF OrdersOf
<1>2. ASSUME NEW order \in OrdersOf(account)
      PROVE  LET n == filled[Hashed(order)] - before[Hashed(order)]
             IN  Bought(Hashed(order), n) \in Int /\ AtLimit(Hashed(order), n) \in Int
  <2> DEFINE o == Hashed(order)  n == filled[o] - before[o]
  <2>1. o \in Order
    BY <1>1, ClientOrderTypes
  <2> HIDE DEF o
  <2>2. n \in Nat
    BY <2>1
  <2> HIDE DEF n
  <2>3. Bought(o, n) \in Int /\ AtLimit(o, n) \in Int
    BY <2>1, <2>2, LimitTypes DEF Bought
  <2> QED BY <2>3 DEF o, n
<1>3. /\ PositionParts(account, filled, before) \in [OrdersOf(account) -> Int]
      /\ MarginParts(account, filled, before) \in [OrdersOf(account) -> Int]
  BY <1>2 DEF PositionParts, MarginParts
<1> QED BY <1>1, <1>3, TotalType

\* What the orders of an account have moved after a fill of an order: more by it when
\* they include the order.
PartsMoved(account, filled, newFilled, before, order, a) ==
    LET n == filled[order] - before[order]
    IN  IF order.maker = account
        THEN /\ Total(PositionParts(account, newFilled, before))
                  = Total(PositionParts(account, filled, before)) + Bought(order, a)
             /\ Total(MarginParts(account, newFilled, before))
                  = Total(MarginParts(account, filled, before))
                      + (AtLimit(order, n + a) - AtLimit(order, n))
        ELSE /\ PositionParts(account, newFilled, before)
                  = PositionParts(account, filled, before)
             /\ MarginParts(account, newFilled, before)
                  = MarginParts(account, filled, before)

LEMMA FillMovesParts ==
  ASSUME NEW account, NEW filled \in [Order -> Nat], NEW before \in [Order -> Nat],
         \A o \in Order : before[o] <= filled[o],
         NEW order \in Order, NEW a \in Nat, NEW newFilled,
         newFilled = [filled EXCEPT ![order] = filled[order] + a]
  PROVE  PartsMoved(account, filled, newFilled, before, order, a)
<1> DEFINE n == filled[order] - before[order]
           S == OrdersOf(account)
           P == PositionParts(account, filled, before)
           newP == PositionParts(account, newFilled, before)
           M == MarginParts(account, filled, before)
           newM == MarginParts(account, newFilled, before)
<1>1. /\ newFilled \in [Order -> Nat] /\ newFilled[order] = filled[order] + a
      /\ \A o \in Order : o # order => newFilled[o] = filled[o]
      /\ \A o \in Order : before[o] <= newFilled[o]
  OBVIOUS
<1>2. PICK client \in ClientOrder : Hashed(client) = order
  BY OrderEstimatesAssumption DEF Hashed
<1>3. \A o \in S : /\ o \in ClientOrder /\ o.maker = account /\ Hashed(o) \in Order
                   /\ o # client => newFilled[Hashed(o)] = filled[Hashed(o)]
  <2>1. \A o \in ClientOrder : Hashed(o) = order => o = client
    BY <1>2, OrderEstimatesAssumption DEF Hashed
  <2> QED BY <1>1, <2>1, ClientOrderTypes DEF OrdersOf
<1>4. order.maker = account <=> client \in S
  BY <1>2, ClientOrderTypes DEF OrdersOf
<1>5. \A o \in S : o # client => newP[o] = P[o] /\ newM[o] = M[o]
  BY <1>3 DEF PositionParts, MarginParts
<1>6. CASE order.maker # account
  <2>1. \A o \in S : newP[o] = P[o] /\ newM[o] = M[o]
    BY <1>4, <1>5, <1>6
  <2>2. newP = P /\ newM = M
    BY <2>1 DEF PositionParts, MarginParts
  <2> QED BY <1>6, <2>2 DEF PartsMoved
<1>7. CASE order.maker = account
  <2>1. client \in S
    BY <1>4, <1>7
  <2>2. /\ IsFiniteSet(S) /\ P \in [S -> Int] /\ M \in [S -> Int]
    BY PartsTypes
  <2>3. newP \in [S -> Int] /\ newM \in [S -> Int]
    BY <1>1, PartsTypes
  <2>4. /\ P[client] = Bought(order, n) /\ M[client] = AtLimit(order, n)
        /\ newP[client] = Bought(order, n + a) /\ newM[client] = AtLimit(order, n + a)
    <3>1. newFilled[order] - before[order] = n + a
      BY <1>1
    <3> QED BY <1>2, <2>1, <3>1 DEF PositionParts, MarginParts
  <2>5. n \in Nat /\ order.isBuy \in BOOLEAN
    BY OrdersAssumption DEF OrderType
  <2> HIDE DEF P, M, newP, newM, S, n
  <2>6. Total(newP) = Total(P) + (newP[client] - P[client]) /\ Total(P) \in Int
    BY <1>5, <2>1, <2>2, <2>3, TotalOfChanged
  <2>7. Total(newM) = Total(M) + (newM[client] - M[client])
    BY <1>5, <2>1, <2>2, <2>3, TotalOfChanged
  <2>8. Bought(order, n + a) - Bought(order, n) = Bought(order, a)
    BY <2>5 DEF Bought
  <2>9. Total(newP) = Total(P) + Bought(order, a)
    BY <2>4, <2>6, <2>8
  <2> QED BY <1>7, <2>4, <2>7, <2>9 DEF P, M, newP, newM, n, PartsMoved
<1> QED BY <1>6, <1>7

\* A fill moves the balance of its maker by the amount and the price, and of those who
\* are not its taker nobody else's.
LEMMA FillMovesBalance ==
  ASSUME TypeOK, MemoryMatchesStorage,
         NEW maker \in DOMAIN call.accounts, NEW taker \in DOMAIN call.accounts,
         NEW a \in Amount, NEW m \in Amount, NEW isBuy \in BOOLEAN,
         TradeStep(OrdersTrader, maker, taker, m, a, ~isBuy),
         a = 0 => m = 0,
         NEW account \in Account, account = call.accounts[taker] => a = 0
  PROVE  LET mine == account = call.accounts[maker]
         IN  /\ Position(balances'[account]) = Position(balances[account])
                   + (IF mine THEN (IF isBuy THEN a ELSE -a) ELSE 0)
             /\ Margin(balances'[account]) = Margin(balances[account])
                   + (IF mine THEN (IF isBuy THEN -m ELSE m) ELSE 0)
<1> DEFINE M == call.accounts[maker]  T == call.accounts[taker]
<1>0. a \in Nat /\ m \in Nat
  BY AmountAssumption
<1>1. PICK sells \in BOOLEAN : sells = ~isBuy
  OBVIOUS
<1>2. TradeStep(OrdersTrader, maker, taker, m, a, sells)
  BY <1>1
<1>3. /\ Margin(balances[account]) \in Int /\ Position(balances[account]) \in Int
  BY StoredLedger, BalanceInt
<1>4. M \in Account /\ T \in Account
  <2>1. call.accounts \in AccountList
    BY DEF TradeStep, TypeOK, CallTypeOK
  <2> QED BY <2>1, AccountListType
<1>5. CASE M = T
  <2>1. balances' = balances
    BY <1>2, <1>5 DEF TradeStep
  <2> QED BY <1>0, <1>3, <1>5, <2>1
<1>6. CASE M # T
  <2>1. /\ balances' = [balances EXCEPT ![M] = balances'[M], ![T] = balances'[T]]
        /\ balances'[M] \in Balance /\ balances'[T] \in Balance
        /\ Position(balances'[M]) = Position(balances[M]) + (IF sells THEN -a ELSE a)
        /\ Margin(balances'[M]) + Margin(balances'[T])
             = Margin(balances[M]) + Margin(balances[T])
        /\ Position(balances'[M]) + Position(balances'[T])
             = Position(balances[M]) + Position(balances[T])
    BY <1>2, <1>6, TradedPair
  <2>2. /\ {Margin(balances[M]), Margin(balances[T]), Margin(balances'[M]),
            Margin(balances'[T])} \subseteq Int
        /\ {Position(balances[M]), Position(balances[T]), Position(balances'[M]),
            Position(balances'[T])} \subseteq Int
    BY <1>4, <2>1, StoredLedger, BalanceInt
  <2>3. \/ balances' = balances
        \/ Margin(balances'[M]) = Margin(balances[M]) + (IF sells THEN m ELSE -m)
    <3> DEFINE c == call.accounts[maker]
    <3>1. c = call.accounts[maker]
      OBVIOUS
    <3> HIDE DEF c
    <3> QED BY <1>0, <1>2, <3>1, MakerTraded
  <2>4. Margin(balances'[M]) = Margin(balances[M]) + (IF sells THEN m ELSE -m)
    <3>1. CASE balances' = balances
      <4>1. a = 0
        BY <1>0, <2>1, <2>2, <3>1
      <4> QED BY <2>2, <3>1, <4>1
    <3> QED BY <2>3, <3>1
  <2>5. CASE account = M
    <3>1. account # T
      BY <1>6, <2>5
    <3> QED BY <1>1, <2>1, <2>4, <2>5
  <2>6. CASE account = T
    <3>1. a = 0 /\ m = 0 /\ account # M
      BY <1>6, <2>6
    <3>2. /\ Position(balances'[T]) = Position(balances[T])
          /\ Margin(balances'[T]) = Margin(balances[T])
      BY <2>1, <2>2, <2>4, <3>1
    <3> QED BY <1>3, <2>6, <3>1, <3>2
  <2>7. CASE account # M /\ account # T
    <3>1. balances'[account] = balances[account]
      BY <2>1, <2>7, StoredLedger
    <3> QED BY <1>3, <2>7, <3>1
  <2> QED BY <2>5, <2>6, <2>7
<1> QED BY <1>5, <1>6

\* The orders still account for the balances after one more fill.
LEMMA OrderTradeEstimates ==
  ASSUME OrdersInv, TypeOK, MemoryMatchesStorage, EstimatesInv, Operator = {OrdersTrader},
         NEW order \in Order, NEW fill \in Fill,
         NEW maker \in DOMAIN call.accounts, NEW taker \in DOMAIN call.accounts,
         OrderTrade(order, fill, maker, taker)
  PROVE  EstimatesInv'
<1> DEFINE a == fill.amount
           price == FillPrice(order, fill)
           m == BaseMul(a, price)
           T == call.accounts[taker]
           before == transaction.filledAmount
           n == filledAmount[order] - before[order]
<1>0. status = Entered /\ call.accounts \in AccountList
  BY DEF OrderTrade, TypeOK, CallTypeOK
<1>1. /\ filledAmount \in [Order -> Nat] /\ before \in [Order -> Nat]
      /\ takenAmount \in TakenAmounts /\ transaction.takenAmount \in TakenAmounts
      /\ \A o \in Order : before[o] <= filledAmount[o]
      /\ \A o \in Order, c \in Account : transaction.takenAmount[o][c] <= takenAmount[o][c]
  BY <1>0 DEF OrdersInv, OrdersTypeOK, FilledAmounts, EstimatesInv
<1>2. /\ filledAmount' = [filledAmount EXCEPT ![order] = filledAmount[order] + a]
      /\ takenAmount' = [takenAmount EXCEPT ![order][T] = @ + a]
      /\ transaction' = transaction
      /\ order.maker = call.accounts[maker]
      /\ m \in Amount /\ a \in Amount
      /\ TradeStep(OrdersTrader, maker, taker, m, a, ~order.isBuy)
  BY <1>1 DEF OrderTrade, VerifyOrderRequest, TradeResult
<1>3. /\ call'.accounts = call.accounts /\ call'.initial = call.initial
      /\ call'.trades = call.trades + 1 /\ call.trades \in Nat
      /\ call.initial \in [DOMAIN call.accounts -> StoredBalance]
  <2>1. call.trades \in 0..MaxTrades /\ MaxTrades \in Nat
    BY <1>0, TradesAssumption DEF TypeOK, CallTypeOK
  <2>2. call.initial \in [DOMAIN call.accounts -> StoredBalance]
    BY <1>0 DEF TypeOK, CallTypeOK
  <2> QED BY <1>2, <2>1, <2>2 DEF TradeStep, AfterTrade
<1>4. /\ a \in Nat /\ order.isBuy \in BOOLEAN /\ T \in Account
      /\ \A i \in DOMAIN call.accounts : call.accounts[i] \in Account
  BY <1>0, OrderTypes, AccountListType
<1>5. /\ price \in Nat
      /\ LET limit == LimitPerPosition(order)
         IN  IF order.isBuy THEN price <= AtLeastZero(limit) ELSE price >= limit
  BY FillWithinLimits DEF OrderTrade, AtLeastZero
<1>6. m \in Nat /\ (a = 0 => m = 0)
  <2>1. m \in Nat /\ BASE * m <= a * price
    BY <1>4, <1>5, BaseMulBounds
  <2>2. BASE \in Nat /\ BASE > 0
    BY BaseAssumption
  <2> HIDE DEF m, price, a
  <2> QED BY <1>5, <2>1, <2>2
<1>7. n \in Nat
  BY <1>1
<1>8. (IF order.isBuy THEN -m ELSE m) + (IF order.isBuy THEN 0 ELSE 1)
        >= AtLimit(order, n + a) - AtLimit(order, n)
  BY <1>4, <1>5, <1>7, FillGains
<1>9. AtLimit(order, n + a) \in Int /\ AtLimit(order, n) \in Int
  BY <1>4, <1>7, LimitTypes
<1> HIDE DEF a, price, m, T, before, n
<1>10. ASSUME NEW o \in Order
       PROVE  /\ before[o] <= filledAmount'[o]
              /\ \A c \in Account :
                    /\ takenAmount[o][c] <= takenAmount'[o][c]
                    /\ transaction.takenAmount[o][c] <= takenAmount'[o][c]
                    /\ o = order /\ c = T => takenAmount'[o][c] = takenAmount[o][c] + a
  BY <1>1, <1>2, <1>4 DEF TakenAmounts
<1>11. ASSUME NEW i \in DOMAIN call.accounts, ~TakesInCall(call.accounts[i])'
       PROVE  Accounted(balances'[call.accounts[i]], call.initial[i], call.accounts[i],
                        call.trades + 1, filledAmount', before)
  <2> DEFINE c == call.accounts[i]
             P == Total(PositionParts(c, filledAmount, before))
             Q == Total(MarginParts(c, filledAmount, before))
             newP == Total(PositionParts(c, filledAmount', before))
             newQ == Total(MarginParts(c, filledAmount', before))
             mine == c = order.maker
             slack == IF OnlyBuys(c) THEN 0 ELSE call.trades
             newSlack == IF OnlyBuys(c) THEN 0 ELSE call.trades + 1
  <2>0. c \in Account
    BY <1>4
  <2>1. /\ \A o \in Order : takenAmount'[o][c] = transaction.takenAmount[o][c]
        /\ call'.accounts[i] = call.accounts[i]
    BY <1>2, <1>3, <1>11 DEF TakesInCall
  <2>2. /\ ~TakesInCall(c)
        /\ c = T => a = 0
    <3>1. \A o \in Order : /\ takenAmount[o][c] \in Nat
                           /\ transaction.takenAmount[o][c] \in Nat
      BY <1>1, <2>0 DEF TakenAmounts
    <3>2. \A o \in Order : takenAmount[o][c] = transaction.takenAmount[o][c]
      <4> SUFFICES ASSUME NEW o \in Order
                   PROVE  takenAmount[o][c] = transaction.takenAmount[o][c]
        OBVIOUS
      <4> HIDE DEF c
      <4>1. takenAmount[o][c] <= takenAmount'[o][c]
        BY <1>10, <2>0
      <4>2. transaction.takenAmount[o][c] <= takenAmount[o][c]
        BY <1>1, <2>0
      <4>3. takenAmount'[o][c] = transaction.takenAmount[o][c]
        BY <2>1
      <4> QED BY <3>1, <4>1, <4>2, <4>3
    <3> QED BY <1>4, <1>10, <2>0, <2>1, <3>1, <3>2 DEF TakesInCall
  <2>3. /\ Position(balances[c]) = Position(call.initial[i]) + P
        /\ Margin(balances[c]) + slack >= Margin(call.initial[i]) + Q
    BY <1>0, <2>2 DEF EstimatesInv, Accounted, before
  <2>4. /\ Position(balances'[c]) = Position(balances[c])
              + (IF mine THEN Bought(order, a) ELSE 0)
        /\ Margin(balances'[c]) = Margin(balances[c])
              + (IF mine THEN (IF order.isBuy THEN -m ELSE m) ELSE 0)
    <3>1. PICK isBuy \in BOOLEAN : isBuy = order.isBuy
      BY <1>4
    <3>2. TradeStep(OrdersTrader, maker, taker, m, a, ~isBuy)
      BY <1>2, <3>1
    <3>3. LET me == c = call.accounts[maker]
          IN  /\ Position(balances'[c]) = Position(balances[c])
                    + (IF me THEN (IF isBuy THEN a ELSE -a) ELSE 0)
              /\ Margin(balances'[c]) = Margin(balances[c])
                    + (IF me THEN (IF isBuy THEN -m ELSE m) ELSE 0)
      BY <1>2, <1>6, <2>0, <2>2, <3>2, FillMovesBalance DEF T
    <3> QED BY <1>2, <3>1, <3>3 DEF Bought
  <2>5. IF mine THEN newP = P + Bought(order, a)
                       /\ newQ = Q + (AtLimit(order, n + a) - AtLimit(order, n))
                ELSE newP = P /\ newQ = Q
    <3> DEFINE filled == filledAmount  newFilled == filledAmount'
    <3>1. /\ filled \in [Order -> Nat] /\ before \in [Order -> Nat]
          /\ \A o \in Order : before[o] <= filled[o]
          /\ newFilled = [filled EXCEPT ![order] = filled[order] + a]
      BY <1>1, <1>2
    <3> HIDE DEF c, filled, newFilled
    <3>2. PartsMoved(c, filled, newFilled, before, order, a)
      BY <1>4, <3>1, FillMovesParts
    <3> QED BY <3>2 DEF n, filled, newFilled, PartsMoved
  <2>6. /\ P \in Int /\ Q \in Int /\ Bought(order, a) \in Int
        /\ Position(balances[c]) \in Int /\ Margin(balances[c]) \in Int
        /\ Position(call.initial[i]) \in Int /\ Margin(call.initial[i]) \in Int
    <3>1. P \in Int /\ Q \in Int
      BY <1>1, PartsTypes
    <3>2. Bought(order, a) \in Int
      BY <1>4 DEF Bought
    <3>3. call.initial[i] \in Balance
      BY <1>3 DEF StoredBalance
    <3> QED BY <2>0, <3>1, <3>2, <3>3, StoredLedger, BalanceInt
  <2>7. newSlack >= slack + (IF mine THEN (IF order.isBuy THEN 0 ELSE 1) ELSE 0)
    <3>1. mine /\ ~order.isBuy => ~OnlyBuys(c)
      <4>1. PICK client \in ClientOrder : Hashed(client) = order
        BY OrderEstimatesAssumption DEF Hashed
      <4> QED BY <4>1, ClientOrderTypes DEF OnlyBuys, OrdersOf
    <3> QED BY <1>3, <3>1
  <2>8. slack \in Nat /\ newSlack \in Nat
    BY <1>3
  <2> HIDE DEF c, P, Q, newP, newQ, mine, slack, newSlack
  <2>9. Position(balances'[c]) = Position(call.initial[i]) + newP
    BY <2>3, <2>4, <2>5, <2>6
  <2>10. Margin(balances'[c]) + newSlack >= Margin(call.initial[i]) + newQ
    <3>1. CASE mine
      BY <1>4, <1>6, <1>8, <1>9, <2>3, <2>4, <2>5, <2>6, <2>7, <2>8, <3>1
    <3>2. CASE ~mine
      BY <2>3, <2>4, <2>5, <2>6, <2>7, <2>8, <3>2
    <3> QED BY <3>1, <3>2
  <2> QED BY <2>9, <2>10 DEF Accounted, c, newP, newQ, newSlack
<1> QED
  BY <1>2, <1>3, <1>10, <1>11 DEF EstimatesInv, before

LEMMA BaseMulOfZero ==
  ASSUME NEW p \in Nat
  PROVE  BaseMul(0, p) = 0
<1>1. BaseMul(0, p) \in Nat /\ BASE * BaseMul(0, p) <= 0
  BY BaseMulBounds
<1> QED BY <1>1, BaseAssumption

LEMMA BaseMulByZero ==
  ASSUME NEW n \in Nat
  PROVE  BaseMul(n, 0) = 0
<1>1. BaseMul(n, 0) \in Nat /\ BASE * BaseMul(n, 0) <= 0
  <2>1. n * 0 = 0
    OBVIOUS
  <2> QED BY <2>1, BaseMulBounds
<1> QED BY <1>1, BaseAssumption

\* When a call begins nothing has been filled or taken in it.
LEMMA BeginEstimates ==
  ASSUME OrdersInv, TypeOK, IndexesInSync, NEW sender, NEW accounts \in AccountList,
         BeginTransaction(sender, accounts)
  PROVE  EstimatesInv'
<1>1. /\ transaction'.filledAmount = filledAmount /\ filledAmount' = filledAmount
      /\ transaction'.takenAmount = takenAmount /\ takenAmount' = takenAmount
      /\ call'.accounts = accounts /\ call'.trades = 0
      /\ \A i \in DOMAIN accounts : call'.initial[i] = Settled(accounts[i], ContextIndex)
      /\ balances' = [c \in Account |-> IF c \in Elements(accounts)
                             THEN Settled(c, ContextIndex) ELSE balances[c]]
  BY AccountListType DEF BeginTransaction, TradeBegin, orderVars, LoadContextAndSettle
<1>2. filledAmount \in [Order -> Nat] /\ takenAmount \in TakenAmounts
  BY DEF OrdersInv, OrdersTypeOK, FilledAmounts
<1>3. \A i \in DOMAIN accounts :
         /\ accounts[i] \in Account
         /\ balances'[accounts[i]] = call'.initial[i] /\ call'.initial[i] \in Balance
  <2>1. \A i \in DOMAIN accounts : accounts[i] \in Account /\ accounts[i] \in Elements(accounts)
    BY AccountListType
  <2>2. \A c \in Account : Settled(c, ContextIndex) \in Balance
    BY ContextTypes, SettledTypes
  <2> QED BY <1>1, <2>1, <2>2
<1>4. ASSUME NEW i \in DOMAIN accounts
      PROVE  Accounted(call'.initial[i], call'.initial[i], accounts[i], 0,
                       filledAmount, filledAmount)
  <2> DEFINE c == accounts[i]
             P == PositionParts(c, filledAmount, filledAmount)
             Q == MarginParts(c, filledAmount, filledAmount)
  <2>1. P \in [OrdersOf(c) -> {0}] /\ Q \in [OrdersOf(c) -> {0}]
    <3>1. ASSUME NEW o \in OrdersOf(c)
          PROVE  P[o] = 0 /\ Q[o] = 0
      <4>1. Hashed(o) \in Order
        BY ClientOrderTypes DEF OrdersOf
      <4>2. filledAmount[Hashed(o)] - filledAmount[Hashed(o)] = 0
        BY <1>2, <4>1
      <4>3. BaseMul(0, AtLeastZero(LimitPerPosition(Hashed(o)))) = 0
        BY <4>1, LimitTypes, BaseMulOfZero
      <4>4. AtLimit(Hashed(o), 0) = 0
        BY <4>3 DEF AtLimit
      <4> QED BY <4>2, <4>4 DEF PositionParts, MarginParts, Bought
    <3> QED BY <3>1 DEF PositionParts, MarginParts
  <2>2. Total(P) = 0 /\ Total(Q) = 0
    BY <2>1, TotalZero
  <2>3. Position(call'.initial[i]) \in Int /\ Margin(call'.initial[i]) \in Int
    BY <1>3, BalanceInt
  <2> HIDE DEF P, Q
  <2> QED BY <2>2, <2>3 DEF Accounted, P, Q
<1>5. \A o \in Order : /\ filledAmount[o] <= filledAmount[o]
                       /\ \A c \in Account : takenAmount[o][c] <= takenAmount[o][c]
  BY <1>2 DEF TakenAmounts
<1> QED
  BY <1>1, <1>3, <1>4, <1>5 DEF EstimatesInv

\* The invariant is inductive; before and after a call there is nothing to account for.
LEMMA StepEstimates ==
  ASSUME EstimatesInv, OrdersInv, IInv, [OrdersNext]_allVars
  PROVE  EstimatesInv'
<1>0. TypeOK /\ MemoryMatchesStorage /\ IndexesInSync
  BY DEF IInv, BooksBalance, IndexesInSync
<1>1. SUFFICES ASSUME status' = Entered, Operator = {OrdersTrader}
               PROVE  EstimatesInv'
  BY DEF EstimatesInv
<1>2. ASSUME status = Entered,
             UNCHANGED <<balances, call, filledAmount, takenAmount, transaction>>
      PROVE  EstimatesInv'
  BY <1>1, <1>2 DEF EstimatesInv, TakesInCall, Accounted, PositionParts, MarginParts
<1>3. CASE OrderStep
  <2>1. CASE \E order \in Order, fill \in Fill, maker, taker \in DOMAIN call.accounts :
                 OrderTrade(order, fill, maker, taker)
    BY <1>0, <1>1, <2>1, OrderTradeEstimates
  <2>2. CASE \E sender \in Account, order \in Order :
                 ApproveOrder(sender, order) \/ CancelOrder(sender, order)
    <3>1. UNCHANGED <<vars, filledAmount, takenAmount, transaction>>
      BY <2>2 DEF ApproveOrder, CancelOrder
    <3> QED BY <1>1, <1>2, <3>1 DEF vars, ledger
  <2> QED BY <1>3, <2>1, <2>2 DEF OrderStep
<1>4. CASE TransactionStep
  <2>1. CASE \E sender \in Account \union Operator, accounts \in AccountList :
                 BeginTransaction(sender, accounts)
    BY <1>0, <2>1, BeginEstimates
  <2>2. CASE EndTransaction \/ RevertTransaction
    BY <1>1, <2>2 DEF EndTransaction, TradeEnd, RevertTransaction, TradeRevert,
                      Entered, NotEntered
  <2> QED BY <1>4, <2>1, <2>2 DEF TransactionStep
<1>5. CASE OtherTrade
  BY <1>1, <1>5 DEF OtherTrade
<1>6. CASE OtherStep
  <2>1. status' = status /\ UNCHANGED <<orderVars, transaction>>
    BY <1>6, OtherStepStatus
  <2>2. UNCHANGED <<balances, call>>
    <3>1. CASE MarginStep \/ FinalSettlementStep
      BY <1>1, <2>1, <3>1 DEF MarginStep, Deposit, Withdraw, FinalSettlementStep,
              WithdrawFinalSettlement, nonReentrant, Entered, NotEntered
    <3>2. CASE AdminStep
      BY <1>1, <2>1, <3>2 DEF AdminStep, SetGlobalOperator, SetOracle, SetFunder,
              SetMinCollateral, EnableFinalSettlement, ledger, nonReentrant, Entered, NotEntered
    <3>3. CASE OperatorStep
      BY <3>3 DEF OperatorStep, SetLocalOperator, ledger
    <3>4. CASE WorldStep
      BY <3>4 DEF WorldStep, Tick, ChangePrice, ChangeRate, Donate, ledger
    <3> QED BY <1>6, <3>1, <3>2, <3>3, <3>4 DEF OtherStep
  <2> QED BY <1>1, <1>2, <2>1, <2>2 DEF orderVars
<1>7. CASE UNCHANGED allVars
  BY <1>1, <1>2, <1>7 DEF allVars, orderVars, vars, ledger
<1> QED
  BY <1>3, <1>4, <1>5, <1>6, <1>7 DEF OrdersNext

\* The client finds the amount again that it turned into the maker's tokens.
LEMMA AmountFromTokens ==
  ASSUME NEW order \in ClientOrder, Estimable(order), NEW n \in Nat
  PROVE  FillAmount(order, MakerTokens(order, n)) = n
<1>1. order.isBuy \in BOOLEAN /\ order.limitPrice.value \in Nat
  BY OrderEstimatesAssumption DEF IsClientOrder, BaseValue
<1>2. CASE ~order.isBuy
  BY <1>2 DEF FillAmount, MakerTokens
<1>3. CASE order.isBuy
  <2> DEFINE v == order.limitPrice.value
             R == RatioUnit
  <2>1. v \in Nat \ {0} /\ R \in Nat \ {0}
    BY <1>1, <1>3, ClientTypesAssumption DEF Estimable
  <2> HIDE DEF v, R
  <2>2. 2 * (n * v) * R + v = (n * R) * (2 * v) + v
    BY <2>1
  <2>3. n * R \in Nat /\ 2 * v \in Nat \ {0} /\ 2 * (n * v) * R + v \in Nat
    <3>1. n * R \in Nat /\ (n * R) * (2 * v) \in Nat
      BY <2>1, ProductNat
    <3> QED BY <2>1, <2>2, <3>1
  <2>4. (2 * (n * v) * R + v) \div (2 * v) = n * R
    BY <2>1, <2>2, <2>3, QuotientIs
  <2>5. n * R = n * R + 0 /\ 0 < R
    BY <2>1, <2>3
  <2>6. (n * R) \div R = n
    BY <2>1, <2>3, <2>5, QuotientIs
  <2> QED BY <1>3, <2>4, <2>6 DEF FillAmount, MakerTokens, Quotient, v, R
<1> QED BY <1>1, <1>2, <1>3

\* What the client estimates for one order is at most what a fill at its limits gives.
LEMMA EstimateOfOrder ==
  ASSUME NEW order \in ClientOrder, Estimable(order), NEW n \in Nat
  PROVE  LET delta == GetBalanceUpdatesAfterFillingOrder(
                          FillAmount(order, MakerTokens(order, n)),
                          order.limitPrice, order.limitFee, order.isBuy)
         IN  /\ delta.positionDelta = Bought(Hashed(order), n)
             /\ delta.marginDelta \in Int
             /\ delta.marginDelta <= AtLimit(Hashed(order), n)
<1> DEFINE p == ToSolidity(order.limitPrice)
           f == ToSolidity(order.limitFee)
           negative == order.limitFee.isNegative
           fee == BaseMul(f, p)
           per == MarginPerPosition(order.isBuy, p, f, negative)
           limit == LimitPerPosition(Hashed(order))
           delta == GetBalanceUpdatesAfterFillingOrder(n, order.limitPrice, order.limitFee,
                                                       order.isBuy)
<1>0. BASE \in Nat \ {0} /\ PARTS \in Nat \ {0}
  BY BaseAssumption, ClientTypesAssumption
<1>1. /\ order.limitPrice \in BaseValue /\ order.limitFee \in BaseValue
      /\ Representable(order.limitPrice) /\ Representable(order.limitFee)
      /\ order.isBuy \in BOOLEAN /\ negative \in BOOLEAN
  BY OrderEstimatesAssumption DEF IsClientOrder, Estimable, BaseValue
<1>2. /\ p \in Nat /\ f \in Nat /\ order.limitFee.value = PARTS * f
  BY <1>1, WholeToSolidity
<1>3. fee \in Nat
  BY <1>2, BaseMulBounds
<1>4. per = IF order.isBuy = negative THEN p - fee ELSE p + fee
  BY DEF MarginPerPosition
<1>5. limit = p + (IF order.isBuy = negative THEN -fee ELSE fee)
  <2>1. /\ Hashed(order).isBuy = order.isBuy
        /\ Hashed(order).isNegativeLimitFee = negative
        /\ Hashed(order).limitPrice = p /\ Hashed(order).limitFee = f
    BY OrderEstimatesAssumption, FlagsRoundTrip DEF Hashed, OrderToSolidity
  <2> QED BY <2>1 DEF LimitPerPosition
<1>6. order.isBuy => per >= 0
  <2>1. ASSUME order.isBuy, negative
        PROVE  f <= BASE
    <3>1. PARTS * f <= PARTS * BASE
      BY <1>2, <2>1 DEF Estimable
    <3>2. ASSUME f >= BASE + 1 PROVE FALSE
      <4>1. (BASE + 1) * PARTS <= f * PARTS
        BY <1>0, <1>2, <3>2, ProductMonotone
      <4>2. (BASE + 1) * PARTS = PARTS * BASE + PARTS /\ PARTS * BASE \in Nat
        BY <1>0, ProductNat
      <4>3. PARTS * f \in Nat /\ f * PARTS = PARTS * f
        BY <1>0, <1>2, ProductNat
      <4> HIDE DEF f
      <4> QED BY <1>0, <3>1, <4>1, <4>2, <4>3
    <3> QED BY <1>0, <1>2, <3>2
  <2>2. f <= BASE => fee <= p
    <3>1. f <= BASE => BaseMul(f, p) - BaseMul(f, 0) <= p - 0
      BY <1>2, FeeOfPrice
    <3>2. BaseMul(f, 0) = 0
      BY <1>2, BaseMulByZero
    <3> HIDE DEF f, p
    <3> QED BY <1>2, <1>3, <3>1, <3>2
  <2> HIDE DEF per, fee, f, p, negative
  <2>3. CASE order.isBuy /\ negative
    <3>1. (order.isBuy = negative) = TRUE
      BY <1>1, <2>3
    <3>2. per = p - fee
      BY <1>4, <3>1
    <3> QED BY <1>2, <1>3, <2>1, <2>2, <2>3, <3>2
  <2>4. CASE order.isBuy /\ ~negative
    <3>1. (order.isBuy = negative) = FALSE
      BY <1>1, <2>4
    <3>2. per = p + fee
      BY <1>4, <3>1
    <3> QED BY <1>2, <1>3, <3>2
  <2> QED BY <2>3, <2>4
<1>7. FillAmount(order, MakerTokens(order, n)) = n
  BY AmountFromTokens
<1>8. /\ Hashed(order) \in Order /\ Hashed(order).isBuy = order.isBuy
  BY ClientOrderTypes
<1>9. /\ per \in Int /\ limit = per
  BY <1>1, <1>2, <1>3, <1>4, <1>5
<1> HIDE DEF limit, per
<1>10. CASE per >= 0
  <2>1. delta = [marginDelta |-> IF order.isBuy THEN -BaseMul(n, per) ELSE BaseMul(n, per),
                 positionDelta |-> IF order.isBuy THEN n ELSE -n]
    BY <1>1, <1>10, PredictedUpdates DEF per
  <2>2. AtLeastZero(limit) = per
    BY <1>9, <1>10 DEF AtLeastZero
  <2>3. BaseMul(n, per) \in Nat
    BY <1>9, <1>10, BaseMulBounds
  <2>4. AtLimit(Hashed(order), n) = delta.marginDelta
    BY <1>8, <2>1, <2>2 DEF AtLimit, limit
  <2>5. delta.marginDelta \in Int
    BY <1>1, <2>1, <2>3
  <2>6. delta.positionDelta = Bought(Hashed(order), n)
    BY <1>8, <2>1 DEF Bought
  <2> HIDE DEF delta
  <2>7. delta.marginDelta <= AtLimit(Hashed(order), n)
    BY <2>4, <2>5
  <2> QED BY <1>7, <2>5, <2>6, <2>7 DEF delta
<1>11. CASE per < 0
  <2> DEFINE margin == Truncate(PARTS * (n * per), PARTS * BASE)
  <2>1. ~order.isBuy
    BY <1>6, <1>9, <1>11
  <2>2. delta = [marginDelta |-> margin, positionDelta |-> -n]
    BY <1>1, <2>1, PredictedMargin DEF per
  <2>3. margin \in Int /\ margin <= 0
    <3> DEFINE k == n * (-per)
               u == PARTS * BASE
    <3>1. k \in Nat /\ PARTS * k \in Nat /\ n * per = -k /\ PARTS * (n * per) = -(PARTS * k)
      BY <1>0, <1>9, <1>11, ProductNat
    <3>2. u \in Nat \ {0}
      BY <1>0
    <3> HIDE DEF k, u
    <3>3. ASSUME NEW e \in Nat
          PROVE  Truncate(-e, u) \in Int /\ Truncate(-e, u) <= 0
      <4>1. e \div u \in Nat /\ -(-e) = e
        BY <3>2
      <4>2. CASE e = 0
        <5>1. (-e) \div u = 0 /\ ~(-e < 0)
          BY <3>2, <4>2
        <5> QED BY <5>1 DEF Truncate
      <4>3. CASE e # 0
        <5>1. -e < 0
          BY <4>3
        <5> QED BY <4>1, <5>1 DEF Truncate
      <4> QED BY <4>2, <4>3
    <3>4. Truncate(-(PARTS * k), u) \in Int /\ Truncate(-(PARTS * k), u) <= 0
      BY <3>1, <3>3
    <3> QED BY <3>1, <3>4 DEF u
  <2>4. AtLimit(Hashed(order), n) = 0
    <3>1. AtLeastZero(limit) = 0
      BY <1>9, <1>11 DEF AtLeastZero
    <3>2. BaseMul(n, 0) = 0
      BY BaseMulByZero
    <3> QED BY <1>8, <2>1, <3>1, <3>2 DEF AtLimit, limit
  <2>5. -n = Bought(Hashed(order), n)
    BY <1>8, <2>1 DEF Bought
  <2> QED BY <1>7, <2>2, <2>3, <2>4, <2>5
<1> QED BY <1>9, <1>10, <1>11

\* More margin on the same position is at least as good a ratio (BigNumber's, rounded).
LEMMA QuotientMonotone ==
  ASSUME NEW a \in Nat, NEW b \in Nat, NEW c \in Nat \ {0}, NEW d \in Nat \ {0},
         a <= b, d <= c
  PROVE  Quotient(a, c) \in Nat /\ Quotient(a, c) <= Quotient(b, d)
<1> DEFINE R == RatioUnit
           q == Quotient(a, c)
           r == Quotient(b, d)
<1>1. R \in Nat \ {0}
  BY ClientTypesAssumption
<1>2. a * R \in Nat /\ b * R \in Nat /\ a * R <= b * R
  BY <1>1, ProductNat, ProductMonotone
<1> DEFINE x == a * R  y == b * R
<1>3. x \in Nat /\ y \in Nat /\ x <= y
  BY <1>2
<1>4. q = (2 * x + c) \div (2 * c) /\ r = (2 * y + d) \div (2 * d)
  <2>1. 2 * a * R = 2 * x /\ 2 * b * R = 2 * y
    BY <1>1
  <2> QED BY <2>1 DEF Quotient
<1> HIDE DEF R, q, r, x, y
<1>5. /\ q \in Nat /\ q * (2 * c) <= 2 * x + c
      /\ r \in Nat /\ 2 * y + d < r * (2 * d) + 2 * d
  <2>1. \A n \in Nat, k \in Nat \ {0} :
           /\ n \div k \in Nat
           /\ (n \div k) * k <= n /\ n < (n \div k) * k + k
    OBVIOUS
  <2>2. 2 * x + c \in Nat /\ 2 * c \in Nat \ {0} /\ 2 * y + d \in Nat /\ 2 * d \in Nat \ {0}
    BY <1>3
  <2> QED BY <1>4, <2>1, <2>2
<1>6. ASSUME q >= r + 1 PROVE FALSE
  <2>1. (2 * q - 1) * d <= (2 * q - 1) * c
    <3>1. 2 * q - 1 \in Nat
      BY <1>5, <1>6
    <3>2. d * (2 * q - 1) <= c * (2 * q - 1)
      BY <3>1, ProductMonotone
    <3> QED BY <3>1, <3>2
  <2>2. (2 * q - 1) * c = q * (2 * c) - c /\ (2 * q - 1) * d = q * (2 * d) - d
    BY <1>5
  <2>3. (r + 1) * (2 * d) <= q * (2 * d)
    BY <1>5, <1>6, ProductMonotone
  <2>4. (r + 1) * (2 * d) = r * (2 * d) + 2 * d
    BY <1>5
  <2>5. /\ q * (2 * c) \in Nat /\ q * (2 * d) \in Nat /\ r * (2 * d) \in Nat
    BY <1>5, ProductNat
  <2> QED BY <1>3, <1>5, <2>1, <2>2, <2>3, <2>4, <2>5
<1> QED BY <1>5, <1>6 DEF q, r

LEMMA MoreMargin ==
  ASSUME NEW m \in Int, NEW n \in Int, m <= n, NEW p \in Int, NEW price \in Nat
  PROVE  LET predicted == GetCollateralization([margin |-> m, position |-> p], price)
             reached == GetCollateralization([margin |-> n, position |-> p], price)
         IN  reached = Infinity \/ (predicted # Infinity /\ predicted <= reached)
<1> DEFINE part(v) == IF v > 0 THEN v ELSE 0
           v == p * price
           a == part(m * BASE) + part(v)
           c == part(-(m * BASE)) + part(-v)
           b == part(n * BASE) + part(v)
           d == part(-(n * BASE)) + part(-v)
<1>1. /\ m * BASE \in Int /\ n * BASE \in Int /\ v \in Int
      /\ m * BASE <= n * BASE
  <2>1. BASE \in Nat /\ n - m \in Nat
    BY BaseAssumption
  <2>2. (n - m) * BASE \in Nat /\ (n - m) * BASE = n * BASE - m * BASE
    BY <2>1, ProductNat
  <2> QED BY <2>1, <2>2
<1>2. /\ GetCollateralization([margin |-> m, position |-> p], price)
           = IF c = 0 THEN Infinity ELSE Quotient(a, c)
      /\ GetCollateralization([margin |-> n, position |-> p], price)
           = IF d = 0 THEN Infinity ELSE Quotient(b, d)
  BY DEF GetCollateralization, GetPositiveAndNegativeValues
<1> DEFINE x == m * BASE  y == n * BASE
<1>3. a \in Nat /\ b \in Nat /\ c \in Nat /\ d \in Nat /\ a <= b /\ d <= c
  <2>1. x \in Int /\ y \in Int /\ v \in Int /\ x <= y
    BY <1>1
  <2> HIDE DEF x, y, v
  <2>2. /\ part(x) + part(v) \in Nat /\ part(y) + part(v) \in Nat
        /\ part(-x) + part(-v) \in Nat /\ part(-y) + part(-v) \in Nat
        /\ part(x) + part(v) <= part(y) + part(v)
        /\ part(-y) + part(-v) <= part(-x) + part(-v)
    BY <2>1
  <2> QED BY <2>2 DEF x, y
<1> HIDE DEF a, b, c, d
<1>4. d # 0 => Quotient(a, c) \in Nat /\ Quotient(a, c) <= Quotient(b, d)
  BY <1>3, QuotientMonotone
<1> QED BY <1>2, <1>3, <1>4 DEF Infinity

\* The estimate of an account, from what it had when the call began.
LEMMA EstimateOfAccount ==
  ASSUME OrdersInv, TypeOK, EstimatesInv, status = Entered, Operator = {OrdersTrader},
         NEW account \in Elements(call.accounts), ~TakesInCall(account),
         \A order \in OrdersOf(account) : Estimable(order)
  PROVE  LET actual == BalanceFromSolidity(balances[account])
         IN  /\ actual.margin \in Int /\ actual.position \in Int
             /\ Estimate(account).margin \in Int
             /\ Estimate(account) = [margin |-> Estimate(account).margin,
                                     position |-> actual.position]
             /\ Estimate(account).margin
                  <= actual.margin + (IF OnlyBuys(account) THEN 0 ELSE call.trades)
<1> DEFINE i == CHOOSE k \in DOMAIN call.accounts : call.accounts[k] = account
           S == OrdersOf(account)
           before == transaction.filledAmount
           orders == [order \in S |-> order]
           amounts == [order \in S |-> MakerTokens(order, FilledInCall(order))]
           delta(o) == GetBalanceUpdatesAfterFillingOrder(
                           FillAmount(o, MakerTokens(o, FilledInCall(o))),
                           o.limitPrice, o.limitFee, o.isBuy)
           F == [o \in S |-> delta(o).marginDelta]
           G == [o \in S |-> delta(o).positionDelta]
           Q == MarginParts(account, filledAmount, before)
           P == PositionParts(account, filledAmount, before)
           initial == call.initial[i]
<1>1. /\ filledAmount \in [Order -> Nat] /\ before \in [Order -> Nat]
      /\ \A o \in Order : before[o] <= filledAmount[o]
  BY DEF OrdersInv, OrdersTypeOK, FilledAmounts, EstimatesInv
<1>2. i \in DOMAIN call.accounts /\ call.accounts[i] = account
  BY DEF Elements
<1>3. account \in Account /\ initial \in Balance
  <2>1. call.accounts \in AccountList /\ call.initial \in [DOMAIN call.accounts -> StoredBalance]
    BY DEF TypeOK, CallTypeOK
  <2> HIDE DEF i
  <2> QED BY <1>2, <2>1, AccountListType DEF StoredBalance
<1>4. Accounted(balances[account], initial, account, call.trades, filledAmount, before)
  <2> HIDE DEF i
  <2> QED BY <1>2 DEF EstimatesInv
<1>5. Estimate(account) = [margin |-> Margin(initial) + Total(F),
                           position |-> Position(initial) + Total(G)]
  <2>1. /\ DOMAIN orders = S
        /\ \A o \in S : orders[o] = o /\ amounts[o] = MakerTokens(o, FilledInCall(o))
    OBVIOUS
  <2> DEFINE delta2(k) == GetBalanceUpdatesAfterFillingOrder(
                              FillAmount(orders[k], amounts[k]),
                              orders[k].limitPrice, orders[k].limitFee, orders[k].isBuy)
  <2>2. Estimate(account)
          = [margin |-> BalanceFromSolidity(initial).margin
                          + Total([k \in DOMAIN orders |-> delta2(k).marginDelta]),
             position |-> BalanceFromSolidity(initial).position
                          + Total([k \in DOMAIN orders |-> delta2(k).positionDelta])]
    BY DEF Estimate, BalanceAfterMakingOrders
  <2>3. \A k \in S : delta2(k) = delta(k)
    BY <2>1
  <2> HIDE DEF delta, delta2, orders
  <2>4. /\ [k \in DOMAIN orders |-> delta2(k).marginDelta] = F
        /\ [k \in DOMAIN orders |-> delta2(k).positionDelta] = G
    BY <2>1, <2>3
  <2>5. /\ BalanceFromSolidity(initial).margin = Margin(initial)
        /\ BalanceFromSolidity(initial).position = Position(initial)
    BY DEF BalanceFromSolidity
  <2> QED BY <2>2, <2>4, <2>5
<1>6. /\ IsFiniteSet(S) /\ P \in [S -> Int] /\ Q \in [S -> Int]
      /\ Total(P) \in Int /\ Total(Q) \in Int
  BY <1>1, PartsTypes
<1>7. ASSUME NEW o \in S
      PROVE  /\ G[o] = P[o] /\ F[o] \in Int /\ F[o] <= Q[o]
  <2> DEFINE n == FilledInCall(o)
  <2>1. o \in ClientOrder /\ Hashed(o) \in Order /\ Estimable(o)
    BY ClientOrderTypes DEF OrdersOf
  <2>2. n \in Nat /\ n = filledAmount[Hashed(o)] - before[Hashed(o)]
    BY <1>1, <2>1 DEF FilledInCall
  <2>3. /\ P[o] = Bought(Hashed(o), n) /\ Q[o] = AtLimit(Hashed(o), n)
    BY <2>2 DEF PositionParts, MarginParts
  <2> HIDE DEF n
  <2>4. LET d == GetBalanceUpdatesAfterFillingOrder(FillAmount(o, MakerTokens(o, n)),
                     o.limitPrice, o.limitFee, o.isBuy)
        IN  /\ d.positionDelta = Bought(Hashed(o), n)
            /\ d.marginDelta \in Int /\ d.marginDelta <= AtLimit(Hashed(o), n)
    BY <2>1, <2>2, EstimateOfOrder
  <2> QED BY <2>3, <2>4 DEF n
<1>8. /\ F \in [S -> Int] /\ \A o \in S : F[o] <= Q[o]
      /\ G = P
  <2>1. G = [o \in S |-> G[o]] /\ F = [o \in S |-> F[o]] /\ P = [o \in S |-> P[o]]
    BY DEF PositionParts
  <2> HIDE DEF F, G, P, Q
  <2> QED BY <1>7, <2>1
<1> HIDE DEF F, G, P, Q, S, initial
<1>9. Total(F) \in Int /\ Total(F) <= Total(Q) /\ Total(G) = Total(P)
  BY <1>6, <1>8, TotalType, TotalMonotone
<1>10. /\ Position(initial) \in Int /\ Margin(initial) \in Int
       /\ Position(balances[account]) \in Int /\ Margin(balances[account]) \in Int
       /\ (IF OnlyBuys(account) THEN 0 ELSE call.trades) \in Nat
  <2>1. call.trades \in Nat
    BY TradesAssumption DEF TypeOK, CallTypeOK
  <2> QED BY <1>3, <2>1, StoredLedger, BalanceInt
<1>11. /\ Position(balances[account]) = Position(initial) + Total(P)
       /\ Margin(balances[account]) + (IF OnlyBuys(account) THEN 0 ELSE call.trades)
            >= Margin(initial) + Total(Q)
  BY <1>4 DEF Accounted, P, Q
<1> QED
  BY <1>5, <1>6, <1>9, <1>10, <1>11 DEF BalanceFromSolidity

\* However its orders are filled, the client never promises a maker more than it gets
\* (getAccountCollateralizationAfterMakingOrders of Orders.ts, trade() of P1Orders): the
\* rounding of an estimate and that of its parts differ by less than a unit per fill.
THEOREM EstimatesHold == OrdersSpec => []EstimatesAreConservative
<1>1. OrdersInit => EstimatesInv
  BY DEF OrdersInit, Init, EstimatesInv, Entered, NotEntered
<1>2. EstimatesInv /\ OrdersInv /\ IInv => EstimatesAreConservative
  <2> SUFFICES ASSUME EstimatesInv, OrdersInv, IInv, status = Entered, call.trades # 0,
                      Operator = {OrdersTrader},
                      NEW account \in Elements(call.accounts), ~TakesInCall(account),
                      \A order \in OrdersOf(account) : Estimable(order)
               PROVE  LET estimate == Estimate(account)
                          actual == BalanceFromSolidity(balances[account])
                          predicted == GetCollateralization(estimate, call.price)
                          reached == GetCollateralization(actual, call.price)
                      IN  /\ actual.position = estimate.position
                          /\ actual.margin + call.trades >= estimate.margin
                          /\ (\A order \in OrdersOf(account) : order.isBuy) =>
                                 reached = Infinity
                                   \/ (predicted # Infinity /\ predicted <= reached)
    BY DEF EstimatesAreConservative
  <2> DEFINE estimate == Estimate(account)
             actual == BalanceFromSolidity(balances[account])
             m == estimate.margin  n == actual.margin  p == actual.position
  <2>1. TypeOK
    BY DEF IInv
  <2>2. /\ n \in Int /\ p \in Int /\ m \in Int
        /\ estimate = [margin |-> m, position |-> p]
        /\ m <= n + (IF OnlyBuys(account) THEN 0 ELSE call.trades)
    BY <2>1, EstimateOfAccount
  <2>3. call.trades \in Nat /\ call.price \in Nat
    <3>1. call.trades \in 0..MaxTrades /\ call.price \in Price
      BY <2>1 DEF TypeOK, CallTypeOK
    <3>2. call.price \in Nat
      BY <3>1, MarketAssumption
    <3>3. call.trades \in Nat
      BY <3>1, TradesAssumption
    <3> QED BY <3>2, <3>3
  <2>4. actual = [margin |-> n, position |-> p]
    BY DEF BalanceFromSolidity
  <2> HIDE DEF estimate, actual, m, n, p
  <2>5. p = estimate.position
    BY <2>2
  <2>6. n + call.trades >= m
    BY <2>2, <2>3
  <2>7. ASSUME OnlyBuys(account)
        PROVE  LET predicted == GetCollateralization(estimate, call.price)
                   reached == GetCollateralization(actual, call.price)
               IN  reached = Infinity \/ (predicted # Infinity /\ predicted <= reached)
    <3>1. m <= n
      BY <2>2, <2>7
    <3> QED BY <2>2, <2>3, <2>4, <3>1, MoreMargin
  <2> QED BY <2>5, <2>6, <2>7 DEF OnlyBuys, estimate, actual, m, n, p
<1>3. OrdersSpec => [](OrdersInv /\ IInv)
  BY OrdersInvariant, OrdersImplement, InductiveInvariant, PTL
<1>4. EstimatesInv /\ OrdersInv /\ IInv /\ [OrdersNext]_allVars => EstimatesInv'
  BY StepEstimates
<1> QED
  BY <1>1, <1>2, <1>3, <1>4, PTL DEF OrdersSpec

-----------------------------------------------------------------------------
(* The net balance                                                          *)

\* Rounding a debit up is rounding down what is added (BaseMath.baseMulRoundUp).
LEMMA DebitIsFloor ==
  ASSUME NEW v \in Nat, NEW p \in Nat
  PROVE  (-(v * p)) \div BASE = -BaseMulRoundUp(v, p)
<1> DEFINE k == v * p
           q == BaseMulRoundUp(v, p)
<1>1. /\ k \in Nat /\ q \in Nat /\ BASE \in Nat \ {0}
      /\ k <= BASE * q /\ BASE * q < k + BASE
  BY ProductNat, BaseMulRoundUpBounds, BaseAssumption
<1> HIDE DEF k, q
<1>2. /\ -k \in Int /\ -q \in Int /\ BASE * q - k \in Int
      /\ -k = (-q) * BASE + (BASE * q - k)
      /\ 0 <= BASE * q - k /\ BASE * q - k < BASE
  BY <1>1
<1>3. (-k) \div BASE = -q
  BY <1>1, <1>2, QuotientIs
<1> QED
  BY <1>3 DEF k, q

\* The integer the code's sign and magnitude stand for, times a position.
LEMMA SignedProduct ==
  ASSUME NEW s \in SignedInt, NEW t \in SignedInt
  PROVE  ToInt(s) * (-ToInt(t)) =
             IF s.isPositive # t.isPositive THEN s.value * t.value
                                            ELSE -(s.value * t.value)
<1> DEFINE v == s.value
           w == t.value
<1>1. v \in Nat /\ w \in Nat /\ s.isPositive \in BOOLEAN /\ t.isPositive \in BOOLEAN
  BY DEF SignedInt
<1>2. /\ ToInt(s) = IF s.isPositive THEN v ELSE -v
      /\ ToInt(t) = IF t.isPositive THEN w ELSE -w
  BY DEF ToInt
<1> HIDE DEF v, w
<1>3. /\ v * w \in Nat /\ v * (-w) = -(v * w)
      /\ (-v) * (-w) = v * w /\ (-v) * w = -(v * w) /\ -(-w) = w
  BY <1>1
<1>4. ToInt(s) * (-ToInt(t)) = IF s.isPositive # t.isPositive THEN v * w ELSE -(v * w)
  <2>1. CASE s.isPositive /\ t.isPositive
    BY <1>1, <1>2, <1>3, <2>1
  <2>2. CASE s.isPositive /\ ~t.isPositive
    BY <1>1, <1>2, <1>3, <2>2
  <2>3. CASE ~s.isPositive /\ t.isPositive
    BY <1>1, <1>2, <1>3, <2>3
  <2>4. CASE ~s.isPositive /\ ~t.isPositive
    BY <1>1, <1>2, <1>3, <2>4
  <2> QED BY <1>1, <2>1, <2>2, <2>3, <2>4
<1> QED
  BY <1>4 DEF v, w

\* The client's net balance is what the contract would settle the balance to
\* (getNetAccountBalance against _settleAccount).
LEMMA NetBalanceExact ==
  ASSUME NEW b \in Balance, NEW x \in Index, NEW y \in Index,
         x.timestamp = y.timestamp => x = y
  PROVE  NetBalance(BalanceFromSolidity(b), BaseValueFromSolidity(y), BaseValueFromSolidity(x))
           = BalanceFromSolidity(SettledBalance(b, x, y))
<1> DEFINE d == SignedIndexDiff(x, y)
           s == SettledBalance(b, x, y)
           X == BaseValueFromSolidity(x)
           Y == BaseValueFromSolidity(y)
           credit == (Y - X) * (-Position(b))
<1>1. /\ d \in SignedInt /\ d.value \in Nat /\ ToInt(d) = Y - X
      /\ X \in Int /\ Y \in Int /\ Margin(b) \in Int /\ Position(b) \in Int
      /\ GetPosition(b) \in SignedInt /\ GetPosition(b).value = b.position
      /\ GetPosition(b).isPositive = b.positionIsPositive /\ b.position \in Nat
  <2>1. SignedIndex(x) \in SignedInt /\ SignedIndex(y) \in SignedInt
    BY SignedIndexType
  <2>2. d \in SignedInt /\ ToInt(d) = Y - X
    BY <2>1, SignedAddSubCorrect DEF SignedIndexDiff, BaseValueFromSolidity
  <2>3. X \in Int /\ Y \in Int
    BY SignedIndexType DEF BaseValueFromSolidity
  <2>4. d.value \in Nat
    BY <2>2 DEF SignedInt
  <2> QED BY <2>2, <2>3, <2>4, BalanceInt DEF Balance, GetPosition, SignedInt
<1>2. NetBalance(BalanceFromSolidity(b), Y, X)
        = [margin |-> Margin(b) + credit \div BASE, position |-> Position(b)]
  BY DEF NetBalance, BalanceFromSolidity
<1> SUFFICES Margin(s) = Margin(b) + credit \div BASE /\ Position(s) = Position(b)
  BY <1>2 DEF BalanceFromSolidity
<1>3. CASE x.timestamp = y.timestamp \/ b.position = 0
  <2>1. credit = 0
    BY <1>1, <1>3 DEF Position, GetPosition, ToInt
  <2>2. credit \div BASE = 0
    BY <2>1, BaseAssumption
  <2>3. s = b
    BY <1>3 DEF SettledBalance
  <2> QED BY <1>1, <2>2, <2>3
<1>4. CASE ~(x.timestamp = y.timestamp \/ b.position = 0)
  <2>1. credit = IF d.isPositive # b.positionIsPositive THEN d.value * b.position
                                                        ELSE -(d.value * b.position)
    BY <1>1, SignedProduct DEF Position
  <2>2. BaseMul(d.value, b.position) \in Nat /\ BaseMulRoundUp(d.value, b.position) \in Nat
    BY <1>1, BaseMulBounds, BaseMulRoundUpBounds
  <2>3. CASE d.isPositive # b.positionIsPositive
    <3>1. s = AddToMargin(b, BaseMul(d.value, b.position))
      BY <1>4, <2>3 DEF SettledBalance
    <3>2. credit \div BASE = BaseMul(d.value, b.position)
      BY <2>1, <2>3 DEF BaseMul
    <3> QED BY <2>2, <3>1, <3>2, MarginUpdates
  <2>4. CASE ~(d.isPositive # b.positionIsPositive)
    <3>1. s = SubFromMargin(b, BaseMulRoundUp(d.value, b.position))
      BY <1>4, <2>4 DEF SettledBalance
    <3>2. credit \div BASE = -BaseMulRoundUp(d.value, b.position)
      BY <1>1, <2>1, <2>4, DebitIsFloor
    <3>3. Margin(s) = Margin(b) - BaseMulRoundUp(d.value, b.position)
          /\ Position(s) = Position(b)
      BY <2>2, <3>1, MarginUpdates
    <3> QED BY <1>1, <2>2, <3>2, <3>3
  <2> QED BY <2>3, <2>4
<1> QED
  BY <1>3, <1>4

-----------------------------------------------------------------------------
(* The liquidatable status                                                  *)

\* The client's values of an account are the contract's (types.ts
\* getPositiveAndNegativeValues against P1BalanceMath.getPositiveAndNegativeValue).
LEMMA ClientValues ==
  ASSUME NEW b \in Balance, NEW price \in Nat
  PROVE  GetPositiveAndNegativeValues(BalanceFromSolidity(b), price)
           = [positiveValue |-> PositiveValue(b, price),
              negativeValue |-> NegativeValue(b, price)]
<1> DEFINE Part(value) == IF value > 0 THEN value ELSE 0
           m == b.margin * BASE
           p == b.position * price
<1>1. /\ b.margin \in Nat /\ b.position \in Nat /\ BASE \in Nat
      /\ b.marginIsPositive \in BOOLEAN /\ b.positionIsPositive \in BOOLEAN
      /\ m \in Nat /\ p \in Nat
  BY BaseAssumption, ProductNat DEF Balance
<1>2. /\ Margin(b) * BASE = IF b.marginIsPositive THEN m ELSE -m
      /\ Position(b) * price = IF b.positionIsPositive THEN p ELSE -p
  BY <1>1 DEF Margin, Position, GetMargin, GetPosition, ToInt
<1> HIDE DEF m, p
<1>3. /\ Part(Margin(b) * BASE) = IF b.marginIsPositive THEN m ELSE 0
      /\ Part(-(Margin(b) * BASE)) = IF b.marginIsPositive THEN 0 ELSE m
      /\ Part(Position(b) * price) = IF b.positionIsPositive THEN p ELSE 0
      /\ Part(-(Position(b) * price)) = IF b.positionIsPositive THEN 0 ELSE p
  BY <1>1, <1>2
<1> HIDE DEF Part
<1>4. GetPositiveAndNegativeValues(BalanceFromSolidity(b), price)
        = [positiveValue |-> Part(Margin(b) * BASE) + Part(Position(b) * price),
           negativeValue |-> Part(-(Margin(b) * BASE)) + Part(-(Position(b) * price))]
  BY DEF GetPositiveAndNegativeValues, BalanceFromSolidity, Part
<1> QED
  BY <1>3, <1>4 DEF PositiveValue, NegativeValue, m, p

\* A rounded quotient below the requirement means the exact one is below it: the
\* units in which the client rounds divide the requirement.
LEMMA RoundedBelow ==
  ASSUME NEW pos \in Nat, NEW neg \in Nat \ {0}, NEW req \in Nat,
         Quotient(pos, neg) * BASE < req * RatioUnit
  PROVE  pos * BASE < neg * req
<1> DEFINE q == Quotient(pos, neg)
           k == RatioUnit \div BASE
<1>1. k \in Nat \ {0} /\ RatioUnit = k * BASE /\ BASE \in Nat \ {0} /\ RatioUnit \in Nat
  BY ClientTypesAssumption, BaseAssumption
<1>2. q \in Int /\ 2 * pos * RatioUnit + neg < 2 * neg * q + 2 * neg
  <2> DEFINE n == 2 * pos * RatioUnit + neg
             d == 2 * neg
  <2>1. n \in Int /\ d \in Nat \ {0} /\ q = n \div d
    BY <1>1 DEF Quotient
  <2> HIDE DEF n, d
  <2>2. n \div d \in Int /\ n < d * (n \div d) + d
    BY <2>1
  <2>3. q \in Int /\ n < d * q + d
    BY <2>1, <2>2
  <2> QED BY <2>3 DEF n, d
<1> HIDE DEF q, k
<1>3. q + 1 <= req * k
  <2>1. q * BASE < (req * k) * BASE
    BY <1>1, <1>2 DEF q
  <2>2. req * k \in Nat
    BY <1>1, ProductNat
  <2> HIDE DEF q
  <2>3. q < req * k
    <3> SUFFICES ASSUME req * k <= q PROVE FALSE
      BY <1>2, <2>2
    <3>1. (req * k) * BASE <= q * BASE
      BY <1>1, <1>2, <2>2, ProductMonotone
    <3> QED BY <1>1, <1>2, <2>1, <2>2, <3>1
  <2> QED BY <1>2, <2>2, <2>3
<1>4. SUFFICES ASSUME neg * req <= pos * BASE PROVE FALSE
  BY <1>1
<1>5. (neg * req) * k <= (pos * BASE) * k
  BY <1>1, <1>4, ProductNat, ProductMonotone
<1>6. neg * (q + 1) <= neg * (req * k)
  <2> DEFINE r == req * k
  <2>1. r \in Nat /\ q + 1 <= r /\ q + 1 \in Int
    BY <1>1, <1>2, <1>3, ProductNat
  <2> HIDE DEF r
  <2>2. (r - (q + 1)) \in Nat
    BY <2>1
  <2>3. neg * (r - (q + 1)) \in Nat /\ neg * (r - (q + 1)) = neg * r - neg * (q + 1)
    BY <2>1, <2>2, ProductNat
  <2>4. neg * (q + 1) <= neg * r
    BY <2>1, <2>3
  <2> QED BY <2>4 DEF r
<1>7. /\ neg * (req * k) = (neg * req) * k
      /\ 2 * pos * RatioUnit = 2 * ((pos * BASE) * k)
      /\ 2 * neg * q + 2 * neg = 2 * (neg * (q + 1))
  BY <1>1, <1>2
<1>8. /\ (pos * BASE) * k \in Int /\ (neg * req) * k \in Int /\ neg * (q + 1) \in Int
  BY <1>1, <1>2
<1> QED
  BY <1>2, <1>5, <1>6, <1>7, <1>8

\* An account the client calls liquidatable is not collateralized for the contract
\* (getNetAccountIsLiquidatable against _isCollateralized).
LEMMA LiquidatableIsShort ==
  ASSUME NEW b \in Balance, NEW price \in Nat, NEW requirement \in Nat,
         IsLiquidatable(BalanceFromSolidity(b), price, requirement)
  PROVE  ~IsCollateralized(b, price, requirement)
<1> DEFINE pos == PositiveValue(b, price)
           neg == NegativeValue(b, price)
<1>1. pos \in Nat /\ neg \in Nat
  BY ValueSplit
<1>2. GetCollateralization(BalanceFromSolidity(b), price)
        = IF neg = 0 THEN Infinity ELSE Quotient(pos, neg)
  BY ClientValues DEF GetCollateralization
<1>3. neg # 0 /\ Quotient(pos, neg) * BASE < requirement * RatioUnit
  BY <1>2 DEF IsLiquidatable
<1>4. pos * BASE < neg * requirement
  BY <1>1, <1>3, RoundedBelow
<1>5. pos * BASE \in Int /\ neg * requirement \in Int
  BY <1>1, BaseAssumption
<1> QED
  BY <1>4, <1>5 DEF IsCollateralized

-----------------------------------------------------------------------------
(* The words of the logs                                                    *)

\* The field of a number and its sign.
SignedFieldOf(s, width) == Flag(s.isPositive) * (width + 1) + s.value

\* A number and its sign can be told apart again (Logs.parseBalance,
\* Logs.parseIndex).
LEMMA SignedWord ==
  ASSUME NEW width \in Nat, NEW s \in SignedInt, s.value <= width
  PROVE  /\ SignedFieldOf(s, width) \in Nat /\ SignedField(width) \in Nat \ {0}
         /\ SignedFieldOf(s, width) < SignedField(width)
         /\ ParseSigned(SignedFieldOf(s, width), width) = ToInt(s)
<1> DEFINE w == width + 1
           flag == Flag(s.isPositive)
           value == s.value
           field == SignedFieldOf(s, width)
<1>1. /\ w \in Nat \ {0} /\ flag \in {0, 1} /\ flag \in Nat /\ value \in Nat
      /\ 0 <= value /\ value < w
      /\ flag # 0 <=> s.isPositive
      /\ SignedField(width) = 256 * w
  BY DEF Flag, SignedField, Byte, SignedInt
<1>2. field = flag * w + value
  BY DEF SignedFieldOf
<1> HIDE DEF w, flag, value, field
<1>3. field \in Nat /\ field < 256 * w /\ 256 * w \in Nat \ {0}
  BY <1>1, <1>2
<1>4. field \div w = flag /\ field % w = value
  <2>1. field \in Int /\ flag \in Int /\ value \in Int
    BY <1>1, <1>3
  <2> QED BY <1>1, <1>2, <2>1, QuotientIs
<1>5. ParseSigned(field, width) = IF flag # 0 THEN value ELSE -value
  BY <1>4 DEF ParseSigned, w
<1>6. ParseSigned(field, width) = ToInt(s)
  BY <1>1, <1>5 DEF ToInt, value
<1>7. field < SignedField(width) /\ SignedField(width) \in Nat \ {0}
  BY <1>1, <1>3
<1> QED
  BY <1>3, <1>6, <1>7 DEF field

\* Two fields of a word can be told apart again.
LEMMA TwoFields ==
  ASSUME NEW d \in Nat \ {0}, NEW high \in Nat, NEW low \in Nat, low < d,
         NEW word, word = high * d + low
  PROVE  word \div d = high /\ word % d = low
<1>1. word \in Int /\ 0 <= low
  BY ProductNat
<1> QED
  BY <1>1, QuotientIs

\* The word of a balance holds the balance (Logs.parseBalance).
LEMMA BalanceWord ==
  ASSUME NEW b \in Balance, FitsBalance(b)
  PROVE  ParseBalance(BalanceToBytes32(b)) = BalanceFromSolidity(b)
<1> DEFINE w == MAX_UINT120
           high == SignedFieldOf(GetMargin(b), w)
           low == SignedFieldOf(GetPosition(b), w)
           d == SignedField(w)
<1>1. /\ w \in Nat /\ GetMargin(b) \in SignedInt /\ GetPosition(b) \in SignedInt
      /\ GetMargin(b).value <= w /\ GetPosition(b).value <= w
  BY Uint120Assumption DEF Balance, FitsBalance, GetMargin, GetPosition, SignedInt
<1>2. /\ high \in Nat /\ d \in Nat \ {0} /\ ParseSigned(high, w) = Margin(b)
  BY <1>1, SignedWord DEF Margin
<1>3. /\ low \in Nat /\ low < d /\ ParseSigned(low, w) = Position(b)
  BY <1>1, SignedWord DEF Position
<1>4. BalanceToBytes32(b) = high * d + low
  <2> DEFINE sign == Flag(b.positionIsPositive) * (w + 1)
  <2>1. BalanceToBytes32(b) = high * d + sign + b.position
    BY DEF BalanceToBytes32, SignedFieldOf, GetMargin
  <2>2. sign \in Int /\ b.position \in Int /\ low = sign + b.position
    BY <1>1 DEF SignedFieldOf, GetPosition, Flag, Balance
  <2>3. high * d \in Int
    BY <1>2, ProductNat
  <2> HIDE DEF high, low, d, sign
  <2> QED BY <2>1, <2>2, <2>3
<1> HIDE DEF high, low, d
<1>5. BalanceToBytes32(b) \div d = high /\ BalanceToBytes32(b) % d = low
  BY <1>2, <1>3, <1>4, TwoFields
<1>6. ParseBalance(BalanceToBytes32(b))
        = [margin |-> ParseSigned(high, w), position |-> ParseSigned(low, w)]
  BY <1>5 DEF ParseBalance, d
<1> QED
  BY <1>2, <1>3, <1>6 DEF BalanceFromSolidity

\* The word of an index holds the index (Logs.parseIndex).
LEMMA IndexWord ==
  ASSUME NEW index \in Index, FitsIndex(index)
  PROVE  ParseIndex(IndexToBytes32(index))
           = [timestamp |-> index.timestamp, baseValue |-> BaseValueFromSolidity(index)]
<1> DEFINE w == MAX_UINT128
           low == SignedFieldOf(SignedIndex(index), w)
           d == SignedField(w)
<1>1. /\ w \in Nat /\ index.timestamp \in Nat /\ SignedIndex(index) \in SignedInt
      /\ SignedIndex(index).value <= w
  BY IndexWidthAssumption, SignedIndexType DEF Index, FitsIndex, SignedIndex
<1>2. /\ low \in Nat /\ d \in Nat \ {0} /\ low < d
      /\ ParseSigned(low, w) = BaseValueFromSolidity(index)
  BY <1>1, SignedWord DEF BaseValueFromSolidity
<1>3. IndexToBytes32(index) = index.timestamp * d + low
  <2> DEFINE sign == Flag(index.isPositive) * (w + 1)
  <2>1. IndexToBytes32(index) = index.timestamp * d + sign + index.value
    BY DEF IndexToBytes32
  <2>2. sign \in Int /\ index.value \in Int /\ low = sign + index.value
    BY <1>1 DEF SignedFieldOf, SignedIndex, Flag, Index
  <2>3. index.timestamp * d \in Int
    BY <1>1, <1>2, ProductNat
  <2> HIDE DEF low, d, sign
  <2> QED BY <2>1, <2>2, <2>3
<1> HIDE DEF low, d
<1>4. IndexToBytes32(index) \div d = index.timestamp /\ IndexToBytes32(index) % d = low
  BY <1>1, <1>2, <1>3, TwoFields
<1>5. ParseIndex(IndexToBytes32(index))
        = [timestamp |-> index.timestamp, baseValue |-> ParseSigned(low, w)]
  BY <1>4 DEF ParseIndex, d
<1> QED
  BY <1>2, <1>5

-----------------------------------------------------------------------------
(* The reads                                                                *)

\* A read that names a block is exact, whenever the books balance.
LEMMA BlockReads ==
  ASSUME IInv
  PROVE  BlockReadsExact
<1> SUFFICES ASSUME NEW account \in ReadAccount
             PROVE  LET exact == Settled(account, globalIndex)
                    IN  /\ NetAccountBalanceOfBlock(account) = BalanceFromSolidity(exact)
                        /\ NetAccountIsLiquidatableOfBlock(account) =>
                               ~IsCollateralized(exact, prices[oracle], minCollateral)
                        /\ ParseBalance(BalanceToBytes32(balances[account]))
                               = BalanceFromSolidity(balances[account])
                        /\ \A index \in {globalIndex, localIndexes[account]} :
                               ParseIndex(IndexToBytes32(index)) =
                                   [timestamp |-> index.timestamp,
                                    baseValue |-> BaseValueFromSolidity(index)]
  BY DEF BlockReadsExact
<1> DEFINE exact == Settled(account, globalIndex)
<1>1. TypeOK /\ InSync(localIndexes, globalIndex) /\ account \in Account
  BY GettersAssumption DEF IInv, BooksBalance
<1>2. /\ balances[account] \in Balance /\ FitsBalance(balances[account])
      /\ localIndexes[account] \in Index /\ FitsIndex(localIndexes[account])
      /\ globalIndex \in Index /\ FitsIndex(globalIndex)
      /\ prices[oracle] \in Nat /\ minCollateral \in Nat
  BY <1>1, MarketAssumption, CollateralAssumption
     DEF TypeOK, StoredBalances, StoredBalance, StoredIndexes, StoredIndex
<1>3. localIndexes[account].timestamp = globalIndex.timestamp
        => localIndexes[account] = globalIndex
  BY <1>1 DEF InSync
<1>4. exact \in Balance
  BY <1>1, <1>2, SettledTypes
<1>5. NetAccountBalanceOfBlock(account) = BalanceFromSolidity(exact)
  BY <1>2, <1>3, NetBalanceExact DEF NetAccountBalanceOfBlock, Settled
<1>6. NetAccountIsLiquidatableOfBlock(account) =>
          ~IsCollateralized(exact, prices[oracle], minCollateral)
  BY <1>2, <1>4, <1>5, LiquidatableIsShort DEF NetAccountIsLiquidatableOfBlock
<1> QED
  BY <1>2, <1>5, <1>6, BalanceWord, IndexWord

\* What the client holds between two calls of a read: the balance it was given first,
\* and, once it knows the global index, what the contract would then have settled to.
ReaderInv ==
    /\ reader.pc \in {"idle", "balance", "index"}
    /\ reader.pc = "balance" =>
          /\ reader.account \in ReadAccount
          /\ reader.balance = witness.first[1]
    /\ reader.pc = "index" =>
          /\ reader.account \in ReadAccount
          /\ reader.balance = witness.first[1]
          /\ witness.second[1] \in Balance
          /\ witness.second[2] \in Index /\ reader.globalIndex \in Index
          /\ witness.second[2].timestamp = reader.globalIndex.timestamp
                => witness.second[2] = reader.globalIndex
          /\ witness.exact = SettledBalance(witness.second[1], witness.second[2],
                                            reader.globalIndex)

GettersIInv == IInv /\ ReaderInv

LEMMA ReaderStepInv ==
  ASSUME IInv, ReaderInv, ReaderStep
  PROVE  ReaderInv' /\ UNCHANGED vars
<1>1. CASE \E account \in ReadAccount : ReadBalance(account)
  BY <1>1 DEF ReadBalance, ReaderInv, Stored
<1>2. CASE ReadGlobalIndex
  <2> DEFINE a == reader.account
             x == localIndexes[a]
  <2>1. /\ reader' = [pc |-> "index", account |-> a, balance |-> reader.balance,
                      globalIndex |-> globalIndex]
        /\ witness' = [first |-> witness.first, second |-> <<balances[a], x>>,
                       exact |-> SettledBalance(balances[a], x, globalIndex)]
        /\ reader.pc = "balance" /\ UNCHANGED vars
    BY <1>2 DEF ReadGlobalIndex, Stored, Settled
  <2>2. a \in ReadAccount /\ a \in Account /\ reader.balance = witness.first[1]
    BY <2>1, GettersAssumption DEF ReaderInv
  <2>3. /\ balances[a] \in Balance /\ x \in Index /\ globalIndex \in Index
        /\ x.timestamp = globalIndex.timestamp => x = globalIndex
    BY <2>2 DEF IInv, BooksBalance, InSync, TypeOK, StoredBalances, StoredBalance,
                StoredIndexes, StoredIndex
  <2> HIDE DEF a, x
  <2> QED BY <2>1, <2>2, <2>3 DEF ReaderInv
<1>3. CASE ReadLocalIndex
  BY <1>3 DEF ReadLocalIndex, ReaderInv, NoRead
<1> QED
  BY <1>1, <1>2, <1>3 DEF ReaderStep

\* While a client reads, the contract keeps its invariants and the client what it was
\* told (the reads change nothing).
THEOREM GettersInvariant == GettersSpec => []GettersIInv
<1>1. GettersInit => GettersIInv
  BY InitIInv DEF GettersInit, GettersIInv, ReaderInit, ReaderInv, NoRead
<1>2. GettersIInv /\ [GettersNext]_gettersVars => GettersIInv'
  <2> SUFFICES ASSUME IInv, ReaderInv, [GettersNext]_gettersVars PROVE IInv' /\ ReaderInv'
    BY DEF GettersIInv
  <2>1. CASE ReaderStep
    <3>1. [Next]_vars
      BY <2>1, ReaderStepInv
    <3> QED BY <2>1, <3>1, ReaderStepInv, NextIInv
  <2>2. CASE [Next]_vars /\ UNCHANGED readerVars
    <3>1. ReaderInv'
      BY <2>2 DEF readerVars, ReaderInv
    <3> QED BY <2>2, <3>1, NextIInv
  <2> QED BY <2>1, <2>2 DEF GettersNext, gettersVars
<1> QED
  BY <1>1, <1>2, PTL DEF GettersSpec

\* A read that names a block tells the net balance the contract would settle to, calls
\* no account liquidatable that is collateralized, and finds in the logs what the view
\* functions say (Getters.ts, Logs.ts, types.ts).
THEOREM BlockReadsAreExact == GettersSpec => []BlockReadsExact
BY GettersInvariant, BlockReads, PTL DEF GettersIInv

\* A read of the latest block that saw one and the same storage of the account is
\* exact, whatever the contract did between its calls (getNetAccountBalance).
THEOREM LatestReadsAreExact == GettersSpec => LatestReadsExactUnlessSettled
<1> DEFINE Exact ==
        ReadLocalIndex /\ {witness.first, witness.second} = {Stored(reader.account)}
          => Answer = BalanceFromSolidity(witness.exact)
<1>1. ReaderInv => Exact
  <2> SUFFICES ASSUME ReaderInv, ReadLocalIndex,
                      {witness.first, witness.second} = {Stored(reader.account)}
               PROVE  Answer = BalanceFromSolidity(witness.exact)
    OBVIOUS
  <2> DEFINE a == reader.account
             b == balances[a]
             x == localIndexes[a]
             y == reader.globalIndex
  <2>1. /\ witness.first = <<b, x>> /\ witness.second = <<b, x>>
    BY DEF Stored
  <2>2. /\ reader.balance = witness.first[1] /\ witness.second[1] \in Balance
        /\ witness.second[2] \in Index /\ y \in Index
        /\ witness.second[2].timestamp = y.timestamp => witness.second[2] = y
        /\ witness.exact = SettledBalance(witness.second[1], witness.second[2], y)
    BY DEF ReadLocalIndex, ReaderInv
  <2>3. /\ reader.balance = b /\ b \in Balance /\ x \in Index
        /\ x.timestamp = y.timestamp => x = y
        /\ witness.exact = SettledBalance(b, x, y)
    BY <2>1, <2>2
  <2> QED
    BY <2>2, <2>3, NetBalanceExact DEF Answer
<1>2. GettersIInv /\ [GettersNext]_gettersVars => [Exact]_gettersVars
  BY <1>1 DEF GettersIInv
<1> QED
  BY <1>2, GettersInvariant, PTL DEF GettersSpec, LatestReadsExactUnlessSettled
=============================================================================
