--------------------------- MODULE OrderEstimates ---------------------------
(***************************************************************************)
(* The client's orders (ClientOrders) on the P1Orders contract (P1Orders):  *)
(* what the client predicts of a fill, and of a sequence of orders, against *)
(* what the contract does to the maker.                                     *)
(***************************************************************************)
EXTENDS P1Orders, ClientOrders

CONSTANTS ClientOrder, ClientFill   \* what callers pass to the client

ASSUME OrderEstimatesAssumption ==
    /\ \A order \in ClientOrder : IsClientOrder(order)
    /\ Order = {OrderToSolidity(order) : order \in ClientOrder}
    /\ Fill = {FillToSolidity(fill) : fill \in ClientFill}
    /\ \A fill \in ClientFill : fill.amount \in Nat /\ {fill.price, fill.fee} \subseteq BaseValue
    \* Salts differ enough for the hashes to differ.
    /\ \A o1, o2 \in ClientOrder : OrderToSolidity(o1) = OrderToSolidity(o2) => o1 = o2

Hashed(order) == OrderToSolidity(order)

\* The contract can hold the value: it is not rounded on the way.
Representable(baseValue) == baseValue.value % PARTS = 0

-----------------------------------------------------------------------------
(* Properties                                                               *)

\* A fill does to the maker's balance exactly what the client predicted with
\* getBalanceUpdatesAfterFillingOrder ("Calculate the effect of filling an
\* order on the maker's balances"), for the price and the fee of the fill.
FillsAsPredicted ==
    [][\A order \in ClientOrder : Filled(Hashed(order)) /\ balances' # balances =>
          \A fill \in ClientFill, maker, taker \in DOMAIN call.accounts :
              /\ call.accounts[maker] = order.maker
              /\ filledAmount'[Hashed(order)] = filledAmount[Hashed(order)] + fill.amount
              /\ Representable(fill.price) /\ Representable(fill.fee)
              /\ OrderTrade(Hashed(order), FillToSolidity(fill), maker, taker)
              => LET before == BalanceFromSolidity(balances[order.maker])
                     after == BalanceFromSolidity(balances[order.maker])'
                     updates == GetBalanceUpdatesAfterFillingOrder(
                                    fill.amount, fill.price, fill.fee, order.isBuy)
                 IN  after = [margin |-> before.margin + updates.marginDelta,
                              position |-> before.position + updates.positionDelta]
      ]_allVars

FilledInCall(order) == filledAmount[Hashed(order)] - transaction.filledAmount[Hashed(order)]

TakesInCall(account) ==
    \E order \in Order :
        takenAmount[order][account] # transaction.takenAmount[order][account]

OrdersOf(account) == {order \in ClientOrder : order.maker = account}

\* The contract can hold the limits.  The client divides by the price of a buy
\* order, and no fill pays a rebate of more than 100%.
Estimable(order) ==
    /\ Representable(order.limitPrice) /\ Representable(order.limitFee)
    /\ order.isBuy => /\ order.limitPrice.value # 0
                      /\ order.limitFee.isNegative => order.limitFee.value <= PARTS * BASE

\* What the client would have said of the account's orders before the call: the
\* parts of them that were filled, each at its limits.
Estimate(account) ==
    LET i == CHOOSE k \in DOMAIN call.accounts : call.accounts[k] = account
    IN  BalanceAfterMakingOrders(BalanceFromSolidity(call.initial[i]),
            [order \in OrdersOf(account) |-> order],
            [order \in OrdersOf(account) |-> MakerTokens(order, FilledInCall(order))])

\* However the orders of a maker are filled, in how many parts and at which
\* prices and fees, getAccountCollateralizationAfterMakingOrders does not promise
\* more than the maker gets: the position is the same, the margin at least that,
\* but for the rounding of each fill, and a maker that only buys, where nothing
\* is lost by rounding, is at least as well collateralized.
EstimatesAreConservative ==
    status = Entered /\ call.trades # 0 /\ Operator = {OrdersTrader} =>
        \A account \in Elements(call.accounts) :
            LET estimate == Estimate(account)
                actual == BalanceFromSolidity(balances[account])
                predicted == GetCollateralization(estimate, call.price)
                reached == GetCollateralization(actual, call.price)
            IN  ~TakesInCall(account) /\ (\A order \in OrdersOf(account) : Estimable(order))
                => /\ actual.position = estimate.position
                   /\ actual.margin + call.trades >= estimate.margin
                   /\ (\A order \in OrdersOf(account) : order.isBuy) =>
                          reached = Infinity \/ (predicted # Infinity /\ predicted <= reached)
=============================================================================
