------------------------- MODULE MCP1LiquidatorProxy -------------------------
(***************************************************************************)
(* Instances of P1LiquidatorProxy for TLC.                                  *)
(***************************************************************************)
EXTENDS ProxyLedger

CONSTANTS o1, f1, t1, t2, p1

LongsPay == {[value |-> 1, isPositive |-> TRUE]}
Limits   == [value : {1, 2}, isPositive : BOOLEAN]

NoPositions == \A account \in Account : Position(balances[account]) = 0

\* What the accounts of the runs deposit, and the trades that open positions: the
\* first account buys two units of position from the second.
Deposits(account) == CASE account = 1 -> {1} [] account = 2 -> {7, 8} [] OTHER -> {2}
OpeningMargins    == {3, 4}

\* Before there are positions: the contracts are configured, then accounts deposit
\* once, then the first two trade.
OpeningStep ==
    \/ status = NotEntered /\ tokens = 0 /\ ProxyConfigStep
    \/ /\ \/ /\ tokens = 0
             /\ \E operator \in Operator : SetGlobalOperator(operator, TRUE)
          \/ /\ globalOperators = Operator
             /\ \E account \in Account : \E amount \in Deposits(account) :
                   balances[account] = ZeroBalance /\ Deposit(account, amount)
       /\ UNCHANGED <<liquidationVars, proxyVars>>
    \/ /\ \A account \in {1, 2} : balances[account] # ZeroBalance
       /\ BeginTransaction(t2, <<1, 2>>)
       /\ UNCHANGED proxyVars

\* The trade that opens the positions.
OpeningTrade ==
    /\ Idle
    /\ \/ /\ \E marginAmount \in OpeningMargins :
                TradeStep(t2, 2, 1, marginAmount, 2, TRUE)
          /\ liquidated' = 0 /\ touched' = {1, 2}
          /\ UNCHANGED sender
       \/ EndTransaction \/ RevertTransaction
    /\ UNCHANGED proxyVars

\* Prices and time change, and the proxy is used.
LiquidationsNext ==
    \/ NoPositions /\ Idle /\ OpeningStep
    \/ OpeningTrade
    \/ /\ status = NotEntered /\ Idle
       /\ Tick \/ \E o \in Oracle, price \in Price : ChangePrice(o, price)
       /\ UNCHANGED <<liquidationVars, proxyVars>>
    \/ (~NoPositions \/ ~Idle) /\ LiquidateStep

LiquidationsSpec == ProxyInit /\ [][LiquidationsNext]_<<allVars, proxyVars>>
=============================================================================
