---------------------------- MODULE P1Liquidation ----------------------------
(***************************************************************************)
(* v1/traders/P1Liquidation.sol as a trader of PerpetualV1: an account      *)
(* below the requirement hands over a part of its position, and the same    *)
(* part of its margin, to a liquidator.                                     *)
(*                                                                          *)
(* The contract stores nothing; what it computes depends on the balance it  *)
(* reads in the middle of trade(). Other traders may be used in the same    *)
(* call, before and after it.                                               *)
(***************************************************************************)
EXTENDS PerpetualV1

CONSTANT Liquidation    \* address of the contract

ASSUME LiquidationAssumption == Liquidation \in Operator

VARIABLES
    sender,     \* sender of the trade() being executed
    liquidated, \* history: the account the last trade of it liquidated, by its
                \* position in call.accounts, or 0
    touched     \* history: the accounts that took another part in its trades

liquidationVars == <<sender, liquidated, touched>>
allVars         == <<vars, liquidationVars>>

NoSender == 0   \* address 0 never sends

-----------------------------------------------------------------------------
(* trade()                                                                  *)

\* lib/Math.sol; SafeMath rejects a denominator of zero.
GetFraction(target, numerator, denominator) == (target * numerator) \div denominator

GetFractionRoundUp(target, numerator, denominator) ==
    IF target = 0 \/ numerator = 0 THEN 0
    ELSE (target * numerator - 1) \div denominator + 1

\* Mutation of IsUndercollateralized: an account that just meets the requirement.
IsNotAboveRequirement(balance, price) ==
    PositiveValue(balance, price) * BASE <= NegativeValue(balance, price) * minCollateral

IsUndercollateralized(balance, price) ==
    PositiveValue(balance, price) * BASE < NegativeValue(balance, price) * minCollateral

\* _verifyTrade, but for allOrNothing.
VerifyTrade(balance, isBuy, price) ==
    /\ IsUndercollateralized(balance, price)
    /\ isBuy = balance.positionIsPositive
    /\ \/ balance.marginIsPositive \/ balance.margin = 0
       \/ balance.positionIsPositive \/ balance.position = 0

\* Mutation of MakerBalanceRead: the balance trade() started with.
MakerBalanceStarted(maker) == call.initial[maker]

\* What getAccountBalance returns in the middle of trade().
MakerBalanceRead(maker) == balances[call.accounts[maker]]

\* Mutation of MarginAmount: rounded in favor of the liquidator.
MarginAmountForTaker(balance, amount, isBuy) ==
    IF isBuy THEN GetFraction(balance.margin, amount, balance.position)
             ELSE GetFractionRoundUp(balance.margin, amount, balance.position)

\* The part of the margin that goes with the part of the position.
MarginAmount(balance, amount, isBuy) ==
    IF isBuy THEN GetFractionRoundUp(balance.margin, amount, balance.position)
             ELSE GetFraction(balance.margin, amount, balance.position)

\* Mutation of PositionAmount: not bounded by the position of the maker.
PositionAmountAsked(balance, amount) == amount

PositionAmount(balance, amount) ==
    IF amount < balance.position THEN amount ELSE balance.position

\* One iteration of the loop of PerpetualV1.trade() with this trader: maker and
\* taker are positions in call.accounts, and Amount bounds the result as it does
\* that of any trader.
LiquidationTrade(amount, isBuy, allOrNothing, maker, taker) ==
    LET balance        == MakerBalanceRead(maker)
        positionAmount == PositionAmount(balance, amount)
        marginAmount   == MarginAmount(balance, positionAmount, isBuy)
    IN  /\ status = Entered
        /\ sender \in globalOperators
        /\ VerifyTrade(balance, isBuy, call.price)
        /\ allOrNothing => balance.position >= amount
        /\ balance.position # 0
        /\ {marginAmount, positionAmount} \subseteq Amount
        /\ TradeStep(Liquidation, maker, taker, marginAmount, positionAmount, isBuy)
        /\ liquidated' = maker
        /\ touched' = touched \union {taker}
        /\ UNCHANGED sender

-----------------------------------------------------------------------------
(* The functions of PerpetualV1                                             *)

LiquidationInit ==
    /\ Init
    /\ sender = NoSender /\ liquidated = 0 /\ touched = {}

BeginTransaction(by, accounts) ==
    /\ TradeBegin(accounts)
    /\ sender' = by
    /\ UNCHANGED <<liquidated, touched>>

EndTransaction ==
    /\ TradeEnd
    /\ sender' = NoSender /\ liquidated' = 0 /\ touched' = {}

RevertTransaction ==
    /\ TradeRevert
    /\ sender' = NoSender /\ liquidated' = 0 /\ touched' = {}

\* A trade with another trader.
OtherTrade ==
    \E trader \in Operator \ {Liquidation}, maker, taker \in DOMAIN call.accounts,
       marginAmount, positionAmount \in Amount, isBuy \in BOOLEAN :
        /\ TradeStep(trader, maker, taker, marginAmount, positionAmount, isBuy)
        /\ liquidated' = 0
        /\ touched' = touched \union {maker, taker}
        /\ UNCHANGED sender

\* What else happens to PerpetualV1.
OtherStep ==
    /\ MarginStep \/ FinalSettlementStep \/ AdminStep \/ OperatorStep \/ WorldStep
    /\ UNCHANGED liquidationVars

TransactionStep ==
    \/ \E by \in Account \union Operator, accounts \in AccountList :
           BeginTransaction(by, accounts)
    \/ \E amount \in Amount, isBuy, allOrNothing \in BOOLEAN,
          maker, taker \in DOMAIN call.accounts :
           LiquidationTrade(amount, isBuy, allOrNothing, maker, taker)
    \/ OtherTrade
    \/ EndTransaction \/ RevertTransaction

LiquidationNext == TransactionStep \/ OtherStep

LiquidationSpec == LiquidationInit /\ [][LiquidationNext]_allVars

-----------------------------------------------------------------------------
(* Properties                                                               *)

LiquidationTypeOK ==
    /\ TypeOK
    /\ IF status = Entered
       THEN /\ sender \in Account \union Operator
            /\ liquidated \in {0} \union DOMAIN call.accounts
            /\ touched \subseteq DOMAIN call.accounts
       ELSE sender = NoSender /\ liquidated = 0 /\ touched = {}

\* after is before with less of everything, and its ratio of assets to debts is not
\* lower, whatever the price.
PartOf(after, before) ==
    /\ IF Position(before) > 0 THEN Position(after) \in 0..Position(before)
                               ELSE Position(after) \in Position(before)..0
    /\ IF Margin(before) > 0 THEN Margin(after) \in 0..Margin(before)
                             ELSE Margin(after) \in Margin(before)..0
    /\ Position(after) = 0 => Margin(after) = 0
    /\ IF Position(before) > 0
       THEN -Margin(after) * Position(before) <= -Margin(before) * Position(after)
       ELSE -Margin(after) * Position(before) >= -Margin(before) * Position(after)

\* A liquidation is never to the disadvantage of the account: it keeps a part of its
\* position and of its margin, with a ratio between the two that is no worse, also
\* when other trades or liquidations of the same call came before.
LiquidationKeepsRatio ==
    [][liquidated' # 0 /\ balances' # balances =>
          LET account == call.accounts[liquidated']
          IN  PartOf(balances'[account], balances[account])]_allVars

\* The checks at the end of trade() accept an account that was liquidated, once or
\* several times, and took no other part in the call, if it has any assets.
LiquidatedAccountsAccepted ==
    status = Entered =>
        \A i \in DOMAIN call.accounts \ touched :
            PositiveValue(call.initial[i], call.price) # 0 =>
                FinalBalanceAllowed(call.initial[i], call.current[i], call.price)

\* In a trade() under way, an account that met the requirement at its start, and took
\* no part in it but as one to liquidate, has the balance it had.
HealthyHaveTheirBalance ==
    status = Entered =>
        \A i \in DOMAIN call.accounts \ touched :
            IsCollateralized(call.initial[i], call.price, minCollateral) =>
                call.current[i] = call.initial[i]

\* No liquidation takes from an account that meets the requirement when its turn comes,
\* with all that earlier trades of the call gave it or took from it; so an account that
\* met it before the call is liquidated only if another trade made it fall short.
HealthyAccountsLeftAlone ==
    /\ []HealthyHaveTheirBalance
    /\ [][liquidated' # 0 /\ call' # call =>
              ~IsCollateralized(call.current[liquidated'], call.price, minCollateral)]_allVars
=============================================================================
