-------------------------- MODULE P1LiquidatorProxy --------------------------
(***************************************************************************)
(* v1/proxies/P1LiquidatorProxy.sol: liquidate() settles the liquidator,    *)
(* liquidates through P1Liquidation, and moves a part of the profit from    *)
(* the liquidator to the insurance fund, in one transaction of four calls   *)
(* of PerpetualV1.                                                          *)
(*                                                                          *)
(* Each call is a step with the actions of PerpetualV1 and P1Liquidation;   *)
(* nothing else happens between them, and a failure of any of them reverts  *)
(* them all (LiquidateRevert).                                              *)
(***************************************************************************)
EXTENDS P1Liquidation

CONSTANTS
    LiquidatorProxy,    \* address of the contract
    InsuranceFee,       \* insurance fees that may be configured
    MaxPosition         \* SignedInts callers pass as maxPosition

\* MaxAccounts admits the two accounts of the trade() that liquidate() calls.
ASSUME ProxyAssumption ==
    /\ LiquidatorProxy \in Operator /\ MaxAccounts >= 2
    /\ InsuranceFee \subseteq Nat /\ MaxPosition \subseteq SignedInt

VARIABLES
    insuranceFund, insuranceFee,    \* _INSURANCE_FUND_, _INSURANCE_FEE_
    allowance,                      \* whether PerpetualV1 may take the proxy's tokens
    proxyTokens,                    \* token balance of the proxy
    frame                           \* memory of the liquidate() being executed

proxyVars == <<insuranceFund, insuranceFee, allowance, proxyTokens, frame>>
proxyConfig == <<insuranceFund, insuranceFee, allowance>>

NoFrame == [stage |-> "idle"]
Idle    == frame = NoFrame

-----------------------------------------------------------------------------
(* liquidate()                                                              *)

\* Mutation of MaxPositionDelta: the position the liquidator already has is ignored.
MaxPositionAsDelta(initialBalance, maxPosition) == maxPosition

\* _getMaxPositionDelta
MaxPositionDelta(initialBalance, maxPosition) ==
    SignedSub(maxPosition, GetPosition(initialBalance))

\* Mutation of InitialBalance: read before the liquidator is settled.
InitialBalanceUnsettled(liquidator) == balances[liquidator]

\* What getAccountBalance returns after the deposit of 0.
InitialBalance(liquidator) == balances'[liquidator]

\* What a revert of liquidate() restores.
SavedByProxy == [balances |-> balances, localIndexes |-> localIndexes,
                 globalIndex |-> globalIndex, tokens |-> tokens,
                 proxyTokens |-> proxyTokens]

LiquidateSettle(msgSender, liquidatee, liquidator, isBuy, maxPosition) ==
    LET delta == MaxPositionDelta(InitialBalance(liquidator), maxPosition)
    IN  /\ Idle
        /\ hasAccountPermissions(liquidator, msgSender)
        /\ Deposit(liquidator, 0)
        /\ delta.isPositive = isBuy /\ delta.value > 0
        /\ frame' = [stage |-> "settled", liquidatee |-> liquidatee,
                     liquidator |-> liquidator, delta |-> delta,
                     maxPosition |-> maxPosition, fee |-> 0,
                     initialBalance |-> InitialBalance(liquidator),
                     saved |-> SavedByProxy]
        /\ UNCHANGED <<liquidationVars, proxyConfig, proxyTokens>>

\* _doLiquidation calls trade(), with the two accounts sorted, ...
LiquidateTradeBegin ==
    /\ frame.stage = "settled"
    /\ BeginTransaction(LiquidatorProxy,
           IF frame.liquidator < frame.liquidatee
           THEN <<frame.liquidator, frame.liquidatee>>
           ELSE <<frame.liquidatee, frame.liquidator>>)
    /\ frame' = [frame EXCEPT !.stage = "trading"]
    /\ UNCHANGED <<proxyConfig, proxyTokens>>

\* ... which calls P1Liquidation once ...
LiquidateTrade ==
    LET takerIndex == IF frame.liquidator < frame.liquidatee THEN 1 ELSE 2
    IN  /\ frame.stage = "trading"
        /\ LiquidationTrade(frame.delta.value, frame.delta.isPositive, FALSE,
                            3 - takerIndex, takerIndex)
        /\ frame' = [frame EXCEPT !.stage = "traded"]
        /\ UNCHANGED <<proxyConfig, proxyTokens>>

\* What the liquidator took over, as a balance.
DeltaBalance(initialBalance, currentBalance) ==
    SetMargin(SetPosition(ZeroBalance,
                  SignedSub(GetPosition(currentBalance), GetPosition(initialBalance))),
              SignedSub(GetMargin(currentBalance), GetMargin(initialBalance)))

\* Mutation of FeeAmount: debts taken over are not deducted.
FeeAmountOfAssets(deltaBalance, price) ==
    BaseMul(PositiveValue(deltaBalance, price), insuranceFee) \div BASE

\* _getLiquidatedAndFeeAmount
FeeAmount(deltaBalance, price) ==
    LET posValue == PositiveValue(deltaBalance, price)
        negValue == NegativeValue(deltaBalance, price)
    IN  IF posValue > negValue
        THEN BaseMul(posValue - negValue, insuranceFee) \div BASE ELSE 0

\* ... and ends; the fee is computed with the price the oracle has now.
LiquidateTradeEnd ==
    LET deltaBalance == DeltaBalance(frame.initialBalance, balances[frame.liquidator])
        fee          == FeeAmount(deltaBalance, ContextPrice)
    IN  /\ frame.stage = "traded"
        /\ FitsBalance(deltaBalance)
        /\ EndTransaction
        /\ frame' = IF fee > 0 THEN [frame EXCEPT !.stage = "ended", !.fee = fee]
                               ELSE NoFrame
        /\ UNCHANGED <<proxyConfig, proxyTokens>>

\* The fee goes from the liquidator to the proxy ...
LiquidateWithdrawFee ==
    /\ frame.stage = "ended"
    /\ Withdraw(LiquidatorProxy, frame.liquidator, "outside", frame.fee)
    /\ proxyTokens' = proxyTokens + frame.fee
    /\ frame' = [frame EXCEPT !.stage = "withdrawn"]
    /\ UNCHANGED <<liquidationVars, proxyConfig>>

\* Mutation of LiquidateDepositFee: the fee stays with the proxy.
FeeKept ==
    /\ frame.stage = "withdrawn"
    /\ frame' = NoFrame
    /\ UNCHANGED <<allVars, proxyConfig, proxyTokens>>

\* ... and from there to the account of the insurance fund.
LiquidateDepositFee ==
    /\ frame.stage = "withdrawn"
    /\ allowance /\ frame.fee <= proxyTokens
    /\ Deposit(insuranceFund, frame.fee)
    /\ proxyTokens' = proxyTokens - frame.fee
    /\ frame' = NoFrame
    /\ UNCHANGED <<liquidationVars, proxyConfig>>

\* Any of the calls fails.
LiquidateRevert ==
    /\ ~Idle
    /\ balances' = frame.saved.balances
    /\ localIndexes' = frame.saved.localIndexes
    /\ globalIndex' = frame.saved.globalIndex
    /\ tokens' = frame.saved.tokens
    /\ proxyTokens' = frame.saved.proxyTokens
    /\ status' = NotEntered /\ call' = NoCall
    /\ sender' = NoSender /\ liquidated' = 0 /\ touched' = {}
    /\ frame' = NoFrame
    /\ UNCHANGED <<config, localOperators, final, world, proxyConfig>>

-----------------------------------------------------------------------------
(* Configuration; the first two are called by the owner                     *)

SetInsuranceFund(account) ==
    /\ Idle
    /\ insuranceFund' = account
    /\ UNCHANGED <<allVars, insuranceFee, allowance, proxyTokens, frame>>

SetInsuranceFee(fee) ==
    /\ Idle
    /\ fee <= BASE \div 2
    /\ insuranceFee' = fee
    /\ UNCHANGED <<allVars, insuranceFund, allowance, proxyTokens, frame>>

ApproveMaximumOnPerpetual ==
    /\ Idle
    /\ allowance' = TRUE
    /\ UNCHANGED <<allVars, insuranceFund, insuranceFee, proxyTokens, frame>>

-----------------------------------------------------------------------------
\* The constructor accepts any fee.
ProxyInit ==
    /\ LiquidationInit
    /\ insuranceFund \in Account /\ insuranceFee \in InsuranceFee
    /\ allowance = FALSE /\ proxyTokens = 0
    /\ frame = NoFrame

LiquidateStep ==
    \/ \E msgSender, liquidatee, liquidator \in Account, isBuy \in BOOLEAN,
          maxPosition \in MaxPosition :
           LiquidateSettle(msgSender, liquidatee, liquidator, isBuy, maxPosition)
    \/ LiquidateTradeBegin \/ LiquidateTrade \/ LiquidateTradeEnd
    \/ LiquidateWithdrawFee \/ LiquidateDepositFee \/ LiquidateRevert

ProxyConfigStep ==
    \/ \E account \in Account : SetInsuranceFund(account)
    \/ \E fee \in InsuranceFee : SetInsuranceFee(fee)
    \/ ApproveMaximumOnPerpetual

\* Everything else, between the calls of liquidate().
MarketStep == Idle /\ LiquidationNext /\ UNCHANGED proxyVars

ProxyNext == LiquidateStep \/ ProxyConfigStep \/ MarketStep

ProxySpec == ProxyInit /\ [][ProxyNext]_<<allVars, proxyVars>>

-----------------------------------------------------------------------------
(* Properties                                                               *)

\* Type correctness, and: the proxy holds the fee between the last two calls of
\* liquidate(), and nothing at any other time (gifts of others are not counted).
ProxyTypeOK ==
    /\ LiquidationTypeOK
    /\ insuranceFund \in Account /\ insuranceFee \in InsuranceFee
    /\ allowance \in BOOLEAN
    /\ frame.stage \in {"idle", "settled", "trading", "traded", "ended", "withdrawn"}
    /\ proxyTokens = IF frame.stage = "withdrawn" THEN frame.fee ELSE 0
    /\ ~Idle => /\ frame.initialBalance \in StoredBalance
                /\ (status = Entered) = (frame.stage \in {"trading", "traded"})

\* The end of a liquidate(), successful or not.
Liquidated == ~Idle /\ frame' = NoFrame

\* What an account has gained, in value, since liquidate() began; funding that was due
\* before does not count.
Gain(account) ==
    LET before == SettledBalance(frame.saved.balances[account],
                                 frame.saved.localIndexes[account], globalIndex)
        after  == SettledBalance(balances'[account], localIndexes'[account], globalIndex)
    IN  NetValue(after, ContextPrice) - NetValue(before, ContextPrice)

\* The insurance fund gets its share of the profit of a liquidation, rounded down to
\* whole tokens, and nothing of a loss.
FeeIsShareOfProfit ==
    [][Liquidated /\ insuranceFund \notin {frame.liquidator, frame.liquidatee} =>
          LET profit == Gain(frame.liquidator) + Gain(insuranceFund)
              share  == IF profit > 0 THEN insuranceFee * profit ELSE 0
          IN  Gain(insuranceFund) * BASE \in (share - BASE * BASE + 1)..share
      ]_<<allVars, proxyVars>>

\* The liquidator ends up between its position before and the maximum it asked for.
MaxPositionRespected ==
    [][Liquidated =>
          LET before == Position(frame.initialBalance)
              after  == Position(balances'[frame.liquidator])
              max    == ToInt(frame.maxPosition)
          IN  IF before < max THEN after \in before..max ELSE after \in max..before
      ]_<<allVars, proxyVars>>
=============================================================================
