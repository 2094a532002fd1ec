------------------------- MODULE Liquidation_proofs -------------------------
(***************************************************************************)
(* Proofs about P1Liquidation and the liquidator proxy. P1Liquidation is a  *)
(* use of PerpetualV1, and for every market it never worsens the account it *)
(* liquidates. The calls of one liquidate() of the proxy keep the invariant *)
(* of PerpetualV1 and what the contract remembers between them, so that the *)
(* liquidator ends within the position it allowed, and the insurance fund   *)
(* gets its share of the profit and nothing of a loss.                      *)
(***************************************************************************)
EXTENDS ProxyLedger, PerpetualV1_proofs

-----------------------------------------------------------------------------
(* Steps of PerpetualV1                                                     *)

\* The trade() of P1Liquidation is a trade of PerpetualV1.
LEMMA LiquidationTradeImplements ==
  ASSUME NEW amount, NEW isBuy \in BOOLEAN, NEW allOrNothing,
         NEW maker \in DOMAIN call.accounts, NEW taker \in DOMAIN call.accounts,
         LiquidationTrade(amount, isBuy, allOrNothing, maker, taker)
  PROVE  Next
<1>1. PICK marginAmount \in Amount, positionAmount \in Amount :
          TradeStep(Liquidation, maker, taker, marginAmount, positionAmount, isBuy)
  BY DEF LiquidationTrade
<1> QED
  BY <1>1, LiquidationAssumption DEF Next, TradeCallStep

\* Every step is one of PerpetualV1 or leaves it alone.
LEMMA StepImplements == [LiquidationNext]_allVars => [Next]_vars
<1> SUFFICES ASSUME [LiquidationNext]_allVars PROVE [Next]_vars
  OBVIOUS
<1>1. CASE TransactionStep
  <2>1. CASE \E by \in Account \union Operator, accounts \in AccountList :
                 BeginTransaction(by, accounts)
    BY <2>1 DEF BeginTransaction, Next, TradeCallStep
  <2>2. CASE \E amount \in Amount, isBuy, allOrNothing \in BOOLEAN,
                maker, taker \in DOMAIN call.accounts :
                 LiquidationTrade(amount, isBuy, allOrNothing, maker, taker)
    BY <2>2, LiquidationTradeImplements
  <2>3. CASE OtherTrade
    BY <2>3 DEF OtherTrade, Next, TradeCallStep
  <2>4. CASE EndTransaction \/ RevertTransaction
    BY <2>4 DEF EndTransaction, RevertTransaction, Next, TradeCallStep
  <2> QED BY <1>1, <2>1, <2>2, <2>3, <2>4 DEF TransactionStep
<1>2. CASE OtherStep
  BY <1>2 DEF OtherStep, Next
<1>3. CASE UNCHANGED allVars
  BY <1>3 DEF allVars
<1> QED
  BY <1>1, <1>2, <1>3 DEF LiquidationNext

\* P1Liquidation makes no use of PerpetualV1 its specification does not allow, so
\* everything proved of PerpetualV1 holds with it.
THEOREM LiquidationImplements == LiquidationSpec => Spec
<1>1. LiquidationInit => Init
  BY DEF LiquidationInit
<1> QED
  BY <1>1, StepImplements, PTL DEF LiquidationSpec, Spec

-----------------------------------------------------------------------------
(* The fractions of lib/Math.sol                                            *)

\* getFraction rounds down: a part of the target, and never more than its share.
LEMMA GetFractionBounds ==
  ASSUME NEW target \in Nat, NEW num \in Nat, NEW den \in Nat \ {0}, num <= den
  PROVE  /\ GetFraction(target, num, den) \in 0..target
         /\ GetFraction(target, num, den) * den <= target * num
         /\ num = den => GetFraction(target, num, den) = target
<1> DEFINE x == target * num
<1>1. x \in Nat /\ x <= target * den
  OBVIOUS
<1>2. target * den \in Nat
  OBVIOUS
<1>3. num = den => x = target * den
  OBVIOUS
<1> HIDE DEF x
<1> DEFINE q == x \div den
<1>4. q \in Nat /\ q * den <= x /\ x < (q + 1) * den
  BY <1>1
<1> HIDE DEF q
<1>5. q <= target
  <2> SUFFICES ASSUME q > target PROVE FALSE
    BY <1>4
  <2>1. q >= target + 1
    BY <1>4
  <2>2. q * den >= (target + 1) * den
    BY <1>4, <2>1
  <2>3. (target + 1) * den = target * den + den
    OBVIOUS
  <2> QED BY <1>1, <1>2, <1>4, <2>2, <2>3
<1>6. num = den => q = target
  <2> SUFFICES ASSUME num = den, q < target PROVE FALSE
    BY <1>4, <1>5
  <2>1. q + 1 <= target
    BY <1>4
  <2>2. (q + 1) * den <= target * den
    BY <1>4, <2>1
  <2> QED BY <1>3, <1>4, <2>2
<1> QED
  BY <1>4, <1>5, <1>6 DEF GetFraction, q, x

\* getFractionRoundUp rounds up: a part of the target, and never less than its share.
LEMMA GetFractionRoundUpBounds ==
  ASSUME NEW target \in Nat, NEW num \in Nat, NEW den \in Nat \ {0}, num <= den
  PROVE  /\ GetFractionRoundUp(target, num, den) \in 0..target
         /\ GetFractionRoundUp(target, num, den) * den >= target * num
         /\ num = den => GetFractionRoundUp(target, num, den) = target
<1>1. CASE target = 0 \/ num = 0
  BY <1>1 DEF GetFractionRoundUp
<1>2. CASE ~(target = 0 \/ num = 0)
  <2> DEFINE x == target * num
  <2>1. x \in Nat /\ x > 0 /\ x <= target * den /\ target * den \in Nat
    BY <1>2
  <2>2. num = den => x = target * den
    OBVIOUS
  <2>3. GetFractionRoundUp(target, num, den) = (x - 1) \div den + 1
    BY <1>2 DEF GetFractionRoundUp
  <2> HIDE DEF x
  <2> DEFINE q == (x - 1) \div den
  <2>4. q \in Nat /\ q * den <= x - 1 /\ x - 1 < (q + 1) * den
    BY <2>1
  <2> HIDE DEF q
  <2>5. q + 1 <= target
    <3> SUFFICES ASSUME q >= target PROVE FALSE
      BY <2>4
    <3>1. q * den >= target * den
      BY <2>4
    <3> QED BY <2>1, <2>4, <3>1
  <2>6. (q + 1) * den >= x
    <3>1. (q + 1) * den \in Int
      BY <2>4
    <3> QED BY <2>1, <2>4, <3>1
  <2>7. num = den => q + 1 = target
    <3> SUFFICES ASSUME num = den, q + 1 < target PROVE FALSE
      BY <2>4, <2>5
    <3>1. (q + 2) * den <= target * den
      BY <2>4
    <3>2. (q + 2) * den = (q + 1) * den + den
      BY <2>4
    <3>3. (q + 1) * den \in Int
      BY <2>4
    <3> QED BY <2>1, <2>2, <2>6, <3>1, <3>2, <3>3
  <2> QED BY <2>3, <2>4, <2>5, <2>6, <2>7 DEF x
<1> QED
  BY <1>1, <1>2

-----------------------------------------------------------------------------
(* The account that is liquidated                                           *)

\* What VerifyTrade lets pass: a long position with debts, or a short one with
\* margin.
LEMMA LiquidatedSides ==
  ASSUME NEW b \in StoredBalance, NEW price \in Nat, NEW isBuy \in BOOLEAN,
         minCollateral \in Nat, VerifyTrade(b, isBuy, price), b.position # 0
  PROVE  /\ b.margin \in Nat /\ b.position \in Nat \ {0}
         /\ isBuy => Position(b) = b.position /\ Margin(b) = 0 - b.margin
         /\ ~isBuy => Position(b) = 0 - b.position /\ Margin(b) = b.margin
<1>1. /\ b.margin \in Nat /\ b.position \in Nat \ {0}
      /\ b.marginIsPositive \in BOOLEAN /\ b.positionIsPositive \in BOOLEAN
  BY DEF StoredBalance, Balance
<1>2. isBuy = b.positionIsPositive
  BY DEF VerifyTrade
<1>3. CASE isBuy
  <2>1. ~b.marginIsPositive
    <3> SUFFICES ASSUME b.marginIsPositive PROVE FALSE
      BY <1>1
    <3>1. NegativeValue(b, price) = 0
      BY <1>2, <1>3 DEF NegativeValue
    <3>2. PositiveValue(b, price) \in Nat
      BY <1>1, BaseAssumption DEF PositiveValue
    <3>3. PositiveValue(b, price) * BASE \in Nat
      BY <3>2, BaseAssumption
    <3> QED BY <3>1, <3>3 DEF VerifyTrade, IsUndercollateralized
  <2> QED BY <1>1, <1>2, <1>3, <2>1 DEF Position, Margin, GetPosition, GetMargin, ToInt
<1>4. CASE ~isBuy
  <2>1. b.marginIsPositive \/ b.margin = 0
    BY <1>1, <1>2, <1>4 DEF VerifyTrade
  <2> QED BY <1>1, <1>2, <1>4, <2>1 DEF Position, Margin, GetPosition, GetMargin, ToInt
<1> QED
  BY <1>1, <1>3, <1>4

\* The arithmetic of a partial liquidation: of margin m and position p, both without
\* sign, k and a are handed over.
LEMMA RatioOfRest ==
  ASSUME NEW m \in Nat, NEW p \in Nat, NEW k \in Int, NEW a \in Int
  PROVE  /\ k * p >= m * a => (m - k) * p <= m * (p - a)
         /\ k * p <= m * a => (m - k) * p >= m * (p - a)
<1>1. (m - k) * p = m * p - k * p /\ m * (p - a) = m * p - m * a
  OBVIOUS
<1>2. m * p \in Int /\ k * p \in Int /\ m * a \in Int
  OBVIOUS
<1> QED
  BY <1>1, <1>2

\* One liquidation keeps a part of the account, with no worse a ratio.
LEMMA LiquidationTradeRatio ==
  ASSUME TypeOK, MemoryMatchesStorage, NEW amount \in Amount, NEW isBuy \in BOOLEAN,
         NEW allOrNothing, NEW maker \in DOMAIN call.accounts,
         NEW taker \in DOMAIN call.accounts,
         LiquidationTrade(amount, isBuy, allOrNothing, maker, taker),
         balances' # balances,
         NEW account, account = call.accounts[maker]
  PROVE  PartOf(balances'[account], balances[account])
<1> DEFINE b == balances[account]
           a == PositionAmount(b, amount)
           k == MarginAmount(b, a, isBuy)
           after == balances'[account]
<1>1. /\ status = Entered /\ VerifyTrade(b, isBuy, call.price) /\ b.position # 0
      /\ TradeStep(Liquidation, maker, taker, k, a, isBuy)
      /\ k \in Amount /\ a \in Amount
  BY DEF LiquidationTrade, MakerBalanceRead
<1>2. b \in StoredBalance /\ call.price \in Nat /\ minCollateral \in Nat
  <2>1. CallTypeOK
    BY <1>1 DEF TypeOK
  <2>2. account \in Account
    BY <2>1, AccountListType DEF CallTypeOK
  <2> QED BY <2>1, <2>2, MarketAssumption, CollateralAssumption
            DEF CallTypeOK, TypeOK, StoredBalances
<1>3. k \in Nat /\ a \in Nat
  BY <1>1, AmountAssumption
<1>4. a <= b.position
  <2>1. b.position \in Nat /\ amount \in Nat
    BY <1>2, AmountAssumption DEF StoredBalance, Balance
  <2> QED BY <2>1 DEF PositionAmount
<1> HIDE DEF a
<1>5. k = IF isBuy THEN GetFractionRoundUp(b.margin, a, b.position)
                   ELSE GetFraction(b.margin, a, b.position)
  BY DEF MarginAmount
<1> HIDE DEF b, k
<1>6. /\ b.margin \in Nat /\ b.position \in Nat \ {0}
      /\ isBuy => Position(b) = b.position /\ Margin(b) = 0 - b.margin
      /\ ~isBuy => Position(b) = 0 - b.position /\ Margin(b) = b.margin
  BY <1>1, <1>2, LiquidatedSides
<1>7. /\ Position(after) = Position(b) + (IF isBuy THEN -a ELSE a)
      /\ Margin(after) = Margin(b) + (IF isBuy THEN k ELSE -k)
  BY <1>1, <1>3, MakerTraded DEF b
<1> HIDE DEF after
<1> DEFINE m == b.margin
           p == b.position
<1>8. /\ m \in Nat /\ p \in Nat \ {0} /\ a \in Nat /\ a <= p
      /\ k \in 0..m /\ (a = p => k = m)
      /\ isBuy => k * p >= m * a
      /\ ~isBuy => k * p <= m * a
  BY <1>3, <1>4, <1>5, <1>6, GetFractionBounds, GetFractionRoundUpBounds
<1>9. /\ isBuy => /\ Position(b) = p /\ Margin(b) = 0 - m
                  /\ Position(after) = p - a /\ Margin(after) = 0 - (m - k)
      /\ ~isBuy => /\ Position(b) = 0 - p /\ Margin(b) = m
                   /\ Position(after) = 0 - (p - a) /\ Margin(after) = m - k
  BY <1>6, <1>7, <1>8
<1> HIDE DEF m, p
<1>10. PartOf(after, b)
  <2>1. CASE isBuy
    <3>1. (m - k) * p <= m * (p - a)
      BY <1>8, <2>1, RatioOfRest
    <3>2. /\ -((0 - (m - k)) * p) = (m - k) * p
          /\ -((0 - m) * (p - a)) = m * (p - a)
      BY <1>8
    <3>3. -Margin(after) * Position(b) <= -Margin(b) * Position(after)
      <4>1. -((0 - (m - k)) * p) <= -((0 - m) * (p - a))
        BY <3>1, <3>2
      <4> QED BY <1>9, <2>1, <4>1, Zenon
    <3>4. Position(b) > 0 /\ Position(after) \in 0..Position(b)
      BY <1>8, <1>9, <2>1
    <3>5. ~(Margin(b) > 0) /\ Margin(after) \in Margin(b)..0
      BY <1>8, <1>9, <2>1
    <3>6. Position(after) = 0 => Margin(after) = 0
      <4>1. p - a = 0 => a = p
        BY <1>8
      <4>2. k = m => 0 - (m - k) = 0
        BY <1>8
      <4> QED BY <1>8, <1>9, <2>1, <4>1, <4>2
    <3> QED BY <3>3, <3>4, <3>5, <3>6 DEF PartOf
  <2>2. CASE ~isBuy
    <3>1. (m - k) * p >= m * (p - a)
      BY <1>8, <2>2, RatioOfRest
    <3>2. /\ -((m - k) * (0 - p)) = (m - k) * p
          /\ -(m * (0 - (p - a))) = m * (p - a)
      BY <1>8
    <3>3. -Margin(after) * Position(b) >= -Margin(b) * Position(after)
      <4>1. -((m - k) * (0 - p)) >= -(m * (0 - (p - a)))
        BY <3>1, <3>2
      <4> QED BY <1>9, <2>2, <4>1, Zenon
    <3>4. ~(Position(b) > 0) /\ Position(after) \in Position(b)..0
      BY <1>8, <1>9, <2>2
    <3>5. IF Margin(b) > 0 THEN Margin(after) \in 0..Margin(b)
                           ELSE Margin(after) \in Margin(b)..0
      BY <1>8, <1>9, <2>2
    <3>6. Position(after) = 0 => Margin(after) = 0
      BY <1>8, <1>9, <2>2
    <3> QED BY <3>3, <3>4, <3>5, <3>6 DEF PartOf
  <2> QED BY <2>1, <2>2
<1> QED
  BY <1>10 DEF after, b

-----------------------------------------------------------------------------
(* The theorems                                                             *)

\* While a trade() is executed, what else happens to PerpetualV1 leaves it alone.
LEMMA OtherStepInTrade ==
  ASSUME OtherStep
  PROVE  /\ status' = status /\ UNCHANGED liquidationVars
         /\ status = Entered =>
                balances' = balances /\ call' = call /\ minCollateral' = minCollateral
<1>1. CASE MarginStep
  BY <1>1 DEF OtherStep, MarginStep, Deposit, Withdraw, nonReentrant, Entered, NotEntered
<1>2. CASE FinalSettlementStep
  BY <1>2 DEF OtherStep, FinalSettlementStep, WithdrawFinalSettlement, nonReentrant,
              Entered, NotEntered
<1>3. CASE AdminStep
  BY <1>3 DEF OtherStep, AdminStep, SetGlobalOperator, SetOracle, SetFunder,
              SetMinCollateral, EnableFinalSettlement, ledger, config,
              nonReentrant, Entered, NotEntered
<1>4. CASE OperatorStep
  BY <1>4 DEF OtherStep, OperatorStep, SetLocalOperator, ledger, config
<1>5. CASE WorldStep
  BY <1>5 DEF OtherStep, WorldStep, Tick, ChangePrice, ChangeRate, Donate, ledger, config
<1> QED
  BY <1>1, <1>2, <1>3, <1>4, <1>5 DEF OtherStep

\* The types are preserved, given those of PerpetualV1 before and after.
LEMMA StepTypes ==
  LiquidationTypeOK /\ TypeOK' /\ [LiquidationNext]_allVars => LiquidationTypeOK'
<1> SUFFICES ASSUME LiquidationTypeOK, TypeOK', [LiquidationNext]_allVars
             PROVE  LiquidationTypeOK'
  OBVIOUS
<1>1. CASE TransactionStep
  <2>1. CASE \E by \in Account \union Operator, accounts \in AccountList :
                 BeginTransaction(by, accounts)
    <3>1. PICK by \in Account \union Operator, accounts \in AccountList :
                 BeginTransaction(by, accounts)
      BY <2>1
    <3>2. /\ status = NotEntered /\ status' = Entered /\ sender' = by
          /\ UNCHANGED <<liquidated, touched>>
      BY <3>1 DEF BeginTransaction, TradeBegin, nonReentrant
    <3> QED BY <3>2 DEF LiquidationTypeOK, Entered, NotEntered
  <2>2. CASE \E amount \in Amount, isBuy, allOrNothing \in BOOLEAN,
                maker, taker \in DOMAIN call.accounts :
                 LiquidationTrade(amount, isBuy, allOrNothing, maker, taker)
    <3>1. PICK maker \in DOMAIN call.accounts, taker \in DOMAIN call.accounts :
              /\ status = Entered /\ status' = Entered
              /\ call'.accounts = call.accounts
              /\ liquidated' = maker /\ touched' = touched \union {taker}
              /\ sender' = sender
      BY <2>2 DEF LiquidationTrade, TradeStep, AfterTrade
    <3> QED BY <3>1 DEF LiquidationTypeOK
  <2>3. CASE OtherTrade
    <3>1. PICK maker \in DOMAIN call.accounts, taker \in DOMAIN call.accounts :
              /\ status = Entered /\ status' = Entered
              /\ call'.accounts = call.accounts
              /\ liquidated' = 0 /\ touched' = touched \union {maker, taker}
              /\ sender' = sender
      BY <2>3 DEF OtherTrade, TradeStep, AfterTrade
    <3> QED BY <3>1 DEF LiquidationTypeOK
  <2>4. CASE EndTransaction \/ RevertTransaction
    BY <2>4 DEF EndTransaction, RevertTransaction, TradeEnd, TradeRevert, LiquidationTypeOK, Entered,
                NotEntered
  <2> QED BY <1>1, <2>1, <2>2, <2>3, <2>4 DEF TransactionStep
<1>2. CASE OtherStep
  BY <1>2, OtherStepInTrade DEF LiquidationTypeOK, liquidationVars
<1>3. CASE UNCHANGED allVars
  BY <1>3 DEF allVars, vars, liquidationVars, LiquidationTypeOK
<1> QED
  BY <1>1, <1>2, <1>3 DEF LiquidationNext

\* The types of PerpetualV1 and of what is recorded of the trade() being executed.
THEOREM LiquidationTypeCorrect == LiquidationSpec => []LiquidationTypeOK
<1>1. LiquidationInit => LiquidationTypeOK
  BY InitType DEF LiquidationInit, Init, LiquidationTypeOK, Entered, NotEntered
<1>2. LiquidationSpec => []TypeOK
  BY LiquidationImplements, TypeCorrect, PTL
<1> QED
  BY <1>1, <1>2, StepTypes, PTL DEF LiquidationSpec

\* A liquidation takes only from an account that falls short, at the balance that
\* trade() computes with.
LEMMA LiquidatedFallsShort ==
  ASSUME MemoryMatchesStorage,
         NEW amount, NEW isBuy, NEW allOrNothing,
         NEW maker \in DOMAIN call.accounts, NEW taker \in DOMAIN call.accounts,
         LiquidationTrade(amount, isBuy, allOrNothing, maker, taker)
  PROVE  IsUndercollateralized(call.current[maker], call.price)
<1>1. status = Entered /\ IsUndercollateralized(MakerBalanceRead(maker), call.price)
  BY DEF LiquidationTrade, VerifyTrade
<1>2. MakerBalanceRead(maker) = call.current[maker]
  BY <1>1 DEF MemoryMatchesStorage, MakerBalanceRead
<1> QED
  BY <1>1, <1>2

\* A trade changes the memory of its two accounts alone.
LEMMA TradeStepMemory ==
  ASSUME TypeOK, NEW trader, NEW maker \in DOMAIN call.accounts, NEW taker \in DOMAIN call.accounts,
         NEW marginAmount, NEW positionAmount, NEW isBuy,
         TradeStep(trader, maker, taker, marginAmount, positionAmount, isBuy)
  PROVE  /\ status = Entered /\ minCollateral' = minCollateral
         /\ call'.accounts = call.accounts /\ call'.initial = call.initial
         /\ call'.price = call.price
         /\ \A i \in DOMAIN call.accounts \ {maker, taker} : call'.current[i] = call.current[i]
<1>1. status = Entered /\ minCollateral' = minCollateral
  BY DEF TradeStep, config
<1>2. call.current \in [DOMAIN call.accounts -> StoredBalance]
  BY <1>1 DEF TypeOK, CallTypeOK
<1>3. PICK f : /\ call' = AfterTrade(f)
               /\ \A i \in DOMAIN call.accounts \ {maker, taker} : f[i] = call.current[i]
  BY <1>2 DEF TradeStep
<1> QED
  BY <1>1, <1>3 DEF AfterTrade

\* An account that falls short of the strict comparison of the contract does not meet
\* the requirement.
LEMMA FallsShort ==
  ASSUME TypeOK, status = Entered, NEW balance \in StoredBalance,
         IsUndercollateralized(balance, call.price)
  PROVE  ~IsCollateralized(balance, call.price, minCollateral)
<1>1. call.price \in Price /\ minCollateral \in MinCollateral
  BY DEF TypeOK, CallTypeOK
<1>2. balance \in Balance /\ call.price \in Nat /\ minCollateral \in Nat
  BY <1>1, MarketAssumption, CollateralAssumption DEF StoredBalance
<1>3. /\ PositiveValue(balance, call.price) * BASE \in Nat
      /\ NegativeValue(balance, call.price) * minCollateral \in Nat
  BY <1>2, ValueSplit, ProductNat, BaseAssumption
<1> QED
  BY <1>3 DEF IsUndercollateralized, IsCollateralized

\* Every step leaves the accounts alone that meet the requirement.
LEMMA StepLeavesHealthyAlone ==
  LiquidationTypeOK /\ MemoryMatchesStorage /\ HealthyHaveTheirBalance
      /\ [LiquidationNext]_allVars => HealthyHaveTheirBalance'
<1> SUFFICES ASSUME LiquidationTypeOK, MemoryMatchesStorage, HealthyHaveTheirBalance,
                    [LiquidationNext]_allVars, status' = Entered
             PROVE  HealthyHaveTheirBalance'
  BY DEF HealthyHaveTheirBalance
<1>0. TypeOK
  BY DEF LiquidationTypeOK
<1>1. CASE TransactionStep
  <2>1. CASE \E by \in Account \union Operator, accounts \in AccountList :
                 BeginTransaction(by, accounts)
    <3>1. call'.current = call'.initial
      BY <2>1 DEF BeginTransaction, TradeBegin
    <3> QED BY <3>1 DEF HealthyHaveTheirBalance
  <2>2. CASE \E amount \in Amount, isBuy, allOrNothing \in BOOLEAN,
                maker, taker \in DOMAIN call.accounts :
                 LiquidationTrade(amount, isBuy, allOrNothing, maker, taker)
    <3>1. PICK amount \in Amount, isBuy \in BOOLEAN, allOrNothing \in BOOLEAN,
               maker \in DOMAIN call.accounts, taker \in DOMAIN call.accounts :
              LiquidationTrade(amount, isBuy, allOrNothing, maker, taker)
      BY <2>2
    <3>2. /\ status = Entered /\ minCollateral' = minCollateral
          /\ call'.accounts = call.accounts /\ call'.initial = call.initial
          /\ call'.price = call.price
          /\ \A i \in DOMAIN call.accounts \ {maker, taker} :
                 call'.current[i] = call.current[i]
          /\ touched' = touched \union {taker}
      BY <1>0, <3>1, TradeStepMemory DEF LiquidationTrade
    <3>3. IsUndercollateralized(call.current[maker], call.price)
      BY <3>1, LiquidatedFallsShort
    <3>4. SUFFICES ASSUME NEW i \in DOMAIN call.accounts \ (touched \union {taker}),
                          IsCollateralized(call.initial[i], call.price, minCollateral)
                   PROVE  call'.current[i] = call.initial[i]
      BY <3>2 DEF HealthyHaveTheirBalance, IsCollateralized
    <3>5. call.current[i] = call.initial[i]
      BY <3>2, <3>4 DEF HealthyHaveTheirBalance
    <3>6. ~IsUndercollateralized(call.initial[i], call.price)
      <4>1. call.initial[i] \in StoredBalance
        BY <1>0, <3>2 DEF TypeOK, CallTypeOK
      <4> QED BY <1>0, <3>2, <3>4, <4>1, FallsShort
    <3>7. i # maker
      BY <3>3, <3>5, <3>6
    <3> QED BY <3>2, <3>5, <3>7
  <2>3. CASE OtherTrade
    <3>1. PICK trader \in Operator \ {Liquidation}, maker \in DOMAIN call.accounts,
               taker \in DOMAIN call.accounts, marginAmount \in Amount,
               positionAmount \in Amount, isBuy \in BOOLEAN :
              /\ TradeStep(trader, maker, taker, marginAmount, positionAmount, isBuy)
              /\ touched' = touched \union {maker, taker}
      BY <2>3 DEF OtherTrade
    <3>2. /\ status = Entered /\ minCollateral' = minCollateral
          /\ call'.accounts = call.accounts /\ call'.initial = call.initial
          /\ call'.price = call.price
          /\ \A i \in DOMAIN call.accounts \ {maker, taker} :
                 call'.current[i] = call.current[i]
      BY <1>0, <3>1, TradeStepMemory
    <3> QED BY <3>1, <3>2 DEF HealthyHaveTheirBalance, IsCollateralized
  <2>4. CASE EndTransaction \/ RevertTransaction
    BY <2>4 DEF EndTransaction, RevertTransaction, TradeEnd, TradeRevert, Entered, NotEntered
  <2> QED BY <1>1, <2>1, <2>2, <2>3, <2>4 DEF TransactionStep
<1>2. CASE OtherStep
  <2>1. status = Entered /\ UNCHANGED liquidationVars /\ call' = call /\ minCollateral' = minCollateral
    BY <1>2, OtherStepInTrade
  <2> QED BY <2>1 DEF HealthyHaveTheirBalance, IsCollateralized, liquidationVars
<1>3. CASE UNCHANGED allVars
  BY <1>3 DEF allVars, vars, liquidationVars, ledger, config, HealthyHaveTheirBalance, IsCollateralized
<1> QED
  BY <1>1, <1>2, <1>3 DEF LiquidationNext

\* A step that liquidates an account is a trade of the contract, and the account fell
\* short when it was reached.
LEMMA StepLiquidatesShort ==
  ASSUME LiquidationTypeOK, MemoryMatchesStorage, [LiquidationNext]_allVars,
         liquidated' # 0, call' # call
  PROVE  ~IsCollateralized(call.current[liquidated'], call.price, minCollateral)
<1>0. TypeOK
  BY DEF LiquidationTypeOK
<1>1. ASSUME NEW by, NEW accounts, BeginTransaction(by, accounts) PROVE FALSE
  <2>1. status = NotEntered /\ liquidated' = liquidated
    BY <1>1 DEF BeginTransaction, TradeBegin, nonReentrant
  <2> QED BY <2>1 DEF LiquidationTypeOK, Entered, NotEntered
<1>2. ASSUME NEW amount \in Amount, NEW isBuy, NEW allOrNothing,
             NEW maker \in DOMAIN call.accounts, NEW taker \in DOMAIN call.accounts,
             LiquidationTrade(amount, isBuy, allOrNothing, maker, taker)
      PROVE  ~IsCollateralized(call.current[liquidated'], call.price, minCollateral)
  <2>1. status = Entered /\ liquidated' = maker
    BY <1>2 DEF LiquidationTrade
  <2>2. call.current[maker] \in StoredBalance
    BY <1>0, <2>1 DEF TypeOK, CallTypeOK
  <2>3. IsUndercollateralized(call.current[maker], call.price)
    BY <1>2, LiquidatedFallsShort
  <2> QED BY <1>0, <2>1, <2>2, <2>3, FallsShort
<1>3. ASSUME OtherTrade \/ EndTransaction \/ RevertTransaction PROVE FALSE
  BY <1>3 DEF OtherTrade, EndTransaction, RevertTransaction
<1>4. ASSUME OtherStep PROVE FALSE
  <2>1. status = Entered => call' = call
    BY <1>4, OtherStepInTrade
  <2>2. status # Entered => liquidated' = 0
    BY <1>4 DEF OtherStep, liquidationVars, LiquidationTypeOK
  <2> QED BY <2>1, <2>2
<1>5. ASSUME UNCHANGED allVars PROVE FALSE
  BY <1>5 DEF allVars, vars, config, ledger
<1> QED
  BY <1>1, <1>2, <1>3, <1>4, <1>5 DEF LiquidationNext, TransactionStep

\* Whatever is traded in a call, a liquidation takes only from an account that does not
\* meet the requirement with what it has when it is reached, whatever other trades of
\* the call made of it; and an account that met it at the start, and took no part but as
\* one to liquidate, has the balance it had.
THEOREM HealthyAreLeftAlone == LiquidationSpec => HealthyAccountsLeftAlone
<1> DEFINE LiquidatesShort ==
        liquidated' # 0 /\ call' # call =>
            ~IsCollateralized(call.current[liquidated'], call.price, minCollateral)
<1>1. LiquidationInit => HealthyHaveTheirBalance
  BY DEF LiquidationInit, Init, HealthyHaveTheirBalance, Entered, NotEntered
<1>2. LiquidationSpec => [](LiquidationTypeOK /\ MemoryMatchesStorage)
  BY LiquidationTypeCorrect, LiquidationImplements, MemoryIsStorage, PTL
<1>3. LiquidationSpec => []HealthyHaveTheirBalance
  BY <1>1, <1>2, StepLeavesHealthyAlone, PTL DEF LiquidationSpec
<1>4. LiquidationTypeOK /\ MemoryMatchesStorage /\ [LiquidationNext]_allVars
         => [LiquidatesShort]_allVars
  BY StepLiquidatesShort
<1>5. LiquidationSpec => [][LiquidatesShort]_allVars
  BY <1>2, <1>4, PTL DEF LiquidationSpec
<1> QED
  BY <1>3, <1>5, PTL DEF HealthyAccountsLeftAlone

\* Being a part of a balance carries over a liquidation that follows another one.
LEMMA PartOfTransitive ==
  ASSUME NEW b0, NEW b1, NEW b2,
         Position(b0) \in Int, Position(b1) \in Int, Position(b2) \in Int,
         Margin(b0) \in Int, Margin(b1) \in Int, Margin(b2) \in Int,
         PartOf(b2, b1), PartOf(b1, b0), Position(b1) # 0
  PROVE  PartOf(b2, b0)
<1> DEFINE p0 == Position(b0)  p1 == Position(b1)  p2 == Position(b2)
           m0 == Margin(b0)    m1 == Margin(b1)    m2 == Margin(b2)
<1>1. /\ p0 \in Int /\ p1 \in Int \ {0} /\ p2 \in Int
      /\ m0 \in Int /\ m1 \in Int /\ m2 \in Int
  OBVIOUS
<1>2. /\ IF p0 > 0 THEN p1 \in 0..p0 ELSE p1 \in p0..0
      /\ IF m0 > 0 THEN m1 \in 0..m0 ELSE m1 \in m0..0
      /\ IF p0 > 0 THEN -m1 * p0 <= -m0 * p1 ELSE -m1 * p0 >= -m0 * p1
  BY DEF PartOf
<1>3. /\ IF p1 > 0 THEN p2 \in 0..p1 ELSE p2 \in p1..0
      /\ IF m1 > 0 THEN m2 \in 0..m1 ELSE m2 \in m1..0
      /\ p2 = 0 => m2 = 0
      /\ IF p1 > 0 THEN -m2 * p1 <= -m1 * p2 ELSE -m2 * p1 >= -m1 * p2
  BY DEF PartOf
<1> SUFFICES /\ IF p0 > 0 THEN p2 \in 0..p0 ELSE p2 \in p0..0
             /\ IF m0 > 0 THEN m2 \in 0..m0 ELSE m2 \in m0..0
             /\ p2 = 0 => m2 = 0
             /\ IF p0 > 0 THEN -m2 * p0 <= -m0 * p2 ELSE -m2 * p0 >= -m0 * p2
  BY DEF PartOf
<1> HIDE DEF p0, p1, p2, m0, m1, m2
<1>4. IF m0 > 0 THEN m2 \in 0..m0 ELSE m2 \in m0..0
  <2>1. IF m0 > 0 THEN m1 \in 0..m0 ELSE m1 \in m0..0
    BY <1>2
  <2>2. IF m1 > 0 THEN m2 \in 0..m1 ELSE m2 \in m1..0
    BY <1>3
  <2> QED BY <1>1, <2>1, <2>2
<1>5. CASE p0 > 0
  <2>1. p1 > 0 /\ p1 <= p0 /\ p2 >= 0 /\ p2 <= p1
    <3>1. p1 \in 0..p0
      BY <1>2, <1>5
    <3>2. p1 > 0
      BY <1>1, <3>1
    <3>3. p2 \in 0..p1
      BY <1>3, <3>2
    <3> QED BY <1>1, <3>1, <3>2, <3>3
  <2>2. -m1 * p0 <= -m0 * p1
    BY <1>2, <1>5
  <2>3. -m2 * p1 <= -m1 * p2
    BY <1>3, <2>1
  <2>4. (0 - m1) * p0 <= (0 - m0) * p1 /\ (0 - m2) * p1 <= (0 - m1) * p2
    BY <1>1, <2>2, <2>3
  <2>5. (0 - m2) * p0 <= (0 - m0) * p2
    <3>1. p0 \in Nat /\ p1 \in Nat \ {0} /\ p2 \in Nat
      BY <1>1, <1>5, <2>1
    <3>2. (0 - m0) \in Int /\ (0 - m1) \in Int /\ (0 - m2) \in Int
      BY <1>1
    <3> HIDE <2>4
    <3> QED BY <3>1, <3>2, <2>4, SignedRatioTransitive
  <2>6. -m2 * p0 <= -m0 * p2
    BY <1>1, <2>5
  <2>7. p2 \in 0..p0
    BY <1>1, <1>5, <2>1
  <2> QED BY <1>3, <1>4, <1>5, <2>6, <2>7
<1>6. CASE ~(p0 > 0)
  <2>1. p1 < 0 /\ p0 <= p1 /\ p2 <= 0 /\ p1 <= p2
    <3>1. p1 \in p0..0
      BY <1>2, <1>6
    <3>2. p1 < 0
      BY <1>1, <3>1
    <3>3. p2 \in p1..0
      BY <1>1, <1>3, <3>2
    <3> QED BY <1>1, <3>1, <3>2, <3>3
  <2>2. -m1 * p0 >= -m0 * p1
    BY <1>2, <1>6
  <2>3. -m2 * p1 >= -m1 * p2
    BY <1>1, <1>3, <2>1
  <2> DEFINE q0 == 0 - p0  q1 == 0 - p1  q2 == 0 - p2
             x0 == 0 - m0  x1 == 0 - m1  x2 == 0 - m2
  <2>4. x1 * q0 <= x0 * q1 /\ x2 * q1 <= x1 * q2
    BY <1>1, <2>2, <2>3
  <2>5. q0 \in Nat /\ q1 \in Nat \ {0} /\ q2 \in Nat /\ x0 \in Int /\ x1 \in Int /\ x2 \in Int
    BY <1>1, <1>6, <2>1
  <2>6. x2 * q0 <= x0 * q2
    <3> HIDE DEF q0, q1, q2, x0, x1, x2
    <3> QED BY <2>4, <2>5, SignedRatioTransitive
  <2>7. -m2 * p0 >= -m0 * p2
    BY <1>1, <2>6
  <2>8. p2 \in p0..0
    BY <1>1, <1>6, <2>1
  <2> QED BY <1>3, <1>4, <1>6, <2>7, <2>8
<1> QED
  BY <1>5, <1>6

\* What the checks at the end of trade() make of a part of an account that fell short
\* but has assets: its ratio of assets to debts is no worse than it was.
LEMMA PartIsAccepted ==
  ASSUME NEW b \in StoredBalance, NEW c \in StoredBalance, NEW price \in Nat,
         minCollateral \in Nat, PositiveValue(b, price) # 0,
         IsUndercollateralized(b, price), PartOf(c, b)
  PROVE  FinalBalanceAllowed(b, c, price)
<1> DEFINE m == b.margin  p == b.position  n == c.margin  q == c.position
<1>1. /\ m \in Nat /\ p \in Nat /\ n \in Nat /\ q \in Nat
      /\ b.marginIsPositive \in BOOLEAN /\ b.positionIsPositive \in BOOLEAN
      /\ c.marginIsPositive \in BOOLEAN /\ c.positionIsPositive \in BOOLEAN
      /\ (c.marginIsPositive => n # 0) /\ (c.positionIsPositive => q # 0)
      /\ (b.marginIsPositive => m # 0) /\ (b.positionIsPositive => p # 0)
  BY DEF StoredBalance, Balance, Canonical, GetMargin, GetPosition
<1>2. /\ PositiveValue(b, price) \in Nat /\ NegativeValue(b, price) \in Nat
      /\ PositiveValue(c, price) \in Nat /\ NegativeValue(c, price) \in Nat
  BY ValueSplit DEF StoredBalance
<1>3. NegativeValue(b, price) # 0
  <2> SUFFICES ASSUME NegativeValue(b, price) = 0 PROVE FALSE
    OBVIOUS
  <2>1. PositiveValue(b, price) * BASE \in Nat
    BY <1>2, ProductNat, BaseAssumption
  <2> QED BY <2>1 DEF IsUndercollateralized
<1>4. ASSUME NegativeValue(c, price) = 0 PROVE IsCollateralized(c, price, minCollateral)
  <2>1. PositiveValue(c, price) * BASE \in Nat
    BY <1>2, ProductNat, BaseAssumption
  <2> QED BY <1>4, <2>1 DEF IsCollateralized
<1>5. CASE b.positionIsPositive
  <2>1. ~b.marginIsPositive
    BY <1>3, <1>5 DEF NegativeValue
  <2>2. Position(b) = p /\ p > 0 /\ Margin(b) = 0 - m
    BY <1>1, <1>5, <2>1 DEF Position, Margin, GetPosition, GetMargin, ToInt
  <2>3. Position(c) \in 0..p /\ Margin(c) \in (0 - m)..0
    BY <1>1, <2>2 DEF PartOf
  <2>4. CASE ~c.positionIsPositive
    <3>1. Position(c) = 0 - q
      BY <1>1, <2>4 DEF Position, GetPosition, ToInt
    <3>2. q = 0 /\ Position(c) = 0
      BY <1>1, <2>3, <3>1
    <3>3. Margin(c) = 0
      BY <3>2 DEF PartOf
    <3>4. n = 0
      BY <1>1, <3>3 DEF Margin, GetMargin, ToInt
    <3>5. NegativeValue(c, price) = 0
      BY <1>1, <3>2, <3>4, BaseAssumption DEF NegativeValue
    <3> QED BY <3>5, <1>4 DEF FinalBalanceAllowed
  <2>5. CASE c.positionIsPositive
    <3>1. ~c.marginIsPositive /\ Margin(c) = 0 - n /\ Position(c) = q /\ q <= p
      BY <1>1, <2>3, <2>5 DEF Position, Margin, GetPosition, GetMargin, ToInt
    <3>2. n * p <= m * q
      <4>1. -Margin(c) * Position(b) <= -Margin(b) * Position(c)
        BY <1>1, <2>2 DEF PartOf
      <4>2. -(0 - n) * p <= -(0 - m) * q
        BY <2>2, <3>1, <4>1, Zenon
      <4> QED BY <1>1, <4>2
    <3>3. /\ PositiveValue(b, price) = p * price /\ NegativeValue(b, price) = m * BASE
          /\ PositiveValue(c, price) = q * price /\ NegativeValue(c, price) = n * BASE
      BY <1>1, <1>5, <2>1, <2>5, <3>1, BaseAssumption, ProductNat
         DEF PositiveValue, NegativeValue
    <3>4. q * price # 0
      BY <1>1, <2>5, <3>3
    <3>5. BaseDivMul(n * BASE, p * price) <= BaseDivMul(m * BASE, q * price)
      <4>1. (n * BASE) \div BASE = n /\ (m * BASE) \div BASE = m
        BY <1>1, BaseQuotient
      <4>2. n * (p * price) <= m * (q * price)
        <5>1. n * (p * price) = (n * p) * price /\ m * (q * price) = (m * q) * price
          BY <1>1
        <5>2. (n * p) * price <= (m * q) * price
          BY <1>1, <3>2, ProductNat, ProductMonotone
        <5> QED BY <5>1, <5>2
      <4> QED BY <4>1, <4>2 DEF BaseDivMul
    <3> QED BY <1>3, <1>5, <2>5, <3>1, <3>3, <3>4, <3>5 DEF FinalBalanceAllowed
  <2> QED BY <1>1, <2>4, <2>5
<1>6. CASE ~b.positionIsPositive
  <2>1. b.marginIsPositive /\ m > 0
    <3>1. PositiveValue(b, price) # 0
      OBVIOUS
    <3> QED BY <1>1, <1>6, <3>1 DEF PositiveValue
  <2>2. Position(b) = 0 - p /\ Margin(b) = m
    BY <1>1, <1>6, <2>1 DEF Position, Margin, GetPosition, GetMargin, ToInt
  <2>3. Position(c) \in (0 - p)..0 /\ Margin(c) \in 0..m
    BY <1>1, <2>1, <2>2 DEF PartOf
  <2>4. ~c.positionIsPositive /\ Position(c) = 0 - q /\ q <= p
    BY <1>1, <2>3 DEF Position, GetPosition, ToInt
  <2>5. CASE ~c.marginIsPositive
    <3>1. n = 0 /\ Margin(c) = 0
      BY <1>1, <2>3, <2>5 DEF Margin, GetMargin, ToInt
    <3>2. 0 >= m * q
      <4>1. -Margin(c) * Position(b) >= -Margin(b) * Position(c)
        BY <1>1, <2>2 DEF PartOf
      <4>2. -0 * (0 - p) >= -m * (0 - q)
        BY <2>2, <2>4, <3>1, <4>1, Zenon
      <4> QED BY <1>1, <4>2
    <3>3. q = 0
      BY <1>1, <2>1, <3>2
    <3>4. NegativeValue(c, price) = 0
      BY <1>1, <3>1, <3>3, BaseAssumption DEF NegativeValue
    <3> QED BY <3>4, <1>4 DEF FinalBalanceAllowed
  <2>6. CASE c.marginIsPositive
    <3>1. Margin(c) = n /\ n > 0
      BY <1>1, <2>6 DEF Margin, GetMargin, ToInt
    <3>2. m * q <= n * p
      <4>1. -Margin(c) * Position(b) >= -Margin(b) * Position(c)
        BY <1>1, <2>2 DEF PartOf
      <4>2. -n * (0 - p) >= -m * (0 - q)
        BY <2>2, <2>4, <3>1, <4>1, Zenon
      <4> QED BY <1>1, <4>2
    <3>3. /\ PositiveValue(b, price) = m * BASE /\ NegativeValue(b, price) = p * price
          /\ PositiveValue(c, price) = n * BASE /\ NegativeValue(c, price) = q * price
      BY <1>1, <1>6, <2>1, <2>4, <2>6, BaseAssumption, ProductNat
         DEF PositiveValue, NegativeValue
    <3>4. n * BASE # 0
      BY <1>1, <3>1, BaseAssumption
    <3>5. BaseDivMul(m * BASE, q * price) <= BaseDivMul(n * BASE, p * price)
      <4>1. (n * BASE) \div BASE = n /\ (m * BASE) \div BASE = m
        BY <1>1, BaseQuotient
      <4>2. m * (q * price) <= n * (p * price)
        <5>1. n * (p * price) = (n * p) * price /\ m * (q * price) = (m * q) * price
          BY <1>1
        <5>2. (m * q) * price <= (n * p) * price
          BY <1>1, <3>2, ProductNat, ProductMonotone
        <5> QED BY <5>1, <5>2
      <4> QED BY <4>1, <4>2 DEF BaseDivMul
    <3> QED BY <1>1, <1>3, <1>6, <2>4, <3>3, <3>4, <3>5 DEF FinalBalanceAllowed
  <2> QED BY <1>1, <2>5, <2>6
<1> QED
  BY <1>1, <1>5, <1>6

\* An account that is as it was passes the checks, if it has assets.
LEMMA SameIsAccepted ==
  ASSUME NEW b \in StoredBalance, NEW price \in Nat, minCollateral \in Nat,
         PositiveValue(b, price) # 0
  PROVE  FinalBalanceAllowed(b, b, price)
<1>1. PositiveValue(b, price) \in Nat /\ NegativeValue(b, price) \in Nat
  BY ValueSplit DEF StoredBalance
<1>2. CASE NegativeValue(b, price) = 0
  <2>1. PositiveValue(b, price) * BASE \in Nat
    BY <1>1, ProductNat, BaseAssumption
  <2> QED BY <1>2, <2>1 DEF FinalBalanceAllowed, IsCollateralized
<1>3. CASE NegativeValue(b, price) # 0
  <2> DEFINE pos == PositiveValue(b, price)
             neg == NegativeValue(b, price)
  <2>1. b.position \in Nat
    BY DEF StoredBalance, Balance
  <2>2. pos \div BASE \in Int /\ neg \div BASE \in Int
    BY <1>1, BaseAssumption
  <2>3. /\ BaseDivMul(neg, pos) <= BaseDivMul(neg, pos)
        /\ BaseDivMul(pos, neg) <= BaseDivMul(pos, neg)
    BY <1>1, <2>2 DEF BaseDivMul
  <2> QED BY <1>3, <2>1, <2>3 DEF FinalBalanceAllowed
<1> QED
  BY <1>2, <1>3

\* The inductive form of LiquidatedAccountsAccepted: an account that took no other part
\* in a call is as it was, or fell short then and is a part of what it was.
OnlyReduced ==
    status = Entered =>
        \A i \in DOMAIN call.accounts \ touched :
            \/ call.current[i] = call.initial[i]
            \/ /\ IsUndercollateralized(call.initial[i], call.price)
               /\ PartOf(call.current[i], call.initial[i])

\* A liquidation leaves its account a part of the balance in memory.
LEMMA LiquidationReduces ==
  ASSUME TypeOK, MemoryMatchesStorage, MemoryMatchesStorage',
         NEW amount \in Amount, NEW isBuy \in BOOLEAN, NEW allOrNothing,
         NEW maker \in DOMAIN call.accounts, NEW taker \in DOMAIN call.accounts,
         LiquidationTrade(amount, isBuy, allOrNothing, maker, taker)
  PROVE  /\ call.current[maker].position # 0
         /\ \/ call'.current[maker] = call.current[maker]
            \/ PartOf(call'.current[maker], call.current[maker])
<1>1. status = Entered /\ MakerBalanceRead(maker).position # 0
  BY DEF LiquidationTrade
<1>2. status' = Entered /\ call'.accounts = call.accounts
  BY DEF LiquidationTrade, TradeStep, AfterTrade
<1>3. /\ call.current[maker] = balances[call.accounts[maker]]
      /\ call'.current[maker] = balances'[call.accounts[maker]]
  BY <1>1, <1>2 DEF MemoryMatchesStorage
<1>4. CASE balances' = balances
  BY <1>1, <1>3, <1>4 DEF MakerBalanceRead
<1>5. CASE balances' # balances
  <2>1. PartOf(balances'[call.accounts[maker]], balances[call.accounts[maker]])
    BY <1>5, LiquidationTradeRatio
  <2> QED BY <1>1, <1>3, <2>1 DEF MakerBalanceRead
<1> QED
  BY <1>4, <1>5

\* The integers of a balance that is stored.
LEMMA StoredIntegers ==
  ASSUME NEW b \in StoredBalance
  PROVE  /\ Position(b) \in Int /\ Margin(b) \in Int
         /\ b.position # 0 => Position(b) # 0
BY DEF StoredBalance, Balance, Position, Margin, GetPosition, GetMargin, ToInt

LEMMA StepOnlyReduces ==
  LiquidationTypeOK /\ LiquidationTypeOK' /\ MemoryMatchesStorage /\ MemoryMatchesStorage'
      /\ OnlyReduced /\ [LiquidationNext]_allVars => OnlyReduced'
<1> SUFFICES ASSUME LiquidationTypeOK, LiquidationTypeOK', MemoryMatchesStorage,
                    MemoryMatchesStorage', OnlyReduced,
                    [LiquidationNext]_allVars, status' = Entered
             PROVE  OnlyReduced'
  BY DEF OnlyReduced
<1>0. TypeOK /\ TypeOK'
  BY DEF LiquidationTypeOK
<1>1. CASE TransactionStep
  <2>1. CASE \E by \in Account \union Operator, accounts \in AccountList :
                 BeginTransaction(by, accounts)
    <3>1. call'.current = call'.initial
      BY <2>1 DEF BeginTransaction, TradeBegin
    <3> QED BY <3>1 DEF OnlyReduced
  <2>2. CASE \E amount \in Amount, isBuy, allOrNothing \in BOOLEAN,
                maker, taker \in DOMAIN call.accounts :
                 LiquidationTrade(amount, isBuy, allOrNothing, maker, taker)
    <3>1. PICK amount \in Amount, isBuy \in BOOLEAN, allOrNothing \in BOOLEAN,
               maker \in DOMAIN call.accounts, taker \in DOMAIN call.accounts :
              LiquidationTrade(amount, isBuy, allOrNothing, maker, taker)
      BY <2>2
    <3>2. /\ status = Entered
          /\ call'.accounts = call.accounts /\ call'.initial = call.initial
          /\ call'.price = call.price /\ minCollateral' = minCollateral
          /\ \A i \in DOMAIN call.accounts \ {maker, taker} :
                 call'.current[i] = call.current[i]
          /\ touched' = touched \union {taker}
      BY <1>0, <3>1, TradeStepMemory DEF LiquidationTrade
    <3>3. IsUndercollateralized(call.current[maker], call.price)
      BY <3>1, LiquidatedFallsShort
    <3>4. /\ call.current[maker].position # 0
          /\ \/ call'.current[maker] = call.current[maker]
             \/ PartOf(call'.current[maker], call.current[maker])
      BY <1>0, <3>1, LiquidationReduces
    <3>5. SUFFICES ASSUME NEW i \in DOMAIN call.accounts \ (touched \union {taker})
                   PROVE  \/ call'.current[i] = call.initial[i]
                          \/ /\ IsUndercollateralized(call.initial[i], call.price)
                             /\ PartOf(call'.current[i], call.initial[i])
      BY <3>2 DEF OnlyReduced, IsUndercollateralized
    <3>6. \/ call.current[i] = call.initial[i]
          \/ /\ IsUndercollateralized(call.initial[i], call.price)
             /\ PartOf(call.current[i], call.initial[i])
      BY <3>2, <3>5 DEF OnlyReduced
    <3>7. CASE i # maker
      BY <3>2, <3>5, <3>6, <3>7
    <3>8. CASE i = maker /\ call'.current[maker] # call.current[maker]
      <4>1. PartOf(call'.current[i], call.current[i])
        BY <3>4, <3>8
      <4>2. CASE call.current[i] = call.initial[i]
        BY <3>3, <3>8, <4>1, <4>2
      <4>3. CASE call.current[i] # call.initial[i]
        <5>1. /\ call.initial[i] \in StoredBalance /\ call.current[i] \in StoredBalance
              /\ call'.current[i] \in StoredBalance
          <6>1. /\ call.initial \in [DOMAIN call.accounts -> StoredBalance]
                /\ call.current \in [DOMAIN call.accounts -> StoredBalance]
            BY <1>0, <3>2 DEF TypeOK, CallTypeOK
          <6>2. call'.current \in [DOMAIN call'.accounts -> StoredBalance]
            BY <1>0 DEF TypeOK, CallTypeOK
          <6> QED BY <3>2, <3>5, <6>1, <6>2
        <5>2. PartOf(call'.current[i], call.initial[i])
          BY <3>4, <3>6, <3>8, <4>1, <4>3, <5>1, StoredIntegers, PartOfTransitive
        <5> QED BY <3>6, <4>3, <5>2
      <4> QED BY <4>2, <4>3
    <3>9. CASE i = maker /\ call'.current[maker] = call.current[maker]
      BY <3>6, <3>9
    <3> QED BY <3>7, <3>8, <3>9
  <2>3. CASE OtherTrade
    <3>1. PICK trader \in Operator \ {Liquidation}, maker \in DOMAIN call.accounts,
               taker \in DOMAIN call.accounts, marginAmount \in Amount,
               positionAmount \in Amount, isBuy \in BOOLEAN :
              /\ TradeStep(trader, maker, taker, marginAmount, positionAmount, isBuy)
              /\ touched' = touched \union {maker, taker}
      BY <2>3 DEF OtherTrade
    <3>2. /\ status = Entered
          /\ call'.accounts = call.accounts /\ call'.initial = call.initial
          /\ call'.price = call.price /\ minCollateral' = minCollateral
          /\ \A i \in DOMAIN call.accounts \ {maker, taker} :
                 call'.current[i] = call.current[i]
      BY <1>0, <3>1, TradeStepMemory
    <3> QED BY <3>1, <3>2 DEF OnlyReduced, IsUndercollateralized
  <2>4. CASE EndTransaction \/ RevertTransaction
    BY <2>4 DEF EndTransaction, RevertTransaction, TradeEnd, TradeRevert, Entered, NotEntered
  <2> QED BY <1>1, <2>1, <2>2, <2>3, <2>4 DEF TransactionStep
<1>2. CASE OtherStep
  <2>1. status = Entered /\ UNCHANGED liquidationVars /\ call' = call /\ minCollateral' = minCollateral
    BY <1>2, OtherStepInTrade
  <2> QED BY <2>1 DEF OnlyReduced, IsUndercollateralized, liquidationVars
<1>3. CASE UNCHANGED allVars
  BY <1>3 DEF allVars, vars, liquidationVars, ledger, config, OnlyReduced, IsUndercollateralized
<1> QED
  BY <1>1, <1>2, <1>3 DEF LiquidationNext

\* An account with assets that was liquidated, any number of times and by any amounts, and
\* took no other part in the call, never makes the checks at its end fail
\* (_verifyAccountsFinalBalances): the liquidation goes through.
THEOREM LiquidatedPass == LiquidationSpec => []LiquidatedAccountsAccepted
<1>1. LiquidationInit => OnlyReduced
  BY DEF LiquidationInit, Init, OnlyReduced, Entered, NotEntered
<1>2. LiquidationSpec => [](LiquidationTypeOK /\ MemoryMatchesStorage)
  BY LiquidationTypeCorrect, LiquidationImplements, MemoryIsStorage, PTL
<1>3. LiquidationSpec => []OnlyReduced
  BY <1>1, <1>2, StepOnlyReduces, PTL DEF LiquidationSpec
<1>4. LiquidationTypeOK /\ OnlyReduced => LiquidatedAccountsAccepted
  <2> SUFFICES ASSUME LiquidationTypeOK, OnlyReduced, status = Entered,
                      NEW i \in DOMAIN call.accounts \ touched,
                      PositiveValue(call.initial[i], call.price) # 0
               PROVE  FinalBalanceAllowed(call.initial[i], call.current[i], call.price)
    BY DEF LiquidatedAccountsAccepted
  <2>1. /\ call.initial[i] \in StoredBalance /\ call.current[i] \in StoredBalance
        /\ call.price \in Nat /\ minCollateral \in Nat
    BY MarketAssumption, CollateralAssumption DEF LiquidationTypeOK, TypeOK, CallTypeOK
  <2>2. \/ call.current[i] = call.initial[i]
        \/ /\ IsUndercollateralized(call.initial[i], call.price)
           /\ PartOf(call.current[i], call.initial[i])
    BY DEF OnlyReduced
  <2> QED BY <2>1, <2>2, SameIsAccepted, PartIsAccepted
<1> QED
  BY <1>2, <1>3, <1>4, PTL

\* Every step keeps the ratio of an account it liquidates.
LEMMA StepKeepsRatio ==
  ASSUME LiquidationTypeOK, MemoryMatchesStorage, [LiquidationNext]_allVars,
         liquidated' # 0, balances' # balances
  PROVE  PartOf(balances'[call.accounts[liquidated']], balances[call.accounts[liquidated']])
<1>0. liquidated # 0 => status = Entered
  BY DEF LiquidationTypeOK
<1>1. CASE TransactionStep
  <2>1. CASE \E by \in Account \union Operator, accounts \in AccountList :
                 BeginTransaction(by, accounts)
    BY <1>0, <2>1 DEF BeginTransaction, TradeBegin, nonReentrant, Entered, NotEntered
  <2>2. CASE \E amount \in Amount, isBuy, allOrNothing \in BOOLEAN,
                maker, taker \in DOMAIN call.accounts :
                 LiquidationTrade(amount, isBuy, allOrNothing, maker, taker)
    <3>1. PICK amount \in Amount, isBuy \in BOOLEAN, allOrNothing \in BOOLEAN,
               maker \in DOMAIN call.accounts, taker \in DOMAIN call.accounts :
              LiquidationTrade(amount, isBuy, allOrNothing, maker, taker)
      BY <2>2
    <3>2. liquidated' = maker
      BY <3>1 DEF LiquidationTrade
    <3>3. TypeOK
      BY DEF LiquidationTypeOK
    <3> QED BY <3>1, <3>2, <3>3, LiquidationTradeRatio
  <2>3. CASE OtherTrade
    BY <2>3 DEF OtherTrade
  <2>4. CASE EndTransaction \/ RevertTransaction
    BY <2>4 DEF EndTransaction, RevertTransaction
  <2> QED BY <1>1, <2>1, <2>2, <2>3, <2>4 DEF TransactionStep
<1>2. CASE OtherStep
  BY <1>0, <1>2, OtherStepInTrade DEF liquidationVars
<1>3. CASE UNCHANGED allVars
  BY <1>3 DEF allVars, vars, ledger
<1> QED
  BY <1>1, <1>2, <1>3 DEF LiquidationNext

\* A liquidation never harms the account, for any market, amounts and rounding, and
\* whatever trades precede it in the call ("Ensure the collateralization of the maker
\* does not decrease", trade() of P1Liquidation).
THEOREM RatioIsKept == LiquidationSpec => LiquidationKeepsRatio
<1>1. LiquidationSpec => [](LiquidationTypeOK /\ MemoryMatchesStorage)
  BY LiquidationTypeCorrect, LiquidationImplements, MemoryIsStorage, PTL
<1>2. LiquidationTypeOK /\ MemoryMatchesStorage /\ [LiquidationNext]_allVars =>
        [liquidated' # 0 /\ balances' # balances =>
            LET account == call.accounts[liquidated']
            IN  PartOf(balances'[account], balances[account])]_allVars
  BY StepKeepsRatio
<1> QED
  BY <1>1, <1>2, PTL DEF LiquidationSpec, LiquidationKeepsRatio

-----------------------------------------------------------------------------
(* The liquidator proxy: its inductive invariant                            *)

\* The memory of liquidate() between two of its calls.
Frame ==
    [stage : {"settled", "trading", "traded", "ended", "withdrawn"},
     liquidatee : Account, liquidator : Account, delta : SignedInt,
     maxPosition : SignedInt, fee : Nat, initialBalance : StoredBalance,
     saved : [balances : StoredBalances, localIndexes : StoredIndexes,
              globalIndex : StoredIndex, tokens : 0..TokenSupply, proxyTokens : {0}]]

\* The books a revert would restore balance.
SavedBooks(saved) ==
    /\ saved.globalIndex.timestamp \in 1..now
    /\ InSync(saved.localIndexes, saved.globalIndex)
    /\ Total(Positions(saved.balances)) = 0
    /\ Total(Claims(saved.balances, saved.localIndexes)) <= BASE * saved.tokens

\* The two accounts in the order trade() wants them.
SortedPair == IF frame.liquidator < frame.liquidatee
              THEN <<frame.liquidator, frame.liquidatee>>
              ELSE <<frame.liquidatee, frame.liquidator>>

\* A position between the one before liquidate() and the maximum asked for.
WithinLimit(position) ==
    LET before == Position(frame.initialBalance)
        max    == ToInt(frame.maxPosition)
    IN  IF before < max THEN position \in before..max ELSE position \in max..before

\* What the liquidator has gained since its account was settled, and the fee for that.
Profit == NetValue(balances[frame.liquidator], ContextPrice)
            - NetValue(frame.initialBalance, ContextPrice)

FeeOn(profit) == IF profit > 0 THEN BaseMul(profit, insuranceFee) \div BASE ELSE 0

\* The accounts: the liquidator is settled, and nobody but the two has been touched.
AccountsInFrame ==
    /\ frame.initialBalance = SettledBalance(frame.saved.balances[frame.liquidator],
                                  frame.saved.localIndexes[frame.liquidator], globalIndex)
    /\ localIndexes[frame.liquidator] = globalIndex
    /\ \A account \in Account \ {frame.liquidator, frame.liquidatee} :
          /\ balances[account] = frame.saved.balances[account]
          /\ localIndexes[account] = frame.saved.localIndexes[account]

\* What each stage has reached.
StageOK ==
    /\ frame.stage \in {"settled", "trading"} =>
          balances[frame.liquidator] = frame.initialBalance
    /\ frame.stage = "trading" => call.accounts = SortedPair
    /\ frame.stage \in {"traded", "ended", "withdrawn"} =>
          WithinLimit(Position(balances[frame.liquidator]))
    /\ frame.stage = "ended" => frame.fee > 0 /\ frame.fee = FeeOn(Profit)
    /\ frame.stage = "withdrawn" =>
          frame.fee > 0 /\ frame.fee = FeeOn(Profit + BASE * frame.fee)

FrameInv ==
    ~Idle =>
        /\ frame \in Frame
        /\ ~finalSettlementEnabled /\ globalIndex.timestamp = now
        /\ SavedBooks(frame.saved)
        /\ frame.delta = MaxPositionDelta(frame.initialBalance, frame.maxPosition)
        /\ frame.delta.value > 0
        /\ AccountsInFrame
        /\ StageOK

\* The inductive invariant: that of PerpetualV1, which every call of liquidate() keeps,
\* and what liquidate() remembers between them.
ProxyIInv == IInv /\ ProxyTypeOK /\ FrameInv

\* An account list of two accounts.
LEMMA PairIsList ==
  ASSUME NEW a \in Account, NEW b \in Account
  PROVE  <<a, b>> \in AccountList /\ DOMAIN <<a, b>> = {1, 2}
<1>1. 2 \in 0..MaxAccounts
  BY ProxyAssumption, TradesAssumption
<1>2. <<a, b>> \in [1..2 -> Account] /\ DOMAIN <<a, b>> = {1, 2}
  OBVIOUS
<1> QED BY <1>1, <1>2 DEF AccountList

\* Within a transaction the index moves once: an account already settled stays as it is.
LEMMA SettledOnce ==
  ASSUME TypeOK, globalIndex.timestamp = now
  PROVE  /\ ContextIndex = globalIndex
         /\ \A account \in Account :
               localIndexes[account] = globalIndex =>
                   Settled(account, ContextIndex) = balances[account]
<1>1. ContextIndex = globalIndex
  BY ContextTypes
<1> QED BY <1>1 DEF Settled, SettledBalance

\* The memory of liquidate(), piece by piece.
LEMMA FrameTypes ==
  ASSUME ProxyIInv, ~Idle
  PROVE  /\ frame \in Frame /\ TypeOK /\ LiquidationTypeOK
         /\ frame.liquidator \in Account /\ frame.liquidatee \in Account
         /\ frame.delta \in SignedInt /\ frame.maxPosition \in SignedInt
         /\ frame.fee \in Nat /\ frame.initialBalance \in StoredBalance
         /\ frame.saved.balances \in StoredBalances
         /\ frame.saved.localIndexes \in StoredIndexes
         /\ frame.saved.globalIndex \in StoredIndex
         /\ frame.saved.tokens \in 0..TokenSupply /\ frame.saved.proxyTokens = 0
         /\ frame.stage \in {"settled", "trading", "traded", "ended", "withdrawn"}
         /\ (status = Entered) = (frame.stage \in {"trading", "traded"})
         /\ insuranceFee \in Nat
BY ProxyAssumption DEF ProxyIInv, FrameInv, Frame, IInv, ProxyTypeOK

\* The next stage, with a fee or the fee it had.
LEMMA FrameStage ==
  ASSUME frame \in Frame,
         NEW stage \in {"settled", "trading", "traded", "ended", "withdrawn"}, NEW fee \in Nat,
         \/ frame' = [frame EXCEPT !.stage = stage] /\ fee = frame.fee
         \/ frame' = [frame EXCEPT !.stage = stage, !.fee = fee]
  PROVE  /\ frame' \in Frame /\ ~Idle' /\ frame'.stage = stage /\ frame'.fee = fee
         /\ frame'.liquidator = frame.liquidator /\ frame'.liquidatee = frame.liquidatee
         /\ frame'.delta = frame.delta /\ frame'.maxPosition = frame.maxPosition
         /\ frame'.initialBalance = frame.initialBalance /\ frame'.saved = frame.saved
<1>1. frame' \in Frame
  BY DEF Frame
<1>2. frame'.stage = stage /\ NoFrame.stage = "idle"
  BY DEF Frame, NoFrame
<1>3. ~Idle'
  BY <1>2 DEF Idle
<1> QED BY <1>1, <1>2, <1>3 DEF Frame

\* The four types of the sender and of the history when no trade() is executed.
LEMMA NoCallTypes ==
  ASSUME LiquidationTypeOK, TypeOK', status # Entered, status' # Entered,
         UNCHANGED liquidationVars
  PROVE  LiquidationTypeOK'
BY DEF LiquidationTypeOK, liquidationVars

\* The balance the liquidator has when it is settled bounds the change asked for: the
\* position may move by delta.value in the direction of delta, and no further.
LEMMA DeltaReaches ==
  ASSUME NEW b \in StoredBalance, NEW max \in SignedInt, NEW p \in Int, NEW a \in Nat,
         MaxPositionDelta(b, max).value > 0, a <= MaxPositionDelta(b, max).value,
         p = Position(b) + (IF MaxPositionDelta(b, max).isPositive THEN a ELSE -a)
  PROVE  /\ MaxPositionDelta(b, max) \in SignedInt
         /\ IF Position(b) < ToInt(max) THEN p \in Position(b)..ToInt(max)
                                        ELSE p \in ToInt(max)..Position(b)
<1> DEFINE d == MaxPositionDelta(b, max)
<1>1. GetPosition(b) \in SignedInt /\ Position(b) \in Int /\ ToInt(max) \in Int
  BY BalanceInt DEF StoredBalance, Balance, GetPosition, SignedInt, ToInt
<1>2. d \in SignedInt /\ ToInt(d) = ToInt(max) - Position(b)
  BY <1>1, SignedAddSubCorrect DEF MaxPositionDelta, Position
<1> HIDE DEF d
<1>3. d.value \in Nat /\ d.isPositive \in BOOLEAN
      /\ ToInt(d) = IF d.isPositive THEN d.value ELSE -d.value
  BY <1>2 DEF SignedInt, ToInt
<1>4. CASE d.isPositive
  <2>1. d.value = ToInt(max) - Position(b) /\ p = Position(b) + a /\ d.value > 0 /\ a <= d.value
    BY <1>2, <1>3, <1>4 DEF d
  <2> QED BY <1>1, <1>2, <1>3, <2>1 DEF d
<1>5. CASE ~d.isPositive
  <2>1. d.value = Position(b) - ToInt(max) /\ p = Position(b) - a /\ d.value > 0 /\ a <= d.value
    BY <1>1, <1>2, <1>3, <1>5 DEF d
  <2> QED BY <1>1, <1>2, <1>3, <2>1 DEF d
<1> QED BY <1>4, <1>5

-----------------------------------------------------------------------------
(* The invariant, step by step                                              *)

\* The deposit of 0 settles the liquidator; what it returns is remembered.
LEMMA SettleKeeps ==
  ASSUME ProxyIInv, NEW msgSender, NEW liquidatee \in Account, NEW liquidator \in Account,
         NEW isBuy, NEW maxPosition \in MaxPosition,
         LiquidateSettle(msgSender, liquidatee, liquidator, isBuy, maxPosition)
  PROVE  ProxyIInv'
<1> DEFINE delta == MaxPositionDelta(InitialBalance(liquidator), maxPosition)
<1>1. /\ Idle /\ IInv /\ TypeOK /\ LiquidationTypeOK /\ ProxyTypeOK /\ proxyTokens = 0
      /\ BooksBalance(balances, localIndexes, globalIndex)
  BY DEF ProxyIInv, IInv, ProxyTypeOK, LiquidateSettle, Idle, NoFrame
<1>2. /\ Deposit(liquidator, 0)
      /\ delta.isPositive = isBuy /\ delta.value > 0
      /\ frame' = [stage |-> "settled", liquidatee |-> liquidatee,
                   liquidator |-> liquidator, delta |-> delta,
                   maxPosition |-> maxPosition, fee |-> 0,
                   initialBalance |-> InitialBalance(liquidator),
                   saved |-> SavedByProxy]
      /\ UNCHANGED <<liquidationVars, proxyConfig, proxyTokens>>
  BY DEF LiquidateSettle
<1>3. IInv' /\ TypeOK'
  <2>1. 0 \in Nat
    OBVIOUS
  <2> QED BY <1>1, <1>2, <2>1, MarginIInv DEF IInv
<1>4. /\ status = NotEntered /\ status' = NotEntered /\ ~finalSettlementEnabled
      /\ ~finalSettlementEnabled' /\ now' = now
      /\ LoadContextAndSettle({liquidator},
             [a \in {liquidator} |-> AddToMargin(Settled(liquidator, ContextIndex), 0)])
  BY <1>2 DEF Deposit, noFinalSettlement, nonReentrant, final, world
<1>5. /\ globalIndex' = ContextIndex
      /\ localIndexes' = [a \in Account |->
             IF a = liquidator THEN ContextIndex ELSE localIndexes[a]]
      /\ balances' = [a \in Account |->
             IF a = liquidator THEN AddToMargin(Settled(liquidator, ContextIndex), 0)
                               ELSE balances[a]]
      /\ ContextIndex.timestamp = now
  BY <1>1, <1>4, ContextTypes DEF LoadContextAndSettle
<1>6. AddToMargin(Settled(liquidator, ContextIndex), 0) = Settled(liquidator, ContextIndex)
  <2> DEFINE b == Settled(liquidator, ContextIndex)
  <2>1. b \in Balance /\ Canonical(GetMargin(b))
    BY <1>1, ContextTypes, SettledTypes
  <2> HIDE DEF b
  <2>2. /\ b.margin \in Nat /\ b.marginIsPositive \in BOOLEAN
        /\ b = [marginIsPositive |-> b.marginIsPositive,
                positionIsPositive |-> b.positionIsPositive,
                margin |-> b.margin, position |-> b.position]
    BY <2>1 DEF Balance
  <2>3. Add(GetMargin(b), 0) = [value |-> b.margin, isPositive |-> b.marginIsPositive]
    <3>1. b.margin + 0 = b.margin /\ 0 + b.margin = b.margin /\ b.margin - 0 = b.margin
          /\ ~(b.margin < 0)
      BY <2>2
    <3>2. CASE b.marginIsPositive
      BY <3>1, <3>2 DEF Add, GetMargin
    <3>3. CASE ~b.marginIsPositive
      BY <2>2, <3>1, <3>3 DEF Add, GetMargin
    <3> QED BY <3>2, <3>3
  <2>4. AddToMargin(b, 0) = [marginIsPositive |-> b.marginIsPositive,
                             positionIsPositive |-> b.positionIsPositive,
                             margin |-> b.margin, position |-> b.position]
    <3> DEFINE m == Add(GetMargin(b), 0)
    <3>1. m.value = b.margin /\ m.isPositive = b.marginIsPositive
      BY <2>3
    <3> HIDE DEF m
    <3>2. SetMargin(b, m) = [marginIsPositive |-> b.marginIsPositive,
                             positionIsPositive |-> b.positionIsPositive,
                             margin |-> b.margin, position |-> b.position]
      BY <3>1 DEF SetMargin
    <3> QED BY <3>2 DEF AddToMargin, m
  <2>5. AddToMargin(b, 0) = b
    BY <2>2, <2>4
  <2> QED BY <2>5 DEF b
<1>7. /\ balances'[liquidator] = Settled(liquidator, ContextIndex)
      /\ localIndexes'[liquidator] = ContextIndex
      /\ \A a \in Account \ {liquidator} :
            balances'[a] = balances[a] /\ localIndexes'[a] = localIndexes[a]
      /\ balances'[liquidator] \in StoredBalance
  BY <1>3, <1>5, <1>6 DEF TypeOK, StoredBalances
<1>8. maxPosition \in SignedInt /\ delta \in SignedInt
  <2>1. GetPosition(balances'[liquidator]) \in SignedInt /\ maxPosition \in SignedInt
    BY <1>7, ProxyAssumption DEF StoredBalance, Balance, GetPosition, SignedInt
  <2> QED BY <2>1, SignedAddSubCorrect DEF MaxPositionDelta, InitialBalance
<1> HIDE DEF delta
<1>9. /\ frame'.stage = "settled" /\ frame'.liquidatee = liquidatee
      /\ frame'.liquidator = liquidator /\ frame'.delta = delta /\ frame'.fee = 0
      /\ frame'.maxPosition = maxPosition /\ frame'.initialBalance = balances'[liquidator]
      /\ frame'.saved = SavedByProxy
  BY <1>2 DEF InitialBalance
<1>10. SavedByProxy.balances = balances /\ SavedByProxy.localIndexes = localIndexes
       /\ SavedByProxy.globalIndex = globalIndex /\ SavedByProxy.tokens = tokens
       /\ SavedByProxy.proxyTokens = 0
  BY <1>1 DEF SavedByProxy
<1>11. frame' \in Frame
  <2>1. SavedByProxy \in [balances : StoredBalances, localIndexes : StoredIndexes,
                          globalIndex : StoredIndex, tokens : 0..TokenSupply,
                          proxyTokens : {0}]
    BY <1>1 DEF SavedByProxy, TypeOK
  <2>2. frame' = [stage |-> "settled", liquidatee |-> liquidatee,
                  liquidator |-> liquidator, delta |-> delta,
                  maxPosition |-> maxPosition, fee |-> 0,
                  initialBalance |-> balances'[liquidator], saved |-> SavedByProxy]
    BY <1>2 DEF InitialBalance, delta
  <2> QED BY <1>7, <1>8, <2>1, <2>2 DEF Frame
<1>12. SavedBooks(frame.saved)'
  <2>1. globalIndex.timestamp \in 1..now
    BY <1>1 DEF TypeOK
  <2>2. /\ InSync(localIndexes, globalIndex)
        /\ Total(Positions(balances)) = 0
        /\ Total(Claims(balances, localIndexes)) <= BASE * tokens
    BY <1>1, <1>4 DEF BooksBalance, noFinalSettlement
  <2> QED BY <1>4, <1>9, <1>10, <2>1, <2>2 DEF SavedBooks
<1>13. AccountsInFrame'
  <2>1. frame'.initialBalance
          = SettledBalance(balances[liquidator], localIndexes[liquidator], globalIndex')
    BY <1>5, <1>7, <1>9 DEF Settled
  <2> QED BY <1>5, <1>7, <1>9, <1>10, <2>1 DEF AccountsInFrame
<1>14. StageOK'
  BY <1>9 DEF StageOK
<1>15. FrameInv'
  <2>1. globalIndex'.timestamp = now'
    BY <1>4, <1>5
  <2>2. frame'.delta = MaxPositionDelta(frame'.initialBalance, frame'.maxPosition)
        /\ frame'.delta.value > 0
    BY <1>2, <1>9 DEF delta, InitialBalance
  <2> QED BY <1>4, <1>11, <1>12, <1>13, <1>14, <2>1, <2>2 DEF FrameInv
<1>16. LiquidationTypeOK'
  BY <1>1, <1>2, <1>3, <1>4, NoCallTypes DEF NotEntered, Entered
<1>17. ProxyTypeOK'
  BY <1>1, <1>2, <1>4, <1>7, <1>9, <1>16 DEF ProxyTypeOK, proxyConfig, NotEntered, Entered
<1> QED BY <1>3, <1>15, <1>17 DEF ProxyIInv

\* _doLiquidation enters trade(), which settles both accounts; the liquidator is settled
\* already, so its balance stays what was remembered.
LEMMA TradeBeginKeeps ==
  ASSUME ProxyIInv, LiquidateTradeBegin
  PROVE  /\ ProxyIInv' /\ Next /\ ~Idle /\ ~Idle' /\ frame.stage = "settled"
         /\ frame'.stage = "trading" /\ frame'.liquidator = frame.liquidator
         /\ frame'.liquidatee = frame.liquidatee /\ frame'.saved = frame.saved
         /\ globalIndex' = globalIndex /\ UNCHANGED <<tokens, final, proxyTokens>>
         /\ balances' = [balances EXCEPT ![frame.liquidatee] =
                            Settled(frame.liquidatee, globalIndex)]
         /\ localIndexes' = [localIndexes EXCEPT ![frame.liquidatee] = globalIndex]
<1> DEFINE l == frame.liquidator
           e == frame.liquidatee
<1>1. /\ frame.stage = "settled" /\ BeginTransaction(LiquidatorProxy, SortedPair)
      /\ frame' = [frame EXCEPT !.stage = "trading"]
      /\ UNCHANGED <<proxyConfig, proxyTokens>>
  BY DEF LiquidateTradeBegin, SortedPair
<1>2. ~Idle /\ frame.stage # "withdrawn"
  BY <1>1 DEF Idle, NoFrame
<1>3. /\ IInv /\ TypeOK /\ LiquidationTypeOK /\ ProxyTypeOK /\ frame \in Frame
      /\ l \in Account /\ e \in Account /\ FrameInv
      /\ globalIndex.timestamp = now /\ AccountsInFrame /\ StageOK
  BY <1>2, FrameTypes DEF ProxyIInv, IInv, ProxyTypeOK, FrameInv
<1>4. /\ TradeBegin(SortedPair) /\ sender' = LiquidatorProxy
      /\ UNCHANGED <<liquidated, touched>>
  BY <1>1 DEF BeginTransaction
<1>5. SortedPair \in AccountList /\ Elements(SortedPair) = {l, e}
  <2>1. SortedPair \in {<<l, e>>, <<e, l>>}
    BY DEF SortedPair
  <2> QED BY <1>3, <2>1, PairIsList DEF Elements
<1>6. Next /\ IInv' /\ TypeOK'
  <2>1. Next
    BY <1>4, <1>5 DEF Next, TradeCallStep
  <2> QED BY <1>3, <2>1, NextIInv DEF IInv
<1>7. /\ LoadContextAndSettle({l, e}, [a \in {l, e} |-> Settled(a, ContextIndex)])
      /\ status = NotEntered /\ status' = Entered /\ call'.accounts = SortedPair
      /\ UNCHANGED <<config, final, world>>
  BY <1>4, <1>5 DEF TradeBegin, nonReentrant
<1>8. /\ globalIndex' = globalIndex
      /\ localIndexes' = [a \in Account |->
             IF a \in {l, e} THEN ContextIndex ELSE localIndexes[a]]
      /\ balances' = [a \in Account |->
             IF a \in {l, e} THEN Settled(a, ContextIndex) ELSE balances[a]]
      /\ ContextIndex = globalIndex /\ localIndexes[l] = globalIndex
      /\ Settled(l, ContextIndex) = balances[l]
  BY <1>3, <1>7, SettledOnce DEF LoadContextAndSettle, AccountsInFrame
<1>9. frame' \in Frame /\ frame'.stage = "trading"
      /\ frame'.liquidator = l /\ frame'.liquidatee = e /\ frame'.delta = frame.delta
      /\ frame'.maxPosition = frame.maxPosition /\ frame'.fee = frame.fee
      /\ frame'.initialBalance = frame.initialBalance /\ frame'.saved = frame.saved
  <2>1. frame.fee \in Nat
    BY <1>2, FrameTypes
  <2>2. "trading" \in {"settled", "trading", "traded", "ended", "withdrawn"}
    OBVIOUS
  <2> QED BY <1>1, <1>3, <2>1, <2>2, FrameStage, Zenon
<1>10. balances'[l] = balances[l] /\ localIndexes'[l] = globalIndex
  BY <1>3, <1>8
<1>11. AccountsInFrame'
  BY <1>3, <1>8, <1>9, <1>10 DEF AccountsInFrame
<1>12. StageOK'
  <2>1. balances[l] = frame.initialBalance
    BY <1>1, <1>3 DEF StageOK
  <2>2. SortedPair' = SortedPair
    BY <1>9 DEF SortedPair
  <2> QED BY <1>7, <1>9, <1>10, <2>1, <2>2 DEF StageOK
<1>13. FrameInv'
  BY <1>2, <1>3, <1>7, <1>8, <1>9, <1>11, <1>12 DEF FrameInv, SavedBooks, final, world
<1>14. LiquidationTypeOK'
  <2>1. liquidated = 0 /\ touched = {}
    BY <1>3, <1>7 DEF LiquidationTypeOK, NotEntered, Entered
  <2> QED BY <1>4, <1>6, <1>7, <2>1, ProxyAssumption DEF LiquidationTypeOK
<1>15. ProxyTypeOK'
  BY <1>1, <1>2, <1>3, <1>7, <1>9, <1>14 DEF ProxyTypeOK, proxyConfig, Frame
<1>16. /\ balances' = [balances EXCEPT ![e] = Settled(e, globalIndex)]
       /\ localIndexes' = [localIndexes EXCEPT ![e] = globalIndex]
  BY <1>3, <1>8, StoredLedger
<1>17. UNCHANGED <<tokens, final, proxyTokens>>
  BY <1>1, <1>4, <1>7 DEF TradeBegin
<1> QED BY <1>1, <1>2, <1>6, <1>8, <1>9, <1>13, <1>15, <1>16, <1>17 DEF ProxyIInv, FrameInv, Idle, NoFrame

\* P1Liquidation takes no more than asked from the other account, and trade() gives it
\* to the liquidator.
LEMMA TradeKeeps ==
  ASSUME ProxyIInv, LiquidateTrade
  PROVE  /\ ProxyIInv' /\ Next /\ ~Idle /\ ~Idle' /\ frame.stage = "trading"
         /\ frame'.stage = "traded" /\ frame'.liquidator = frame.liquidator
         /\ frame'.liquidatee = frame.liquidatee /\ frame'.saved = frame.saved
         /\ Total(Claims(balances', localIndexes')) = Total(Claims(balances, localIndexes))
         /\ UNCHANGED <<localIndexes, globalIndex, tokens, final, proxyTokens>>
<1> DEFINE l == frame.liquidator
           e == frame.liquidatee
           taker == IF l < e THEN 1 ELSE 2
           maker == 3 - taker
           d == frame.delta
           pa == PositionAmount(balances[e], d.value)
           ma == MarginAmount(balances[e], pa, d.isPositive)
<1>1. /\ frame.stage = "trading" /\ frame' = [frame EXCEPT !.stage = "traded"]
      /\ LiquidationTrade(d.value, d.isPositive, FALSE, maker, taker)
      /\ UNCHANGED <<proxyConfig, proxyTokens>>
  BY DEF LiquidateTrade
<1>2. ~Idle /\ frame.stage # "withdrawn"
  BY <1>1 DEF Idle, NoFrame
<1>3. /\ IInv /\ TypeOK /\ LiquidationTypeOK /\ ProxyTypeOK /\ frame \in Frame
      /\ MemoryMatchesStorage
      /\ l \in Account /\ e \in Account /\ d \in SignedInt /\ FrameInv /\ frame.fee \in Nat
      /\ globalIndex.timestamp = now /\ AccountsInFrame /\ StageOK
      /\ frame.initialBalance \in StoredBalance /\ frame.maxPosition \in SignedInt
  BY <1>2, FrameTypes DEF ProxyIInv, IInv, ProxyTypeOK, FrameInv
<1>4. /\ status = Entered /\ VerifyAccounts(call.accounts) /\ call.accounts = SortedPair
      /\ call.accounts \in AccountList /\ balances[l] = frame.initialBalance
  BY <1>1, <1>3 DEF IInv, TypeOK, CallTypeOK, StageOK, LiquidationTrade
<1>5. /\ taker \in {1, 2} /\ maker \in {1, 2} /\ maker # taker
      /\ DOMAIN call.accounts = {1, 2}
      /\ call.accounts[taker] = l /\ call.accounts[maker] = e
  <2>1. CASE l < e
    <3>1. call.accounts = <<l, e>> /\ taker = 1 /\ maker = 2
      BY <1>4, <2>1 DEF SortedPair
    <3> QED BY <1>3, <3>1, PairIsList
  <2>2. CASE ~(l < e)
    <3>1. call.accounts = <<e, l>> /\ taker = 2 /\ maker = 1
      BY <1>4, <2>2 DEF SortedPair
    <3> QED BY <1>3, <3>1, PairIsList
  <2> QED BY <2>1, <2>2
<1>6. taker \in DOMAIN call.accounts /\ maker \in DOMAIN call.accounts /\ l # e
  <2>1. taker \in DOMAIN call.accounts /\ maker \in DOMAIN call.accounts
    BY <1>5
  <2>2. call.accounts[taker] = call.accounts[maker] => taker = maker
    BY <1>4, <2>1, SortedInjective
  <2> QED BY <1>5, <2>1, <2>2
<1> HIDE DEF taker, maker
<1>7. /\ d.isPositive \in BOOLEAN /\ d.value \in Nat
      /\ pa \in Amount /\ ma \in Amount /\ pa \in Nat /\ ma \in Nat /\ pa <= d.value
      /\ TradeStep(Liquidation, maker, taker, ma, pa, d.isPositive)
      /\ sender' = sender /\ liquidated' = maker /\ touched' = touched \union {taker}
  <2>1. MakerBalanceRead(maker) = balances[e]
    BY <1>5 DEF MakerBalanceRead
  <2>2. /\ {ma, pa} \subseteq Amount
        /\ TradeStep(Liquidation, maker, taker, ma, pa, d.isPositive)
        /\ sender' = sender /\ liquidated' = maker /\ touched' = touched \union {taker}
    BY <1>1, <2>1 DEF LiquidationTrade
  <2>3. d.isPositive \in BOOLEAN /\ d.value \in Nat
    BY <1>3 DEF SignedInt
  <2>4. ma \in Nat /\ pa \in Nat
    BY <2>2, AmountAssumption
  <2>5. balances[e].position \in Nat
    BY <1>3 DEF TypeOK, StoredBalances, StoredBalance, Balance
  <2>6. pa <= d.value
    BY <2>3, <2>5 DEF PositionAmount
  <2> QED BY <2>2, <2>3, <2>4, <2>6
<1> HIDE DEF pa, ma
<1>8. Next /\ IInv' /\ TypeOK'
  <2>1. Next
    BY <1>1, <1>6, <1>7, LiquidationTradeImplements
  <2> QED BY <1>3, <2>1, NextIInv DEF IInv
<1>9. /\ UNCHANGED <<localIndexes, globalIndex, config, final, status, world>>
      /\ status' = Entered /\ call'.accounts = call.accounts
  BY <1>3, <1>4, <1>6, <1>7, TradeStepMemory DEF TradeStep
<1>10. /\ frame' \in Frame /\ ~Idle' /\ frame'.stage = "traded" /\ frame'.fee = frame.fee
       /\ frame'.liquidator = l /\ frame'.liquidatee = e /\ frame'.delta = d
       /\ frame'.maxPosition = frame.maxPosition
       /\ frame'.initialBalance = frame.initialBalance /\ frame'.saved = frame.saved
  <2>1. "traded" \in {"settled", "trading", "traded", "ended", "withdrawn"}
    OBVIOUS
  <2> QED BY <1>1, <1>3, <2>1, FrameStage, Zenon
<1>11. /\ balances' = [balances EXCEPT ![e] = balances'[e], ![l] = balances'[l]]
       /\ Position(balances'[l])
            = Position(balances[l]) + (IF d.isPositive THEN pa ELSE -pa)
       /\ Position(balances'[l]) \in Int
  <2>1. /\ balances' = [balances EXCEPT ![e] = balances'[e], ![l] = balances'[l]]
        /\ balances'[e] \in Balance /\ balances'[l] \in Balance
        /\ Position(balances'[e]) = Position(balances[e])
             + (IF d.isPositive THEN -pa ELSE pa)
        /\ Position(balances'[e]) + Position(balances'[l])
             = Position(balances[e]) + Position(balances[l])
    BY <1>3, <1>5, <1>6, <1>7, TradedPair
  <2>2. balances[l] \in Balance /\ balances[e] \in Balance
    BY <1>3 DEF TypeOK, StoredBalances, StoredBalance
  <2>3. /\ Position(balances'[l]) \in Int /\ Position(balances'[e]) \in Int
        /\ Position(balances[l]) \in Int /\ Position(balances[e]) \in Int
    BY <2>1, <2>2, BalanceInt
  <2> QED BY <1>7, <2>1, <2>3
<1>12. StageOK'
  <2>1. d = MaxPositionDelta(frame.initialBalance, frame.maxPosition) /\ d.value > 0
    BY <1>2, <1>3 DEF FrameInv
  <2>2. WithinLimit(Position(balances'[l]))
    <3> DEFINE b == frame.initialBalance
               max == frame.maxPosition
               p == Position(balances'[l])
    <3>1. /\ b \in StoredBalance /\ max \in SignedInt /\ p \in Int /\ pa \in Nat
          /\ MaxPositionDelta(b, max).value > 0 /\ pa <= MaxPositionDelta(b, max).value
          /\ p = Position(b) + (IF MaxPositionDelta(b, max).isPositive THEN pa ELSE -pa)
      BY <1>3, <1>4, <1>7, <1>11, <2>1
    <3> HIDE DEF b, max, p
    <3>2. IF Position(b) < ToInt(max) THEN p \in Position(b)..ToInt(max)
                                      ELSE p \in ToInt(max)..Position(b)
      BY <3>1, DeltaReaches
    <3> QED BY <3>2 DEF WithinLimit, b, max, p
  <2>3. WithinLimit(Position(balances[frame.liquidator]))'
    BY <1>10, <2>2 DEF WithinLimit
  <2> QED BY <1>10, <2>3 DEF StageOK
<1>13. AccountsInFrame'
  <2>1. \A a \in Account \ {l, e} : balances'[a] = balances[a]
    BY <1>3, <1>11, StoredLedger
  <2> QED BY <1>3, <1>9, <1>10, <2>1 DEF AccountsInFrame
<1>14. FrameInv'
  BY <1>2, <1>3, <1>9, <1>10, <1>12, <1>13 DEF FrameInv, SavedBooks, final, world
<1>15. LiquidationTypeOK'
  BY <1>3, <1>4, <1>6, <1>7, <1>8, <1>9 DEF LiquidationTypeOK
<1>16. ProxyTypeOK'
  BY <1>1, <1>2, <1>3, <1>9, <1>10, <1>15 DEF ProxyTypeOK, proxyConfig, Frame
<1>17. Total(Claims(balances', localIndexes)) = Total(Claims(balances, localIndexes))
  BY <1>3, <1>5, <1>6, <1>7, TradeStepTotals
<1>18. tokens' = tokens /\ proxyTokens' = proxyTokens
  BY <1>1, <1>7 DEF TradeStep
<1> QED BY <1>1, <1>2, <1>8, <1>9, <1>10, <1>14, <1>16, <1>17, <1>18 DEF ProxyIInv

\* The value of what was taken over is what the liquidator gained, and the fee is
\* computed from that (_getLiquidatedAndFeeAmount).
LEMMA FeeOfDelta ==
  ASSUME NEW before \in Balance, NEW after \in Balance, NEW price \in Nat
  PROVE  FeeAmount(DeltaBalance(before, after), price)
           = FeeOn(NetValue(after, price) - NetValue(before, price))
<1> DEFINE D == DeltaBalance(before, after)
           dp == SignedSub(GetPosition(after), GetPosition(before))
           dm == SignedSub(GetMargin(after), GetMargin(before))
<1>1. /\ Margin(after) \in Int /\ Position(after) \in Int
      /\ Margin(before) \in Int /\ Position(before) \in Int /\ BASE \in Int
  BY BalanceInt, BaseAssumption
<1>2. /\ dp \in SignedInt /\ ToInt(dp) = Position(after) - Position(before)
      /\ dm \in SignedInt /\ ToInt(dm) = Margin(after) - Margin(before)
  <2>1. /\ GetPosition(after) \in SignedInt /\ GetPosition(before) \in SignedInt
        /\ GetMargin(after) \in SignedInt /\ GetMargin(before) \in SignedInt
    BY DEF Balance, GetPosition, GetMargin, SignedInt
  <2> QED BY <2>1, SignedAddSubCorrect DEF Position, Margin
<1>3. /\ D \in Balance /\ Position(D) = Position(after) - Position(before)
      /\ Margin(D) = Margin(after) - Margin(before)
  <2>1. D = [marginIsPositive |-> dm.isPositive, positionIsPositive |-> dp.isPositive,
             margin |-> dm.value, position |-> dp.value]
    BY DEF DeltaBalance, SetMargin, SetPosition
  <2> HIDE DEF D, dm, dp
  <2>2. D \in Balance
    BY <1>2, <2>1 DEF Balance, SignedInt
  <2>3. Position(D) = ToInt(dp) /\ Margin(D) = ToInt(dm)
    BY <2>1 DEF Position, Margin, GetPosition, GetMargin, ToInt
  <2> QED BY <1>2, <2>2, <2>3
<1> DEFINE pos == PositiveValue(D, price)
           neg == NegativeValue(D, price)
<1>4. /\ pos \in Nat /\ neg \in Nat
      /\ pos - neg = BASE * Margin(D) + price * Position(D)
  <2> HIDE DEF D
  <2> QED BY <1>3, ValueSplit
<1>5. NetValue(after, price) - NetValue(before, price) = pos - neg
  <2>1. /\ NetValue(after, price) = BASE * Margin(after) + price * Position(after)
        /\ NetValue(before, price) = BASE * Margin(before) + price * Position(before)
    BY ValueSplit DEF NetValue
  <2>2. /\ BASE * Margin(D) = BASE * Margin(after) - BASE * Margin(before)
        /\ price * Position(D) = price * Position(after) - price * Position(before)
    <3> HIDE DEF D
    <3>1. \A k, m, n \in Int : k * (m - n) = k * m - k * n
      OBVIOUS
    <3> QED BY <1>1, <1>3, <3>1
  <2>3. /\ BASE * Margin(after) \in Int /\ BASE * Margin(before) \in Int
        /\ price * Position(after) \in Int /\ price * Position(before) \in Int
    BY <1>1
  <2> HIDE DEF D
  <2> QED BY <1>4, <2>1, <2>2, <2>3
<1> HIDE DEF pos, neg
<1>6. FeeAmount(D, price) = IF pos > neg THEN BaseMul(pos - neg, insuranceFee) \div BASE ELSE 0
  BY DEF FeeAmount, pos, neg
<1>7. pos > neg <=> pos - neg > 0
  BY <1>4
<1> QED BY <1>5, <1>6, <1>7 DEF FeeOn

\* The fee is the share of the profit rounded down to whole tokens.
LEMMA FeeIsShare ==
  ASSUME NEW profit \in Int, insuranceFee \in Nat
  PROVE  LET share == IF profit > 0 THEN insuranceFee * profit ELSE 0
         IN  /\ FeeOn(profit) \in Nat
             /\ (BASE * FeeOn(profit)) * BASE \in (share - BASE * BASE + 1)..share
<1>0. BASE \in Nat /\ BASE > 0 /\ BASE * BASE \in Nat /\ BASE * BASE >= 1
  <2>1. BASE \in Nat /\ BASE >= 1
    BY BaseAssumption
  <2>2. BASE * BASE \in Nat /\ 1 * BASE <= BASE * BASE
    BY <2>1, ProductNat, ProductMonotone
  <2> QED BY <2>1, <2>2
<1>1. CASE ~(profit > 0)
  <2>1. FeeOn(profit) = 0
    BY <1>1 DEF FeeOn
  <2>2. (BASE * 0) * BASE = 0 /\ 0 \in (0 - BASE * BASE + 1)..0
    BY <1>0
  <2> QED BY <1>1, <2>1, <2>2
<1>2. CASE profit > 0
  <2> DEFINE q == BaseMul(profit, insuranceFee)
             r == q \div BASE
             x == profit * insuranceFee
  <2>1. /\ profit \in Nat /\ q \in Nat /\ x \in Nat
        /\ BASE * q <= x /\ x < BASE * q + BASE
    BY <1>2, BaseMulBounds, ProductNat
  <2> HIDE DEF q
  <2>2. r \in Int /\ BASE * r <= q /\ q < BASE * r + BASE
    BY <2>1, DivFacts
  <2>3. r \in Nat
    <3> HIDE DEF r
    <3>1. r < 0 => BASE * r + BASE <= 0
      <4>1. r < 0 => r + 1 <= 0
        BY <2>2
      <4>2. \A k \in Int : k <= 0 => BASE * k <= 0
        BY <1>0
      <4>3. BASE * (r + 1) = BASE * r + BASE
        BY <1>0, <2>2
      <4> QED BY <2>2, <4>1, <4>2, <4>3
    <3> QED BY <1>0, <2>1, <2>2, <3>1
  <2>4. FeeOn(profit) = r /\ insuranceFee * profit = x
    BY <1>2, <2>1 DEF FeeOn, q
  <2> HIDE DEF r, x
  <2>5. BASE * (BASE * r) <= BASE * q /\ BASE * q <= BASE * (BASE * r) + BASE * (BASE - 1)
    <3> DEFINE y == BASE * r
    <3>1. y \in Int /\ y <= q /\ q <= y + (BASE - 1)
      BY <1>0, <2>1, <2>2
    <3> HIDE DEF y
    <3>2. \A m, n \in Int : m <= n => BASE * m <= BASE * n
      BY <1>0
    <3>3. BASE * (y + (BASE - 1)) = BASE * y + BASE * (BASE - 1) /\ y + (BASE - 1) \in Int
      BY <1>0, <3>1
    <3> QED BY <2>1, <3>1, <3>2, <3>3 DEF y
  <2>6. (BASE * r) * BASE = BASE * (BASE * r) /\ BASE * (BASE * r) \in Int /\ BASE * q \in Int
        /\ BASE * (BASE - 1) = BASE * BASE - BASE
    BY <1>0, <2>1, <2>3
  <2>7. (BASE * r) * BASE <= x /\ x < (BASE * r) * BASE + BASE * BASE
    BY <1>0, <2>1, <2>5, <2>6
  <2>8. (BASE * r) * BASE \in (x - BASE * BASE + 1)..x
    BY <1>0, <2>1, <2>6, <2>7
  <2> QED BY <1>2, <2>3, <2>4, <2>8
<1> QED BY <1>1, <1>2

\* The values of the liquidator before and after are integers.
LEMMA ProfitType ==
  ASSUME ProxyIInv, ~Idle
  PROVE  /\ Profit \in Int /\ ContextPrice \in Nat /\ insuranceFee \in Nat
         /\ frame.initialBalance \in Balance /\ balances[frame.liquidator] \in Balance
<1>1. /\ TypeOK /\ frame.initialBalance \in StoredBalance /\ frame.liquidator \in Account
      /\ insuranceFee \in Nat
  BY FrameTypes
<1>2. /\ frame.initialBalance \in Balance /\ balances[frame.liquidator] \in Balance
      /\ ContextPrice \in Nat
  BY <1>1, ContextTypes, StoredLedger DEF StoredBalance
<1>3. /\ NetValue(balances[frame.liquidator], ContextPrice) \in Int
      /\ NetValue(frame.initialBalance, ContextPrice) \in Int
  BY <1>2, NetValueSplit
<1> QED BY <1>1, <1>2, <1>3 DEF Profit

\* trade() ends and the profit is known: there is a fee to be moved, or liquidate() is over.
LEMMA TradeEndKeeps ==
  ASSUME ProxyIInv, LiquidateTradeEnd
  PROVE  /\ ProxyIInv' /\ ~Idle /\ balances' = balances /\ localIndexes' = localIndexes
         /\ frame.stage = "traded" /\ status' = NotEntered
         /\ UNCHANGED <<globalIndex, tokens, final, proxyTokens>>
         /\ Idle' => FeeOn(Profit) = 0
         /\ ~Idle' => /\ frame'.stage = "ended" /\ frame'.liquidator = frame.liquidator
                      /\ frame'.liquidatee = frame.liquidatee /\ frame'.saved = frame.saved
<1> DEFINE fee == FeeAmount(DeltaBalance(frame.initialBalance, balances[frame.liquidator]),
                            ContextPrice)
<1>1. /\ frame.stage = "traded" /\ EndTransaction
      /\ frame' = IF fee > 0 THEN [frame EXCEPT !.stage = "ended", !.fee = fee] ELSE NoFrame
      /\ UNCHANGED <<proxyConfig, proxyTokens>>
  BY DEF LiquidateTradeEnd
<1>2. ~Idle /\ frame.stage # "withdrawn"
  BY <1>1 DEF Idle, NoFrame
<1>3. /\ IInv /\ TypeOK /\ LiquidationTypeOK /\ ProxyTypeOK /\ frame \in Frame
      /\ FrameInv /\ proxyTokens = 0
  BY <1>2, FrameTypes DEF ProxyIInv, IInv, ProxyTypeOK, FrameInv
<1>4. IInv' /\ TypeOK'
  <2>1. Next
    BY <1>1 DEF EndTransaction, Next, TradeCallStep
  <2> QED BY <1>3, <2>1, NextIInv DEF IInv
<1>5. /\ balances' = balances /\ localIndexes' = localIndexes /\ globalIndex' = globalIndex
      /\ status' = NotEntered /\ UNCHANGED <<config, final, world, tokens, proxyTokens>>
      /\ sender' = NoSender /\ liquidated' = 0 /\ touched' = {}
  BY <1>1 DEF EndTransaction, TradeEnd, ledger
<1>6. LiquidationTypeOK'
  BY <1>4, <1>5 DEF LiquidationTypeOK, NotEntered, Entered
<1>7. fee = FeeOn(Profit) /\ fee \in Nat
  <2>1. /\ Profit \in Int /\ ContextPrice \in Nat /\ insuranceFee \in Nat
        /\ frame.initialBalance \in Balance /\ balances[frame.liquidator] \in Balance
    BY <1>2, ProfitType
  <2>2. fee = FeeOn(Profit)
    BY <2>1, FeeOfDelta DEF Profit
  <2>3. FeeOn(Profit) \in Nat
    BY <2>1, FeeIsShare
  <2> QED BY <2>2, <2>3
<1> HIDE DEF fee
<1>8. CASE fee > 0
  <2>1. /\ frame' \in Frame /\ ~Idle' /\ frame'.stage = "ended" /\ frame'.fee = fee
        /\ frame'.liquidator = frame.liquidator /\ frame'.liquidatee = frame.liquidatee
        /\ frame'.delta = frame.delta /\ frame'.maxPosition = frame.maxPosition
        /\ frame'.initialBalance = frame.initialBalance /\ frame'.saved = frame.saved
    <3>1. "ended" \in {"settled", "trading", "traded", "ended", "withdrawn"}
      OBVIOUS
    <3>2. frame' = [frame EXCEPT !.stage = "ended", !.fee = fee]
      BY <1>1, <1>8
    <3> QED BY <1>3, <1>7, <3>1, <3>2, FrameStage, Zenon
  <2>2. StageOK'
    <3>1. WithinLimit(Position(balances[frame.liquidator]))
      BY <1>1, <1>2, <1>3 DEF FrameInv, StageOK
    <3>2. WithinLimit(Position(balances[frame.liquidator]))'
      BY <1>5, <2>1, <3>1 DEF WithinLimit
    <3>3. insuranceFee' = insuranceFee /\ ContextPrice' = ContextPrice
      BY <1>1, <1>5 DEF proxyConfig, ContextPrice, config, world
    <3>4. Profit' = Profit
      BY <1>5, <2>1, <3>3 DEF Profit
    <3>5. FeeOn(Profit)' = FeeOn(Profit)
      BY <3>3, <3>4 DEF FeeOn
    <3> QED BY <1>7, <1>8, <2>1, <3>2, <3>5 DEF StageOK
  <2>3. AccountsInFrame'
    BY <1>2, <1>3, <1>5, <2>1 DEF FrameInv, AccountsInFrame
  <2>4. FrameInv'
    BY <1>2, <1>3, <1>5, <2>1, <2>2, <2>3 DEF FrameInv, SavedBooks, final, world
  <2>5. ProxyTypeOK'
    BY <1>1, <1>3, <1>5, <1>6, <2>1 DEF ProxyTypeOK, proxyConfig, Frame, NotEntered, Entered
  <2> QED BY <1>1, <1>2, <1>4, <1>5, <2>1, <2>4, <2>5 DEF ProxyIInv
<1>9. CASE ~(fee > 0)
  <2>1. frame' = NoFrame /\ frame'.stage = "idle" /\ Idle' /\ fee = 0
    BY <1>1, <1>7, <1>9 DEF NoFrame, Idle
  <2>2. FrameInv'
    BY <2>1 DEF FrameInv
  <2>3. ProxyTypeOK'
    BY <1>1, <1>3, <1>6, <2>1 DEF ProxyTypeOK, proxyConfig
  <2> QED BY <1>1, <1>2, <1>4, <1>5, <1>7, <2>1, <2>2, <2>3 DEF ProxyIInv
<1> QED BY <1>8, <1>9

\* The withdrawal takes the fee, and no more, from the liquidator.
LEMMA WithdrawFeeKeeps ==
  ASSUME ProxyIInv, LiquidateWithdrawFee
  PROVE  ProxyIInv'
<1> DEFINE l == frame.liquidator
           fee == frame.fee
<1>1. /\ frame.stage = "ended" /\ frame' = [frame EXCEPT !.stage = "withdrawn"]
      /\ Withdraw(LiquidatorProxy, l, "outside", fee)
      /\ proxyTokens' = proxyTokens + fee
      /\ UNCHANGED <<liquidationVars, proxyConfig>>
  BY DEF LiquidateWithdrawFee
<1>2. ~Idle /\ frame.stage # "withdrawn"
  BY <1>1 DEF Idle, NoFrame
<1>3. /\ IInv /\ TypeOK /\ LiquidationTypeOK /\ ProxyTypeOK /\ frame \in Frame
      /\ FrameInv /\ proxyTokens = 0 /\ l \in Account /\ fee \in Nat
      /\ AccountsInFrame /\ StageOK /\ globalIndex.timestamp = now
  BY <1>2, FrameTypes DEF ProxyIInv, IInv, ProxyTypeOK, FrameInv
<1>4. IInv' /\ TypeOK'
  BY <1>1, <1>3, MarginIInv DEF IInv
<1>5. /\ frame' \in Frame /\ ~Idle' /\ frame'.stage = "withdrawn" /\ frame'.fee = fee
      /\ frame'.liquidator = l /\ frame'.liquidatee = frame.liquidatee
      /\ frame'.delta = frame.delta /\ frame'.maxPosition = frame.maxPosition
      /\ frame'.initialBalance = frame.initialBalance /\ frame'.saved = frame.saved
  <2>1. "withdrawn" \in {"settled", "trading", "traded", "ended", "withdrawn"}
    OBVIOUS
  <2> QED BY <1>1, <1>3, <2>1, FrameStage, Zenon
<1>6. /\ status = NotEntered /\ status' = NotEntered /\ UNCHANGED <<config, final, world>>
      /\ LoadContextAndSettle({l},
             [a \in {l} |-> SubFromMargin(Settled(l, ContextIndex), fee)])
  BY <1>1 DEF Withdraw, nonReentrant
<1>7. /\ globalIndex' = globalIndex /\ localIndexes' = localIndexes
      /\ balances' = [balances EXCEPT ![l] = SubFromMargin(balances[l], fee)]
  <2>1. /\ ContextIndex = globalIndex /\ localIndexes[l] = globalIndex
        /\ Settled(l, ContextIndex) = balances[l]
    BY <1>3, SettledOnce DEF AccountsInFrame
  <2>2. /\ balances' = [a \in Account |-> IF a = l THEN SubFromMargin(balances[l], fee)
                                                   ELSE balances[a]]
        /\ localIndexes' = [a \in Account |-> IF a = l THEN globalIndex ELSE localIndexes[a]]
        /\ globalIndex' = globalIndex
    BY <1>6, <2>1 DEF LoadContextAndSettle
  <2>3. localIndexes' = localIndexes
    BY <1>3, <2>1, <2>2, StoredLedger
  <2> QED BY <1>3, <2>2, <2>3, StoredLedger
<1>8. /\ balances'[l] = SubFromMargin(balances[l], fee)
      /\ \A a \in Account \ {l} : balances'[a] = balances[a]
  BY <1>3, <1>7, StoredLedger
<1>9. /\ Position(balances'[l]) = Position(balances[l])
      /\ Profit' + BASE * fee = Profit
  <2>1. /\ balances[l] \in Balance /\ frame.initialBalance \in Balance /\ ContextPrice \in Nat
        /\ Profit \in Int /\ BASE \in Int
    BY <1>2, ProfitType, BaseAssumption
  <2>2. /\ balances'[l] \in Balance /\ Position(balances'[l]) = Position(balances[l])
        /\ Margin(balances'[l]) = Margin(balances[l]) - fee
    BY <1>3, <1>8, <2>1, MarginUpdates
  <2>3. ContextPrice' = ContextPrice
    BY <1>6 DEF ContextPrice, config, world
  <2>4. Profit' = NetValue(balances'[l], ContextPrice)
                    - NetValue(frame.initialBalance, ContextPrice)
    BY <1>5, <2>3 DEF Profit
  <2>5. Profit = NetValue(balances[l], ContextPrice)
                   - NetValue(frame.initialBalance, ContextPrice)
    BY DEF Profit
  <2>6. /\ NetValue(balances'[l], ContextPrice)
             = BASE * Margin(balances'[l]) + ContextPrice * Position(balances'[l])
        /\ NetValue(balances[l], ContextPrice)
             = BASE * Margin(balances[l]) + ContextPrice * Position(balances[l])
        /\ Margin(balances[l]) \in Int /\ BASE * Margin(balances[l]) \in Int
        /\ ContextPrice * Position(balances[l]) \in Int
        /\ NetValue(frame.initialBalance, ContextPrice) \in Int
    BY <2>1, <2>2, NetValueSplit
  <2>7. BASE * (Margin(balances[l]) - fee) = BASE * Margin(balances[l]) - BASE * fee
        /\ BASE * fee \in Int
    BY <1>3, <2>1, <2>6
  <2> QED BY <2>2, <2>4, <2>5, <2>6, <2>7
<1>10. StageOK'
  <2>1. /\ WithinLimit(Position(balances[l])) /\ fee > 0 /\ fee = FeeOn(Profit)
    BY <1>1, <1>3 DEF StageOK
  <2>2. WithinLimit(Position(balances[frame.liquidator]))'
    BY <1>5, <1>9, <2>1 DEF WithinLimit
  <2>3. FeeOn(Profit + BASE * frame.fee)' = FeeOn(Profit)
    <3>1. insuranceFee' = insuranceFee
      BY <1>1 DEF proxyConfig
    <3> QED BY <1>5, <1>9, <3>1 DEF FeeOn
  <2> QED BY <1>5, <2>1, <2>2, <2>3 DEF StageOK
<1>11. AccountsInFrame'
  BY <1>3, <1>5, <1>7, <1>8 DEF AccountsInFrame
<1>12. FrameInv'
  BY <1>2, <1>3, <1>5, <1>6, <1>7, <1>10, <1>11 DEF FrameInv, SavedBooks, final, world
<1>13. LiquidationTypeOK'
  BY <1>1, <1>3, <1>4, <1>6, NoCallTypes DEF NotEntered, Entered
<1>14. ProxyTypeOK'
  <2>1. proxyTokens' = fee
    BY <1>1, <1>3
  <2> QED BY <1>1, <1>3, <1>5, <1>6, <1>13, <2>1
             DEF ProxyTypeOK, proxyConfig, Frame, NotEntered, Entered
<1> QED BY <1>4, <1>12, <1>14 DEF ProxyIInv

\* The deposit gives the fund what was withdrawn, and ends liquidate().
LEMMA DepositFeeKeeps ==
  ASSUME ProxyIInv, LiquidateDepositFee
  PROVE  /\ ProxyIInv' /\ ~Idle /\ frame.stage = "withdrawn" /\ Idle'
         /\ globalIndex' = globalIndex
         /\ insuranceFund \in Account
         /\ balances' = [balances EXCEPT ![insuranceFund] =
                            AddToMargin(Settled(insuranceFund, globalIndex), frame.fee)]
         /\ localIndexes' = [localIndexes EXCEPT ![insuranceFund] = globalIndex]
<1>1. /\ frame.stage = "withdrawn" /\ frame' = NoFrame
      /\ Deposit(insuranceFund, frame.fee)
      /\ proxyTokens' = proxyTokens - frame.fee
      /\ UNCHANGED <<liquidationVars, proxyConfig>>
  BY DEF LiquidateDepositFee
<1>2. ~Idle /\ Idle' /\ frame'.stage = "idle"
  BY <1>1 DEF Idle, NoFrame
<1>3. /\ IInv /\ TypeOK /\ LiquidationTypeOK /\ ProxyTypeOK /\ frame.fee \in Nat
      /\ insuranceFund \in Account /\ proxyTokens = frame.fee
      /\ globalIndex.timestamp = now
  BY <1>1, <1>2, FrameTypes DEF ProxyIInv, IInv, ProxyTypeOK, FrameInv
<1>4. IInv' /\ TypeOK'
  BY <1>1, <1>3, MarginIInv DEF IInv
<1>5. /\ status = NotEntered /\ status' = NotEntered
      /\ LoadContextAndSettle({insuranceFund}, [a \in {insuranceFund} |->
             AddToMargin(Settled(insuranceFund, ContextIndex), frame.fee)])
  BY <1>1 DEF Deposit, nonReentrant
<1>6. /\ globalIndex' = globalIndex
      /\ balances' = [balances EXCEPT ![insuranceFund] =
                         AddToMargin(Settled(insuranceFund, globalIndex), frame.fee)]
      /\ localIndexes' = [localIndexes EXCEPT ![insuranceFund] = globalIndex]
  BY <1>3, <1>5, SettledOnce, StoredLedger DEF LoadContextAndSettle
<1>7. LiquidationTypeOK'
  BY <1>1, <1>3, <1>4, <1>5, NoCallTypes DEF NotEntered, Entered
<1>8. ProxyTypeOK'
  BY <1>1, <1>2, <1>3, <1>7 DEF ProxyTypeOK, proxyConfig
<1>9. FrameInv'
  BY <1>2 DEF FrameInv
<1> QED BY <1>1, <1>2, <1>3, <1>4, <1>6, <1>8, <1>9 DEF ProxyIInv

\* A failure of any call restores what liquidate() found.
LEMMA RevertKeeps ==
  ASSUME ProxyIInv, LiquidateRevert
  PROVE  ProxyIInv'
<1> DEFINE saved == frame.saved
<1>1. /\ ~Idle
      /\ balances' = saved.balances /\ localIndexes' = saved.localIndexes
      /\ globalIndex' = saved.globalIndex /\ tokens' = saved.tokens
      /\ proxyTokens' = saved.proxyTokens
      /\ status' = NotEntered /\ call' = NoCall
      /\ sender' = NoSender /\ liquidated' = 0 /\ touched' = {}
      /\ frame' = NoFrame
      /\ UNCHANGED <<config, localOperators, final, world, proxyConfig>>
  BY DEF LiquidateRevert
<1>2. /\ IInv /\ TypeOK /\ ProxyTypeOK /\ FrameInv /\ SavedBooks(saved)
      /\ ~finalSettlementEnabled
      /\ saved.balances \in StoredBalances /\ saved.localIndexes \in StoredIndexes
      /\ saved.globalIndex \in StoredIndex /\ saved.tokens \in 0..TokenSupply
      /\ saved.proxyTokens = 0
  BY <1>1, FrameTypes DEF ProxyIInv, IInv, FrameInv
<1>3. TypeOK'
  BY <1>1, <1>2 DEF TypeOK, SavedBooks, config, final, world, NotEntered, Entered
<1>4. BooksBalance(balances, localIndexes, globalIndex)'
  BY <1>1, <1>2 DEF BooksBalance, SavedBooks, InSync, noFinalSettlement, final
<1>5. IInv'
  BY <1>1, <1>3, <1>4 DEF IInv, MemoryMatchesStorage, NotEntered, Entered
<1>6. Idle' /\ frame'.stage = "idle"
  BY <1>1 DEF Idle, NoFrame
<1>7. LiquidationTypeOK'
  BY <1>1, <1>3 DEF LiquidationTypeOK, NotEntered, Entered
<1>8. ProxyTypeOK'
  BY <1>1, <1>2, <1>6, <1>7 DEF ProxyTypeOK, proxyConfig
<1> QED BY <1>5, <1>6, <1>8 DEF ProxyIInv, FrameInv

\* Configuration, and what else happens to PerpetualV1, only while no liquidate() is
\* being executed.
LEMMA OtherKeeps ==
  ASSUME ProxyIInv, ProxyConfigStep \/ MarketStep
  PROVE  ProxyIInv' /\ Idle /\ frame' = frame
<1>1. CASE ProxyConfigStep
  <2>1. Idle /\ frame' = frame /\ UNCHANGED <<allVars, proxyTokens>>
    BY <1>1 DEF ProxyConfigStep, SetInsuranceFund, SetInsuranceFee,
                ApproveMaximumOnPerpetual
  <2>2. (IInv /\ LiquidationTypeOK)'
    <3>1. UNCHANGED vars /\ UNCHANGED liquidationVars
      BY <2>1 DEF allVars
    <3>2. IInv'
      BY <3>1, NextIInv DEF ProxyIInv
    <3>3. LiquidationTypeOK'
      BY <3>1, <3>2 DEF ProxyIInv, IInv, ProxyTypeOK, LiquidationTypeOK, vars, liquidationVars
    <3> QED BY <3>2, <3>3
  <2>3. /\ insuranceFund' \in Account /\ insuranceFee' \in InsuranceFee
        /\ allowance' \in BOOLEAN
    BY <1>1 DEF ProxyIInv, ProxyTypeOK, ProxyConfigStep, SetInsuranceFund, SetInsuranceFee,
                ApproveMaximumOnPerpetual
  <2>4. ProxyTypeOK'
    BY <2>1, <2>2, <2>3 DEF ProxyIInv, ProxyTypeOK, Idle, NoFrame
  <2> QED BY <2>1, <2>2, <2>4 DEF ProxyIInv, FrameInv, Idle
<1>2. CASE MarketStep
  <2>1. Idle /\ LiquidationNext /\ UNCHANGED proxyVars
    BY <1>2 DEF MarketStep
  <2>2. IInv'
    <3>1. [Next]_vars
      BY <2>1, StepImplements
    <3> QED BY <3>1, NextIInv DEF ProxyIInv
  <2>3. LiquidationTypeOK'
    BY <2>1, <2>2, StepTypes DEF ProxyIInv, ProxyTypeOK, IInv
  <2>4. ProxyTypeOK' /\ FrameInv'
    BY <2>1, <2>3 DEF ProxyIInv, ProxyTypeOK, FrameInv, Idle, NoFrame, proxyVars
  <2> QED BY <2>1, <2>2, <2>4 DEF ProxyIInv, proxyVars
<1> QED BY <1>1, <1>2

-----------------------------------------------------------------------------
(* What liquidate() promises                                                *)

\* Every step keeps the invariant.
LEMMA ProxyStep == ProxyIInv /\ [ProxyNext]_<<allVars, proxyVars>> => ProxyIInv'
<1> SUFFICES ASSUME ProxyIInv, [ProxyNext]_<<allVars, proxyVars>> PROVE ProxyIInv'
  OBVIOUS
<1>1. CASE LiquidateStep
  BY <1>1, SettleKeeps, TradeBeginKeeps, TradeKeeps, TradeEndKeeps, WithdrawFeeKeeps,
     DepositFeeKeeps, RevertKeeps DEF LiquidateStep
<1>2. CASE ProxyConfigStep \/ MarketStep
  BY <1>2, OtherKeeps
<1>3. CASE UNCHANGED <<allVars, proxyVars>>
  <2>1. UNCHANGED vars /\ UNCHANGED liquidationVars /\ UNCHANGED proxyVars
    BY <1>3 DEF allVars
  <2>2. IInv'
    BY <2>1, NextIInv DEF ProxyIInv
  <2>3. ProxyTypeOK'
    BY <2>1, <2>2 DEF ProxyIInv, IInv, ProxyTypeOK, LiquidationTypeOK, vars,
                      liquidationVars, proxyVars, Idle, NoFrame
  <2>4. FrameInv'
    <3>1. /\ frame' = frame /\ finalSettlementEnabled' = finalSettlementEnabled
          /\ globalIndex' = globalIndex /\ now' = now /\ balances' = balances
          /\ localIndexes' = localIndexes /\ call' = call /\ insuranceFee' = insuranceFee
          /\ ContextPrice' = ContextPrice
      BY <2>1 DEF vars, ledger, final, config, world, proxyVars, ContextPrice
    <3>2. /\ Idle' = Idle /\ SavedBooks(frame.saved)' = SavedBooks(frame.saved)
          /\ AccountsInFrame' = AccountsInFrame
      BY <3>1 DEF Idle, SavedBooks, AccountsInFrame
    <3>3. StageOK' = StageOK
      BY <3>1 DEF StageOK, WithinLimit, Profit, FeeOn, SortedPair
    <3> QED BY <3>1, <3>2, <3>3 DEF ProxyIInv, FrameInv
  <2> QED BY <2>2, <2>3, <2>4 DEF ProxyIInv
<1> QED BY <1>1, <1>2, <1>3 DEF ProxyNext

\* The books of PerpetualV1 balance between any two calls of liquidate(), and what a
\* failure of the next one would restore balances too.
THEOREM ProxyInvariant == ProxySpec => []ProxyIInv
<1>1. ProxyInit => ProxyIInv
  <2> SUFFICES ASSUME ProxyInit PROVE ProxyIInv
    OBVIOUS
  <2>1. IInv /\ LiquidationTypeOK
    <3>1. Init /\ LiquidationInit
      BY DEF ProxyInit, LiquidationInit
    <3>2. IInv
      BY <3>1, InitIInv
    <3> QED BY <3>1, <3>2 DEF LiquidationInit, Init, IInv, LiquidationTypeOK,
                              NotEntered, Entered
  <2>2. frame = NoFrame /\ frame.stage = "idle" /\ Idle
    BY DEF ProxyInit, NoFrame, Idle
  <2> QED BY <2>1, <2>2 DEF ProxyInit, ProxyIInv, ProxyTypeOK, FrameInv
<1> QED
  BY <1>1, ProxyStep, PTL DEF ProxySpec

\* The types, and: the proxy has the fee between the last two calls of liquidate(), and
\* no token of its own at any other time.
THEOREM ProxyTypeCorrect == ProxySpec => []ProxyTypeOK
<1>1. ProxyIInv => ProxyTypeOK
  BY DEF ProxyIInv
<1> QED
  BY <1>1, ProxyInvariant, PTL

\* The contract remains solvent between the calls of liquidate() too, whose fee, unlike
\* the amounts of other withdrawals and deposits, is computed.
THEOREM ProxyKeepsSolvent == ProxySpec => []Solvent
<1>1. ProxyIInv => Solvent
  BY ClaimsCover DEF ProxyIInv
<1> QED
  BY <1>1, ProxyInvariant, PTL

\* liquidate() ends in one of three ways.
LEMMA LastStep ==
  ASSUME ProxyIInv, [ProxyNext]_<<allVars, proxyVars>>, Liquidated
  PROVE  LiquidateRevert \/ LiquidateTradeEnd \/ LiquidateDepositFee
<1>1. /\ ~Idle /\ frame' = NoFrame /\ frame' # frame /\ frame'.stage = "idle"
  BY DEF Liquidated, Idle, NoFrame
<1>2. frame \in Frame
  BY <1>1 DEF ProxyIInv, FrameInv
<1>3. ~(ProxyConfigStep \/ MarketStep)
  BY <1>1, OtherKeeps
<1>4. ~(LiquidateTradeBegin \/ LiquidateTrade \/ LiquidateWithdrawFee)
  <2>1. \A stage \in {"trading", "traded", "withdrawn"} :
           frame' # [frame EXCEPT !.stage = stage]
    BY <1>1, <1>2 DEF Frame
  <2> QED BY <2>1 DEF LiquidateTradeBegin, LiquidateTrade, LiquidateWithdrawFee
<1>5. ~\E msgSender, liquidatee, liquidator \in Account, isBuy \in BOOLEAN,
          maxPosition \in MaxPosition :
            LiquidateSettle(msgSender, liquidatee, liquidator, isBuy, maxPosition)
  BY <1>1 DEF LiquidateSettle
<1> QED BY <1>1, <1>3, <1>4, <1>5 DEF ProxyNext, LiquidateStep, proxyVars

\* A failure puts the liquidator back to the position it had; the last two calls do not
\* change its position, and the liquidation moves it towards the maximum, not beyond.
LEMMA EndsWithinLimit ==
  ASSUME ProxyIInv, [ProxyNext]_<<allVars, proxyVars>>, Liquidated
  PROVE  WithinLimit(Position(balances'[frame.liquidator]))
<1> DEFINE l == frame.liquidator
<1>1. /\ ~Idle /\ frame' = NoFrame /\ frame' # frame
  BY DEF Liquidated, Idle
<1>2. /\ TypeOK /\ l \in Account /\ frame.initialBalance \in StoredBalance
      /\ frame.saved.balances \in StoredBalances
      /\ frame.saved.localIndexes \in StoredIndexes
      /\ frame.maxPosition \in SignedInt /\ AccountsInFrame /\ StageOK /\ frame \in Frame
  BY <1>1, FrameTypes DEF ProxyIInv, FrameInv
<1>3. CASE LiquidateRevert
  <2>1. balances'[l] = frame.saved.balances[l]
    BY <1>3 DEF LiquidateRevert
  <2>2. /\ frame.saved.balances[l] \in Balance /\ frame.saved.localIndexes[l] \in Index
        /\ globalIndex \in Index
    BY <1>2 DEF StoredBalances, StoredIndexes, StoredBalance, StoredIndex, TypeOK
  <2>3. Position(balances'[l]) = Position(frame.initialBalance)
    BY <1>2, <2>1, <2>2, SettlementType DEF AccountsInFrame, Position
  <2>4. Position(frame.initialBalance) \in Int /\ ToInt(frame.maxPosition) \in Int
    BY <1>2, BalanceInt DEF StoredBalance, SignedInt, ToInt
  <2> QED BY <2>3, <2>4 DEF WithinLimit
<1>4. CASE LiquidateTradeEnd
  <2>1. balances' = balances /\ frame.stage = "traded"
    BY <1>4, TradeEndKeeps
  <2> QED BY <1>2, <2>1 DEF StageOK
<1>5. CASE LiquidateDepositFee
  <2>1. /\ frame.stage = "withdrawn" /\ insuranceFund \in Account
        /\ balances' = [balances EXCEPT ![insuranceFund] =
                           AddToMargin(Settled(insuranceFund, globalIndex), frame.fee)]
    BY <1>5, DepositFeeKeeps
  <2>2. Position(balances'[l]) = Position(balances[l])
    <3>1. CASE l = insuranceFund
      <4>1. /\ Settled(l, globalIndex) \in Balance /\ frame.fee \in Nat
            /\ GetPosition(Settled(l, globalIndex)) = GetPosition(balances[l])
        BY <1>1, <1>2, SettledTypes, ContextTypes, FrameTypes
      <4>2. balances'[l] = AddToMargin(Settled(l, globalIndex), frame.fee)
        BY <1>2, <2>1, <3>1, StoredLedger
      <4> QED BY <4>1, <4>2, MarginUpdates DEF Position
    <3>2. CASE l # insuranceFund
      BY <2>1, <3>2
    <3> QED BY <3>1, <3>2
  <2> QED BY <1>2, <2>1, <2>2 DEF StageOK
<1> QED BY <1>3, <1>4, <1>5, LastStep

\* However the calls of liquidate() end, the position of the liquidator is between the
\* one before and the maximum the caller gave.
THEOREM MaximumRespected == ProxySpec => MaxPositionRespected
<1>1. ProxyIInv /\ [ProxyNext]_<<allVars, proxyVars>> =>
        [Liquidated =>
          LET before == Position(frame.initialBalance)
              after  == Position(balances'[frame.liquidator])
              max    == ToInt(frame.maxPosition)
          IN  IF before < max THEN after \in before..max ELSE after \in max..before
        ]_<<allVars, proxyVars>>
  BY EndsWithinLimit DEF WithinLimit
<1> QED
  BY <1>1, ProxyInvariant, PTL DEF ProxySpec, MaxPositionRespected

\* An account that settled to the index is worth what it is worth settled again.
LEMMA SettledAgain ==
  ASSUME NEW b, NEW index
  PROVE  SettledBalance(b, index, index) = b
BY DEF SettledBalance

\* The fund has gained the fee, and the two accounts together what the liquidation brought.
LEMMA ShareAtTheEnd ==
  ASSUME ProxyIInv, [ProxyNext]_<<allVars, proxyVars>>, Liquidated,
         insuranceFund \notin {frame.liquidator, frame.liquidatee}
  PROVE  LET profit == Gain(frame.liquidator) + Gain(insuranceFund)
             share  == IF profit > 0 THEN insuranceFee * profit ELSE 0
         IN  Gain(insuranceFund) * BASE \in (share - BASE * BASE + 1)..share
<1> DEFINE l == frame.liquidator
           f == insuranceFund
           beforeF == SettledBalance(frame.saved.balances[f], frame.saved.localIndexes[f],
                                     globalIndex)
           value(b) == NetValue(b, ContextPrice)
<1>1. ~Idle
  BY DEF Liquidated
<1>2. /\ TypeOK /\ l \in Account /\ f \in Account /\ f # l
      /\ frame.initialBalance \in StoredBalance /\ frame.fee \in Nat
      /\ frame.saved.balances \in StoredBalances
      /\ frame.saved.localIndexes \in StoredIndexes
      /\ AccountsInFrame /\ StageOK /\ insuranceFee \in Nat
      /\ BASE \in Nat /\ BASE > 0
  BY <1>1, FrameTypes, BaseAssumption DEF ProxyIInv, FrameInv, ProxyTypeOK
<1>3. /\ Profit \in Int /\ ContextPrice \in Nat
      /\ frame.initialBalance \in Balance /\ balances[l] \in Balance
      /\ Profit = value(balances[l]) - value(frame.initialBalance)
  BY <1>1, ProfitType DEF Profit
<1>4. /\ balances[f] = frame.saved.balances[f] /\ localIndexes[f] = frame.saved.localIndexes[f]
      /\ globalIndex \in Index /\ localIndexes[l] = globalIndex
      /\ frame.initialBalance = SettledBalance(frame.saved.balances[l],
                                    frame.saved.localIndexes[l], globalIndex)
  BY <1>2 DEF AccountsInFrame, TypeOK, StoredIndex
<1>5. beforeF = Settled(f, globalIndex) /\ beforeF \in Balance /\ value(beforeF) \in Int
  <2>1. beforeF = Settled(f, globalIndex) /\ beforeF \in Balance
    BY <1>2, <1>4, SettledTypes DEF Settled
  <2> HIDE DEF beforeF
  <2> QED BY <1>3, <2>1, NetValueSplit
<1>6. value(balances[l]) \in Int /\ value(frame.initialBalance) \in Int
  BY <1>3, NetValueSplit
<1>7. /\ Gain(l) = value(SettledBalance(balances'[l], localIndexes'[l], globalIndex))
                     - value(frame.initialBalance)
      /\ Gain(f) = value(SettledBalance(balances'[f], localIndexes'[f], globalIndex))
                     - value(beforeF)
  BY <1>4 DEF Gain
<1> HIDE DEF l, f, beforeF, value
<1>8. ASSUME Gain(l) \in Int, Gain(f) \in Int, Gain(f) = BASE * FeeOn(Gain(l) + Gain(f))
      PROVE  LET profit == Gain(l) + Gain(f)
                 share  == IF profit > 0 THEN insuranceFee * profit ELSE 0
             IN  Gain(f) * BASE \in (share - BASE * BASE + 1)..share
  <2> DEFINE p == Gain(l) + Gain(f)
             share == IF p > 0 THEN insuranceFee * p ELSE 0
  <2>1. p \in Int /\ Gain(f) = BASE * FeeOn(p)
    BY <1>8
  <2> HIDE DEF p
  <2>2. (BASE * FeeOn(p)) * BASE \in (share - BASE * BASE + 1)..share
    BY <1>2, <2>1, FeeIsShare
  <2> QED BY <2>1, <2>2 DEF p
<1>9. CASE LiquidateRevert
  <2>1. balances' = frame.saved.balances /\ localIndexes' = frame.saved.localIndexes
    BY <1>9 DEF LiquidateRevert
  <2>2. Gain(l) = 0 /\ Gain(f) = 0
    BY <1>4, <1>5, <1>6, <1>7, <2>1 DEF beforeF
  <2>3. FeeOn(0) = 0 /\ BASE * 0 = 0 /\ 0 + 0 = 0 /\ 0 \in Int
    BY <1>2 DEF FeeOn
  <2>4. Gain(l) \in Int /\ Gain(f) \in Int /\ Gain(f) = BASE * FeeOn(Gain(l) + Gain(f))
    BY <2>2, <2>3
  <2> QED BY <1>8, <2>4 DEF l, f
<1>10. CASE LiquidateTradeEnd
  <2>1. balances' = balances /\ localIndexes' = localIndexes /\ FeeOn(Profit) = 0
    BY <1>10, TradeEndKeeps DEF Liquidated, Idle
  <2>2. Gain(l) = Profit
    BY <1>3, <1>4, <1>7, <2>1, SettledAgain
  <2>3. Gain(f) = 0
    BY <1>4, <1>5, <1>7, <2>1 DEF beforeF
  <2>4. BASE * 0 = 0 /\ Profit + 0 = Profit /\ 0 \in Int
    BY <1>2, <1>3
  <2>5. Gain(l) \in Int /\ Gain(f) \in Int /\ Gain(f) = BASE * FeeOn(Gain(l) + Gain(f))
    BY <1>3, <2>1, <2>2, <2>3, <2>4
  <2> QED BY <1>8, <2>5 DEF l, f
<1>11. CASE LiquidateDepositFee
  <2>1. /\ frame.stage = "withdrawn"
        /\ balances' = [balances EXCEPT ![f] = AddToMargin(Settled(f, globalIndex), frame.fee)]
        /\ localIndexes' = [localIndexes EXCEPT ![f] = globalIndex]
    BY <1>11, DepositFeeKeeps DEF f
  <2>2. /\ balances'[f] = AddToMargin(beforeF, frame.fee) /\ localIndexes'[f] = globalIndex
        /\ balances'[l] = balances[l] /\ localIndexes'[l] = globalIndex
    BY <1>2, <1>4, <1>5, <2>1, StoredLedger DEF l, f
  <2>3. Gain(l) = Profit
    BY <1>3, <1>7, <2>2, SettledAgain
  <2>4. Gain(f) = BASE * frame.fee
    <3>1. /\ balances'[f] \in Balance /\ Margin(balances'[f]) = Margin(beforeF) + frame.fee
          /\ Position(balances'[f]) = Position(beforeF)
      BY <1>2, <1>5, <2>2, MarginUpdates
    <3>2. /\ value(balances'[f])
               = BASE * Margin(balances'[f]) + ContextPrice * Position(balances'[f])
          /\ value(beforeF) = BASE * Margin(beforeF) + ContextPrice * Position(beforeF)
          /\ Margin(beforeF) \in Int /\ BASE * Margin(beforeF) \in Int
          /\ ContextPrice * Position(beforeF) \in Int
      BY <1>3, <1>5, <3>1, NetValueSplit DEF value
    <3>3. BASE * (Margin(beforeF) + frame.fee) = BASE * Margin(beforeF) + BASE * frame.fee
          /\ BASE * frame.fee \in Int
      BY <1>2, <3>2
    <3>4. Gain(f) = value(balances'[f]) - value(beforeF)
      BY <1>7, <2>2, SettledAgain
    <3> QED BY <3>1, <3>2, <3>3, <3>4
  <2>5. frame.fee = FeeOn(Profit + BASE * frame.fee) /\ BASE * frame.fee \in Int
    BY <1>2, <2>1 DEF StageOK
  <2>6. Gain(l) \in Int /\ Gain(f) \in Int /\ Gain(f) = BASE * FeeOn(Gain(l) + Gain(f))
    BY <1>3, <2>3, <2>4, <2>5
  <2> QED BY <1>8, <2>6 DEF l, f
<1>12. CASE LiquidateRevert \/ LiquidateTradeEnd \/ LiquidateDepositFee
  BY <1>9, <1>10, <1>11, <1>12 DEF l, f
<1> QED BY <1>12, LastStep

\* Whatever the liquidation brings, the insurance fund gets its share of a profit,
\* rounded down to whole tokens, and nothing of a loss.
THEOREM FeeShared == ProxySpec => FeeIsShareOfProfit
<1>1. ProxyIInv /\ [ProxyNext]_<<allVars, proxyVars>> =>
        [Liquidated /\ insuranceFund \notin {frame.liquidator, frame.liquidatee} =>
          LET profit == Gain(frame.liquidator) + Gain(insuranceFund)
              share  == IF profit > 0 THEN insuranceFee * profit ELSE 0
          IN  Gain(insuranceFund) * BASE \in (share - BASE * BASE + 1)..share
        ]_<<allVars, proxyVars>>
  BY ShareAtTheEnd
<1> QED
  BY <1>1, ProxyInvariant, PTL DEF ProxySpec, FeeIsShareOfProfit

-----------------------------------------------------------------------------
(* The ledger, with the proxy                                               *)

\* One more account to settle costs the parties one more rounding at most, and nothing
\* when it is one of them.
LEMMA RoundingAdds ==
  ASSUME NEW accounts, NEW a \in Account, NEW r \in 0..(BASE - 1), a \in accounts => r = 0,
         NEW lost \in 0..MostLost(accounts)
  PROVE  lost + r \in 0..MostLost(accounts \union {a})
<1> DEFINE f == RoundingOf(accounts)
           v == BASE - 1
<1>1. /\ f \in [Account -> Int] /\ v \in Int /\ v >= 0
      /\ MostLost(accounts) \in Int /\ MostLost(accounts \union {a}) \in Int
  BY BaseAssumption, RoundingTypes
<1>2. CASE a \in accounts
  <2>1. accounts \union {a} = accounts /\ r = 0
    BY <1>2
  <2>2. lost + r = lost
    BY <1>1, <2>1
  <2> QED BY <2>1, <2>2
<1>3. CASE a \notin accounts
  <2>1. RoundingOf(accounts \union {a}) = [f EXCEPT ![a] = v] /\ f[a] = 0
    BY <1>3 DEF RoundingOf
  <2>2. MostLost(accounts) = Total(f) /\ MostLost(accounts \union {a}) = Total([f EXCEPT ![a] = v])
    BY <2>1 DEF MostLost
  <2> HIDE DEF f, v
  <2>3. Total([f EXCEPT ![a] = v]) = Total(f) - f[a] + v
    BY <1>1, AccountAssumption, TotalUpdate
  <2>4. MostLost(accounts \union {a}) = MostLost(accounts) + v
    BY <1>1, <2>1, <2>2, <2>3
  <2> QED BY <1>1, <2>4 DEF v
<1> QED BY <1>2, <1>3

\* Nobody loses nothing.
LEMMA NoRounding == MostLost({}) = 0
<1>1. RoundingOf({}) \in [Account -> {0}]
  BY DEF RoundingOf
<1> QED BY <1>1, TotalZero DEF MostLost

\* A call that changes the margin of one account by d after settling it lowers the total
\* of claims by the rounding, less d; by no rounding if the account was settled.
LEMMA MarginTotals ==
  ASSUME TypeOK, IndexesInSync, NEW account \in Account, NEW d \in Int, NEW b \in Balance,
         Position(b) = Position(Settled(account, ContextIndex)),
         Margin(b) = Margin(Settled(account, ContextIndex)) + d,
         LoadContextAndSettle({account}, [a \in {account} |-> b])
  PROVE  \E r \in 0..(BASE - 1) :
            /\ localIndexes[account] = ContextIndex => r = 0
            /\ Total(Claims(balances, localIndexes)) - Total(Claims(balances', localIndexes'))
                 = r - BASE * d
<1> DEFINE s == Settled(account, ContextIndex)
           X == ToInt(SignedIndex(ContextIndex))
           before == Claim(balances[account], localIndexes[account])
           settled == Claim(s, ContextIndex)
           after == Claim(b, ContextIndex)
           r == before - settled
<1>1. /\ balances' = [balances EXCEPT ![account] = b]
      /\ localIndexes' = [localIndexes EXCEPT ![account] = ContextIndex]
      /\ balances \in [Account -> Balance] /\ localIndexes \in [Account -> Index]
  BY StoredLedger DEF LoadContextAndSettle
<1>2. /\ ContextIndex \in Index /\ InSync(localIndexes, ContextIndex)
      /\ s \in Balance /\ X \in Int /\ BASE \in Int
      /\ Margin(s) \in Int /\ Position(s) \in Int
  BY ContextTypes, SettleOne, SettledTypes, SignedIndexType, BaseAssumption, BalanceInt
<1>3. r \in 0..(BASE - 1) /\ before \in Int /\ settled \in Int /\ after \in Int
  BY <1>2, SettleLoss, ClaimInt
<1>4. localIndexes[account] = ContextIndex => r = 0
  <2> SUFFICES ASSUME localIndexes[account] = ContextIndex PROVE r = 0
    OBVIOUS
  <2>1. s = balances[account]
    BY DEF Settled, SettledBalance
  <2>2. before = settled
    BY <2>1
  <2> HIDE DEF before, settled
  <2> QED BY <1>3, <2>2
<1>5. after = settled + BASE * d
  <2>1. after = BASE * Margin(b) + X * Position(b) /\ settled = BASE * Margin(s) + X * Position(s)
    BY DEF Claim
  <2>2. Margin(b) = Margin(s) + d /\ Position(b) = Position(s)
    OBVIOUS
  <2> HIDE DEF after, settled, s, X
  <2>3. BASE * (Margin(s) + d) = BASE * Margin(s) + BASE * d
    BY <1>2
  <2>4. BASE * Margin(s) \in Int /\ BASE * d \in Int /\ X * Position(s) \in Int
    BY <1>2
  <2> QED BY <2>1, <2>2, <2>3, <2>4
<1>6. Total(Claims(balances', localIndexes'))
        = Total(Claims(balances, localIndexes)) - before + after
  BY <1>1, <1>2, LedgerUpdate
<1>7. Total(Claims(balances, localIndexes)) \in Int /\ BASE * d \in Int
  <2>1. Total(Claims(balances, localIndexes)) \in Int
    BY <1>1, LedgerTypes
  <2>2. BASE * d \in Int
    BY <1>2
  <2> QED BY <2>1, <2>2
<1>8. Total(Claims(balances, localIndexes)) - Total(Claims(balances', localIndexes'))
        = r - BASE * d
  <2> HIDE DEF before, settled, after
  <2> QED BY <1>3, <1>5, <1>6, <1>7
<1> QED BY <1>3, <1>4, <1>8

\* The accounts that liquidate() has settled so far.
Settlers == IF frame.stage = "settled" THEN {frame.liquidator}
                                       ELSE {frame.liquidator, frame.liquidatee}

\* What all accounts have lost together since it began.
FrameLost == Total(Claims(frame.saved.balances, frame.saved.localIndexes))
               - Total(Claims(balances, localIndexes))

\* While liquidate() is executed, that is the rounding of those accounts and the fee the
\* proxy has in its hands.
LossInFrame ==
    ~Idle =>
        /\ tokens = frame.saved.tokens - proxyTokens
        /\ FrameLost - BASE * proxyTokens \in 0..MostLost(Settlers)
        /\ \A account \in Settlers : localIndexes[account] = globalIndex

\* Between the calls of one liquidate() the ledger stands still.
LEMMA QuietProxy ==
  ASSUME LeftBalances' = LeftBalances, LeftIndexes' = LeftIndexes,
         (IF Idle THEN tokens ELSE frame.saved.tokens)'
            = (IF Idle THEN tokens ELSE frame.saved.tokens),
         UNCHANGED final, ~finalSettlementEnabled
  PROVE  UNCHANGED ProxyBooks!ledgerVars
BY DEF ProxyBooks!ledgerVars, ClosingSpread, final

\* So it does in the middle of it.
LEMMA QuietFrame ==
  ASSUME ProxyIInv, ~Idle, ~Idle', frame'.saved = frame.saved, UNCHANGED final
  PROVE  UNCHANGED ProxyBooks!ledgerVars
<1>1. ~finalSettlementEnabled
  BY DEF ProxyIInv, FrameInv
<1>2. /\ LeftBalances' = LeftBalances /\ LeftIndexes' = LeftIndexes
      /\ (IF Idle THEN tokens ELSE frame.saved.tokens)'
            = (IF Idle THEN tokens ELSE frame.saved.tokens)
  BY DEF LeftBalances, LeftIndexes
<1> QED BY <1>1, <1>2, QuietProxy

\* Settling the liquidator costs it less than a unit.
LEMMA SettleLoses ==
  ASSUME ProxyIInv, NEW msgSender, NEW liquidatee \in Account, NEW liquidator \in Account,
         NEW isBuy, NEW maxPosition \in MaxPosition,
         LiquidateSettle(msgSender, liquidatee, liquidator, isBuy, maxPosition)
  PROVE  LossInFrame' /\ UNCHANGED ProxyBooks!ledgerVars
<1> DEFINE b == AddToMargin(Settled(liquidator, ContextIndex), 0)
<1>1. /\ Idle /\ TypeOK /\ IndexesInSync /\ proxyTokens = 0
      /\ balances \in [Account -> Balance] /\ localIndexes \in [Account -> Index]
  BY StoredLedger
     DEF ProxyIInv, IInv, ProxyTypeOK, BooksBalance, IndexesInSync, LiquidateSettle, Idle, NoFrame
<1>2. /\ Deposit(liquidator, 0) /\ proxyTokens' = proxyTokens
      /\ frame'.stage = "settled" /\ frame'.liquidator = liquidator
      /\ frame'.saved = SavedByProxy
  BY DEF LiquidateSettle
<1>3. ~Idle'
  BY <1>2 DEF Idle, NoFrame
<1>4. /\ ~finalSettlementEnabled /\ status = NotEntered /\ UNCHANGED final
      /\ LoadContextAndSettle({liquidator}, [a \in {liquidator} |-> b])
      /\ tokens' = tokens + 0 /\ tokens \in Nat
  BY <1>1, <1>2, AmountAssumption DEF Deposit, noFinalSettlement, nonReentrant, TypeOK
<1>5. /\ b \in Balance /\ 0 \in Int
      /\ Position(b) = Position(Settled(liquidator, ContextIndex))
      /\ Margin(b) = Margin(Settled(liquidator, ContextIndex)) + 0
  <2>1. Settled(liquidator, ContextIndex) \in Balance /\ 0 \in Nat
    BY <1>1, ContextTypes, SettledTypes
  <2> QED BY <2>1, MarginUpdates
<1> HIDE DEF b
<1>6. PICK r \in 0..(BASE - 1) :
         Total(Claims(balances, localIndexes)) - Total(Claims(balances', localIndexes'))
            = r - BASE * 0
  <2> DEFINE d == 0
  <2>1. Margin(b) = Margin(Settled(liquidator, ContextIndex)) + d /\ d \in Int
    BY <1>5
  <2> HIDE DEF d
  <2>2. \E r \in 0..(BASE - 1) :
           Total(Claims(balances, localIndexes)) - Total(Claims(balances', localIndexes'))
              = r - BASE * d
    BY <1>1, <1>4, <1>5, <2>1, MarginTotals
  <2> QED BY <2>2 DEF d
<1>7. /\ SavedByProxy.balances = balances /\ SavedByProxy.localIndexes = localIndexes
      /\ SavedByProxy.tokens = tokens
  BY DEF SavedByProxy
<1>8. BASE * 0 = 0 /\ BASE \in Int
  BY BaseAssumption
<1>9. FrameLost' - BASE * proxyTokens' = r
  <2>1. FrameLost' = r - BASE * 0
    BY <1>2, <1>6, <1>7 DEF FrameLost
  <2> QED BY <1>1, <1>2, <1>8, <2>1
<1>10. r \in 0..MostLost({liquidator})
  <2>1. 0 \in 0..MostLost({}) /\ liquidator \notin {}
    BY NoRounding
  <2>2. 0 + r \in 0..MostLost({} \union {liquidator})
    BY <2>1, RoundingAdds
  <2>3. {} \union {liquidator} = {liquidator} /\ 0 + r = r
    BY <1>8
  <2> QED BY <2>2, <2>3
<1>11. Settlers' = {liquidator}
  BY <1>2 DEF Settlers
<1>12. localIndexes'[liquidator] = globalIndex'
  BY <1>4 DEF LoadContextAndSettle
<1>13. LossInFrame'
  BY <1>1, <1>2, <1>4, <1>7, <1>9, <1>10, <1>11, <1>12 DEF LossInFrame
<1>14. UNCHANGED ProxyBooks!ledgerVars
  <2>1. CommittedBalances = balances /\ CommittedIndexes = localIndexes
    BY <1>4, IdleBooks
  <2>2. LeftBalances' = LeftBalances /\ LeftIndexes' = LeftIndexes
    BY <1>1, <1>2, <1>3, <1>7, <2>1 DEF LeftBalances, LeftIndexes
  <2>3. (IF Idle THEN tokens ELSE frame.saved.tokens)'
          = (IF Idle THEN tokens ELSE frame.saved.tokens)
    BY <1>1, <1>2, <1>3, <1>7
  <2> QED BY <1>4, <2>2, <2>3, QuietProxy
<1> QED BY <1>13, <1>14

\* trade() settles the other account; the liquidator is settled already.
LEMMA TradeBeginLoses ==
  ASSUME ProxyIInv, LossInFrame, LiquidateTradeBegin
  PROVE  LossInFrame' /\ UNCHANGED ProxyBooks!ledgerVars
<1> DEFINE l == frame.liquidator
           e == frame.liquidatee
           s == Settled(e, globalIndex)
           before == Claim(balances[e], localIndexes[e])
           settled == Claim(s, globalIndex)
           r == before - settled
<1>1. /\ ~Idle /\ ~Idle' /\ frame.stage = "settled" /\ frame'.stage = "trading"
      /\ frame'.liquidator = l /\ frame'.liquidatee = e /\ frame'.saved = frame.saved
      /\ globalIndex' = globalIndex /\ UNCHANGED <<tokens, final, proxyTokens>>
      /\ balances' = [balances EXCEPT ![e] = s]
      /\ localIndexes' = [localIndexes EXCEPT ![e] = globalIndex]
  BY TradeBeginKeeps
<1>2. /\ TypeOK /\ l \in Account /\ e \in Account /\ IndexesInSync /\ globalIndex \in Index
      /\ balances \in [Account -> Balance] /\ localIndexes \in [Account -> Index]
      /\ frame.saved.balances \in [Account -> Balance]
      /\ frame.saved.localIndexes \in [Account -> Index]
      /\ InSync(localIndexes, globalIndex) /\ proxyTokens = 0
  BY <1>1, FrameTypes, StoredLedger
     DEF ProxyIInv, IInv, ProxyTypeOK, BooksBalance, IndexesInSync, TypeOK, StoredIndex,
         StoredBalances, StoredBalance, StoredIndexes
<1>3. /\ r \in 0..(BASE - 1) /\ before \in Int /\ settled \in Int /\ s \in Balance
  BY <1>2, SettleLoss, SettledTypes
<1>4. e = l => r = 0
  <2> SUFFICES ASSUME e = l PROVE r = 0
    OBVIOUS
  <2>1. localIndexes[e] = globalIndex
    BY <1>1 DEF LossInFrame, Settlers
  <2>2. s = balances[e]
    BY <2>1 DEF Settled, SettledBalance
  <2>3. before = settled
    BY <2>1, <2>2
  <2> HIDE DEF before, settled
  <2> QED BY <1>3, <2>3
<1>5. /\ Total(Claims(balances', localIndexes'))
           = Total(Claims(balances, localIndexes)) - before + settled
      /\ Total(Claims(balances, localIndexes)) \in Int
      /\ Total(Claims(frame.saved.balances, frame.saved.localIndexes)) \in Int
  BY <1>1, <1>2, <1>3, LedgerUpdate, LedgerTypes
<1>6. FrameLost' = FrameLost + r /\ FrameLost \in Int
  <2> HIDE DEF before, settled
  <2> QED BY <1>1, <1>3, <1>5 DEF FrameLost
<1>7. BASE * proxyTokens = 0
  BY <1>2, BaseAssumption
<1> HIDE DEF r
<1>8. FrameLost' - BASE * proxyTokens' \in 0..MostLost({l, e})
  <2>1. Settlers = {l} /\ {l} \union {e} = {l, e}
    BY <1>1 DEF Settlers
  <2>2. FrameLost \in 0..MostLost({l})
    BY <1>1, <1>6, <1>7, <2>1 DEF LossInFrame
  <2>3. FrameLost + r \in 0..MostLost({l} \union {e})
    BY <1>2, <1>3, <1>4, <2>2, RoundingAdds
  <2>4. FrameLost' - BASE * proxyTokens' = FrameLost + r
    BY <1>1, <1>3, <1>6, <1>7
  <2> QED BY <2>1, <2>3, <2>4
<1>9. \A account \in {l, e} : localIndexes'[account] = globalIndex
  <2>1. localIndexes[l] = globalIndex
    BY <1>1 DEF LossInFrame, Settlers
  <2> QED BY <1>1, <1>2, <2>1
<1>10. Settlers' = {l, e}
  BY <1>1 DEF Settlers
<1>11. LossInFrame'
  BY <1>1, <1>8, <1>9, <1>10 DEF LossInFrame
<1> QED BY <1>1, <1>11, QuietFrame

\* The trade moves claims between the two, and what it would lose has been lost already.
LEMMA TradeLoses ==
  ASSUME ProxyIInv, LossInFrame, LiquidateTrade
  PROVE  LossInFrame' /\ UNCHANGED ProxyBooks!ledgerVars
<1>1. /\ ~Idle /\ ~Idle' /\ frame.stage = "trading" /\ frame'.stage = "traded"
      /\ frame'.liquidator = frame.liquidator /\ frame'.liquidatee = frame.liquidatee
      /\ frame'.saved = frame.saved
      /\ Total(Claims(balances', localIndexes')) = Total(Claims(balances, localIndexes))
      /\ UNCHANGED <<localIndexes, globalIndex, tokens, final, proxyTokens>>
  BY TradeKeeps
<1>2. Settlers' = Settlers /\ FrameLost' = FrameLost
  BY <1>1 DEF Settlers, FrameLost
<1>3. LossInFrame'
  BY <1>1, <1>2 DEF LossInFrame
<1> QED BY <1>1, <1>3, QuietFrame

\* The liquidator pays the fee to the proxy, and nothing else.
LEMMA WithdrawFeeLoses ==
  ASSUME ProxyIInv, LossInFrame, LiquidateWithdrawFee
  PROVE  LossInFrame' /\ UNCHANGED ProxyBooks!ledgerVars
<1> DEFINE l == frame.liquidator
           fee == frame.fee
           minus == -fee
           b == SubFromMargin(Settled(l, ContextIndex), fee)
<1>1. /\ frame.stage = "ended" /\ frame' = [frame EXCEPT !.stage = "withdrawn"]
      /\ Withdraw(LiquidatorProxy, l, "outside", fee)
      /\ proxyTokens' = proxyTokens + fee
  BY DEF LiquidateWithdrawFee
<1>2. ~Idle
  BY <1>1 DEF Idle, NoFrame
<1>3. /\ TypeOK /\ IndexesInSync /\ l \in Account /\ fee \in Nat /\ frame \in Frame
      /\ globalIndex.timestamp = now /\ proxyTokens = 0 /\ tokens \in Nat /\ BASE \in Int
      /\ balances \in [Account -> Balance] /\ localIndexes \in [Account -> Index]
      /\ frame.saved.balances \in [Account -> Balance]
      /\ frame.saved.localIndexes \in [Account -> Index]
      /\ frame.saved.tokens \in Nat
  BY <1>1, <1>2, FrameTypes, StoredLedger, AmountAssumption, BaseAssumption
     DEF ProxyIInv, IInv, ProxyTypeOK, FrameInv, BooksBalance, IndexesInSync, TypeOK,
         StoredBalances, StoredBalance, StoredIndexes, StoredIndex
<1>4. /\ ~Idle' /\ frame'.stage = "withdrawn" /\ frame'.liquidator = l
      /\ frame'.liquidatee = frame.liquidatee /\ frame'.saved = frame.saved
  <2>1. "withdrawn" \in {"settled", "trading", "traded", "ended", "withdrawn"}
    OBVIOUS
  <2> QED BY <1>1, <1>3, <2>1, FrameStage, Zenon
<1>5. /\ LoadContextAndSettle({l}, [a \in {l} |-> b]) /\ UNCHANGED final
      /\ tokens' = tokens - fee /\ ContextIndex = globalIndex
  BY <1>1, <1>3, SettledOnce DEF Withdraw
<1>6. /\ b \in Balance /\ minus \in Int /\ BASE * minus = -(BASE * fee) /\ BASE * fee \in Int
      /\ Position(b) = Position(Settled(l, ContextIndex))
      /\ Margin(b) = Margin(Settled(l, ContextIndex)) + minus
  <2>1. /\ Settled(l, ContextIndex) \in Balance /\ Margin(Settled(l, ContextIndex)) \in Int
    BY <1>3, ContextTypes, SettledTypes, BalanceInt
  <2>2. BASE * minus = -(BASE * fee) /\ BASE * fee \in Int /\ minus \in Int
    BY <1>3
  <2>3. /\ b \in Balance /\ Position(b) = Position(Settled(l, ContextIndex))
        /\ Margin(b) = Margin(Settled(l, ContextIndex)) - fee
    BY <1>3, <2>1, MarginUpdates
  <2> HIDE DEF b
  <2> QED BY <1>3, <2>1, <2>2, <2>3
<1> HIDE DEF b, minus
<1>7. localIndexes[l] = ContextIndex
  BY <1>1, <1>2, <1>5 DEF LossInFrame, Settlers
<1>8. Total(Claims(balances, localIndexes)) - Total(Claims(balances', localIndexes')) = BASE * fee
  <2>1. PICK r \in 0..(BASE - 1) :
           /\ localIndexes[l] = ContextIndex => r = 0
           /\ Total(Claims(balances, localIndexes)) - Total(Claims(balances', localIndexes'))
                 = r - BASE * minus
    BY <1>3, <1>5, <1>6, MarginTotals
  <2>2. r = 0 /\ 0 - -(BASE * fee) = BASE * fee
    BY <1>6, <1>7, <2>1
  <2> QED BY <1>6, <2>1, <2>2
<1>9. /\ balances' = [balances EXCEPT ![l] = b]
      /\ localIndexes' = localIndexes /\ globalIndex' = globalIndex
  BY <1>3, <1>5, <1>7 DEF LoadContextAndSettle
<1>10. /\ Total(Claims(balances, localIndexes)) \in Int
       /\ Total(Claims(balances', localIndexes')) \in Int
       /\ Total(Claims(frame.saved.balances, frame.saved.localIndexes)) \in Int
  <2>1. balances' \in [Account -> Balance] /\ localIndexes' \in [Account -> Index]
    BY <1>3, <1>6, <1>9
  <2> QED BY <1>3, <2>1, LedgerTypes
<1>11. FrameLost' - BASE * proxyTokens' = FrameLost - BASE * proxyTokens
  <2>1. FrameLost' = FrameLost + BASE * fee /\ FrameLost \in Int
    BY <1>4, <1>6, <1>8, <1>10 DEF FrameLost
  <2>2. proxyTokens' = fee /\ BASE * 0 = 0
    BY <1>1, <1>3
  <2> QED BY <1>3, <1>6, <2>1, <2>2
<1>12. Settlers' = Settlers
  BY <1>1, <1>4 DEF Settlers
<1>13. tokens' = frame.saved.tokens - proxyTokens'
  <2>1. tokens = frame.saved.tokens - proxyTokens
    BY <1>2 DEF LossInFrame
  <2> QED BY <1>1, <1>3, <1>5, <2>1
<1>14. LossInFrame'
  BY <1>2, <1>4, <1>9, <1>11, <1>12, <1>13 DEF LossInFrame
<1> QED BY <1>2, <1>4, <1>5, <1>14, QuietFrame

\* Both ledgers count in the same way.
LEMMA ProxyBooksTotal ==
  /\ \A f : ProxyBooks!Total(f) = Total(f)
  /\ \A accounts : ProxyBooks!MostLost(accounts) = MostLost(accounts)
<1>1. ASSUME NEW f PROVE ProxyBooks!Total(f) = Total(f)
  <2>1. \A g : ProxyBooks!PositiveTotal(g) = PositiveTotal(g)
    BY DEF ProxyBooks!PositiveTotal, PositiveTotal, ProxyBooks!Units, Units,
           ProxyBooks!Cardinality, Cardinality
  <2>2. ProxyBooks!NegativeTotal(f) = NegativeTotal(f)
    BY <2>1 DEF ProxyBooks!NegativeTotal, ProxyBooks!Negated, NegativeTotal, Negated
  <2> QED BY <2>1, <2>2 DEF ProxyBooks!Total, Total
<1>2. \A accounts : ProxyBooks!MostLost(accounts) = MostLost(accounts)
  BY <1>1 DEF ProxyBooks!MostLost, MostLost, RoundingOf
<1> QED BY <1>1, <1>2

\* The last call of a liquidate() that succeeds makes all of it one exchange.
LEMMA LiquidateLedger ==
  ASSUME ProxyIInv, IInv', ~Idle, Idle', status' = NotEntered, UNCHANGED final,
         tokens' = frame.saved.tokens,
         NEW parties \in SUBSET Account,
         frame.liquidator \in parties, frame.liquidatee \in parties,
         \A account \in Account \ parties :
             balances'[account] = balances[account] /\ localIndexes'[account] = localIndexes[account],
         Total(Claims(frame.saved.balances, frame.saved.localIndexes))
           - Total(Claims(balances', localIndexes')) \in 0..MostLost(parties)
  PROVE  ProxyBooks!Next
<1>1. /\ ~finalSettlementEnabled /\ ~finalSettlementEnabled' /\ AccountsInFrame
      /\ Total(Positions(frame.saved.balances)) = 0
      /\ finalSettlementEnabled' = finalSettlementEnabled
  BY DEF ProxyIInv, FrameInv, SavedBooks, final
<1>2. Total(Positions(balances')) = 0
  BY <1>1 DEF IInv, BooksBalance, noFinalSettlement
<1>3. /\ LeftBalances = frame.saved.balances /\ LeftIndexes = frame.saved.localIndexes
      /\ LeftBalances' = balances' /\ LeftIndexes' = localIndexes'
  BY IdleBooks DEF LeftBalances, LeftIndexes
<1>4. \A account \in Account \ parties :
         /\ balances'[account] = frame.saved.balances[account]
         /\ localIndexes'[account] = frame.saved.localIndexes[account]
  BY <1>1 DEF AccountsInFrame
<1>5. ProxyBooks!OnlyChanges(parties)
  BY <1>3, <1>4 DEF ProxyBooks!OnlyChanges, Claims, Positions
<1>6. ProxyBooks!Total(Positions(LeftBalances')) = ProxyBooks!Total(Positions(LeftBalances))
  BY <1>1, <1>2, <1>3, ProxyBooksTotal
<1>7. ProxyBooks!Total(Claims(LeftBalances, LeftIndexes))
        - ProxyBooks!Total(Claims(LeftBalances', LeftIndexes')) \in 0..ProxyBooks!MostLost(parties)
  BY <1>3, ProxyBooksTotal
<1>8. (IF Idle THEN tokens ELSE frame.saved.tokens)'
        = (IF Idle THEN tokens ELSE frame.saved.tokens)
  OBVIOUS
<1>9. ClosingSpread' = ClosingSpread
  BY <1>1 DEF ClosingSpread
<1>10. ProxyBooks!Trade(parties)
  BY <1>1, <1>5, <1>6, <1>7, <1>8, <1>9 DEF ProxyBooks!Trade
<1> QED BY <1>10 DEF ProxyBooks!Next

\* Without a fee that is the end of trade().
LEMMA TradeEndLoses ==
  ASSUME ProxyIInv, LossInFrame, LiquidateTradeEnd
  PROVE  LossInFrame' /\ (ProxyBooks!Next \/ UNCHANGED ProxyBooks!ledgerVars)
<1> DEFINE parties == {frame.liquidator, frame.liquidatee}
<1>1. /\ ProxyIInv' /\ ~Idle /\ balances' = balances /\ localIndexes' = localIndexes
      /\ frame.stage = "traded" /\ status' = NotEntered
      /\ UNCHANGED <<globalIndex, tokens, final, proxyTokens>>
      /\ ~Idle' => /\ frame'.stage = "ended" /\ frame'.liquidator = frame.liquidator
                   /\ frame'.liquidatee = frame.liquidatee /\ frame'.saved = frame.saved
  BY TradeEndKeeps
<1>2. CASE ~Idle'
  <2>1. Settlers' = Settlers /\ FrameLost' = FrameLost
    BY <1>1, <1>2 DEF Settlers, FrameLost
  <2>2. LossInFrame'
    BY <1>1, <1>2, <2>1 DEF LossInFrame
  <2> QED BY <1>1, <1>2, <2>2, QuietFrame
<1>3. CASE Idle'
  <2>1. LossInFrame'
    BY <1>3 DEF LossInFrame
  <2>2. /\ frame.liquidator \in Account /\ frame.liquidatee \in Account /\ proxyTokens = 0
        /\ frame.saved.tokens \in Nat /\ BASE \in Int /\ Settlers = parties
        /\ TypeOK /\ frame.saved.balances \in [Account -> Balance]
        /\ frame.saved.localIndexes \in [Account -> Index]
    BY <1>1, FrameTypes, AmountAssumption, BaseAssumption
       DEF ProxyIInv, ProxyTypeOK, Settlers, StoredBalances, StoredBalance, StoredIndexes,
           StoredIndex
  <2>3. FrameLost \in Int
    BY <2>2, StoredLedger, LedgerTypes DEF FrameLost
  <2>4. tokens = frame.saved.tokens /\ FrameLost \in 0..MostLost(parties)
    <3>1. /\ tokens = frame.saved.tokens - proxyTokens
          /\ FrameLost - BASE * proxyTokens \in 0..MostLost(parties)
      BY <1>1, <2>2 DEF LossInFrame
    <3>2. BASE * proxyTokens = 0
      BY <2>2
    <3> QED BY <2>2, <2>3, <3>1, <3>2
  <2>5. /\ parties \in SUBSET Account /\ frame.liquidator \in parties
        /\ frame.liquidatee \in parties /\ IInv' /\ tokens' = frame.saved.tokens
        /\ Total(Claims(frame.saved.balances, frame.saved.localIndexes))
             - Total(Claims(balances', localIndexes')) \in 0..MostLost(parties)
    BY <1>1, <2>2, <2>4 DEF ProxyIInv, FrameLost
  <2> HIDE DEF parties
  <2>6. ProxyBooks!Next
    BY <1>1, <1>3, <2>5, LiquidateLedger
  <2> QED BY <2>1, <2>6
<1> QED BY <1>2, <1>3

\* With a fee it is the deposit to the insurance fund, which is settled by it.
LEMMA DepositFeeLoses ==
  ASSUME ProxyIInv, LossInFrame, LiquidateDepositFee
  PROVE  LossInFrame' /\ ProxyBooks!Next
<1> DEFINE f == insuranceFund
           fee == frame.fee
           b == AddToMargin(Settled(f, ContextIndex), fee)
           pair == {frame.liquidator, frame.liquidatee}
           parties == pair \union {f}
<1>1. /\ ProxyIInv' /\ ~Idle /\ frame.stage = "withdrawn" /\ Idle' /\ f \in Account
  BY DepositFeeKeeps
<1>2. Deposit(f, fee)
  BY DEF LiquidateDepositFee
<1>3. /\ TypeOK /\ IndexesInSync /\ fee \in Nat /\ proxyTokens = fee
      /\ frame.liquidator \in Account /\ frame.liquidatee \in Account
      /\ globalIndex.timestamp = now /\ tokens \in Nat /\ BASE \in Int
      /\ balances \in [Account -> Balance] /\ localIndexes \in [Account -> Index]
      /\ frame.saved.balances \in [Account -> Balance]
      /\ frame.saved.localIndexes \in [Account -> Index]
      /\ frame.saved.tokens \in Nat
  BY <1>1, FrameTypes, StoredLedger, AmountAssumption, BaseAssumption
     DEF ProxyIInv, IInv, ProxyTypeOK, FrameInv, BooksBalance, IndexesInSync, TypeOK,
         StoredBalances, StoredBalance, StoredIndexes, StoredIndex
<1>4. /\ LoadContextAndSettle({f}, [a \in {f} |-> b]) /\ UNCHANGED final
      /\ tokens' = tokens + fee /\ ContextIndex = globalIndex /\ status' = NotEntered
  BY <1>2, <1>3, SettledOnce DEF Deposit, nonReentrant
<1>5. /\ b \in Balance /\ fee \in Int
      /\ Position(b) = Position(Settled(f, ContextIndex))
      /\ Margin(b) = Margin(Settled(f, ContextIndex)) + fee
  <2>1. Settled(f, ContextIndex) \in Balance
    BY <1>1, <1>3, ContextTypes, SettledTypes
  <2> QED BY <1>3, <2>1, MarginUpdates
<1> HIDE DEF b
<1>6. PICK r \in 0..(BASE - 1) :
         /\ localIndexes[f] = ContextIndex => r = 0
         /\ Total(Claims(balances, localIndexes)) - Total(Claims(balances', localIndexes'))
               = r - BASE * fee
  BY <1>1, <1>3, <1>4, <1>5, MarginTotals
<1>7. Settlers = pair
  BY <1>1 DEF Settlers
<1>8. /\ tokens = frame.saved.tokens - proxyTokens
      /\ FrameLost - BASE * proxyTokens \in 0..MostLost(pair)
      /\ \A account \in pair : localIndexes[account] = globalIndex
  BY <1>1, <1>7 DEF LossInFrame
<1> HIDE DEF pair
<1>9. (FrameLost - BASE * proxyTokens) + r \in 0..MostLost(parties)
  BY <1>1, <1>4, <1>6, <1>8, RoundingAdds
<1>10. /\ balances' = [balances EXCEPT ![f] = b]
       /\ localIndexes' = [localIndexes EXCEPT ![f] = ContextIndex]
  BY <1>3, <1>4 DEF LoadContextAndSettle
<1>11. /\ Total(Claims(balances, localIndexes)) \in Int
       /\ Total(Claims(balances', localIndexes')) \in Int
       /\ Total(Claims(frame.saved.balances, frame.saved.localIndexes)) \in Int
  <2>1. ContextIndex \in Index
    BY <1>3, ContextTypes
  <2>2. balances' \in [Account -> Balance] /\ localIndexes' \in [Account -> Index]
    BY <1>3, <1>5, <1>10, <2>1
  <2> QED BY <1>3, <2>2, LedgerTypes
<1>12. Total(Claims(frame.saved.balances, frame.saved.localIndexes))
         - Total(Claims(balances', localIndexes')) \in 0..MostLost(parties)
  <2>1. BASE * fee \in Int
    BY <1>3
  <2>2. Total(Claims(frame.saved.balances, frame.saved.localIndexes))
          - Total(Claims(balances', localIndexes')) = (FrameLost - BASE * proxyTokens) + r
    BY <1>3, <1>6, <1>11, <2>1 DEF FrameLost
  <2> QED BY <1>9, <2>2
<1>13. /\ parties \in SUBSET Account /\ frame.liquidator \in parties
       /\ frame.liquidatee \in parties /\ IInv' /\ tokens' = frame.saved.tokens
  BY <1>1, <1>3, <1>4, <1>8 DEF ProxyIInv, pair
<1>14. \A account \in Account \ parties :
          balances'[account] = balances[account] /\ localIndexes'[account] = localIndexes[account]
  BY <1>10
<1> HIDE DEF parties
<1>15. ProxyBooks!Next
  BY <1>1, <1>4, <1>12, <1>13, <1>14, LiquidateLedger
<1>16. LossInFrame'
  BY <1>1 DEF LossInFrame
<1> QED BY <1>15, <1>16

\* A failure restores what the ledger shows.
LEMMA RevertQuiet ==
  ASSUME ProxyIInv, LiquidateRevert
  PROVE  LossInFrame' /\ UNCHANGED ProxyBooks!ledgerVars
<1>1. /\ ~Idle /\ frame' = NoFrame /\ Idle' /\ status' = NotEntered /\ UNCHANGED final
      /\ balances' = frame.saved.balances /\ localIndexes' = frame.saved.localIndexes
      /\ tokens' = frame.saved.tokens
  BY DEF LiquidateRevert, Idle
<1>2. LeftBalances' = LeftBalances /\ LeftIndexes' = LeftIndexes
  BY <1>1, IdleBooks DEF LeftBalances, LeftIndexes
<1>3. (IF Idle THEN tokens ELSE frame.saved.tokens)'
        = (IF Idle THEN tokens ELSE frame.saved.tokens)
  BY <1>1
<1>4. ~finalSettlementEnabled
  BY <1>1 DEF ProxyIInv, FrameInv
<1> QED BY <1>1, <1>2, <1>3, <1>4, QuietProxy DEF LossInFrame

\* While no liquidate() is executed both ledgers show the same.
LEMMA SameBooks ==
  ASSUME Idle, Idle', [Books!Next]_(Books!ledgerVars)
  PROVE  [ProxyBooks!Next]_(ProxyBooks!ledgerVars)
<1>1. /\ LeftBalances = CommittedBalances /\ LeftIndexes = CommittedIndexes
      /\ LeftBalances' = CommittedBalances' /\ LeftIndexes' = CommittedIndexes'
      /\ (IF Idle THEN tokens ELSE frame.saved.tokens) = tokens
      /\ (IF Idle THEN tokens ELSE frame.saved.tokens)' = tokens'
  BY DEF LeftBalances, LeftIndexes
<1>2. /\ \A account : Books!Loss(account) = ProxyBooks!Loss(account)
      /\ \A account : Books!Owed(account)' = ProxyBooks!Owed(account)'
      /\ Books!Rounding = ProxyBooks!Rounding
  BY <1>1 DEF Books!Loss, ProxyBooks!Loss, Books!Owed, ProxyBooks!Owed,
              Books!Rounding, ProxyBooks!Rounding
<1>3. \A parties : Books!OnlyChanges(parties) = ProxyBooks!OnlyChanges(parties)
  BY <1>1 DEF Books!OnlyChanges, ProxyBooks!OnlyChanges
<1>4. ASSUME NEW account \in Account, Books!Deposit(account)
      PROVE  ProxyBooks!Next
  <2>1. ProxyBooks!Deposit(account)
    BY <1>1, <1>2, <1>3, <1>4 DEF Books!Deposit, ProxyBooks!Deposit
  <2> QED BY <2>1 DEF ProxyBooks!Next
<1>5. ASSUME NEW account \in Account, Books!Withdraw(account)
      PROVE  ProxyBooks!Next
  <2>1. ProxyBooks!Withdraw(account)
    BY <1>1, <1>2, <1>3, <1>5 DEF Books!Withdraw, ProxyBooks!Withdraw
  <2> QED BY <2>1 DEF ProxyBooks!Next
<1>6. ASSUME NEW account \in Account, Books!Payout(account)
      PROVE  ProxyBooks!Next
  <2>1. ProxyBooks!Payout(account)
    BY <1>1, <1>2, <1>3, <1>6 DEF Books!Payout, ProxyBooks!Payout
  <2> QED BY <2>1 DEF ProxyBooks!Next
<1>7. ASSUME NEW parties \in SUBSET Account, Books!Trade(parties)
      PROVE  ProxyBooks!Next
  <2>1. /\ \A f : Books!Total(f) = ProxyBooks!Total(f)
        /\ Books!MostLost(parties) = ProxyBooks!MostLost(parties)
    BY BooksTotal, RoundingTypes, ProxyBooksTotal
  <2>2. ProxyBooks!Trade(parties)
    BY <1>1, <1>3, <1>7, <2>1 DEF Books!Trade, ProxyBooks!Trade
  <2> QED BY <2>2 DEF ProxyBooks!Next
<1>8. ASSUME Books!Close
      PROVE  ProxyBooks!Next
  <2>1. \A f : Books!Total(f) = ProxyBooks!Total(f)
    BY BooksTotal, ProxyBooksTotal
  <2>2. ProxyBooks!Close
    BY <1>1, <1>8, <2>1 DEF Books!Close, ProxyBooks!Close
  <2> QED BY <2>2 DEF ProxyBooks!Next
<1>9. ASSUME Books!Donate
      PROVE  ProxyBooks!Next
  <2>1. ProxyBooks!Donate
    BY <1>1, <1>9 DEF Books!Donate, ProxyBooks!Donate
  <2> QED BY <2>1 DEF ProxyBooks!Next
<1>10. ASSUME UNCHANGED Books!ledgerVars
       PROVE  UNCHANGED ProxyBooks!ledgerVars
  BY <1>1, <1>10 DEF Books!ledgerVars, ProxyBooks!ledgerVars
<1> QED
  BY <1>4, <1>5, <1>6, <1>7, <1>8, <1>9, <1>10 DEF Books!Next

\* Each call of liquidate() is a step of PerpetualV1 or one that ends without trade()
\* being executed, and so keeps what a running trade() remembers.
LEMMA ProxyRemembers ==
  ASSUME ProxyIInv, CallRemembers, LossBounded, [ProxyNext]_<<allVars, proxyVars>>
  PROVE  CallRemembers' /\ LossBounded'
<1>1. ASSUME status' = NotEntered
      PROVE  CallRemembers' /\ LossBounded'
  BY <1>1 DEF CallRemembers, LossBounded, NotEntered, Entered
<1>2. ASSUME [Next]_vars
      PROVE  CallRemembers' /\ LossBounded'
  BY <1>2, StepRemembers, StepBoundsLoss DEF ProxyIInv
<1>3. CASE LiquidateStep
  <2>1. ASSUME NEW msgSender, NEW liquidatee, NEW liquidator, NEW isBuy, NEW maxPosition,
               LiquidateSettle(msgSender, liquidatee, liquidator, isBuy, maxPosition)
        PROVE  status' = NotEntered
    BY <2>1 DEF LiquidateSettle, Deposit, nonReentrant
  <2>2. LiquidateTradeBegin \/ LiquidateTrade => Next
    BY TradeBeginKeeps, TradeKeeps
  <2>3. LiquidateTradeEnd \/ LiquidateWithdrawFee \/ LiquidateDepositFee \/ LiquidateRevert
          => status' = NotEntered
    BY DEF LiquidateTradeEnd, LiquidateWithdrawFee, LiquidateDepositFee, LiquidateRevert,
           EndTransaction, TradeEnd, Withdraw, Deposit, nonReentrant
  <2> QED BY <1>1, <1>2, <1>3, <2>1, <2>2, <2>3 DEF LiquidateStep
<1>4. CASE MarketStep
  BY <1>2, <1>4, StepImplements DEF MarketStep
<1>5. CASE ProxyConfigStep
  BY <1>2, <1>5 DEF ProxyConfigStep, SetInsuranceFund, SetInsuranceFee,
                    ApproveMaximumOnPerpetual, allVars
<1>6. CASE UNCHANGED <<allVars, proxyVars>>
  BY <1>2, <1>6 DEF allVars
<1> QED BY <1>3, <1>4, <1>5, <1>6 DEF ProxyNext

\* Every step of the contract with its proxy is a step of the ledger or none.
LEMMA ProxyStepLedger ==
  ASSUME ProxyIInv, CallRemembers, LossBounded, LossInFrame,
         [ProxyNext]_<<allVars, proxyVars>>
  PROVE  LossInFrame' /\ [ProxyBooks!Next]_(ProxyBooks!ledgerVars)
<1>1. CASE LiquidateStep
  BY <1>1, SettleLoses, TradeBeginLoses, TradeLoses, TradeEndLoses, WithdrawFeeLoses,
     DepositFeeLoses, RevertQuiet DEF LiquidateStep
<1>2. ASSUME Idle, frame' = frame, [Next]_vars
      PROVE  LossInFrame' /\ [ProxyBooks!Next]_(ProxyBooks!ledgerVars)
  <2>1. Idle'
    BY <1>2 DEF Idle
  <2>2. [Books!Next]_(Books!ledgerVars)
    BY <1>2, StepLedger DEF ProxyIInv
  <2> QED BY <1>2, <2>1, <2>2, SameBooks DEF LossInFrame
<1>3. CASE ProxyConfigStep
  BY <1>2, <1>3 DEF ProxyConfigStep, SetInsuranceFund, SetInsuranceFee,
                    ApproveMaximumOnPerpetual, allVars
<1>4. CASE MarketStep
  BY <1>2, <1>4, StepImplements DEF MarketStep, proxyVars
<1>5. CASE UNCHANGED <<allVars, proxyVars>>
  <2>1. [Next]_vars /\ frame' = frame
    BY <1>5 DEF allVars, proxyVars
  <2>2. CASE Idle
    BY <1>2, <2>1, <2>2
  <2>3. CASE ~Idle
    <3>1. /\ balances' = balances /\ localIndexes' = localIndexes /\ globalIndex' = globalIndex
          /\ tokens' = tokens /\ UNCHANGED final /\ proxyTokens' = proxyTokens
      BY <1>5 DEF allVars, vars, ledger, proxyVars
    <3>2. ~Idle' /\ Settlers' = Settlers /\ FrameLost' = FrameLost
      BY <2>1, <2>3, <3>1 DEF Idle, Settlers, FrameLost
    <3>3. LossInFrame'
      BY <2>1, <2>3, <3>1, <3>2 DEF LossInFrame
    <3> QED BY <2>1, <2>3, <3>1, <3>2, <3>3, QuietFrame
  <2> QED BY <2>2, <2>3
<1> QED BY <1>1, <1>3, <1>4, <1>5 DEF ProxyNext

\* Nothing is owed to anyone when the proxy is deployed.
LEMMA ProxyInitLedger == ProxyInit => ProxyBooks!Init
<1> SUFFICES ASSUME ProxyInit PROVE ProxyBooks!Init
  OBVIOUS
<1>1. Idle /\ Books!Init
  BY InitLedger DEF ProxyInit, LiquidationInit, Idle
<1>2. /\ LeftBalances = CommittedBalances /\ LeftIndexes = CommittedIndexes
      /\ (IF Idle THEN tokens ELSE frame.saved.tokens) = tokens
  BY <1>1 DEF LeftBalances, LeftIndexes
<1> QED BY <1>1, <1>2 DEF Books!Init, ProxyBooks!Init

(***************************************************************************)
(* PerpetualV1 with its proxy implements Ledger: a liquidate() that         *)
(* succeeds is one exchange between the liquidator, the liquidated account  *)
(* and the insurance fund, each of which loses the rounding of being        *)
(* settled once, and one that fails at any of its calls is nothing.         *)
(***************************************************************************)
THEOREM ProxyKeepsBooks == ProxySpec => ProxyImplementsLedger
<1> DEFINE Inv == ProxyIInv /\ CallRemembers /\ LossBounded /\ LossInFrame
<1>1. ProxyInit => CallRemembers /\ LossBounded /\ LossInFrame
  BY DEF ProxyInit, LiquidationInit, Init, CallRemembers, LossBounded, LossInFrame, Idle,
         NotEntered, Entered
<1>2. Inv /\ [ProxyNext]_<<allVars, proxyVars>> => (CallRemembers /\ LossBounded /\ LossInFrame)'
  BY ProxyRemembers, ProxyStepLedger
<1>3. ProxyInit => ProxyBooks!Init
  BY ProxyInitLedger
<1>4. Inv /\ [ProxyNext]_<<allVars, proxyVars>> => [ProxyBooks!Next]_(ProxyBooks!ledgerVars)
  BY ProxyStepLedger
<1> QED
  BY <1>1, <1>2, <1>3, <1>4, ProxyInvariant, PTL
     DEF ProxySpec, ProxyImplementsLedger, ProxyBooks!Spec
=============================================================================
