------------------------- MODULE PerpetualV1_proofs -------------------------
(***************************************************************************)
(* Proofs about the PerpetualV1 contract, for every set of accounts, every  *)
(* market and every width of the integers: type correctness, then the       *)
(* ledger invariants by way of the inductive invariant IInv, and then what  *)
(* a transaction may do to the accounts (the action properties).            *)
(***************************************************************************)
EXTENDS PerpetualLedger, P1Settlement_proofs

-----------------------------------------------------------------------------
(* The types of what a transaction computes                                 *)

\* The context every transaction starts from (_loadContext).
LEMMA ContextTypes ==
  ASSUME TypeOK
  PROVE  /\ ContextPrice \in Price /\ ContextPrice \in Nat
         /\ globalIndex \in Index /\ ContextIndex \in Index
         /\ ContextIndex.timestamp = now
         /\ now \in Nat /\ globalIndex.timestamp \in 1..now
         /\ FitsIndex(ContextIndex) => ContextIndex \in StoredIndex
         /\ now = globalIndex.timestamp => ContextIndex = globalIndex
<1>1. /\ globalIndex \in Index /\ Canonical(SignedIndex(globalIndex))
      /\ now \in Nat /\ globalIndex.timestamp \in 1..now
  BY DEF TypeOK, StoredIndex
<1>2. ContextPrice \in Price /\ ContextPrice \in Nat /\ rates[funder] \in SignedInt
  BY MarketAssumption DEF TypeOK, ContextPrice
<1>3. now >= globalIndex.timestamp
  BY <1>1
<1>4. /\ ContextIndex \in Index /\ ContextIndex.timestamp = now
      /\ Canonical(SignedIndex(ContextIndex))
      /\ now = globalIndex.timestamp => ContextIndex = globalIndex
  BY <1>1, <1>2, <1>3, NextIndexType DEF ContextIndex
<1> QED
  BY <1>1, <1>2, <1>4 DEF StoredIndex

\* What is stored for an account, and what settling makes of it.
LEMMA SettledTypes ==
  ASSUME TypeOK, NEW account \in Account, NEW index \in Index
  PROVE  /\ balances[account] \in Balance /\ localIndexes[account] \in Index
         /\ Settled(account, index) \in Balance
         /\ GetPosition(Settled(account, index)) = GetPosition(balances[account])
         /\ Canonical(GetMargin(Settled(account, index)))
         /\ Canonical(GetPosition(Settled(account, index)))
         /\ FitsBalance(Settled(account, index)) => Settled(account, index) \in StoredBalance
<1>1. /\ balances[account] \in Balance /\ localIndexes[account] \in Index
      /\ Canonical(GetMargin(balances[account]))
      /\ Canonical(GetPosition(balances[account]))
  BY DEF TypeOK, StoredBalances, StoredBalance, StoredIndexes, StoredIndex
<1> QED
  BY <1>1, SettlementType DEF Settled, StoredBalance

\* What _loadContext and _settleAccounts store has the right types.
LEMMA LoadContextTypes ==
  ASSUME TypeOK, NEW accounts \in SUBSET Account,
         NEW newBalance \in [accounts -> StoredBalance],
         LoadContextAndSettle(accounts, newBalance)
  PROVE  /\ balances' \in StoredBalances
         /\ localIndexes' \in StoredIndexes
         /\ globalIndex' \in StoredIndex
         /\ globalIndex'.timestamp \in 1..now
<1>1. ContextIndex \in StoredIndex /\ ContextIndex.timestamp \in 1..now
  BY ContextTypes DEF LoadContextAndSettle
<1> QED
  BY <1>1 DEF LoadContextAndSettle, TypeOK, StoredBalances, StoredIndexes

\* A margin change that fits gives a balance that can be stored.
LEMMA MarginStored ==
  ASSUME NEW b \in Balance, NEW amount \in Nat,
         Canonical(GetMargin(b)), Canonical(GetPosition(b))
  PROVE  /\ FitsBalance(AddToMargin(b, amount)) => AddToMargin(b, amount) \in StoredBalance
         /\ FitsBalance(SubFromMargin(b, amount)) => SubFromMargin(b, amount) \in StoredBalance
BY MarginUpdates DEF StoredBalance

\* What the two accounts of a trade have after it: the one that gives position away
\* gets the margin. A result that fits can be stored.
LEMMA TradedBalance ==
  ASSUME NEW b \in StoredBalance, NEW m \in Nat, NEW p \in Nat
  PROVE  LET gets  == SubFromPosition(AddToMargin(b, m), p)
             gives == AddToPosition(SubFromMargin(b, m), p)
         IN  /\ gets \in Balance /\ (FitsBalance(gets) => gets \in StoredBalance)
             /\ Margin(gets) = Margin(b) + m /\ Position(gets) = Position(b) - p
             /\ gives \in Balance /\ (FitsBalance(gives) => gives \in StoredBalance)
             /\ Margin(gives) = Margin(b) - m /\ Position(gives) = Position(b) + p
<1>1. b \in Balance /\ Canonical(GetMargin(b)) /\ Canonical(GetPosition(b))
  BY DEF StoredBalance
<1>2. \A c \in {AddToMargin(b, m), SubFromMargin(b, m)} :
         /\ c \in Balance /\ Canonical(GetMargin(c)) /\ Canonical(GetPosition(c))
         /\ Position(c) = Position(b)
  BY <1>1, MarginUpdates
<1>3. \A c \in {AddToMargin(b, m), SubFromMargin(b, m)} :
         /\ SubFromPosition(c, p) \in Balance /\ AddToPosition(c, p) \in Balance
         /\ Margin(SubFromPosition(c, p)) = Margin(c)
         /\ Margin(AddToPosition(c, p)) = Margin(c)
         /\ Position(SubFromPosition(c, p)) = Position(b) - p
         /\ Position(AddToPosition(c, p)) = Position(b) + p
         /\ FitsBalance(SubFromPosition(c, p)) => SubFromPosition(c, p) \in StoredBalance
         /\ FitsBalance(AddToPosition(c, p)) => AddToPosition(c, p) \in StoredBalance
  BY <1>2, PositionUpdates DEF StoredBalance
<1>4. Margin(AddToMargin(b, m)) = Margin(b) + m /\ Margin(SubFromMargin(b, m)) = Margin(b) - m
  BY <1>1, MarginUpdates
<1> QED
  BY <1>3, <1>4

-----------------------------------------------------------------------------
(* Type correctness, action by action                                       *)

\* Deposit keeps the types, whatever the amount.
LEMMA DepositType ==
  ASSUME TypeOK, NEW account \in Account, NEW amount \in Nat, Deposit(account, amount)
  PROVE  TypeOK'
<1> DEFINE b == Settled(account, ContextIndex)
           newBalance == AddToMargin(b, amount)
           stored == [a \in {account} |-> newBalance]
<1>1. amount \in Nat /\ TokenSupply \in Nat /\ tokens \in Nat
  BY AmountAssumption DEF TypeOK
<1>2. newBalance \in StoredBalance
  <2>1. b \in Balance /\ Canonical(GetMargin(b)) /\ Canonical(GetPosition(b))
    BY ContextTypes, SettledTypes
  <2>2. FitsBalance(newBalance)
    BY DEF Deposit
  <2> HIDE DEF b
  <2> QED BY <1>1, <2>1, <2>2, MarginStored
<1>3. LoadContextAndSettle({account}, stored)
  BY DEF Deposit
<1>4. /\ balances' \in StoredBalances /\ localIndexes' \in StoredIndexes
      /\ globalIndex' \in StoredIndex /\ globalIndex'.timestamp \in 1..now
  <2>1. stored \in [{account} -> StoredBalance] /\ {account} \in SUBSET Account
    BY <1>2
  <2> HIDE DEF stored
  <2> QED BY <1>3, <2>1, LoadContextTypes
<1>5. tokens' \in 0..TokenSupply /\ status = NotEntered
  BY <1>1 DEF Deposit, nonReentrant
<1> QED
  BY <1>4, <1>5 DEF TypeOK, Deposit, config, final, world, NotEntered, Entered

\* Withdraw keeps the types.
LEMMA WithdrawType ==
  ASSUME TypeOK, NEW sender, NEW account \in Account, NEW destination, NEW amount \in Nat,
         Withdraw(sender, account, destination, amount)
  PROVE  TypeOK'
<1> DEFINE b == Settled(account, ContextIndex)
           newBalance == SubFromMargin(b, amount)
           stored == [a \in {account} |-> newBalance]
<1>1. amount \in Nat /\ TokenSupply \in Nat /\ tokens \in Nat
  BY AmountAssumption DEF TypeOK
<1>2. newBalance \in StoredBalance
  <2>1. b \in Balance /\ Canonical(GetMargin(b)) /\ Canonical(GetPosition(b))
    BY ContextTypes, SettledTypes
  <2>2. FitsBalance(newBalance)
    BY DEF Withdraw
  <2> HIDE DEF b
  <2> QED BY <1>1, <2>1, <2>2, MarginStored
<1>3. LoadContextAndSettle({account}, stored)
  BY DEF Withdraw
<1>4. /\ balances' \in StoredBalances /\ localIndexes' \in StoredIndexes
      /\ globalIndex' \in StoredIndex /\ globalIndex'.timestamp \in 1..now
  <2>1. stored \in [{account} -> StoredBalance] /\ {account} \in SUBSET Account
    BY <1>2
  <2> HIDE DEF stored
  <2> QED BY <1>3, <2>1, LoadContextTypes
<1>5. tokens' \in 0..TokenSupply
  <2>1. /\ amount <= tokens
        /\ tokens' = IF destination = "perpetual" THEN tokens ELSE tokens - amount
    BY DEF Withdraw
  <2> QED BY <1>1, <2>1 DEF TypeOK
<1>6. status = NotEntered
  BY DEF Withdraw, nonReentrant
<1> QED
  BY <1>4, <1>5, <1>6 DEF TypeOK, Withdraw, config, final, world, NotEntered, Entered

\* The lists of accounts are functions into Account.
LEMMA AccountListType ==
  ASSUME NEW accounts \in AccountList
  PROVE  /\ \E n \in Nat : accounts \in [1..n -> Account]
         /\ Elements(accounts) \in SUBSET Account
         /\ \A i \in DOMAIN accounts : accounts[i] \in Elements(accounts)
<1>1. PICK n \in 0..MaxAccounts : accounts \in [1..n -> Account]
  BY DEF AccountList
<1>2. n \in Nat
  BY TradesAssumption
<1> QED
  BY <1>1, <1>2 DEF Elements

\* TradeBegin keeps the types.
LEMMA TradeBeginType ==
  ASSUME TypeOK, NEW accounts \in AccountList, TradeBegin(accounts)
  PROVE  TypeOK'
<1> DEFINE settled == [a \in Elements(accounts) |-> Settled(a, ContextIndex)]
           initial == [i \in DOMAIN accounts |-> settled[accounts[i]]]
<1>1. LoadContextAndSettle(Elements(accounts), settled)
  BY DEF TradeBegin
<1>2. Elements(accounts) \in SUBSET Account
  BY AccountListType
<1>3. settled \in [Elements(accounts) -> StoredBalance]
  BY <1>1, <1>2, ContextTypes, SettledTypes DEF LoadContextAndSettle
<1>4. initial \in [DOMAIN accounts -> StoredBalance]
  BY <1>3, AccountListType
<1>5. /\ balances' \in StoredBalances /\ localIndexes' \in StoredIndexes
      /\ globalIndex' \in StoredIndex /\ globalIndex'.timestamp \in 1..now
  <2> HIDE DEF settled
  <2> QED BY <1>1, <1>2, <1>3, LoadContextTypes
<1>6. /\ call' = [accounts |-> accounts, initial |-> initial, current |-> initial,
                  trades |-> 0, price |-> ContextPrice, saved |-> Saved]
      /\ UNCHANGED <<config, localOperators, final, tokens, world>>
      /\ status' = Entered /\ ~finalSettlementEnabled
  BY DEF TradeBegin, noFinalSettlement
<1>7. CallTypeOK'
  <2>1. /\ Saved.balances \in StoredBalances /\ Saved.localIndexes \in StoredIndexes
        /\ Saved.globalIndex \in StoredIndex
        /\ Saved.globalIndex.timestamp \in 1..now
        /\ Saved.localOperators \subseteq Account \X Delegate
    BY DEF Saved, TypeOK
  <2>2. ContextPrice \in Price /\ 0 \in 0..MaxTrades /\ now' = now
    BY <1>6, ContextTypes, TradesAssumption DEF world
  <2> HIDE DEF initial
  <2> QED BY <1>4, <1>6, <2>1, <2>2 DEF CallTypeOK
<1> QED
  BY <1>5, <1>6, <1>7 DEF TypeOK, config, final, world

\* TradeStep keeps the types.
LEMMA TradeStepType ==
  ASSUME TypeOK, NEW trader, NEW maker \in DOMAIN call.accounts,
         NEW taker \in DOMAIN call.accounts, NEW marginAmount \in Amount,
         NEW positionAmount \in Amount, NEW isBuy \in BOOLEAN,
         TradeStep(trader, maker, taker, marginAmount, positionAmount, isBuy)
  PROVE  TypeOK'
<1> DEFINE newMaker == MakerBalance(call.current[maker], marginAmount, positionAmount, isBuy)
           newTaker == TakerBalance(call.current[taker], marginAmount, positionAmount, isBuy)
           current == [call.current EXCEPT ![maker] = newMaker, ![taker] = newTaker]
<1>1. /\ status = Entered /\ CallTypeOK /\ ~finalSettlementEnabled
      /\ call.trades < MaxTrades
      /\ UNCHANGED <<localIndexes, globalIndex, config, localOperators, final,
                     status, tokens, world>>
  BY DEF TradeStep, TypeOK
<1>2. call.trades + 1 \in 0..MaxTrades
  BY <1>1, TradesAssumption DEF CallTypeOK
<1>3. \A c \in [DOMAIN call.accounts -> StoredBalance] :
         call' = AfterTrade(c) => CallTypeOK'
  <2> TAKE c \in [DOMAIN call.accounts -> StoredBalance]
  <2> HAVE call' = AfterTrade(c)
  <2> QED BY <1>1, <1>2 DEF CallTypeOK, AfterTrade, world
<1>4. CallTypeOK' /\ balances' \in StoredBalances
  <2>1. CASE call.accounts[maker] = call.accounts[taker]
    <3>1. call' = AfterTrade(call.current) /\ balances' = balances
      BY <2>1 DEF TradeStep
    <3> QED BY <1>1, <1>3, <3>1 DEF CallTypeOK, TypeOK
  <2>2. CASE call.accounts[maker] # call.accounts[taker]
    <3>1. /\ FitsBalance(newMaker) /\ FitsBalance(newTaker)
          /\ call' = AfterTrade(current)
          /\ balances' = [balances EXCEPT ![call.accounts[maker]] = newMaker,
                                          ![call.accounts[taker]] = newTaker]
      BY <2>2 DEF TradeStep
    <3>2. newMaker \in StoredBalance /\ newTaker \in StoredBalance
      <4>1. /\ call.current[maker] \in StoredBalance /\ call.current[taker] \in StoredBalance
            /\ marginAmount \in Nat /\ positionAmount \in Nat
        BY <1>1, AmountAssumption DEF CallTypeOK
      <4> DEFINE M == call.current[maker]
                 T == call.current[taker]
      <4>2. CASE isBuy
        <5>1. /\ newMaker = SubFromPosition(AddToMargin(M, marginAmount), positionAmount)
              /\ newTaker = AddToPosition(SubFromMargin(T, marginAmount), positionAmount)
          BY <4>2 DEF MakerBalance, TakerBalance
        <5> HIDE DEF newMaker, newTaker
        <5> QED BY <3>1, <4>1, <5>1, TradedBalance
      <4>3. CASE ~isBuy
        <5>1. /\ newMaker = AddToPosition(SubFromMargin(M, marginAmount), positionAmount)
              /\ newTaker = SubFromPosition(AddToMargin(T, marginAmount), positionAmount)
          BY <4>3 DEF MakerBalance, TakerBalance
        <5> HIDE DEF newMaker, newTaker
        <5> QED BY <3>1, <4>1, <5>1, TradedBalance
      <4> QED BY <4>2, <4>3
    <3> HIDE DEF newMaker, newTaker
    <3>3. current \in [DOMAIN call.accounts -> StoredBalance]
      BY <1>1, <3>2 DEF CallTypeOK
    <3>4. balances' \in StoredBalances
      BY <3>1, <3>2 DEF TypeOK, StoredBalances
    <3> HIDE DEF current
    <3> QED BY <1>3, <3>1, <3>3, <3>4
  <2> QED BY <2>1, <2>2
<1> QED
  BY <1>1, <1>4 DEF TypeOK, config, final, world

\* Both ends of trade() keep the types.
LEMMA TradeEndType ==
  ASSUME TypeOK, TradeEnd \/ TradeRevert
  PROVE  TypeOK'
<1>1. CASE TradeEnd
  BY <1>1 DEF TradeEnd, TypeOK, ledger, config, final, world, NotEntered, Entered
<1>2. CASE TradeRevert
  <2>1. CallTypeOK
    BY <1>2 DEF TradeRevert, TypeOK
  <2> QED
    BY <1>2, <2>1 DEF TradeRevert, TypeOK, CallTypeOK, config, final, world,
                      NotEntered, Entered
<1> QED
  BY <1>1, <1>2

\* What withdrawFinalSettlement pays and keeps, for an account without bad debt.
LEMMA FinalPayment ==
  ASSUME TypeOK, NEW sender \in Account,
         PositiveValue(Settled(sender, globalIndex), finalSettlementPrice)
           >= NegativeValue(Settled(sender, globalIndex), finalSettlementPrice)
  PROVE  /\ AmountToWithdraw(sender) \in 0..tokens
         /\ RemainingBalance(sender) \in Balance
         /\ Canonical(GetMargin(RemainingBalance(sender)))
         /\ Canonical(GetPosition(RemainingBalance(sender)))
         /\ Position(RemainingBalance(sender)) = 0
         /\ Margin(RemainingBalance(sender)) \in Nat
         /\ BASE * (Margin(RemainingBalance(sender)) + AmountToWithdraw(sender))
              <= NetValue(Settled(sender, globalIndex), finalSettlementPrice)
         /\ NetValue(Settled(sender, globalIndex), finalSettlementPrice)
              < BASE * (Margin(RemainingBalance(sender)) + AmountToWithdraw(sender)) + BASE
<1> DEFINE b == Settled(sender, globalIndex)
           net == PositiveValue(b, finalSettlementPrice)
                    - NegativeValue(b, finalSettlementPrice)
           v == FinalValue(sender)
           paid == AmountToWithdraw(sender)
           rest == RemainingBalance(sender)
<1>1. /\ globalIndex \in Index /\ finalSettlementPrice \in Nat /\ tokens \in Nat
      /\ BASE \in Nat /\ BASE > 0
  BY MarketAssumption, AmountAssumption, BaseAssumption DEF TypeOK, StoredIndex
<1>2. net \in Nat
  <2>1. b \in Balance
    BY <1>1, SettledTypes
  <2>2. /\ PositiveValue(b, finalSettlementPrice) \in Nat
        /\ NegativeValue(b, finalSettlementPrice) \in Nat
    BY <1>1, <2>1, ValueSplit
  <2> QED BY <2>2
<1>3. v = net \div BASE
  BY DEF FinalValue
<1> HIDE DEF net, v
<1>4. v \in Int /\ BASE * v <= net /\ net < BASE * v + BASE
  BY <1>2, <1>3, DivFacts
<1>5. v \in Nat
  <2>1. BASE * (v + 1) > 0
    BY <1>1, <1>2, <1>4
  <2>2. ~(v + 1 <= 0)
    BY <1>1, <1>4, <2>1
  <2> QED BY <1>4, <2>2
<1>6. /\ paid \in 0..tokens /\ paid \in Nat /\ v - paid \in Nat
  BY <1>1, <1>5 DEF AmountToWithdraw, v
<1>7. rest = [marginIsPositive |-> v - paid # 0, positionIsPositive |-> FALSE,
              margin |-> v - paid, position |-> 0]
  BY DEF RemainingBalance, v
<1> HIDE DEF paid, rest
<1>8. /\ rest \in Balance /\ Canonical(GetMargin(rest)) /\ Canonical(GetPosition(rest))
  BY <1>6, <1>7 DEF Balance, Canonical, GetMargin, GetPosition
<1>9. Position(rest) = 0
  <2>1. rest.position = 0 /\ ~rest.positionIsPositive
    BY <1>7
  <2>2. Position(rest) = -rest.position
    BY <2>1 DEF Position, GetPosition, ToInt
  <2>3. \A n \in Int : n <= 0 /\ 0 <= n => -n <= 0 /\ 0 <= -n /\ -n \in Int
    OBVIOUS
  <2>4. Position(rest) <= 0 /\ 0 <= Position(rest) /\ Position(rest) \in Int
    BY <2>1, <2>2, <2>3
  <2> QED BY <2>4
<1>10. Margin(rest) = v - paid
  <2>1. CASE v - paid = 0
    BY <1>6, <1>7, <2>1 DEF Margin, GetMargin, ToInt
  <2>2. CASE v - paid # 0
    BY <1>6, <1>7, <2>2 DEF Margin, GetMargin, ToInt
  <2> QED BY <2>1, <2>2
<1>11. Margin(rest) + paid = v
  BY <1>4, <1>6, <1>10
<1> QED
  BY <1>4, <1>6, <1>8, <1>9, <1>10, <1>11 DEF NetValue, net, paid, rest

\* WithdrawFinalSettlement keeps the types.
LEMMA WithdrawFinalSettlementType ==
  ASSUME TypeOK, NEW sender \in Account, WithdrawFinalSettlement(sender)
  PROVE  TypeOK'
<1> DEFINE b == Settled(sender, globalIndex)
           positive == PositiveValue(b, finalSettlementPrice)
           negative == NegativeValue(b, finalSettlementPrice)
<1>1. /\ status = NotEntered
      /\ UNCHANGED <<globalIndex, config, localOperators, final, status, call, world>>
      /\ localIndexes' = [localIndexes EXCEPT ![sender] = globalIndex]
  BY DEF WithdrawFinalSettlement, nonReentrant
<1>2. /\ globalIndex \in Index /\ finalSettlementPrice \in Nat /\ tokens \in Nat
      /\ TokenSupply \in Nat
  BY MarketAssumption, AmountAssumption DEF TypeOK, StoredIndex
<1>3. b \in StoredBalance /\ b \in Balance
  BY <1>2, SettledTypes DEF WithdrawFinalSettlement
<1>4. positive \in Nat /\ negative \in Nat
  <2> HIDE DEF b
  <2> QED BY <1>2, <1>3, ValueSplit
<1>5. balances' \in StoredBalances /\ tokens' \in 0..TokenSupply
  <2>1. CASE positive < negative
    <3>1. balances' = [balances EXCEPT ![sender] = b] /\ tokens' = tokens
      BY <2>1 DEF WithdrawFinalSettlement
    <3> HIDE DEF b
    <3> QED BY <1>3, <3>1 DEF TypeOK, StoredBalances
  <2>2. CASE ~(positive < negative)
    <3>1. /\ FitsBalance(RemainingBalance(sender))
          /\ balances' = [balances EXCEPT ![sender] = RemainingBalance(sender)]
          /\ tokens' = tokens - AmountToWithdraw(sender)
      BY <2>2 DEF WithdrawFinalSettlement
    <3>2. /\ RemainingBalance(sender) \in StoredBalance
          /\ AmountToWithdraw(sender) \in 0..tokens
      BY <1>4, <2>2, <3>1, FinalPayment DEF StoredBalance
    <3>3. tokens' \in 0..TokenSupply
      BY <1>2, <3>1, <3>2 DEF TypeOK
    <3> QED BY <3>1, <3>2, <3>3 DEF TypeOK, StoredBalances
  <2> QED BY <2>1, <2>2
<1>6. localIndexes' \in StoredIndexes
  BY <1>1 DEF TypeOK, StoredIndexes
<1> QED
  BY <1>1, <1>5, <1>6 DEF TypeOK, config, final, world, NotEntered, Entered

\* The steps of the admin keep the types.
LEMMA AdminType ==
  ASSUME TypeOK, AdminStep
  PROVE  TypeOK'
<1>0. status = NotEntered /\ call = NoCall
  BY DEF AdminStep, SetGlobalOperator, SetOracle, SetFunder, SetMinCollateral,
         EnableFinalSettlement, nonReentrant, TypeOK, NotEntered, Entered
<1>1. CASE \E operator \in Operator, approved \in BOOLEAN : SetGlobalOperator(operator, approved)
  <2>1. PICK operator \in Operator, approved \in BOOLEAN : SetGlobalOperator(operator, approved)
    BY <1>1
  <2>2. globalOperators' \subseteq Operator
    BY <2>1 DEF SetGlobalOperator, TypeOK
  <2> QED BY <1>0, <2>1, <2>2 DEF SetGlobalOperator, TypeOK, ledger, final, world,
                                  NotEntered, Entered
<1>2. CASE \E newOracle \in Oracle : SetOracle(newOracle)
  BY <1>0, <1>2 DEF SetOracle, TypeOK, ledger, final, world, NotEntered, Entered
<1>3. CASE \E newFunder \in Funder : SetFunder(newFunder)
  BY <1>0, <1>3 DEF SetFunder, TypeOK, ledger, final, world, NotEntered, Entered
<1>4. CASE \E newMinCollateral \in MinCollateral : SetMinCollateral(newMinCollateral)
  BY <1>0, <1>4 DEF SetMinCollateral, TypeOK, ledger, final, world, NotEntered, Entered
<1>5. CASE \E lower, upper \in Price : EnableFinalSettlement(lower, upper)
  <2>1. PICK lower, upper \in Price : EnableFinalSettlement(lower, upper)
    BY <1>5
  <2>2. /\ globalIndex' \in StoredIndex /\ globalIndex'.timestamp \in 1..now
        /\ finalSettlementPrice' \in Price
    BY <2>1, ContextTypes DEF EnableFinalSettlement
  <2> QED BY <1>0, <2>1, <2>2 DEF EnableFinalSettlement, TypeOK, config, world,
                                  NotEntered, Entered
<1> QED
  BY <1>1, <1>2, <1>3, <1>4, <1>5 DEF AdminStep

\* SetLocalOperator keeps the types.
LEMMA OperatorType ==
  ASSUME TypeOK, OperatorStep
  PROVE  TypeOK'
<1>1. PICK sender \in Account, operator \in Delegate, approved \in BOOLEAN :
        SetLocalOperator(sender, operator, approved)
  BY DEF OperatorStep
<1>2. localOperators' \subseteq Account \X Delegate
  BY <1>1 DEF SetLocalOperator, TypeOK
<1> QED
  BY <1>1, <1>2 DEF SetLocalOperator, TypeOK, CallTypeOK, ledger, config, final, world

\* The steps of the outside world keep the types.
LEMMA WorldType ==
  ASSUME TypeOK, WorldStep
  PROVE  TypeOK'
<1>0. /\ status = NotEntered /\ call = NoCall /\ now \in Nat
      /\ tokens \in Nat /\ TokenSupply \in Nat
  BY AmountAssumption DEF WorldStep, Tick, ChangePrice, ChangeRate, Donate, nonReentrant,
                          TypeOK, NotEntered, Entered
<1>1. CASE Tick
  <2>1. now' \in Nat /\ globalIndex'.timestamp \in 1..now'
    BY <1>0, <1>1 DEF Tick, TypeOK, ledger
  <2> QED BY <1>0, <1>1, <2>1 DEF Tick, TypeOK, ledger, config, final, NotEntered, Entered
<1>2. CASE \E o \in Oracle, price \in Price : ChangePrice(o, price)
  BY <1>0, <1>2 DEF ChangePrice, TypeOK, ledger, config, final, NotEntered, Entered
<1>3. CASE \E f \in Funder, rate \in Rate : ChangeRate(f, rate)
  BY <1>0, <1>3 DEF ChangeRate, TypeOK, ledger, config, final, NotEntered, Entered
<1>4. CASE \E amount \in Amount : Donate(amount)
  <2>1. PICK amount \in Amount : Donate(amount)
    BY <1>4
  <2>2. tokens' \in 0..TokenSupply
    BY <1>0, <2>1, AmountAssumption DEF Donate
  <2> QED BY <1>0, <2>1, <2>2 DEF Donate, TypeOK, ledger, config, final, world,
                                  NotEntered, Entered
<1> QED
  BY <1>1, <1>2, <1>3, <1>4 DEF WorldStep

\* initializeV1 leaves a state of the right types.
LEMMA InitType ==
  ASSUME Init
  PROVE  TypeOK
<1>1. /\ ZeroBalance \in StoredBalance /\ ZeroIndex \in StoredIndex
      /\ globalIndex \in StoredIndex /\ globalIndex.timestamp \in 1..now /\ now \in Nat
  BY Uint120Assumption, IndexWidthAssumption, TimeAssumption
     DEF Init, ZeroBalance, ZeroIndex, StoredBalance, StoredIndex, Balance, Index, FitsBalance,
         FitsIndex, Canonical, GetMargin, GetPosition, SignedIndex
<1>2. tokens \in 0..TokenSupply
  BY AmountAssumption DEF Init
<1> QED
  BY <1>1, <1>2 DEF Init, TypeOK, StoredBalances, StoredIndexes, NotEntered, Entered

\* Every step keeps the types.
LEMMA NextType ==
  ASSUME TypeOK, [Next]_vars
  PROVE  TypeOK'
<1>1. CASE MarginStep
  BY <1>1, AmountAssumption, DepositType, WithdrawType DEF MarginStep
<1>2. CASE TradeCallStep
  BY <1>2, TradeBeginType, TradeStepType, TradeEndType DEF TradeCallStep
<1>3. CASE FinalSettlementStep
  BY <1>3, WithdrawFinalSettlementType DEF FinalSettlementStep
<1>4. CASE AdminStep
  BY <1>4, AdminType
<1>5. CASE OperatorStep
  BY <1>5, OperatorType
<1>6. CASE WorldStep
  BY <1>6, WorldType
<1>7. CASE UNCHANGED vars
  BY <1>7 DEF vars, TypeOK, CallTypeOK, ledger, config, final, world
<1> QED
  BY <1>1, <1>2, <1>3, <1>4, <1>5, <1>6, <1>7 DEF Next

\* Every stored balance and index fits its width and is canonical, a call of trade()
\* has its memory exactly while the guard is set and never once final settlement is
\* enabled, and the index is never ahead of the block.
THEOREM TypeCorrect == Spec => []TypeOK
<1>1. Init => TypeOK
  BY InitType
<1>2. TypeOK /\ [Next]_vars => TypeOK'
  BY NextType
<1> QED
  BY <1>1, <1>2, PTL DEF Spec

-----------------------------------------------------------------------------
(* The totals over all accounts                                             *)

\* A claim is an integer.
LEMMA ClaimInt ==
  ASSUME NEW b \in Balance, NEW x \in Index
  PROVE  Claim(b, x) \in Int
<1>1. /\ Margin(b) \in Int /\ Position(b) \in Int /\ BASE \in Int
      /\ ToInt(SignedIndex(x)) \in Int
  BY BalanceInt, SignedIndexType, BaseAssumption
<1> QED
  BY <1>1 DEF Claim

\* Positions and claims are integers, and so are their totals.
LEMMA LedgerTypes ==
  ASSUME NEW bals \in [Account -> Balance], NEW idxs \in [Account -> Index]
  PROVE  /\ Positions(bals) \in [Account -> Int] /\ Total(Positions(bals)) \in Int
         /\ Claims(bals, idxs) \in [Account -> Int] /\ Total(Claims(bals, idxs)) \in Int
<1>1. Positions(bals) \in [Account -> Int] /\ Claims(bals, idxs) \in [Account -> Int]
  BY ClaimInt, BalanceInt DEF Positions, Claims
<1> QED
  BY <1>1, AccountAssumption, TotalType

\* Storing a balance and an index for one account moves the totals by what they
\* change for that account.
LEMMA LedgerUpdate ==
  ASSUME NEW bals \in [Account -> Balance], NEW idxs \in [Account -> Index],
         NEW a \in Account, NEW b \in Balance, NEW x \in Index
  PROVE  /\ Total(Positions([bals EXCEPT ![a] = b]))
              = Total(Positions(bals)) - Position(bals[a]) + Position(b)
         /\ Total(Claims([bals EXCEPT ![a] = b], [idxs EXCEPT ![a] = x]))
              = Total(Claims(bals, idxs)) - Claim(bals[a], idxs[a]) + Claim(b, x)
         /\ Position(bals[a]) \in Int /\ Position(b) \in Int
         /\ Claim(bals[a], idxs[a]) \in Int /\ Claim(b, x) \in Int
<1> DEFINE bals1 == [bals EXCEPT ![a] = b]
           idxs1 == [idxs EXCEPT ![a] = x]
<1>1. bals1 \in [Account -> Balance] /\ idxs1 \in [Account -> Index]
  OBVIOUS
<1>2. /\ Positions(bals) \in [Account -> Int] /\ Claims(bals, idxs) \in [Account -> Int]
      /\ Positions(bals1) \in [Account -> Int] /\ Claims(bals1, idxs1) \in [Account -> Int]
  BY <1>1, LedgerTypes
<1>3. /\ Positions(bals)[a] = Position(bals[a]) /\ Positions(bals1)[a] = Position(b)
      /\ Claims(bals, idxs)[a] = Claim(bals[a], idxs[a])
      /\ Claims(bals1, idxs1)[a] = Claim(b, x)
  BY DEF Positions, Claims
<1>4. Positions(bals1) = [Positions(bals) EXCEPT ![a] = Position(b)]
  BY DEF Positions
<1>5. Claims(bals1, idxs1) = [Claims(bals, idxs) EXCEPT ![a] = Claim(b, x)]
  BY DEF Claims
<1>6. /\ Position(bals[a]) \in Int /\ Position(b) \in Int
      /\ Claim(bals[a], idxs[a]) \in Int /\ Claim(b, x) \in Int
  BY <1>2, <1>3
<1>7. Total(Positions(bals1)) = Total(Positions(bals)) - Position(bals[a]) + Position(b)
  <2> DEFINE f == Positions(bals)
             v == Position(b)
  <2>1. f \in [Account -> Int] /\ v \in Int /\ f[a] = Position(bals[a])
    BY <1>2, <1>3, <1>6
  <2> HIDE DEF f, v
  <2>2. Total([f EXCEPT ![a] = v]) = Total(f) - f[a] + v
    BY <2>1, AccountAssumption, TotalUpdate
  <2> QED BY <1>4, <2>1, <2>2 DEF f, v
<1>8. Total(Claims(bals1, idxs1))
        = Total(Claims(bals, idxs)) - Claim(bals[a], idxs[a]) + Claim(b, x)
  <2> DEFINE f == Claims(bals, idxs)
             v == Claim(b, x)
  <2>1. f \in [Account -> Int] /\ v \in Int /\ f[a] = Claim(bals[a], idxs[a])
    BY <1>2, <1>3, <1>6
  <2> HIDE DEF f, v
  <2>2. Total([f EXCEPT ![a] = v]) = Total(f) - f[a] + v
    BY <2>1, AccountAssumption, TotalUpdate
  <2> QED BY <1>5, <2>1, <2>2 DEF f, v
<1> QED
  BY <1>6, <1>7, <1>8

\* What the types say of the ledger, in the form the lemmas above need.
LEMMA StoredLedger ==
  ASSUME TypeOK
  PROVE  balances \in [Account -> Balance] /\ localIndexes \in [Account -> Index]
BY DEF TypeOK, StoredBalances, StoredBalance, StoredIndexes, StoredIndex

\* The new index is in step with every account that was in step with the old one,
\* so settling lowers the claim of an account by less than 1 token unit.
LEMMA SettleOne ==
  ASSUME TypeOK, IndexesInSync
  PROVE  /\ InSync(localIndexes, ContextIndex)
         /\ \A a \in Account :
               /\ Claim(Settled(a, ContextIndex), ContextIndex)
                    <= Claim(balances[a], localIndexes[a])
               /\ Position(Settled(a, ContextIndex)) = Position(balances[a])
<1>1. InSync(localIndexes, ContextIndex)
  <2>1. \A a \in Account : localIndexes[a].timestamp \in Nat
    BY StoredLedger DEF Index
  <2>2. globalIndex.timestamp \in Nat /\ now \in Nat /\ globalIndex.timestamp <= now
    BY ContextTypes
  <2> QED BY <2>1, <2>2, ContextTypes DEF IndexesInSync, InSync
<1>2. ASSUME NEW a \in Account
      PROVE  /\ Claim(Settled(a, ContextIndex), ContextIndex)
                  <= Claim(balances[a], localIndexes[a])
             /\ Position(Settled(a, ContextIndex)) = Position(balances[a])
  <2>1. /\ balances[a] \in Balance /\ localIndexes[a] \in Index /\ ContextIndex \in Index
        /\ localIndexes[a].timestamp = ContextIndex.timestamp => localIndexes[a] = ContextIndex
    BY <1>1, ContextTypes, SettledTypes DEF InSync
  <2> QED BY <2>1, SettledTypes, SettlementBounds DEF Settled, Position
<1> QED
  BY <1>1, <1>2

-----------------------------------------------------------------------------
(* The books balance, action by action                                      *)

\* A margin change of one settled account by d leaves the books balanced when the
\* contract has gained at least d tokens.
LEMMA MarginBooks ==
  ASSUME TypeOK, BooksBalance(balances, localIndexes, globalIndex), noFinalSettlement,
         NEW account \in Account, NEW d \in Int, NEW b \in Balance,
         GetPosition(b) = GetPosition(Settled(account, ContextIndex)),
         Margin(b) = Margin(Settled(account, ContextIndex)) + d,
         LoadContextAndSettle({account}, [a \in {account} |-> b]),
         tokens' \in Int, tokens + d <= tokens', UNCHANGED final
  PROVE  BooksBalance(balances, localIndexes, globalIndex)'
<1> DEFINE s == Settled(account, ContextIndex)
           X == ToInt(SignedIndex(ContextIndex))
<1>1. /\ balances' = [balances EXCEPT ![account] = b]
      /\ localIndexes' = [localIndexes EXCEPT ![account] = ContextIndex]
      /\ globalIndex' = ContextIndex
  BY StoredLedger DEF LoadContextAndSettle
<1>2. /\ ContextIndex \in Index /\ s \in Balance /\ X \in Int
      /\ BASE \in Int /\ BASE > 0 /\ tokens \in Int
  BY ContextTypes, SettledTypes, SignedIndexType, BaseAssumption, AmountAssumption DEF TypeOK
<1>3. InSync(localIndexes, ContextIndex) /\ InSync(localIndexes, globalIndex)
  BY SettleOne DEF BooksBalance, IndexesInSync
<1>4. InSync(localIndexes', globalIndex')
  <2>1. ContextIndex.timestamp <= ContextIndex.timestamp
    BY <1>2 DEF Index
  <2> QED BY <1>1, <1>3, <2>1, StoredLedger DEF InSync
<1>5. /\ Claim(s, ContextIndex) <= Claim(balances[account], localIndexes[account])
      /\ Position(s) = Position(balances[account]) /\ Position(b) = Position(s)
  BY <1>3, SettleOne DEF IndexesInSync, Position
<1>6. Claim(b, ContextIndex) = Claim(s, ContextIndex) + BASE * d
  <2>1. Margin(s) \in Int /\ Position(s) \in Int
    BY <1>2, BalanceInt
  <2>2. Margin(b) = Margin(s) + d /\ Position(b) = Position(s)
    BY <1>5
  <2>3. Claim(b, ContextIndex) = BASE * (Margin(s) + d) + X * Position(s)
    BY <2>2 DEF Claim
  <2>4. Claim(s, ContextIndex) = BASE * Margin(s) + X * Position(s)
    BY DEF Claim
  <2> HIDE DEF s, X
  <2>5. BASE * (Margin(s) + d) = BASE * Margin(s) + BASE * d
    BY <1>2, <2>1
  <2>6. BASE * Margin(s) \in Int /\ X * Position(s) \in Int /\ BASE * d \in Int
    BY <1>2, <2>1
  <2> QED BY <2>3, <2>4, <2>5, <2>6
<1>7. /\ Total(Positions(balances')) = Total(Positions(balances))
      /\ Total(Claims(balances', localIndexes'))
           <= Total(Claims(balances, localIndexes)) + BASE * d
  <2>1. /\ Total(Positions(balances'))
             = Total(Positions(balances)) - Position(balances[account]) + Position(b)
        /\ Total(Claims(balances', localIndexes'))
             = Total(Claims(balances, localIndexes))
                 - Claim(balances[account], localIndexes[account]) + Claim(b, ContextIndex)
        /\ Position(balances[account]) \in Int /\ Position(b) \in Int
        /\ Claim(balances[account], localIndexes[account]) \in Int
        /\ Claim(b, ContextIndex) \in Int
    BY <1>1, <1>2, StoredLedger, LedgerUpdate
  <2>2. Total(Positions(balances)) \in Int /\ Total(Claims(balances, localIndexes)) \in Int
    BY StoredLedger, LedgerTypes
  <2>3. Claim(s, ContextIndex) \in Int /\ BASE * d \in Int
    BY <1>2, ClaimInt
  <2> HIDE DEF s
  <2> QED BY <1>5, <1>6, <2>1, <2>2, <2>3
<1>8. /\ Total(Positions(balances)) = 0
      /\ Total(Claims(balances, localIndexes)) <= BASE * tokens
  BY DEF BooksBalance
<1>9. Total(Claims(balances', localIndexes')) <= BASE * tokens'
  <2>1. BASE * (tokens + d) = BASE * tokens + BASE * d
    BY <1>2
  <2>2. BASE * (tokens + d) <= BASE * tokens'
    <3>1. BASE \in Nat /\ tokens + d \in Int /\ tokens + d <= tokens' /\ tokens' \in Int
      BY <1>2
    <3>2. \A m, n \in Int, k \in Nat : m <= n => k * m <= k * n
      OBVIOUS
    <3> QED BY <3>1, <3>2
  <2>3. Total(Claims(balances, localIndexes)) \in Int
    BY StoredLedger, LedgerTypes
  <2>4. Total(Claims(balances', localIndexes')) \in Int
    <3>1. balances' \in [Account -> Balance] /\ localIndexes' \in [Account -> Index]
      BY <1>1, <1>2, StoredLedger
    <3> QED BY <3>1, LedgerTypes
  <2>5. BASE * tokens \in Int /\ BASE * d \in Int /\ BASE * tokens' \in Int
    BY <1>2
  <2> QED BY <1>7, <1>8, <2>1, <2>2, <2>3, <2>4, <2>5
<1> QED
  BY <1>4, <1>7, <1>8, <1>9 DEF BooksBalance, final, noFinalSettlement

\* A deposit leaves the books balanced, whatever the amount.
LEMMA DepositBooks ==
  ASSUME TypeOK, BooksBalance(balances, localIndexes, globalIndex),
         NEW account \in Account, NEW amount \in Nat, Deposit(account, amount)
  PROVE  BooksBalance(balances, localIndexes, globalIndex)'
<1> DEFINE b == AddToMargin(Settled(account, ContextIndex), amount)
<1>1. amount \in Int /\ tokens \in Nat
  BY AmountAssumption DEF TypeOK
<1>2. /\ b \in Balance /\ Margin(b) = Margin(Settled(account, ContextIndex)) + amount
      /\ GetPosition(b) = GetPosition(Settled(account, ContextIndex))
  BY <1>1, ContextTypes, SettledTypes, MarginUpdates
<1>3. /\ noFinalSettlement /\ UNCHANGED final /\ tokens' = tokens + amount
      /\ LoadContextAndSettle({account}, [a \in {account} |-> b])
  BY DEF Deposit
<1>4. tokens' \in Int /\ tokens + amount <= tokens'
  BY <1>1, <1>3
<1> HIDE DEF b
<1> QED BY <1>1, <1>2, <1>3, <1>4, MarginBooks

\* A withdrawal leaves the books balanced, whatever the amount.
LEMMA WithdrawBooks ==
  ASSUME TypeOK, BooksBalance(balances, localIndexes, globalIndex),
         NEW sender, NEW account \in Account, NEW destination, NEW amount \in Nat,
         Withdraw(sender, account, destination, amount)
  PROVE  BooksBalance(balances, localIndexes, globalIndex)'
<1> DEFINE b == SubFromMargin(Settled(account, ContextIndex), amount)
           d == -amount
<1>1. d \in Int /\ tokens \in Nat
  BY AmountAssumption DEF TypeOK
<1>2. /\ b \in Balance /\ Margin(b) = Margin(Settled(account, ContextIndex)) - amount
      /\ GetPosition(b) = GetPosition(Settled(account, ContextIndex))
      /\ Margin(Settled(account, ContextIndex)) \in Int
  BY <1>1, ContextTypes, SettledTypes, MarginUpdates, BalanceInt
<1>3. /\ noFinalSettlement /\ UNCHANGED final
      /\ tokens' = tokens \/ tokens' = tokens - amount
      /\ LoadContextAndSettle({account}, [a \in {account} |-> b])
  BY DEF Withdraw
<1>4. tokens' \in Int /\ tokens + d <= tokens'
  BY <1>1, <1>3
<1>5. Margin(b) = Margin(Settled(account, ContextIndex)) + d
  <2> HIDE DEF b
  <2> QED BY <1>1, <1>2
<1> HIDE DEF b, d
<1> QED BY <1>1, <1>2, <1>3, <1>4, <1>5, MarginBooks

\* An account list in strictly increasing order names no account twice: what
\* _verifyAccounts checks of neighbours holds of any two entries.
LEMMA SortedInjective ==
  ASSUME NEW accounts \in AccountList, VerifyAccounts(accounts),
         NEW i \in DOMAIN accounts, NEW j \in DOMAIN accounts, accounts[i] = accounts[j]
  PROVE  i = j
<1>1. PICK n \in Nat : accounts \in [1..n -> Account]
  BY AccountListType
<1>2. /\ \A k \in 1..n : accounts[k] \in Nat
      /\ \A k \in 2..n : accounts[k - 1] < accounts[k]
  <2>1. \A k \in 1..n : accounts[k] \in Nat
    BY <1>1, AccountAssumption
  <2>2. ASSUME NEW k \in 2..n PROVE accounts[k - 1] < accounts[k]
    <3>1. k \in DOMAIN accounts \ {1} /\ k - 1 \in 1..n /\ k \in 1..n
      BY <1>1
    <3>2. accounts[k] > accounts[k - 1]
      BY <3>1 DEF VerifyAccounts
    <3> QED BY <2>1, <3>1, <3>2
  <2> QED BY <2>1, <2>2
<1>3. ASSUME NEW k \in 1..n, NEW l \in 1..n, k < l
      PROVE  accounts[k] < accounts[l]
  <2> DEFINE bad == {m \in (k + 1)..n : accounts[m] <= accounts[k]}
             T == {k..m : m \in bad}
             N == 1..n
  <2>1. SUFFICES ASSUME bad # {} PROVE FALSE
    <3>1. l \in (k + 1)..n /\ l \notin bad
      BY <1>3, <2>1
    <3> QED BY <1>2, <3>1
  <2>2. IsFiniteSet(N)
    BY FS_Interval
  <2>3. T \subseteq SUBSET N /\ T # {}
    BY <2>1
  <2>4. PICK A \in T : \A B \in T : B \subseteq A => B = A
    <3> HIDE DEF T, N, bad
    <3> QED BY <2>2, <2>3, MinimalSubset
  <2>5. PICK m \in bad : A = k..m
    BY <2>4
  <2>6. m \in 2..n /\ m \in Int /\ k \in Int /\ m > k
    BY <2>5
  <2>7. accounts[m - 1] < accounts[m] /\ accounts[m] <= accounts[k]
    BY <1>2, <2>5, <2>6
  <2>8. CASE m = k + 1
    <3>1. m - 1 = k
      BY <2>6, <2>8
    <3>2. accounts[k] \in Nat /\ accounts[m] \in Nat
      BY <1>2, <2>6
    <3> QED BY <2>7, <3>1, <3>2
  <2>9. CASE m # k + 1
    <3>1. m - 1 \in (k + 1)..n
      BY <2>5, <2>6, <2>9
    <3>2. accounts[m - 1] \in Nat /\ accounts[m] \in Nat /\ accounts[k] \in Nat
      BY <1>2, <2>6, <3>1
    <3>3. m - 1 \in bad
      BY <2>7, <3>1, <3>2
    <3>4. k..(m - 1) \in T
      BY <3>3
    <3>5. k..(m - 1) \subseteq A /\ m \in A /\ m \notin k..(m - 1)
      BY <2>5, <2>6
    <3> QED BY <2>4, <3>4, <3>5
  <2> QED BY <2>8, <2>9
<1>4. /\ i \in 1..n /\ j \in 1..n /\ accounts[i] \in Nat /\ accounts[j] \in Nat
  BY <1>1, <1>2
<1>5. ~(i < j) /\ ~(j < i)
  BY <1>3, <1>4
<1> QED
  BY <1>4, <1>5

\* Settling the accounts of a call leaves the books balanced (TradeBegin).
LEMMA TradeBeginBooks ==
  ASSUME TypeOK, BooksBalance(balances, localIndexes, globalIndex),
         NEW accounts \in AccountList, TradeBegin(accounts)
  PROVE  BooksBalance(balances, localIndexes, globalIndex)'
<1>1. /\ globalIndex' = ContextIndex
      /\ localIndexes' = [a \in Account |->
             IF a \in Elements(accounts) THEN ContextIndex ELSE localIndexes[a]]
      /\ balances' = [a \in Account |->
             IF a \in Elements(accounts) THEN Settled(a, ContextIndex) ELSE balances[a]]
      /\ noFinalSettlement /\ UNCHANGED <<final, tokens>>
  BY DEF TradeBegin, LoadContextAndSettle
<1>2. ContextIndex \in Index
  BY ContextTypes
<1>3. /\ balances' \in [Account -> Balance] /\ localIndexes' \in [Account -> Index]
      /\ balances \in [Account -> Balance] /\ localIndexes \in [Account -> Index]
  BY <1>1, <1>2, StoredLedger, SettledTypes
<1>4. InSync(localIndexes, ContextIndex) /\ IndexesInSync
  BY SettleOne DEF BooksBalance, IndexesInSync
<1>5. InSync(localIndexes', globalIndex')
  <2>1. ContextIndex.timestamp <= ContextIndex.timestamp
    BY <1>2 DEF Index
  <2> QED BY <1>1, <1>4, <2>1 DEF InSync
<1>6. Positions(balances') = Positions(balances)
  BY <1>1, <1>4, SettleOne DEF Positions
<1>7. Total(Claims(balances', localIndexes')) <= Total(Claims(balances, localIndexes))
  <2> DEFINE f == Claims(balances', localIndexes')
             g == Claims(balances, localIndexes)
  <2>1. f \in [Account -> Int] /\ g \in [Account -> Int]
    BY <1>3, LedgerTypes
  <2>2. \A a \in Account : f[a] <= g[a]
    <3> TAKE a \in Account
    <3>1. CASE a \in Elements(accounts)
      BY <1>1, <1>4, <3>1, SettleOne DEF Claims
    <3>2. CASE a \notin Elements(accounts)
      <4>1. f[a] = g[a]
        BY <1>1, <3>2 DEF Claims
      <4> HIDE DEF f, g
      <4> QED BY <2>1, <4>1
    <3> QED BY <3>1, <3>2
  <2> HIDE DEF f, g
  <2>3. Total(f) <= Total(g)
    BY <2>1, <2>2, AccountAssumption, TotalMonotone
  <2> QED BY <2>3 DEF f, g
<1>8. Total(Claims(balances', localIndexes')) <= BASE * tokens'
  <2>1. /\ Total(Claims(balances', localIndexes')) \in Int
        /\ Total(Claims(balances, localIndexes)) \in Int
        /\ Total(Claims(balances, localIndexes)) <= BASE * tokens
        /\ tokens' = tokens
    BY <1>1, <1>3, LedgerTypes DEF BooksBalance
  <2>2. BASE * tokens \in Int
    BY BaseAssumption, AmountAssumption DEF TypeOK
  <2> QED BY <1>7, <2>1, <2>2
<1> QED
  BY <1>1, <1>5, <1>6, <1>8 DEF BooksBalance, final, noFinalSettlement

\* A trade moves margin and position from one account to the other.
LEMMA TradedPair ==
  ASSUME TypeOK, MemoryMatchesStorage,
         NEW trader, NEW maker \in DOMAIN call.accounts,
         NEW taker \in DOMAIN call.accounts, NEW marginAmount \in Amount,
         NEW positionAmount \in Amount, NEW isBuy \in BOOLEAN,
         TradeStep(trader, maker, taker, marginAmount, positionAmount, isBuy),
         call.accounts[maker] # call.accounts[taker]
  PROVE  LET M == call.accounts[maker]
             T == call.accounts[taker]
         IN  /\ balances' = [balances EXCEPT ![M] = balances'[M], ![T] = balances'[T]]
             /\ balances'[M] \in Balance /\ balances'[T] \in Balance
             /\ Position(balances'[M]) = Position(balances[M])
                  + (IF isBuy THEN -positionAmount ELSE positionAmount)
             /\ Margin(balances'[M]) + Margin(balances'[T])
                  = Margin(balances[M]) + Margin(balances[T])
             /\ Position(balances'[M]) + Position(balances'[T])
                  = Position(balances[M]) + Position(balances[T])
<1> DEFINE M == call.accounts[maker]
           T == call.accounts[taker]
           newMaker == MakerBalance(call.current[maker], marginAmount, positionAmount, isBuy)
           newTaker == TakerBalance(call.current[taker], marginAmount, positionAmount, isBuy)
           dm == IF isBuy THEN marginAmount ELSE -marginAmount
           dp == IF isBuy THEN -positionAmount ELSE positionAmount
<1>1. /\ status = Entered /\ CallTypeOK
      /\ balances' = [balances EXCEPT ![M] = newMaker, ![T] = newTaker]
  BY DEF TradeStep, TypeOK
<1>2. /\ M \in Account /\ T \in Account /\ M # T
      /\ call.current[maker] = balances[M] /\ call.current[taker] = balances[T]
      /\ balances[M] \in StoredBalance /\ balances[T] \in StoredBalance
      /\ balances[M] \in Balance /\ balances[T] \in Balance
  BY <1>1, AccountListType DEF CallTypeOK, MemoryMatchesStorage, TypeOK,
     StoredBalances, StoredBalance
<1>3. /\ marginAmount \in Nat /\ positionAmount \in Nat
      /\ dm \in Int /\ dp \in Int
  BY AmountAssumption
<1>4. /\ newMaker \in Balance /\ newTaker \in Balance
      /\ Margin(newMaker) = Margin(balances[M]) + dm
      /\ Position(newMaker) = Position(balances[M]) + dp
      /\ Margin(newTaker) = Margin(balances[T]) - dm
      /\ Position(newTaker) = Position(balances[T]) - dp
  <2>1. /\ Margin(balances[M]) \in Int /\ Position(balances[M]) \in Int
        /\ Margin(balances[T]) \in Int /\ Position(balances[T]) \in Int
    BY <1>2, BalanceInt
  <2>2. CASE isBuy
    <3>1. /\ newMaker = SubFromPosition(AddToMargin(balances[M], marginAmount), positionAmount)
          /\ newTaker = AddToPosition(SubFromMargin(balances[T], marginAmount), positionAmount)
          /\ dm = marginAmount /\ dp = -positionAmount
      BY <1>2, <2>2 DEF MakerBalance, TakerBalance
    <3> HIDE DEF newMaker, newTaker, dm, dp, M, T
    <3>2. /\ newMaker \in Balance /\ newTaker \in Balance
          /\ Margin(newMaker) = Margin(balances[M]) + marginAmount
          /\ Position(newMaker) = Position(balances[M]) - positionAmount
          /\ Margin(newTaker) = Margin(balances[T]) - marginAmount
          /\ Position(newTaker) = Position(balances[T]) + positionAmount
      BY <1>2, <1>3, <3>1, TradedBalance
    <3> QED BY <1>3, <2>1, <3>1, <3>2
  <2>3. CASE ~isBuy
    <3>1. /\ newMaker = AddToPosition(SubFromMargin(balances[M], marginAmount), positionAmount)
          /\ newTaker = SubFromPosition(AddToMargin(balances[T], marginAmount), positionAmount)
          /\ dm = -marginAmount /\ dp = positionAmount
      BY <1>2, <2>3 DEF MakerBalance, TakerBalance
    <3> HIDE DEF newMaker, newTaker, dm, dp, M, T
    <3>2. /\ newMaker \in Balance /\ newTaker \in Balance
          /\ Margin(newMaker) = Margin(balances[M]) - marginAmount
          /\ Position(newMaker) = Position(balances[M]) + positionAmount
          /\ Margin(newTaker) = Margin(balances[T]) + marginAmount
          /\ Position(newTaker) = Position(balances[T]) - positionAmount
      BY <1>2, <1>3, <3>1, TradedBalance
    <3> QED BY <1>3, <2>1, <3>1, <3>2
  <2> QED BY <2>2, <2>3
<1> HIDE DEF newMaker, newTaker, dm, dp
<1>5. balances'[M] = newMaker /\ balances'[T] = newTaker
  BY <1>1, <1>2, StoredLedger
<1>6. /\ Margin(balances[M]) \in Int /\ Position(balances[M]) \in Int
      /\ Margin(balances[T]) \in Int /\ Position(balances[T]) \in Int
  BY <1>2, BalanceInt
<1>7. /\ Margin(newMaker) + Margin(newTaker) = Margin(balances[M]) + Margin(balances[T])
      /\ Position(newMaker) + Position(newTaker) = Position(balances[M]) + Position(balances[T])
  BY <1>3, <1>4, <1>6
<1>8. dp = IF isBuy THEN -positionAmount ELSE positionAmount
  BY DEF dp
<1> QED
  BY <1>1, <1>4, <1>5, <1>7, <1>8

\* A trade moves margin and position from one account to another with the same
\* index, so that neither total changes (TradeStep).
LEMMA TradeStepTotals ==
  ASSUME TypeOK, MemoryMatchesStorage,
         NEW trader, NEW maker \in DOMAIN call.accounts,
         NEW taker \in DOMAIN call.accounts, NEW marginAmount \in Amount,
         NEW positionAmount \in Amount, NEW isBuy \in BOOLEAN,
         TradeStep(trader, maker, taker, marginAmount, positionAmount, isBuy),
         call.accounts[maker] # call.accounts[taker]
  PROVE  /\ Total(Positions(balances')) = Total(Positions(balances))
         /\ Total(Claims(balances', localIndexes)) = Total(Claims(balances, localIndexes))
<1> DEFINE M == call.accounts[maker]
           T == call.accounts[taker]
           X == ToInt(SignedIndex(globalIndex))
<1>1. /\ status = Entered /\ CallTypeOK /\ ~finalSettlementEnabled
      /\ UNCHANGED <<localIndexes, globalIndex, final, tokens>>
  BY DEF TradeStep, TypeOK
<1>2. /\ M \in Account /\ T \in Account /\ M # T
      /\ localIndexes[M] = globalIndex /\ localIndexes[T] = globalIndex
      /\ balances[M] \in Balance /\ balances[T] \in Balance
      /\ globalIndex \in Index
  BY <1>1, AccountListType DEF CallTypeOK, MemoryMatchesStorage, TypeOK,
     StoredBalances, StoredBalance, StoredIndex
<1>3. BASE \in Int /\ X \in Int
  BY <1>2, BaseAssumption, SignedIndexType
<1> DEFINE newMaker == balances'[M]
           newTaker == balances'[T]
           one == [balances EXCEPT ![M] = newMaker]
<1>4. /\ balances' = [balances EXCEPT ![M] = newMaker, ![T] = newTaker]
      /\ newMaker \in Balance /\ newTaker \in Balance
      /\ Margin(newMaker) + Margin(newTaker) = Margin(balances[M]) + Margin(balances[T])
      /\ Position(newMaker) + Position(newTaker) = Position(balances[M]) + Position(balances[T])
  BY TradedPair
<1> HIDE DEF newMaker, newTaker, M, T
<1>5. /\ Margin(balances[M]) \in Int /\ Position(balances[M]) \in Int
      /\ Margin(balances[T]) \in Int /\ Position(balances[T]) \in Int
      /\ Margin(newMaker) \in Int /\ Position(newMaker) \in Int
      /\ Margin(newTaker) \in Int /\ Position(newTaker) \in Int
  BY <1>2, <1>4, BalanceInt
<1>6. /\ one \in [Account -> Balance] /\ one[T] = balances[T]
      /\ balances' = [one EXCEPT ![T] = newTaker]
      /\ localIndexes = [localIndexes EXCEPT ![M] = globalIndex]
      /\ localIndexes = [localIndexes EXCEPT ![T] = globalIndex]
  BY <1>1, <1>2, <1>4, StoredLedger
<1>7. /\ Total(Positions(one))
           = Total(Positions(balances)) - Position(balances[M]) + Position(newMaker)
      /\ Total(Claims(one, localIndexes))
           = Total(Claims(balances, localIndexes))
               - Claim(balances[M], globalIndex) + Claim(newMaker, globalIndex)
  <2>1. /\ Total(Positions(one))
             = Total(Positions(balances)) - Position(balances[M]) + Position(newMaker)
        /\ Total(Claims(one, [localIndexes EXCEPT ![M] = globalIndex]))
             = Total(Claims(balances, localIndexes))
                 - Claim(balances[M], localIndexes[M]) + Claim(newMaker, globalIndex)
    BY <1>2, <1>4, StoredLedger, LedgerUpdate
  <2> HIDE DEF one
  <2> QED BY <1>2, <1>6, <2>1
<1> HIDE DEF one
<1>8. /\ Total(Positions(balances'))
           = Total(Positions(one)) - Position(balances[T]) + Position(newTaker)
      /\ Total(Claims(balances', localIndexes))
           = Total(Claims(one, localIndexes))
               - Claim(balances[T], globalIndex) + Claim(newTaker, globalIndex)
  <2> DEFINE two == [one EXCEPT ![T] = newTaker]
  <2>1. /\ Total(Positions(two))
             = Total(Positions(one)) - Position(one[T]) + Position(newTaker)
        /\ Total(Claims(two, [localIndexes EXCEPT ![T] = globalIndex]))
             = Total(Claims(one, localIndexes))
                 - Claim(one[T], localIndexes[T]) + Claim(newTaker, globalIndex)
    <3>1. /\ one \in [Account -> Balance] /\ localIndexes \in [Account -> Index]
          /\ T \in Account /\ newTaker \in Balance /\ globalIndex \in Index
      BY <1>2, <1>4, <1>6, StoredLedger
    <3> QED BY <3>1, LedgerUpdate
  <2>2. balances' = two
    BY <1>6
  <2> HIDE DEF two
  <2> QED BY <1>2, <1>6, <2>1, <2>2
<1>9. Total(Positions(balances)) \in Int /\ Total(Claims(balances, localIndexes)) \in Int
  BY StoredLedger, LedgerTypes
<1>10. Total(Positions(balances')) = Total(Positions(balances))
  BY <1>4, <1>5, <1>7, <1>8, <1>9
<1> HIDE DEF X
<1>11. Total(Claims(balances', localIndexes)) = Total(Claims(balances, localIndexes))
  <2> DEFINE m1 == Margin(balances[M])  p1 == Position(balances[M])
             m2 == Margin(balances[T])  p2 == Position(balances[T])
             n1 == Margin(newMaker)     q1 == Position(newMaker)
             n2 == Margin(newTaker)     q2 == Position(newTaker)
  <2>1. /\ Claim(newMaker, globalIndex) = BASE * n1 + X * q1
        /\ Claim(newTaker, globalIndex) = BASE * n2 + X * q2
        /\ Claim(balances[M], globalIndex) = BASE * m1 + X * p1
        /\ Claim(balances[T], globalIndex) = BASE * m2 + X * p2
    BY DEF Claim, X
  <2>2. /\ m1 \in Int /\ m2 \in Int /\ n1 \in Int /\ n2 \in Int /\ n1 + n2 = m1 + m2
        /\ p1 \in Int /\ p2 \in Int /\ q1 \in Int /\ q2 \in Int /\ q1 + q2 = p1 + p2
    BY <1>4, <1>5
  <2> HIDE DEF m1, m2, n1, n2, p1, p2, q1, q2
  <2>3. (BASE * n1 + X * q1) + (BASE * n2 + X * q2)
          = (BASE * m1 + X * p1) + (BASE * m2 + X * p2)
    <3>1. BASE * n1 + BASE * n2 = BASE * m1 + BASE * m2
      <4>1. BASE * (n1 + n2) = BASE * (m1 + m2)
        BY <2>2
      <4> QED BY <1>3, <2>2, <4>1
    <3>2. X * q1 + X * q2 = X * p1 + X * p2
      <4>1. X * (q1 + q2) = X * (p1 + p2)
        BY <2>2
      <4> QED BY <1>3, <2>2, <4>1
    <3>3. /\ BASE * n1 \in Int /\ BASE * n2 \in Int /\ BASE * m1 \in Int /\ BASE * m2 \in Int
          /\ X * q1 \in Int /\ X * q2 \in Int /\ X * p1 \in Int /\ X * p2 \in Int
      BY <1>3, <2>2
    <3> QED BY <3>1, <3>2, <3>3
  <2>4. /\ Claim(newMaker, globalIndex) \in Int /\ Claim(newTaker, globalIndex) \in Int
        /\ Claim(balances[M], globalIndex) \in Int /\ Claim(balances[T], globalIndex) \in Int
    BY <1>2, <1>4, ClaimInt
  <2> QED BY <1>7, <1>8, <1>9, <2>1, <2>3, <2>4
<1> QED
  BY <1>10, <1>11

\* So the books stay balanced.
LEMMA TradeStepBooks ==
  ASSUME TypeOK, BooksBalance(balances, localIndexes, globalIndex), MemoryMatchesStorage,
         NEW trader, NEW maker \in DOMAIN call.accounts,
         NEW taker \in DOMAIN call.accounts, NEW marginAmount \in Amount,
         NEW positionAmount \in Amount, NEW isBuy \in BOOLEAN,
         TradeStep(trader, maker, taker, marginAmount, positionAmount, isBuy),
         call.accounts[maker] # call.accounts[taker]
  PROVE  BooksBalance(balances, localIndexes, globalIndex)'
<1>1. UNCHANGED <<localIndexes, globalIndex, final, tokens>>
  BY DEF TradeStep
<1> QED
  BY <1>1, TradeStepTotals DEF BooksBalance, InSync, final, noFinalSettlement

\* Paying out one account at the final price leaves the books balanced: what is
\* paid, with what stays as margin, is at most what the account was owed.
LEMMA WithdrawFinalSettlementBooks ==
  ASSUME TypeOK, BooksBalance(balances, localIndexes, globalIndex),
         NEW sender \in Account, WithdrawFinalSettlement(sender)
  PROVE  BooksBalance(balances, localIndexes, globalIndex)'
<1> DEFINE g == globalIndex
           x == localIndexes[sender]
           old == balances[sender]
           s == Settled(sender, g)
           b == IF PositiveValue(s, finalSettlementPrice) < NegativeValue(s, finalSettlementPrice)
                THEN s ELSE RemainingBalance(sender)
           X == ToInt(SignedIndex(g))
           P == finalSettlementPrice
           paid == tokens - tokens'
<1>1. /\ finalSettlementEnabled /\ UNCHANGED <<globalIndex, final>>
      /\ localIndexes' = [localIndexes EXCEPT ![sender] = g]
      /\ balances' = [balances EXCEPT ![sender] = b]
  BY DEF WithdrawFinalSettlement, onlyFinalSettlement
<1>2. /\ g \in Index /\ P \in Nat /\ X \in Int /\ tokens \in Nat /\ BASE \in Nat
      /\ old \in Balance /\ x \in Index /\ s \in Balance
      /\ GetPosition(s) = GetPosition(old)
  BY SettledTypes, SignedIndexType, BaseAssumption, MarketAssumption, AmountAssumption
     DEF TypeOK, StoredIndex
<1>3. /\ Claim(s, g) <= Claim(old, x) /\ Position(s) = Position(old)
  <2>1. x.timestamp = g.timestamp => x = g
    BY DEF BooksBalance, InSync
  <2> QED BY <1>2, <2>1, SettlementBounds DEF Settled, Position
<1>4. InSync(localIndexes', globalIndex')
  <2>1. InSync(localIndexes, globalIndex) /\ g.timestamp <= g.timestamp
    BY <1>2 DEF BooksBalance, Index
  <2> QED BY <1>1, <2>1, StoredLedger DEF InSync
<1>5. /\ Claim(s, g) = BASE * Margin(s) + X * Position(s)
      /\ NetValue(s, P) = BASE * Margin(s) + P * Position(s)
      /\ Margin(s) \in Int /\ Position(s) \in Int
  BY <1>2, BalanceInt, ValueSplit DEF Claim, NetValue
<1>6. /\ b \in Balance /\ paid \in Int /\ tokens' \in Int
      /\ Claim(b, g) + (P - X) * Position(b) + BASE * paid
           <= Claim(s, g) + (P - X) * Position(s)
  <2>1. CASE PositiveValue(s, P) < NegativeValue(s, P)
    <3>1. b = s /\ tokens' = tokens
      BY <2>1 DEF WithdrawFinalSettlement
    <3> HIDE DEF b, s, X, P
    <3>2. Claim(s, g) \in Int /\ (P - X) * Position(s) \in Int
      BY <1>2, <1>5, ClaimInt
    <3>3. paid = 0
      BY <1>2, <3>1
    <3> HIDE DEF paid, g
    <3>4. BASE * paid = 0
      BY <1>2, <3>3
    <3> QED BY <1>2, <3>1, <3>2, <3>3, <3>4
  <2>2. CASE ~(PositiveValue(s, P) < NegativeValue(s, P))
    <3> DEFINE rest == RemainingBalance(sender)
               amount == AmountToWithdraw(sender)
    <3>1. /\ b = rest /\ tokens' = tokens - amount
      BY <2>2 DEF WithdrawFinalSettlement
    <3>2. PositiveValue(s, P) \in Nat /\ NegativeValue(s, P) \in Nat
      BY <1>2, ValueSplit
    <3>3. PositiveValue(s, P) >= NegativeValue(s, P)
      BY <2>2, <3>2
    <3>4. /\ amount \in 0..tokens /\ rest \in Balance
          /\ Position(rest) = 0 /\ Margin(rest) \in Nat
          /\ BASE * (Margin(rest) + amount) <= NetValue(s, P)
      BY <3>3, FinalPayment
    <3>5. Claim(rest, g) = BASE * Margin(rest) + X * Position(rest)
      BY DEF Claim
    <3> HIDE DEF b, s, X, P, rest, amount
    <3>6. paid = amount /\ amount \in Nat /\ tokens' \in Int
      BY <1>2, <3>1, <3>4
    <3> HIDE DEF paid, g
    <3>7. /\ BASE * (Margin(rest) + amount) = BASE * Margin(rest) + BASE * amount
          /\ BASE * Margin(rest) \in Int /\ BASE * amount \in Int
          /\ X * 0 = 0 /\ (P - X) * 0 = 0
      BY <1>2, <3>4, <3>6
    <3>8. /\ BASE * Margin(s) \in Int /\ P * Position(s) \in Int /\ X * Position(s) \in Int
          /\ (P - X) * Position(s) = P * Position(s) - X * Position(s)
      BY <1>2, <1>5
    <3>9. /\ Claim(rest, g) = BASE * Margin(rest) /\ (P - X) * Position(rest) = 0
      BY <3>4, <3>5, <3>7
    <3>10. BASE * Margin(rest) + BASE * amount <= Claim(s, g) + (P - X) * Position(s)
      BY <1>5, <3>4, <3>7, <3>8
    <3>11. Claim(rest, g) + (P - X) * Position(rest) + BASE * amount
             <= Claim(s, g) + (P - X) * Position(s)
      BY <3>7, <3>9, <3>10
    <3> QED BY <3>1, <3>4, <3>6, <3>11
  <2> QED BY <2>1, <2>2
<1> DEFINE C == Total(Claims(balances, localIndexes))
           N == Total(Positions(balances))
<1>7. /\ Total(Positions(balances')) = N - Position(old) + Position(b)
      /\ Total(Claims(balances', localIndexes')) = C - Claim(old, x) + Claim(b, g)
      /\ Position(old) \in Int /\ Position(b) \in Int
      /\ Claim(old, x) \in Int /\ Claim(b, g) \in Int
  <2>1. b \in Balance /\ g \in Index
    BY <1>2, <1>6
  <2> HIDE DEF b, g
  <2>2. /\ Total(Positions([balances EXCEPT ![sender] = b]))
             = Total(Positions(balances)) - Position(balances[sender]) + Position(b)
        /\ Total(Claims([balances EXCEPT ![sender] = b], [localIndexes EXCEPT ![sender] = g]))
             = Total(Claims(balances, localIndexes))
                 - Claim(balances[sender], localIndexes[sender]) + Claim(b, g)
        /\ Position(balances[sender]) \in Int /\ Position(b) \in Int
        /\ Claim(balances[sender], localIndexes[sender]) \in Int /\ Claim(b, g) \in Int
    BY <2>1, StoredLedger, LedgerUpdate
  <2> QED BY <1>1, <2>2
<1>8. /\ C \in Int /\ N \in Int /\ C + (P - X) * N <= BASE * tokens
  BY <1>1, StoredLedger, LedgerTypes DEF BooksBalance
<1>9. Claim(s, g) \in Int /\ tokens = tokens' + paid
  <2>1. tokens \in Int /\ tokens' \in Int
    <3> HIDE DEF g, x, old, s, b, X, P, paid, C, N
    <3> QED BY <1>2, <1>6
  <2>2. \A m, n \in Int : m = n + (m - n)
    OBVIOUS
  <2>3. tokens = tokens' + (tokens - tokens')
    BY <2>1, <2>2
  <2>4. Claim(s, g) \in Int
    BY <1>2, ClaimInt
  <2> QED BY <2>3, <2>4
<1> HIDE DEF g, x, old, s, b, X, P, paid, C, N
<1>10. /\ (P - X) * (N - Position(old) + Position(b))
            = (P - X) * N - (P - X) * Position(old) + (P - X) * Position(b)
       /\ (P - X) * N \in Int /\ (P - X) * Position(old) \in Int
       /\ (P - X) * Position(b) \in Int
  BY <1>2, <1>7, <1>8
<1>11. /\ BASE * tokens' = BASE * tokens - BASE * paid
       /\ BASE * tokens \in Int /\ BASE * paid \in Int
  BY <1>2, <1>6, <1>9
<1>12. Claim(b, g) + (P - X) * Position(b) + BASE * paid <= Claim(old, x) + (P - X) * Position(old)
  BY <1>3, <1>6, <1>7, <1>9, <1>10, <1>11
<1>13. (C - Claim(old, x) + Claim(b, g)) + (P - X) * (N - Position(old) + Position(b))
          <= BASE * tokens'
  BY <1>7, <1>8, <1>10, <1>11, <1>12
<1>14. Total(Claims(balances', localIndexes')) + (P - X) * Total(Positions(balances'))
          <= BASE * tokens'
  BY <1>7, <1>13
<1>15. finalSettlementPrice' = P /\ finalSettlementEnabled' /\ ToInt(SignedIndex(globalIndex')) = X
  BY <1>1 DEF final, P, X, g
<1> QED
  BY <1>4, <1>14, <1>15 DEF BooksBalance, noFinalSettlement

\* Enabling final settlement moves the index and fixes a price: with positions that
\* cancel out, neither changes what all accounts together are owed.
LEMMA EnableFinalSettlementBooks ==
  ASSUME TypeOK, BooksBalance(balances, localIndexes, globalIndex),
         NEW lower, NEW upper, EnableFinalSettlement(lower, upper)
  PROVE  BooksBalance(balances, localIndexes, globalIndex)'
<1> DEFINE C == Total(Claims(balances, localIndexes))
           k == ContextPrice - ToInt(SignedIndex(ContextIndex))
<1>1. /\ noFinalSettlement /\ globalIndex' = ContextIndex
      /\ UNCHANGED <<balances, localIndexes, tokens>>
      /\ finalSettlementEnabled' = TRUE /\ finalSettlementPrice' = ContextPrice
  BY DEF EnableFinalSettlement
<1>2. InSync(localIndexes, ContextIndex)
  BY SettleOne DEF BooksBalance, IndexesInSync
<1>3. /\ C \in Int /\ k \in Int
      /\ C <= BASE * tokens /\ Total(Positions(balances)) = 0
  <2>1. ContextPrice \in Nat /\ ToInt(SignedIndex(ContextIndex)) \in Int
    BY ContextTypes, SignedIndexType
  <2> QED BY <1>1, <2>1, StoredLedger, LedgerTypes DEF BooksBalance
<1>4. C + k * Total(Positions(balances)) <= BASE * tokens
  <2> HIDE DEF C, k
  <2>1. k * 0 = 0 /\ C + 0 = C
    BY <1>3
  <2> QED BY <1>3, <2>1
<1>5. /\ InSync(localIndexes', globalIndex')
      /\ Total(Claims(balances', localIndexes'))
           + (finalSettlementPrice' - ToInt(SignedIndex(globalIndex')))
             * Total(Positions(balances')) <= BASE * tokens'
  BY <1>1, <1>2, <1>4
<1> QED
  BY <1>1, <1>5 DEF BooksBalance, noFinalSettlement

\* Every step leaves the books balanced.
LEMMA NextBooks ==
  ASSUME IInv, [Next]_vars
  PROVE  BooksBalance(balances, localIndexes, globalIndex)'
<1>0. TypeOK /\ BooksBalance(balances, localIndexes, globalIndex) /\ MemoryMatchesStorage
  BY DEF IInv
<1>1. ASSUME UNCHANGED <<ledger, final, tokens>>
      PROVE  BooksBalance(balances, localIndexes, globalIndex)'
  BY <1>0, <1>1 DEF ledger, final, BooksBalance, noFinalSettlement
<1>4. CASE MarginStep
  BY <1>0, <1>4, AmountAssumption, DepositBooks, WithdrawBooks DEF MarginStep
<1>5. CASE TradeCallStep
  <2>1. ASSUME NEW accounts \in AccountList, TradeBegin(accounts)
        PROVE  BooksBalance(balances, localIndexes, globalIndex)'
    BY <1>0, <2>1, TradeBeginBooks
  <2>2. ASSUME NEW trader \in Operator, NEW maker \in DOMAIN call.accounts,
               NEW taker \in DOMAIN call.accounts, NEW marginAmount \in Amount,
               NEW positionAmount \in Amount, NEW isBuy \in BOOLEAN,
               TradeStep(trader, maker, taker, marginAmount, positionAmount, isBuy)
        PROVE  BooksBalance(balances, localIndexes, globalIndex)'
    <3>1. CASE call.accounts[maker] = call.accounts[taker]
      BY <1>1, <2>2, <3>1 DEF TradeStep, ledger
    <3>2. CASE call.accounts[maker] # call.accounts[taker]
      BY <1>0, <2>2, <3>2, TradeStepBooks
    <3> QED BY <3>1, <3>2
  <2>3. CASE TradeEnd
    BY <1>1, <2>3 DEF TradeEnd
  <2>4. CASE TradeRevert
    <3>1. /\ BooksBalance(call.saved.balances, call.saved.localIndexes, call.saved.globalIndex)
          /\ balances' = call.saved.balances /\ localIndexes' = call.saved.localIndexes
          /\ globalIndex' = call.saved.globalIndex /\ UNCHANGED <<final, tokens>>
      BY <2>4 DEF TradeRevert, IInv
    <3> QED BY <3>1 DEF BooksBalance, InSync, final, noFinalSettlement
  <2> QED BY <1>5, <2>1, <2>2, <2>3, <2>4 DEF TradeCallStep
<1>6. CASE FinalSettlementStep
  BY <1>0, <1>6, WithdrawFinalSettlementBooks DEF FinalSettlementStep
<1>7. CASE AdminStep
  <2>1. CASE \E lower, upper \in Price : EnableFinalSettlement(lower, upper)
    BY <1>0, <2>1, EnableFinalSettlementBooks
  <2>2. CASE ~\E lower, upper \in Price : EnableFinalSettlement(lower, upper)
    BY <1>1, <1>7, <2>2 DEF AdminStep, SetGlobalOperator, SetOracle, SetFunder, SetMinCollateral
  <2> QED BY <2>1, <2>2
<1>8. CASE OperatorStep
  BY <1>1, <1>8 DEF OperatorStep, SetLocalOperator
<1>9. CASE WorldStep
  <2>1. CASE \E amount \in Amount : Donate(amount)
    <3>1. PICK amount \in Amount : Donate(amount)
      BY <2>1
    <3>2. /\ UNCHANGED <<balances, localIndexes, globalIndex, final>> /\ tokens' = tokens + amount
      BY <3>1 DEF Donate, ledger
    <3>3. tokens \in Nat /\ amount \in Nat /\ BASE \in Nat
      BY <1>0, AmountAssumption, BaseAssumption DEF TypeOK
    <3>4. BASE * tokens' = BASE * tokens + BASE * amount /\ BASE * amount >= 0
      BY <3>2, <3>3
    <3>5. BASE * tokens \in Int /\ BASE * tokens' \in Int /\ BASE * amount \in Int
      BY <3>2, <3>3
    <3> DEFINE C == Total(Claims(balances, localIndexes))
               N == Total(Positions(balances))
               k == finalSettlementPrice - ToInt(SignedIndex(globalIndex))
    <3>6. /\ C \in Int /\ N \in Int /\ k \in Int
      <4>1. finalSettlementPrice \in Nat /\ ToInt(SignedIndex(globalIndex)) \in Int
        BY <1>0, ContextTypes, SignedIndexType, MarketAssumption DEF TypeOK
      <4> QED BY <1>0, <4>1, StoredLedger, LedgerTypes
    <3>7. /\ C <= BASE * tokens => C <= BASE * tokens'
          /\ C + k * N <= BASE * tokens => C + k * N <= BASE * tokens'
      <4> HIDE DEF C, N, k
      <4>1. C + k * N \in Int
        BY <3>6
      <4> QED BY <3>4, <3>5, <3>6, <4>1
    <3> QED BY <1>0, <3>2, <3>7 DEF BooksBalance, final, noFinalSettlement
  <2>2. CASE ~\E amount \in Amount : Donate(amount)
    BY <1>1, <1>9, <2>2 DEF WorldStep, Tick, ChangePrice, ChangeRate
  <2> QED BY <2>1, <2>2
<1>10. CASE UNCHANGED vars
  BY <1>1, <1>10 DEF vars
<1> QED
  BY <1>4, <1>5, <1>6, <1>7, <1>8, <1>9, <1>10 DEF Next

-----------------------------------------------------------------------------
(* The memory of trade()                                                    *)

\* What IInv says of the call being executed.
CallInv ==
    /\ MemoryMatchesStorage
    /\ status = Entered =>
          /\ VerifyAccounts(call.accounts)
          /\ BooksBalance(call.saved.balances, call.saved.localIndexes,
                          call.saved.globalIndex)

\* A new call starts with memory that matches what it has just stored.
LEMMA TradeBeginCall ==
  ASSUME TypeOK, BooksBalance(balances, localIndexes, globalIndex),
         NEW accounts \in AccountList, TradeBegin(accounts)
  PROVE  CallInv'
<1> DEFINE settled == [a \in Elements(accounts) |-> Settled(a, ContextIndex)]
           initial == [i \in DOMAIN accounts |-> settled[accounts[i]]]
<1>1. /\ VerifyAccounts(accounts)
      /\ LoadContextAndSettle(Elements(accounts), settled)
      /\ call' = [accounts |-> accounts, initial |-> initial, current |-> initial,
                  trades |-> 0, price |-> ContextPrice, saved |-> Saved]
      /\ UNCHANGED <<final, tokens>>
  BY DEF TradeBegin
<1>2. /\ Elements(accounts) \in SUBSET Account
      /\ \A i \in DOMAIN accounts : accounts[i] \in Elements(accounts)
  BY AccountListType
<1>3. /\ call'.accounts = accounts /\ call'.current = initial
      /\ call'.saved.balances = balances /\ call'.saved.localIndexes = localIndexes
      /\ call'.saved.globalIndex = globalIndex
  BY <1>1 DEF Saved
<1>4. \A i \in DOMAIN accounts : /\ balances'[accounts[i]] = settled[accounts[i]]
                                 /\ localIndexes'[accounts[i]] = globalIndex'
                                 /\ initial[i] = settled[accounts[i]]
  <2> HIDE DEF settled
  <2> QED BY <1>1, <1>2 DEF LoadContextAndSettle
<1> HIDE DEF initial
<1>5. MemoryMatchesStorage'
  BY <1>3, <1>4 DEF MemoryMatchesStorage
<1>6. BooksBalance(call.saved.balances, call.saved.localIndexes, call.saved.globalIndex)'
  BY <1>1, <1>3 DEF BooksBalance, InSync, final, noFinalSettlement
<1>7. VerifyAccounts(call.accounts)'
  BY <1>1, <1>3 DEF VerifyAccounts
<1> QED
  BY <1>5, <1>6, <1>7 DEF CallInv

\* A trade updates the memory and the storage of the same two accounts, since no
\* account is listed twice.
LEMMA TradeStepCall ==
  ASSUME TypeOK, CallInv,
         NEW trader, NEW maker \in DOMAIN call.accounts,
         NEW taker \in DOMAIN call.accounts, NEW marginAmount \in Amount,
         NEW positionAmount \in Amount, NEW isBuy \in BOOLEAN,
         TradeStep(trader, maker, taker, marginAmount, positionAmount, isBuy)
  PROVE  CallInv'
<1> DEFINE newMaker == MakerBalance(call.current[maker], marginAmount, positionAmount, isBuy)
           newTaker == TakerBalance(call.current[taker], marginAmount, positionAmount, isBuy)
           current == [call.current EXCEPT ![maker] = newMaker, ![taker] = newTaker]
<1>1. /\ status = Entered /\ CallTypeOK
      /\ UNCHANGED <<localIndexes, globalIndex, final, tokens>>
  BY DEF TradeStep, TypeOK
<1>2. /\ VerifyAccounts(call.accounts) /\ call.accounts \in AccountList
      /\ \A i \in DOMAIN call.accounts : /\ balances[call.accounts[i]] = call.current[i]
                                         /\ localIndexes[call.accounts[i]] = globalIndex
                                         /\ call.accounts[i] \in Account
      /\ BooksBalance(call.saved.balances, call.saved.localIndexes, call.saved.globalIndex)
  BY <1>1, AccountListType DEF CallInv, MemoryMatchesStorage, CallTypeOK
<1>3. call'.accounts = call.accounts /\ call'.saved = call.saved
  BY DEF TradeStep, AfterTrade
<1>4. \A i \in DOMAIN call.accounts : balances'[call.accounts[i]] = call'.current[i]
  <2>1. CASE call.accounts[maker] = call.accounts[taker]
    BY <1>2, <2>1 DEF TradeStep, AfterTrade
  <2>2. CASE call.accounts[maker] # call.accounts[taker]
    <3>1. /\ call' = AfterTrade(current)
          /\ balances' = [balances EXCEPT ![call.accounts[maker]] = newMaker,
                                          ![call.accounts[taker]] = newTaker]
      BY <2>2 DEF TradeStep
    <3> HIDE DEF newMaker, newTaker
    <3>2. call'.current = current
      BY <3>1 DEF AfterTrade
    <3>3. /\ DOMAIN call.current = DOMAIN call.accounts
          /\ DOMAIN balances = Account
      BY <1>1 DEF CallTypeOK, TypeOK, StoredBalances
    <3>4. ASSUME NEW i \in DOMAIN call.accounts
          PROVE  balances'[call.accounts[i]] = current[i]
      <4>1. /\ call.accounts[i] = call.accounts[maker] => i = maker
            /\ call.accounts[i] = call.accounts[taker] => i = taker
        BY <1>2, SortedInjective
      <4>2. /\ call.accounts[i] \in DOMAIN balances /\ i \in DOMAIN call.current
            /\ balances[call.accounts[i]] = call.current[i]
        BY <1>2, <3>3
      <4>3. CASE i = taker
        BY <3>1, <4>2, <4>3
      <4>4. CASE i # taker /\ i = maker
        BY <2>2, <3>1, <4>2, <4>4
      <4>5. CASE i # taker /\ i # maker
        BY <3>1, <4>1, <4>2, <4>5
      <4> QED BY <4>3, <4>4, <4>5
    <3> HIDE DEF current
    <3> QED BY <3>2, <3>4
  <2> QED BY <2>1, <2>2
<1>5. MemoryMatchesStorage'
  BY <1>1, <1>2, <1>3, <1>4 DEF MemoryMatchesStorage
<1>6. BooksBalance(call.saved.balances, call.saved.localIndexes, call.saved.globalIndex)'
  BY <1>1, <1>2, <1>3 DEF BooksBalance, InSync, final, noFinalSettlement
<1>7. VerifyAccounts(call.accounts)'
  BY <1>2, <1>3 DEF VerifyAccounts
<1> QED
  BY <1>5, <1>6, <1>7 DEF CallInv

\* Every step keeps what IInv says of the call.
LEMMA NextCall ==
  ASSUME IInv, [Next]_vars
  PROVE  CallInv'
<1>0. TypeOK /\ BooksBalance(balances, localIndexes, globalIndex) /\ CallInv
  BY DEF IInv, CallInv
<1>1. ASSUME UNCHANGED <<ledger, final, status, call, tokens>>
      PROVE  CallInv'
  BY <1>0, <1>1 DEF CallInv, MemoryMatchesStorage, VerifyAccounts, BooksBalance, InSync,
                    ledger, final, noFinalSettlement
<1>2. ASSUME status' = NotEntered
      PROVE  CallInv'
  BY <1>2 DEF CallInv, MemoryMatchesStorage, NotEntered, Entered
<1>3. CASE MarginStep
  BY <1>2, <1>3 DEF MarginStep, Deposit, Withdraw, nonReentrant
<1>4. CASE TradeCallStep
  <2>1. ASSUME NEW accounts \in AccountList, TradeBegin(accounts)
        PROVE  CallInv'
    BY <1>0, <2>1, TradeBeginCall
  <2>2. ASSUME NEW trader \in Operator, NEW maker \in DOMAIN call.accounts,
               NEW taker \in DOMAIN call.accounts, NEW marginAmount \in Amount,
               NEW positionAmount \in Amount, NEW isBuy \in BOOLEAN,
               TradeStep(trader, maker, taker, marginAmount, positionAmount, isBuy)
        PROVE  CallInv'
    BY <1>0, <2>2, TradeStepCall
  <2>3. CASE TradeEnd \/ TradeRevert
    BY <1>2, <2>3 DEF TradeEnd, TradeRevert
  <2> QED BY <1>4, <2>1, <2>2, <2>3 DEF TradeCallStep
<1>5. CASE FinalSettlementStep
  BY <1>2, <1>5 DEF FinalSettlementStep, WithdrawFinalSettlement, nonReentrant
<1>6. CASE AdminStep
  BY <1>2, <1>6 DEF AdminStep, SetGlobalOperator, SetOracle, SetFunder, SetMinCollateral,
                    EnableFinalSettlement, nonReentrant
<1>7. CASE OperatorStep
  BY <1>1, <1>7 DEF OperatorStep, SetLocalOperator
<1>8. CASE WorldStep
  BY <1>2, <1>8 DEF WorldStep, Tick, ChangePrice, ChangeRate, Donate, nonReentrant
<1>9. CASE UNCHANGED vars
  BY <1>1, <1>9 DEF vars
<1> QED
  BY <1>3, <1>4, <1>5, <1>6, <1>7, <1>8, <1>9 DEF Next

-----------------------------------------------------------------------------
(* The inductive invariant and what follows from it                         *)

\* An account nobody has used has no position and no claim.
LEMMA EmptyAccount ==
  /\ Margin(ZeroBalance) = 0 /\ Position(ZeroBalance) = 0
  /\ Claim(ZeroBalance, ZeroIndex) = 0
<1>1. /\ ZeroBalance \in Balance /\ ZeroIndex \in Index
  BY DEF ZeroBalance, ZeroIndex, Balance, Index
<1>2. Margin(ZeroBalance) = 0 /\ Position(ZeroBalance) = 0 /\ ToInt(SignedIndex(ZeroIndex)) = 0
  <2>1. \A n \in Int : n <= 0 /\ 0 <= n => -n <= 0 /\ 0 <= -n /\ -n \in Int
    OBVIOUS
  <2>2. /\ Margin(ZeroBalance) = -ZeroBalance.margin /\ ZeroBalance.margin = 0
        /\ Position(ZeroBalance) = -ZeroBalance.position /\ ZeroBalance.position = 0
        /\ ToInt(SignedIndex(ZeroIndex)) = -ZeroIndex.value /\ ZeroIndex.value = 0
    BY DEF ZeroBalance, ZeroIndex, Margin, Position, GetMargin, GetPosition, SignedIndex, ToInt
  <2>3. /\ Margin(ZeroBalance) <= 0 /\ 0 <= Margin(ZeroBalance)
        /\ Position(ZeroBalance) <= 0 /\ 0 <= Position(ZeroBalance)
        /\ ToInt(SignedIndex(ZeroIndex)) <= 0 /\ 0 <= ToInt(SignedIndex(ZeroIndex))
    BY <2>1, <2>2
  <2>4. /\ Margin(ZeroBalance) \in Int /\ Position(ZeroBalance) \in Int
        /\ ToInt(SignedIndex(ZeroIndex)) \in Int
    BY <1>1, BalanceInt, SignedIndexType
  <2> QED BY <2>3, <2>4
<1>3. BASE * 0 + 0 * 0 = 0
  BY BaseAssumption
<1> QED
  BY <1>2, <1>3 DEF Claim

\* The books of a contract without positions and margins balance.
LEMMA InitBooks ==
  ASSUME Init
  PROVE  BooksBalance(balances, localIndexes, globalIndex)
<1>1. /\ Positions(balances) \in [Account -> {0}]
      /\ Claims(balances, localIndexes) \in [Account -> {0}]
  BY EmptyAccount DEF Init, Positions, Claims
<1>2. Total(Positions(balances)) = 0 /\ Total(Claims(balances, localIndexes)) = 0
  BY <1>1, TotalZero
<1>3. BASE * tokens = 0
  BY BaseAssumption DEF Init
<1>4. InSync(localIndexes, globalIndex)
  BY TimeAssumption, IndexWidthAssumption DEF Init, InSync, ZeroIndex
<1> QED
  BY <1>2, <1>3, <1>4 DEF Init, BooksBalance, noFinalSettlement

\* Every step keeps the invariant.
LEMMA NextIInv ==
  ASSUME IInv, [Next]_vars
  PROVE  IInv'
<1>1. TypeOK'
  BY NextType DEF IInv
<1>2. BooksBalance(balances, localIndexes, globalIndex)'
  BY NextBooks
<1>3. CallInv'
  BY NextCall
<1> QED BY <1>1, <1>2, <1>3 DEF IInv, CallInv

\* So do deposits and withdrawals of amounts that a contract has computed.
LEMMA MarginIInv ==
  ASSUME IInv, NEW account \in Account, NEW amount \in Nat, NEW by, NEW destination,
         Deposit(account, amount) \/ Withdraw(by, account, destination, amount)
  PROVE  IInv'
<1>1. TypeOK /\ BooksBalance(balances, localIndexes, globalIndex)
  BY DEF IInv
<1>2. TypeOK'
  BY <1>1, DepositType, WithdrawType
<1>3. BooksBalance(balances, localIndexes, globalIndex)'
  BY <1>1, DepositBooks, WithdrawBooks
<1>4. status' = NotEntered
  BY DEF Deposit, Withdraw, nonReentrant
<1> QED BY <1>2, <1>3, <1>4 DEF IInv, MemoryMatchesStorage, NotEntered, Entered

\* The invariant holds of a contract just initialized.
LEMMA InitIInv == Init => IInv
BY InitType, InitBooks DEF IInv, Init, MemoryMatchesStorage, NotEntered, Entered

\* The books balance before, during and after every transaction, and while trade()
\* is being executed its memory matches the storage and a revert would restore
\* books that balance too.
THEOREM InductiveInvariant == Spec => []IInv
<1>1. IInv /\ [Next]_vars => IInv'
  BY NextIInv
<1> QED
  BY <1>1, InitIInv, PTL DEF Spec

\* Until final settlement the positions of all accounts cancel out (P1Trade).
THEOREM PositionsCancelOut == Spec => []PositionsNetZero
<1>1. IInv => PositionsNetZero
  BY DEF IInv, BooksBalance, PositionsNetZero
<1> QED
  BY <1>1, InductiveInvariant, PTL

\* No account that _settleAccount skips would have had funding to pay or to receive.
THEOREM IndexesStayInSync == Spec => []IndexesInSync
<1>1. IInv => IndexesInSync
  BY DEF IInv, BooksBalance, IndexesInSync
<1> QED
  BY <1>1, InductiveInvariant, PTL

\* The copies of the balances trade() works on are what is stored.
THEOREM MemoryIsStorage == Spec => []MemoryMatchesStorage
<1>1. IInv => MemoryMatchesStorage
  BY DEF IInv
<1> QED
  BY <1>1, InductiveInvariant, PTL

\* Settling to one index and closing at one price pays out at most the claims, for
\* positions that cancel out.
LEMMA ClaimsCover ==
  ASSUME IInv
  PROVE  Solvent
<1> SUFFICES ASSUME NEW price \in IF finalSettlementEnabled
                                  THEN {finalSettlementPrice} ELSE Price
             PROVE  Total([account \in Account |->
                             NetValue(Settled(account, globalIndex), price)]) <= BASE * tokens
  BY DEF Solvent
<1> DEFINE f == Claims(balances, localIndexes)
           p == Positions(balances)
           k == price - ToInt(SignedIndex(globalIndex))
           bound == [account \in Account |-> f[account] + k * p[account]]
           net == [account \in Account |->
                     NetValue(Settled(account, globalIndex), price)]
<1>1. /\ TypeOK /\ BooksBalance(balances, localIndexes, globalIndex)
      /\ price \in Nat /\ globalIndex \in Index
  BY MarketAssumption DEF IInv, TypeOK, StoredIndex
<1>2. /\ f \in [Account -> Int] /\ p \in [Account -> Int] /\ k \in Int
      /\ Total(f) \in Int /\ Total(p) \in Int
  <2>1. ToInt(SignedIndex(globalIndex)) \in Int
    BY <1>1, SignedIndexType
  <2>2. k \in Int
    BY <1>1, <2>1
  <2> QED BY <1>1, <2>2, StoredLedger, LedgerTypes
<1>3. Total(bound) = Total(f) + k * Total(p)
  <2> HIDE DEF f, p, k
  <2>1. bound \in [Account -> Int] /\ \A x \in Account : bound[x] = f[x] + k * p[x]
    BY <1>2
  <2> HIDE DEF bound
  <2>2. /\ IsFiniteSet(Account) /\ f \in [Account -> Int] /\ p \in [Account -> Int]
        /\ k \in Int
    BY <1>2, AccountAssumption
  <2>3. Total(bound) = Total(f) + k * Total(p)
    BY <2>1, <2>2, TotalLinear
  <2> QED BY <2>3
<1>4. /\ bound \in [Account -> Int]
      /\ \A account \in Account : bound[account] = f[account] + k * p[account]
  <2> HIDE DEF f, p, k
  <2> QED BY <1>2
<1>5. ASSUME NEW account \in Account
      PROVE  net[account] \in Int /\ net[account] <= bound[account]
  <2> DEFINE s == Settled(account, globalIndex)
             X == ToInt(SignedIndex(globalIndex))
             P == Position(s)
  <2>1. /\ s \in Balance /\ balances[account] \in Balance /\ localIndexes[account] \in Index
        /\ P = Position(balances[account])
    BY <1>1, SettledTypes DEF Position
  <2>2. Claim(s, globalIndex) <= Claim(balances[account], localIndexes[account])
    <3>1. localIndexes[account].timestamp = globalIndex.timestamp =>
            localIndexes[account] = globalIndex
      BY <1>1 DEF BooksBalance, InSync
    <3> QED BY <1>1, <2>1, <3>1, SettlementBounds DEF Settled
  <2>3. /\ net[account] = BASE * Margin(s) + price * P
        /\ Claim(s, globalIndex) = BASE * Margin(s) + X * P
    BY <1>1, <2>1, ValueSplit DEF NetValue, Claim
  <2>4. f[account] = Claim(balances[account], localIndexes[account]) /\ p[account] = P
    BY <2>1 DEF Claims, Positions
  <2>5. Margin(s) \in Int /\ P \in Int /\ X \in Int /\ BASE \in Int /\ f[account] \in Int
    BY <1>1, <1>2, <2>1, BalanceInt, SignedIndexType, BaseAssumption
  <2>6. bound[account] = f[account] + (price - X) * P
    BY <1>4, <2>4
  <2> HIDE DEF f, p, bound, net, s, X, P
  <2>7. /\ (price - X) * P = price * P - X * P
        /\ price * P \in Int /\ X * P \in Int /\ BASE * Margin(s) \in Int
    BY <1>1, <2>5
  <2> QED BY <2>2, <2>3, <2>4, <2>5, <2>6, <2>7
<1>6. Total(net) <= Total(bound)
  <2>1. net \in [Account -> Int]
    BY <1>5
  <2> HIDE DEF net, bound
  <2> QED BY <1>4, <1>5, <2>1, AccountAssumption, TotalMonotone
<1>7. Total(f) + k * Total(p) <= BASE * tokens
  <2>1. CASE finalSettlementEnabled
    BY <1>1, <2>1 DEF BooksBalance
  <2>2. CASE ~finalSettlementEnabled
    <3>1. Total(p) = 0 /\ Total(f) <= BASE * tokens
      BY <1>1, <2>2 DEF BooksBalance, noFinalSettlement
    <3> HIDE DEF f, p, k
    <3>2. k * 0 = 0 /\ Total(f) + 0 = Total(f)
      BY <1>2
    <3> QED BY <3>1, <3>2
  <2> QED BY <2>1, <2>2
<1>8. Total(net) \in Int /\ BASE * tokens \in Int
  <2>1. net \in [Account -> Int]
    BY <1>5
  <2>2. Total(net) \in Int
    <3> HIDE DEF net
    <3> QED BY <2>1, AccountAssumption, TotalType
  <2>3. BASE * tokens \in Int
    BY <1>1, BaseAssumption, AmountAssumption DEF TypeOK
  <2> QED BY <2>2, <2>3
<1>9. Total(net) <= BASE * tokens
  <2> HIDE DEF net, bound, f, p, k
  <2>1. Total(f) + k * Total(p) \in Int
    BY <1>2
  <2> QED BY <1>3, <1>6, <1>7, <1>8, <2>1
<1> QED BY <1>9

\* However many accounts there are, however long they have not been settled, and
\* whatever their settling rounds: the tokens of the contract cover what all of them
\* together are owed, at every price before final settlement and at the final price
\* after it.
THEOREM ContractIsSolvent == Spec => []Solvent
BY InductiveInvariant, ClaimsCover, PTL

-----------------------------------------------------------------------------
(* For the proofs about traders                                             *)

\* What a trade of two accounts makes of the balance of the maker. When maker and
\* taker are the same account nothing changes.
LEMMA MakerTraded ==
  ASSUME TypeOK, NEW maker \in DOMAIN call.accounts, NEW taker \in DOMAIN call.accounts,
         NEW account, account = call.accounts[maker],
         NEW trader, NEW m \in Nat, NEW p \in Nat, NEW isBuy \in BOOLEAN,
         MemoryMatchesStorage, TradeStep(trader, maker, taker, m, p, isBuy)
  PROVE  \/ balances' = balances
         \/ /\ Position(balances'[account])
                  = Position(balances[account]) + (IF isBuy THEN -p ELSE p)
            /\ Margin(balances'[account])
                  = Margin(balances[account]) + (IF isBuy THEN m ELSE -m)
<1> DEFINE other == call.accounts[taker]
           new   == MakerBalance(call.current[maker], m, p, isBuy)
<1>1. status = Entered /\ CallTypeOK
  BY DEF TradeStep, TypeOK
<1>2. /\ account \in Account /\ other \in Account
      /\ balances \in [Account -> StoredBalance]
      /\ call.current[maker] = balances[account]
  <2>1. call.accounts \in AccountList
    BY <1>1 DEF CallTypeOK
  <2>2. account \in Account /\ other \in Account
    BY <2>1, AccountListType
  <2>3. balances \in [Account -> StoredBalance]
    BY DEF TypeOK, StoredBalances
  <2>4. call.current[maker] = balances[account]
    BY <1>1 DEF MemoryMatchesStorage
  <2> QED BY <2>2, <2>3, <2>4
<1>3. CASE account = other
  BY <1>3 DEF TradeStep
<1>4. CASE account # other
  <2>1. balances' = [balances EXCEPT ![account] = new,
                         ![other] = TakerBalance(call.current[taker], m, p, isBuy)]
    BY <1>4 DEF TradeStep
  <2> HIDE DEF other, new
  <2>2. balances'[account] = new
    BY <1>2, <1>4, <2>1
  <2>3. /\ Position(new) = Position(balances[account]) + (IF isBuy THEN -p ELSE p)
        /\ Margin(new) = Margin(balances[account]) + (IF isBuy THEN m ELSE -m)
    <3>0. /\ balances[account] \in StoredBalance
          /\ Position(balances[account]) \in Int /\ Margin(balances[account]) \in Int
      BY <1>2, BalanceInt DEF StoredBalance
    <3>1. CASE isBuy
      <4>1. new = SubFromPosition(AddToMargin(balances[account], m), p)
        BY <1>2, <3>1 DEF new, MakerBalance
      <4>2. /\ Position(new) = Position(balances[account]) - p
            /\ Margin(new) = Margin(balances[account]) + m
        BY <3>0, <4>1, TradedBalance
      <4> QED BY <3>0, <3>1, <4>2
    <3>2. CASE ~isBuy
      <4>1. new = AddToPosition(SubFromMargin(balances[account], m), p)
        BY <1>2, <3>2 DEF new, MakerBalance
      <4>2. /\ Position(new) = Position(balances[account]) + p
            /\ Margin(new) = Margin(balances[account]) - m
        BY <3>0, <4>1, TradedBalance
      <4> QED BY <3>0, <3>2, <4>2
    <3> QED BY <3>1, <3>2
  <2> QED BY <2>2, <2>3
<1> QED
  BY <1>3, <1>4

-----------------------------------------------------------------------------
(* What a transaction does to the accounts                                  *)

\* While trade() is executed its memory holds the price and the balances it began
\* with, and the accounts it did not list are as they were.
CallRemembers ==
    status = Entered =>
        /\ globalIndex.timestamp = now
        /\ call.price = ContextPrice
        /\ \A i \in DOMAIN call.accounts :
              call.initial[i] = SettledBalance(call.saved.balances[call.accounts[i]],
                                    call.saved.localIndexes[call.accounts[i]], globalIndex)
        /\ \A account \in Account \ Elements(call.accounts) :
              /\ balances[account] = call.saved.balances[account]
              /\ localIndexes[account] = call.saved.localIndexes[account]

\* Every step keeps it.
LEMMA StepRemembers ==
  ASSUME IInv, CallRemembers, [Next]_vars
  PROVE  CallRemembers'
<1>0. TypeOK
  BY DEF IInv
<1>1. ASSUME status' = NotEntered
      PROVE  CallRemembers'
  BY <1>1 DEF CallRemembers, NotEntered, Entered
<1>2. ASSUME UNCHANGED <<ledger, config, status, call, world>>
      PROVE  CallRemembers'
  BY <1>2 DEF CallRemembers, ContextPrice, Elements, ledger, config, world
<1>3. ASSUME NEW accounts \in AccountList, TradeBegin(accounts)
      PROVE  CallRemembers'
  <2> DEFINE settled == [a \in Elements(accounts) |-> Settled(a, ContextIndex)]
             initial == [i \in DOMAIN accounts |-> settled[accounts[i]]]
  <2>1. /\ LoadContextAndSettle(Elements(accounts), settled)
        /\ call' = [accounts |-> accounts, initial |-> initial, current |-> initial,
                    trades |-> 0, price |-> ContextPrice, saved |-> Saved]
        /\ now' = now /\ prices' = prices /\ oracle' = oracle
    BY <1>3 DEF TradeBegin, config, world
  <2>2. globalIndex' = ContextIndex /\ globalIndex'.timestamp = now'
    BY <1>0, <2>1, ContextTypes DEF LoadContextAndSettle
  <2>3. call'.price = ContextPrice'
    BY <2>1 DEF ContextPrice
  <2>4. /\ call'.accounts = accounts /\ call'.initial = initial
        /\ call'.saved.balances = balances /\ call'.saved.localIndexes = localIndexes
    BY <2>1 DEF Saved
  <2>5. \A i \in DOMAIN accounts :
           initial[i] = SettledBalance(balances[accounts[i]], localIndexes[accounts[i]],
                                       ContextIndex)
    BY <1>3, AccountListType DEF Settled
  <2> HIDE DEF settled, initial
  <2>6. \A account \in Account \ Elements(accounts) :
           balances'[account] = balances[account] /\ localIndexes'[account] = localIndexes[account]
    BY <2>1 DEF LoadContextAndSettle
  <2>7. Elements(call.accounts)' = Elements(accounts)
    BY <2>4 DEF Elements
  <2> QED BY <2>2, <2>3, <2>4, <2>5, <2>6, <2>7 DEF CallRemembers
<1>4. ASSUME NEW trader, NEW maker \in DOMAIN call.accounts,
             NEW taker \in DOMAIN call.accounts, NEW m, NEW p, NEW isBuy,
             TradeStep(trader, maker, taker, m, p, isBuy)
      PROVE  CallRemembers'
  <2>1. /\ status = Entered
        /\ UNCHANGED <<localIndexes, globalIndex, config, world>>
        /\ call'.accounts = call.accounts /\ call'.initial = call.initial
        /\ call'.price = call.price /\ call'.saved = call.saved
    BY <1>4 DEF TradeStep, AfterTrade
  <2>2. \A account \in Account \ Elements(call.accounts) :
           balances'[account] = balances[account]
    <3>1. balances \in [Account -> StoredBalance]
      BY <1>0 DEF TypeOK, StoredBalances
    <3>2. /\ call.accounts[maker] \in Elements(call.accounts)
          /\ call.accounts[taker] \in Elements(call.accounts)
      BY DEF Elements
    <3>3. \/ balances' = balances
          \/ \E x, y : balances' = [balances EXCEPT ![call.accounts[maker]] = x,
                                                    ![call.accounts[taker]] = y]
      BY <1>4 DEF TradeStep
    <3> QED BY <3>1, <3>2, <3>3
  <2>3. Elements(call.accounts)' = Elements(call.accounts)
    BY <2>1 DEF Elements
  <2>4. ContextPrice' = ContextPrice /\ now' = now
    BY <2>1 DEF ContextPrice, config, world
  <2> QED BY <2>1, <2>2, <2>3, <2>4 DEF CallRemembers
<1>5. CASE MarginStep
  BY <1>1, <1>5 DEF MarginStep, Deposit, Withdraw, nonReentrant
<1>6. CASE TradeCallStep
  BY <1>1, <1>3, <1>4, <1>6 DEF TradeCallStep, TradeEnd, TradeRevert
<1>7. CASE FinalSettlementStep
  BY <1>1, <1>7 DEF FinalSettlementStep, WithdrawFinalSettlement, nonReentrant
<1>8. CASE AdminStep
  BY <1>1, <1>8 DEF AdminStep, SetGlobalOperator, SetOracle, SetFunder, SetMinCollateral,
                    EnableFinalSettlement, nonReentrant
<1>9. CASE OperatorStep
  BY <1>2, <1>9 DEF OperatorStep, SetLocalOperator
<1>10. CASE WorldStep
  BY <1>1, <1>10 DEF WorldStep, Tick, ChangePrice, ChangeRate, Donate, nonReentrant
<1>11. CASE UNCHANGED vars
  BY <1>2, <1>11 DEF vars
<1> QED
  BY <1>5, <1>6, <1>7, <1>8, <1>9, <1>10, <1>11 DEF Next

\* trade() ends in the market it began in, where the accounts it changed are settled.
LEMMA TradeEndMarket ==
  ASSUME IInv, CallRemembers, TradeEnd, MarketUnchanged
  PROVE  /\ MarketIndex = globalIndex /\ MarketPrice = ContextPrice
         /\ \A account \in Account :
               /\ CommittedBalance(account) = SettledBalance(call.saved.balances[account],
                                                 call.saved.localIndexes[account], globalIndex)
               /\ CommittedBalance(account)' = Settled(account, globalIndex)
<1>1. /\ status = Entered /\ ~finalSettlementEnabled /\ TypeOK
      /\ status' = NotEntered /\ balances' = balances /\ localIndexes' = localIndexes
  BY DEF IInv, TypeOK, TradeEnd, ledger
<1>2. MarketIndex = globalIndex /\ MarketPrice = ContextPrice
  BY <1>1, ContextTypes DEF CallRemembers, MarketIndex, MarketPrice
<1>3. MarketIndex' = globalIndex
  BY <1>2 DEF MarketUnchanged
<1> QED
  BY <1>1, <1>2, <1>3 DEF CommittedBalance, Settled, NotEntered, Entered

\* What a trade() that ends has made of the accounts, settled to its index.
LEMMA TradeEndCommits ==
  ASSUME IInv, CallRemembers, TradeEnd, MarketUnchanged, NEW account \in Account
  PROVE  \/ CommittedBalance(account)' = CommittedBalance(account)
         \/ /\ CommittedBalance(account) \in StoredBalance
            /\ CommittedBalance(account)' \in StoredBalance
            /\ FinalBalanceAllowed(CommittedBalance(account), CommittedBalance(account)',
                                   MarketPrice)
<1>1. status = Entered /\ CallTypeOK /\ MemoryMatchesStorage
  BY DEF IInv, TypeOK, TradeEnd
<1>2. MarketPrice = ContextPrice
  BY TradeEndMarket
<1>3. /\ CommittedBalance(account) = SettledBalance(call.saved.balances[account],
                                         call.saved.localIndexes[account], globalIndex)
      /\ CommittedBalance(account)' = SettledBalance(balances[account],
                                          localIndexes[account], globalIndex)
  BY TradeEndMarket DEF Settled
<1>4. CASE account \notin Elements(call.accounts)
  BY <1>1, <1>3, <1>4 DEF CallRemembers
<1>5. CASE account \in Elements(call.accounts)
  <2>1. PICK i \in DOMAIN call.accounts : account = call.accounts[i]
    BY <1>5 DEF Elements
  <2>2. CommittedBalance(account) = call.initial[i]
    BY <1>1, <1>3, <2>1 DEF CallRemembers
  <2>3. balances[account] = call.current[i] /\ localIndexes[account] = globalIndex
    BY <1>1, <2>1 DEF MemoryMatchesStorage
  <2>4. CommittedBalance(account)' = call.current[i]
    BY <1>3, <2>3 DEF SettledBalance
  <2>5. call.initial[i] \in StoredBalance /\ call.current[i] \in StoredBalance
    BY <1>1 DEF CallTypeOK
  <2>6. FinalBalanceAllowed(call.initial[i], call.current[i], call.price)
    BY DEF TradeEnd
  <2> QED BY <1>1, <1>2, <2>2, <2>4, <2>5, <2>6 DEF CallRemembers
<1> QED
  BY <1>4, <1>5

\* A step that leaves what is stored and the memory of trade() alone, leaves what is
\* committed.
LEMMA SameCommitted ==
  ASSUME MarketUnchanged, UNCHANGED <<balances, localIndexes, status, call>>,
         NEW account \in Account
  PROVE  CommittedBalance(account)' = CommittedBalance(account)
BY DEF CommittedBalance, Settled, MarketUnchanged

\* What a deposit, a withdrawal or a payment stores for one account, settled to the
\* index of the transaction, is what it commits; the other accounts stay.
LEMMA OneCommitted ==
  ASSUME status = NotEntered, status' = NotEntered, MarketUnchanged,
         NEW account \in Account, NEW balance,
         balances'[account] = balance, localIndexes'[account] = MarketIndex,
         \A a \in Account \ {account} :
             balances'[a] = balances[a] /\ localIndexes'[a] = localIndexes[a]
  PROVE  /\ CommittedBalance(account) = Settled(account, MarketIndex)
         /\ CommittedBalance(account)' = balance
         /\ \A a \in Account \ {account} : CommittedBalance(a)' = CommittedBalance(a)
<1>1. MarketIndex' = MarketIndex
  BY DEF MarketUnchanged
<1>2. \A a \in Account :
         /\ CommittedBalance(a) = SettledBalance(balances[a], localIndexes[a], MarketIndex)
         /\ CommittedBalance(a)' = SettledBalance(balances'[a], localIndexes'[a], MarketIndex')
  BY DEF CommittedBalance, Settled, NotEntered, Entered
<1>3. SettledBalance(balance, MarketIndex, MarketIndex) = balance
  BY DEF SettledBalance
<1> QED
  BY <1>1, <1>2, <1>3 DEF Settled

\* What a deposit commits.
LEMMA DepositCommits ==
  ASSUME TypeOK, MarketUnchanged, NEW account \in Account, NEW amount \in Amount,
         Deposit(account, amount)
  PROVE  /\ CommittedBalance(account) \in Balance
         /\ CommittedBalance(account)' = AddToMargin(CommittedBalance(account), amount)
         /\ \A a \in Account \ {account} : CommittedBalance(a)' = CommittedBalance(a)
<1> DEFINE new == AddToMargin(Settled(account, ContextIndex), amount)
<1>1. /\ status = NotEntered /\ status' = NotEntered /\ ~finalSettlementEnabled
      /\ LoadContextAndSettle({account}, [a \in {account} |-> new])
  BY DEF Deposit, nonReentrant, noFinalSettlement
<1>2. MarketIndex = ContextIndex /\ Settled(account, ContextIndex) \in Balance
  BY <1>1, ContextTypes, SettledTypes DEF MarketIndex
<1> HIDE DEF new
<1>3. /\ balances'[account] = new /\ localIndexes'[account] = MarketIndex
      /\ \A a \in Account \ {account} :
            balances'[a] = balances[a] /\ localIndexes'[a] = localIndexes[a]
  BY <1>1, <1>2 DEF LoadContextAndSettle
<1> QED
  BY <1>1, <1>2, <1>3, OneCommitted DEF new

\* What a withdrawal commits: a balance that meets the requirement.
LEMMA WithdrawCommits ==
  ASSUME TypeOK, MarketUnchanged, NEW account \in Account, NEW amount \in Amount,
         NEW sender, NEW destination, Withdraw(sender, account, destination, amount)
  PROVE  /\ CommittedBalance(account) \in Balance
         /\ CommittedBalance(account)' = SubFromMargin(CommittedBalance(account), amount)
         /\ IsCollateralized(CommittedBalance(account)', MarketPrice, minCollateral)
         /\ \A a \in Account \ {account} : CommittedBalance(a)' = CommittedBalance(a)
<1> DEFINE new == SubFromMargin(Settled(account, ContextIndex), amount)
<1>1. /\ status = NotEntered /\ status' = NotEntered /\ ~finalSettlementEnabled
      /\ LoadContextAndSettle({account}, [a \in {account} |-> new])
      /\ IsCollateralized(new, ContextPrice, minCollateral)
  BY DEF Withdraw, nonReentrant, noFinalSettlement
<1>2. /\ MarketIndex = ContextIndex /\ MarketPrice = ContextPrice
      /\ Settled(account, ContextIndex) \in Balance
  BY <1>1, ContextTypes, SettledTypes DEF MarketIndex, MarketPrice
<1> HIDE DEF new
<1>3. /\ balances'[account] = new /\ localIndexes'[account] = MarketIndex
      /\ \A a \in Account \ {account} :
            balances'[a] = balances[a] /\ localIndexes'[a] = localIndexes[a]
  BY <1>1, <1>2 DEF LoadContextAndSettle
<1>4. /\ CommittedBalance(account) = Settled(account, ContextIndex)
      /\ CommittedBalance(account)' = new
      /\ \A a \in Account \ {account} : CommittedBalance(a)' = CommittedBalance(a)
  BY <1>1, <1>2, <1>3, OneCommitted
<1> QED
  BY <1>1, <1>2, <1>4 DEF new

\* What a payment after final settlement commits: nothing new for a bad debt, margin
\* that is still to be paid for any other account.
LEMMA FinalWithdrawalCommits ==
  ASSUME TypeOK, MarketUnchanged, NEW sender \in Account, WithdrawFinalSettlement(sender)
  PROVE  /\ \A a \in Account \ {sender} : CommittedBalance(a)' = CommittedBalance(a)
         /\ CommittedBalance(sender) = Settled(sender, globalIndex)
         /\ MarketPrice = finalSettlementPrice
         /\ \/ /\ CommittedBalance(sender)' = CommittedBalance(sender)
               /\ tokens' = tokens
            \/ /\ PositiveValue(Settled(sender, globalIndex), finalSettlementPrice)
                    >= NegativeValue(Settled(sender, globalIndex), finalSettlementPrice)
               /\ CommittedBalance(sender)' = RemainingBalance(sender)
               /\ tokens' = tokens - AmountToWithdraw(sender)
<1> DEFINE old == Settled(sender, globalIndex)
           pos == PositiveValue(old, finalSettlementPrice)
           neg == NegativeValue(old, finalSettlementPrice)
           new == IF pos < neg THEN old ELSE RemainingBalance(sender)
<1>1. /\ status = NotEntered /\ status' = NotEntered /\ finalSettlementEnabled
      /\ localIndexes' = [localIndexes EXCEPT ![sender] = globalIndex]
      /\ balances' = [balances EXCEPT ![sender] = new]
      /\ tokens' = IF pos < neg THEN tokens ELSE tokens - AmountToWithdraw(sender)
  BY DEF WithdrawFinalSettlement, nonReentrant, onlyFinalSettlement
<1>2. MarketIndex = globalIndex /\ MarketPrice = finalSettlementPrice
  BY <1>1 DEF MarketIndex, MarketPrice
<1>3. pos \in Nat /\ neg \in Nat
  <2>1. old \in Balance /\ finalSettlementPrice \in Nat
    BY ContextTypes, SettledTypes, MarketAssumption DEF TypeOK
  <2> QED BY <2>1, ValueSplit
<1> HIDE DEF new
<1>4. /\ balances'[sender] = new /\ localIndexes'[sender] = MarketIndex
      /\ \A a \in Account \ {sender} :
            balances'[a] = balances[a] /\ localIndexes'[a] = localIndexes[a]
  BY <1>1, <1>2, StoredLedger
<1>5. /\ CommittedBalance(sender) = old /\ CommittedBalance(sender)' = new
      /\ \A a \in Account \ {sender} : CommittedBalance(a)' = CommittedBalance(a)
  BY <1>1, <1>2, <1>4, OneCommitted
<1>6. CASE pos < neg
  BY <1>1, <1>2, <1>5, <1>6 DEF new
<1>7. CASE ~(pos < neg)
  BY <1>1, <1>2, <1>3, <1>5, <1>7 DEF new
<1> QED
  BY <1>6, <1>7

\* All other steps but the end of trade() commit nothing.
LEMMA StepKinds ==
  ASSUME TypeOK, [Next]_vars, MarketUnchanged
  PROVE  \/ \E account \in Account, amount \in Amount :
               \/ Deposit(account, amount)
               \/ \E sender \in Account \union Operator,
                     destination \in {"outside", "perpetual"} :
                        Withdraw(sender, account, destination, amount)
         \/ \E sender \in Account : WithdrawFinalSettlement(sender)
         \/ TradeEnd
         \/ /\ tokens <= tokens' /\ tokens' \in Nat
            /\ \A account \in Account : CommittedBalance(account)' = CommittedBalance(account)
<1> DEFINE Quiet == \A account \in Account : CommittedBalance(account)' = CommittedBalance(account)
<1>0. MarketIndex' = MarketIndex /\ tokens \in Nat /\ TypeOK'
  BY NextType, AmountAssumption DEF MarketUnchanged, TypeOK
<1>1. tokens' \in Nat
  BY <1>0, AmountAssumption DEF TypeOK
<1>2. ASSUME UNCHANGED <<balances, localIndexes, status, call>>
      PROVE  Quiet
  BY <1>2, SameCommitted
<1>3. ASSUME NEW accounts, TradeBegin(accounts)
      PROVE  Quiet /\ tokens' = tokens
  <2>1. /\ status = NotEntered /\ status' = Entered /\ tokens' = tokens
        /\ call'.saved.balances = balances /\ call'.saved.localIndexes = localIndexes
    BY <1>3 DEF TradeBegin, nonReentrant, Saved
  <2> QED BY <1>0, <2>1 DEF CommittedBalance, Settled, NotEntered, Entered
<1>4. ASSUME NEW trader, NEW maker, NEW taker, NEW m, NEW p, NEW isBuy,
             TradeStep(trader, maker, taker, m, p, isBuy)
      PROVE  Quiet /\ tokens' = tokens
  <2>1. status = Entered /\ status' = status /\ call'.saved = call.saved /\ tokens' = tokens
    BY <1>4 DEF TradeStep, AfterTrade
  <2> QED BY <1>0, <2>1 DEF CommittedBalance
<1>5. ASSUME TradeRevert
      PROVE  Quiet /\ tokens' = tokens
  <2>1. /\ status = Entered /\ status' = NotEntered /\ tokens' = tokens
        /\ balances' = call.saved.balances /\ localIndexes' = call.saved.localIndexes
    BY <1>5 DEF TradeRevert
  <2> QED BY <1>0, <2>1 DEF CommittedBalance, Settled, NotEntered, Entered
<1>6. CASE MarginStep
  BY <1>6 DEF MarginStep
<1>7. CASE TradeCallStep
  <2> HIDE DEF Quiet
  <2>1. TradeEnd \/ (Quiet /\ tokens' = tokens)
    BY <1>3, <1>4, <1>5, <1>7 DEF TradeCallStep
  <2> QED BY <1>0, <1>1, <2>1 DEF Quiet
<1>8. CASE FinalSettlementStep
  BY <1>8 DEF FinalSettlementStep
<1>9. CASE AdminStep
  <2>1. UNCHANGED <<balances, localIndexes, status, call, tokens>>
    BY <1>9 DEF AdminStep, SetGlobalOperator, SetOracle, SetFunder, SetMinCollateral,
                EnableFinalSettlement, ledger
  <2> QED BY <1>0, <1>2, <2>1
<1>10. CASE OperatorStep
  BY <1>0, <1>2, <1>10 DEF OperatorStep, SetLocalOperator, ledger
<1>11. CASE WorldStep
  <2>1. UNCHANGED <<balances, localIndexes, status, call>>
    BY <1>11 DEF WorldStep, Tick, ChangePrice, ChangeRate, Donate, ledger
  <2>2. \/ tokens' = tokens
        \/ \E amount \in Amount : tokens' = tokens + amount
    BY <1>11 DEF WorldStep, Tick, ChangePrice, ChangeRate, Donate
  <2>3. tokens <= tokens'
    BY <1>0, <2>2, AmountAssumption
  <2> QED BY <1>1, <1>2, <2>1, <2>3
<1>12. CASE UNCHANGED vars
  BY <1>0, <1>2, <1>12 DEF vars, ledger
<1> QED
  BY <1>6, <1>7, <1>8, <1>9, <1>10, <1>11, <1>12 DEF Next

\* Whatever a transaction does while the market stays as it is, an account keeps its
\* balance, gets a deposit, passes one of the checks, or is left without debts.
LEMMA StepCommits ==
  ASSUME IInv, CallRemembers, [Next]_vars, MarketUnchanged, NEW account \in Account
  PROVE  LET b == CommittedBalance(account)
             c == CommittedBalance(account)'
         IN  \/ c = b
             \/ b \in Balance /\ \E amount \in Nat : c = AddToMargin(b, amount)
             \/ c \in Balance /\ IsCollateralized(c, MarketPrice, minCollateral)
             \/ /\ b \in StoredBalance /\ c \in StoredBalance
                /\ FinalBalanceAllowed(b, c, MarketPrice)
             \/ c \in Balance /\ NegativeValue(c, MarketPrice) = 0
<1>0. TypeOK /\ Amount \subseteq Nat
  BY AmountAssumption DEF IInv
<1>1. CASE \E a \in Account, amount \in Amount : Deposit(a, amount)
  <2>1. PICK a \in Account, amount \in Amount : Deposit(a, amount)
    BY <1>1
  <2> QED BY <1>0, <2>1, DepositCommits
<1>2. CASE \E a \in Account, amount \in Amount, sender \in Account \union Operator,
              destination \in {"outside", "perpetual"} :
                 Withdraw(sender, a, destination, amount)
  <2>1. PICK a \in Account, amount \in Amount, sender \in Account \union Operator,
             destination \in {"outside", "perpetual"} :
                Withdraw(sender, a, destination, amount)
    BY <1>2
  <2>2. /\ CommittedBalance(a) \in Balance
        /\ CommittedBalance(a)' = SubFromMargin(CommittedBalance(a), amount)
        /\ IsCollateralized(CommittedBalance(a)', MarketPrice, minCollateral)
        /\ \A x \in Account \ {a} : CommittedBalance(x)' = CommittedBalance(x)
    BY <1>0, <2>1, WithdrawCommits
  <2>3. CASE a = account
    BY <1>0, <2>2, <2>3, MarginUpdates
  <2>4. CASE a # account
    BY <2>2, <2>4
  <2> QED BY <2>3, <2>4
<1>3. CASE \E sender \in Account : WithdrawFinalSettlement(sender)
  <2>1. PICK sender \in Account : WithdrawFinalSettlement(sender)
    BY <1>3
  <2>2. /\ \A a \in Account \ {sender} : CommittedBalance(a)' = CommittedBalance(a)
        /\ MarketPrice = finalSettlementPrice
        /\ \/ CommittedBalance(sender)' = CommittedBalance(sender)
           \/ /\ PositiveValue(Settled(sender, globalIndex), finalSettlementPrice)
                   >= NegativeValue(Settled(sender, globalIndex), finalSettlementPrice)
              /\ CommittedBalance(sender)' = RemainingBalance(sender)
    BY <1>0, <2>1, FinalWithdrawalCommits
  <2> DEFINE rest == RemainingBalance(sender)
  <2>3. ASSUME PositiveValue(Settled(sender, globalIndex), finalSettlementPrice)
                 >= NegativeValue(Settled(sender, globalIndex), finalSettlementPrice)
        PROVE  rest \in Balance /\ NegativeValue(rest, finalSettlementPrice) = 0
    <3>1. rest \in Balance
      BY <1>0, <2>3, FinalPayment
    <3>2. /\ rest.position = 0 /\ ~rest.positionIsPositive
          /\ rest.marginIsPositive = (rest.margin # 0) /\ rest.margin \in Nat
      BY <3>1 DEF RemainingBalance, Balance
    <3>3. finalSettlementPrice \in Nat /\ BASE \in Nat
      BY <1>0, MarketAssumption, BaseAssumption DEF TypeOK
    <3>4. rest.position * finalSettlementPrice = 0 /\ 0 * BASE = 0
      BY <3>2, <3>3
    <3>5. NegativeValue(rest, finalSettlementPrice) = 0
      <4> HIDE DEF rest
      <4>1. CASE rest.margin = 0
        BY <3>2, <3>4, <4>1 DEF NegativeValue
      <4>2. CASE rest.margin # 0
        <5>1. rest.marginIsPositive /\ ~rest.positionIsPositive
          BY <3>2, <4>2
        <5>2. NegativeValue(rest, finalSettlementPrice) = 0 + rest.position * finalSettlementPrice
          BY <5>1 DEF NegativeValue
        <5> QED BY <3>4, <5>2
      <4> QED BY <4>1, <4>2
    <3> QED BY <3>1, <3>5
  <2> HIDE DEF rest
  <2> QED BY <2>2, <2>3 DEF rest
<1>4. CASE TradeEnd
  BY <1>4, TradeEndCommits
<1> QED
  BY <1>0, <1>1, <1>2, <1>3, <1>4, StepKinds

\* An account that meets a requirement still does when its assets grow and its debts
\* do not: a deposit.
LEMMA DepositMeets ==
  ASSUME NEW b \in Balance, NEW amount \in Nat, NEW price \in Nat, NEW k \in Nat,
         IsCollateralized(b, price, k)
  PROVE  IsCollateralized(AddToMargin(b, amount), price, k)
<1> DEFINE c == AddToMargin(b, amount)
           P0 == PositiveValue(b, price)  N0 == NegativeValue(b, price)
           P1 == PositiveValue(c, price)  N1 == NegativeValue(c, price)
<1>1. c \in Balance /\ Margin(c) = Margin(b) + amount /\ GetPosition(c) = GetPosition(b)
  BY MarginUpdates
<1>2. /\ P0 \in Nat /\ N0 \in Nat /\ P1 \in Nat /\ N1 \in Nat
      /\ BASE \in Nat /\ b.margin \in Nat /\ c.margin \in Nat
  BY <1>1, ValueSplit, BaseAssumption DEF Balance
<1>3. c.position = b.position /\ c.positionIsPositive = b.positionIsPositive
  BY <1>1 DEF GetPosition
<1>4. P0 <= P1 /\ N1 <= N0
  <2> DEFINE up   == IF b.positionIsPositive THEN b.position * price ELSE 0
             down == IF b.positionIsPositive THEN 0 ELSE b.position * price
  <2>1. b.position * price \in Nat
    BY ProductNat DEF Balance
  <2>2. up \in Nat /\ down \in Nat
    BY <2>1
  <2>3. /\ P0 = (IF b.marginIsPositive THEN b.margin * BASE ELSE 0) + up
        /\ N0 = (IF b.marginIsPositive THEN 0 ELSE b.margin * BASE) + down
        /\ P1 = (IF c.marginIsPositive THEN c.margin * BASE ELSE 0) + up
        /\ N1 = (IF c.marginIsPositive THEN 0 ELSE c.margin * BASE) + down
    BY <1>3 DEF PositiveValue, NegativeValue
  <2>4. /\ Margin(b) = IF b.marginIsPositive THEN b.margin ELSE -b.margin
        /\ Margin(c) = IF c.marginIsPositive THEN c.margin ELSE -c.margin
    BY DEF Margin, GetMargin, ToInt
  <2>5. b.margin * BASE \in Nat /\ c.margin * BASE \in Nat
    BY <1>2, ProductNat
  <2> HIDE DEF up, down, P0, P1, N0, N1, c
  <2>6. CASE b.marginIsPositive /\ c.marginIsPositive
    <3>1. b.margin <= c.margin
      BY <1>1, <1>2, <2>4, <2>6
    <3>2. b.margin * BASE <= c.margin * BASE
      BY <1>2, <3>1, ProductMonotone
    <3> QED BY <2>2, <2>3, <2>5, <2>6, <3>2
  <2>7. CASE ~b.marginIsPositive /\ c.marginIsPositive
    BY <2>2, <2>3, <2>5, <2>7
  <2>8. CASE b.marginIsPositive /\ ~c.marginIsPositive
    <3>1. b.margin = 0 /\ c.margin = 0
      BY <1>1, <1>2, <2>4, <2>8
    <3>2. 0 * BASE = 0
      BY <1>2
    <3> QED BY <2>2, <2>3, <2>8, <3>1, <3>2
  <2>9. CASE ~b.marginIsPositive /\ ~c.marginIsPositive
    <3>1. c.margin <= b.margin
      BY <1>1, <1>2, <2>4, <2>9
    <3>2. c.margin * BASE <= b.margin * BASE
      BY <1>2, <3>1, ProductMonotone
    <3> QED BY <2>2, <2>3, <2>5, <2>9, <3>2
  <2> QED BY <2>6, <2>7, <2>8, <2>9
<1>5. P0 * BASE >= N0 * k
  BY DEF IsCollateralized
<1> HIDE DEF P0, P1, N0, N1
<1>6. P0 * BASE <= P1 * BASE /\ N1 * k <= N0 * k
  BY <1>2, <1>4, ProductMonotone
<1>7. P0 * BASE \in Nat /\ P1 * BASE \in Nat /\ N0 * k \in Nat /\ N1 * k \in Nat
  BY <1>2, ProductNat
<1>8. P1 * BASE >= N1 * k
  BY <1>5, <1>6, <1>7
<1> QED
  BY <1>8 DEF IsCollateralized, P1, N1

\* A balance that meets a requirement meets any that is not stricter.
LEMMA MeetsLess ==
  ASSUME NEW b \in Balance, NEW price \in Nat, NEW k \in Nat, NEW strict \in Nat,
         k <= strict, IsCollateralized(b, price, strict)
  PROVE  IsCollateralized(b, price, k)
<1> DEFINE P == PositiveValue(b, price)  N == NegativeValue(b, price)
<1>1. P \in Nat /\ N \in Nat /\ BASE \in Nat
  BY ValueSplit, BaseAssumption
<1>2. P * BASE >= N * strict
  BY DEF IsCollateralized
<1> HIDE DEF P, N
<1>3. k * N <= strict * N
  BY <1>1, ProductMonotone
<1>4. /\ N * k = k * N /\ N * strict = strict * N
      /\ P * BASE \in Nat /\ k * N \in Nat /\ strict * N \in Nat
  BY <1>1, ProductNat
<1>5. P * BASE >= N * k
  BY <1>2, <1>3, <1>4
<1> QED
  BY <1>5 DEF IsCollateralized, P, N

\* What trade() accepts of an account that met a requirement no stricter than its own
\* still meets it: the rule for accounts below the requirement, a ratio that is no
\* worse, cannot be used to go below it. The division by BASE in that rule is exact,
\* because the value that is divided comes from the margin alone.
LEMMA AllowedMeets ==
  ASSUME NEW b \in StoredBalance, NEW c \in StoredBalance, NEW price \in Nat,
         NEW k \in Nat, minCollateral \in Nat, k <= minCollateral,
         FinalBalanceAllowed(b, c, price), IsCollateralized(b, price, k)
  PROVE  IsCollateralized(c, price, k)
<1> DEFINE P0 == PositiveValue(b, price)  N0 == NegativeValue(b, price)
           P1 == PositiveValue(c, price)  N1 == NegativeValue(c, price)
<1>1. /\ P0 \in Nat /\ N0 \in Nat /\ P1 \in Nat /\ N1 \in Nat
      /\ BASE \in Nat /\ BASE # 0 /\ b \in Balance /\ c \in Balance
      /\ b.margin \in Nat /\ c.margin \in Nat /\ b.position \in Nat /\ c.position \in Nat
  BY ValueSplit, BaseAssumption DEF StoredBalance, Balance
<1>2. CASE IsCollateralized(c, price, minCollateral)
  BY <1>1, <1>2, MeetsLess
<1>3. CASE ~IsCollateralized(c, price, minCollateral)
  <2>1. /\ P1 # 0 /\ c.positionIsPositive = b.positionIsPositive /\ N0 # 0
        /\ IF c.positionIsPositive THEN BaseDivMul(N1, P0) <= BaseDivMul(N0, P1)
                                   ELSE BaseDivMul(P0, N1) <= BaseDivMul(P1, N0)
    BY <1>3 DEF FinalBalanceAllowed
  <2>2. \A x \in Nat : (x * BASE) \div BASE = x
    BY BaseQuotient
  <2>3. N1 * P0 <= N0 * P1
    <3>1. CASE c.positionIsPositive
      <4>1. PICK x \in Nat, y \in Nat : N1 = x * BASE /\ N0 = y * BASE
        <5>1. /\ N1 = (IF c.marginIsPositive THEN 0 ELSE c.margin) * BASE
              /\ N0 = (IF b.marginIsPositive THEN 0 ELSE b.margin) * BASE
          <6>1. 0 * BASE = 0 /\ c.margin * BASE \in Nat /\ b.margin * BASE \in Nat
            BY <1>1, ProductNat
          <6> QED BY <2>1, <3>1, <6>1 DEF NegativeValue
        <5> QED BY <1>1, <5>1
      <4>2. x * P0 <= y * P1
        BY <2>1, <2>2, <3>1, <4>1 DEF BaseDivMul
      <4> HIDE DEF P0, P1, N0, N1
      <4>3. (x * P0) * BASE <= (y * P1) * BASE
        BY <1>1, <4>2, ProductNat, ProductMonotone
      <4>4. (x * P0) * BASE = (x * BASE) * P0 /\ (y * P1) * BASE = (y * BASE) * P1
        BY <1>1
      <4> QED BY <4>1, <4>3, <4>4
    <3>2. CASE ~c.positionIsPositive
      <4>1. PICK x \in Nat, y \in Nat : P0 = x * BASE /\ P1 = y * BASE
        <5>1. /\ P0 = (IF b.marginIsPositive THEN b.margin ELSE 0) * BASE
              /\ P1 = (IF c.marginIsPositive THEN c.margin ELSE 0) * BASE
          <6>1. 0 * BASE = 0 /\ c.margin * BASE \in Nat /\ b.margin * BASE \in Nat
            BY <1>1, ProductNat
          <6> QED BY <2>1, <3>2, <6>1 DEF PositiveValue
        <5> QED BY <1>1, <5>1
      <4>2. x * N1 <= y * N0
        BY <2>1, <2>2, <3>2, <4>1 DEF BaseDivMul
      <4> HIDE DEF P0, P1, N0, N1
      <4>3. (x * N1) * BASE <= (y * N0) * BASE
        BY <1>1, <4>2, ProductNat, ProductMonotone
      <4>4. (x * N1) * BASE = N1 * (x * BASE) /\ (y * N0) * BASE = N0 * (y * BASE)
        BY <1>1
      <4> QED BY <4>1, <4>3, <4>4
    <3> QED BY <3>1, <3>2
  <2>4. N0 * k <= BASE * P0
    <3>1. P0 * BASE >= N0 * k
      BY DEF IsCollateralized
    <3>2. P0 * BASE = BASE * P0 /\ BASE * P0 \in Nat /\ N0 * k \in Nat
      BY <1>1, ProductNat
    <3> HIDE DEF P0, N0
    <3> QED BY <3>1, <3>2
  <2>5. N1 * k <= BASE * P1
    <3> HIDE DEF P0, P1, N0, N1
    <3>1. CASE P0 # 0
      BY <1>1, <2>3, <2>4, <3>1, SignedRatioTransitive
    <3>2. CASE P0 = 0
      <4>1. BASE * P0 = 0 /\ N0 * k \in Nat
        BY <1>1, <3>2, ProductNat
      <4>2. N0 * k = 0
        BY <2>4, <4>1
      <4>3. k = 0
        BY <1>1, <2>1, <4>2
      <4>4. N1 * k = 0 /\ BASE * P1 \in Nat
        BY <1>1, <4>3, ProductNat
      <4> QED BY <4>4
    <3> QED BY <3>1, <3>2
  <2>6. P1 * BASE = BASE * P1 /\ BASE * P1 \in Nat /\ N1 * k \in Nat
    BY <1>1, ProductNat
  <2>7. P1 * BASE >= N1 * k
    <3> HIDE DEF P1, N1
    <3> QED BY <2>5, <2>6
  <2> QED BY <2>7 DEF IsCollateralized
<1> QED
  BY <1>2, <1>3

\* The types of what the properties of transactions speak of.
LEMMA CommittedTypes ==
  ASSUME TypeOK, NEW account \in Account
  PROVE  /\ CommittedBalance(account) \in Balance
         /\ MarketPrice \in Nat /\ minCollateral \in Nat
<1>1. MarketIndex \in Index /\ MarketPrice \in Nat /\ minCollateral \in Nat
  BY ContextTypes, MarketAssumption, CollateralAssumption
     DEF TypeOK, MarketIndex, MarketPrice, StoredIndex
<1>2. CASE status = Entered
  <2>1. /\ call.saved.balances[account] \in Balance
        /\ call.saved.localIndexes[account] \in Index
    BY <1>2 DEF TypeOK, CallTypeOK, StoredBalances, StoredBalance, StoredIndexes, StoredIndex
  <2>2. CommittedBalance(account) = SettledBalance(call.saved.balances[account],
                                        call.saved.localIndexes[account], MarketIndex)
    BY <1>2 DEF CommittedBalance
  <2> QED BY <1>1, <2>1, <2>2, SettlementType
<1>3. CASE status # Entered
  <2>1. CommittedBalance(account) = Settled(account, MarketIndex)
    BY <1>3 DEF CommittedBalance
  <2> QED BY <1>1, <2>1, SettledTypes
<1> QED
  BY <1>1, <1>2, <1>3

\* No step makes an account miss a requirement that is not stricter than the one of
\* the contract.
LEMMA StepMeets ==
  ASSUME IInv, CallRemembers, [Next]_vars, MarketUnchanged, NEW account \in Account,
         NEW k \in Nat, k <= minCollateral, Meets(account, k)
  PROVE  /\ CommittedBalance(account)' \in Balance
         /\ IsCollateralized(CommittedBalance(account)', MarketPrice, k)
<1> DEFINE b == CommittedBalance(account)
           c == CommittedBalance(account)'
<1>1. b \in Balance /\ MarketPrice \in Nat /\ minCollateral \in Nat
  BY CommittedTypes DEF IInv
<1>2. IsCollateralized(b, MarketPrice, k)
  BY DEF Meets
<1>3. \/ c = b
      \/ \E amount \in Nat : c = AddToMargin(b, amount)
      \/ c \in Balance /\ IsCollateralized(c, MarketPrice, minCollateral)
      \/ b \in StoredBalance /\ c \in StoredBalance /\ FinalBalanceAllowed(b, c, MarketPrice)
      \/ c \in Balance /\ NegativeValue(c, MarketPrice) = 0
  BY StepCommits
<1> SUFFICES c \in Balance /\ IsCollateralized(c, MarketPrice, k)
  OBVIOUS
<1> HIDE DEF b, c
<1>4. CASE c = b
  BY <1>1, <1>2, <1>4
<1>5. ASSUME NEW amount \in Nat, c = AddToMargin(b, amount)
      PROVE  c \in Balance /\ IsCollateralized(c, MarketPrice, k)
  BY <1>1, <1>2, <1>5, DepositMeets, MarginUpdates
<1>6. CASE c \in Balance /\ IsCollateralized(c, MarketPrice, minCollateral)
  BY <1>1, <1>6, MeetsLess
<1>7. CASE b \in StoredBalance /\ c \in StoredBalance /\ FinalBalanceAllowed(b, c, MarketPrice)
  BY <1>1, <1>2, <1>7, AllowedMeets DEF StoredBalance
<1>8. CASE c \in Balance /\ NegativeValue(c, MarketPrice) = 0
  <2>1. 0 * k = 0 /\ PositiveValue(c, MarketPrice) * BASE \in Nat
    BY <1>1, <1>8, ValueSplit, ProductNat, BaseAssumption
  <2>2. PositiveValue(c, MarketPrice) * BASE >= NegativeValue(c, MarketPrice) * k
    BY <1>8, <2>1
  <2> QED BY <1>8, <2>2 DEF IsCollateralized
<1> QED
  BY <1>3, <1>4, <1>5, <1>6, <1>7, <1>8

\* The memory of trade() in every state.
LEMMA AlwaysRemembers == Spec => [](IInv /\ CallRemembers)
<1>1. Init => CallRemembers
  BY DEF Init, CallRemembers, NotEntered, Entered
<1>2. IInv /\ CallRemembers /\ [Next]_vars => CallRemembers'
  BY StepRemembers
<1> QED
  BY <1>1, <1>2, InductiveInvariant, PTL DEF Spec

\* Only the market, time or a new requirement makes an account fall short of the
\* requirement: no withdrawal, no sequence of trades and no payment does.
THEOREM NoneUndercollateralized == Spec => NoTransactionUndercollateralizes
<1>1. ASSUME IInv, CallRemembers, [Next]_vars, MarketUnchanged, UNCHANGED minCollateral,
             NEW account \in Account, Meets(account, minCollateral)
      PROVE  Meets(account, minCollateral)'
  <2>1. PICK k \in Nat : k = minCollateral
    BY <1>1, CommittedTypes DEF IInv
  <2>2. Meets(account, k)
    BY <1>1, <2>1
  <2>3. IsCollateralized(CommittedBalance(account)', MarketPrice, k)
    BY <1>1, <2>1, <2>2, StepMeets
  <2>4. MarketPrice' = MarketPrice /\ minCollateral' = k
    BY <1>1, <2>1 DEF MarketUnchanged
  <2> QED BY <2>3, <2>4 DEF Meets
<1>2. IInv /\ CallRemembers /\ [Next]_vars =>
         [MarketUnchanged /\ UNCHANGED minCollateral =>
             \A account \in Account :
                 Meets(account, minCollateral) => Meets(account, minCollateral)']_vars
  BY <1>1
<1> QED
  BY <1>2, AlwaysRemembers, PTL DEF Spec, NoTransactionUndercollateralizes

\* With a requirement of at least 100% no transaction leaves an account with debts
\* above its assets that had none, also when it was below the requirement.
THEOREM NoBadDebtMade == Spec => NoTransactionMakesBadDebt
<1>0. ASSUME NEW b \in Balance, NEW price \in Nat
      PROVE  NetValue(b, price) >= 0 <=> IsCollateralized(b, price, BASE)
  <2> DEFINE P == PositiveValue(b, price)  N == NegativeValue(b, price)
  <2>1. P \in Nat /\ N \in Nat /\ BASE \in Nat /\ BASE > 0
    BY ValueSplit, BaseAssumption
  <2>2. NetValue(b, price) = P - N /\ (IsCollateralized(b, price, BASE) <=> P * BASE >= N * BASE)
    BY DEF NetValue, IsCollateralized
  <2> HIDE DEF P, N
  <2>3. ASSUME P >= N PROVE P * BASE >= N * BASE
    BY <2>1, <2>3, ProductMonotone, ProductNat
  <2>4. ASSUME N >= P + 1 PROVE N * BASE > P * BASE
    <3>1. (P + 1) * BASE <= N * BASE /\ (P + 1) * BASE = P * BASE + BASE
      BY <2>1, <2>4, ProductMonotone
    <3>2. P * BASE \in Nat /\ N * BASE \in Nat
      BY <2>1, ProductNat
    <3> QED BY <2>1, <3>1, <3>2
  <2>5. P * BASE \in Nat /\ N * BASE \in Nat
    BY <2>1, ProductNat
  <2> QED BY <2>1, <2>2, <2>3, <2>4, <2>5
<1>1. ASSUME IInv, CallRemembers, [Next]_vars, MarketUnchanged, minCollateral >= BASE,
             NEW account \in Account, CommittedValue(account) >= 0
      PROVE  CommittedValue(account)' >= 0
  <2>1. /\ CommittedBalance(account) \in Balance
        /\ MarketPrice \in Nat /\ minCollateral \in Nat /\ BASE \in Nat
    BY <1>1, CommittedTypes, BaseAssumption DEF IInv
  <2>2. Meets(account, BASE)
    BY <1>0, <1>1, <2>1 DEF CommittedValue, Meets
  <2>3. BASE <= minCollateral
    BY <1>1, <2>1
  <2>4. /\ CommittedBalance(account)' \in Balance
        /\ IsCollateralized(CommittedBalance(account)', MarketPrice, BASE)
    BY <1>1, <2>1, <2>2, <2>3, StepMeets
  <2>5. NetValue(CommittedBalance(account)', MarketPrice) >= 0
    BY <1>0, <2>1, <2>4
  <2>6. MarketPrice' = MarketPrice
    BY <1>1 DEF MarketUnchanged
  <2>7. CommittedValue(account)' = NetValue(CommittedBalance(account)', MarketPrice')
    BY DEF CommittedValue, NetValue, PositiveValue, NegativeValue
  <2> QED BY <2>5, <2>6, <2>7
<1>2. IInv /\ CallRemembers /\ [Next]_vars =>
         [MarketUnchanged /\ minCollateral >= BASE =>
             \A account \in Account :
                 CommittedValue(account) >= 0 => CommittedValue(account)' >= 0]_vars
  BY <1>1
<1> QED
  BY <1>2, AlwaysRemembers, PTL DEF Spec, NoTransactionMakesBadDebt

\* Once final settlement is enabled, nothing changes the index and the price any more.
LEMMA FinalMarket ==
  ASSUME TypeOK, [Next]_vars, finalSettlementEnabled
  PROVE  MarketUnchanged /\ finalSettlementEnabled' /\ status = NotEntered
<1>1. status = NotEntered
  BY DEF TypeOK
<1>2. UNCHANGED <<globalIndex, finalSettlementEnabled, finalSettlementPrice>>
  <2>1. CASE MarginStep
    BY <2>1 DEF MarginStep, Deposit, Withdraw, noFinalSettlement
  <2>2. CASE TradeCallStep
    BY <1>1, <2>2 DEF TradeCallStep, TradeBegin, TradeStep, TradeEnd, TradeRevert,
                      noFinalSettlement, NotEntered, Entered
  <2>3. CASE FinalSettlementStep
    BY <2>3 DEF FinalSettlementStep, WithdrawFinalSettlement, final
  <2>4. CASE AdminStep
    BY <2>4 DEF AdminStep, SetGlobalOperator, SetOracle, SetFunder, SetMinCollateral,
                EnableFinalSettlement, noFinalSettlement, ledger, final
  <2>5. CASE OperatorStep
    BY <2>5 DEF OperatorStep, SetLocalOperator, ledger, final
  <2>6. CASE WorldStep
    BY <2>6 DEF WorldStep, Tick, ChangePrice, ChangeRate, Donate, ledger, final
  <2>7. CASE UNCHANGED vars
    BY <2>7 DEF vars, ledger, final
  <2> QED BY <2>1, <2>2, <2>3, <2>4, <2>5, <2>6, <2>7 DEF Next
<1> QED
  BY <1>1, <1>2 DEF MarketUnchanged, MarketIndex, MarketPrice

\* The value of an account, as an integer and as the sum of its two parts.
LEMMA NetValueSplit ==
  ASSUME NEW b \in Balance, NEW price \in Nat
  PROVE  /\ NetValue(b, price) = BASE * Margin(b) + price * Position(b)
         /\ NetValue(b, price) \in Int
         /\ Margin(b) \in Int /\ Position(b) \in Int
         /\ BASE * Margin(b) \in Int /\ price * Position(b) \in Int
BY ValueSplit, BalanceInt, BaseAssumption DEF NetValue

\* After final settlement was enabled the value of an account only drops, and only by
\* what the account is paid and less than one token unit lost to rounding, also when
\* the tokens do not suffice and part of it stays as margin.
THEOREM FinalSettlementPays == Spec => FinalSettlementPaysClaims
<1>1. ASSUME TypeOK, [Next]_vars, finalSettlementEnabled, NEW account \in Account
      PROVE  LET loss == CommittedValue(account) - CommittedValue(account)'
             IN  \/ loss = 0
                 \/ loss - BASE * (tokens - tokens') \in 0..(BASE - 1)
  <2>0. /\ MarketUnchanged /\ MarketPrice' = MarketPrice /\ MarketPrice \in Nat
        /\ CommittedBalance(account) \in Balance /\ BASE \in Nat /\ tokens \in Nat
    BY <1>1, FinalMarket, CommittedTypes, BaseAssumption, AmountAssumption
       DEF MarketUnchanged, TypeOK
  <2>1. /\ CommittedValue(account) = NetValue(CommittedBalance(account), MarketPrice)
        /\ CommittedValue(account)' = NetValue(CommittedBalance(account)', MarketPrice)
    BY <2>0 DEF CommittedValue, NetValue, PositiveValue, NegativeValue
  <2>2. ASSUME CommittedBalance(account)' = CommittedBalance(account)
        PROVE  CommittedValue(account) - CommittedValue(account)' = 0
    <3>1. CommittedValue(account) \in Int /\ CommittedValue(account)' = CommittedValue(account)
      BY <2>0, <2>1, <2>2, NetValueSplit
    <3> QED BY <3>1
  <2>3. ASSUME NEW sender \in Account, WithdrawFinalSettlement(sender)
        PROVE  \/ CommittedBalance(account)' = CommittedBalance(account)
               \/ CommittedValue(account) - CommittedValue(account)'
                    - BASE * (tokens - tokens') \in 0..(BASE - 1)
    <3> DEFINE rest == RemainingBalance(account)
               paid == AmountToWithdraw(account)
    <3>1. /\ \A a \in Account \ {sender} : CommittedBalance(a)' = CommittedBalance(a)
          /\ CommittedBalance(sender) = Settled(sender, globalIndex)
          /\ MarketPrice = finalSettlementPrice
          /\ \/ CommittedBalance(sender)' = CommittedBalance(sender)
             \/ /\ PositiveValue(Settled(sender, globalIndex), finalSettlementPrice)
                     >= NegativeValue(Settled(sender, globalIndex), finalSettlementPrice)
                /\ CommittedBalance(sender)' = RemainingBalance(sender)
                /\ tokens' = tokens - AmountToWithdraw(sender)
      BY <1>1, <2>0, <2>3, FinalWithdrawalCommits
    <3>2. ASSUME sender = account,
                 PositiveValue(Settled(account, globalIndex), finalSettlementPrice)
                   >= NegativeValue(Settled(account, globalIndex), finalSettlementPrice),
                 CommittedBalance(account)' = rest, tokens' = tokens - paid
          PROVE  CommittedValue(account) - CommittedValue(account)'
                   - BASE * (tokens - tokens') \in 0..(BASE - 1)
      <4>1. /\ paid \in 0..tokens /\ rest \in Balance /\ Position(rest) = 0
            /\ Margin(rest) \in Nat
            /\ BASE * (Margin(rest) + paid) <= CommittedValue(account)
            /\ CommittedValue(account) < BASE * (Margin(rest) + paid) + BASE
        BY <1>1, <2>1, <3>1, <3>2, FinalPayment
      <4>2. CommittedValue(account)' = BASE * Margin(rest) + MarketPrice * Position(rest)
        BY <2>0, <2>1, <3>2, <4>1, NetValueSplit
      <4>3. CommittedValue(account) \in Int
        BY <2>0, <2>1, NetValueSplit
      <4> DEFINE m == Margin(rest)  v == CommittedValue(account)  w == CommittedValue(account)'
      <4>4. /\ m \in Nat /\ v \in Int /\ paid \in Nat
            /\ w = BASE * m + MarketPrice * 0 /\ tokens - tokens' = paid
        BY <2>0, <3>2, <4>1, <4>2, <4>3
      <4>5. BASE * (m + paid) <= v /\ v < BASE * (m + paid) + BASE
        BY <4>1
      <4> HIDE DEF m, v, w, paid, rest
      <4>6. /\ w = BASE * m /\ BASE * (m + paid) = BASE * m + BASE * paid
            /\ BASE * m \in Nat /\ BASE * paid \in Nat
        BY <2>0, <4>4, ProductNat
      <4>7. v - w - BASE * (tokens - tokens') = v - w - BASE * paid
        BY <4>4
      <4>8. v - w - BASE * paid \in 0..(BASE - 1)
        BY <2>0, <4>4, <4>5, <4>6
      <4> QED BY <4>7, <4>8 DEF v, w
    <3> QED BY <3>1, <3>2
  <2>4. ~TradeEnd /\ ~\E a \in Account, amount \in Amount :
             \/ Deposit(a, amount)
             \/ \E sender \in Account \union Operator, destination \in {"outside", "perpetual"} :
                    Withdraw(sender, a, destination, amount)
    BY <1>1, FinalMarket DEF TradeEnd, Deposit, Withdraw, noFinalSettlement, NotEntered, Entered
  <2> QED BY <1>1, <2>0, <2>2, <2>3, <2>4, StepKinds
<1>2. TypeOK /\ [Next]_vars =>
         [finalSettlementEnabled =>
             /\ MarketUnchanged /\ finalSettlementEnabled'
             /\ \A account \in Account :
                   LET loss == CommittedValue(account) - CommittedValue(account)'
                   IN  \/ loss = 0
                       \/ loss - BASE * (tokens - tokens') \in 0..(BASE - 1)]_vars
  BY <1>1, FinalMarket
<1> QED
  BY <1>2, TypeCorrect, PTL DEF Spec, FinalSettlementPaysClaims

-----------------------------------------------------------------------------
(* The value of all accounts together                                       *)

\* The margins of all accounts, settled to the global index.
SettledMargins(bals, idxs) ==
    [account \in Account |-> Margin(SettledBalance(bals[account], idxs[account], globalIndex))]

\* While trade() is executed the margins only move between accounts.
MarginsKept ==
    status = Entered =>
        Total(SettledMargins(balances, localIndexes))
          = Total(SettledMargins(call.saved.balances, call.saved.localIndexes))

\* Settled margins are integers.
LEMMA MarginTypes ==
  ASSUME NEW bals \in [Account -> Balance], NEW idxs \in [Account -> Index],
         globalIndex \in Index
  PROVE  /\ SettledMargins(bals, idxs) \in [Account -> Int]
         /\ Total(SettledMargins(bals, idxs)) \in Int
<1>1. SettledMargins(bals, idxs) \in [Account -> Int]
  BY SettlementType, BalanceInt DEF SettledMargins
<1> QED
  BY <1>1, AccountAssumption, TotalType

\* A trade of two accounts moves margin from one to the other.
LEMMA PairKeepsMargins ==
  ASSUME TypeOK, MemoryMatchesStorage,
         NEW trader, NEW maker \in DOMAIN call.accounts,
         NEW taker \in DOMAIN call.accounts, NEW marginAmount \in Amount,
         NEW positionAmount \in Amount, NEW isBuy \in BOOLEAN,
         TradeStep(trader, maker, taker, marginAmount, positionAmount, isBuy),
         call.accounts[maker] # call.accounts[taker]
  PROVE  Total(SettledMargins(balances', localIndexes))
           = Total(SettledMargins(balances, localIndexes))
<1> DEFINE M == call.accounts[maker]
           T == call.accounts[taker]
           f == SettledMargins(balances, localIndexes)
           g == SettledMargins(balances', localIndexes)
           n1 == Margin(balances'[M])
           n2 == Margin(balances'[T])
<1>1. /\ status = Entered /\ CallTypeOK /\ globalIndex \in Index
  BY DEF TradeStep, TypeOK, StoredIndex
<1>2. /\ M \in Account /\ T \in Account /\ M # T
      /\ localIndexes[M] = globalIndex /\ localIndexes[T] = globalIndex
  BY <1>1, AccountListType DEF CallTypeOK, MemoryMatchesStorage
<1>3. /\ balances' = [balances EXCEPT ![M] = balances'[M], ![T] = balances'[T]]
      /\ balances'[M] \in Balance /\ balances'[T] \in Balance
      /\ n1 + n2 = Margin(balances[M]) + Margin(balances[T])
  BY TradedPair
<1>4. \A b : SettledBalance(b, globalIndex, globalIndex) = b
  BY DEF SettledBalance
<1>5. f \in [Account -> Int] /\ n1 \in Int /\ n2 \in Int
  BY <1>1, <1>3, StoredLedger, MarginTypes, BalanceInt
<1>6. f[M] = Margin(balances[M]) /\ f[T] = Margin(balances[T])
  BY <1>2, <1>4 DEF SettledMargins
<1>7. \A a \in Account : g[a] = IF a = M THEN n1 ELSE IF a = T THEN n2 ELSE f[a]
  <2>1. \A a \in Account \ {M, T} : balances'[a] = balances[a]
    <3> HIDE DEF M, T
    <3> QED BY <1>2, <1>3, StoredLedger
  <2> QED BY <1>2, <1>4, <2>1 DEF SettledMargins
<1>8. g = [[f EXCEPT ![M] = n1] EXCEPT ![T] = n2]
  <2>1. g = [a \in Account |-> g[a]]
    BY DEF SettledMargins
  <2> HIDE DEF f, g, n1, n2, M, T
  <2> QED BY <1>2, <1>5, <1>7, <2>1
<1> HIDE DEF f, g, n1, n2, M, T
<1>9. Total([f EXCEPT ![M] = n1]) = Total(f) - f[M] + n1
  BY <1>2, <1>5, AccountAssumption, TotalUpdate
<1>10. Total(g) = Total([f EXCEPT ![M] = n1]) - f[T] + n2
  <2> DEFINE one == [f EXCEPT ![M] = n1]
  <2>1. one \in [Account -> Int] /\ one[T] = f[T]
    BY <1>2, <1>5
  <2> HIDE DEF one
  <2>2. Total([one EXCEPT ![T] = n2]) = Total(one) - one[T] + n2
    BY <1>2, <1>5, <2>1, AccountAssumption, TotalUpdate
  <2> QED BY <1>8, <2>1, <2>2 DEF one
<1>11. Total(f) \in Int /\ f[M] \in Int /\ f[T] \in Int
  BY <1>2, <1>5, AccountAssumption, TotalType
<1>12. Total(g) = Total(f)
  BY <1>3, <1>5, <1>6, <1>9, <1>10, <1>11
<1> QED
  BY <1>12 DEF f, g

\* Every step keeps them.
LEMMA StepKeepsMargins ==
  ASSUME IInv, MarginsKept, [Next]_vars
  PROVE  MarginsKept'
<1>0. TypeOK /\ MemoryMatchesStorage
  BY DEF IInv
<1>1. ASSUME status' = NotEntered
      PROVE  MarginsKept'
  BY <1>1 DEF MarginsKept, NotEntered, Entered
<1>2. ASSUME UNCHANGED <<ledger, status, call>>
      PROVE  MarginsKept'
  BY <1>2 DEF MarginsKept, SettledMargins, ledger
<1>3. ASSUME NEW accounts \in AccountList, TradeBegin(accounts)
      PROVE  MarginsKept'
  <2> DEFINE settled == [a \in Elements(accounts) |-> Settled(a, ContextIndex)]
  <2>1. /\ LoadContextAndSettle(Elements(accounts), settled)
        /\ call'.saved.balances = balances /\ call'.saved.localIndexes = localIndexes
    BY <1>3 DEF TradeBegin, Saved
  <2>2. \A a \in Elements(accounts) : settled[a] = Settled(a, ContextIndex)
    OBVIOUS
  <2> HIDE DEF settled
  <2>3. \A b : SettledBalance(b, ContextIndex, ContextIndex) = b
    BY DEF SettledBalance
  <2>4. \A a \in Account :
           SettledBalance(balances'[a], localIndexes'[a], globalIndex')
             = SettledBalance(balances[a], localIndexes[a], globalIndex')
    BY <2>1, <2>2, <2>3 DEF LoadContextAndSettle, Settled
  <2>5. [account \in Account |-> Margin(SettledBalance(balances'[account],
                                            localIndexes'[account], globalIndex'))]
          = [account \in Account |-> Margin(SettledBalance(balances[account],
                                            localIndexes[account], globalIndex'))]
    BY <2>4
  <2> QED BY <2>1, <2>5 DEF MarginsKept, SettledMargins
<1>4. ASSUME NEW trader, NEW maker \in DOMAIN call.accounts,
             NEW taker \in DOMAIN call.accounts, NEW m \in Amount, NEW p \in Amount,
             NEW isBuy \in BOOLEAN, TradeStep(trader, maker, taker, m, p, isBuy)
      PROVE  MarginsKept'
  <2>1. /\ status = Entered /\ call'.saved = call.saved
        /\ localIndexes' = localIndexes /\ globalIndex' = globalIndex
    BY <1>4 DEF TradeStep, AfterTrade
  <2>2. Total(SettledMargins(balances', localIndexes))
          = Total(SettledMargins(balances, localIndexes))
    <3>1. CASE call.accounts[maker] = call.accounts[taker]
      BY <1>4, <3>1 DEF TradeStep
    <3>2. CASE call.accounts[maker] # call.accounts[taker]
      BY <1>0, <1>4, <3>2, PairKeepsMargins
    <3> QED BY <3>1, <3>2
  <2> QED BY <2>1, <2>2 DEF MarginsKept, SettledMargins
<1>5. CASE MarginStep
  BY <1>1, <1>5 DEF MarginStep, Deposit, Withdraw, nonReentrant
<1>6. CASE TradeCallStep
  BY <1>1, <1>3, <1>4, <1>6 DEF TradeCallStep, TradeEnd, TradeRevert
<1>7. CASE FinalSettlementStep
  BY <1>1, <1>7 DEF FinalSettlementStep, WithdrawFinalSettlement, nonReentrant
<1>8. CASE AdminStep
  BY <1>1, <1>8 DEF AdminStep, SetGlobalOperator, SetOracle, SetFunder, SetMinCollateral,
                    EnableFinalSettlement, nonReentrant
<1>9. CASE OperatorStep
  BY <1>2, <1>9 DEF OperatorStep, SetLocalOperator
<1>10. CASE WorldStep
  BY <1>1, <1>10 DEF WorldStep, Tick, ChangePrice, ChangeRate, Donate, nonReentrant
<1>11. CASE UNCHANGED vars
  BY <1>2, <1>11 DEF vars
<1> QED
  BY <1>5, <1>6, <1>7, <1>8, <1>9, <1>10, <1>11 DEF Next

\* The total of values that are composed of margins and of positions at one price.
LEMMA TotalOfParts ==
  ASSUME NEW m \in [Account -> Int], NEW p \in [Account -> Int], NEW k \in Int,
         NEW h \in [Account -> Int], \A a \in Account : h[a] = BASE * m[a] + k * p[a]
  PROVE  /\ Total(h) = BASE * Total(m) + k * Total(p)
         /\ Total(h) \in Int /\ Total(m) \in Int /\ Total(p) \in Int
<1> DEFINE z == [a \in Account |-> 0]
           u == [a \in Account |-> BASE * m[a]]
<1>1. IsFiniteSet(Account) /\ BASE \in Int
  BY AccountAssumption, BaseAssumption
<1>2. /\ z \in [Account -> Int] /\ u \in [Account -> Int] /\ Total(z) = 0
      /\ \A a \in Account : u[a] = z[a] + BASE * m[a] /\ h[a] = u[a] + k * p[a]
  <2>1. z \in [Account -> {0}]
    OBVIOUS
  <2>2. \A a \in Account : BASE * m[a] \in Int /\ BASE * m[a] = 0 + BASE * m[a]
    BY <1>1
  <2> QED BY <2>1, <2>2, TotalZero
<1> HIDE DEF z, u
<1>3. Total(u) = Total(z) + BASE * Total(m)
  <2>1. \A a \in Account : u[a] = z[a] + BASE * m[a]
    BY <1>2
  <2>2. z \in [Account -> Int] /\ u \in [Account -> Int]
    BY <1>2
  <2> QED BY <1>1, <2>1, <2>2, TotalLinear
<1>4. Total(h) = Total(u) + k * Total(p)
  <2>1. \A a \in Account : h[a] = u[a] + k * p[a]
    BY <1>2
  <2>2. u \in [Account -> Int]
    BY <1>2
  <2> QED BY <1>1, <2>1, <2>2, TotalLinear
<1>5. Total(m) \in Int /\ Total(p) \in Int /\ Total(h) \in Int
  BY <1>1, TotalType
<1>6. BASE * Total(m) \in Int /\ k * Total(p) \in Int
  BY <1>1, <1>5
<1> QED
  BY <1>2, <1>3, <1>4, <1>5, <1>6

\* At the end of trade() the value of all accounts is what it was: margins have only
\* moved between them, and positions cancel out before and after.
LEMMA TradeEndKeepsValue ==
  ASSUME IInv, CallRemembers, MarginsKept, TradeEnd, MarketUnchanged
  PROVE  TotalValue' = TotalValue
<1> DEFINE f == [account \in Account |-> CommittedValue(account)]
           g == [account \in Account |-> CommittedValue(account)']
           old == call.saved.balances
           oldIdx == call.saved.localIndexes
           k == MarketPrice
<1>1. /\ status = Entered /\ CallTypeOK /\ noFinalSettlement /\ TypeOK
      /\ globalIndex \in Index
      /\ Total(Positions(balances)) = 0 /\ Total(Positions(old)) = 0
  BY DEF IInv, BooksBalance, TypeOK, TradeEnd, noFinalSettlement, StoredIndex
<1>2. /\ old \in [Account -> Balance] /\ oldIdx \in [Account -> Index]
      /\ balances \in [Account -> Balance] /\ localIndexes \in [Account -> Index]
  BY <1>1, StoredLedger DEF CallTypeOK, StoredBalances, StoredBalance, StoredIndexes, StoredIndex
<1>3. k \in Nat /\ MarketPrice' = k
  <2>1. ContextPrice \in Nat /\ MarketPrice = ContextPrice
    BY <1>1, TradeEndMarket, ContextTypes
  <2> QED BY <2>1 DEF MarketUnchanged
<1>4. ASSUME NEW bals \in [Account -> Balance], NEW idxs \in [Account -> Index],
             NEW a \in Account
      PROVE  LET b == SettledBalance(bals[a], idxs[a], globalIndex)
             IN  /\ NetValue(b, k) = BASE * SettledMargins(bals, idxs)[a] + k * Positions(bals)[a]
                 /\ NetValue(b, k) \in Int
  <2> DEFINE b == SettledBalance(bals[a], idxs[a], globalIndex)
  <2>1. b \in Balance /\ Position(b) = Position(bals[a])
    BY <1>1, SettlementType DEF Position
  <2>2. SettledMargins(bals, idxs)[a] = Margin(b) /\ Positions(bals)[a] = Position(bals[a])
    BY DEF SettledMargins, Positions
  <2> HIDE DEF b, k
  <2>3. NetValue(b, k) = BASE * Margin(b) + k * Position(b) /\ NetValue(b, k) \in Int
    BY <1>3, <2>1, NetValueSplit
  <2> QED BY <2>1, <2>2, <2>3 DEF b
<1>5. \A a \in Account :
         /\ f[a] = NetValue(SettledBalance(old[a], oldIdx[a], globalIndex), k)
         /\ g[a] = NetValue(SettledBalance(balances[a], localIndexes[a], globalIndex), k)
  <2>1. \A a \in Account :
           /\ CommittedBalance(a) = SettledBalance(old[a], oldIdx[a], globalIndex)
           /\ CommittedBalance(a)' = SettledBalance(balances[a], localIndexes[a], globalIndex)
    BY TradeEndMarket DEF Settled
  <2>2. \A a \in Account :
           /\ CommittedValue(a) = NetValue(CommittedBalance(a), k)
           /\ CommittedValue(a)' = NetValue(CommittedBalance(a)', k)
    BY <1>3 DEF CommittedValue, NetValue, PositiveValue, NegativeValue
  <2> QED BY <2>1, <2>2
<1>6. /\ f \in [Account -> Int] /\ g \in [Account -> Int]
      /\ \A a \in Account :
            /\ f[a] = BASE * SettledMargins(old, oldIdx)[a] + k * Positions(old)[a]
            /\ g[a] = BASE * SettledMargins(balances, localIndexes)[a] + k * Positions(balances)[a]
  <2> HIDE DEF k, old, oldIdx
  <2>1. \A a \in Account :
            /\ f[a] = BASE * SettledMargins(old, oldIdx)[a] + k * Positions(old)[a]
            /\ g[a] = BASE * SettledMargins(balances, localIndexes)[a] + k * Positions(balances)[a]
            /\ f[a] \in Int /\ g[a] \in Int
    BY <1>2, <1>4, <1>5
  <2> QED BY <2>1
<1> HIDE DEF f, g, k, old, oldIdx
<1>7. Total(f) = BASE * Total(SettledMargins(old, oldIdx)) + k * Total(Positions(old))
  <2> DEFINE m == SettledMargins(old, oldIdx)
             p == Positions(old)
  <2>1. m \in [Account -> Int] /\ p \in [Account -> Int] /\ k \in Int
    <3>1. m \in [Account -> Int]
      BY <1>1, <1>2, MarginTypes
    <3>2. p \in [Account -> Int]
      BY <1>2, LedgerTypes
    <3> HIDE DEF m, p
    <3> QED BY <1>3, <3>1, <3>2
  <2>2. f \in [Account -> Int] /\ \A a \in Account : f[a] = BASE * m[a] + k * p[a]
    BY <1>6
  <2> HIDE DEF m, p
  <2>3. Total(f) = BASE * Total(m) + k * Total(p)
    BY <2>1, <2>2, TotalOfParts
  <2> QED BY <2>3 DEF m, p
<1>8. Total(g) = BASE * Total(SettledMargins(balances, localIndexes))
                   + k * Total(Positions(balances))
  <2> DEFINE m == SettledMargins(balances, localIndexes)
             p == Positions(balances)
  <2>1. m \in [Account -> Int] /\ p \in [Account -> Int] /\ k \in Int
    <3>1. m \in [Account -> Int]
      BY <1>1, <1>2, MarginTypes
    <3>2. p \in [Account -> Int]
      BY <1>2, LedgerTypes
    <3> HIDE DEF m, p
    <3> QED BY <1>3, <3>1, <3>2
  <2>2. g \in [Account -> Int] /\ \A a \in Account : g[a] = BASE * m[a] + k * p[a]
    BY <1>6
  <2> HIDE DEF m, p
  <2>3. Total(g) = BASE * Total(m) + k * Total(p)
    BY <2>1, <2>2, TotalOfParts
  <2> QED BY <2>3 DEF m, p
<1>9. Total(SettledMargins(balances, localIndexes)) = Total(SettledMargins(old, oldIdx))
  BY <1>1 DEF MarginsKept, old, oldIdx
<1>10. Total(f) = Total(g)
  BY <1>1, <1>7, <1>8, <1>9
<1> QED
  BY <1>10 DEF TotalValue, f, g

\* When one account gains at most d, so do all accounts together.
LEMMA OneGains ==
  ASSUME NEW f \in [Account -> Int], NEW g \in [Account -> Int], NEW a \in Account,
         NEW d \in Int, g[a] <= f[a] + d, \A x \in Account \ {a} : g[x] = f[x]
  PROVE  Total(g) <= Total(f) + d
<1>1. g = [f EXCEPT ![a] = g[a]]
  OBVIOUS
<1>2. g[a] \in Int /\ f[a] \in Int /\ Total(f) \in Int
  BY AccountAssumption, TotalType
<1>3. Total([f EXCEPT ![a] = g[a]]) = Total(f) - f[a] + g[a]
  BY <1>2, AccountAssumption, TotalUpdate
<1>4. Total(g) = Total(f) - f[a] + g[a]
  BY <1>1, <1>3
<1> QED
  BY <1>2, <1>4

\* Committed balances and the market have their types in every state.
LEMMA AlwaysCommittedTypes ==
  TypeOK => \A account \in Account : CommittedBalance(account) \in Balance
BY CommittedTypes

\* No step adds more value than tokens came in.
LEMMA StepGains ==
  ASSUME IInv, CallRemembers, MarginsKept, [Next]_vars, MarketUnchanged,
         \A account \in Account : CommittedBalance(account)' \in Balance
  PROVE  TotalValue' - TotalValue <= BASE * (tokens' - tokens)
<1> DEFINE f == [account \in Account |-> CommittedValue(account)]
           g == [account \in Account |-> CommittedValue(account)']
<1>0. TypeOK /\ BASE \in Nat /\ tokens \in Nat /\ Amount \subseteq Nat
  BY BaseAssumption, AmountAssumption DEF IInv, TypeOK
<1>1. MarketPrice' = MarketPrice
  BY DEF MarketUnchanged
<1>2. ASSUME NEW a \in Account
      PROVE  /\ MarketPrice \in Nat
             /\ f[a] = NetValue(CommittedBalance(a), MarketPrice)
             /\ g[a] = NetValue(CommittedBalance(a)', MarketPrice)
             /\ CommittedBalance(a) \in Balance /\ CommittedBalance(a)' \in Balance
             /\ f[a] \in Int /\ g[a] \in Int
  <2>1. /\ f[a] = NetValue(CommittedBalance(a), MarketPrice)
        /\ g[a] = NetValue(CommittedBalance(a)', MarketPrice)
    BY <1>1 DEF CommittedValue, NetValue, PositiveValue, NegativeValue
  <2>2. /\ MarketPrice \in Nat
        /\ CommittedBalance(a) \in Balance /\ CommittedBalance(a)' \in Balance
    BY <1>0, CommittedTypes
  <2> QED BY <2>1, <2>2, NetValueSplit
<1>3. f \in [Account -> Int] /\ g \in [Account -> Int]
  BY <1>2
<1>4. /\ TotalValue = Total(f) /\ TotalValue' = Total(g)
      /\ Total(f) \in Int /\ Total(g) \in Int
  <2>1. TotalValue = Total(f) /\ TotalValue' = Total(g)
    BY DEF TotalValue
  <2> HIDE DEF f, g
  <2> QED BY <1>3, <2>1, AccountAssumption, TotalType
<1>5. ASSUME NEW a \in Account, NEW d \in Int, g[a] <= f[a] + d, tokens' \in Int,
             d <= BASE * (tokens' - tokens),
             \A x \in Account \ {a} : CommittedBalance(x)' = CommittedBalance(x)
      PROVE  TotalValue' - TotalValue <= BASE * (tokens' - tokens)
  <2>1. \A x \in Account \ {a} : g[x] = f[x]
    BY <1>2, <1>5
  <2> HIDE DEF f, g
  <2>2. Total(g) <= Total(f) + d
    BY <1>3, <1>5, <2>1, OneGains
  <2>3. BASE * (tokens' - tokens) \in Int
    BY <1>0, <1>5
  <2> QED BY <1>4, <1>5, <2>2, <2>3
<1>6. ASSUME \A x \in Account : CommittedBalance(x)' = CommittedBalance(x),
             tokens <= tokens', tokens' \in Nat
      PROVE  TotalValue' - TotalValue <= BASE * (tokens' - tokens)
  <2>1. f = g
    BY <1>2, <1>6
  <2> HIDE DEF f, g
  <2>2. tokens' - tokens \in Nat
    <3>1. \A m, n \in Nat : m <= n => n - m \in Nat
      OBVIOUS
    <3> QED BY <1>0, <1>6, <3>1
  <2>3. BASE * (tokens' - tokens) \in Nat
    BY <1>0, <2>2, ProductNat
  <2> QED BY <1>4, <2>1, <2>3
<1>7. CASE \E a \in Account, amount \in Amount : Deposit(a, amount)
  <2>1. PICK a \in Account, amount \in Amount : Deposit(a, amount)
    BY <1>7
  <2>2. /\ CommittedBalance(a)' = AddToMargin(CommittedBalance(a), amount)
        /\ \A x \in Account \ {a} : CommittedBalance(x)' = CommittedBalance(x)
    BY <1>0, <2>1, DepositCommits
  <2>3. amount \in Nat /\ tokens' = tokens + amount
    BY <1>0, <2>1 DEF Deposit
  <2>4. g[a] = f[a] + BASE * amount
    <3> DEFINE b == CommittedBalance(a)
               c == CommittedBalance(a)'
    <3>1. /\ Margin(c) = Margin(b) + amount /\ Position(c) = Position(b)
          /\ Margin(b) \in Int /\ Position(b) \in Int
      BY <1>2, <2>2, <2>3, MarginUpdates, BalanceInt
    <3>2. /\ f[a] = BASE * Margin(b) + MarketPrice * Position(b)
          /\ g[a] = BASE * Margin(c) + MarketPrice * Position(c)
          /\ BASE * Margin(b) \in Int /\ MarketPrice * Position(b) \in Int
      BY <1>2, NetValueSplit
    <3> HIDE DEF f, g, b, c
    <3>3. /\ BASE * (Margin(b) + amount) = BASE * Margin(b) + BASE * amount
          /\ BASE * amount \in Int
      BY <1>0, <2>3, <3>1
    <3> QED BY <3>1, <3>2, <3>3
  <2>5. /\ tokens' \in Int /\ BASE * amount \in Int
        /\ BASE * (tokens' - tokens) = BASE * amount
    BY <1>0, <2>3
  <2>6. g[a] <= f[a] + BASE * amount
    BY <1>2, <2>4, <2>5
  <2> HIDE DEF f, g
  <2> QED BY <1>5, <2>2, <2>5, <2>6
<1>8. CASE \E a \in Account, amount \in Amount, sender \in Account \union Operator,
              destination \in {"outside", "perpetual"} :
                 Withdraw(sender, a, destination, amount)
  <2>1. PICK a \in Account, amount \in Amount, sender \in Account \union Operator,
             destination \in {"outside", "perpetual"} :
                Withdraw(sender, a, destination, amount)
    BY <1>8
  <2>2. /\ CommittedBalance(a)' = SubFromMargin(CommittedBalance(a), amount)
        /\ \A x \in Account \ {a} : CommittedBalance(x)' = CommittedBalance(x)
    BY <1>0, <2>1, WithdrawCommits
  <2>3. amount \in Nat /\ (tokens' = tokens \/ tokens' = tokens - amount)
    BY <1>0, <2>1 DEF Withdraw
  <2>4. g[a] = f[a] - BASE * amount
    <3> DEFINE b == CommittedBalance(a)
               c == CommittedBalance(a)'
    <3>1. /\ Margin(c) = Margin(b) - amount /\ Position(c) = Position(b)
          /\ Margin(b) \in Int /\ Position(b) \in Int
      BY <1>2, <2>2, <2>3, MarginUpdates, BalanceInt
    <3>2. /\ f[a] = BASE * Margin(b) + MarketPrice * Position(b)
          /\ g[a] = BASE * Margin(c) + MarketPrice * Position(c)
          /\ BASE * Margin(b) \in Int /\ MarketPrice * Position(b) \in Int
      BY <1>2, NetValueSplit
    <3> HIDE DEF f, g, b, c
    <3>3. /\ BASE * (Margin(b) - amount) = BASE * Margin(b) - BASE * amount
          /\ BASE * amount \in Int
      BY <1>0, <2>3, <3>1
    <3> QED BY <3>1, <3>2, <3>3
  <2>5. BASE * amount \in Nat /\ -(BASE * amount) \in Int
    BY <1>0, <2>3, ProductNat
  <2>6. tokens' \in Int /\ -(BASE * amount) <= BASE * (tokens' - tokens)
    <3>1. CASE tokens' = tokens
      <4>1. BASE * (tokens' - tokens) = 0
        BY <1>0, <3>1
      <4> QED BY <1>0, <2>5, <3>1, <4>1
    <3>2. CASE tokens' = tokens - amount
      <4>1. BASE * (tokens' - tokens) = -(BASE * amount)
        BY <1>0, <2>3, <3>2
      <4> QED BY <1>0, <2>3, <2>5, <3>2, <4>1
    <3> QED BY <2>3, <3>1, <3>2
  <2>7. g[a] <= f[a] + (-(BASE * amount))
    BY <1>2, <2>4, <2>5
  <2> HIDE DEF f, g
  <2> QED BY <1>5, <2>2, <2>5, <2>6, <2>7
<1>9. CASE \E sender \in Account : WithdrawFinalSettlement(sender)
  <2>1. PICK a \in Account : WithdrawFinalSettlement(a)
    BY <1>9
  <2> DEFINE rest == RemainingBalance(a)
             paid == AmountToWithdraw(a)
  <2>2. /\ \A x \in Account \ {a} : CommittedBalance(x)' = CommittedBalance(x)
        /\ CommittedBalance(a) = Settled(a, globalIndex)
        /\ MarketPrice = finalSettlementPrice
        /\ \/ CommittedBalance(a)' = CommittedBalance(a) /\ tokens' = tokens
           \/ /\ PositiveValue(Settled(a, globalIndex), finalSettlementPrice)
                   >= NegativeValue(Settled(a, globalIndex), finalSettlementPrice)
              /\ CommittedBalance(a)' = rest /\ tokens' = tokens - paid
    BY <1>0, <2>1, FinalWithdrawalCommits
  <2>3. CASE CommittedBalance(a)' = CommittedBalance(a) /\ tokens' = tokens
    BY <1>0, <1>6, <2>2, <2>3
  <2>4. CASE /\ PositiveValue(Settled(a, globalIndex), finalSettlementPrice)
                  >= NegativeValue(Settled(a, globalIndex), finalSettlementPrice)
             /\ CommittedBalance(a)' = rest /\ tokens' = tokens - paid
    <3>1. /\ paid \in 0..tokens /\ rest \in Balance /\ Position(rest) = 0
          /\ Margin(rest) \in Nat
          /\ BASE * (Margin(rest) + paid) <= f[a]
      BY <1>0, <1>2, <2>2, <2>4, FinalPayment
    <3>2. g[a] = BASE * Margin(rest) + MarketPrice * Position(rest)
      BY <1>2, <2>4, <3>1, NetValueSplit
    <3>3. f[a] \in Int /\ g[a] \in Int /\ MarketPrice \in Nat
      BY <1>2
    <3> DEFINE m == Margin(rest)
    <3>4. /\ m \in Nat /\ paid \in Nat /\ tokens' = tokens - paid
          /\ BASE * (m + paid) <= f[a] /\ g[a] = BASE * m + MarketPrice * 0
      BY <1>0, <2>4, <3>1, <3>2
    <3> HIDE DEF f, g, m, rest, paid
    <3>5. /\ BASE * (m + paid) = BASE * m + BASE * paid /\ g[a] = BASE * m
          /\ BASE * m \in Int /\ BASE * paid \in Int
      BY <1>0, <3>3, <3>4
    <3>6. g[a] <= f[a] + (-(BASE * paid)) /\ -(BASE * paid) \in Int
      BY <3>3, <3>4, <3>5
    <3>7. tokens' \in Int /\ -(BASE * paid) <= BASE * (tokens' - tokens)
      <4>1. BASE * (tokens' - tokens) = -(BASE * paid)
        BY <1>0, <3>4
      <4> QED BY <1>0, <3>4, <3>6, <4>1
    <3> QED BY <1>5, <2>2, <3>6, <3>7
  <2> QED BY <2>2, <2>3, <2>4
<1>10. CASE TradeEnd
  <2>1. TotalValue' = TotalValue /\ tokens' = tokens
    BY <1>10, TradeEndKeepsValue DEF TradeEnd
  <2>2. BASE * (tokens' - tokens) = 0
    BY <1>0, <2>1
  <2> HIDE DEF f, g
  <2> QED BY <1>4, <2>1, <2>2
<1> HIDE DEF f, g
<1> QED
  BY <1>0, <1>6, <1>7, <1>8, <1>9, <1>10, StepKinds

\* Settling, trading, final settlement and reverting create no value: what all accounts
\* gain by a step is covered by tokens that came in, and what is paid out was theirs.
THEOREM NoValueFromNowhere == Spec => NoValueCreated
<1>1. Init => MarginsKept
  BY DEF Init, MarginsKept, NotEntered, Entered
<1>2. IInv /\ MarginsKept /\ [Next]_vars => MarginsKept'
  BY StepKeepsMargins
<1>3. Spec => [](IInv /\ CallRemembers /\ MarginsKept)
  BY <1>1, <1>2, AlwaysRemembers, PTL DEF Spec
<1>4. IInv => TypeOK
  BY DEF IInv
<1>5. IInv' => (\A account \in Account : CommittedBalance(account) \in Balance)'
  BY <1>4, AlwaysCommittedTypes, PTL
<1>6. IInv /\ IInv' /\ CallRemembers /\ MarginsKept /\ [Next]_vars =>
         [MarketUnchanged => TotalValue' - TotalValue <= BASE * (tokens' - tokens)]_vars
  BY <1>5, StepGains
<1> QED
  BY <1>3, <1>6, PTL DEF Spec, NoValueCreated
-----------------------------------------------------------------------------
(* The ledger that PerpetualV1 implements                                   *)

\* The ledger counts as the contract's invariants do.
LEMMA BooksTotal ==
  ASSUME NEW f
  PROVE  Books!Total(f) = Total(f)
<1>1. Books!Total(f) = Books!PositiveTotal(f) - Books!NegativeTotal(f)
  BY DEF Books!Total
<1>2. \A g : Books!PositiveTotal(g) = PositiveTotal(g)
  BY DEF Books!PositiveTotal, PositiveTotal, Books!Units, Units,
         Books!Cardinality, Cardinality
<1>3. Books!NegativeTotal(f) = NegativeTotal(f)
  BY <1>2 DEF Books!NegativeTotal, Books!Negated, NegativeTotal, Negated
<1> QED
  BY <1>1, <1>2, <1>3 DEF Total

\* The most that rounding can cost the accounts of one call.
RoundingOf(accounts) == [account \in Account |-> IF account \in accounts THEN BASE - 1 ELSE 0]
MostLost(accounts) == Total(RoundingOf(accounts))

LEMMA RoundingTypes ==
  ASSUME NEW accounts
  PROVE  /\ RoundingOf(accounts) \in [Account -> Int]
         /\ MostLost(accounts) \in Int
         /\ Books!MostLost(accounts) = MostLost(accounts)
<1>1. RoundingOf(accounts) \in [Account -> Int]
  BY BaseAssumption DEF RoundingOf
<1>2. MostLost(accounts) \in Int
  BY <1>1, AccountAssumption, TotalType DEF MostLost
<1>3. Books!MostLost(accounts) = MostLost(accounts)
  BY BooksTotal DEF Books!MostLost, MostLost, RoundingOf
<1> QED
  BY <1>1, <1>2, <1>3

\* When each account of a call loses less than a unit, together they lose no more.
LEMMA LossesAddUp ==
  ASSUME NEW f \in [Account -> Int], NEW g \in [Account -> Int], NEW accounts,
         \A a \in Account : IF a \in accounts THEN f[a] - g[a] \in 0..(BASE - 1)
                                              ELSE g[a] = f[a]
  PROVE  Total(f) - Total(g) \in 0..MostLost(accounts)
<1> DEFINE loss == [a \in Account |-> f[a] - g[a]]
           most == RoundingOf(accounts)
           minus == -1
<1>1. /\ \A a \in Account : f[a] \in Int /\ g[a] \in Int /\ BASE - 1 \in Nat
      /\ loss \in [Account -> Int] /\ most \in [Account -> Int]
  BY BaseAssumption, RoundingTypes
<1>2. \A a \in Account : g[a] <= f[a] /\ loss[a] <= most[a]
  BY <1>1 DEF RoundingOf
<1>3. minus \in Int /\ \A a \in Account : loss[a] = f[a] + minus * g[a]
  BY <1>1
<1> HIDE DEF loss, most, minus
<1>4. Total(g) <= Total(f)
  BY <1>2, AccountAssumption, TotalMonotone
<1>5. Total(loss) = Total(f) + minus * Total(g)
  <2>1. /\ IsFiniteSet(Account) /\ loss \in [Account -> Int] /\ minus \in Int
        /\ \A x \in Account : loss[x] = f[x] + minus * g[x]
    BY <1>1, <1>3, AccountAssumption
  <2> QED BY <2>1, TotalLinear
<1>6. Total(loss) <= Total(most)
  BY <1>1, <1>2, AccountAssumption, TotalMonotone
<1>7. Total(f) \in Int /\ Total(g) \in Int /\ Total(most) \in Int
  BY <1>1, AccountAssumption, TotalType
<1>8. MostLost(accounts) = Total(most)
  BY DEF MostLost, most
<1> QED
  BY <1>4, <1>5, <1>6, <1>7, <1>8 DEF minus

\* Settling an account costs it less than a unit of its claim.
LEMMA SettleLoss ==
  ASSUME TypeOK, NEW index \in Index, InSync(localIndexes, index), NEW account \in Account
  PROVE  /\ Claim(balances[account], localIndexes[account])
              - Claim(Settled(account, index), index) \in 0..(BASE - 1)
         /\ Claim(balances[account], localIndexes[account]) \in Int
         /\ Claim(Settled(account, index), index) \in Int
         /\ Position(Settled(account, index)) = Position(balances[account])
<1>1. /\ balances[account] \in Balance /\ localIndexes[account] \in Index
      /\ localIndexes[account].timestamp = index.timestamp => localIndexes[account] = index
      /\ Settled(account, index) \in Balance
      /\ Position(Settled(account, index)) = Position(balances[account])
  BY SettledTypes DEF InSync, Position
<1>2. /\ Claim(Settled(account, index), index) <= Claim(balances[account], localIndexes[account])
      /\ Claim(balances[account], localIndexes[account])
           < Claim(Settled(account, index), index) + BASE
  BY <1>1, SettlementBounds DEF Settled
<1>3. /\ Claim(balances[account], localIndexes[account]) \in Int
      /\ Claim(Settled(account, index), index) \in Int
  BY <1>1, ClaimInt
<1> QED
  BY <1>1, <1>2, <1>3, BaseAssumption
\* While trade() is executed, what the accounts have lost together since it began
\* is the rounding of the accounts it settled.
LossBounded ==
    status = Entered =>
        Total(Claims(call.saved.balances, call.saved.localIndexes))
          - Total(Claims(balances, localIndexes)) \in 0..MostLost(Elements(call.accounts))

\* Settling the accounts of a call loses no more than that.
LEMMA TradeBeginLoss ==
  ASSUME TypeOK, IndexesInSync, NEW accounts \in AccountList, TradeBegin(accounts)
  PROVE  Total(Claims(balances, localIndexes)) - Total(Claims(balances', localIndexes'))
           \in 0..MostLost(Elements(accounts))
<1> DEFINE f == Claims(balances, localIndexes)
           g == Claims(balances', localIndexes')
           parties == Elements(accounts)
<1>1. /\ localIndexes' = [a \in Account |->
             IF a \in parties THEN ContextIndex ELSE localIndexes[a]]
      /\ balances' = [a \in Account |->
             IF a \in parties THEN Settled(a, ContextIndex) ELSE balances[a]]
  BY DEF TradeBegin, LoadContextAndSettle
<1>2. ContextIndex \in Index /\ InSync(localIndexes, ContextIndex)
  BY ContextTypes, SettleOne
<1>3. /\ balances' \in [Account -> Balance] /\ localIndexes' \in [Account -> Index]
      /\ f \in [Account -> Int] /\ g \in [Account -> Int]
  <2>1. balances' \in [Account -> Balance] /\ localIndexes' \in [Account -> Index]
    BY <1>1, <1>2, StoredLedger, SettledTypes
  <2> QED BY <2>1, StoredLedger, LedgerTypes
<1>4. \A a \in Account : IF a \in parties THEN f[a] - g[a] \in 0..(BASE - 1)
                                          ELSE g[a] = f[a]
  <2> TAKE a \in Account
  <2>1. CASE a \in parties
    <3>1. /\ f[a] = Claim(balances[a], localIndexes[a])
          /\ g[a] = Claim(Settled(a, ContextIndex), ContextIndex)
      BY <1>1, <2>1 DEF Claims
    <3>2. f[a] - g[a] \in 0..(BASE - 1)
      BY <1>2, <3>1, SettleLoss
    <3> QED BY <2>1, <3>2
  <2>2. CASE a \notin parties
    <3>1. g[a] = f[a]
      BY <1>1, <2>2 DEF Claims
    <3> QED BY <2>2, <3>1
  <2> QED BY <2>1, <2>2
<1> HIDE DEF f, g, parties
<1>5. Total(f) - Total(g) \in 0..MostLost(parties)
  BY <1>3, <1>4, LossesAddUp
<1> QED
  BY <1>5 DEF f, g, parties

\* Every step keeps the bound.
LEMMA StepBoundsLoss ==
  ASSUME IInv, LossBounded, [Next]_vars
  PROVE  LossBounded'
<1>0. TypeOK /\ MemoryMatchesStorage /\ IndexesInSync
  BY DEF IInv, BooksBalance, IndexesInSync
<1>1. ASSUME status' = NotEntered
      PROVE  LossBounded'
  BY <1>1 DEF LossBounded, NotEntered, Entered
<1>2. ASSUME UNCHANGED <<ledger, status, call>>
      PROVE  LossBounded'
  BY <1>2 DEF LossBounded, ledger
<1>3. ASSUME NEW accounts \in AccountList, TradeBegin(accounts)
      PROVE  LossBounded'
  <2>1. /\ call'.saved.balances = balances /\ call'.saved.localIndexes = localIndexes
        /\ call'.accounts = accounts
    BY <1>3 DEF TradeBegin, Saved
  <2> QED BY <1>0, <1>3, <2>1, TradeBeginLoss DEF LossBounded
<1>4. ASSUME NEW trader, NEW maker \in DOMAIN call.accounts,
             NEW taker \in DOMAIN call.accounts, NEW m \in Amount, NEW p \in Amount,
             NEW isBuy \in BOOLEAN, TradeStep(trader, maker, taker, m, p, isBuy)
      PROVE  LossBounded'
  <2>1. /\ status = Entered /\ localIndexes' = localIndexes
        /\ call'.saved = call.saved /\ call'.accounts = call.accounts
    BY <1>4 DEF TradeStep, AfterTrade
  <2>2. Total(Claims(balances', localIndexes)) = Total(Claims(balances, localIndexes))
    <3>1. CASE call.accounts[maker] = call.accounts[taker]
      BY <1>4, <3>1 DEF TradeStep
    <3>2. CASE call.accounts[maker] # call.accounts[taker]
      BY <1>0, <1>4, <3>2, TradeStepTotals
    <3> QED BY <3>1, <3>2
  <2> QED BY <2>1, <2>2 DEF LossBounded
<1>5. CASE MarginStep
  BY <1>1, <1>5 DEF MarginStep, Deposit, Withdraw, nonReentrant
<1>6. CASE TradeCallStep
  BY <1>1, <1>3, <1>4, <1>6 DEF TradeCallStep, TradeEnd, TradeRevert
<1>7. CASE FinalSettlementStep
  BY <1>1, <1>7 DEF FinalSettlementStep, WithdrawFinalSettlement, nonReentrant
<1>8. CASE AdminStep
  BY <1>1, <1>8 DEF AdminStep, SetGlobalOperator, SetOracle, SetFunder, SetMinCollateral,
                    EnableFinalSettlement, nonReentrant
<1>9. CASE OperatorStep
  BY <1>2, <1>9 DEF OperatorStep, SetLocalOperator
<1>10. CASE WorldStep
  BY <1>1, <1>10 DEF WorldStep, Tick, ChangePrice, ChangeRate, Donate, nonReentrant
<1>11. CASE UNCHANGED vars
  BY <1>2, <1>11 DEF vars
<1> QED
  BY <1>5, <1>6, <1>7, <1>8, <1>9, <1>10, <1>11 DEF Next
\* Between transactions the ledger shows what is stored.
LEMMA IdleBooks ==
  /\ status = NotEntered => CommittedBalances = balances /\ CommittedIndexes = localIndexes
  /\ status' = NotEntered => CommittedBalances' = balances' /\ CommittedIndexes' = localIndexes'
BY DEF CommittedBalances, CommittedIndexes, NotEntered, Entered

\* A transaction that changes the margin of one account by d, after settling it,
\* changes nothing else in the ledger; what it loses is the rounding, less d.
LEMMA MarginLedger ==
  ASSUME TypeOK, IndexesInSync, noFinalSettlement, status = NotEntered,
         UNCHANGED <<status, final>>,
         NEW account \in Account, NEW d \in Int, NEW b \in Balance,
         GetPosition(b) = GetPosition(Settled(account, ContextIndex)),
         Margin(b) = Margin(Settled(account, ContextIndex)) + d,
         LoadContextAndSettle({account}, [a \in {account} |-> b])
  PROVE  /\ Books!OnlyChanges({account})
         /\ Positions(CommittedBalances') = Positions(CommittedBalances)
         /\ ClosingSpread = 0 /\ ClosingSpread' = 0
         /\ \E r \in 0..(BASE - 1) :
               Books!Loss(account) = (r - BASE * d) - BASE * (tokens - tokens')
<1> DEFINE s == Settled(account, ContextIndex)
           X == ToInt(SignedIndex(ContextIndex))
           before == Claim(balances[account], localIndexes[account])
           settled == Claim(s, ContextIndex)
           after == Claim(b, ContextIndex)
           r == before - settled
<1>1. /\ CommittedBalances = balances /\ CommittedIndexes = localIndexes
      /\ CommittedBalances' = balances' /\ CommittedIndexes' = localIndexes'
  BY IdleBooks
<1>2. /\ balances'[account] = b /\ localIndexes'[account] = ContextIndex
      /\ \A a \in Account \ {account} :
            balances'[a] = balances[a] /\ localIndexes'[a] = localIndexes[a]
  BY DEF LoadContextAndSettle
<1>3. Books!OnlyChanges({account})
  BY <1>1, <1>2 DEF Books!OnlyChanges, Claims, Positions
<1>4. /\ ContextIndex \in Index /\ InSync(localIndexes, ContextIndex)
      /\ s \in Balance /\ X \in Int /\ BASE \in Int
      /\ Margin(b) \in Int /\ Position(b) \in Int /\ Margin(s) \in Int /\ Position(s) \in Int
  BY ContextTypes, SettleOne, SettledTypes, SignedIndexType, BaseAssumption, BalanceInt
<1>5. Position(b) = Position(s) /\ Position(s) = Position(balances[account])
  BY <1>4, SettleLoss DEF Position
<1>6. Positions(balances') = Positions(balances)
  BY <1>2, <1>5 DEF Positions
<1>7. ClosingSpread = 0 /\ ClosingSpread' = 0
  BY DEF ClosingSpread, noFinalSettlement, final
<1>8. r \in 0..(BASE - 1) /\ before \in Int /\ settled \in Int /\ after \in Int
  BY <1>4, SettleLoss, ClaimInt
<1>9. after = settled + BASE * d
  <2>1. after = BASE * Margin(b) + X * Position(b) /\ settled = BASE * Margin(s) + X * Position(s)
    BY DEF Claim
  <2>2. Margin(b) = Margin(s) + d
    OBVIOUS
  <2> HIDE DEF after, settled, s, X
  <2>3. BASE * (Margin(s) + d) = BASE * Margin(s) + BASE * d
    BY <1>4
  <2>4. BASE * Margin(s) \in Int /\ BASE * d \in Int /\ X * Position(s) \in Int
    BY <1>4
  <2> QED BY <1>5, <2>1, <2>2, <2>3, <2>4
<1>10. Books!Loss(account) = (before - after) - BASE * (tokens - tokens')
  <2>1. /\ Claims(CommittedBalances, CommittedIndexes)[account] = before
        /\ Claims(CommittedBalances', CommittedIndexes')[account] = after
        /\ Positions(CommittedBalances)[account] = Position(s)
        /\ Positions(CommittedBalances')[account] = Position(s)
    BY <1>1, <1>2, <1>5 DEF Claims, Positions
  <2> HIDE DEF before, after, s
  <2>2. Books!Owed(account) = before + 0 * Position(s)
    BY <1>7, <2>1 DEF Books!Owed
  <2>3. Books!Owed(account)' = after + 0 * Position(s)
    BY <1>7, <2>1 DEF Books!Owed
  <2>4. 0 * Position(s) = 0
    BY <1>4
  <2> QED BY <1>8, <2>2, <2>3, <2>4 DEF Books!Loss
<1>11. before - after = r - BASE * d
  <2> HIDE DEF before, after, settled
  <2>1. BASE * d \in Int
    BY <1>4
  <2> QED BY <1>8, <1>9, <2>1
<1> QED
  <2> HIDE DEF r, before, after
  <2> QED BY <1>1, <1>3, <1>6, <1>7, <1>8, <1>10, <1>11

\* deposit() credits what comes in.
LEMMA DepositLedger ==
  ASSUME TypeOK, IndexesInSync, NEW account \in Account, NEW amount \in Nat,
         Deposit(account, amount)
  PROVE  Books!Deposit(account)
<1> DEFINE s == Settled(account, ContextIndex)
           b == AddToMargin(s, amount)
<1>1. /\ noFinalSettlement /\ status = NotEntered /\ UNCHANGED <<status, final>>
      /\ LoadContextAndSettle({account}, [a \in {account} |-> b])
      /\ tokens' = tokens + amount
  BY DEF Deposit, nonReentrant
<1>2. /\ s \in Balance /\ b \in Balance /\ tokens \in Int /\ BASE \in Int
      /\ GetPosition(b) = GetPosition(s) /\ Margin(b) = Margin(s) + amount /\ amount \in Int
  BY ContextTypes, SettledTypes, MarginUpdates, AmountAssumption, BaseAssumption DEF TypeOK
<1> HIDE DEF b
<1>3. /\ Books!OnlyChanges({account})
      /\ Positions(CommittedBalances') = Positions(CommittedBalances)
      /\ ClosingSpread = 0 /\ ClosingSpread' = 0
      /\ \E r \in 0..(BASE - 1) :
            Books!Loss(account) = (r - BASE * amount) - BASE * (tokens - tokens')
  BY <1>1, <1>2, MarginLedger
<1> HIDE DEF s
<1>4. Books!Loss(account) \in Books!Rounding
  <2>1. PICK r \in 0..(BASE - 1) :
           Books!Loss(account) = (r - BASE * amount) - BASE * (tokens - tokens')
    BY <1>3
  <2>2. tokens - tokens' = -amount
    BY <1>1, <1>2
  <2>3. BASE * (-amount) = -(BASE * amount) /\ BASE * amount \in Int
    BY <1>2
  <2>4. Books!Loss(account) = r
    BY <2>1, <2>2, <2>3
  <2> QED BY <2>4 DEF Books!Rounding
<1>5. ~finalSettlementEnabled /\ finalSettlementEnabled' = finalSettlementEnabled /\ tokens' >= tokens
  BY <1>1, <1>2 DEF noFinalSettlement, final
<1> QED
  BY <1>3, <1>4, <1>5 DEF Books!Deposit

\* withdraw() debits what goes out, or what the account leaves to the contract.
LEMMA WithdrawLedger ==
  ASSUME TypeOK, IndexesInSync, NEW sender, NEW account \in Account, NEW destination,
         NEW amount \in Nat, Withdraw(sender, account, destination, amount)
  PROVE  Books!Withdraw(account)
<1> DEFINE s == Settled(account, ContextIndex)
           b == SubFromMargin(s, amount)
           minus == -amount
<1>1. /\ noFinalSettlement /\ status = NotEntered /\ UNCHANGED <<status, final>>
      /\ LoadContextAndSettle({account}, [a \in {account} |-> b])
      /\ tokens' = tokens \/ tokens' = tokens - amount
      /\ amount <= tokens
  BY DEF Withdraw, nonReentrant
<1>2. /\ s \in Balance /\ b \in Balance /\ tokens \in Nat /\ BASE \in Nat
      /\ GetPosition(b) = GetPosition(s) /\ Margin(b) = Margin(s) - amount
      /\ Margin(s) \in Int
  BY ContextTypes, SettledTypes, MarginUpdates, AmountAssumption, BaseAssumption, BalanceInt
     DEF TypeOK
<1> HIDE DEF b
<1>3. minus \in Int /\ Margin(b) = Margin(s) + minus
  BY <1>2
<1> HIDE DEF minus
<1>4. /\ Books!OnlyChanges({account})
      /\ Positions(CommittedBalances') = Positions(CommittedBalances)
      /\ ClosingSpread = 0 /\ ClosingSpread' = 0
      /\ \E r \in 0..(BASE - 1) :
            Books!Loss(account) = (r - BASE * minus) - BASE * (tokens - tokens')
  BY <1>1, <1>2, <1>3, MarginLedger
<1> HIDE DEF s
<1>5. BASE * minus = -(BASE * amount) /\ BASE * amount \in Nat /\ BASE * 0 = 0
  BY <1>2, ProductNat DEF minus
<1>6. Books!Loss(account) \in Books!Rounding \/ (tokens' = tokens /\ Books!Loss(account) >= 0)
  <2>1. PICK r \in 0..(BASE - 1) :
           Books!Loss(account) = (r - BASE * minus) - BASE * (tokens - tokens')
    BY <1>4
  <2>2. CASE tokens' = tokens
    <3>1. tokens - tokens' = 0
      BY <1>2, <2>2
    <3>2. Books!Loss(account) = r + BASE * amount
      BY <1>5, <2>1, <3>1
    <3> QED BY <1>5, <2>2, <3>2
  <2>3. CASE tokens' = tokens - amount
    <3>1. tokens - tokens' = amount
      BY <1>2, <2>3
    <3>2. Books!Loss(account) = r
      BY <1>5, <2>1, <3>1
    <3> QED BY <3>2 DEF Books!Rounding
  <2> QED BY <1>1, <2>2, <2>3
<1>7. /\ ~finalSettlementEnabled /\ finalSettlementEnabled' = finalSettlementEnabled
      /\ tokens' \in 0..tokens
  BY <1>1, <1>2 DEF noFinalSettlement, final
<1> QED
  BY <1>4, <1>6, <1>7 DEF Books!Withdraw
\* A call of trade() that ends is one step of the accounts it lists.
LEMMA TradeEndLedger ==
  ASSUME IInv, CallRemembers, LossBounded, TradeEnd
  PROVE  Elements(call.accounts) \in SUBSET Account /\ Books!Trade(Elements(call.accounts))
<1> DEFINE parties == Elements(call.accounts)
<1>1. /\ status = Entered /\ status' = NotEntered /\ CallTypeOK /\ ~finalSettlementEnabled
      /\ UNCHANGED <<balances, localIndexes, globalIndex, tokens, final>>
  BY DEF IInv, TypeOK, TradeEnd, ledger
<1>2. /\ CommittedBalances = call.saved.balances /\ CommittedIndexes = call.saved.localIndexes
      /\ CommittedBalances' = balances /\ CommittedIndexes' = localIndexes
  BY <1>1 DEF CommittedBalances, CommittedIndexes, NotEntered, Entered
<1>3. parties \in SUBSET Account
  BY <1>1, AccountListType DEF CallTypeOK
<1>4. Books!OnlyChanges(parties)
  BY <1>1, <1>2 DEF CallRemembers, Books!OnlyChanges, Claims, Positions
<1>5. Books!Total(Positions(CommittedBalances')) = Books!Total(Positions(CommittedBalances))
  BY <1>1, <1>2, BooksTotal DEF IInv, BooksBalance, noFinalSettlement
<1>6. Books!Total(Claims(CommittedBalances, CommittedIndexes))
        - Books!Total(Claims(CommittedBalances', CommittedIndexes')) \in 0..Books!MostLost(parties)
  BY <1>1, <1>2, BooksTotal, RoundingTypes DEF LossBounded
<1>7. finalSettlementEnabled' = finalSettlementEnabled /\ ClosingSpread' = ClosingSpread
  BY <1>1 DEF final, ClosingSpread
<1> HIDE DEF parties
<1>8. Books!Trade(parties)
  BY <1>1, <1>4, <1>5, <1>6, <1>7 DEF Books!Trade
<1> QED
  BY <1>3, <1>8 DEF parties

\* withdrawFinalSettlement() leaves a remainder only when it has paid all tokens.
LEMMA PaidInFull ==
  ASSUME TypeOK, NEW sender \in Account, Margin(RemainingBalance(sender)) > 0
  PROVE  AmountToWithdraw(sender) = tokens
<1> DEFINE v == FinalValue(sender)
<1>1. CASE tokens < v
  BY <1>1 DEF AmountToWithdraw
<1>2. CASE ~(tokens < v)
  <2>1. AmountToWithdraw(sender) = v
    BY <1>2 DEF AmountToWithdraw
  <2>2. v - v = 0
    <3>1. v \in Int
      <4>1. /\ PositiveValue(Settled(sender, globalIndex), finalSettlementPrice) \in Int
            /\ NegativeValue(Settled(sender, globalIndex), finalSettlementPrice) \in Int
        BY ContextTypes, SettledTypes, ValueSplit, MarketAssumption DEF TypeOK
      <4> QED BY <4>1, DivFacts DEF FinalValue
    <3> HIDE DEF v
    <3> QED BY <3>1
  <2>3. Margin(RemainingBalance(sender)) = 0
    BY <2>1, <2>2 DEF RemainingBalance, Margin, GetMargin, ToInt
  <2> QED BY <2>3
<1> QED
  BY <1>1, <1>2

\* withdrawFinalSettlement() closes the account and pays it, or leaves it in debt.
LEMMA PayoutLedger ==
  ASSUME TypeOK, IndexesInSync, NEW sender \in Account, WithdrawFinalSettlement(sender)
  PROVE  Books!Payout(sender)
<1> DEFINE g == globalIndex
           old == Claim(balances[sender], localIndexes[sender])
           s == Settled(sender, g)
           X == ToInt(SignedIndex(g))
           P == finalSettlementPrice
           b == balances'[sender]
           r == old - Claim(s, g)
           pos == Position(s)
           owed == NetValue(s, P)
<1>1. /\ finalSettlementEnabled /\ finalSettlementEnabled'
      /\ UNCHANGED <<globalIndex, status, final>> /\ status = NotEntered
      /\ localIndexes' = [localIndexes EXCEPT ![sender] = g]
      /\ \/ /\ PositiveValue(s, P) < NegativeValue(s, P)
            /\ balances' = [balances EXCEPT ![sender] = s] /\ tokens' = tokens
         \/ /\ ~(PositiveValue(s, P) < NegativeValue(s, P))
            /\ balances' = [balances EXCEPT ![sender] = RemainingBalance(sender)]
            /\ tokens' = tokens - AmountToWithdraw(sender)
  BY DEF WithdrawFinalSettlement, onlyFinalSettlement, nonReentrant, final
<1>2. /\ g \in Index /\ s \in Balance /\ P \in Nat /\ X \in Int
      /\ tokens \in Nat /\ BASE \in Nat \ {0}
      /\ InSync(localIndexes, g)
  BY ContextTypes, SettledTypes, SignedIndexType, BaseAssumption, MarketAssumption,
     AmountAssumption DEF TypeOK, IndexesInSync
<1>3. /\ r \in 0..(BASE - 1) /\ old \in Int /\ Claim(s, g) \in Int
      /\ pos = Position(balances[sender]) /\ pos \in Int
  BY <1>2, SettleLoss, BalanceInt
<1>4. /\ CommittedBalances = balances /\ CommittedIndexes = localIndexes
      /\ CommittedBalances' = balances' /\ CommittedIndexes' = localIndexes'
  BY <1>1, IdleBooks
<1>5. ClosingSpread = P - X /\ ClosingSpread' = P - X
  BY <1>1 DEF ClosingSpread, final
<1>6. /\ localIndexes'[sender] = g
      /\ \A a \in Account \ {sender} :
            balances'[a] = balances[a] /\ localIndexes'[a] = localIndexes[a]
  BY <1>1, StoredLedger
<1>7. Books!OnlyChanges({sender})
  BY <1>4, <1>6 DEF Books!OnlyChanges, Claims, Positions
<1>8. /\ Books!Owed(sender) = old + (P - X) * pos
      /\ Books!Owed(sender)' = Claim(b, g) + (P - X) * Position(b)
  <2>1. /\ Claims(CommittedBalances, CommittedIndexes)[sender] = old
        /\ Claims(CommittedBalances', CommittedIndexes')[sender] = Claim(b, g)
        /\ Positions(CommittedBalances)[sender] = pos
        /\ Positions(CommittedBalances')[sender] = Position(b)
    BY <1>3, <1>4, <1>6 DEF Claims, Positions
  <2> HIDE DEF old, b, pos, P, X, g
  <2> QED BY <1>5, <2>1 DEF Books!Owed
<1>9. owed = Claim(s, g) + (P - X) * pos /\ owed \in Int /\ (P - X) * pos \in Int
  <2>1. /\ owed = BASE * Margin(s) + P * pos /\ owed \in Int
        /\ Claim(s, g) = BASE * Margin(s) + X * pos
        /\ BASE * Margin(s) \in Int
    BY <1>2, NetValueSplit DEF Claim
  <2> HIDE DEF owed, pos, P, X, s, g
  <2>2. (P - X) * pos = P * pos - X * pos /\ P * pos \in Int /\ X * pos \in Int
    BY <1>2, <1>3
  <2> QED BY <2>1, <2>2
<1>10. Books!Owed(sender) = owed + r
  <2> HIDE DEF owed, old, pos, P, X, s, g
  <2>1. Claim(s, g) \in Int /\ old \in Int
    BY <1>3
  <2> QED BY <1>8, <1>9, <2>1
<1>11. finalSettlementEnabled' = finalSettlementEnabled /\ ClosingSpread' = ClosingSpread
  BY <1>1, <1>5
<1>12. CASE PositiveValue(s, P) < NegativeValue(s, P)
  <2>1. balances' = [balances EXCEPT ![sender] = s] /\ tokens' = tokens
    BY <1>1, <1>12
  <2>2. b = s
    BY <2>1, StoredLedger
  <2>3. Books!Owed(sender)' = owed
    BY <1>8, <1>9, <2>2
  <2>4. owed < 0
    <3>1. PositiveValue(s, P) \in Nat /\ NegativeValue(s, P) \in Nat
      BY <1>2, ValueSplit
    <3> QED BY <1>12, <3>1 DEF NetValue
  <2>5. Positions(CommittedBalances') = Positions(CommittedBalances)
    BY <1>3, <1>4, <1>6, <2>2 DEF Positions
  <2> HIDE DEF owed, r, s, b, P
  <2>6. Books!Loss(sender) \in Books!Rounding
    <3>1. tokens - tokens' = 0 /\ BASE * 0 = 0
      BY <1>2, <2>1
    <3>2. Books!Loss(sender) = r
      BY <1>3, <1>9, <1>10, <2>3, <3>1 DEF Books!Loss
    <3> QED BY <1>3, <3>2 DEF Books!Rounding
  <2> QED BY <1>1, <1>7, <1>11, <2>1, <2>3, <2>4, <2>5, <2>6 DEF Books!Payout
<1>13. CASE ~(PositiveValue(s, P) < NegativeValue(s, P))
  <2> DEFINE rest == RemainingBalance(sender)
             amount == AmountToWithdraw(sender)
             kept == Margin(rest)
  <2>1. balances' = [balances EXCEPT ![sender] = rest] /\ tokens' = tokens - amount
    BY <1>1, <1>13
  <2>2. b = rest
    BY <2>1, StoredLedger
  <2>3. PositiveValue(s, P) >= NegativeValue(s, P)
    <3>1. PositiveValue(s, P) \in Nat /\ NegativeValue(s, P) \in Nat
      BY <1>2, ValueSplit
    <3> QED BY <1>13, <3>1
  <2>4. /\ amount \in 0..tokens /\ Position(rest) = 0 /\ kept \in Nat
        /\ BASE * (kept + amount) <= owed /\ owed < BASE * (kept + amount) + BASE
    BY <2>3, FinalPayment
  <2>5. kept > 0 => amount = tokens
    BY PaidInFull
  <2>6. Books!Owed(sender)' = BASE * kept
    <3>1. Claim(b, g) = BASE * kept + X * 0 /\ Position(b) = 0
      BY <2>2, <2>4 DEF Claim
    <3> HIDE DEF b, X, P, kept
    <3>2. X * 0 = 0 /\ (P - X) * 0 = 0 /\ BASE * kept \in Int
      BY <1>2, <2>4
    <3> QED BY <1>8, <3>1, <3>2
  <2>7. Positions(CommittedBalances')[sender] = 0
    BY <1>4, <2>2, <2>4 DEF Positions
  <2> HIDE DEF owed, r, s, b, P, rest, amount, kept
  <2>8. BASE * kept >= 0 /\ (BASE * kept > 0 => tokens' = 0) /\ tokens' \in 0..tokens
    <3>1. BASE * kept \in Nat /\ (kept = 0 => BASE * kept = 0)
      BY <1>2, <2>4, ProductNat
    <3>2. BASE * kept > 0 => kept > 0
      BY <2>4, <3>1
    <3> QED BY <1>2, <2>1, <2>4, <2>5, <3>1, <3>2
  <2>9. Books!Loss(sender) \in 0..(2 * (BASE - 1))
    <3>1. tokens - tokens' = amount /\ amount \in Int
      BY <1>2, <2>1, <2>4
    <3>2. /\ BASE * (kept + amount) = BASE * kept + BASE * amount
          /\ BASE * kept \in Int /\ BASE * amount \in Int
      BY <1>2, <2>4, <3>1
    <3>3. Books!Loss(sender) = (owed + r) - BASE * kept - BASE * amount
      BY <1>10, <2>6, <3>1 DEF Books!Loss
    <3>4. 0 <= owed - BASE * kept - BASE * amount /\ owed - BASE * kept - BASE * amount < BASE
      BY <1>2, <1>9, <2>4, <3>2
    <3> QED BY <1>2, <1>3, <1>9, <3>2, <3>3, <3>4
  <2> QED BY <1>1, <1>7, <1>11, <2>6, <2>7, <2>8, <2>9 DEF Books!Payout
<1> QED
  BY <1>12, <1>13
\* enableFinalSettlement() fixes the price at which all positions are closed.
LEMMA EnableLedger ==
  ASSUME IInv, NEW lower, NEW upper, EnableFinalSettlement(lower, upper)
  PROVE  Books!Close
<1>1. /\ ~finalSettlementEnabled /\ status = NotEntered /\ status' = NotEntered
      /\ globalIndex' = ContextIndex /\ UNCHANGED <<balances, localIndexes, tokens>>
      /\ finalSettlementEnabled' = TRUE /\ finalSettlementPrice' = ContextPrice
  BY DEF EnableFinalSettlement, noFinalSettlement, nonReentrant
<1>2. /\ CommittedBalances = balances /\ CommittedBalances' = balances
      /\ CommittedIndexes' = CommittedIndexes
  BY <1>1, IdleBooks
<1>3. Books!Total(Positions(CommittedBalances)) = 0
  BY <1>1, <1>2, BooksTotal DEF IInv, BooksBalance, noFinalSettlement
<1>4. ClosingSpread' \in Int
  <2>1. ContextPrice \in Nat /\ ToInt(SignedIndex(ContextIndex)) \in Int
    BY ContextTypes, SignedIndexType DEF IInv
  <2>2. ClosingSpread' = ContextPrice - ToInt(SignedIndex(ContextIndex))
    BY <1>1 DEF ClosingSpread
  <2> QED BY <2>1, <2>2
<1> QED
  BY <1>1, <1>2, <1>3, <1>4 DEF Books!Close

\* Anything that leaves what is committed alone is no step of the ledger.
LEMMA QuietLedger ==
  ASSUME CommittedBalances' = CommittedBalances, CommittedIndexes' = CommittedIndexes,
         UNCHANGED <<tokens, final>>, finalSettlementEnabled => globalIndex' = globalIndex
  PROVE  UNCHANGED Books!ledgerVars
BY DEF Books!ledgerVars, ClosingSpread, final

\* Every step of the contract is a step of the ledger or none.
LEMMA StepLedger ==
  ASSUME IInv, CallRemembers, LossBounded, [Next]_vars
  PROVE  [Books!Next]_(Books!ledgerVars)
<1>0. TypeOK /\ IndexesInSync /\ (status = Entered => ~finalSettlementEnabled)
  BY DEF IInv, TypeOK, BooksBalance, IndexesInSync
<1>1. ASSUME UNCHANGED <<ledger, status, call, final, tokens>>
      PROVE  UNCHANGED Books!ledgerVars
  BY <1>1, QuietLedger DEF CommittedBalances, CommittedIndexes, ledger
<1>2. CASE MarginStep
  <2>1. ASSUME NEW account \in Account, NEW amount \in Amount, Deposit(account, amount)
        PROVE  Books!Next
    BY <1>0, <2>1, AmountAssumption, DepositLedger DEF Books!Next
  <2>2. ASSUME NEW account \in Account, NEW amount \in Amount, NEW sender, NEW destination,
               Withdraw(sender, account, destination, amount)
        PROVE  Books!Next
    BY <1>0, <2>2, AmountAssumption, WithdrawLedger DEF Books!Next
  <2> QED BY <1>2, <2>1, <2>2 DEF MarginStep
<1>3. ASSUME NEW accounts \in AccountList, TradeBegin(accounts)
      PROVE  UNCHANGED Books!ledgerVars
  <2>1. /\ status = NotEntered /\ status' = Entered /\ UNCHANGED <<final, tokens>>
        /\ call'.saved.balances = balances /\ call'.saved.localIndexes = localIndexes
        /\ ~finalSettlementEnabled
    BY <1>3 DEF TradeBegin, Saved, nonReentrant, noFinalSettlement
  <2>2. CommittedBalances' = CommittedBalances /\ CommittedIndexes' = CommittedIndexes
    BY <2>1 DEF CommittedBalances, CommittedIndexes, NotEntered, Entered
  <2> QED BY <2>1, <2>2, QuietLedger
<1>4. ASSUME NEW trader, NEW maker \in DOMAIN call.accounts,
             NEW taker \in DOMAIN call.accounts, NEW m, NEW p, NEW isBuy,
             TradeStep(trader, maker, taker, m, p, isBuy)
      PROVE  UNCHANGED Books!ledgerVars
  <2>1. /\ status = Entered /\ status' = Entered /\ call'.saved = call.saved
        /\ UNCHANGED <<globalIndex, final, tokens>>
    BY <1>4 DEF TradeStep, AfterTrade
  <2>2. CommittedBalances' = CommittedBalances /\ CommittedIndexes' = CommittedIndexes
    BY <2>1 DEF CommittedBalances, CommittedIndexes
  <2> QED BY <2>1, <2>2, QuietLedger
<1>5. ASSUME TradeRevert
      PROVE  UNCHANGED Books!ledgerVars
  <2>1. /\ status = Entered /\ status' = NotEntered /\ UNCHANGED <<final, tokens>>
        /\ balances' = call.saved.balances /\ localIndexes' = call.saved.localIndexes
    BY <1>5 DEF TradeRevert
  <2>2. CommittedBalances' = CommittedBalances /\ CommittedIndexes' = CommittedIndexes
    BY <2>1 DEF CommittedBalances, CommittedIndexes, NotEntered, Entered
  <2> QED BY <1>0, <2>1, <2>2, QuietLedger
<1>6. ASSUME TradeEnd
      PROVE  Books!Next
  BY <1>6, TradeEndLedger DEF Books!Next
<1>7. CASE TradeCallStep
  BY <1>3, <1>4, <1>5, <1>6, <1>7 DEF TradeCallStep
<1>8. CASE FinalSettlementStep
  BY <1>0, <1>8, PayoutLedger DEF FinalSettlementStep, Books!Next
<1>9. CASE AdminStep
  <2>1. ASSUME NEW lower, NEW upper, EnableFinalSettlement(lower, upper)
        PROVE  Books!Next
    BY <2>1, EnableLedger DEF Books!Next
  <2> QED BY <1>1, <1>9, <2>1 DEF AdminStep, SetGlobalOperator, SetOracle, SetFunder,
                                  SetMinCollateral
<1>10. CASE OperatorStep
  BY <1>1, <1>10 DEF OperatorStep, SetLocalOperator
<1>11. CASE WorldStep
  <2>1. ASSUME NEW amount \in Amount, Donate(amount)
        PROVE  Books!Next
    <3>1. /\ UNCHANGED <<ledger, status, call, final>> /\ tokens' = tokens + amount
          /\ tokens \in Nat /\ amount \in Nat
      BY <1>0, <2>1, AmountAssumption DEF Donate, TypeOK
    <3>2. /\ CommittedBalances' = CommittedBalances /\ CommittedIndexes' = CommittedIndexes
          /\ ClosingSpread' = ClosingSpread /\ tokens' >= tokens
          /\ finalSettlementEnabled' = finalSettlementEnabled
      BY <3>1 DEF CommittedBalances, CommittedIndexes, ClosingSpread, ledger, final
    <3>3. Books!Donate
      BY <3>2 DEF Books!Donate
    <3> QED BY <3>3 DEF Books!Next
  <2> QED BY <1>1, <1>11, <2>1 DEF WorldStep, Tick, ChangePrice, ChangeRate
<1>12. CASE UNCHANGED vars
  BY <1>1, <1>12 DEF vars
<1> QED
  BY <1>2, <1>7, <1>8, <1>9, <1>10, <1>11, <1>12 DEF Next

\* The state initializeV1 leaves is an empty ledger.
LEMMA InitLedger == Init => Books!Init
<1> SUFFICES ASSUME Init PROVE Books!Init
  OBVIOUS
<1>1. CommittedBalances = balances /\ CommittedIndexes = localIndexes
  BY IdleBooks DEF Init
<1>2. /\ Claims(balances, localIndexes) = [account \in Account |-> 0]
      /\ Positions(balances) = [account \in Account |-> 0]
  BY EmptyAccount DEF Init, Claims, Positions
<1> QED
  BY <1>1, <1>2 DEF Init, Books!Init, ClosingSpread

(***************************************************************************)
(* PerpetualV1 implements Ledger: deposits, withdrawals, whole calls of     *)
(* trade() and final settlement are its steps, everything else changes no   *)
(* claim, and rounding is all that is ever lost.                            *)
(***************************************************************************)
THEOREM ContractKeepsBooks == Spec => ImplementsLedger
<1>1. Init => IInv /\ CallRemembers /\ LossBounded
  BY InitIInv DEF Init, CallRemembers, LossBounded, NotEntered, Entered
<1>2. /\ IInv /\ CallRemembers /\ LossBounded /\ [Next]_vars
          => (IInv /\ CallRemembers /\ LossBounded)'
  BY NextIInv, StepRemembers, StepBoundsLoss
<1>3. Init => Books!Init
  BY InitLedger
<1>4. IInv /\ CallRemembers /\ LossBounded /\ [Next]_vars => [Books!Next]_(Books!ledgerVars)
  BY StepLedger
<1> QED
  BY <1>1, <1>2, <1>3, <1>4, PTL DEF Spec, ImplementsLedger, Books!Spec
=============================================================================
