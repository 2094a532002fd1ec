----------------------------- MODULE PerpetualV1 -----------------------------
(***************************************************************************)
(* The PerpetualV1 contract (v1/PerpetualV1.sol and v1/impl): the state the *)
(* proxy stores and one action per external function. A function that       *)
(* reverts changes nothing, so its require statements are guards.           *)
(*                                                                          *)
(* Every function is one transaction and one action, except trade(): the    *)
(* trader contracts it calls read the storage it has already written        *)
(* (P1Liquidation reads the balances), so trade() is split at those calls   *)
(* into TradeBegin, one TradeStep per trade, and TradeEnd or TradeRevert.   *)
(* Meanwhile the reentrancy guard is set, and the only function without the *)
(* guard, setLocalOperator, can still be executed by what a trader calls.   *)
(*                                                                          *)
(* The contracts PerpetualV1 calls appear by what they return: the price of *)
(* each oracle, the rate of each funder, any result for a trade, and an     *)
(* ERC20 token without callbacks of which the contract holds tokens.        *)
(***************************************************************************)
EXTENDS P1Settlement, Sequences, Totals

CONSTANTS
    Account,            \* addresses with a balance; numbers, since trade() compares them
    Operator,           \* other addresses: traders and proxies that may be made operators
    Delegate,           \* addresses that accounts may make their local operators
    Oracle, Funder,     \* addresses of price oracles and of funders
    Price, Rate,        \* values they may report: naturals, SignedInts per second
    MinCollateral,      \* minimum collateralizations that may be configured
    Amount,             \* amounts that appear in calls and in trade results
    TokenSupply,        \* tokens in existence
    StartTime, MaxTime, \* block times: of the initialization, and the last one explored
    MaxAccounts,        \* longest list of accounts,
    MaxTrades           \* and largest number of trades, in one call of trade()

ASSUME AccountAssumption    == Account \subseteq Nat /\ IsFiniteSet(Account)
ASSUME DelegateAssumption   == Delegate \subseteq Account \union Operator
ASSUME AmountAssumption     == Amount \subseteq Nat /\ TokenSupply \in Nat
ASSUME MarketAssumption     == Price \subseteq Nat /\ Rate \subseteq SignedInt
ASSUME CollateralAssumption == MinCollateral \subseteq Nat
ASSUME TimeAssumption       == StartTime \in 1..MAX_UINT32 /\ MaxTime \in Nat
ASSUME TradesAssumption     == MaxAccounts \in Nat /\ MaxTrades \in Nat

VARIABLES
    balances, localIndexes,               \* _BALANCES_, _LOCAL_INDEXES_
    globalOperators, localOperators,      \* the true entries of both mappings
    oracle, funder,                       \* _ORACLE_, _FUNDER_
    globalIndex, minCollateral,           \* _GLOBAL_INDEX_, _MIN_COLLATERAL_
    finalSettlementEnabled, finalSettlementPrice,
    status,                               \* _STATUS_ of the reentrancy guard
    call,                                 \* memory of the trade() being executed
    tokens,                               \* token balance of the contract
    prices, rates,                        \* what each oracle and funder returns
    now                                   \* block.timestamp

ledger == <<balances, localIndexes, globalIndex>>
config == <<globalOperators, oracle, funder, minCollateral>>
final  == <<finalSettlementEnabled, finalSettlementPrice>>
world  == <<prices, rates, now>>
vars   == <<ledger, config, localOperators, final, status, call, tokens, world>>

NotEntered == "NOT_ENTERED"
Entered    == "ENTERED"

\* The memory of a call when there is none.
NoCall == [accounts |-> <<>>, initial |-> <<>>, current |-> <<>>, trades |-> 0,
           price |-> 0, saved |-> <<>>]

-----------------------------------------------------------------------------
(* What a transaction reads before it changes anything.                     *)

noFinalSettlement   == ~finalSettlementEnabled
onlyFinalSettlement == finalSettlementEnabled
nonReentrant        == status = NotEntered

hasAccountPermissions(account, sender) ==
    \/ account = sender
    \/ sender \in globalOperators
    \/ <<account, sender>> \in localOperators

\* The price and the index in the Context that _loadContext returns.
ContextPrice == prices[oracle]
ContextIndex == NextIndex(globalIndex, now, rates[funder], ContextPrice)

\* _settleAccount for the index given.
Settled(account, index) ==
    SettledBalance(balances[account], localIndexes[account], index)

\* _loadContext, then _settleAccount for each of the accounts; newBalance[account]
\* is what the caller finally stores for an account it has settled.
LoadContextAndSettle(accounts, newBalance) ==
    /\ FitsIndex(ContextIndex)
    /\ \A account \in accounts : FitsBalance(Settled(account, ContextIndex))
    /\ globalIndex' = ContextIndex
    /\ localIndexes' = [account \in Account |->
           IF account \in accounts THEN ContextIndex ELSE localIndexes[account]]
    /\ balances' = [account \in Account |->
           IF account \in accounts THEN newBalance[account] ELSE balances[account]]

-----------------------------------------------------------------------------
(* P1Margin                                                                 *)

\* Anyone may deposit, for any account.
Deposit(account, amount) ==
    LET newBalance == AddToMargin(Settled(account, ContextIndex), amount)
    IN  /\ noFinalSettlement /\ nonReentrant
        /\ amount <= TokenSupply - tokens
        /\ LoadContextAndSettle({account}, [a \in {account} |-> newBalance])
        /\ FitsBalance(newBalance)
        /\ tokens' = tokens + amount
        /\ UNCHANGED <<config, localOperators, final, status, call, world>>

\* The destination may be the contract itself.
Withdraw(sender, account, destination, amount) ==
    LET newBalance == SubFromMargin(Settled(account, ContextIndex), amount)
    IN  /\ noFinalSettlement /\ nonReentrant
        /\ hasAccountPermissions(account, sender)
        /\ amount <= tokens
        /\ LoadContextAndSettle({account}, [a \in {account} |-> newBalance])
        /\ FitsBalance(newBalance)
        /\ IsCollateralized(newBalance, ContextPrice, minCollateral)
        /\ tokens' = IF destination = "perpetual" THEN tokens ELSE tokens - amount
        /\ UNCHANGED <<config, localOperators, final, status, call, world>>

-----------------------------------------------------------------------------
(* P1Trade                                                                  *)

\* Mutation of VerifyAccounts: an account may be listed twice.
VerifyAccountsUnstrict(accounts) ==
    /\ accounts # <<>>
    /\ \A i \in DOMAIN accounts \ {1} : accounts[i] >= accounts[i - 1]

\* _verifyAccounts: at least one account, each greater than the one before.
VerifyAccounts(accounts) ==
    /\ accounts # <<>>
    /\ \A i \in DOMAIN accounts \ {1} : accounts[i] > accounts[i - 1]

Elements(seq) == {seq[i] : i \in DOMAIN seq}

\* What a revert of trade() would restore.
Saved == [balances |-> balances, localIndexes |-> localIndexes,
          globalIndex |-> globalIndex, localOperators |-> localOperators]

TradeBegin(accounts) ==
    LET settled == [a \in Elements(accounts) |-> Settled(a, ContextIndex)]
        initial == [i \in DOMAIN accounts |-> settled[accounts[i]]]
    IN  /\ noFinalSettlement /\ nonReentrant
        /\ VerifyAccounts(accounts)
        /\ LoadContextAndSettle(Elements(accounts), settled)
        /\ status' = Entered
        /\ call' = [accounts |-> accounts, initial |-> initial, current |-> initial,
                    trades |-> 0, price |-> ContextPrice, saved |-> Saved]
        /\ UNCHANGED <<config, localOperators, final, tokens, world>>

\* The balances of the maker and of the taker after a trade.
MakerBalance(balance, marginAmount, positionAmount, isBuy) ==
    IF isBuy
    THEN SubFromPosition(AddToMargin(balance, marginAmount), positionAmount)
    ELSE AddToPosition(SubFromMargin(balance, marginAmount), positionAmount)

\* Mutation of TakerBalance: the taker gets what the maker gets.
TakerOnMakerSide(balance, marginAmount, positionAmount, isBuy) ==
    MakerBalance(balance, marginAmount, positionAmount, isBuy)

TakerBalance(balance, marginAmount, positionAmount, isBuy) ==
    MakerBalance(balance, marginAmount, positionAmount, ~isBuy)

\* The memory of trade() after one more trade.
AfterTrade(current) ==
    [accounts |-> call.accounts, initial |-> call.initial, current |-> current,
     trades |-> call.trades + 1, price |-> call.price, saved |-> call.saved]

\* One iteration of the loop: maker and taker are positions in call.accounts,
\* the amounts and isBuy are what the trader contract returned.
TradeStep(trader, maker, taker, marginAmount, positionAmount, isBuy) ==
    LET newMaker == MakerBalance(call.current[maker], marginAmount, positionAmount, isBuy)
        newTaker == TakerBalance(call.current[taker], marginAmount, positionAmount, isBuy)
    IN  /\ status = Entered
        /\ call.trades < MaxTrades
        /\ trader \in globalOperators
        /\ IF call.accounts[maker] = call.accounts[taker]
           THEN call' = AfterTrade(call.current) /\ UNCHANGED balances
           ELSE /\ FitsBalance(newMaker) /\ FitsBalance(newTaker)
                /\ call' = AfterTrade([call.current EXCEPT ![maker] = newMaker,
                                                           ![taker] = newTaker])
                /\ balances' = [balances EXCEPT ![call.accounts[maker]] = newMaker,
                                                ![call.accounts[taker]] = newTaker]
        /\ UNCHANGED <<localIndexes, globalIndex, config, localOperators, final,
                       status, tokens, world>>

\* Mutation of FinalBalanceAllowed: a smaller position alone is good enough.
FinalBalanceSmaller(initial, current, price) ==
    \/ IsCollateralized(current, price, minCollateral)
    \/ /\ PositiveValue(current, price) # 0
       /\ current.position <= initial.position
       /\ current.positionIsPositive = initial.positionIsPositive
       /\ NegativeValue(initial, price) # 0

\* Mutation of FinalBalanceAllowed: the balance before the trades is checked.
FinalBalanceBefore(initial, current, price) ==
    IsCollateralized(initial, price, minCollateral)

\* _verifyAccountsFinalBalances for one account.  Its products have no bound here: with
\* a price or a requirement near 2^256 SafeMath would revert the call (TradeRevert).
FinalBalanceAllowed(initial, current, price) ==
    LET initialPos == PositiveValue(initial, price)
        initialNeg == NegativeValue(initial, price)
        currentPos == PositiveValue(current, price)
        currentNeg == NegativeValue(current, price)
    IN  \/ IsCollateralized(current, price, minCollateral)
        \/ /\ currentPos # 0
           /\ current.position <= initial.position
           /\ current.positionIsPositive = initial.positionIsPositive
           /\ initialNeg # 0
           /\ IF current.positionIsPositive
              THEN BaseDivMul(currentNeg, initialPos) <= BaseDivMul(initialNeg, currentPos)
              ELSE BaseDivMul(initialPos, currentNeg) <= BaseDivMul(currentPos, initialNeg)

TradeEnd ==
    /\ status = Entered
    /\ \A i \in DOMAIN call.accounts :
           FinalBalanceAllowed(call.initial[i], call.current[i], call.price)
    /\ status' = NotEntered
    /\ call' = NoCall
    /\ UNCHANGED <<ledger, config, localOperators, final, tokens, world>>

\* A trader reverts, or a check above fails: the transaction leaves no trace.
TradeRevert ==
    /\ status = Entered
    /\ balances' = call.saved.balances
    /\ localIndexes' = call.saved.localIndexes
    /\ globalIndex' = call.saved.globalIndex
    /\ localOperators' = call.saved.localOperators
    /\ status' = NotEntered
    /\ call' = NoCall
    /\ UNCHANGED <<config, final, tokens, world>>

-----------------------------------------------------------------------------
(* P1FinalSettlement                                                        *)

\* The account value, rounded down to whole tokens; negative for a bad debt.
FinalValue(account) ==
    LET balance == Settled(account, globalIndex)
    IN  (PositiveValue(balance, finalSettlementPrice)
           - NegativeValue(balance, finalSettlementPrice)) \div BASE

\* Mutation of AmountToWithdraw: nothing is paid when the tokens do not suffice.
AllOrNothing(account) ==
    IF tokens < FinalValue(account) THEN 0 ELSE FinalValue(account)

\* What the contract has left bounds what it pays; the rest stays as margin.
AmountToWithdraw(account) ==
    IF tokens < FinalValue(account) THEN tokens ELSE FinalValue(account)

\* Mutation of RemainingBalance: what could not be paid is forgotten.
NothingRemains(account) == ZeroBalance

\* Mutation of RemainingBalance: what was paid stays as margin.
NothingDeducted(account) ==
    [marginIsPositive |-> FinalValue(account) # 0, positionIsPositive |-> FALSE,
     margin |-> FinalValue(account), position |-> 0]

RemainingBalance(account) ==
    LET remainingMargin == FinalValue(account) - AmountToWithdraw(account)
    IN  [marginIsPositive |-> remainingMargin # 0, positionIsPositive |-> FALSE,
         margin |-> remainingMargin, position |-> 0]

WithdrawFinalSettlement(sender) ==
    LET balance  == Settled(sender, globalIndex)
        positive == PositiveValue(balance, finalSettlementPrice)
        negative == NegativeValue(balance, finalSettlementPrice)
    IN  /\ onlyFinalSettlement /\ nonReentrant
        /\ FitsBalance(balance)
        /\ localIndexes' = [localIndexes EXCEPT ![sender] = globalIndex]
        /\ IF positive < negative
           THEN /\ balances' = [balances EXCEPT ![sender] = balance]
                /\ UNCHANGED tokens
           ELSE /\ FitsBalance(RemainingBalance(sender))
                /\ balances' = [balances EXCEPT ![sender] = RemainingBalance(sender)]
                /\ tokens' = tokens - AmountToWithdraw(sender)
        /\ UNCHANGED <<globalIndex, config, localOperators, final, status, call, world>>

-----------------------------------------------------------------------------
(* P1Admin (each called by the admin of the proxy) and P1Operator           *)

SetGlobalOperator(operator, approved) ==
    /\ nonReentrant
    /\ globalOperators' = IF approved THEN globalOperators \union {operator}
                                      ELSE globalOperators \ {operator}
    /\ UNCHANGED <<ledger, oracle, funder, minCollateral, localOperators, final,
                   status, call, tokens, world>>

SetOracle(newOracle) ==
    /\ nonReentrant
    /\ prices[newOracle] # 0
    /\ oracle' = newOracle
    /\ UNCHANGED <<ledger, globalOperators, funder, minCollateral, localOperators,
                   final, status, call, tokens, world>>

SetFunder(newFunder) ==
    /\ nonReentrant
    /\ funder' = newFunder
    /\ UNCHANGED <<ledger, globalOperators, oracle, minCollateral, localOperators,
                   final, status, call, tokens, world>>

SetMinCollateral(newMinCollateral) ==
    /\ nonReentrant
    /\ newMinCollateral >= BASE
    /\ minCollateral' = newMinCollateral
    /\ UNCHANGED <<ledger, globalOperators, oracle, funder, localOperators, final,
                   status, call, tokens, world>>

EnableFinalSettlement(priceLowerBound, priceUpperBound) ==
    /\ noFinalSettlement /\ nonReentrant
    /\ priceLowerBound <= ContextPrice /\ ContextPrice <= priceUpperBound
    /\ FitsIndex(ContextIndex)
    /\ globalIndex' = ContextIndex
    /\ finalSettlementPrice' = ContextPrice
    /\ finalSettlementEnabled' = TRUE
    /\ UNCHANGED <<balances, localIndexes, config, localOperators, status, call,
                   tokens, world>>

\* Has no reentrancy guard.
SetLocalOperator(sender, operator, approved) ==
    /\ localOperators' = IF approved THEN localOperators \union {<<sender, operator>>}
                                     ELSE localOperators \ {<<sender, operator>>}
    /\ UNCHANGED <<ledger, config, final, status, call, tokens, world>>

-----------------------------------------------------------------------------
(* The world outside, which does not change within a transaction            *)

\* A later block.
Tick ==
    /\ nonReentrant
    /\ now < MaxTime
    /\ now' = now + 1
    /\ UNCHANGED <<ledger, config, localOperators, final, status, call, tokens,
                   prices, rates>>

ChangePrice(o, price) ==
    /\ nonReentrant
    /\ prices' = [prices EXCEPT ![o] = price]
    /\ UNCHANGED <<ledger, config, localOperators, final, status, call, tokens,
                   rates, now>>

ChangeRate(f, rate) ==
    /\ nonReentrant
    /\ rates' = [rates EXCEPT ![f] = rate]
    /\ UNCHANGED <<ledger, config, localOperators, final, status, call, tokens,
                   prices, now>>

\* Tokens sent to the contract without a deposit belong to no account.
Donate(amount) ==
    /\ nonReentrant
    /\ amount <= TokenSupply - tokens
    /\ tokens' = tokens + amount
    /\ UNCHANGED <<ledger, config, localOperators, final, status, call, world>>

-----------------------------------------------------------------------------
\* The state initializeV1 leaves: it accepts any minimum collateralization.
Init ==
    /\ balances = [account \in Account |-> ZeroBalance]
    /\ localIndexes = [account \in Account |-> ZeroIndex]
    /\ globalOperators = {} /\ localOperators = {}
    /\ oracle \in Oracle /\ funder \in Funder
    /\ minCollateral \in MinCollateral
    /\ globalIndex = [timestamp |-> StartTime, isPositive |-> FALSE, value |-> 0]
    /\ finalSettlementEnabled = FALSE /\ finalSettlementPrice = 0
    /\ status = NotEntered
    /\ call = NoCall
    /\ tokens = 0
    /\ prices \in [Oracle -> Price] /\ rates \in [Funder -> Rate]
    /\ now = StartTime

MarginStep ==
    \E account \in Account, amount \in Amount :
        \/ Deposit(account, amount)
        \/ \E sender \in Account \union Operator, destination \in {"outside", "perpetual"} :
               Withdraw(sender, account, destination, amount)

\* The lists of accounts a caller of trade() may pass, sorted or not.
AccountList == UNION {[1..n -> Account] : n \in 0..MaxAccounts}

TradeCallStep ==
    \/ \E accounts \in AccountList : TradeBegin(accounts)
    \/ \E trader \in Operator, maker, taker \in DOMAIN call.accounts,
          marginAmount, positionAmount \in Amount, isBuy \in BOOLEAN :
           TradeStep(trader, maker, taker, marginAmount, positionAmount, isBuy)
    \/ TradeEnd
    \/ TradeRevert

FinalSettlementStep == \E sender \in Account : WithdrawFinalSettlement(sender)

AdminStep ==
    \/ \E operator \in Operator, approved \in BOOLEAN : SetGlobalOperator(operator, approved)
    \/ \E newOracle \in Oracle : SetOracle(newOracle)
    \/ \E newFunder \in Funder : SetFunder(newFunder)
    \/ \E newMinCollateral \in MinCollateral : SetMinCollateral(newMinCollateral)
    \/ \E lower, upper \in Price : EnableFinalSettlement(lower, upper)

OperatorStep ==
    \E sender \in Account, operator \in Delegate, approved \in BOOLEAN :
        SetLocalOperator(sender, operator, approved)

WorldStep ==
    \/ Tick
    \/ \E o \in Oracle, price \in Price : ChangePrice(o, price)
    \/ \E f \in Funder, rate \in Rate : ChangeRate(f, rate)
    \/ \E amount \in Amount : Donate(amount)

Next ==
    \/ MarginStep \/ TradeCallStep \/ FinalSettlementStep
    \/ AdminStep \/ OperatorStep \/ WorldStep

Spec == Init /\ [][Next]_vars

\* After final settlement every holder sooner or later asks for its tokens, as
\* nobody else can do it for it; nothing else is promised to ever happen.
HoldersWithdraw == \A sender \in Account : WF_vars(WithdrawFinalSettlement(sender))

FairSpec == Spec /\ HoldersWithdraw

-----------------------------------------------------------------------------
(* Type correctness                                                         *)

\* A stored balance fits its widths and never holds the positive zero.
StoredBalance == {b \in Balance : /\ FitsBalance(b)
                                  /\ Canonical(GetMargin(b))
                                  /\ Canonical(GetPosition(b))}

\* A stored index fits its widths and never holds the positive zero.
StoredIndex == {x \in Index : FitsIndex(x) /\ Canonical(SignedIndex(x))}

StoredBalances == [Account -> StoredBalance]
StoredIndexes  == [Account -> StoredIndex]

\* The memory of the trade() being executed.
CallTypeOK ==
    /\ call.accounts \in AccountList
    /\ call.initial \in [DOMAIN call.accounts -> StoredBalance]
    /\ call.current \in [DOMAIN call.accounts -> StoredBalance]
    /\ call.trades \in 0..MaxTrades
    /\ call.price \in Price
    /\ call.saved.balances \in StoredBalances
    /\ call.saved.localIndexes \in StoredIndexes
    /\ call.saved.globalIndex \in StoredIndex
    /\ call.saved.globalIndex.timestamp \in 1..now
    /\ call.saved.localOperators \subseteq Account \X Delegate

TypeOK ==
    /\ balances \in StoredBalances
    /\ localIndexes \in StoredIndexes
    /\ globalIndex \in StoredIndex
    /\ globalOperators \subseteq Operator
    /\ localOperators \subseteq Account \X Delegate
    /\ oracle \in Oracle /\ funder \in Funder
    /\ minCollateral \in MinCollateral
    /\ finalSettlementEnabled \in BOOLEAN
    /\ finalSettlementPrice \in Price \union {0}
    /\ status \in {NotEntered, Entered}
    /\ IF status = Entered THEN CallTypeOK /\ ~finalSettlementEnabled
                           ELSE call = NoCall
    /\ tokens \in 0..TokenSupply
    /\ prices \in [Oracle -> Price] /\ rates \in [Funder -> Rate]
    /\ now \in Nat /\ globalIndex.timestamp \in 1..now

-----------------------------------------------------------------------------
(* The ledger                                                               *)

NetValue(balance, price) == PositiveValue(balance, price) - NegativeValue(balance, price)

Positions(bals) == [account \in Account |-> Position(bals[account])]
Claims(bals, idxs) == [account \in Account |-> Claim(bals[account], idxs[account])]

\* Every trade adds to one position what it takes from another and nothing
\* else moves positions, also between the trades of one call: until final
\* settlement closes them one by one, the positions of all accounts cancel out.
PositionsNetZero == noFinalSettlement => Total(Positions(balances)) = 0

\* Settled to the global index and closed at one and the same price (the final
\* settlement price once there is one), all accounts together are owed no more
\* than the tokens the contract holds, although each is settled at another
\* time, with its own rounding.
Solvent ==
    \A price \in IF finalSettlementEnabled THEN {finalSettlementPrice} ELSE Price :
        Total([account \in Account |->
                  NetValue(Settled(account, globalIndex), price)]) <= BASE * tokens

\* _settleAccount skips an account whose index has the timestamp of the global
\* one: then the two indexes must be equal, or the account would miss funding.
InSync(idxs, index) ==
    \A account \in Account :
        /\ idxs[account].timestamp <= index.timestamp
        /\ idxs[account].timestamp = index.timestamp => idxs[account] = index

IndexesInSync == InSync(localIndexes, globalIndex)

\* trade() computes on copies of the balances in memory and writes them back
\* one by one: at each call of a trader the copies still are what is stored,
\* and settled to the current index.
MemoryMatchesStorage ==
    status = Entered =>
        \A i \in DOMAIN call.accounts :
            /\ balances[call.accounts[i]] = call.current[i]
            /\ localIndexes[call.accounts[i]] = globalIndex

\* What holds of the ledger before, during and after every transaction: the claims
\* of all accounts are covered, and after final settlement was enabled still are
\* when every open position is closed at the final price instead of the index.
BooksBalance(bals, idxs, index) ==
    /\ InSync(idxs, index)
    /\ noFinalSettlement =>
          /\ Total(Positions(bals)) = 0
          /\ Total(Claims(bals, idxs)) <= BASE * tokens
    /\ finalSettlementEnabled =>
          Total(Claims(bals, idxs))
            + (finalSettlementPrice - ToInt(SignedIndex(index))) * Total(Positions(bals))
              <= BASE * tokens

\* The inductive invariant from which the invariants above follow: it also keeps
\* what a revert of the trade() being executed restores.
IInv ==
    /\ TypeOK
    /\ BooksBalance(balances, localIndexes, globalIndex)
    /\ MemoryMatchesStorage
    /\ status = Entered =>
          /\ VerifyAccounts(call.accounts)
          /\ BooksBalance(call.saved.balances, call.saved.localIndexes,
                          call.saved.globalIndex)

-----------------------------------------------------------------------------
(* What a transaction does to the accounts, the market being what it is.    *)

\* The index and the price at which a transaction executed now values balances.
MarketIndex == IF finalSettlementEnabled THEN globalIndex ELSE ContextIndex
MarketPrice == IF finalSettlementEnabled THEN finalSettlementPrice ELSE ContextPrice

\* An account as the last transaction that ended left it, settled as it would
\* be now.
CommittedBalance(account) ==
    IF status = Entered
    THEN SettledBalance(call.saved.balances[account],
                        call.saved.localIndexes[account], MarketIndex)
    ELSE Settled(account, MarketIndex)

MarketUnchanged == MarketIndex' = MarketIndex /\ MarketPrice' = MarketPrice

Meets(account, collateral) ==
    IsCollateralized(CommittedBalance(account), MarketPrice, collateral)

\* The value of all accounts together.
CommittedValue(account) == NetValue(CommittedBalance(account), MarketPrice)
TotalValue == Total([account \in Account |-> CommittedValue(account)])

\* Only the market, time or a new requirement can make an account fall short of
\* the collateral requirement: no withdrawal and no sequence of trades, whatever
\* the traders return, does it to an account that meets the requirement.
NoTransactionUndercollateralizes ==
    [][MarketUnchanged /\ UNCHANGED minCollateral =>
          \A account \in Account :
              Meets(account, minCollateral) => Meets(account, minCollateral)']_vars

\* As long as the requirement is at least 100%, no transaction leaves an account
\* with debts above its assets that had none: also an account below the
\* requirement, which trade() may leave below it, keeps a non-negative value.
NoTransactionMakesBadDebt ==
    [][MarketUnchanged /\ minCollateral >= BASE =>
          \A account \in Account :
              CommittedValue(account) >= 0 => CommittedValue(account)' >= 0]_vars

\* What all accounts gain by a transaction is covered by the tokens that came in,
\* and what is paid out was taken from them: settling, trading, final settlement
\* and reverting create no value.
NoValueCreated ==
    [][MarketUnchanged => TotalValue' - TotalValue <= BASE * (tokens' - tokens)]_vars

\* After final settlement was enabled, index and price are fixed, the value of an
\* account never grows again, and when it drops the account is paid for it, up to
\* less than one token unit that is lost to rounding.
FinalSettlementPaysClaims ==
    [][finalSettlementEnabled =>
          /\ MarketUnchanged /\ finalSettlementEnabled'
          /\ \A account \in Account :
                LET loss == CommittedValue(account) - CommittedValue(account)'
                IN  \/ loss = 0
                    \/ loss - BASE * (tokens - tokens') \in 0..(BASE - 1)]_vars

\* A balance that outgrows its 120 bits when it is settled or paid can no longer
\* be withdrawn: every later attempt reverts as well.
LockedOut(account) ==
    \/ ~FitsBalance(Settled(account, globalIndex))
    \/ ~FitsBalance(RemainingBalance(account))

\* Final settlement always comes to an end: until there is nothing left to
\* withdraw, no account is kept from its tokens, whatever the others withdrew
\* before it, unless its balance no longer fits.
FinalSettlementCompletes ==
    finalSettlementEnabled ~>
        \/ tokens = 0
        \/ \A account \in Account : FinalValue(account) <= 0 \/ LockedOut(account)
=============================================================================
