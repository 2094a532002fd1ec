# TLA+ models of the Axor perpetual contracts and their client

This directory specifies and verifies the core of the repository: the `PerpetualV1`
contract (margin accounts, trades, funding, final settlement), the libraries it computes
with, the funding oracle, the order and liquidation traders, the liquidator proxy, the
TypeScript client that sends transactions to them, and the scripts that deploy them. TLC
checks the models on small instances, and TLAPS proves the main invariants for every value
of the constants.

All paths below are relative to `src/contracts/protocol/` unless they start with `src/`.

## 1. The system

A perpetual market is a set of contracts around one ledger. The ledger is `PerpetualV1`;
it is reached through an upgradeable proxy and calls out to a price oracle, a funding
oracle ("funder"), an ERC20 token and, during `trade()`, to trader contracts the admin has
approved. Traders and proxies call back into it.

| Component | State it keeps | Operations | Modules |
|---|---|---|---|
| **PerpetualV1** (`v1/PerpetualV1.sol`, `v1/impl/*`) | balance and local index of every account, global index, global and local operators, oracle, funder, minimum collateral, final settlement flag and price, reentrancy status | `deposit`, `withdraw`, `trade`, `withdrawFinalSettlement`, `setLocalOperator`, the admin functions, `initializeV1` | `PerpetualV1`, `P1Settlement`, `P1Index`, `P1BalanceMath` |
| **Libraries** (`lib/SignedMath`, `lib/BaseMath`, `v1/lib/P1BalanceMath`, `lib/SafeCast`) | none | signed and fixed-point arithmetic, balance structs, narrowing casts | `SignedMath`, `BaseMath`, `P1BalanceMath`, `P1Index` |
| **Funding oracles** (`v1/oracles/P1FundingOracle`, `P1InverseFundingOracle`) | the rate with the time it was set, the provider | `setFundingRate`, `setFundingRateProvider`, `getFunding` | `P1FundingOracle` |
| **Orders trader** (`v1/traders/P1Orders`) | filled amount and status of every order | `trade`, `approveOrder`, `cancelOrder` | `P1Orders` |
| **Liquidation trader** (`v1/traders/P1Liquidation`) | none | `trade` | `P1Liquidation` |
| **Liquidator proxy** (`v1/proxies/P1LiquidatorProxy`) | insurance fund and fee, token allowance | `liquidate`, `setInsuranceFund`, `setInsuranceFee`, `approveMaximumOnPerpetual` | `P1LiquidatorProxy` |
| **Client: transactions** (`src/src/modules/Contracts.ts`) | the network, the contract handles; per call of `send()` its options, event handlers and two promises | `setProvider`, `send` | `Contracts`, `TxPromise` |
| **Client: operations and one-line methods** (`TradeOperation.ts`, `Trade.ts`, `Admin.ts`, `Token.ts`, `Weth.ts`, ...) | the trades of an operation, whether it is committed | `fillSignedOrder`, `liquidate`, `commit`, `trade`, the methods that only call `send()` | `TradeOperation`, `ClientMethods` |
| **Client: reads** (`Getters.ts`, `Logs.ts`, `lib/types.ts`) | a read that is under way | net balance, collateralization, liquidatable status, parsing of logs | `Getters`, `ClientTypes` |
| **Client: orders** (`Orders.ts`) | none | conversion, hashing, signing, estimates of fills | `ClientOrders`, `OrderEstimates` |
| **Client: funding oracles** (`FundingOracle.ts`, `InverseFundingOracle.ts`) | a simulated update | `getBoundedFundingRate`, `setFundingRate`, `getFundingRate` | `FundingOracle` |
| **Client: exchange API** (`Api.ts`) | calls that wait for a wallet or an answer | `placePerpetualOrder`, `submitPerpetualOrder`, `cancelOrder` | `Api` |
| **Deployment** (`src/migrations`, `src/deploy`) | recorded addresses, the stage of a script | the truffle migration, the hardhat script | `Migration` |
| Price oracles (`v1/oracles/P1MakerOracle`, `P1ChainlinkOracle`) | routes and adjustments of readers | `getPrice`, `setRoute`, `setAdjustment` | not modelled, see section 6 |
| Upgradeable proxy (`PerpetualProxy`, `lib/Adminable`, `lib/Storage`) | implementation, admin | delegation | not modelled |
| Other proxies (`v1/proxies/P1Proxy`) | a token allowance | – | not modelled |
| Flattened and test contracts, build scripts | – | – | not modelled |

**Interactions.** Every external function of `PerpetualV1` except `trade()` and
`withdrawFinalSettlement()` starts by reading the oracle and the funder (`_loadContext`),
which moves the global index, and then settles the accounts it touches to that index.
`trade()` settles a list of accounts, then calls one trader per trade; traders read the
balances of `PerpetualV1` back (`P1Liquidation`, decrease-only orders) and keep their own
state. Proxies call several functions of `PerpetualV1` in one transaction.

The client builds calls of these functions, estimates their gas, sends them through web3
and turns the events about a transaction into promises. It reads the contracts by separate
calls, signs orders that `P1Orders` checks, and posts them to an exchange, which hands
them to `P1Orders` in turn. The migration deploys the contracts and connects them.

**What is hard.** A transaction is atomic, but it is not one step: traders are executed in
the middle of `trade()`, with half of the trades stored and none checked. Accounts are
settled lazily, each at its own time and with its own rounding, so the ledger balances
only when stale accounts are counted at what they would settle to. Accounts may become
under-collateralized, or worth less than nothing, only because the market moves; that a
sequence of calls never does it takes an argument about every sign combination of margin
and position. Final settlement is carried out by the holders one by one, perhaps with too
few tokens for all.

The client runs one handler at a time, but between two of them anything happens: the
provider changes, an event comes late, twice or not at all, an error is reported for a
transaction that is executed, the contract changes between two reads, a request that timed
out arrives. A deployment stops between two of its transactions and is run again while
some of them are still on their way. `PROJECT.json` lists the hazards with their lines.

**What makes each component correct.**

- PerpetualV1: positions cancel out; the contract owes no more than it holds; no
  transaction creates value, bad debt or under-collateralization; no funding is skipped or
  charged twice; final settlement pays what it owes and comes to an end.
- Funding oracle: the rate respects its bounds on size and speed over any sequence of
  updates, the provider gets what the bounds allow, and the funding that is charged after
  the fact is as close to what accumulated as these bounds can make it.
- Orders: no order is filled beyond its amount, after its cancellation or outside its
  limits; a reverted `trade()` undoes its fills.
- Liquidation: only accounts that are under-collateralized at their turn are liquidated,
  never to their disadvantage, and at most to the size of their position.
- Liquidator proxy: the fee is never more than its share of the profit, and the proxy
  keeps nothing.
- Client: a promise about a transaction settles once, and not with more than the chain has
  done; an operation that is marked as committed is neither changed nor sent again
  (`commit()` without options, or as a simulation, marks nothing, so that it may be
  repeated); every call of `trade()` has the form the contract asks for; reads and
  estimates agree with what the contract does, or err on the safe side; an order that is
  submitted again is not filled again, and a placement that is repeated is one order if
  the caller gives the salt and no expiration (by default each is a new order).
- Deployment: a script that ends has connected the contracts of one market, and no
  contract of another.

## 2. The modules

| Module | Stands for |
|---|---|
| `SignedMath` | `lib/SignedMath.sol`: pairs of magnitude and sign, with two zeros |
| `BaseMath` | `lib/BaseMath.sol`: fixed-point products with their rounding |
| `P1BalanceMath` | the `Balance` struct and `v1/lib/P1BalanceMath.sol` |
| `P1Index` | the `Index` struct and the casts it is stored with |
| `P1Settlement` | `v1/impl/P1Settlement.sol` as operators: next index, settled balance, collateralization; and the *claim* of an account, which the properties use |
| `Totals` | sums defined by counting, over accounts, orders, requests or seconds |
| `PerpetualV1` | the state machine of the contract, its properties and its inductive invariant |
| `Ledger` | the abstract specification of the contract: claims on tokens |
| `PerpetualLedger` | the contract as an implementation of it |
| `MCPerpetualV1` | instances of the contract for TLC |
| `P1FundingOracle`, `MCP1FundingOracle` | the funding oracles, and their instances |
| `P1Orders`, `MCP1Orders` | the order trader within `trade()`, and its instances |
| `P1Liquidation`, `MCP1Liquidation` | the liquidation trader within `trade()`, and its instances |
| `P1LiquidatorProxy` | `liquidate()` on top of `P1Liquidation` |
| `ProxyLedger`, `MCP1LiquidatorProxy` | the contract with the proxy as an implementation of `Ledger`, and its instances |
| `Contracts` | the client's contract handles and `send()`, with web3 and the chain around them |
| `TxPromise` | the abstract specification of `send()`: two promises per transaction |
| `ClientMethods` | which contract functions the client's methods name, and which there are |
| `TradeOperation`, `MCTradeOperation` | operations, direct trades and one-line methods on top of `Contracts`, and an instance |
| `ClientTypes` | `lib/types.ts` and the parsing of words in logs |
| `Getters`, `MCGetters` | reads of an account next to `PerpetualV1` |
| `ClientOrders` | orders, flags, hashes, signatures, fees and estimates of `Orders.ts` |
| `OrderEstimates`, `MCOrders` | the client's orders on `P1Orders` |
| `FundingOracle`, `MCFundingOracle` | the client of the funding oracle on `P1FundingOracle` |
| `Api`, `MCApi` | the client of the exchange, with the exchange and the wallets |
| `Migration` | the deployment scripts |
| `P1Settlement_proofs` | lemmas about `SignedMath`, `BaseMath`, `P1BalanceMath`, `P1Settlement` and `Totals` |
| `PerpetualV1_proofs`, `Liquidation_proofs`, `OrdersAndReads_proofs` | theorems about the contract and the ledger it implements, and about what is composed with it: liquidation with its proxy, orders with the client's estimates, reads |
| `FundingOracle_proofs`, `TradeOperation_proofs`, `Api_proofs`, `Migration_proofs` | theorems about the funding oracles with their client, about sends and operations, about the client of the exchange, about the deployment |

### The contracts

**State.** The variables of `PerpetualV1` are the storage variables of `P1Storage` and
`ReentrancyGuard` under the names without underscores (mappings to booleans are sets of
their true entries; `_TOKEN_` is fixed). `tokens` is the balance of the contract in the
token, `prices` and `rates` are what each oracle and each funder reports, `now` is the
time of the block. `call` is the memory of the `trade()` being executed: the sorted
accounts, the balances at the start and now, and what a revert restores.

**Actions.** One action per external function. A `require` is a guard: a function that
reverts changes nothing. Each action includes everything the function does, the update of
the global index and the settlement of accounts included (`LoadContextAndSettle`); its
narrowing casts are guards (`FitsBalance`, `FitsIndex`).

`trade()` is the exception, because the outside world sees its intermediate states: it is
split at the calls of traders into `TradeBegin`, a `TradeStep` per trade and `TradeEnd`,
or `TradeRevert` at any point. A trader may return any result, so the model covers every
trader that can be written, and the properties do not depend on which ones the admin
approves. While a `trade()` runs the reentrancy guard blocks every other action except
`SetLocalOperator`, which has no guard; the market and the time do not change, since it is
one transaction.

**Refinement.** `Ledger` is the contract as its users may think of it: they have claims on
the tokens it holds, counted in `1/BASE` token, and positions. There are no prices, no
funding, no collateral and no permissions. A deposit or a withdrawal changes one claim by
the tokens that come or go; a trade moves claims and positions among its parties;
`Close` values all positions that are open, once and for all; `Payout` pays an account
and leaves it a claim only if no tokens are left. Whatever an operation loses besides is
bounded by the rounding of the accounts it settles, and no operation gains.
`ImplementsLedger` in `PerpetualLedger` maps the contract to it. The claim of an account
is taken at the account's *own* index, so that funding, which changes only the global
index, moves no claim. While `trade()` runs the ledger shows what a revert would restore:
its first steps and its revert are stutters, and its end is one trade. What closing adds
to a claim is the difference between the final price and the index for each unit of
position.

`ProxyImplementsLedger` in `ProxyLedger` says the same of the contract with the liquidator
proxy. A `liquidate()` commits up to four calls of `PerpetualV1` one after the other, but
what it has committed can still be undone. The mapping therefore shows what a revert of
the whole would leave, until its last call: then the four calls are a single trade among
the liquidator, the liquidated account and the insurance fund, by which no tokens come or
go, and one that reverts is no step at all.

**Composition.** `P1Orders` and `P1Liquidation` each extend `PerpetualV1` with the state
of one trader and replace the anonymous `TradeStep` by two kinds: a trade with this trader
(`OrderTrade`, `LiquidationTrade`), whose result is what the contract computes from the
balances it reads there and then, and a trade with any other (`OtherTrade`). All other
actions are those of `PerpetualV1`. A trader's own state is part of the transaction: the
fills of an order are saved when `trade()` begins and restored when it reverts. Approving
and canceling an order may happen in the middle of a `trade()` too, when a trader contract
it calls is, or calls, the maker; a revert then undoes it. Which orders a caller holds a
valid signature for is a constant: the recovery of signers is not modelled.

`P1LiquidatorProxy` extends `P1Liquidation`. `liquidate()` is one transaction of up to
four calls of `PerpetualV1`, one of them split again; its steps (`LiquidateSettle`,
`LiquidateTradeBegin`, `LiquidateTrade`, `LiquidateTradeEnd`, `LiquidateWithdrawFee`,
`LiquidateDepositFee`) use the actions of the lower modules, `frame` holds its local
variables and the storage that a revert restores, and while it is not `NoFrame` nothing
else happens. `LiquidateRevert` is possible at each point. The proxy's tokens and its
allowance stand for the state of the ERC20 contract; tokens that others send to the proxy
are not counted.

**Abstraction.** Logging and compressed encodings are left out. The 32-, 120- and 128-bit
checks are kept, SafeMath's checks for 256 bits are not: products of stored quantities
alone stay below 256 bits, but a price and a requirement are 256-bit numbers, and with
extreme ones (a price above 2^136, say) a product of them overflows and the call reverts
where the model's goes on. Within `trade()` this is no restriction, as `TradeRevert` is
always possible; elsewhere the model has steps that the contract refuses, so that the
safety properties cover it. `FinalSettlementCompletes` holds for a final price whose
products fit. The token is one without callbacks or
fees. Who the admin is plays no role.

The funding oracle keeps its two storage variables. A history variable records every rate
that was set, of which the contract stores only the last but its comments speak: of the
time between two updates, and of the funding that accumulated.

### The client

**Turns.** JavaScript runs a handler and all that follows from it without waiting before
the next event. An action of `Contracts`, `TradeOperation` and `Api` is one such turn, up
to the next `await` or return. `Send` is everything `send()` does before it waits: the
lookup of the handle, the merge of the options, and either the start of a gas estimate
(`"estimating"`) or the transaction with its handlers on the PromiEvent (`"sent"`).
`Estimated` and `EstimateFails` are the two ends of the estimate, `OnTransactionHash`,
`OnError`, `OnReceipt` and `OnConfirmation` the handlers, with the removal of handlers
that their code does.

**What is external.** web3 and the chain: a transaction becomes known (`ChainAccepts`), is
executed or reverts (`ChainExecutes`), and gets buried (`ChainGrows`) independently of the
events. Events may be repeated; an error may be reported at any time before the handlers
are removed. `off()` of the PromiEvent is modelled as removing the handlers of the
transaction. The exchange, its network and the wallets in `Api`, and the chain, truffle
and hardhat-deploy in `Migration`, are external too.

**Refinement.** `TxPromise` says what a caller of `send()` may rely on: each promise
settles at most once, the hash only for a transaction that a node knows, the confirmation
only for one that was executed and is as deep as was asked for. `SendKeepsItsPromise` is
`TxPromise!Spec` under the mapping of `Contracts`, in which the confirmations that are
asked for come from the merged options (`required`). Everything else about events, options
and estimates is hidden by it.

**Operations.** `TradeOperation` extends `Contracts` with the trades and the flag of each
operation. Addresses are numbers with a spelling, since the code compares and sorts them
as text. `Commit` marks the operation and hands its call to `send()` in the same turn;
`Marks(options)` says when the mark is made. The one-line methods of the other classes are
`Wrapper`, with the functions that the contracts' interfaces have in `ClientMethods`.

**Reads.** `Getters` evaluates the net balance of an account on the state of one block
(`NetAccountBalanceOfBlock`), and as a sequence of three calls (`ReadBalance`,
`ReadGlobalIndex`, `ReadLocalIndex`) between which the contract goes on. BigNumbers are
integers, with quotients rounded to `RatioUnit`-ths; a rate or a price may be finer than
the contract's unit (`PARTS`).

**Orders.** `ClientOrders` converts orders to what `P1Orders` takes, and gives the hash
and the signature of each signing method; a hash stands for what is hashed, so that only
what the code leaves out of it, or mixes up, can make two of them equal. `OrderEstimates`
composes this with `P1Orders`: its orders are the converted orders of the client.
`FundingOracle` composes the client's simulation of an update with `P1FundingOracle`: the
simulation is a call in one block, the update a transaction in a later one.

**Exchange.** In `Api` a call creates an order, has it signed, posts it, and waits for an
answer or the timeout. Requests and answers are delayed without a bound; a caller may
repeat its call, or submit the order it has. The exchange accepts what carries a valid
signature (or declines it), and fills open orders.

**Deployment.** `Migration` is an interpreter of stages: the transactions that a script
sends together and then awaits. A run stops by a failure, an exception or an interruption,
and `RunAgain` starts it over, while transactions of the earlier run may still be
executed.

**Abstraction.** Logging, gas statistics, number formatting and address checksums are left
out.

## 3. What is checked

The runs of the contracts have `BASE = 2`, so that a price or a rate of 1 is one half: every product with
an odd factor is rounded.

| Run | Question | Properties |
|---|---|---|
| `trading` | deposits, withdrawals, price changes, delegates, a requirement that is raised and lowered, up to two trades in a call; lists of up to three accounts, sorted or not, with repetitions | `MemoryMatchesStorage`, `NoTransactionUndercollateralizes`, `NoTransactionMakesBadDebt` |
| `final` | trading with funding in both directions, accounts settling at different times, then final settlement, to its end | `IInv`, `Solvent`, `FinalSettlementPaysClaims`, `ImplementsLedger` (refinement), `FinalSettlementCompletes` (liveness) |
| `rate` | all sequences of requests to the inverse funding oracle, with and without a simulation by the client | `TypeOK`, `UpdatesSpeedLimited`, `FullSwingTakesTime`, `ClosestAllowedRate`, `SimulationsHold`, `RetroactiveFundingBounded` |
| `orders` | two orders built by the client, with limits, a rebate, a trigger price and an expiry: signed, approved, canceled, filled in parts | `OrdersTypeOK`, `PositionsComeFromFills`, `LimitsRespected`, `FillsAsPredicted`, `EstimatesAreConservative` |
| `decrease` | a decrease-only order next to another trader, with every function of `PerpetualV1` | `CanceledForever`, `DecreaseOnlyDecreases` |
| `liquidation` | liquidations among other trades of a call, with every function of `PerpetualV1` | `LiquidatedAccountsAccepted`, `HealthyAccountsLeftAlone`, `LiquidationKeepsRatio` |
| `profit` | liquidations through the proxy with profits, losses, limits, fees and reverts | `ProxyTypeOK`, `FeeIsShareOfProfit`, `MaxPositionRespected`, `ProxyImplementsLedger` (refinement) |
| `reads` | reads of an account, of one block and of the latest one, while the market goes on | `BlockReadsExact`, `LatestReadsExactUnlessSettled` |
| `send` | two concurrent sends of every kind, with lost, late and repeated events and changes of the network | `ContractsTypeOK`, `CallsAreWellFormed`, `NothingAfterCommit`, `SendKeepsItsPromise` (refinement), `SendsSettle` (liveness) |
| `recommit` | the same; what a refused commit says (section 5) | `CommittedMeansSent` is violated |
| `api` | orders placed, repeated, submitted and canceled over a slow network, by two wallets | `ApiTypeOK`, `RetriesFillOnce`, `SignedRequestsAreValid` |
| `migrate` | both scripts, on each kind of network, stopped at any point and run again | `DoneMeansWired`, `MarketsSeparate` |

**Bounds and why they are enough.**

- Two accounts, three in `profit`, so that a third one is left out of a trade, or stale;
  in `trading` lists have up to three entries, so that `VerifyAccounts` sees repetitions
  and every order. With two trades in a call an account can be maker and taker, pass
  through a balance that is not allowed, and be traded with itself.
- Amounts 0 to 2 and 120-bit quantities of at most 2 or 3 reach positions of both signs,
  margins of both signs, the overflow of the width, and sums that round. With
  `MinCollateral = 3` (150%) an account can be above the requirement, below it with a
  positive value, and below zero.
- Prices 1 and 3 make a position lose or gain a full token unit at once, and each is odd,
  so that position values are rounded. The price 0, two oracles with prices that differ,
  and requirements below 100% are covered by the proofs, which hold for any of them.
- In `final` and `reads` the rates are one unit per second in either direction, and the
  time runs one second or two, so that an account can be one update behind or more, and
  the index crosses zero. `trading`, `decrease` and `liquidation` have no funding,
  `decrease` has two oracles.
- `reads` restricts the market (`MarketNext`): operators, once approved, stay and nothing
  is donated. Its one price is enough, because a read does not depend on how the price
  moved.
- `rate`: with `MAX_ABS_VALUE = 2` and a swing time of 3 the limit per second is rounded
  down (4/3 to 1); six seconds are enough to reach the minimum, and then the maximum.
  Requests include both zeros, values beyond the bounds and, by the client, half units.
  The two providers are interchangeable (`SYMMETRY`). The oracle of the ordinary market
  differs from the inverse one by a sign, and the proofs cover both.
- `decrease` and `liquidation` use the full next-state relation of their modules. `orders`
  and `profit` need larger balances and restrict it, in the MC module: between calls of
  `trade()` `orders` allows approvals, cancellations, deposits, new operators, price
  changes and the passing of time, and one of the two orders is signed; `profit` allows
  one deposit per account and one opening trade, after which prices and time change and
  the proxy is used, any number of times. `ProxySpec` is the specification of the proxy in
  an unrestricted market.
- `send`: two sends are enough for a second commit of the same operation, or a direct
  trade that competes with it. The first has three kinds of options, the second four kinds
  of calls; the second network lacks a contract, so that handles lose their address. A
  block gets one confirmation deep, and 0 or 1 are asked for. The error, the hash and the
  receipt of both sends arrive in every order.
- `api`: three calls, of which the second can repeat the first or submit its order and the
  third can submit or cancel it; placements with and without a salt, an expiry and a fee,
  one with a fee of minus zero and one for a market there is not; two networks.
- `migrate`: two runs of a script, so that the second meets whatever the first left. The
  proofs cover any number.
- `profit`: three accounts, so that the insurance fund can be a bystander, with balances
  up to 12 tokens. The opening trades leave accounts so close to the requirement of 200%
  that a price change makes a long one, or a short one, fall below it. Funding is paid in
  between, liquidations end with a profit or a loss, liquidators have no position or one
  of either sign, and their limits cut liquidations short. The insurance fee is 50%, or
  the 150% that only the constructor accepts.

**Fairness.** Two specifications assume any, and no other action is assumed to happen.

- `FairSpec` of `PerpetualV1`: each account that could call `withdrawFinalSettlement` with
  an effect, does so eventually (weak fairness of `WithdrawFinalSettlement(sender)` per
  sender). No other participant can block such a call in the code, as it needs no oracle,
  no operator and no other account, and nobody can make the call for the holder, so
  without it nothing is paid. `FinalSettlementCompletes` exempts accounts whose settled
  balance no longer fits 120 bits (`LockedOut`): the code reverts every call of such an
  account.
- `FairSpec` of `TradeOperation`: weak fairness of `AnswerStep(s)` per send. An estimate
  returns or fails, and web3 stops waiting for a transaction after a number of blocks or
  of seconds and then reports an error; that the chain executes the transaction is not
  assumed. `SendsSettle` does not follow from this alone: a handler that returns without
  settling, or that removes the others too early, leaves a promise open forever.

**Deadlock** is checked in the runs of the contracts, where some function can be called in
every state. It is not checked in `send`, `recommit`, `api` and `migrate`: a client whose
calls have all settled, and a script that is done, have nothing left to do.

Each property has a mutant: a changed definition, next to the original in the module, that
is a plausible mistake in that piece of code and that the property detects under its run.

## 4. What is proved

All proofs are checked by TLAPS, with no assumption besides the named `ASSUME`s on the
constants (positive `BASE`, finite sets of accounts, of orders and of calls, natural
widths, sets of naturals or of signed integers, orders that hash differently), which TLC
evaluates in the runs. Of the properties of the runs that are expected to hold, all are
proved but the two of liveness.

**PerpetualV1** (`PerpetualV1_proofs`), for any number of accounts, any prices and rates,
any sequence of trades and any widths:

- `TypeCorrect`: `Spec => []TypeOK`. Beyond the types it says that every stored value fits
  its width and that the positive zero is never stored.
- `PositionsCancelOut`, `IndexesStayInSync`, `MemoryIsStorage`, `ContractIsSolvent`: the
  invariants `PositionsNetZero`, `IndexesInSync`, `MemoryMatchesStorage`, `Solvent`.
  All follow from `InductiveInvariant`: `Spec => []IInv`.
- `NoneUndercollateralized`, `NoBadDebtMade`, `FinalSettlementPays`, `NoValueFromNowhere`:
  the action properties `NoTransactionUndercollateralizes`, `NoTransactionMakesBadDebt`,
  `FinalSettlementPaysClaims`, `NoValueCreated`.
- `ContractKeepsBooks`: `Spec => ImplementsLedger`, the refinement of `Ledger`.

`PositionsNetZero` and `IndexesInSync` are conjuncts of `IInv`, which the run `final`
checks. No run checks `NoValueCreated`, which is only proved: where it says what all
accounts gain together, the refinement bounds what each operation moves.

*The argument for the invariants.* `Solvent` speaks of balances settled to the global
index at some price and is not inductive: settling all accounts rounds, and the next index
is not known. `IInv` replaces it by a statement about *claims*. The claim of an account at its own index, `BASE
* margin + index * position`, is what settlement keeps: computed exactly it would not
change, and the code's rounding (credits down, debits up) can only lower it
(`SettlementBounds`, from `BaseMulBounds` and `BaseMulRoundUpBounds`). A trade moves equal
amounts between two settled accounts and leaves the total of claims; a deposit or a
withdrawal changes it with `tokens`. Hence

    total of claims <= BASE * tokens          and          total of positions = 0

is preserved by every action before final settlement, whatever the index does: because
positions cancel out, the index can move without moving the total. After final settlement
positions are closed one by one at the final price `p`, and `IInv` says

    total of claims + (p - index) * total of positions <= BASE * tokens

which is the former when positions cancel out, so that `EnableFinalSettlement` establishes
it, and which each withdrawal preserves. `Solvent` follows from it, because the value of a
settled account at price `p` is its claim plus `(p - index) * position`. `IInv` also needs
that accounts with the time of the global index have the global index (`IndexesInSync`, or
skipping their settlement would break the claims), that the memory of a running `trade()`
agrees with storage (`MemoryMatchesStorage`, which needs the list of accounts to be
strictly sorted), and that the state a revert restores balances as well.

*The argument for the action properties.* They compare the account as the last finished
transaction left it (`CommittedBalance`) before and after a step. `StepKinds` sorts the
steps: a deposit, a withdrawal, a payment after final settlement, the end of a `trade()`,
and all others, which commit nothing. The end of a `trade()` needs two more invariants.
`CallRemembers`: while the call runs, its memory has the price and the balances it began
with, and the accounts it does not list are as they were. `MarginsKept`: the settled
margins of all accounts keep their total, which with `PositionsNetZero` means that the
value of all accounts does. An account may end a call below the requirement if its ratio is
no worse than before. `AllowedMeets` shows that this rule cannot take an account below a
requirement it met, because the division by `BASE` in it is exact: the value that is
divided comes from the margin alone. With the requirement itself and with 100% for the
strictness this gives `NoneUndercollateralized` and `NoBadDebtMade`.

*The argument for the refinement* has one lemma per action of `Ledger` (`DepositLedger`,
`WithdrawLedger`, `TradeEndLedger`, `PayoutLedger`, `EnableLedger`), and `QuietLedger` for
the steps that the ledger does not see. An upper bound of what is lost is new in it:
settling an account to a new index loses less than one unit (`SettleLoss`, a lower bound
where the invariants need an upper one). The trades of a call lose nothing
(`TradeStepTotals`), so that at its end the total of claims is below the saved one by at
most one unit for each account of the list; this has to be known at every step in between
(`LossBounded`, a further invariant). That `Payout` pays in full while there are tokens
is where the two cases of `withdrawFinalSettlement`, enough tokens or too few, come
together (`PaidInFull`).

The totals are defined by counting (`Totals`), as `Cardinality` of a set of units: their
linearity (`TotalLinear` in `P1Settlement_proofs`) then follows from the library's theorems
about finite sets, where a recursive sum would need an induction over data.

**Funding oracle** (`FundingOracle_proofs`): `TypeCorrect` (the bound on the size),
`SpeedIsLimited` and `FullSwingIsSlow` from `InductiveInvariant`, which adds that no
recorded update is later than the stored one, and that the first is that of the
deployment; the limits of consecutive periods add up.
`ProviderGetsClosest` is the action property `ClosestAllowedRate`; it rests on
`BoundRateCorrect`, the specification of `_boundRate`. `SimulationsAreKept` is
`SimulationsHold`, of the client: the result of a simulation stays one of the rates that
are allowed, since these only get more while nobody sets the rate, so that asking for it
later gives exactly it (`SimulationAllowed` is the invariant). `RetroactiveIsBounded` is
`RetroactiveFundingBounded`: at every second some update was in force (`InForceExists`,
from the one of the deployment), its rate differs from the present one by at most the
limit times the seconds from the update in force when the period began to the last one
(`RateSince`), and these differences add up over the period (`DifferencesAddUp`), the
seconds after the last update adding none.

**Orders** (`OrdersAndReads_proofs`): `OrdersImplement` is the refinement `OrdersSpec => Spec`,
by which all theorems of `PerpetualV1` carry over. `OrdersTypeCorrect` says that no order
is ever filled beyond its amount, reverted calls included; `CancellationIsFinal` and
`DecreaseOnlyHolds` are `CanceledForever` and `DecreaseOnlyDecreases`. The last one rests
on `MemoryMatchesStorage`: the balance the trader reads is the one `trade()` changes.

- `MakersGetTheirLimits` is `LimitsRespected`. A limit bounds price and fee separately, and
  the fee is a rounded part of the price that may be a rebate: that a better price with a
  smaller fee is better together needs that a fee of at most 100% takes at most what the
  price gains (`FeeOfPrice`).
- `FillsExplainPositions` is `PositionsComeFromFills`. Its invariant (`FillsInv`) says the
  same of the fills and the positions that a revert restores.

*The client of the orders*, in the same module, since its statements are about both.

- `FlagsRoundTrip`: the flags and the end of the salt survive being packed into a word.
- `PredictionsAreExact` is `FillsAsPredicted`. The client calculates with finer numbers
  (`PARTS`) and two truncations where the contract has other ones; both give the same,
  because the common factor can be canceled before truncating (`CommonFactor`).
- `EstimatesHold` is `EstimatesAreConservative`. Its invariant (`EstimatesInv`) accounts
  for the balance of everyone who has not been a taker in the call by what its orders have
  moved: the position exactly, the margin at least at the limits, each order rounded once
  (`AtLimit`), less one unit per trade unless the account only buys. One more fill keeps
  this, because two floors differ from the floor of the sum by less than a unit
  (`FloorsAdd`). The client then finds the amounts again that it was given in quote
  tokens (`AmountFromTokens`), and a ratio grows with the margin (`MoreMargin`).

**Liquidation** (`Liquidation_proofs`): `LiquidationImplements` is `LiquidationSpec =>
Spec`; `LiquidationTypeCorrect`; `HealthyAreLeftAlone`, which is
`HealthyAccountsLeftAlone`: every liquidation takes from an account that falls short of the
requirement on the balance the trades before it have left, also one that they took below it
(`StepLiquidatesShort`: the balance read is the one in the memory of the call, by
`MemoryMatchesStorage`), and an account that met the requirement and took no other part in
the call has the balance it had (it needs that nothing outside the call changes the
requirement, the price or the balances while the call runs: `OtherStepInTrade`); and `RatioIsKept`, that a
liquidation takes a part of the position and of the margin such that `margin' * position
>= margin * position'` for a long account (the other way round for a short one), for all
balances and amounts. It follows from the bounds of the two roundings
(`GetFractionBounds`, `GetFractionRoundUpBounds`). `LiquidatedPass` is
`LiquidatedAccountsAccepted`: an account that took no other part in a call is as it was, or
fell short when the call began and is a part of what it was (`OnlyReduced`). That is
inductive because a part of a part is a part, and such a part passes the checks of
`_verifyAccountsFinalBalances` if the account had any assets (`PartIsAccepted`).

**Liquidator proxy** (`Liquidation_proofs`). A revert of `liquidate()` undoes several
committed calls of `PerpetualV1` at once and is not a step of its specification, so that
its theorems do not carry over. `ProxyInvariant` therefore proves anew that `ProxySpec`
keeps `IInv`, together with what `liquidate()` remembers between its calls (`ProxyIInv`):
the books it would restore balance, the liquidator was settled at the start to what the
local variable holds, the two accounts are the only ones touched, and at each stage the
position and the fee are what they should be (`StageOK`). The single calls are steps of
`P1Liquidation`, and their lemmas are reused. From it follow `ProxyTypeCorrect`,
`ProxyKeepsSolvent` (`Solvent` between the calls and after a revert, with the proxy),
`MaximumRespected` (`MaxPositionRespected`) and `FeeShared` (`FeeIsShareOfProfit`). The
proxy passes lists of two accounts, so `ProxyAssumption` asks for `MaxAccounts >= 2`.

`ProxyKeepsBooks` is `ProxySpec => ProxyImplementsLedger`. For the steps between two
liquidations the lemmas about the contract's own refinement are reused (`MarketStep` in
`ProxyStepLedger`). While `liquidate()` runs, `LossInFrame` says what it has lost of the
claims so far: no more than the rounding of the accounts it has settled (`Settlers`),
apart from the fee that rests with the proxy between the last two calls. Each of the four
calls keeps this (`SettleLoses`, `TradeEndLoses`, `WithdrawFeeLoses`, `DepositFeeLoses`);
the trade in the middle only moves margin from one account to the other
(`TradeLoses`). An account that was settled once in a `liquidate()` has the index of
the whole transaction, so that a later call, which settles it again, takes nothing more
(`MarginTotals`, `NoRounding`).

**Reads** (`OrdersAndReads_proofs`), for the contract with the reader next to it, whatever happens
between two calls (`GettersSpec`, which the run restricts to `MarketNext`):
`BlockReadsAreExact` and `LatestReadsAreExact` are `BlockReadsExact` and
`LatestReadsExactUnlessSettled`. They rest on three facts about numbers: settling rounds
towards minus infinity, as the client does (`NetBalanceExact`); a ratio that is rounded to
`RatioUnit`-ths, a multiple of `BASE`, cannot reach a requirement that the exact one falls
short of (`RoundedBelow`); and the words of the logs are parsed to what was written
(`BalanceWord`, `IndexWord`). `ReaderInv` says what the client holds between two calls.

**Sends and operations** (`TradeOperation_proofs`), for any number of sends, networks,
options, operations and callers:

- `ContractsTypeCorrect`: `Spec => []ContractsTypeOK`. Its part `StageFits` says which
  handlers and which outcomes are possible at each stage of a send, and is inductive.
- `SendRefinesTxPromise`: `Spec => TxPromise!Spec`. Each turn maps to one step of
  `TxPromise`, or to a stutter: `Send` to `Ask`, the chain's actions to `Progress`, the
  handlers to `SettleHash` or `SettleConfirmation`. It needs `StageFits`: a handler may
  only be there while its promise is open.
- `CommitIsFinal`: `NothingAfterCommit`. It needs that a send which is new in a turn
  belongs to the operation that was committed in it (`CallOfCommitted`).
- `TradeCallsWellFormed`: `CallsAreWellFormed`. The list of accounts is defined as *the*
  sorted one, so it has to be shown that there is one (`SortedListExists`, by counting the
  accounts up to each address) and that it leaves none out (`ListIsComplete`, by the
  pigeonhole principle). Trades keep their addresses in lower case, or the order of the
  spellings would not be the order of the addresses.

**Exchange** (`Api_proofs`), for any number of calls, placements, networks and wallets:
`ApiTypeCorrect`, `SignaturesAreValid` (`SignedRequestsAreValid`) and `RetriesAreSafe`
(`RetriesFillOnce`). The invariant `ApiIInv` says of each call that its request is the one
its arguments make, signed before it left (`CallInv`), and of the exchange that no hash is
filled beyond its amount (`BookInv`). `RetriesAreSafe` counts: the same order, sent any
number of times, has one hash, so that there are no more hashes than orders the wallet has
signed (`HashesCounted`), and each is filled up to the amount at most (`HashAmount`). A
placement with its own salt and no expiration always gives the same hash (`OneHash`), so
that the total over its hashes has at most one term; by default each placement is another
order, and the bound grows with their number.

**Deployment** (`Migration_proofs`), for any number of runs: `ScriptsWireTheirMarket`
(`DoneMeansWired`) and `MarketsStaySeparate` (`MarketsSeparate`), from
`MigrationInvariant`. Transactions of an earlier run may be executed at any later time, so
the invariant says of each transaction of any run that it does no harm whenever that is
(`Harmless`). Those of a truffle run only know addresses of that run: an address is
determined by the name of the contract and the run. Those of the hardhat script know the
recorded addresses, and a record never changes once it is made (`Extends`). The other half
is that a stage which is left behind has achieved what it was for (`Fulfilled`), by
receipts of transactions that are known to be executed. The hardhat script does not wait
for `initializeV1`, and yet the market is initialized when it ends: the later call of
`approveMaximumOnPerpetual`, which it does wait for, fails on a market without a token
(`ExecutedInv`).

**Libraries** (`P1Settlement_proofs`): the pairs behave as the integers they stand for,
the bounds of fixed-point products and of settlement, and totals.

**Only model-checked.** Liveness (`FinalSettlementCompletes`, `SendsSettle`): the prover
does not handle fairness and `ENABLED`. That the contract with the order trader, or with
the liquidation trader, implements `Ledger` is not stated separately: it follows from `ContractKeepsBooks` with `OrdersImplement`, or
`LiquidationImplements`.

## 5. Disagreements between comments and code

**A run shows it.** `recommit`: a commit that is refused says "Operation already
committed". `commit()` of `src/src/modules/TradeOperation.ts` marks the operation, and its
`catch` block means to take the mark back when sending fails. But the promise of `send()`
is returned without an `await`, so that its rejection never reaches that block: after a
failed gas estimate nothing was sent, and the operation can never be committed.

**Noticed while modelling**, and kept in the models as they are:

- `initializeV1` stores any requirement, while `setMinCollateral` rejects values below
  100% ("The collateral requirement cannot be under 100%").
- The comment on the bounds of the funding rate says that going from the minimum to the
  maximum takes 45 minutes. This is so from the update that sets the one to the update
  that sets the other (`FullSwingTakesTime`, proved); but a rate that has been left at the
  minimum for that long then goes to the maximum in a single call.
- `getFunding` is documented as the funding that has accumulated over a period; it is the
  current rate times the length of the period. A new rate is thus charged for the time
  since the last update of the index of `PerpetualV1` too. The model of `PerpetualV1` does
  exactly this (`NextIndex`), and its invariants hold nevertheless. How far the charge can
  be from what accumulated is `RetroactiveFundingBounded` (proved): nothing if the rate was
  not updated in the period, and otherwise what the speed limit lets the rate move.
- Deployment: the migration throws on kovan, for which there is no Chainlink aggregator;
  on mainnet it uses `soloBridgeProxy` and `wethProxy`, which are not defined
  (`src/migrations/2_deploy.js`:186). Neither reaches its end, so that `DoneMeansWired`
  speaks of development networks there. The hardhat script prints "DONE SET ROUTE"
  (`src/deploy/2_deploy_main_contract.ts`:61) although the call is commented out;
  `DoneMeansWired` asks for no route in its case.
- An order to buy that asks for a rebate above 100% can hardly be filled: the price with
  the rebate is below zero, at which the trade reverts, unless the price is zero.
  `getAccountCollateralizationAfterMakingOrders` counts such a rebate as income, and it
  divides by the limit price, which may be zero. `EstimatesAreConservative` leaves these
  orders out (`Estimable`).
- Client (files of `src/src/modules`): `lift`, `drop` and `setBar` of `Relayer.ts` (from
  line 259) name functions that the interface of the oracle does not have, so that web3
  throws (`HasFunction` in `ClientMethods`); `getAdmin` of `Getters.ts`:173 calls
  `owner()`, which there is not either; `Logs.ts`:52 keeps its table of addresses when the
  provider changes; `Api.ts`:365 throws an error
  without the message it has just copied.

## 6. Not modelled

- *Price oracles.* `PerpetualV1` accepts any price from its oracle, which covers what
  these can answer; their setters appear as methods of the client and calls of the
  migration. What remains is a scaling around an external call.
- *Upgradeable proxy.* The delegation is OpenZeppelin's; replacing the implementation
  replaces the program that is modelled.
- *Currency converter, Solo bridge and Weth proxies.* Only `P1Proxy`, their base class, is
  in the repository.
- *Client.* Getters that are a single call; the choice of the contract that parses a log;
  gas statistics; requests to the exchange that only read.
- *Flattened contracts, test contracts, build scripts.* Generated, or tools that copy
  files.

## 7. Plan

Done: the contracts, the liquidator proxy included, with their proofs and the ledger they
implement; the client's transactions and operations with the refinement of `TxPromise`;
reads, orders, estimates, funding oracles and exchange of the client; the deployment.
Every safety property of a run is a theorem.

Left: `P1FundingOracle` composed with `PerpetualV1` as its funder, to bound how far the
index can move in a period.
