----------------------------- MODULE Migration -----------------------------
(***************************************************************************)
(* The deployment of a market: the truffle migration (migrations/2_deploy.  *)
(* js, helpers.js) and the hardhat script (deploy/2_deploy_main_contract.   *)
(* ts).  A script goes through stages; the transactions of a stage are      *)
(* sent together (Promise.all, or one alone) and awaited.  It stops when    *)
(* one of them fails, when it throws or when it is interrupted, while what  *)
(* it has sent may still be executed, and can be run again.                 *)
(*                                                                          *)
(* The chain, truffle and hardhat-deploy are external.  The transactions of *)
(* the deployer are executed in the order they were sent in.  Truffle is    *)
(* called with --reset: every run deploys anew.  hardhat-deploy keeps what  *)
(* it has recorded as deployed with the same arguments.                     *)
(***************************************************************************)
EXTENDS Integers, Sequences, SequencesExt

CONSTANTS Scripts,        \* <<tool, network>> that are explored
          MaxRuns         \* bounds the runs of a script

Script == {<<"truffle", "dev">>, <<"truffle", "kovan">>, <<"truffle", "mainnet">>,
           <<"hardhat", "dev">>}

ASSUME MigrationAssumption == Scripts \subseteq Script /\ MaxRuns \in Nat

VARIABLES script,
          runs,          \* the number of the run
          state,         \* "running", "done", or why it stopped
          stage,         \* the stage it is at
          awaited,       \* transactions of the stage that it waits for
          artifacts,     \* addresses by the name of the contract
          pool,          \* external: transactions sent and not executed
          receipts,      \* external: results the script has not seen
          contracts,     \* external: constructor arguments by address
          executed       \* external: calls that succeeded

chainVars == <<pool, receipts, contracts, executed>>
vars == <<script, runs, state, stage, awaited, artifacts, chainVars>>

-----------------------------------------------------------------------------
(* The stages.  Arguments are names of contracts; other arguments (fees,    *)
(* external oracles, the token) are left out.                               *)
Deploy(name, args) == [do |-> "deploy", name |-> name, method |-> "constructor", args |-> args]
Send(name, method, args) == [do |-> "send", name |-> name, method |-> method, args |-> args]
Throw == [do |-> "throw", name |-> "none", method |-> "none", args |-> <<>>]

SetGlobalOperator(name) == Send("PerpetualProxy", "setGlobalOperator", <<name>>)
Initialize == Send("PerpetualProxy", "initializeV1", <<"P1MakerOracle", "P1FundingOracle">>)
ApproveMaximum == Send("P1LiquidatorProxy", "approveMaximumOnPerpetual", <<>>)

TestContracts == <<Deploy("TestP1Trader", <<>>)>>
PerpetualV1Stage == <<Deploy("PerpetualV1", <<>>)>>
ProxyStage == <<Deploy("PerpetualProxy", <<"PerpetualV1">>)>>
OracleContracts ==
    <<Deploy("P1FundingOracle", <<>>), Deploy("P1InverseFundingOracle", <<>>),
      Deploy("P1ChainlinkOracle", <<"PerpetualProxy">>), Deploy("P1MakerOracle", <<>>)>>
OracleSettings ==
    <<Send("P1MakerOracle", "setRoute", <<"PerpetualProxy">>),
      Send("P1MakerOracle", "setAdjustment", <<>>)>>
Traders ==
    <<Deploy("P1Orders", <<"PerpetualProxy">>), Deploy("P1Liquidation", <<"PerpetualProxy">>)>>
LiquidatorProxy == <<Deploy("P1LiquidatorProxy", <<"PerpetualProxy", "P1Liquidation">>)>>
GlobalOperators == <<SetGlobalOperator("P1Orders"), SetGlobalOperator("P1Liquidation"),
                     SetGlobalOperator("P1LiquidatorProxy")>>

isDevNetwork(network) == network = "dev"
OnlyIf(condition, stages) == IF condition THEN stages ELSE <<>>

\* There is no Chainlink aggregator for kovan.
getChainlinkPriceOracleAddress(network) == OnlyIf(network = "kovan", <<<<Throw>>>>)

\* soloBridgeProxy and wethProxy are used without a definition.
InitializeProxies == <<<<ApproveMaximum>>, <<Throw>>>>

TruffleStages(network) ==
    OnlyIf(isDevNetwork(network), <<TestContracts>>)
    \o <<PerpetualV1Stage, ProxyStage>>
    \o getChainlinkPriceOracleAddress(network)
    \o <<OracleContracts, OracleSettings>>
    \o OnlyIf(~isDevNetwork(network), <<<<Initialize>>>>)
    \o <<Traders, LiquidatorProxy>>
    \o OnlyIf(~isDevNetwork(network), InitializeProxies)
    \o <<GlobalOperators>>
    \o OnlyIf(isDevNetwork(network), <<<<SetGlobalOperator("TestP1Trader")>>>>)

Single(task) == <<task>>

\* The hardhat script sends one transaction at a time; it routes no oracle.
HardhatStages ==
    <<TestContracts, PerpetualV1Stage, ProxyStage>>
    \o [i \in 1..2 |-> Single(<<OracleContracts[1], OracleContracts[3]>>[i])]
    \o <<Single(OracleContracts[4]), Single(Initialize)>>
    \o [i \in 1..2 |-> Single(Traders[i])]
    \o <<LiquidatorProxy, Single(ApproveMaximum)>>
    \o [i \in 1..3 |-> Single(GlobalOperators[i])]
    \o <<Single(SetGlobalOperator("TestP1Trader"))>>

Stages == IF script[1] = "truffle" THEN TruffleStages(script[2]) ELSE HardhatStages

-----------------------------------------------------------------------------
Init ==
    /\ script \in Scripts
    /\ runs = 1 /\ state = "running" /\ stage = 1
    /\ awaited = {} /\ artifacts = <<>>
    /\ pool = <<>> /\ receipts = {} /\ contracts = <<>> /\ executed = {}

Put(f, key, value) == [k \in DOMAIN f \cup {key} |-> IF k = key THEN value ELSE f[k]]

\* The address that a name stands for when the call is made; undefined before it is
\* deployed.
Known(name) == name \in DOMAIN artifacts
Resolvable(task) ==
    /\ \A i \in DOMAIN task.args : Known(task.args[i])
    /\ task.do = "send" => Known(task.name)

Transaction(task) ==
    [do |-> task.do, method |-> task.method,
     target |-> IF task.do = "send" THEN artifacts[task.name] ELSE <<task.name, runs>>,
     args |-> [i \in DOMAIN task.args |-> artifacts[task.args[i]]],
     run |-> runs]

\* hardhat-deploy does not deploy what it has recorded with the same arguments.
Recorded(task) ==
    /\ script[1] = "hardhat" /\ task.do = "deploy" /\ Known(task.name)
    /\ contracts[artifacts[task.name]] = Transaction(task).args

\* What the contracts refuse.
Initialized(market) == \E tx \in executed : tx.target = market /\ tx.method = "initializeV1"

\* Mutation of InitializeReverts: initializeV1 can be called again.
InitializeNever(tx) == FALSE

\* initializeV1 works once.
InitializeReverts(tx) == tx.method = "initializeV1" /\ Initialized(tx.target)

\* The proxy asks its market for the token, which is not known before initializeV1.
ApproveReverts(tx) ==
    tx.method = "approveMaximumOnPerpetual" /\ ~Initialized(contracts[tx.target][1])

Reverts(tx) == InitializeReverts(tx) \/ ApproveReverts(tx)

\* The hardhat script does not wait for the receipt of initializeV1: it hears only of
\* a refusal when the gas is estimated.
IsAwaited(tx) == ~(script[1] = "hardhat" /\ tx.method = "initializeV1")

\* The next stage begins: its transactions are sent in their order.
BeginStage ==
    /\ state = "running" /\ awaited = {} /\ stage <= Len(Stages)
    /\ LET tasks == Stages[stage]
           \* The script that has records goes one transaction at a time.
           sent == IF \E i \in DOMAIN tasks : Recorded(tasks[i]) THEN <<>>
                   ELSE [i \in DOMAIN tasks |-> Transaction(tasks[i])]
           throws == \E i \in DOMAIN tasks : tasks[i].do = "throw" \/ ~Resolvable(tasks[i])
           refused == ~throws /\ \E i \in DOMAIN sent : ~IsAwaited(sent[i]) /\ Reverts(sent[i])
       IN  \/ /\ throws \/ refused
              /\ state' = IF throws THEN "thrown" ELSE "rejected"
              /\ UNCHANGED <<stage, awaited, pool>>
           \/ /\ ~throws /\ ~refused
              /\ pool' = pool \o sent
              /\ awaited' = {tx \in ToSet(sent) : IsAwaited(tx)}
              /\ stage' = IF awaited' = {} THEN stage + 1 ELSE stage
              /\ UNCHANGED state
    /\ UNCHANGED <<script, runs, artifacts, receipts, contracts, executed>>

\* Mutation of Receipt: a failure does not stop the script (Promise.allSettled).
ReceiptOfAnyOutcome(tx, succeeded) ==
    /\ state = "running" /\ <<tx, succeeded>> \in receipts /\ tx \in awaited
    /\ awaited' = awaited \ {tx}
    /\ stage' = IF awaited = {tx} THEN stage + 1 ELSE stage
    /\ artifacts' = IF succeeded /\ tx.do = "deploy"
                    THEN Put(artifacts, tx.target[1], tx.target) ELSE artifacts
    /\ receipts' = receipts \ {<<tx, succeeded>>}
    /\ UNCHANGED <<script, runs, state, pool, contracts, executed>>

\* The script hears of a transaction; after the last one it goes on.
Receipt(tx, succeeded) ==
    /\ state = "running" /\ <<tx, succeeded>> \in receipts /\ tx \in awaited
    /\ IF succeeded
       THEN /\ awaited' = awaited \ {tx}
            /\ stage' = IF awaited = {tx} THEN stage + 1 ELSE stage
            /\ artifacts' = IF tx.do = "deploy" THEN Put(artifacts, tx.target[1], tx.target)
                            ELSE artifacts
            /\ UNCHANGED state
       ELSE state' = "rejected" /\ UNCHANGED <<stage, awaited, artifacts>>
    /\ receipts' = receipts \ {<<tx, succeeded>>}
    /\ UNCHANGED <<script, runs, pool, contracts, executed>>

Finish ==
    /\ state = "running" /\ stage > Len(Stages)
    /\ state' = "done"
    /\ UNCHANGED <<script, runs, stage, awaited, artifacts, chainVars>>

Interrupt ==
    /\ state = "running"
    /\ state' = "interrupted"
    /\ UNCHANGED <<script, runs, stage, awaited, artifacts, chainVars>>

RunAgain ==
    /\ state \notin {"running", "done"} /\ runs < MaxRuns
    /\ runs' = runs + 1 /\ state' = "running" /\ stage' = 1
    /\ awaited' = {} /\ receipts' = {}
    /\ artifacts' = IF script[1] = "truffle" THEN <<>> ELSE artifacts
    /\ UNCHANGED <<script, pool, contracts, executed>>

-----------------------------------------------------------------------------
(* External: the chain *)
\* A transaction can be lost for other reasons as well.
Execute(succeeds) ==
    /\ pool # <<>>
    /\ LET tx == Head(pool)
       IN  /\ succeeds => ~Reverts(tx)
           /\ receipts' = receipts \cup {<<tx, succeeds>>}
           /\ contracts' = IF succeeds /\ tx.do = "deploy"
                           THEN Put(contracts, tx.target, tx.args) ELSE contracts
           /\ executed' = IF succeeds /\ tx.do = "send" THEN executed \cup {tx} ELSE executed
    /\ pool' = Tail(pool)
    /\ UNCHANGED <<script, runs, state, stage, awaited, artifacts>>

Next ==
    \/ BeginStage
    \/ \E receipt \in receipts : Receipt(receipt[1], receipt[2])
    \/ Finish \/ Interrupt \/ RunAgain
    \/ \E succeeds \in BOOLEAN : Execute(succeeds)

Spec == Init /\ [][Next]_vars

-----------------------------------------------------------------------------
(* Properties                                                               *)
Called(method, target, args) ==
    \E tx \in executed : tx.method = method /\ tx.target = target /\ tx.args = args

Market == artifacts["PerpetualProxy"]
Operators(market) ==
    {tx.args[1] : tx \in {t \in executed : t.method = "setGlobalOperator" /\ t.target = market}}

\* A script that ends has wired one market, whatever earlier runs left on the chain
\* and whenever their transactions were executed: its traders and its proxy were
\* made for the market, work together and are its operators; the market of the
\* hardhat script is initialized with its oracles.
DoneMeansWired == state = "done" =>
    /\ \A name \in {"P1Orders", "P1Liquidation", "P1LiquidatorProxy", "TestP1Trader"} :
           artifacts[name] \in Operators(Market)
    /\ contracts[artifacts["P1Orders"]] = <<Market>>
    /\ contracts[artifacts["P1LiquidatorProxy"]] = <<Market, artifacts["P1Liquidation"]>>
    /\ script[1] = "truffle" => Called("setRoute", artifacts["P1MakerOracle"], <<Market>>)
    /\ script[1] = "hardhat" => Called("initializeV1", Market,
                                       <<artifacts["P1MakerOracle"], artifacts["P1FundingOracle"]>>)

\* At every moment, of all runs together: a market is initialized once, and no
\* operator of a market was made for another one.
MarketsSeparate == \A address \in DOMAIN contracts : address[1] = "PerpetualProxy" =>
    /\ \A t1, t2 \in executed :
           t1.method = "initializeV1" /\ t2.method = "initializeV1"
           /\ t1.target = address /\ t2.target = address => t1 = t2
    /\ \A operator \in Operators(address) :
           contracts[operator] = <<>> \/ contracts[operator][1] = address
=============================================================================
