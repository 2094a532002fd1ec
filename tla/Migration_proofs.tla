-------------------------- MODULE Migration_proofs --------------------------
(***************************************************************************)
(* Proofs about the deployment: whatever earlier runs of a script left on   *)
(* the chain or on its way to it, and however many there were, a run that   *)
(* ends has wired one market, and markets share no parts.                   *)
(*                                                                          *)
(* The invariant says what the transactions of all runs may still do.  Those *)
(* of a truffle run only know addresses of that run.  Those of the hardhat  *)
(* script know the recorded addresses, and what is recorded never changes.  *)
(***************************************************************************)
EXTENDS Migration, TLAPS

-----------------------------------------------------------------------------
(* The tasks of the scripts                                                 *)

Operator == {"P1Orders", "P1Liquidation", "P1LiquidatorProxy", "TestP1Trader"}
Contract == Operator \cup
    {"PerpetualV1", "PerpetualProxy", "P1FundingOracle", "P1InverseFundingOracle",
     "P1ChainlinkOracle", "P1MakerOracle"}

\* What the constructor of each contract is given.
ArgsOf(name) ==
    IF name = "PerpetualProxy" THEN <<"PerpetualV1">>
    ELSE IF name \in {"P1ChainlinkOracle", "P1Orders", "P1Liquidation"} THEN <<"PerpetualProxy">>
    ELSE IF name = "P1LiquidatorProxy" THEN <<"PerpetualProxy", "P1Liquidation">>
    ELSE <<>>

SetRoute == Send("P1MakerOracle", "setRoute", <<"PerpetualProxy">>)
SetAdjustment == Send("P1MakerOracle", "setAdjustment", <<>>)

Task == {Deploy(name, ArgsOf(name)) : name \in Contract}
        \cup {SetGlobalOperator(name) : name \in Operator}
        \cup {Initialize, ApproveMaximum, SetRoute, SetAdjustment, Throw}

Truffle == script[1] = "truffle"

-----------------------------------------------------------------------------
(* The invariant                                                            *)

\* The arguments of a constructor are the addresses of one run, or recorded ones.
Made(address, args) ==
    LET needs == ArgsOf(address[1])
    IN  /\ address[1] \in Contract
        /\ ~Truffle => \A i \in DOMAIN needs : Known(needs[i])
        /\ args = [i \in DOMAIN needs |->
                       IF Truffle THEN <<needs[i], address[2]>> ELSE artifacts[needs[i]]]

\* An operator was made for the market, or for none.
OperatorFits(operator, market) ==
    /\ operator \in DOMAIN contracts
    /\ contracts[operator] = <<>> \/ contracts[operator][1] = market

\* What a transaction does, whenever it is executed.
Harmless(tx) ==
    \/ /\ tx.do = "deploy" /\ tx.method = "constructor"
       /\ Made(tx.target, tx.args)
    \/ /\ tx.do = "send"
       /\ tx.method = "setGlobalOperator" => OperatorFits(tx.args[1], tx.target)
       /\ tx.method = "initializeV1" /\ ~Truffle =>
              /\ Known("P1MakerOracle") /\ Known("P1FundingOracle")
              /\ tx.args = <<artifacts["P1MakerOracle"], artifacts["P1FundingOracle"]>>
       /\ tx.method = "approveMaximumOnPerpetual" => tx.target \in DOMAIN contracts

ArtifactsInv == \A name \in DOMAIN artifacts :
    /\ name \in Contract
    /\ artifacts[name] \in DOMAIN contracts /\ artifacts[name][1] = name
    /\ Truffle => artifacts[name] = <<name, runs>>

ContractsInv == \A address \in DOMAIN contracts : Made(address, contracts[address])

SentInv ==
    /\ pool \in Seq(ToSet(pool))
    /\ \A tx \in ToSet(pool) \cup awaited \cup executed : Harmless(tx)

ReceiptsInv == \A receipt \in receipts :
    /\ receipt[2] \in BOOLEAN
    /\ receipt[2] => LET tx == receipt[1]
                     IN  IF tx.do = "deploy" THEN tx.target \in DOMAIN contracts
                         ELSE tx \in executed

AwaitedInv ==
    /\ \A tx \in awaited : tx.do = "deploy" =>
           IF Truffle THEN tx.target = <<tx.target[1], runs>> ELSE ~Known(tx.target[1])
    /\ ~Truffle => \A t1, t2 \in awaited : t1 = t2

ExecutedInv ==
    /\ \A tx \in executed :
           tx.method = "approveMaximumOnPerpetual" => Initialized(contracts[tx.target][1])
    /\ \A t1, t2 \in executed :
           t1.method = "initializeV1" /\ t2.method = "initializeV1" /\ t1.target = t2.target
           => t1 = t2

\* What a task was to achieve has been achieved.
Fulfilled(task) ==
    /\ task.do # "throw"
    /\ task.do = "deploy" => Known(task.name)
    /\ task.do = "send" =>
           /\ Resolvable(task)
           /\ IsAwaited(Transaction(task)) =>
                  Called(task.method, artifacts[task.name], Transaction(task).args)

StagesInv ==
    /\ stage \in Nat \ {0} /\ runs \in Nat
    /\ \A s \in DOMAIN Stages : s < stage =>
           \A i \in DOMAIN Stages[s] : Fulfilled(Stages[s][i])
    /\ awaited # {} =>
           /\ stage \in DOMAIN Stages
           /\ \A i \in DOMAIN Stages[stage] :
                  \/ Fulfilled(Stages[stage][i])
                  \/ /\ Resolvable(Stages[stage][i])
                     /\ Transaction(Stages[stage][i]) \in awaited
    /\ state = "done" => stage > Len(Stages)

IInv ==
    /\ script \in Script
    /\ ArtifactsInv /\ ContractsInv /\ SentInv /\ ReceiptsInv
    /\ AwaitedInv /\ ExecutedInv /\ StagesInv
-----------------------------------------------------------------------------
(* Scripts                                                                  *)

\* The stages of a script consist of known tasks, and those of the hardhat script of
\* one task each.
LEMMA Tasks ==
  /\ {TestContracts, PerpetualV1Stage, ProxyStage, OracleContracts, OracleSettings,
      Traders, LiquidatorProxy, GlobalOperators} \subseteq Seq(Task)
  /\ \A task \in Task : <<task>> \in Seq(Task)
<1>1. \A name \in Contract : Deploy(name, ArgsOf(name)) \in Task
  BY DEF Task
<1>2. \A name \in Operator : SetGlobalOperator(name) \in Task
  BY DEF Task
<1>3. {Initialize, ApproveMaximum, SetRoute, SetAdjustment, Throw} \subseteq Task
  BY DEF Task
<1> HIDE DEF Task
<1>4. TestContracts \in Seq(Task) /\ PerpetualV1Stage \in Seq(Task) /\ ProxyStage \in Seq(Task)
  <2>1. /\ Deploy("TestP1Trader", <<>>) \in Task /\ Deploy("PerpetualV1", <<>>) \in Task
        /\ Deploy("PerpetualProxy", <<"PerpetualV1">>) \in Task
    BY <1>1 DEF Contract, Operator, ArgsOf
  <2> QED BY <2>1 DEF TestContracts, PerpetualV1Stage, ProxyStage
<1>5. OracleContracts \in Seq(Task) /\ OracleSettings \in Seq(Task)
  <2>1. /\ Deploy("P1FundingOracle", <<>>) \in Task /\ Deploy("P1InverseFundingOracle", <<>>) \in Task
        /\ Deploy("P1ChainlinkOracle", <<"PerpetualProxy">>) \in Task
        /\ Deploy("P1MakerOracle", <<>>) \in Task
    BY <1>1 DEF Contract, Operator, ArgsOf
  <2> QED BY <2>1, <1>3 DEF OracleContracts, OracleSettings, SetRoute, SetAdjustment
<1>6. Traders \in Seq(Task) /\ LiquidatorProxy \in Seq(Task) /\ GlobalOperators \in Seq(Task)
  <2>1. /\ Deploy("P1Orders", <<"PerpetualProxy">>) \in Task
        /\ Deploy("P1Liquidation", <<"PerpetualProxy">>) \in Task
        /\ Deploy("P1LiquidatorProxy", <<"PerpetualProxy", "P1Liquidation">>) \in Task
    BY <1>1 DEF Contract, Operator, ArgsOf
  <2>2. /\ SetGlobalOperator("P1Orders") \in Task /\ SetGlobalOperator("P1Liquidation") \in Task
        /\ SetGlobalOperator("P1LiquidatorProxy") \in Task
    BY <1>2 DEF Operator
  <2> QED BY <2>1, <2>2 DEF Traders, LiquidatorProxy, GlobalOperators
<1> QED BY <1>4, <1>5, <1>6

\* A task appears in some stage of a script.
Has(stages, task) == \E s \in DOMAIN stages : \E i \in DOMAIN stages[s] : stages[s][i] = task

OneByOne(stages) == \A s \in DOMAIN stages : Len(stages[s]) = 1

LEMMA Concat ==
  ASSUME NEW S, NEW s \in Seq(Seq(S)), NEW t \in Seq(Seq(S))
  PROVE  /\ s \o t \in Seq(Seq(S))
         /\ \A task : Has(s, task) \/ Has(t, task) => Has(s \o t, task)
         /\ OneByOne(s) /\ OneByOne(t) => OneByOne(s \o t)
<1>1. /\ s \o t \in Seq(Seq(S)) /\ Len(s \o t) = Len(s) + Len(t)
      /\ \A i \in 1..Len(s) : (s \o t)[i] = s[i]
      /\ \A i \in 1..Len(t) : (s \o t)[Len(s) + i] = t[i]
  OBVIOUS
<1>2. ASSUME NEW task, Has(s, task) PROVE Has(s \o t, task)
  <2>1. PICK i \in 1..Len(s) : \E j \in DOMAIN s[i] : s[i][j] = task
    BY <1>2 DEF Has
  <2>2. i \in DOMAIN (s \o t)
    BY <1>1
  <2> QED BY <1>1, <2>1, <2>2 DEF Has
<1>3. ASSUME NEW task, Has(t, task) PROVE Has(s \o t, task)
  <2>1. PICK i \in 1..Len(t) : \E j \in DOMAIN t[i] : t[i][j] = task
    BY <1>3 DEF Has
  <2>2. Len(s) + i \in DOMAIN (s \o t)
    BY <1>1
  <2> QED BY <1>1, <2>1, <2>2 DEF Has
<1>4. ASSUME OneByOne(s), OneByOne(t) PROVE OneByOne(s \o t)
  <2> SUFFICES ASSUME NEW i \in DOMAIN (s \o t) PROVE Len((s \o t)[i]) = 1
    BY DEF OneByOne
  <2>1. CASE i \in 1..Len(s)
    BY <1>1, <1>4, <2>1 DEF OneByOne
  <2>2. CASE i \notin 1..Len(s)
    <3>1. i - Len(s) \in 1..Len(t) /\ Len(s) + (i - Len(s)) = i
      BY <1>1, <2>2
    <3>2. (s \o t)[i] = t[i - Len(s)]
      BY <1>1, <3>1
    <3> QED BY <1>4, <3>1, <3>2 DEF OneByOne
  <2> QED BY <2>1, <2>2
<1> QED BY <1>1, <1>2, <1>3, <1>4

\* The stages of the truffle migration: on the networks that are not for development it
\* throws.
LEMMA TruffleTasks ==
  ASSUME NEW network
  PROVE  /\ TruffleStages(network) \in Seq(Seq(Task))
         /\ ~isDevNetwork(network) => Has(TruffleStages(network), Throw)
         /\ isDevNetwork(network) =>
                /\ Has(TruffleStages(network), SetRoute)
                /\ \A name \in Operator : Has(TruffleStages(network), SetGlobalOperator(name))
<1> DEFINE dev == isDevNetwork(network)
           s1 == OnlyIf(dev, <<TestContracts>>)
           s2 == s1 \o <<PerpetualV1Stage, ProxyStage>>
           s3 == s2 \o getChainlinkPriceOracleAddress(network)
           s4 == s3 \o <<OracleContracts, OracleSettings>>
           s5 == s4 \o OnlyIf(~dev, <<<<Initialize>>>>)
           s6 == s5 \o <<Traders, LiquidatorProxy>>
           s7 == s6 \o OnlyIf(~dev, InitializeProxies)
           s8 == s7 \o <<GlobalOperators>>
           last == OnlyIf(dev, <<<<SetGlobalOperator("TestP1Trader")>>>>)
<1>1. TruffleStages(network) = s8 \o last
  BY DEF TruffleStages
<1>2. \A task \in Task : <<<<task>>>> \in Seq(Seq(Task)) /\ <<task>> \in Seq(Task)
  BY Tasks
<1>3. /\ {Initialize, ApproveMaximum, Throw} \subseteq Task
      /\ \A name \in Operator : SetGlobalOperator(name) \in Task
  BY DEF Task
<1> HIDE DEF Task
<1>4. \A c \in BOOLEAN : \A s \in Seq(Seq(Task)) : OnlyIf(c, s) \in Seq(Seq(Task))
  BY DEF OnlyIf
<1>5. s1 \in Seq(Seq(Task))
  <2>1. <<TestContracts>> \in Seq(Seq(Task))
    BY Tasks
  <2> QED BY <1>4, <2>1 DEF isDevNetwork
<1>6. s2 \in Seq(Seq(Task))
  <2>1. <<PerpetualV1Stage, ProxyStage>> \in Seq(Seq(Task))
    BY Tasks
  <2> HIDE DEF s1
  <2> QED BY <1>5, <2>1, Concat
<1>7. s3 \in Seq(Seq(Task))
  <2>1. getChainlinkPriceOracleAddress(network) \in Seq(Seq(Task))
    BY <1>2, <1>3, <1>4 DEF getChainlinkPriceOracleAddress
  <2> HIDE DEF s2
  <2> QED BY <1>6, <2>1, Concat
<1>8. s4 \in Seq(Seq(Task)) /\ Has(s4, SetRoute)
  <2>1. <<OracleContracts, OracleSettings>> \in Seq(Seq(Task))
    BY Tasks
  <2>2. OracleSettings[1] = SetRoute /\ 1 \in DOMAIN OracleSettings
    BY DEF OracleSettings, SetRoute
  <2>3. Has(<<OracleContracts, OracleSettings>>, SetRoute)
    <3> DEFINE pair == <<OracleContracts, OracleSettings>>
    <3>1. 2 \in DOMAIN pair /\ pair[2] = OracleSettings
      OBVIOUS
    <3> HIDE DEF pair
    <3> QED BY <2>2, <3>1 DEF Has
  <2> HIDE DEF s3
  <2> QED BY <1>7, <2>1, <2>3, Concat
<1>9. s5 \in Seq(Seq(Task)) /\ Has(s5, SetRoute)
  <2>1. OnlyIf(~dev, <<<<Initialize>>>>) \in Seq(Seq(Task))
    BY <1>2, <1>3, <1>4 DEF isDevNetwork
  <2> HIDE DEF s4
  <2> QED BY <1>8, <2>1, Concat
<1>10. s6 \in Seq(Seq(Task)) /\ Has(s6, SetRoute)
  <2>1. <<Traders, LiquidatorProxy>> \in Seq(Seq(Task))
    BY Tasks
  <2> HIDE DEF s5
  <2> QED BY <1>9, <2>1, Concat
<1>11. /\ s7 \in Seq(Seq(Task)) /\ Has(s7, SetRoute)
       /\ ~isDevNetwork(network) => Has(s7, Throw)
  <2>1. InitializeProxies \in Seq(Seq(Task)) /\ Has(InitializeProxies, Throw)
    <3>1. <<ApproveMaximum>> \in Seq(Task) /\ <<Throw>> \in Seq(Task)
      BY <1>2, <1>3
    <3>2. InitializeProxies \in Seq(Seq(Task))
      BY <3>1 DEF InitializeProxies
    <3>3. /\ 2 \in DOMAIN InitializeProxies /\ InitializeProxies[2] = <<Throw>>
          /\ 1 \in DOMAIN <<Throw>> /\ <<Throw>>[1] = Throw
      BY DEF InitializeProxies
    <3> QED BY <3>2, <3>3 DEF Has
  <2>2. /\ OnlyIf(~dev, InitializeProxies) \in Seq(Seq(Task))
        /\ ~isDevNetwork(network) => Has(OnlyIf(~dev, InitializeProxies), Throw)
    BY <1>4, <2>1 DEF OnlyIf, isDevNetwork
  <2> HIDE DEF s6, dev
  <2>3. Has(s7, SetRoute)
    BY <1>10, <2>2, Concat
  <2> QED BY <1>10, <2>2, <2>3, Concat
<1>12. /\ s8 \in Seq(Seq(Task)) /\ Has(s8, SetRoute)
       /\ ~isDevNetwork(network) => Has(s8, Throw)
       /\ \A name \in Operator \ {"TestP1Trader"} : Has(s8, SetGlobalOperator(name))
  <2>1. <<GlobalOperators>> \in Seq(Seq(Task))
    BY Tasks
  <2>2. \A name \in Operator \ {"TestP1Trader"} :
            Has(<<GlobalOperators>>, SetGlobalOperator(name))
    <3>1. \A name \in Operator \ {"TestP1Trader"} :
              \E i \in DOMAIN GlobalOperators : GlobalOperators[i] = SetGlobalOperator(name)
      BY DEF Operator, GlobalOperators
    <3>2. 1 \in DOMAIN <<GlobalOperators>> /\ <<GlobalOperators>>[1] = GlobalOperators
      OBVIOUS
    <3> QED BY <3>1, <3>2 DEF Has
  <2> HIDE DEF s7, dev
  <2>3. \A name \in Operator \ {"TestP1Trader"} : Has(s8, SetGlobalOperator(name))
    BY <1>11, <2>1, <2>2, Concat
  <2> QED BY <1>11, <2>1, <2>3, Concat
<1>13. /\ last \in Seq(Seq(Task))
       /\ isDevNetwork(network) => Has(last, SetGlobalOperator("TestP1Trader"))
  <2>1. SetGlobalOperator("TestP1Trader") \in Task
    BY <1>3 DEF Operator
  <2>2. Has(<<<<SetGlobalOperator("TestP1Trader")>>>>, SetGlobalOperator("TestP1Trader"))
    BY DEF Has
  <2> QED BY <1>2, <1>4, <2>1, <2>2 DEF OnlyIf, isDevNetwork
<1> HIDE DEF s8, last
<1>14. \A name \in Operator : isDevNetwork(network) =>
           Has(TruffleStages(network), SetGlobalOperator(name))
  BY <1>1, <1>12, <1>13, Concat
<1> QED BY <1>1, <1>12, <1>13, <1>14, Concat

\* The stages of the hardhat script consist of one task each.
LEMMA HardhatTasks ==
  /\ HardhatStages \in Seq(Seq(Task))
  /\ \A s \in DOMAIN HardhatStages : Len(HardhatStages[s]) = 1
  /\ Has(HardhatStages, ApproveMaximum)
  /\ \A name \in Operator : Has(HardhatStages, SetGlobalOperator(name))
<1> DEFINE t2 == [i \in 1..2 |-> Single(<<OracleContracts[1], OracleContracts[3]>>[i])]
           t3 == <<Single(OracleContracts[4]), Single(Initialize)>>
           t4 == [i \in 1..2 |-> Single(Traders[i])]
           t5 == <<LiquidatorProxy, Single(ApproveMaximum)>>
           t6 == [i \in 1..3 |-> Single(GlobalOperators[i])]
           t7 == <<Single(SetGlobalOperator("TestP1Trader"))>>
           s1 == <<TestContracts, PerpetualV1Stage, ProxyStage>>
           s2 == s1 \o t2
           s3 == s2 \o t3
           s4 == s3 \o t4
           s5 == s4 \o t5
           s6 == s5 \o t6
           Fits(stages) == stages \in Seq(Seq(Task)) /\ OneByOne(stages)
<1>1. HardhatStages = s6 \o t7
  BY DEF HardhatStages
<1>2. \A s, t : Fits(s) /\ Fits(t) => Fits(s \o t)
  BY Concat
<1>3. /\ {Initialize, ApproveMaximum} \subseteq Task
      /\ \A name \in Operator : SetGlobalOperator(name) \in Task
  BY DEF Task
<1>4. \A task \in Task : Single(task) \in Seq(Task) /\ Len(Single(task)) = 1
  BY DEF Single
<1> HIDE DEF Task
<1>0. \A s \in Seq(Task) : \A i \in 1..Len(s) : s[i] \in Task
  OBVIOUS
<1>5. Fits(s1)
  <2>1. s1 \in Seq(Seq(Task))
    BY Tasks
  <2>2. Len(TestContracts) = 1 /\ Len(PerpetualV1Stage) = 1 /\ Len(ProxyStage) = 1
    BY DEF TestContracts, PerpetualV1Stage, ProxyStage
  <2> QED BY <2>1, <2>2 DEF OneByOne
<1>6. Fits(t2) /\ Fits(t3)
  <2>1. /\ OracleContracts \in Seq(Task) /\ Len(OracleContracts) = 4
    BY Tasks DEF OracleContracts
  <2>2. OracleContracts[1] \in Task /\ OracleContracts[3] \in Task /\ OracleContracts[4] \in Task
    BY <2>1, <1>0
  <2>3. Fits(t3)
    <3>1. /\ Single(OracleContracts[4]) \in Seq(Task) /\ Len(Single(OracleContracts[4])) = 1
          /\ Single(Initialize) \in Seq(Task) /\ Len(Single(Initialize)) = 1
      BY <1>3, <1>4, <2>2
    <3> QED BY <3>1 DEF OneByOne
  <2>4. Fits(t2)
    <3>1. \A i \in 1..2 : <<OracleContracts[1], OracleContracts[3]>>[i] \in Task
      BY <2>2
    <3>2. \A i \in 1..2 : t2[i] \in Seq(Task) /\ Len(t2[i]) = 1
      BY <1>4, <3>1
    <3>3. DOMAIN t2 = 1..2
      OBVIOUS
    <3> HIDE DEF t2
    <3>4. t2 = [i \in 1..2 |-> t2[i]]
      BY DEF t2
    <3> QED BY <3>2, <3>3, <3>4 DEF OneByOne
  <2> QED BY <2>3, <2>4
<1>7. Fits(t4)
  <2>1. \A i \in 1..2 : Traders[i] \in Task
    <3>1. Traders \in Seq(Task) /\ Len(Traders) = 2
      BY Tasks DEF Traders
    <3> QED BY <3>1
  <2>2. \A i \in 1..2 : t4[i] \in Seq(Task) /\ Len(t4[i]) = 1
    BY <1>4, <2>1
  <2>3. DOMAIN t4 = 1..2 /\ t4 = [i \in 1..2 |-> t4[i]]
    OBVIOUS
  <2> HIDE DEF t4
  <2> QED BY <2>2, <2>3 DEF OneByOne
<1>8. Fits(t5) /\ Has(t5, ApproveMaximum)
  <2>1. LiquidatorProxy \in Seq(Task) /\ Len(LiquidatorProxy) = 1
    BY Tasks DEF LiquidatorProxy
  <2>2. Single(ApproveMaximum) \in Seq(Task) /\ Len(Single(ApproveMaximum)) = 1
    BY <1>3, <1>4
  <2>3. 2 \in DOMAIN t5 /\ t5[2] = Single(ApproveMaximum)
    OBVIOUS
  <2>4. 1 \in DOMAIN Single(ApproveMaximum) /\ Single(ApproveMaximum)[1] = ApproveMaximum
    BY DEF Single
  <2> QED BY <2>1, <2>2, <2>3, <2>4 DEF OneByOne, Has
<1>9. /\ Fits(t6)
      /\ \A name \in Operator \ {"TestP1Trader"} : Has(t6, SetGlobalOperator(name))
  <2>1. GlobalOperators \in Seq(Task) /\ Len(GlobalOperators) = 3
    BY Tasks DEF GlobalOperators
  <2>2. \A i \in 1..3 : t6[i] \in Seq(Task) /\ Len(t6[i]) = 1
    BY <1>4, <2>1, <1>0
  <2>3. DOMAIN t6 = 1..3 /\ t6 = [i \in 1..3 |-> t6[i]]
    OBVIOUS
  <2>4. \A i \in 1..3 : 1 \in DOMAIN t6[i] /\ t6[i][1] = GlobalOperators[i]
    BY DEF Single
  <2>5. \A name \in Operator \ {"TestP1Trader"} :
            \E i \in 1..3 : GlobalOperators[i] = SetGlobalOperator(name)
    BY DEF Operator, GlobalOperators
  <2> HIDE DEF t6
  <2> QED BY <2>2, <2>3, <2>4, <2>5 DEF OneByOne, Has
<1>10. Fits(t7) /\ Has(t7, SetGlobalOperator("TestP1Trader"))
  <2> DEFINE task == SetGlobalOperator("TestP1Trader")
  <2>1. task \in Task
    BY <1>3 DEF Operator
  <2> HIDE DEF task
  <2>2. Single(task) \in Seq(Task) /\ Len(Single(task)) = 1
    BY <1>4, <2>1
  <2>3. <<Single(task)>> \in Seq(Seq(Task)) /\ OneByOne(<<Single(task)>>)
    BY <2>2 DEF OneByOne
  <2>4. Has(<<Single(task)>>, task)
    BY DEF Has, Single
  <2> QED BY <2>3, <2>4 DEF task
<1> HIDE DEF t2, t3, t4, t5, t6, t7, s1
<1>11. Fits(s2)
  BY <1>2, <1>5, <1>6
<1> HIDE DEF s2
<1>12. Fits(s3)
  BY <1>2, <1>6, <1>11
<1> HIDE DEF s3
<1>13. Fits(s4)
  BY <1>2, <1>7, <1>12
<1> HIDE DEF s4
<1>14. Fits(s5) /\ Has(s5, ApproveMaximum)
  BY <1>2, <1>8, <1>13, Concat DEF s5
<1> HIDE DEF s5
<1>15. /\ Fits(s6) /\ Has(s6, ApproveMaximum)
       /\ \A name \in Operator \ {"TestP1Trader"} : Has(s6, SetGlobalOperator(name))
  BY <1>2, <1>9, <1>14, Concat DEF s6
<1> HIDE DEF s6
<1>16. /\ Fits(s6 \o t7) /\ Has(s6 \o t7, ApproveMaximum)
       /\ \A name \in Operator : Has(s6 \o t7, SetGlobalOperator(name))
  BY <1>2, <1>10, <1>15, Concat
<1> QED BY <1>1, <1>16 DEF OneByOne
LEMMA ScriptTasks ==
  ASSUME script \in Script
  PROVE  /\ Stages \in Seq(Seq(Task))
         /\ ~Truffle => script[1] = "hardhat" /\ OneByOne(Stages)
<1>1. script[1] \in {"truffle", "hardhat"}
  BY DEF Script
<1> QED BY <1>1, TruffleTasks, HardhatTasks DEF Stages, Truffle, OneByOne

\* The kinds of tasks.
LEMMA TaskKinds ==
  ASSUME NEW task \in Task
  PROVE  \/ /\ task.do = "deploy" /\ task.method = "constructor"
            /\ task.name \in Contract /\ task.args = ArgsOf(task.name)
         \/ /\ task.do = "send" /\ task.method = "setGlobalOperator"
            /\ task.name = "PerpetualProxy"
            /\ \E name \in Operator : task.args = <<name>>
         \/ /\ task.do = "send" /\ task.method = "initializeV1"
            /\ task.args = <<"P1MakerOracle", "P1FundingOracle">>
         \/ /\ task.do = "send" /\ task.method = "approveMaximumOnPerpetual"
            /\ task.name = "P1LiquidatorProxy"
         \/ /\ task.do = "send" /\ task.method \in {"setRoute", "setAdjustment"}
         \/ task.do = "throw"
<1>1. CASE \E name \in Contract : task = Deploy(name, ArgsOf(name))
  BY <1>1 DEF Deploy
<1>2. CASE \E name \in Operator : task = SetGlobalOperator(name)
  BY <1>2 DEF SetGlobalOperator, Send
<1>3. CASE task \in {Initialize, ApproveMaximum, SetRoute, SetAdjustment, Throw}
  BY <1>3 DEF Initialize, ApproveMaximum, SetRoute, SetAdjustment, Throw, Send
<1> QED BY <1>1, <1>2, <1>3 DEF Task

\* What the market's parts are made of.
LEMMA Needs ==
  /\ ArgsOf("P1LiquidatorProxy") = <<"PerpetualProxy", "P1Liquidation">>
  /\ ArgsOf("P1Orders") = <<"PerpetualProxy">>
  /\ \A name \in Operator :
         \/ ArgsOf(name) = <<>>
         \/ 1 \in DOMAIN ArgsOf(name) /\ ArgsOf(name)[1] = "PerpetualProxy"
<1>1. /\ ArgsOf("P1LiquidatorProxy") = <<"PerpetualProxy", "P1Liquidation">>
      /\ ArgsOf("P1Orders") = <<"PerpetualProxy">>
      /\ ArgsOf("P1Liquidation") = <<"PerpetualProxy">>
      /\ ArgsOf("TestP1Trader") = <<>>
  BY DEF ArgsOf
<1> QED BY <1>1 DEF Operator

-----------------------------------------------------------------------------
(* What is recorded, made or sent keeps its meaning                         *)

Extends(f, g) == DOMAIN f \subseteq DOMAIN g /\ \A x \in DOMAIN f : g[x] = f[x]

\* A part of a market remains one.
LEMMA MadeKept ==
  ASSUME script' = script, ~Truffle => Extends(artifacts, artifacts'),
         NEW address, NEW args, Made(address, args)
  PROVE  Made(address, args)'
<1> DEFINE needs == ArgsOf(address[1])
<1>1. CASE Truffle
  BY <1>1 DEF Made, Truffle
<1>2. CASE ~Truffle
  <2>1. \A i \in DOMAIN needs : Known(needs[i])' /\ artifacts'[needs[i]] = artifacts[needs[i]]
    BY <1>2 DEF Made, Extends, Known
  <2> HIDE DEF needs
  <2>2. args = [i \in DOMAIN needs |-> artifacts[needs[i]]] /\ address[1] \in Contract
    BY <1>2 DEF Made, needs
  <2>3. args = [i \in DOMAIN needs |-> artifacts'[needs[i]]]
    BY <2>1, <2>2
  <2> QED BY <1>2, <2>1, <2>2, <2>3 DEF Made, needs, Truffle
<1> QED BY <1>1, <1>2

LEMMA HarmlessKept ==
  ASSUME script' = script, ~Truffle => Extends(artifacts, artifacts'),
         Extends(contracts, contracts'), NEW tx, Harmless(tx)
  PROVE  Harmless(tx)'
<1>1. CASE tx.do = "deploy"
  BY <1>1, MadeKept DEF Harmless
<1>2. CASE tx.do # "deploy"
  <2>1. tx.method = "setGlobalOperator" => OperatorFits(tx.args[1], tx.target)'
    BY <1>2 DEF Harmless, OperatorFits, Extends
  <2>2. tx.method = "initializeV1" /\ ~Truffle' =>
              /\ Known("P1MakerOracle")' /\ Known("P1FundingOracle")'
              /\ tx.args = <<artifacts'["P1MakerOracle"], artifacts'["P1FundingOracle"]>>
    BY <1>2 DEF Harmless, Truffle, Known, Extends
  <2>3. tx.method = "approveMaximumOnPerpetual" => tx.target \in DOMAIN contracts'
    BY <1>2 DEF Harmless, Extends
  <2> QED BY <1>2, <2>1, <2>2, <2>3 DEF Harmless
<1> QED BY <1>1, <1>2

\* Two constructions at the same address were given the same.
LEMMA MadeOnce ==
  ASSUME NEW address, NEW a1, NEW a2, Made(address, a1), Made(address, a2)
  PROVE  a1 = a2
BY DEF Made

\* A name in the calls of a run stands for the same contract throughout the run.
LEMMA NamesKept ==
  ASSUME NEW task, Resolvable(task), Extends(artifacts, artifacts'), script' = script, runs' = runs
  PROVE  /\ Resolvable(task)'
         /\ Transaction(task)' = Transaction(task)
         /\ task.do = "send" => artifacts'[task.name] = artifacts[task.name]
<1>1. \A i \in DOMAIN task.args :
          task.args[i] \in DOMAIN artifacts' /\ artifacts'[task.args[i]] = artifacts[task.args[i]]
  BY DEF Resolvable, Known, Extends
<1>2. task.do = "send" => task.name \in DOMAIN artifacts'
                          /\ artifacts'[task.name] = artifacts[task.name]
  BY DEF Resolvable, Known, Extends
<1>3. [i \in DOMAIN task.args |-> artifacts'[task.args[i]]]
        = [i \in DOMAIN task.args |-> artifacts[task.args[i]]]
  BY <1>1
<1>4. Resolvable(task)'
  BY <1>1, <1>2 DEF Resolvable, Known
<1>5. (IF task.do = "send" THEN artifacts'[task.name] ELSE <<task.name, runs'>>)
        = (IF task.do = "send" THEN artifacts[task.name] ELSE <<task.name, runs>>)
  BY <1>2
<1> QED BY <1>2, <1>3, <1>4, <1>5 DEF Transaction

LEMMA FulfilledKept ==
  ASSUME NEW task, Fulfilled(task), Extends(artifacts, artifacts'), script' = script, runs' = runs,
         executed \subseteq executed'
  PROVE  Fulfilled(task)'
<1>1. task.do = "deploy" => Known(task.name)'
  BY DEF Fulfilled, Known, Extends
<1>2. ASSUME task.do = "send"
      PROVE  /\ Resolvable(task)'
             /\ IsAwaited(Transaction(task))' =>
                    Called(task.method, artifacts[task.name], Transaction(task).args)'
  <2>1. /\ Resolvable(task)' /\ Transaction(task)' = Transaction(task)
        /\ artifacts'[task.name] = artifacts[task.name]
    BY <1>2, NamesKept DEF Fulfilled
  <2>2. IsAwaited(Transaction(task))' => IsAwaited(Transaction(task))
    BY <2>1 DEF IsAwaited
  <2>3. Called(task.method, artifacts[task.name], Transaction(task).args)
          => Called(task.method, artifacts[task.name], Transaction(task).args)'
    BY <2>1 DEF Called
  <2> QED BY <1>2, <2>1, <2>2, <2>3 DEF Fulfilled
<1> QED BY <1>1, <1>2 DEF Fulfilled
-----------------------------------------------------------------------------
(* Steps                                                                    *)

LEMMA PoolAppended ==
  ASSUME NEW p, p \in Seq(ToSet(p)), NEW q, q \in Seq(ToSet(q))
  PROVE  p \o q \in Seq(ToSet(p \o q)) /\ ToSet(p \o q) = ToSet(p) \cup ToSet(q)
<1>1. /\ p \in Seq(ToSet(p) \cup ToSet(q)) /\ q \in Seq(ToSet(p) \cup ToSet(q))
  OBVIOUS
<1>2. /\ p \o q \in Seq(ToSet(p) \cup ToSet(q)) /\ Len(p \o q) = Len(p) + Len(q)
      /\ \A i \in 1..Len(p) : (p \o q)[i] = p[i]
      /\ \A i \in 1..Len(q) : (p \o q)[Len(p) + i] = q[i]
  BY <1>1
<1>3. ToSet(p) \cup ToSet(q) \subseteq ToSet(p \o q)
  <2>1. \A i \in 1..Len(p) : i \in DOMAIN (p \o q)
    BY <1>2
  <2>2. \A i \in 1..Len(q) : Len(p) + i \in DOMAIN (p \o q)
    BY <1>2
  <2>3. \A i \in 1..Len(p) : p[i] \in ToSet(p \o q)
    BY <1>2, <2>1 DEF ToSet
  <2>4. \A i \in 1..Len(q) : q[i] \in ToSet(p \o q)
    BY <1>2, <2>2 DEF ToSet
  <2>5. DOMAIN p = 1..Len(p) /\ DOMAIN q = 1..Len(q)
    OBVIOUS
  <2> QED BY <2>3, <2>4, <2>5 DEF ToSet
<1>4. ToSet(p \o q) \subseteq ToSet(p) \cup ToSet(q)
  BY <1>2 DEF ToSet
<1> QED BY <1>2, <1>3, <1>4

LEMMA PoolTaken ==
  ASSUME NEW p, p \in Seq(ToSet(p)), p # <<>>
  PROVE  /\ Head(p) \in ToSet(p)
         /\ Tail(p) \in Seq(ToSet(Tail(p))) /\ ToSet(Tail(p)) \subseteq ToSet(p)
<1>1. Len(p) \in Nat \ {0} /\ DOMAIN p = 1..Len(p)
  OBVIOUS
<1>2. /\ Tail(p) \in Seq(ToSet(p)) /\ DOMAIN Tail(p) = 1..(Len(p) - 1)
      /\ \A i \in 1..(Len(p) - 1) : Tail(p)[i] = p[i + 1]
  BY <1>1
<1>3. Head(p) = p[1] /\ 1 \in DOMAIN p
  BY <1>1
<1>4. ToSet(Tail(p)) \subseteq ToSet(p)
  BY <1>1, <1>2 DEF ToSet
<1>5. Tail(p) \in Seq(ToSet(Tail(p)))
  <2> DEFINE t == Tail(p)
  <2>1. t \in Seq(ToSet(p)) /\ DOMAIN t = 1..Len(t)
    BY <1>2
  <2> HIDE DEF t
  <2>2. \A i \in 1..Len(t) : t[i] \in ToSet(t)
    BY <2>1 DEF ToSet
  <2>3. t \in Seq(ToSet(t))
    BY <2>1, <2>2
  <2> QED BY <2>3 DEF t
<1> QED BY <1>3, <1>4, <1>5 DEF ToSet

\* What a recorded contract was given is what the name stands for.
LEMMA PartsOf ==
  ASSUME ArtifactsInv, ContractsInv, NEW name, Known(name),
         \A i \in DOMAIN ArgsOf(name) : Known(ArgsOf(name)[i])
  PROVE  contracts[artifacts[name]]
           = [i \in DOMAIN ArgsOf(name) |-> artifacts[ArgsOf(name)[i]]]
<1> DEFINE needs == ArgsOf(name)
<1>1. /\ artifacts[name] \in DOMAIN contracts /\ artifacts[name][1] = name
      /\ Truffle => artifacts[name][2] = runs /\ \A i \in DOMAIN needs :
             artifacts[needs[i]] = <<needs[i], runs>>
  BY DEF ArtifactsInv, Known
<1>2. Made(artifacts[name], contracts[artifacts[name]])
  BY <1>1 DEF ContractsInv
<1>3. contracts[artifacts[name]] =
        [i \in DOMAIN needs |-> IF Truffle THEN <<needs[i], artifacts[name][2]>>
                                ELSE artifacts[needs[i]]]
  BY <1>1, <1>2 DEF Made
<1> HIDE DEF needs
<1>4. \A i \in DOMAIN needs :
         (IF Truffle THEN <<needs[i], artifacts[name][2]>> ELSE artifacts[needs[i]])
           = artifacts[needs[i]]
  BY <1>1
<1>5. contracts[artifacts[name]] = [i \in DOMAIN needs |-> artifacts[needs[i]]]
  BY <1>3, <1>4
<1> QED BY <1>5 DEF needs

\* Whenever a transaction is executed that a script sends, it does no harm.
LEMMA TransactionHarmless ==
  ASSUME ArtifactsInv, ContractsInv, NEW task \in Task, task.do # "throw", Resolvable(task)
  PROVE  Harmless(Transaction(task))
<1> DEFINE tx == Transaction(task)
<1>1. /\ tx.do = task.do /\ tx.method = task.method
      /\ tx.args = [i \in DOMAIN task.args |-> artifacts[task.args[i]]]
      /\ tx.target = IF task.do = "send" THEN artifacts[task.name] ELSE <<task.name, runs>>
  BY DEF Transaction
<1>2. \A i \in DOMAIN task.args : Known(task.args[i])
  BY DEF Resolvable
<1>3. task.do = "send" => Known(task.name)
  BY DEF Resolvable
<1> HIDE DEF tx
<1>4. CASE task.do = "deploy"
  <2>1. /\ task.method = "constructor" /\ task.name \in Contract
        /\ task.args = ArgsOf(task.name)
    BY <1>4, TaskKinds
  <2> DEFINE needs == ArgsOf(task.name)
  <2>2. tx.target = <<task.name, runs>>
    BY <1>1, <1>4
  <2>3. \A i \in DOMAIN needs : Truffle => artifacts[needs[i]] = <<needs[i], runs>>
    BY <1>2, <2>1 DEF ArtifactsInv, Known
  <2>4. tx.args = [i \in DOMAIN needs |-> artifacts[needs[i]]]
    BY <1>1, <2>1
  <2> HIDE DEF needs
  <2>5. tx.args = [i \in DOMAIN needs |-> IF Truffle THEN <<needs[i], runs>>
                                          ELSE artifacts[needs[i]]]
    BY <2>3, <2>4
  <2>6. tx.target[1] = task.name /\ tx.target[2] = runs
    BY <2>2
  <2>7. Made(tx.target, tx.args)
    BY <1>2, <2>1, <2>5, <2>6 DEF Made, needs
  <2> QED BY <1>1, <1>4, <2>1, <2>7 DEF Harmless, tx
<1>5. CASE task.do = "send"
  <2>1. ASSUME task.method = "setGlobalOperator"
        PROVE  OperatorFits(tx.args[1], tx.target)
    <3>1. PICK name \in Operator : task.args = <<name>> /\ task.name = "PerpetualProxy"
      BY <1>5, <2>1, TaskKinds
    <3>2. Known(name) /\ Known("PerpetualProxy")
      BY <1>2, <1>3, <1>5, <3>1
    <3>3. tx.args[1] = artifacts[name] /\ tx.target = artifacts["PerpetualProxy"]
      BY <1>1, <1>5, <3>1
    <3>4. artifacts[name] \in DOMAIN contracts /\ artifacts[name][1] = name
      BY <3>2 DEF ArtifactsInv, Known
    <3>5. CASE ArgsOf(name) = <<>>
      <4>1. Made(artifacts[name], contracts[artifacts[name]])
        BY <3>4 DEF ContractsInv
      <4>2. contracts[artifacts[name]] = <<>>
        BY <3>4, <3>5, <4>1 DEF Made
      <4> QED BY <3>3, <3>4, <4>2 DEF OperatorFits
    <3>6. CASE 1 \in DOMAIN ArgsOf(name) /\ ArgsOf(name)[1] = "PerpetualProxy"
      <4>1. Made(artifacts[name], contracts[artifacts[name]])
        BY <3>4 DEF ContractsInv
      <4>2. contracts[artifacts[name]][1] =
                IF Truffle THEN <<"PerpetualProxy", artifacts[name][2]>>
                ELSE artifacts["PerpetualProxy"]
        BY <3>4, <3>6, <4>1 DEF Made
      <4>3. Truffle => artifacts["PerpetualProxy"] = <<"PerpetualProxy", runs>>
                       /\ artifacts[name] = <<name, runs>>
        BY <3>2 DEF ArtifactsInv, Known
      <4>4. contracts[artifacts[name]][1] = artifacts["PerpetualProxy"]
        BY <4>2, <4>3
      <4> QED BY <3>3, <3>4, <4>4 DEF OperatorFits
    <3> QED BY <3>5, <3>6, Needs
  <2>2. ASSUME task.method = "initializeV1"
        PROVE  /\ Known("P1MakerOracle") /\ Known("P1FundingOracle")
               /\ tx.args = <<artifacts["P1MakerOracle"], artifacts["P1FundingOracle"]>>
    <3>1. task.args = <<"P1MakerOracle", "P1FundingOracle">>
      BY <1>5, <2>2, TaskKinds
    <3> QED BY <1>1, <1>2, <3>1
  <2>3. ASSUME task.method = "approveMaximumOnPerpetual"
        PROVE  tx.target \in DOMAIN contracts
    BY <1>1, <1>3, <1>5 DEF ArtifactsInv, Known
  <2> QED BY <1>1, <1>5, <2>1, <2>2, <2>3 DEF Harmless, tx
<1>6. task.do \in {"deploy", "send"}
  BY TaskKinds
<1> QED BY <1>4, <1>5, <1>6
\* What steps within a run keep: they add to what is recorded, made and executed.
LEMMA Kept ==
  ASSUME script' = script, runs' = runs, Extends(artifacts, artifacts'),
         Extends(contracts, contracts'), executed \subseteq executed'
  PROVE  /\ \A address, args : Made(address, args) => Made(address, args)'
         /\ \A tx : Harmless(tx) => Harmless(tx)'
         /\ \A task : Fulfilled(task) => Fulfilled(task)'
         /\ \A task : Resolvable(task) =>
                Resolvable(task)' /\ Transaction(task)' = Transaction(task)
         /\ Stages' = Stages /\ (Truffle' <=> Truffle)
         /\ \A market : Initialized(market) => Initialized(market)'
<1>1. \A address, args : Made(address, args) => Made(address, args)'
  BY MadeKept
<1>2. \A tx : Harmless(tx) => Harmless(tx)'
  BY HarmlessKept
<1>3. \A task : Fulfilled(task) => Fulfilled(task)'
  BY FulfilledKept
<1>4. \A task : Resolvable(task) => Resolvable(task)' /\ Transaction(task)' = Transaction(task)
  BY NamesKept
<1>5. Stages' = Stages /\ (Truffle' <=> Truffle)
  BY DEF Stages, Truffle
<1>6. \A market : Initialized(market) => Initialized(market)'
  BY DEF Initialized
<1> QED BY <1>1, <1>2, <1>3, <1>4, <1>5, <1>6

LEMMA NothingChanges ==
  ASSUME UNCHANGED <<artifacts, contracts, executed>>
  PROVE  /\ Extends(artifacts, artifacts') /\ Extends(contracts, contracts')
         /\ executed \subseteq executed'
BY DEF Extends

\* The parts of the invariant that are about the chain and the records.
LEMMA RecordsKept ==
  ASSUME IInv, UNCHANGED <<script, runs, artifacts, contracts, executed>>
  PROVE  ArtifactsInv' /\ ContractsInv' /\ ExecutedInv' /\ script' \in Script
<1>1. ArtifactsInv'
  BY DEF IInv, ArtifactsInv, Truffle
<1>2. ContractsInv'
  BY Kept, NothingChanges DEF IInv, ContractsInv
<1>3. ExecutedInv'
  BY DEF IInv, ExecutedInv, Initialized
<1> QED BY <1>1, <1>2, <1>3 DEF IInv

\* A script that stops, or ends, sends nothing more.
LEMMA StepStop ==
  ASSUME IInv, UNCHANGED <<script, runs, stage, awaited, artifacts, chainVars>>,
         state' = "done" => stage > Len(Stages)
  PROVE  IInv'
<1>1. UNCHANGED <<script, runs, stage, awaited, artifacts, pool, receipts, contracts, executed>>
  BY DEF chainVars
<1>2. /\ \A tx : Harmless(tx) => Harmless(tx)'
      /\ \A task : Fulfilled(task) => Fulfilled(task)'
      /\ \A task : Resolvable(task) =>
             Resolvable(task)' /\ Transaction(task)' = Transaction(task)
      /\ Stages' = Stages
  BY <1>1, Kept, NothingChanges
<1>3. SentInv'
  BY <1>1, <1>2 DEF IInv, SentInv
<1>4. ReceiptsInv'
  BY <1>1 DEF IInv, ReceiptsInv
<1>5. AwaitedInv'
  BY <1>1 DEF IInv, AwaitedInv, Truffle, Known
<1>6. StagesInv'
  BY <1>1, <1>2 DEF IInv, StagesInv
<1> QED BY <1>1, <1>3, <1>4, <1>5, <1>6, RecordsKept DEF IInv

\* A task that is not sent again has been fulfilled.
LEMMA RecordedIsFulfilled ==
  ASSUME NEW task, Recorded(task)
  PROVE  Fulfilled(task) /\ ~Truffle
BY DEF Recorded, Fulfilled, Truffle

LEMMA StepBeginStage ==
  ASSUME IInv, BeginStage
  PROVE  IInv'
<1> DEFINE tasks == Stages[stage]
           new == [i \in DOMAIN tasks |-> Transaction(tasks[i])]
           sent == IF \E i \in DOMAIN tasks : Recorded(tasks[i]) THEN <<>> ELSE new
           throws == \E i \in DOMAIN tasks : tasks[i].do = "throw" \/ ~Resolvable(tasks[i])
           refused == ~throws /\ \E i \in DOMAIN sent : ~IsAwaited(sent[i]) /\ Reverts(sent[i])
<1>1. /\ state = "running" /\ awaited = {} /\ stage <= Len(Stages)
      /\ \/ /\ throws \/ refused
            /\ state' = IF throws THEN "thrown" ELSE "rejected"
            /\ UNCHANGED <<stage, awaited, pool>>
         \/ /\ ~throws /\ ~refused
            /\ pool' = pool \o sent
            /\ awaited' = {tx \in ToSet(sent) : IsAwaited(tx)}
            /\ stage' = IF awaited' = {} THEN stage + 1 ELSE stage
            /\ UNCHANGED state
      /\ UNCHANGED <<script, runs, artifacts, receipts, contracts, executed>>
  BY DEF BeginStage
<1> HIDE DEF refused
<1>2. CASE UNCHANGED <<stage, awaited, pool>> /\ (throws \/ refused)
           /\ state' = IF throws THEN "thrown" ELSE "rejected"
  BY <1>1, <1>2, StepStop DEF chainVars
<1>3. CASE /\ ~throws /\ pool' = pool \o sent
           /\ awaited' = {tx \in ToSet(sent) : IsAwaited(tx)}
           /\ stage' = IF awaited' = {} THEN stage + 1 ELSE stage
           /\ UNCHANGED state
  <2>1. /\ Stages \in Seq(Seq(Task)) /\ (~Truffle => OneByOne(Stages))
        /\ stage \in Nat \ {0} /\ runs \in Nat
    BY ScriptTasks DEF IInv, StagesInv
  <2>2. stage \in 1..Len(Stages) /\ stage \in DOMAIN Stages
    BY <1>1, <2>1
  <2>3. tasks \in Seq(Task) /\ (~Truffle => Len(tasks) = 1)
    BY <2>1, <2>2 DEF OneByOne
  <2>4. \A i \in DOMAIN tasks : tasks[i] \in Task /\ tasks[i].do # "throw" /\ Resolvable(tasks[i])
    BY <1>3, <2>3
  <2>5. DOMAIN tasks = 1..Len(tasks) /\ Len(tasks) \in Nat
    BY <2>3
  <2> HIDE DEF tasks, throws
  <2>6. \A tx \in ToSet(sent) : \E i \in DOMAIN tasks :
            tx = Transaction(tasks[i]) /\ ~Recorded(tasks[i])
    <3>1. CASE \E i \in DOMAIN tasks : Recorded(tasks[i])
      <4>1. sent = <<>>
        BY <3>1
      <4> HIDE DEF sent
      <4>2. ToSet(sent) = {}
        BY <4>1 DEF ToSet
      <4> QED BY <4>2
    <3>2. CASE \A i \in DOMAIN tasks : ~Recorded(tasks[i])
      <4>1. sent = [i \in DOMAIN tasks |-> Transaction(tasks[i])]
        BY <3>2
      <4> HIDE DEF sent
      <4> QED BY <3>2, <4>1 DEF ToSet
    <3> QED BY <3>1, <3>2
  <2>7. sent \in Seq(ToSet(sent))
    <3>1. new \in Seq(ToSet(new))
      BY <2>5 DEF ToSet
    <3>2. <<>> \in Seq(ToSet(<<>>))
      OBVIOUS
    <3> QED BY <3>1, <3>2
  <2>8. \A tx \in ToSet(sent) : Harmless(tx)
    BY <2>4, <2>6, TransactionHarmless DEF IInv
  <2>9. /\ \A tx : Harmless(tx) => Harmless(tx)'
        /\ \A task : Fulfilled(task) => Fulfilled(task)'
        /\ \A task : Resolvable(task) =>
               Resolvable(task)' /\ Transaction(task)' = Transaction(task)
        /\ Stages' = Stages /\ (Truffle' <=> Truffle)
    BY <1>1, Kept, NothingChanges
  <2> HIDE DEF sent
  <2>10. SentInv'
    <3>1. pool' \in Seq(ToSet(pool')) /\ ToSet(pool') = ToSet(pool) \cup ToSet(sent)
      BY <1>3, <2>7, PoolAppended DEF IInv, SentInv
    <3> QED BY <1>1, <1>3, <2>8, <2>9, <3>1 DEF IInv, SentInv
  <2>11. ReceiptsInv'
    BY <1>1 DEF IInv, ReceiptsInv
  <2>12. AwaitedInv'
    <3>1. ASSUME NEW tx \in ToSet(sent), tx.do = "deploy"
          PROVE  IF Truffle THEN tx.target = <<tx.target[1], runs>> ELSE ~Known(tx.target[1])
      <4>1. PICK i \in DOMAIN tasks : tx = Transaction(tasks[i]) /\ ~Recorded(tasks[i])
        BY <2>6
      <4>2. /\ tasks[i].do = "deploy" /\ tx.target = <<tasks[i].name, runs>>
            /\ tx.args = [k \in DOMAIN tasks[i].args |-> artifacts[tasks[i].args[k]]]
        BY <3>1, <4>1 DEF Transaction
      <4>3. tasks[i].args = ArgsOf(tasks[i].name)
        BY <2>4, <4>2, TaskKinds
      <4>4. tx.target = <<tx.target[1], runs>> /\ tx.target[1] = tasks[i].name
        BY <4>2
      <4>5. ~Truffle => script[1] = "hardhat"
        BY ScriptTasks DEF IInv
      <4>6. ASSUME ~Truffle, Known(tasks[i].name) PROVE FALSE
        <5>1. \A k \in DOMAIN tasks[i].args : Known(tasks[i].args[k])
          BY <2>4 DEF Resolvable
        <5>2. contracts[artifacts[tasks[i].name]] = tx.args
          BY <4>2, <4>3, <4>6, <5>1, PartsOf DEF IInv
        <5> QED BY <4>1, <4>2, <4>5, <4>6, <5>2 DEF Recorded
      <4> QED BY <4>4, <4>6
    <3>2. ~Truffle => \A t1, t2 \in ToSet(sent) : t1 = t2
      BY <2>3, <2>5, <2>6
    <3>3. awaited' \subseteq ToSet(sent)
      BY <1>3
    <3> QED BY <1>1, <2>9, <3>1, <3>2, <3>3 DEF AwaitedInv, Known
  <2>13. StagesInv'
    <3>1. ASSUME NEW i \in DOMAIN tasks
          PROVE  Fulfilled(tasks[i]) \/ Transaction(tasks[i]) \in ToSet(sent)
      <4>1. CASE \E j \in DOMAIN tasks : Recorded(tasks[j])
        <5>1. PICK j \in DOMAIN tasks : Recorded(tasks[j])
          BY <4>1
        <5>2. i = j
          BY <2>3, <2>5, <5>1, RecordedIsFulfilled
        <5> QED BY <5>1, <5>2, RecordedIsFulfilled
      <4>2. CASE ~\E j \in DOMAIN tasks : Recorded(tasks[j])
        BY <4>2 DEF sent, ToSet
      <4> QED BY <4>1, <4>2
    <3>2. ASSUME NEW i \in DOMAIN tasks
          PROVE  Fulfilled(tasks[i]) \/ Transaction(tasks[i]) \in awaited'
      <4>1. CASE ~Fulfilled(tasks[i]) /\ ~IsAwaited(Transaction(tasks[i]))
        <5>1. tasks[i].do = "send"
          <6>1. CASE tasks[i].do = "deploy"
            <7>1. Transaction(tasks[i]).method = "constructor"
              BY <2>4, <6>1, TaskKinds DEF Transaction
            <7> QED BY <4>1, <7>1 DEF IsAwaited
          <6> QED BY <2>4, <6>1, TaskKinds
        <5> QED BY <2>4, <4>1, <5>1 DEF Fulfilled
      <4>2. CASE IsAwaited(Transaction(tasks[i]))
        BY <1>3, <3>1, <4>2
      <4> QED BY <4>1, <4>2
    <3>3. ASSUME NEW s \in DOMAIN Stages, s < stage'
          PROVE  \A i \in DOMAIN Stages[s] : Fulfilled(Stages[s][i])
      <4>1. s \in Nat
        BY <2>1
      <4>2. CASE s < stage
        BY <4>2 DEF IInv, StagesInv
      <4>3. CASE ~(s < stage)
        <5>1. s = stage /\ awaited' = {}
          BY <1>3, <2>1, <3>3, <4>1, <4>3
        <5> QED BY <3>2, <5>1 DEF tasks
      <4> QED BY <4>2, <4>3
    <3>4. stage' \in Nat \ {0} /\ runs' \in Nat /\ state' # "done"
      BY <1>1, <1>3, <2>1
    <3>5. awaited' # {} => stage' = stage
      BY <1>3
    <3>6. ASSUME awaited' # {}
          PROVE  /\ stage' \in DOMAIN Stages
                 /\ \A i \in DOMAIN Stages[stage'] :
                        \/ Fulfilled(Stages[stage'][i])
                        \/ /\ Resolvable(Stages[stage'][i])
                           /\ Transaction(Stages[stage'][i]) \in awaited'
      BY <2>2, <2>4, <3>2, <3>5, <3>6 DEF tasks
    <3> QED BY <2>9, <3>3, <3>4, <3>6 DEF StagesInv
  <2> QED BY <1>1, <2>10, <2>11, <2>12, <2>13, RecordsKept DEF IInv
<1> QED BY <1>1, <1>2, <1>3
LEMMA StepReceipt ==
  ASSUME IInv, NEW tx, NEW succeeded, Receipt(tx, succeeded)
  PROVE  IInv'
<1>1. /\ state = "running" /\ <<tx, succeeded>> \in receipts /\ tx \in awaited
      /\ receipts' = receipts \ {<<tx, succeeded>>}
      /\ UNCHANGED <<script, runs, pool, contracts, executed>>
  BY DEF Receipt
<1>2. ReceiptsInv'
  BY <1>1 DEF IInv, ReceiptsInv
<1>3. Extends(contracts, contracts') /\ executed \subseteq executed'
  BY <1>1 DEF Extends
<1>4. CASE ~succeeded
  <2>1. state' = "rejected" /\ UNCHANGED <<stage, awaited, artifacts>>
    BY <1>4 DEF Receipt
  <2>2. /\ \A t : Harmless(t) => Harmless(t)'
        /\ \A task : Fulfilled(task) => Fulfilled(task)'
        /\ \A task : Resolvable(task) =>
               Resolvable(task)' /\ Transaction(task)' = Transaction(task)
        /\ Stages' = Stages
    BY <1>1, <2>1, Kept, NothingChanges
  <2>3. SentInv'
    BY <1>1, <2>1, <2>2 DEF IInv, SentInv
  <2>4. AwaitedInv'
    BY <1>1, <2>1 DEF IInv, AwaitedInv, Truffle, Known
  <2>5. StagesInv'
    BY <1>1, <2>1, <2>2 DEF IInv, StagesInv
  <2> QED BY <1>1, <1>2, <2>1, <2>3, <2>4, <2>5, RecordsKept DEF IInv
<1>5. CASE succeeded /\ succeeded = TRUE
  <2>1. /\ awaited' = awaited \ {tx}
        /\ stage' = IF awaited = {tx} THEN stage + 1 ELSE stage
        /\ artifacts' = IF tx.do = "deploy" THEN Put(artifacts, tx.target[1], tx.target)
                        ELSE artifacts
        /\ UNCHANGED state
    BY <1>5 DEF Receipt
  <2>2. IF tx.do = "deploy" THEN tx.target \in DOMAIN contracts ELSE tx \in executed
    BY <1>1, <1>5 DEF IInv, ReceiptsInv
  <2>3. Harmless(tx)
    BY <1>1 DEF IInv, SentInv
  <2>4. ASSUME tx.do = "deploy"
        PROVE  /\ tx.target[1] \in Contract
               /\ Truffle => tx.target = <<tx.target[1], runs>>
               /\ tx.target[1] \in DOMAIN artifacts => artifacts[tx.target[1]] = tx.target
    <3>1. tx.target[1] \in Contract
      BY <2>3, <2>4 DEF Harmless, Made
    <3>2. IF Truffle THEN tx.target = <<tx.target[1], runs>> ELSE ~Known(tx.target[1])
      BY <1>1, <2>4 DEF IInv, AwaitedInv
    <3> QED BY <3>1, <3>2 DEF IInv, ArtifactsInv, Known
  <2>5. /\ Extends(artifacts, artifacts')
        /\ tx.do = "deploy" => /\ DOMAIN artifacts' = DOMAIN artifacts \cup {tx.target[1]}
                               /\ artifacts'[tx.target[1]] = tx.target
    <3>1. CASE tx.do = "deploy"
      <4> DEFINE name == tx.target[1]
                 made == tx.target
      <4>1. name \in DOMAIN artifacts => artifacts[name] = made
        BY <2>4, <3>1
      <4>2. artifacts' = Put(artifacts, name, made)
        BY <2>1, <3>1
      <4> HIDE DEF name, made
      <4>3. /\ Extends(artifacts, artifacts')
            /\ DOMAIN artifacts' = DOMAIN artifacts \cup {name} /\ artifacts'[name] = made
        BY <4>1, <4>2 DEF Put, Extends
      <4> QED BY <4>3 DEF name, made
    <3>2. CASE tx.do # "deploy"
      BY <2>1, <3>2 DEF Extends
    <3> QED BY <3>1, <3>2
  <2>6. /\ \A address, args : Made(address, args) => Made(address, args)'
        /\ \A t : Harmless(t) => Harmless(t)'
        /\ \A task : Fulfilled(task) => Fulfilled(task)'
        /\ \A task : Resolvable(task) =>
               Resolvable(task)' /\ Transaction(task)' = Transaction(task)
        /\ Stages' = Stages /\ (Truffle' <=> Truffle)
    BY <1>1, <1>3, <2>5, Kept
  <2>7. ArtifactsInv'
    <3>1. ASSUME NEW name \in DOMAIN artifacts
          PROVE  /\ name \in Contract /\ artifacts'[name] = artifacts[name]
                 /\ artifacts[name] \in DOMAIN contracts /\ artifacts[name][1] = name
                 /\ Truffle => artifacts[name] = <<name, runs>>
      BY <2>5 DEF IInv, ArtifactsInv, Extends
    <3>2. DOMAIN artifacts' = IF tx.do = "deploy" THEN DOMAIN artifacts \cup {tx.target[1]}
                              ELSE DOMAIN artifacts
      BY <2>1, <2>5
    <3> QED BY <1>1, <2>2, <2>4, <2>5, <2>6, <3>1, <3>2 DEF ArtifactsInv
  <2>8. ContractsInv'
    BY <1>1, <2>6 DEF IInv, ContractsInv
  <2>9. SentInv'
    BY <1>1, <2>1, <2>6 DEF IInv, SentInv
  <2>10. AwaitedInv'
    <3>1. ~Truffle => awaited' = {}
      BY <1>1, <2>1 DEF IInv, AwaitedInv
    <3> QED BY <1>1, <2>1, <2>6, <3>1 DEF IInv, AwaitedInv
  <2>11. ExecutedInv'
    BY <1>1 DEF IInv, ExecutedInv, Initialized
  <2>12. StagesInv'
    <3>1. ASSUME NEW task \in Task, Resolvable(task), Transaction(task) = tx
          PROVE  Fulfilled(task)'
      <4>1. /\ tx.do = task.do /\ tx.method = task.method
            /\ tx.target = IF task.do = "send" THEN artifacts[task.name] ELSE <<task.name, runs>>
        BY <3>1 DEF Transaction
      <4>2. CASE task.do = "deploy"
        <5>1. tx.target[1] = task.name
          BY <4>1, <4>2
        <5> QED BY <2>5, <4>1, <4>2, <5>1 DEF Fulfilled, Known
      <4>3. CASE task.do = "send"
        <5>1. tx \in executed /\ tx.target = artifacts[task.name]
          BY <2>2, <4>1, <4>3
        <5>2. Called(task.method, artifacts[task.name], Transaction(task).args)
          BY <3>1, <4>1, <5>1 DEF Called
        <5>3. Fulfilled(task)
          BY <3>1, <4>3, <5>2 DEF Fulfilled
        <5> QED BY <2>6, <5>3
      <4>4. CASE task.do = "throw"
        BY <2>3, <4>1, <4>4 DEF Harmless
      <4> QED BY <4>2, <4>3, <4>4, TaskKinds
    <3>2. /\ Stages \in Seq(Seq(Task)) /\ stage \in Nat \ {0} /\ runs \in Nat
      BY ScriptTasks DEF IInv, StagesInv
    <3>3. stage \in DOMAIN Stages /\ stage \in 1..Len(Stages)
      BY <1>1, <3>2 DEF IInv, StagesInv
    <3>4. ASSUME NEW i \in DOMAIN Stages[stage], NEW task, task = Stages[stage][i]
          PROVE  \/ Fulfilled(task)'
                 \/ Resolvable(task)' /\ Transaction(task)' \in awaited'
      <4>1. Fulfilled(task) \/ (Resolvable(task) /\ Transaction(task) \in awaited)
        BY <1>1, <3>4 DEF IInv, StagesInv
      <4>2. task \in Task
        BY <3>2, <3>3, <3>4
      <4>3. CASE Fulfilled(task)
        BY <2>6, <4>3
      <4>4. CASE Resolvable(task) /\ Transaction(task) = tx
        BY <3>1, <4>2, <4>4
      <4>5. CASE Resolvable(task) /\ Transaction(task) \in awaited'
        BY <2>6, <4>5
      <4> QED BY <2>1, <4>1, <4>3, <4>4, <4>5
    <3>5. ASSUME NEW s \in DOMAIN Stages, s < stage', NEW i \in DOMAIN Stages[s],
                 NEW task, task = Stages[s][i]
          PROVE  Fulfilled(task)'
      <4>1. s \in Nat
        BY <3>2
      <4>2. CASE s < stage
        <5>1. Fulfilled(task)
          BY <3>5, <4>2 DEF IInv, StagesInv
        <5> QED BY <2>6, <5>1
      <4>3. CASE ~(s < stage)
        <5>1. s = stage /\ awaited' = {}
          BY <2>1, <3>2, <3>5, <4>1, <4>3
        <5> QED BY <3>4, <3>5, <5>1
      <4> QED BY <4>2, <4>3
    <3>6. awaited' # {} => stage' = stage
      BY <2>1
    <3>7. stage' \in Nat \ {0} /\ runs' \in Nat /\ state' # "done"
      BY <1>1, <2>1, <3>2
    <3> QED BY <2>6, <3>3, <3>4, <3>5, <3>6, <3>7 DEF StagesInv
  <2> QED BY <1>1, <1>2, <2>7, <2>8, <2>9, <2>10, <2>11, <2>12 DEF IInv
<1>6. succeeded \in BOOLEAN
  BY <1>1 DEF IInv, ReceiptsInv
<1> QED BY <1>4, <1>5, <1>6
LEMMA StepExecute ==
  ASSUME IInv, NEW succeeds \in BOOLEAN, Execute(succeeds)
  PROVE  IInv'
<1> DEFINE tx == Head(pool)
<1>1. /\ pool # <<>> /\ (succeeds => ~Reverts(tx))
      /\ receipts' = receipts \cup {<<tx, succeeds>>}
      /\ contracts' = IF succeeds /\ tx.do = "deploy" THEN Put(contracts, tx.target, tx.args)
                      ELSE contracts
      /\ executed' = IF succeeds /\ tx.do = "send" THEN executed \cup {tx} ELSE executed
      /\ pool' = Tail(pool)
      /\ UNCHANGED <<script, runs, state, stage, awaited, artifacts>>
  BY DEF Execute
<1>2. /\ tx \in ToSet(pool) /\ pool' \in Seq(ToSet(pool')) /\ ToSet(pool') \subseteq ToSet(pool)
  BY <1>1, PoolTaken DEF IInv, SentInv
<1> HIDE DEF tx
<1>3. Harmless(tx) /\ tx.do \in {"deploy", "send"}
  BY <1>2 DEF IInv, SentInv, Harmless
<1>4. /\ Extends(contracts, contracts')
      /\ succeeds /\ tx.do = "deploy" =>
             /\ DOMAIN contracts' = DOMAIN contracts \cup {tx.target}
             /\ contracts'[tx.target] = tx.args
  <2>1. CASE succeeds /\ tx.do = "deploy"
    <3>1. Made(tx.target, tx.args)
      BY <1>3, <2>1 DEF Harmless
    <3>2. tx.target \in DOMAIN contracts => contracts[tx.target] = tx.args
      BY <3>1, MadeOnce DEF IInv, ContractsInv
    <3>3. contracts' = Put(contracts, tx.target, tx.args)
      BY <1>1, <2>1
    <3> QED BY <3>2, <3>3 DEF Put, Extends
  <2>2. CASE ~(succeeds /\ tx.do = "deploy")
    BY <1>1, <2>2 DEF Extends
  <2> QED BY <2>1, <2>2
<1>5. Extends(artifacts, artifacts') /\ executed \subseteq executed'
  BY <1>1 DEF Extends
<1>6. /\ \A address, args : Made(address, args) => Made(address, args)'
      /\ \A t : Harmless(t) => Harmless(t)'
      /\ \A task : Fulfilled(task) => Fulfilled(task)'
      /\ \A task : Resolvable(task) =>
             Resolvable(task)' /\ Transaction(task)' = Transaction(task)
      /\ Stages' = Stages /\ (Truffle' <=> Truffle)
      /\ \A market : Initialized(market) => Initialized(market)'
  BY <1>1, <1>4, <1>5, Kept
<1>7. ArtifactsInv'
  BY <1>1, <1>4, <1>6 DEF IInv, ArtifactsInv, Extends
<1>8. ContractsInv'
  <2> SUFFICES ASSUME NEW address \in DOMAIN contracts', NEW args, args = contracts'[address]
               PROVE  Made(address, args)'
    BY DEF ContractsInv
  <2>1. CASE address \in DOMAIN contracts
    BY <1>4, <1>6, <2>1 DEF IInv, ContractsInv, Extends
  <2>2. CASE address \notin DOMAIN contracts
    <3>1. succeeds /\ tx.do = "deploy" /\ address = tx.target
      BY <1>1, <1>4, <2>2
    <3>2. Made(address, args)
      BY <1>3, <1>4, <3>1 DEF Harmless
    <3> QED BY <1>6, <3>2
  <2> QED BY <2>1, <2>2
<1>9. SentInv'
  <2>1. ToSet(pool') \cup awaited' \cup executed' \subseteq ToSet(pool) \cup awaited \cup executed
    BY <1>1, <1>2
  <2> QED BY <1>2, <1>6, <2>1 DEF IInv, SentInv
<1>10. ReceiptsInv'
  <2> SUFFICES ASSUME NEW receipt \in receipts'
               PROVE  /\ receipt[2] \in BOOLEAN
                      /\ receipt[2] => IF receipt[1].do = "deploy"
                                       THEN receipt[1].target \in DOMAIN contracts'
                                       ELSE receipt[1] \in executed'
    BY DEF ReceiptsInv
  <2>1. CASE receipt \in receipts
    BY <1>4, <1>5, <2>1 DEF IInv, ReceiptsInv, Extends
  <2>2. CASE receipt = <<tx, succeeds>>
    BY <1>1, <1>3, <1>4, <2>2
  <2> QED BY <1>1, <2>1, <2>2
<1>11. AwaitedInv'
  BY <1>1, <1>6 DEF IInv, AwaitedInv, Known
<1>12. ExecutedInv'
  <2>1. ASSUME NEW t \in executed', t.method = "approveMaximumOnPerpetual"
        PROVE  Initialized(contracts[t.target][1])'
    <3>1. t.target \in DOMAIN contracts
      <4>1. Harmless(t) /\ t.do # "deploy"
        BY <1>1, <1>2, <2>1 DEF IInv, SentInv, Harmless
      <4> QED BY <2>1, <4>1 DEF Harmless
    <3>2. contracts'[t.target] = contracts[t.target]
      BY <1>4, <3>1 DEF Extends
    <3>3. Initialized(contracts[t.target][1])
      <4>1. CASE t \in executed
        BY <2>1, <4>1 DEF IInv, ExecutedInv
      <4>2. CASE t = tx /\ succeeds
        BY <1>1, <2>1, <4>2 DEF Reverts, ApproveReverts
      <4> QED BY <1>1, <4>1, <4>2
    <3> QED BY <1>6, <3>2, <3>3
  <2>2. ASSUME NEW t1 \in executed', NEW t2 \in executed', t1.method = "initializeV1",
               t2.method = "initializeV1", t1.target = t2.target
        PROVE  t1 = t2
    <3>1. CASE t1 \in executed /\ t2 \in executed
      BY <2>2, <3>1 DEF IInv, ExecutedInv
    <3>2. CASE ~(t1 \in executed /\ t2 \in executed) /\ ~(t1 = tx /\ t2 = tx)
      <4>1. succeeds /\ tx.method = "initializeV1" /\ Initialized(tx.target)
        BY <1>1, <2>2, <3>2 DEF Initialized
      <4> QED BY <1>1, <4>1 DEF Reverts, InitializeReverts
    <3> QED BY <3>1, <3>2
  <2> QED BY <2>1, <2>2 DEF ExecutedInv
<1>13. StagesInv'
  BY <1>1, <1>6 DEF IInv, StagesInv
<1> QED BY <1>1, <1>7, <1>8, <1>9, <1>10, <1>11, <1>12, <1>13 DEF IInv

\* Another run of truffle starts from nothing, one of hardhat from what is recorded.
LEMMA StepRunAgain ==
  ASSUME IInv, RunAgain
  PROVE  IInv'
<1>1. /\ runs' = runs + 1 /\ state' = "running" /\ stage' = 1
      /\ awaited' = {} /\ receipts' = {}
      /\ artifacts' = IF Truffle THEN <<>> ELSE artifacts
      /\ UNCHANGED <<script, pool, contracts, executed>>
  BY DEF RunAgain, Truffle
<1>2. /\ Truffle' <=> Truffle
      /\ ~Truffle => Extends(artifacts, artifacts')
      /\ Extends(contracts, contracts')
  BY <1>1 DEF Truffle, Extends
<1>3. /\ \A address, args : Made(address, args) => Made(address, args)'
      /\ \A t : Harmless(t) => Harmless(t)'
  BY <1>1, <1>2, MadeKept, HarmlessKept
<1>4. ArtifactsInv'
  <2>1. CASE Truffle
    <3>1. DOMAIN artifacts' = {}
      BY <1>1, <2>1
    <3> QED BY <3>1 DEF ArtifactsInv
  <2>2. CASE ~Truffle
    BY <1>1, <1>2, <2>2 DEF IInv, ArtifactsInv
  <2> QED BY <2>1, <2>2
<1>5. ContractsInv'
  BY <1>1, <1>3 DEF IInv, ContractsInv
<1>6. SentInv'
  BY <1>1, <1>3 DEF IInv, SentInv
<1>7. ReceiptsInv' /\ AwaitedInv'
  BY <1>1 DEF ReceiptsInv, AwaitedInv
<1>8. ExecutedInv'
  BY <1>1 DEF IInv, ExecutedInv, Initialized
<1>9. StagesInv'
  <2>1. Stages' = Stages /\ Stages \in Seq(Seq(Task))
    BY <1>1, ScriptTasks DEF Stages, IInv
  <2>2. \A s \in DOMAIN Stages' : ~(s < 1)
    BY <2>1
  <2> QED BY <1>1, <2>2 DEF IInv, StagesInv
<1> QED BY <1>1, <1>4, <1>5, <1>6, <1>7, <1>8, <1>9 DEF IInv

-----------------------------------------------------------------------------
(* Theorems                                                                 *)

\* For any scripts and any number of runs: what any transaction of any run may still do
\* is harmless, what is recorded was made of what is recorded, and every stage that the
\* script has left behind has been fulfilled.
THEOREM MigrationInvariant == Spec => []IInv
<1>1. Init => IInv
  <2> SUFFICES ASSUME Init PROVE IInv
    OBVIOUS
  <2>1. /\ script \in Script /\ runs = 1 /\ state = "running" /\ stage = 1
        /\ awaited = {} /\ artifacts = <<>>
        /\ pool = <<>> /\ receipts = {} /\ contracts = <<>> /\ executed = {}
    BY MigrationAssumption DEF Init
  <2>2. DOMAIN artifacts = {} /\ DOMAIN contracts = {}
    BY <2>1
  <2>3. ArtifactsInv /\ ContractsInv /\ ReceiptsInv /\ AwaitedInv /\ ExecutedInv
    BY <2>1, <2>2 DEF ArtifactsInv, ContractsInv, ReceiptsInv, AwaitedInv, ExecutedInv
  <2>4. SentInv
    <3>1. ToSet(<<>>) = {} /\ <<>> \in Seq(ToSet(<<>>))
      BY DEF ToSet
    <3> QED BY <2>1, <3>1 DEF SentInv
  <2>5. StagesInv
    <3>1. \A s \in DOMAIN Stages : ~(s < 1)
      BY <2>1, ScriptTasks
    <3> QED BY <2>1, <3>1 DEF StagesInv
  <2> QED BY <2>1, <2>3, <2>4, <2>5 DEF IInv
<1>2. IInv /\ [Next]_vars => IInv'
  <2> SUFFICES ASSUME IInv, [Next]_vars PROVE IInv'
    OBVIOUS
  <2>1. ASSUME Finish PROVE IInv'
    <3>1. state' = "done" => stage > Len(Stages)
      BY <2>1 DEF Finish
    <3> QED BY <2>1, <3>1, StepStop DEF Finish
  <2>2. ASSUME Interrupt PROVE IInv'
    BY <2>2, StepStop DEF Interrupt
  <2>3. ASSUME UNCHANGED vars PROVE IInv'
    <3>1. state' = "done" => stage > Len(Stages)
      BY <2>3 DEF vars, IInv, StagesInv
    <3> QED BY <2>3, <3>1, StepStop DEF vars
  <2> QED BY <2>1, <2>2, <2>3, StepBeginStage, StepReceipt, StepExecute, StepRunAgain DEF Next
<1> QED BY <1>1, <1>2, PTL DEF Spec
\* DoneMeansWired: a script that ends has wired one market, whatever earlier runs left
\* on the chain and whenever their transactions were executed.  The hardhat script does
\* not wait for initializeV1; that it was executed follows from the later call of
\* approveMaximumOnPerpetual, which fails without it.
THEOREM ScriptsWireTheirMarket == Spec => []DoneMeansWired
<1>1. IInv => DoneMeansWired
  <2> SUFFICES ASSUME IInv, state = "done"
               PROVE  /\ \A name \in {"P1Orders", "P1Liquidation", "P1LiquidatorProxy", "TestP1Trader"} :
                             artifacts[name] \in Operators(Market)
                      /\ contracts[artifacts["P1Orders"]] = <<Market>>
                      /\ contracts[artifacts["P1LiquidatorProxy"]]
                           = <<Market, artifacts["P1Liquidation"]>>
                      /\ script[1] = "truffle" =>
                             Called("setRoute", artifacts["P1MakerOracle"], <<Market>>)
                      /\ script[1] = "hardhat" =>
                             Called("initializeV1", Market,
                                    <<artifacts["P1MakerOracle"], artifacts["P1FundingOracle"]>>)
    BY DEF DoneMeansWired
  <2>1. ASSUME NEW task, Has(Stages, task) PROVE Fulfilled(task)
    <3>1. PICK s \in DOMAIN Stages : \E i \in DOMAIN Stages[s] : Stages[s][i] = task
      BY <2>1 DEF Has
    <3>2. s < stage
      BY ScriptTasks DEF IInv, StagesInv
    <3> QED BY <3>1, <3>2 DEF IInv, StagesInv
  <2>2. /\ ~Truffle => Has(Stages, ApproveMaximum)
        /\ Truffle => Has(Stages, SetRoute)
        /\ \A name \in Operator : Has(Stages, SetGlobalOperator(name))
    <3>1. CASE Truffle
      <4>1. isDevNetwork(script[2])
        <5>1. ~isDevNetwork(script[2]) => Fulfilled(Throw)
          BY <2>1, <3>1, TruffleTasks DEF Stages, Truffle
        <5> QED BY <5>1 DEF Fulfilled, Throw
      <4> QED BY <3>1, <4>1, TruffleTasks DEF Stages, Truffle
    <3>2. CASE ~Truffle
      BY <3>2, HardhatTasks DEF Stages, Truffle
    <3> QED BY <3>1, <3>2
  <2>3. ASSUME NEW name \in Operator
        PROVE  /\ Known(name) /\ Known("PerpetualProxy")
               /\ artifacts[name] \in Operators(Market)
    <3> DEFINE task == SetGlobalOperator(name)
               tx == Transaction(task)
    <3>1. /\ task.do = "send" /\ task.method = "setGlobalOperator"
          /\ task.name = "PerpetualProxy" /\ task.args = <<name>>
      BY DEF SetGlobalOperator, Send
    <3>2. Fulfilled(task)
      BY <2>1, <2>2
    <3> HIDE DEF task
    <3>3. Resolvable(task) /\ (IsAwaited(tx) => Called(task.method, artifacts[task.name], tx.args))
      BY <3>1, <3>2 DEF Fulfilled
    <3>4. Known(name) /\ Known("PerpetualProxy")
      BY <3>1, <3>3 DEF Resolvable
    <3>5. tx.method = "setGlobalOperator" /\ tx.args[1] = artifacts[name]
      BY <3>1 DEF Transaction
    <3> HIDE DEF tx
    <3>6. PICK t \in executed : t.method = "setGlobalOperator" /\ t.target = Market /\ t.args = tx.args
      BY <3>1, <3>3, <3>5 DEF IsAwaited, Called, Market
    <3> QED BY <3>4, <3>5, <3>6 DEF Operators
  <2>4. Known("P1Orders") /\ Known("P1Liquidation") /\ Known("P1LiquidatorProxy")
        /\ Known("PerpetualProxy")
    BY <2>3 DEF Operator
  <2>5. contracts[artifacts["P1Orders"]] = <<Market>>
    <3>1. contracts[artifacts["P1Orders"]]
            = [i \in DOMAIN <<"PerpetualProxy">> |-> artifacts[<<"PerpetualProxy">>[i]]]
      BY <2>4, Needs, PartsOf DEF IInv
    <3> QED BY <3>1 DEF Market
  <2>6. contracts[artifacts["P1LiquidatorProxy"]] = <<Market, artifacts["P1Liquidation"]>>
    <3> DEFINE needs == <<"PerpetualProxy", "P1Liquidation">>
    <3>1. \A i \in DOMAIN needs : Known(needs[i])
      BY <2>4
    <3>2. contracts[artifacts["P1LiquidatorProxy"]] = [i \in DOMAIN needs |-> artifacts[needs[i]]]
      BY <2>4, <3>1, Needs, PartsOf DEF IInv
    <3> QED BY <3>2 DEF Market
  <2>7. ASSUME Truffle
        PROVE  Called("setRoute", artifacts["P1MakerOracle"], <<Market>>)
    <3>1. /\ SetRoute.do = "send" /\ SetRoute.method = "setRoute"
          /\ SetRoute.name = "P1MakerOracle" /\ SetRoute.args = <<"PerpetualProxy">>
      BY DEF SetRoute, Send
    <3>2. Fulfilled(SetRoute)
      BY <2>1, <2>2, <2>7
    <3>3. Transaction(SetRoute).method = "setRoute" /\ Transaction(SetRoute).args = <<Market>>
      BY <3>1 DEF Transaction, Market
    <3> QED BY <3>1, <3>2, <3>3 DEF Fulfilled, IsAwaited
  <2>8. ASSUME ~Truffle
        PROVE  Called("initializeV1", Market,
                      <<artifacts["P1MakerOracle"], artifacts["P1FundingOracle"]>>)
    <3>1. /\ ApproveMaximum.do = "send" /\ ApproveMaximum.name = "P1LiquidatorProxy"
          /\ ApproveMaximum.method = "approveMaximumOnPerpetual"
      BY DEF ApproveMaximum, Send
    <3>2. Fulfilled(ApproveMaximum)
      BY <2>1, <2>2, <2>8
    <3>3. Transaction(ApproveMaximum).method = "approveMaximumOnPerpetual"
      BY <3>1 DEF Transaction
    <3>4. PICK t \in executed : /\ t.method = "approveMaximumOnPerpetual"
                                /\ t.target = artifacts["P1LiquidatorProxy"]
      BY <3>1, <3>2, <3>3 DEF Fulfilled, IsAwaited, Called
    <3>5. Initialized(Market)
      BY <2>6, <3>4 DEF IInv, ExecutedInv
    <3>6. PICK init \in executed : init.target = Market /\ init.method = "initializeV1"
      BY <3>5 DEF Initialized
    <3>7. init.args = <<artifacts["P1MakerOracle"], artifacts["P1FundingOracle"]>>
      BY <2>8, <3>6 DEF IInv, SentInv, Harmless
    <3> QED BY <3>6, <3>7 DEF Called
  <2> QED BY <2>3, <2>5, <2>6, <2>7, <2>8 DEF Truffle, Operator
<1> QED BY <1>1, MigrationInvariant, PTL

\* MarketsSeparate: of all runs together, a market is initialized once, and no operator
\* of a market was made for another one.
THEOREM MarketsStaySeparate == Spec => []MarketsSeparate
<1>1. IInv => MarketsSeparate
  <2> SUFFICES ASSUME IInv, NEW address \in DOMAIN contracts
               PROVE  /\ \A t1, t2 \in executed :
                             t1.method = "initializeV1" /\ t2.method = "initializeV1"
                             /\ t1.target = address /\ t2.target = address => t1 = t2
                      /\ \A operator \in Operators(address) :
                             contracts[operator] = <<>> \/ contracts[operator][1] = address
    BY DEF MarketsSeparate
  <2>1. ASSUME NEW operator \in Operators(address)
        PROVE  contracts[operator] = <<>> \/ contracts[operator][1] = address
    <3>1. PICK tx \in executed : /\ tx.method = "setGlobalOperator" /\ tx.target = address
                                 /\ operator = tx.args[1]
      BY <2>1 DEF Operators
    <3>2. Harmless(tx)
      BY DEF IInv, SentInv
    <3> QED BY <3>1, <3>2 DEF Harmless, OperatorFits
  <2> QED BY <2>1 DEF IInv, ExecutedInv
<1> QED BY <1>1, MigrationInvariant, PTL
=============================================================================
