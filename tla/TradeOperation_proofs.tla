------------------------ MODULE TradeOperation_proofs ------------------------
(***************************************************************************)
(* Proofs about Contracts and TradeOperation: for any number of sends,     *)
(* operations, networks and confirmations, the promises of send() keep     *)
(* what TxPromise says, whatever the callers pass and the node reports.    *)
(***************************************************************************)
EXTENDS TradeOperation, FiniteSetTheorems, TLAPS

-----------------------------------------------------------------------------
(* The options of a call of send()                                         *)

(* Options that say nothing wrong about the number of confirmations. *)
ValidOptions(o) == "confirmations" \in DOMAIN o => o.confirmations \in Confirmations

(* The number of confirmations comes from the caller, from the constructor *)
(* or from the defaults.                                                   *)
LEMMA OptionsHaveConfirmations ==
  ASSUME NEW o, ValidOptions(o)
  PROVE  SendOptionsOf(o).confirmations \in Confirmations
<1> DEFINE basic == [gas |-> 0, value |-> 0, from |-> NoAddress,
                     confirmations |-> 0, confirmationType |-> "Confirmed"]
<1>1. basic.confirmations = 0 /\ "confirmations" \in DOMAIN basic
  OBVIOUS
<1>2. defaultOptions = Spread(SendOptions, basic)
  BY DEF defaultOptions
<1> HIDE DEF basic
<1>3. /\ "confirmations" \in DOMAIN defaultOptions
      /\ defaultOptions.confirmations \in Confirmations
  BY <1>1, <1>2, ContractsAssumption DEF Spread
<1>4. SendOptionsOf(o).confirmations \in Confirmations
  BY <1>3 DEF SendOptionsOf, ValidOptions, Spread
<1> QED BY <1>4

(* Whatever method of the client is called, its options are valid. *)
LEMMA GivenOptionsAreValid ==
  ASSUME NEW s \in Sends, NEW opts \in OptionsOf[s], NEW x
  PROVE  /\ ValidOptions(Given(opts))
         /\ ValidOptions(Spread([from |-> x], Given(opts)))
         /\ ValidOptions(Spread([value |-> x], Given(opts)))
<1>1. ValidOptions(Given(opts))
  <2>1. CASE opts = NoOptions
    BY <2>1 DEF Given, ValidOptions
  <2>2. CASE opts # NoOptions
    BY <2>2, TradeOperationAssumption DEF Given, ValidOptions
  <2> QED BY <2>1, <2>2
<1> DEFINE from == [from |-> x]
           value == [value |-> x]
<1>2. "confirmations" \notin DOMAIN from /\ "confirmations" \notin DOMAIN value
  OBVIOUS
<1> HIDE DEF from, value
<1>3. ValidOptions(Spread(from, Given(opts))) /\ ValidOptions(Spread(value, Given(opts)))
  BY <1>1, <1>2 DEF ValidOptions, Spread
<1> QED BY <1>1, <1>3 DEF from, value

(* Every step of a TradeOperation is one of Contracts, a call of send(),   *)
(* a call refused before it, or leaves the promises alone.                 *)
LEMMA StepIsOneOf ==
  ASSUME [Next]_allVars
  PROVE  \/ ContractsStep
         \/ \E s \in Sends : \E m, o : ValidOptions(o) /\ Send(s, m, o)
         \/ \E s \in Sends : \E m : Refuse(s, m)
         \/ UNCHANGED contractsVars
<1>1. CASE AddStep
  BY <1>1 DEF AddStep, FillSignedOrder, Liquidate, AddTradeArg
<1>2. ASSUME NEW s \in Sends, NEW opts \in OptionsOf[s], CallStep(s, opts)
      PROVE  \/ \E m, o : ValidOptions(o) /\ Send(s, m, o)
             \/ \E m : Refuse(s, m)
  <2>1. CASE \E o \in Operations : Commit(o, s, opts)
    BY <2>1, GivenOptionsAreValid DEF Commit
  <2>2. CASE \E t \in DirectTrades : TradeDirectly(s, t[1], t[2], opts)
    BY <2>2, GivenOptionsAreValid DEF TradeDirectly
  <2>3. CASE \E m \in WrapperCalls : Wrapper(s, m, opts)
    BY <2>3, GivenOptionsAreValid DEF Wrapper
  <2>4. CASE \E c \in TokenCalls : TokenCall(s, c[1], c[2], opts)
    BY <2>4, GivenOptionsAreValid DEF TokenCall
  <2>5. CASE \E amount \in Amounts : Wrap(s, amount, opts)
    BY <2>5, GivenOptionsAreValid DEF Wrap
  <2> QED BY <1>2, <2>1, <2>2, <2>3, <2>4, <2>5 DEF CallStep
<1>3. CASE ContractsOnly
  BY <1>3 DEF ContractsOnly
<1>4. CASE UNCHANGED allVars
  BY <1>4 DEF allVars
<1> QED BY <1>1, <1>2, <1>3, <1>4 DEF Next

-----------------------------------------------------------------------------
(* The invariant                                                           *)

LEMMA InitTyped == Init => ContractsTypeOK
<1> SUFFICES ASSUME Init PROVE ContractsTypeOK
  OBVIOUS
<1>1. defaultOptions.confirmations \in Confirmations
  <2>1. "confirmations" \notin DOMAIN <<>>
    OBVIOUS
  <2>2. defaultOptions.confirmations = SendOptionsOf(<<>>).confirmations
    <3>1. "confirmations" \in DOMAIN defaultOptions
      BY DEF defaultOptions, Spread
    <3> QED BY <2>1, <3>1 DEF SendOptionsOf, Spread
  <2> QED BY <2>1, <2>2, OptionsHaveConfirmations DEF ValidOptions
<1> HIDE DEF defaultOptions
<1> QED BY <1>1, ContractsAssumption
  DEF Init, ContractsInit, ContractsTypeOK, StageFits, PC, OUTCOMES, Listeners

(* The handlers that method.send() is called with fit the options. *)
LEMMA FirstListenersFit ==
  ASSUME NEW o
  PROVE  /\ FirstListeners(o) \subseteq Listeners
         /\ ConfirmationListeners(o) \subseteq Listeners
         /\ "receipt" \in FirstListeners(o) \cup ConfirmationListeners(o) => o.confirmations = 0
         /\ o.confirmationType = "Hash" => FirstListeners(o) \subseteq HashListeners
BY DEF FirstListeners, ConfirmationListeners, HashListeners, Listeners

LEMMA SendKeepsTypes ==
  ASSUME ContractsTypeOK,
         NEW s \in Sends, NEW m, NEW o, ValidOptions(o), Send(s, m, o)
  PROVE  ContractsTypeOK'
<1> DEFINE merged == SendOptionsOf(o)
<1>1. merged.confirmations \in Confirmations
  BY OptionsHaveConfirmations
<1>2. pc' \in [Sends -> PC] /\ pc'[s] # "idle" /\ \A t \in Sends : t # s => pc'[t] = pc[t]
  BY DEF Send, Submit, ContractsTypeOK, PC
<1>3. /\ \A t \in Sends : t # s => listeners'[t] = listeners[t]
      /\ \/ listeners'[s] = {}
         \/ pc'[s] = "sent" /\ listeners'[s] = FirstListeners(merged)
      /\ listeners' \in [Sends -> SUBSET Listeners]
  BY FirstListenersFit DEF Send, Submit, ContractsTypeOK, StageFits, PC
<1>4. /\ options' = [options EXCEPT ![s] = merged] /\ request' = [request EXCEPT ![s] = m]
      /\ pc[s] = "idle"
      /\ UNCHANGED <<networkId, hashOutcome, confirmationOutcome, chainVars>>
  BY DEF Send
<1> HIDE DEF merged
<1>5. ASSUME NEW t \in Sends, t # s
      PROVE  /\ options'[t] = options[t] /\ request'[t] = request[t]
             /\ pc'[t] = pc[t] /\ listeners'[t] = listeners[t]
  BY <1>2, <1>3, <1>4, <1>5 DEF ContractsTypeOK
<1>6. options'[s] = merged
  BY <1>4 DEF ContractsTypeOK
<1>7. \A n \in Sends : StageFits(n)'
  BY <1>1, <1>2, <1>3, <1>4, <1>5, <1>6, FirstListenersFit
     DEF ContractsTypeOK, StageFits, chainVars
<1> QED BY <1>2, <1>3, <1>4, <1>7 DEF ContractsTypeOK, chainVars

LEMMA RefuseKeepsTypes ==
  ASSUME ContractsTypeOK, NEW s \in Sends, NEW m, Refuse(s, m)
  PROVE  ContractsTypeOK'
<1>1. /\ pc' = [pc EXCEPT ![s] = "failed"] /\ request' = [request EXCEPT ![s] = m]
      /\ pc[s] = "idle"
      /\ UNCHANGED <<networkId, options, listeners, hashOutcome, confirmationOutcome, chainVars>>
  BY DEF Refuse
<1>2. \A n \in Sends : StageFits(n)'
  BY <1>1 DEF ContractsTypeOK, StageFits, chainVars
<1> QED BY <1>1, <1>2 DEF ContractsTypeOK, PC, chainVars

(* The continuation of send() after the estimate. *)
LEMMA EstimateKeepsTypes ==
  ASSUME ContractsTypeOK, NEW s \in Sends, Estimated(s) \/ EstimateFails(s)
  PROVE  ContractsTypeOK'
<1>1. /\ pc' \in [Sends -> PC] /\ pc'[s] # "idle"
      /\ \A n \in Sends : n # s => pc'[n] = pc[n]
      /\ pc[s] = "estimating"
      /\ UNCHANGED <<networkId, options, request, hashOutcome, confirmationOutcome, chainVars>>
  BY DEF Estimated, EstimateFails, Submit, ContractsTypeOK, PC
<1>2. /\ \A n \in Sends : n # s => listeners'[n] = listeners[n]
      /\ \/ listeners'[s] = {}
         \/ pc'[s] = "sent" /\ listeners'[s] = FirstListeners(options[s])
      /\ listeners' \in [Sends -> SUBSET Listeners]
  BY FirstListenersFit DEF Estimated, EstimateFails, Submit, ContractsTypeOK, StageFits, PC
<1>3. \A n \in Sends : StageFits(n)'
  BY <1>1, <1>2, FirstListenersFit DEF ContractsTypeOK, StageFits, chainVars
<1> QED BY <1>1, <1>2, <1>3 DEF ContractsTypeOK, chainVars

LEMMA EnvironmentKeepsTypes ==
  ASSUME ContractsTypeOK, NEW s \in Sends, Environment(s)
  PROVE  ContractsTypeOK'
<1> USE DEF ContractsTypeOK, StageFits, sendVars
<1>1. CASE ChainAccepts(s)
  BY <1>1 DEF ChainAccepts
<1>2. CASE ChainExecutes(s)
  BY <1>2 DEF ChainExecutes
<1>3. CASE ChainGrows(s)
  BY <1>3, ContractsAssumption DEF ChainGrows
<1> QED BY <1>1, <1>2, <1>3 DEF Environment

(* What the handlers do to the outcomes: each one changes one of them,     *)
(* from INITIAL, and a transaction that is being waited for was sent.      *)
LEMMA EventKeepsTypes ==
  ASSUME ContractsTypeOK, NEW s \in Sends, Event(s)
  PROVE  ContractsTypeOK'
<1>1. CASE OnTransactionHash(s)
  BY <1>1, FirstListenersFit
     DEF OnTransactionHash, ContractsTypeOK, StageFits, chainVars, OUTCOMES, Listeners
<1>2. CASE OnError(s)
  BY <1>2 DEF OnError, ContractsTypeOK, StageFits, chainVars, OUTCOMES, HashListeners
<1>3. ASSUME Confirm(s), {"receipt", "confirmation"} \cap listeners[s] # {}
      PROVE  ContractsTypeOK'
  BY <1>3 DEF Confirm, ContractsTypeOK, StageFits, chainVars, OUTCOMES, HashListeners
<1> QED BY <1>1, <1>2, <1>3 DEF Event, OnReceipt, OnConfirmation

LEMMA StepKeepsTypes == ContractsTypeOK /\ [Next]_allVars => ContractsTypeOK'
<1> SUFFICES ASSUME ContractsTypeOK, [Next]_allVars PROVE ContractsTypeOK'
  OBVIOUS
<1>1. CASE ContractsStep
  <2>1. CASE \E network \in Networks : SetProvider(network)
    BY <2>1 DEF SetProvider, sendVars, chainVars, ContractsTypeOK, StageFits
  <2> QED BY <1>1, <2>1, EstimateKeepsTypes, EventKeepsTypes, EnvironmentKeepsTypes
          DEF ContractsStep
<1>2. CASE UNCHANGED contractsVars
  BY <1>2 DEF contractsVars, sendVars, chainVars, ContractsTypeOK, StageFits
<1> QED BY <1>1, <1>2, StepIsOneOf, SendKeepsTypes, RefuseKeepsTypes

(* Until a transaction leaves the client nothing is reported of it, and    *)
(* whoever was told an outcome hears no more: for all sends, options and   *)
(* orders of events, a retried estimate or a repeated event included.      *)
THEOREM ContractsTypeCorrect == Spec => []ContractsTypeOK
<1> QED BY InitTyped, StepKeepsTypes, PTL DEF Spec

-----------------------------------------------------------------------------
(* The refinement: what each action of Contracts is in TxPromise           *)

LEMMA InitPromises == Init => Promise!Init
<1> SUFFICES ASSUME Init PROVE Promise!Init
  OBVIOUS
<1>1. \A s \in Sends : options[s].confirmations \in Confirmations
  BY InitTyped DEF ContractsTypeOK, StageFits
<1> QED BY <1>1 DEF Init, ContractsInit, Promise!Init

LEMMA RequiredUpdated ==
  ASSUME ContractsTypeOK, NEW s \in Sends, NEW o, options' = [options EXCEPT ![s] = o]
  PROVE  [n \in Sends |-> options'[n].confirmations]
           = [[n \in Sends |-> options[n].confirmations] EXCEPT ![s] = o.confirmations]
BY DEF ContractsTypeOK

(* send() asks for a number of confirmations. *)
LEMMA SendAsks ==
  ASSUME ContractsTypeOK,
         NEW s \in Sends, NEW m, NEW o, ValidOptions(o), Send(s, m, o)
  PROVE  Promise!Ask(s)
<1> DEFINE merged == SendOptionsOf(o)
<1>1. merged.confirmations \in Confirmations
  BY OptionsHaveConfirmations
<1>2. /\ options' = [options EXCEPT ![s] = merged] /\ pc[s] = "idle"
      /\ UNCHANGED <<hashOutcome, confirmationOutcome, chain, depth>>
  BY DEF Send, chainVars
<1> HIDE DEF merged
<1>3. chain[s] = "none" /\ hashOutcome[s] = "INITIAL" /\ confirmationOutcome[s] = "INITIAL"
  BY <1>2 DEF ContractsTypeOK, StageFits
<1> QED BY <1>1, <1>2, <1>3, RequiredUpdated DEF Promise!Ask

LEMMA EnvironmentProgresses ==
  ASSUME NEW s \in Sends, Environment(s)
  PROVE  Promise!Progress(s)
BY DEF Environment, ChainAccepts, ChainExecutes, ChainGrows, sendVars, Promise!Progress

(* Of all handlers only the one that has the receipt does not look at the  *)
(* outcome so far and the depth: the invariant says that the outcome is    *)
(* still open and that no depth was asked for.                             *)
LEMMA EventSettles ==
  ASSUME ContractsTypeOK, NEW s \in Sends, Event(s)
  PROVE  Promise!SettleHash(s) \/ Promise!SettleConfirmation(s)
<1>1. CASE OnTransactionHash(s)
  BY <1>1 DEF OnTransactionHash, chainVars, Promise!SettleHash
<1>2. CASE OnError(s)
  BY <1>2 DEF OnError, chainVars, Promise!SettleHash, Promise!SettleConfirmation
<1>3. CASE OnReceipt(s)
  <2>1. confirmationOutcome[s] = "INITIAL" /\ options[s].confirmations = 0
    BY <1>3 DEF OnReceipt, ContractsTypeOK, StageFits
  <2>2. depth[s] >= 0
    BY ContractsAssumption DEF ContractsTypeOK
  <2> QED BY <1>3, <2>1, <2>2 DEF OnReceipt, Confirm, chainVars, Promise!SettleConfirmation
<1>4. ASSUME NEW n \in 0..MaxDepth, OnConfirmation(s, n)
      PROVE  Promise!SettleConfirmation(s)
  <2>1. options[s].confirmations \in Confirmations /\ depth[s] \in 0..MaxDepth
    BY DEF ContractsTypeOK, StageFits
  <2>2. options[s].confirmations \in Nat /\ depth[s] \in Nat /\ n \in Nat
    BY <2>1, ContractsAssumption
  <2>3. n >= options[s].confirmations /\ n <= depth[s]
    BY <1>4 DEF OnConfirmation
  <2>4. depth[s] >= options[s].confirmations
    BY <2>2, <2>3
  <2> QED BY <1>4, <2>4 DEF OnConfirmation, Confirm, chainVars, Promise!SettleConfirmation
<1> QED BY <1>1, <1>2, <1>3, <1>4 DEF Event

LEMMA StepPromises == ContractsTypeOK /\ [Next]_allVars => [Promise!Next]_(Promise!txVars)
<1> SUFFICES ASSUME ContractsTypeOK, [Next]_allVars
             PROVE  Promise!Next \/ UNCHANGED Promise!txVars
  OBVIOUS
<1>1. CASE UNCHANGED <<options, hashOutcome, confirmationOutcome, chainVars>>
  BY <1>1 DEF chainVars, Promise!txVars
<1>2. CASE ContractsStep
  <2>1. CASE \E network \in Networks : SetProvider(network)
    BY <1>1, <2>1 DEF SetProvider, sendVars
  <2>2. CASE \E s \in Sends : Estimated(s) \/ EstimateFails(s)
    BY <1>1, <2>2 DEF Estimated, EstimateFails
  <2> QED BY <1>2, <2>1, <2>2, EventSettles, EnvironmentProgresses
          DEF ContractsStep, Promise!Next
<1>3. CASE \E s \in Sends : \E m, o : ValidOptions(o) /\ Send(s, m, o)
  BY <1>3, SendAsks DEF Promise!Next
<1>4. CASE \E s \in Sends : \E m : Refuse(s, m)
  BY <1>1, <1>4 DEF Refuse
<1>5. CASE UNCHANGED contractsVars
  BY <1>1, <1>5 DEF contractsVars, sendVars
<1> QED BY <1>2, <1>3, <1>4, <1>5, StepIsOneOf

(* Contracts.send implements TxPromise: each promise settles at most once, *)
(* a hash is promised only of a transaction a node knows, a confirmation   *)
(* only of one that was executed and lies as deep as the caller asked,     *)
(* for every interleaving of the events of any number of transactions.     *)
THEOREM SendRefinesTxPromise == Spec => SendKeepsItsPromise
<1> QED BY InitPromises, StepPromises, ContractsTypeCorrect, PTL
        DEF Spec, SendKeepsItsPromise, Promise!Spec

-----------------------------------------------------------------------------
(* What is marked as committed stays                                       *)

IsCall(m, o) == "operation" \in DOMAIN m /\ m.operation = o

LEMMA MethodsHaveNoOperation ==
  ASSUME NEW m \in Wrappers \cup TokenMethods \cup {WrapMethod, NoRequest}
  PROVE  "operation" \notin DOMAIN m
<1>1. CASE m = NoRequest
  BY <1>1 DEF NoRequest
<1>2. CASE m \in Wrappers \cup TokenMethods \cup {WrapMethod}
  <2>1. \E contract, name, arity : m = Method(contract, name, arity)
    BY <1>2 DEF Wrappers, TokenMethods, WrapMethod, AdminMethods, MarginMethods,
       OperatorMethods, FinalSettlementMethods, ProxyMethods, FundingOracleMethods,
       MakerPriceOracleMethods, LiquidatorProxyMethods, OrdersMethods, RelayerMethods,
       UnwrapMethod
  <2> QED BY <2>1 DEF Method
<1> QED BY <1>1, <1>2

LEMMA TradeCallOperation ==
  ASSUME NEW o, NEW accounts, NEW tradeArgs
  PROVE  TradeCall(o, accounts, tradeArgs).operation = o
<1> DEFINE args == [operation |-> o, accounts |-> accounts, tradeArgs |-> tradeArgs]
<1>1. "operation" \in DOMAIN args /\ args.operation = o
  OBVIOUS
<1> HIDE DEF args
<1>2. Spread(args, TradeMethod).operation = o
  BY <1>1 DEF Spread
<1> QED BY <1>2 DEF TradeCall, args

(* A call of another method is not a call for an operation, and commit()   *)
(* of a marked operation is refused.                                       *)
LEMMA CallOfCommitted ==
  ASSUME ContractsTypeOK, NEW o \in Operations, committed[o],
         NEW s \in Sends, NEW opts \in OptionsOf[s], CallStep(s, opts)
  PROVE  \E m : request' = [request EXCEPT ![s] = m] /\ (IsCall(m, o) => pc'[s] = "failed")
<1> USE DEF Send, Refuse
<1>1. CASE \E other \in Operations : Commit(other, s, opts)
  <2> PICK other \in Operations : Commit(other, s, opts)
    BY <1>1
  <2>1. CASE Refuse(s, TradeCall(other, <<>>, <<>>))
    BY <2>1 DEF ContractsTypeOK
  <2>2. CASE ~committed[other] /\ Send(s, CommitCall(other), Given(opts))
    <3>1. \E accounts, tradeArgs : CommitCall(other) = TradeCall(other, accounts, tradeArgs)
      BY DEF CommitCall
    <3>2. ~IsCall(CommitCall(other), o)
      BY <2>2, <3>1, TradeCallOperation DEF IsCall
    <3> QED BY <2>2, <3>2
  <2> QED BY <2>1, <2>2 DEF Commit
<1>2. CASE \E t \in DirectTrades : TradeDirectly(s, t[1], t[2], opts)
  BY <1>2, TradeCallOperation, TradeOperationAssumption DEF TradeDirectly, IsCall
<1>3. CASE \E m \in WrapperCalls : Wrapper(s, m, opts)
  BY <1>3, MethodsHaveNoOperation, TradeOperationAssumption DEF Wrapper, IsCall
<1>4. CASE \E c \in TokenCalls : TokenCall(s, c[1], c[2], opts)
  <2> PICK c \in TokenCalls : TokenCall(s, c[1], c[2], opts)
    BY <1>4
  <2> DEFINE owner == [owner |-> c[2]]
  <2>1. "operation" \notin DOMAIN owner
    OBVIOUS
  <2> HIDE DEF owner
  <2>2. "operation" \notin DOMAIN Spread(owner, c[1])
    BY <2>1, MethodsHaveNoOperation, TradeOperationAssumption DEF Spread
  <2> QED BY <2>2 DEF TokenCall, IsCall, owner
<1>5. CASE \E amount \in Amounts : Wrap(s, amount, opts)
  <2> PICK amount \in Amounts : Wrap(s, amount, opts)
    BY <1>5
  <2> DEFINE given == [amount |-> amount]
  <2>1. "operation" \notin DOMAIN given
    OBVIOUS
  <2> HIDE DEF given
  <2>2. "operation" \notin DOMAIN Spread(given, WrapMethod)
    BY <2>1, MethodsHaveNoOperation DEF Spread
  <2> QED BY <2>2 DEF Wrap, IsCall, given
<1> QED BY <1>1, <1>2, <1>3, <1>4, <1>5 DEF CallStep

OperationsTyped == DOMAIN trades = Operations /\ DOMAIN committed = Operations

LEMMA OperationsStayTyped == OperationsTyped /\ [Next]_allVars => OperationsTyped'
<1> USE DEF OperationsTyped, operationVars
<1>1. ASSUME OperationsTyped, AddStep PROVE OperationsTyped'
  BY <1>1 DEF AddStep, FillSignedOrder, Liquidate, AddTradeArg
<1>2. ASSUME OperationsTyped, NEW s \in Sends, NEW opts \in OptionsOf[s], CallStep(s, opts)
      PROVE  OperationsTyped'
  BY <1>2 DEF CallStep, Commit, TradeDirectly, Wrapper, TokenCall, Wrap
<1> QED BY <1>1, <1>2 DEF Next, ContractsOnly, allVars

LEMMA StepAfterCommit ==
  ASSUME ContractsTypeOK, OperationsTyped, [Next]_allVars, NEW o \in Operations, committed[o]
  PROVE  /\ trades'[o] = trades[o]
         /\ committed'[o]
         /\ \A s \in Sends : pc[s] = "idle" /\ IsSendOf(o, s)' => pc'[s] = "failed"
<1>1. UNCHANGED request =>
        \A s \in Sends : pc[s] = "idle" /\ IsSendOf(o, s)' => pc'[s] = "failed"
  BY MethodsHaveNoOperation DEF IsSendOf, ContractsTypeOK, StageFits
<1>2. CASE AddStep
  <2>1. UNCHANGED request
    BY <1>2 DEF AddStep, FillSignedOrder, Liquidate, AddTradeArg, contractsVars, sendVars
  <2> QED BY <1>1, <1>2, <2>1
          DEF AddStep, FillSignedOrder, Liquidate, AddTradeArg, OperationsTyped
<1>3. ASSUME NEW s \in Sends, NEW opts \in OptionsOf[s], CallStep(s, opts)
      PROVE  /\ trades'[o] = trades[o]
             /\ committed'[o]
             /\ \A n \in Sends : pc[n] = "idle" /\ IsSendOf(o, n)' => pc'[n] = "failed"
  <2>1. trades'[o] = trades[o] /\ committed'[o]
    BY <1>3 DEF CallStep, Commit, TradeDirectly, Wrapper, TokenCall, Wrap,
                operationVars, OperationsTyped
  <2>2. PICK m : request' = [request EXCEPT ![s] = m] /\ (IsCall(m, o) => pc'[s] = "failed")
    BY <1>3, CallOfCommitted
  <2>3. IsSendOf(o, s)' => pc'[s] = "failed"
    BY <2>2 DEF IsCall, IsSendOf, ContractsTypeOK
  <2>4. ASSUME NEW n \in Sends, n # s, pc[n] = "idle"
        PROVE  ~IsSendOf(o, n)'
    <3>1. request'[n] = NoRequest
      BY <2>2, <2>4 DEF ContractsTypeOK, StageFits
    <3> QED BY <3>1, MethodsHaveNoOperation DEF IsSendOf
  <2> QED BY <2>1, <2>3, <2>4
<1>4. CASE ContractsOnly \/ UNCHANGED allVars
  <2>1. UNCHANGED request
    BY <1>4 DEF ContractsOnly, ContractsStep, SetProvider, Estimated, EstimateFails, Event,
       OnTransactionHash, OnError, OnReceipt, OnConfirmation, Confirm, Environment,
       ChainAccepts, ChainExecutes, ChainGrows, allVars, contractsVars, sendVars
  <2> QED BY <1>1, <1>4, <2>1 DEF ContractsOnly, allVars, operationVars
<1> QED BY <1>2, <1>3, <1>4 DEF Next

(* An operation that is marked as committed keeps its trades and its mark, *)
(* and no later call of commit() sends it again, whichever methods of the  *)
(* client are called in between and whatever happens to its transaction.   *)
THEOREM CommitIsFinal == Spec => NothingAfterCommit
<1>1. Init => OperationsTyped
  BY DEF Init, OperationsTyped
<1>2. ContractsTypeOK /\ OperationsTyped /\ [Next]_allVars =>
        [\A o \in Operations : committed[o] =>
            /\ trades'[o] = trades[o]
            /\ committed'[o]
            /\ \A s \in Sends : pc[s] = "idle" /\ IsSendOf(o, s)' => pc'[s] = "failed"]_allVars
  BY StepAfterCommit
<1> QED BY <1>1, <1>2, OperationsStayTyped, ContractsTypeCorrect, PTL
        DEF Spec, NothingAfterCommit

-----------------------------------------------------------------------------
(* The calls of trade()                                                    *)

LowerAccounts == Account \X {"lower"}

(* Accounts in lower case can be listed in the order of the addresses: an  *)
(* account is preceded by as many as have a smaller address.               *)
LEMMA SortedListExists ==
  ASSUME NEW S, IsFiniteSet(S), S \subseteq LowerAccounts
  PROVE  \E list \in [1..Cardinality(S) -> S] :
             \A i, j \in DOMAIN list : i < j => SortsBefore(list[i], list[j])
<1> DEFINE n == Cardinality(S)
           upTo(x) == {y \in S : y[1] <= x[1]}
           rank == [x \in S |-> Cardinality(upTo(x))]
<1>1. /\ n \in Nat
      /\ IsFiniteSet(1..n) /\ Cardinality(1..n) = n
  BY FS_CardinalityType, FS_Interval
<1>2. \A x \in S : x[1] \in Nat /\ x = <<x[1], "lower">>
  <2>1. \A x \in Account \X {"lower"} : x[1] \in Account /\ x = <<x[1], "lower">>
    OBVIOUS
  <2> QED BY <2>1, TradeOperationAssumption DEF LowerAccounts
<1>3. ASSUME NEW x \in S
      PROVE  /\ IsFiniteSet(upTo(x)) /\ rank[x] = Cardinality(upTo(x))
             /\ rank[x] \in 1..n
  <2>1. IsFiniteSet(upTo(x)) /\ Cardinality(upTo(x)) <= n
    BY FS_Subset
  <2>2. Cardinality(upTo(x)) \in Nat
    BY <2>1, FS_CardinalityType
  <2>3. upTo(x) # {}
    BY <1>2
  <2>4. Cardinality(upTo(x)) # 0
    BY <2>1, <2>3, FS_EmptySet
  <2> HIDE DEF upTo, n
  <2> QED BY <1>1, <2>1, <2>2, <2>4
<1>4. ASSUME NEW x \in S, NEW y \in S, rank[y] <= rank[x]
      PROVE  y[1] <= x[1]
  <2> SUFFICES ASSUME x[1] < y[1] PROVE FALSE
    BY <1>2
  <2>1. upTo(x) \in SUBSET upTo(y)
    BY <1>2
  <2>2. Cardinality(upTo(x)) <= Cardinality(upTo(y))
    BY <1>3, <2>1, FS_Subset
  <2>3. Cardinality(upTo(x)) = Cardinality(upTo(y))
    <3>1. rank[x] = Cardinality(upTo(x)) /\ rank[y] = Cardinality(upTo(y))
          /\ rank[x] \in Nat /\ rank[y] \in Nat
      BY <1>1, <1>3
    <3> QED BY <1>4, <2>2, <3>1
  <2>4. upTo(x) = upTo(y)
    BY <1>3, <2>1, <2>3, FS_Subset
  <2>5. y \in upTo(x)
    BY <1>2, <2>4
  <2> QED BY <1>2, <2>5
<1> HIDE DEF rank, upTo
<1>5. \A x, y \in S : rank[x] = rank[y] => x = y
  <2> SUFFICES ASSUME NEW x \in S, NEW y \in S, rank[x] = rank[y] PROVE x = y
    OBVIOUS
  <2>1. rank[x] <= rank[y] /\ rank[y] <= rank[x]
    BY <1>1, <1>3
  <2>2. x[1] <= y[1] /\ y[1] <= x[1]
    BY <1>4, <2>1
  <2> QED BY <1>2, <2>2
<1>6. rank \in Injection(S, 1..n)
  <2>1. rank \in [S -> 1..n]
    BY <1>3 DEF rank, upTo
  <2> QED BY <1>5, <2>1 DEF Injection, IsInjective
<1>7. rank \in Surjection(S, 1..n)
  BY <1>1, <1>6, FS_Injection
<1> DEFINE list == [i \in 1..n |-> CHOOSE x \in S : rank[x] = i]
<1>8. \A i \in 1..n : list[i] \in S /\ rank[list[i]] = i
  BY <1>7 DEF Surjection
<1>9. list \in [1..n -> S]
  BY <1>8
<1>10. ASSUME NEW i \in DOMAIN list, NEW j \in DOMAIN list, i < j
       PROVE  SortsBefore(list[i], list[j])
  <2>1. i \in 1..n /\ j \in 1..n
    OBVIOUS
  <2> DEFINE x == list[i]
             y == list[j]
  <2>2. x \in S /\ y \in S /\ rank[x] = i /\ rank[y] = j
    BY <1>8, <2>1
  <2> HIDE DEF x, y
  <2>3. x[1] <= y[1] /\ x # y
    BY <1>1, <1>4, <1>10, <2>1, <2>2
  <2>4. x[1] < y[1] /\ x[2] = y[2]
    BY <1>2, <2>2, <2>3
  <2> QED BY <2>4 DEF SortsBefore, x, y
<1> QED BY <1>9, <1>10

(* A list of as many different accounts as there are lists them all.       *)
LEMMA ListIsComplete ==
  ASSUME NEW S, IsFiniteSet(S), S \subseteq LowerAccounts,
         NEW list \in [1..Cardinality(S) -> S],
         \A i, j \in DOMAIN list : i < j => SortsBefore(list[i], list[j])
  PROVE  /\ \A x \in S : \E i \in DOMAIN list : list[i] = x
         /\ \A i, j \in DOMAIN list : i < j => list[i][1] < list[j][1]
<1> DEFINE n == Cardinality(S)
<1>1. /\ n \in Nat
      /\ IsFiniteSet(1..n) /\ Cardinality(1..n) = n
  BY FS_CardinalityType, FS_Interval
<1>2. \A x \in S : x[1] \in Nat /\ x[2] = "lower"
  BY TradeOperationAssumption DEF LowerAccounts
<1>3. ASSUME NEW i \in DOMAIN list, NEW j \in DOMAIN list, i < j
      PROVE  list[i][1] < list[j][1]
  BY <1>2, <1>3 DEF SortsBefore
<1>4. \A i, j \in 1..n : list[i] = list[j] => i = j
  <2> SUFFICES ASSUME NEW i \in 1..n, NEW j \in 1..n, list[i] = list[j], i < j PROVE FALSE
    BY <1>1
  <2>1. list[i][1] < list[j][1]
    BY <1>3
  <2> QED BY <1>2, <2>1
<1>5. list \in Injection(1..n, S)
  BY <1>4 DEF Injection, IsInjective
<1>6. list \in Surjection(1..n, S)
  BY <1>1, <1>5, FS_Injection
<1> QED BY <1>3, <1>6 DEF Surjection

(* What trades of an operation hold: the accounts as ToLower leaves them.  *)
TraderAddresses == {Address(name, network) : name \in ContractNames, network \in Networks}
LowerTrade == [maker : LowerAccounts, taker : LowerAccounts, trader : TraderAddresses]
LowerTrades == Seq(LowerTrade)

LEMMA AccountsFinite ==
  ASSUME NEW args \in LowerTrades
  PROVE  IsFiniteSet(AccountsOf(args)) /\ AccountsOf(args) \subseteq LowerAccounts
<1> DEFINE D == 1..Len(args)
           makers == {args[i].maker : i \in D}
           takers == {args[i].taker : i \in D}
<1>1. /\ Len(args) \in Nat /\ DOMAIN args = D /\ IsFiniteSet(D)
      /\ \A i \in D : args[i].maker \in LowerAccounts /\ args[i].taker \in LowerAccounts
  <2>1. Len(args) \in Nat /\ DOMAIN args = D /\ \A i \in D : args[i] \in LowerTrade
    BY DEF LowerTrades
  <2>2. \A trade \in LowerTrade : trade.maker \in LowerAccounts /\ trade.taker \in LowerAccounts
    BY DEF LowerTrade
  <2> QED BY <2>1, <2>2, FS_Interval
<1> HIDE DEF D
<1>2. IsFiniteSet(makers)
  <2>1. [i \in D |-> args[i].maker] \in Surjection(D, makers)
    BY DEF Surjection
  <2> QED BY <1>1, <2>1, FS_Surjection
<1>3. IsFiniteSet(takers)
  <2>1. [i \in D |-> args[i].taker] \in Surjection(D, takers)
    BY DEF Surjection
  <2> QED BY <1>1, <2>1, FS_Surjection
<1>4. AccountsOf(args) = makers \cup takers
  BY <1>1 DEF AccountsOf
<1>5. IsFiniteSet(makers \cup takers)
  BY <1>2, <1>3, FS_Union
<1>6. makers \cup takers \subseteq LowerAccounts
  BY <1>1
<1> QED BY <1>4, <1>5, <1>6

LEMMA TradeCallFields ==
  ASSUME NEW o, NEW accounts, NEW tradeArgs
  PROVE  /\ TradeCall(o, accounts, tradeArgs).accounts = accounts
         /\ TradeCall(o, accounts, tradeArgs).tradeArgs = tradeArgs
<1> DEFINE args == [operation |-> o, accounts |-> accounts, tradeArgs |-> tradeArgs]
<1>1. /\ {"accounts", "tradeArgs"} \subseteq DOMAIN args
      /\ args.accounts = accounts /\ args.tradeArgs = tradeArgs
  OBVIOUS
<1> HIDE DEF args
<1>2. /\ Spread(args, TradeMethod).accounts = accounts
      /\ Spread(args, TradeMethod).tradeArgs = tradeArgs
  BY <1>1 DEF Spread
<1> QED BY <1>2 DEF TradeCall, args

(* What CallsAreWellFormed says of one call of trade().                    *)
WellFormed(accounts, args) ==
    /\ \A i, j \in DOMAIN accounts : i < j => accounts[i][1] < accounts[j][1]
    /\ \A i \in DOMAIN args :
           {args[i].makerIndex, args[i].takerIndex} \subseteq 0..Len(accounts) - 1

(* commit() finds every account in the list that it has sorted.            *)
LEMMA CommitIsWellFormed ==
  ASSUME NEW o \in Operations, trades[o] \in LowerTrades
  PROVE  WellFormed(CommitCall(o).accounts, CommitCall(o).tradeArgs)
<1> DEFINE args == trades[o]
           S == AccountsOf(args)
           list == AccountList(args)
           sent == [i \in DOMAIN args |->
                       [makerIndex |-> IndexIn(list, args[i].maker),
                        takerIndex |-> IndexIn(list, args[i].taker),
                        trader |-> args[i].trader]]
<1>1. IsFiniteSet(S) /\ S \subseteq LowerAccounts
  BY AccountsFinite
<1>2. /\ list \in [1..Cardinality(S) -> S]
      /\ \A i, j \in DOMAIN list : i < j => SortsBefore(list[i], list[j])
  BY <1>1, SortedListExists DEF AccountList
<1>3. /\ \A x \in S : \E i \in DOMAIN list : list[i] = x
      /\ \A i, j \in DOMAIN list : i < j => list[i][1] < list[j][1]
  BY <1>1, <1>2, ListIsComplete
<1>4. CommitCall(o).accounts = list /\ CommitCall(o).tradeArgs = sent
  BY TradeCallFields DEF CommitCall
<1>5. \A i \in DOMAIN args : args[i].maker \in S /\ args[i].taker \in S
  BY DEF AccountsOf
<1>6. Cardinality(S) \in Nat /\ Len(list) = Cardinality(S)
  <2>1. Cardinality(S) \in Nat
    BY <1>1, FS_CardinalityType
  <2> QED BY <1>2, <2>1
<1> HIDE DEF list, S, args
<1>7. ASSUME NEW x \in S
      PROVE  IndexIn(list, x) \in 0..Len(list) - 1
  <2>1. \E i \in DOMAIN list : list[i] = x
    BY <1>3
  <2>2. IndexIn(list, x) = (CHOOSE i \in DOMAIN list : list[i] = x) - 1
    BY <2>1 DEF IndexIn
  <2>3. (CHOOSE i \in DOMAIN list : list[i] = x) \in 1..Len(list)
    BY <1>2, <1>6, <2>1
  <2> QED BY <1>6, <2>2, <2>3
<1>8. \A i \in DOMAIN sent :
          {sent[i].makerIndex, sent[i].takerIndex} \subseteq 0..Len(list) - 1
  BY <1>5, <1>7
<1> QED BY <1>3, <1>4, <1>8 DEF WellFormed

(* Trade.trade() lets through only accounts that are sorted.               *)
LEMMA DirectIsWellFormed ==
  ASSUME NEW accounts, NEW args, ValidTrade(accounts, args)
  PROVE  WellFormed(accounts, args)
BY DEF ValidTrade, WellFormed, SortsBefore, ToLower

LEMMA MethodsHaveNoTrades ==
  ASSUME NEW m \in Wrappers \cup TokenMethods \cup {WrapMethod, NoRequest}
  PROVE  "tradeArgs" \notin DOMAIN m
<1>1. CASE m = NoRequest
  BY <1>1 DEF NoRequest
<1>2. CASE m \in Wrappers \cup TokenMethods \cup {WrapMethod}
  <2>1. \E contract, name, arity : m = Method(contract, name, arity)
    BY <1>2 DEF Wrappers, TokenMethods, WrapMethod, AdminMethods, MarginMethods,
       OperatorMethods, FinalSettlementMethods, ProxyMethods, FundingOracleMethods,
       MakerPriceOracleMethods, LiquidatorProxyMethods, OrdersMethods, RelayerMethods,
       UnwrapMethod
  <2> QED BY <2>1 DEF Method
<1> QED BY <1>1, <1>2

WellFormedCall(m) == "tradeArgs" \in DOMAIN m => WellFormed(m.accounts, m.tradeArgs)

(* Whatever method is called, what is sent is well formed.                 *)
LEMMA SendsAreWellFormed ==
  ASSUME ContractsTypeOK, trades \in [Operations -> LowerTrades],
         NEW s \in Sends, NEW opts \in OptionsOf[s], CallStep(s, opts)
  PROVE  \E m : /\ request' = [request EXCEPT ![s] = m]
                /\ pc'[s] = "failed" \/ WellFormedCall(m)
                /\ \A n \in Sends : n # s => pc'[n] = pc[n]
<1> USE DEF Send, Refuse, Submit
<1>1. ASSUME NEW m, NEW o, Send(s, m, o), WellFormedCall(m)
      PROVE  /\ request' = [request EXCEPT ![s] = m]
             /\ \A n \in Sends : n # s => pc'[n] = pc[n]
  BY <1>1 DEF ContractsTypeOK
<1>2. ASSUME NEW m, Refuse(s, m)
      PROVE  /\ request' = [request EXCEPT ![s] = m]
             /\ pc'[s] = "failed"
             /\ \A n \in Sends : n # s => pc'[n] = pc[n]
  BY <1>2 DEF ContractsTypeOK
<1>3. SUFFICES (\E m, o : Send(s, m, o) /\ WellFormedCall(m)) \/ (\E m : Refuse(s, m))
  BY <1>1, <1>2
<1> HIDE DEF Send, Refuse
<1>4. CASE \E o \in Operations : Commit(o, s, opts)
  BY <1>4, CommitIsWellFormed DEF Commit, WellFormedCall
<1>5. CASE \E t \in DirectTrades : TradeDirectly(s, t[1], t[2], opts)
  BY <1>5, DirectIsWellFormed, TradeCallFields DEF TradeDirectly, WellFormedCall
<1>6. CASE \E m \in WrapperCalls : Wrapper(s, m, opts)
  BY <1>6, MethodsHaveNoTrades, TradeOperationAssumption DEF Wrapper, WellFormedCall
<1>7. CASE \E c \in TokenCalls : TokenCall(s, c[1], c[2], opts)
  <2> PICK c \in TokenCalls : TokenCall(s, c[1], c[2], opts)
    BY <1>7
  <2> DEFINE owner == [owner |-> c[2]]
  <2>1. "tradeArgs" \notin DOMAIN owner
    OBVIOUS
  <2> HIDE DEF owner
  <2>2. "tradeArgs" \notin DOMAIN Spread(owner, c[1])
    BY <2>1, MethodsHaveNoTrades, TradeOperationAssumption DEF Spread
  <2> QED BY <2>2 DEF TokenCall, WellFormedCall, owner
<1>8. CASE \E amount \in Amounts : Wrap(s, amount, opts)
  <2> PICK amount \in Amounts : Wrap(s, amount, opts)
    BY <1>8
  <2> DEFINE given == [amount |-> amount]
  <2>1. "tradeArgs" \notin DOMAIN given
    OBVIOUS
  <2> HIDE DEF given
  <2>2. "tradeArgs" \notin DOMAIN Spread(given, WrapMethod)
    BY <2>1, MethodsHaveNoTrades DEF Spread
  <2> QED BY <2>2 DEF Wrap, WellFormedCall, given
<1> QED BY <1>4, <1>5, <1>6, <1>7, <1>8 DEF CallStep

(* An operation holds accounts in lower case only.                         *)
LEMMA TradesStayLower ==
  ASSUME ContractsTypeOK, trades \in [Operations -> LowerTrades], [Next]_allVars
  PROVE  trades' \in [Operations -> LowerTrades]
<1>1. ASSUME NEW o \in Operations, NEW p \in FillParties \cup LiquidateParties,
             NEW name \in ContractNames, AddTradeArg(o, p[1], p[2], Address(name, networkId))
      PROVE  trades' \in [Operations -> LowerTrades]
  <2> DEFINE trade == [maker |-> ToLower(p[1]), taker |-> ToLower(p[2]),
                       trader |-> Address(name, networkId)]
  <2>1. ToLower(p[1]) \in LowerAccounts /\ ToLower(p[2]) \in LowerAccounts
    BY TradeOperationAssumption DEF ToLower, LowerAccounts
  <2>2. Address(name, networkId) \in TraderAddresses
    BY DEF TraderAddresses, ContractsTypeOK
  <2>3. trade \in LowerTrade
    BY <2>1, <2>2 DEF LowerTrade
  <2> HIDE DEF trade
  <2>4. Append(trades[o], trade) \in LowerTrades
    BY <2>3 DEF LowerTrades
  <2> QED BY <1>1, <2>4 DEF AddTradeArg, trade
<1>2. CASE AddStep
  <2>1. "p1Orders" \in ContractNames /\ "p1Liquidation" \in ContractNames
    BY DEF ContractNames
  <2> QED BY <1>1, <1>2, <2>1 DEF AddStep, FillSignedOrder, Liquidate
<1>3. ASSUME NEW s \in Sends, NEW opts \in OptionsOf[s], CallStep(s, opts)
      PROVE  trades' = trades
  BY <1>3 DEF CallStep, Commit, TradeDirectly, Wrapper, TokenCall, Wrap, operationVars
<1>4. CASE ContractsOnly \/ UNCHANGED allVars
  BY <1>4 DEF ContractsOnly, allVars, operationVars
<1> QED BY <1>2, <1>3, <1>4 DEF Next

LEMMA CallsStayWellFormed ==
  ASSUME ContractsTypeOK, trades \in [Operations -> LowerTrades], CallsAreWellFormed,
         [Next]_allVars
  PROVE  CallsAreWellFormed'
<1> DEFINE Leaves(n) == pc[n] \in {"estimating", "sent"} => WellFormedCall(request[n])
<1>1. CallsAreWellFormed <=> \A n \in Sends : Leaves(n)
  BY DEF CallsAreWellFormed, WellFormedCall, WellFormed
<1>2. CallsAreWellFormed' <=> \A n \in Sends : Leaves(n)'
  BY DEF CallsAreWellFormed, WellFormedCall, WellFormed
<1>3. SUFFICES \A n \in Sends : Leaves(n)'
  BY <1>2
<1>4. ASSUME UNCHANGED request,
             \A n \in Sends : pc'[n] = pc[n] \/ pc[n] \in {"estimating", "sent"}
      PROVE  \A n \in Sends : Leaves(n)'
  BY <1>1, <1>4
<1>5. CASE AddStep \/ UNCHANGED allVars
  BY <1>4, <1>5 DEF AddStep, FillSignedOrder, Liquidate, AddTradeArg, allVars, contractsVars,
     sendVars
<1>6. ASSUME NEW s \in Sends, NEW opts \in OptionsOf[s], CallStep(s, opts)
      PROVE  \A n \in Sends : Leaves(n)'
  <2> PICK m : /\ request' = [request EXCEPT ![s] = m]
               /\ pc'[s] = "failed" \/ WellFormedCall(m)
               /\ \A n \in Sends : n # s => pc'[n] = pc[n]
    BY <1>6, SendsAreWellFormed
  <2> QED BY <1>1 DEF ContractsTypeOK
<1>7. CASE ContractsOnly
  <2>1. UNCHANGED request
    BY <1>7 DEF ContractsOnly, ContractsStep, SetProvider, Estimated, EstimateFails, Event,
       OnTransactionHash, OnError, OnReceipt, OnConfirmation, Confirm, Environment,
       ChainAccepts, ChainExecutes, ChainGrows, sendVars
  <2>2. \A n \in Sends : pc'[n] = pc[n] \/ pc[n] \in {"estimating", "sent"}
    BY <1>7 DEF ContractsOnly, ContractsStep, SetProvider, Estimated, EstimateFails, Event,
       OnTransactionHash, OnError, OnReceipt, OnConfirmation, Confirm, Environment,
       ChainAccepts, ChainExecutes, ChainGrows, sendVars, Submit, ContractsTypeOK
  <2> QED BY <1>4, <2>1, <2>2
<1> QED BY <1>5, <1>6, <1>7 DEF Next

(* Every call of trade() that leaves the client lists each account once,   *)
(* sorted, and every index points into the list: for any number of trades  *)
(* and accounts, however their addresses are spelled (TradeOperation.      *)
(* commit, Trade.trade).                                                   *)
THEOREM TradeCallsWellFormed == Spec => []CallsAreWellFormed
<1>1. Init => trades \in [Operations -> LowerTrades] /\ CallsAreWellFormed
  BY DEF Init, ContractsInit, LowerTrades, CallsAreWellFormed
<1>2. /\ ContractsTypeOK /\ trades \in [Operations -> LowerTrades] /\ CallsAreWellFormed
      /\ [Next]_allVars
      => (trades \in [Operations -> LowerTrades] /\ CallsAreWellFormed)'
  BY TradesStayLower, CallsStayWellFormed
<1> QED BY <1>1, <1>2, ContractsTypeCorrect, PTL DEF Spec
=============================================================================
