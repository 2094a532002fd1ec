----------------------------- MODULE Contracts -----------------------------
(***************************************************************************)
(* The client's Contracts class (src/src/modules/Contracts.ts): the        *)
(* contract handles with the addresses of the current network, and send(), *)
(* which turns the events web3 emits about a transaction into promises.    *)
(*                                                                         *)
(* JavaScript runs one handler, and everything that follows from it        *)
(* without waiting, before the next event: each action is one such turn.   *)
(* The node and web3 are external: a transaction is known, executed and    *)
(* buried independently of the events, which may be late or repeated, and  *)
(* an error may be reported at any time, also of a transaction that is     *)
(* executed (a lost answer, a timeout).                                    *)
(***************************************************************************)
EXTENDS Integers, Sequences, FiniteSets

CONSTANTS Sends,            \* calls of send()
          Networks,         \* network ids
          Markets,
          Market,           \* the market of this client
          Addresses,
          Deployed,         \* Deployed[name]: the "networks" of the artifact
          SendOptions,      \* options of the constructor
          Confirmations,
          MaxDepth          \* bounds the depth of a block

NoAddress == "undefined"

ConfirmationType == {"Hash", "Confirmed", "Both", "Simulate"}
ContractNames == {"perpetualProxy", "perpetualV1", "p1FundingOracle",
    "p1InverseFundingOracle", "p1ChainlinkOracle", "p1MakerOracle", "p1Orders",
    "p1Liquidation", "p1LiquidatorProxy", "erc20", "makerOracle", "weth"}

ASSUME ContractsAssumption ==
    /\ Market \in Markets
    /\ NoAddress \notin Addresses
    /\ 0 \in Confirmations /\ Confirmations \subseteq Nat
    /\ "confirmations" \in DOMAIN SendOptions => SendOptions.confirmations \in Confirmations
    /\ MaxDepth \in Nat

VARIABLES networkId,
          pc,                   \* where each call of send() stands
          options,              \* its merged options
          request,              \* the method it calls, and the arguments
          listeners,            \* the handlers on its PromiEvent
          hashOutcome,
          confirmationOutcome,
          chain,                \* external: the transaction on the chain
          depth                 \* external: blocks on top of it

chainVars == <<chain, depth>>
sendVars == <<pc, options, request, listeners, hashOutcome, confirmationOutcome>>
contractsVars == <<networkId, sendVars, chainVars>>

-----------------------------------------------------------------------------
(* The address of a contract: that of the market, or else the general one. *)
(* Calls of PerpetualV1 go to the address of the proxy.                    *)
Address(name, network) ==
    LET json == Deployed[IF name = "perpetualV1" THEN "perpetualProxy" ELSE name]
    IN  IF <<Market, network>> \in DOMAIN json THEN json[Market, network]
        ELSE IF <<"any", network>> \in DOMAIN json THEN json["any", network]
        ELSE NoAddress

(* { ...g, ...f } *)
Spread(f, g) == [key \in DOMAIN f \cup DOMAIN g |-> IF key \in DOMAIN f THEN f[key] ELSE g[key]]

(* What is not given to send() comes from the constructor's options, and   *)
(* then from the defaults.  A gas of 0 stands for none.                    *)
defaultOptions ==
    Spread(SendOptions, [gas |-> 0, value |-> 0, from |-> NoAddress,
                         confirmations |-> 0, confirmationType |-> "Confirmed"])
SendOptionsOf(specificOptions) == Spread(specificOptions, defaultOptions)

NoRequest == [contract |-> "none"]

ContractsInit ==
    /\ networkId \in Networks
    /\ pc = [s \in Sends |-> "idle"]
    /\ options = [s \in Sends |-> defaultOptions]
    /\ request = [s \in Sends |-> NoRequest]
    /\ listeners = [s \in Sends |-> {}]
    /\ hashOutcome = [s \in Sends |-> "INITIAL"]
    /\ confirmationOutcome = [s \in Sends |-> "INITIAL"]
    /\ chain = [s \in Sends |-> "none"]
    /\ depth = [s \in Sends |-> 0]

(* Every handle gets the provider and the addresses of the new network.    *)
SetProvider(network) ==
    /\ networkId' = network
    /\ UNCHANGED <<sendVars, chainVars>>

-----------------------------------------------------------------------------
(* The handlers waiting for the hash, and those waiting for the execution. *)
HashListeners == {"hashError", "transactionHash"}
Listeners == HashListeners \cup {"confirmationError", "receipt", "confirmation"}
ConfirmationListeners(o) ==
    {"confirmationError", IF o.confirmations # 0 THEN "confirmation" ELSE "receipt"}
FirstListeners(o) ==
    IF o.confirmationType \in {"Hash", "Both"} THEN HashListeners
    ELSE ConfirmationListeners(o)

(* method.send(): web3 refuses a contract without an address; otherwise    *)
(* the transaction leaves for the network the contract is on now.          *)
Submit(s, o, m) ==
    IF Address(m.contract, networkId) = NoAddress
    THEN /\ pc' = [pc EXCEPT ![s] = "failed"]
         /\ UNCHANGED listeners
    ELSE /\ pc' = [pc EXCEPT ![s] = "sent"]
         /\ listeners' = [listeners EXCEPT ![s] = FirstListeners(o)]

NeedsEstimate(o) == o.confirmationType = "Simulate" \/ o.gas = 0

(* send() up to its first await. *)
Send(s, m, specificOptions) ==
    LET o == SendOptionsOf(specificOptions)
    IN  /\ pc[s] = "idle"
        /\ options' = [options EXCEPT ![s] = o]
        /\ request' = [request EXCEPT ![s] = m]
        /\ \/ /\ o.confirmationType \notin ConfirmationType
              /\ pc' = [pc EXCEPT ![s] = "failed"]
              /\ UNCHANGED listeners
           \/ /\ o.confirmationType \in ConfirmationType
              /\ NeedsEstimate(o)
              /\ pc' = [pc EXCEPT ![s] = "estimating"]
              /\ UNCHANGED listeners
           \/ /\ o.confirmationType \in ConfirmationType
              /\ ~NeedsEstimate(o)
              /\ Submit(s, o, m)
        /\ UNCHANGED <<networkId, hashOutcome, confirmationOutcome, chainVars>>

(* A caller that rejects its arguments, before send() is reached. *)
Refuse(s, m) ==
    /\ pc[s] = "idle"
    /\ pc' = [pc EXCEPT ![s] = "failed"]
    /\ request' = [request EXCEPT ![s] = m]
    /\ UNCHANGED <<networkId, options, listeners, hashOutcome, confirmationOutcome, chainVars>>

(* The estimate is asked for and used after an await, during which the     *)
(* provider may change.                                                    *)
Estimated(s) ==
    /\ pc[s] = "estimating"
    /\ IF options[s].confirmationType = "Simulate"
       THEN pc' = [pc EXCEPT ![s] = "simulated"] /\ UNCHANGED listeners
       ELSE Submit(s, options[s], request[s])
    /\ UNCHANGED <<networkId, options, request, hashOutcome, confirmationOutcome, chainVars>>

EstimateFails(s) ==
    /\ pc[s] = "estimating"
    /\ pc' = [pc EXCEPT ![s] = "failed"]
    /\ UNCHANGED <<networkId, options, request, listeners, hashOutcome,
                   confirmationOutcome, chainVars>>

-----------------------------------------------------------------------------
(* External: the transaction on its network. *)
ChainAccepts(s) ==
    /\ pc[s] = "sent"
    /\ chain[s] = "none"
    /\ chain' = [chain EXCEPT ![s] = "pool"]
    /\ UNCHANGED <<networkId, sendVars, depth>>

ChainExecutes(s) ==
    /\ chain[s] = "pool"
    /\ \E outcome \in {"mined", "reverted"} : chain' = [chain EXCEPT ![s] = outcome]
    /\ UNCHANGED <<networkId, sendVars, depth>>

ChainGrows(s) ==
    /\ chain[s] \in {"mined", "reverted"}
    /\ depth[s] < MaxDepth
    /\ depth' = [depth EXCEPT ![s] = @ + 1]
    /\ UNCHANGED <<networkId, sendVars, chain>>

-----------------------------------------------------------------------------
(* Mutation of OnTransactionHash: Both stops listening as Hash does. *)
OnTransactionHashStops(s) ==
    /\ chain[s] # "none"
    /\ "transactionHash" \in listeners[s]
    /\ hashOutcome[s] = "INITIAL"
    /\ hashOutcome' = [hashOutcome EXCEPT ![s] = "RESOLVED"]
    /\ listeners' = [listeners EXCEPT ![s] = {}]
    /\ UNCHANGED <<networkId, pc, options, request, confirmationOutcome, chainVars>>

(* 'transactionHash': Both goes on to wait for the execution, Hash stops   *)
(* listening.  Web3 reports a hash once a node has taken the transaction.  *)
OnTransactionHash(s) ==
    /\ chain[s] # "none"
    /\ "transactionHash" \in listeners[s]
    /\ hashOutcome[s] = "INITIAL"
    /\ hashOutcome' = [hashOutcome EXCEPT ![s] = "RESOLVED"]
    /\ IF options[s].confirmationType = "Both"
       THEN listeners' = [listeners EXCEPT ![s] = @ \cup ConfirmationListeners(options[s])]
       ELSE listeners' = [listeners EXCEPT ![s] = {}]
    /\ UNCHANGED <<networkId, pc, options, request, confirmationOutcome, chainVars>>

(* 'error' reaches both handlers of Both; off() removes all of them. *)
OnError(s) ==
    /\ \/ /\ "hashError" \in listeners[s]
          /\ hashOutcome[s] = "INITIAL"
          /\ hashOutcome' = [hashOutcome EXCEPT ![s] = "REJECTED"]
          /\ UNCHANGED confirmationOutcome
       \/ /\ "confirmationError" \in listeners[s]
          /\ confirmationOutcome[s] = "INITIAL"
          /\ \/ options[s].confirmationType = "Confirmed"
             \/ hashOutcome[s] = "RESOLVED"
          /\ confirmationOutcome' = [confirmationOutcome EXCEPT ![s] = "REJECTED"]
          /\ UNCHANGED hashOutcome
    /\ listeners' = [listeners EXCEPT ![s] = {}]
    /\ UNCHANGED <<networkId, pc, options, request, chainVars>>

(* Mutation of Confirm: the handlers stay. *)
ConfirmKeepsListening(s) ==
    /\ confirmationOutcome' = [confirmationOutcome EXCEPT ![s] = "RESOLVED"]
    /\ UNCHANGED <<networkId, pc, options, request, hashOutcome, chainVars, listeners>>

(* The confirmation promise resolves.  (On a local network send() also     *)
(* adds the gas used to its statistics, which are left out.)               *)
Confirm(s) ==
    /\ confirmationOutcome' = [confirmationOutcome EXCEPT ![s] = "RESOLVED"]
    /\ listeners' = [listeners EXCEPT ![s] = {}]
    /\ UNCHANGED <<networkId, pc, options, request, hashOutcome, chainVars>>

(* 'receipt' is emitted for a transaction that succeeded; its handler does *)
(* not look at the outcome so far.                                         *)
OnReceipt(s) ==
    /\ chain[s] = "mined"
    /\ "receipt" \in listeners[s]
    /\ Confirm(s)

(* Mutation of OnConfirmation: one confirmation too few. *)
OnConfirmationTooEarly(s, confNumber) ==
    /\ chain[s] = "mined"
    /\ confNumber <= depth[s]
    /\ "confirmation" \in listeners[s]
    /\ confNumber + 1 >= options[s].confirmations
    /\ confirmationOutcome[s] = "INITIAL"
    /\ Confirm(s)

(* 'confirmation' number confNumber, once as many blocks were seen. *)
OnConfirmation(s, confNumber) ==
    /\ chain[s] = "mined"
    /\ confNumber <= depth[s]
    /\ "confirmation" \in listeners[s]
    /\ confNumber >= options[s].confirmations
    /\ confirmationOutcome[s] = "INITIAL"
    /\ Confirm(s)

(* What web3 tells about a transaction. *)
Event(s) ==
    \/ OnTransactionHash(s)
    \/ OnError(s)
    \/ OnReceipt(s)
    \/ \E n \in 0..MaxDepth : OnConfirmation(s, n)

Environment(s) == ChainAccepts(s) \/ ChainExecutes(s) \/ ChainGrows(s)

ContractsStep ==
    \/ \E network \in Networks : SetProvider(network)
    \/ \E s \in Sends : Estimated(s) \/ EstimateFails(s) \/ Event(s) \/ Environment(s)

-----------------------------------------------------------------------------
(* The promise send() returned, and the one in the result of Both. *)
Result(s) ==
    CASE pc[s] = "failed" -> "REJECTED"
      [] pc[s] = "simulated" -> "RESOLVED"
      [] pc[s] # "sent" -> "INITIAL"
      [] options[s].confirmationType = "Confirmed" -> confirmationOutcome[s]
      [] OTHER -> hashOutcome[s]

Settled(s) ==
    /\ Result(s) # "INITIAL"
    /\ pc[s] = "sent" /\ options[s].confirmationType = "Both" /\ Result(s) = "RESOLVED"
            => confirmationOutcome[s] # "INITIAL"

-----------------------------------------------------------------------------
OUTCOMES == {"INITIAL", "RESOLVED", "REJECTED"}
PC == {"idle", "estimating", "sent", "simulated", "failed"}

(* What the stage of a call implies: nothing is sent, and nothing settles, *)
(* before method.send(), a promise that has settled has no handlers left,  *)
(* and handlers wait only for what the options ask for.                    *)
StageFits(s) ==
    /\ options[s].confirmations \in Confirmations
    /\ pc[s] = "idle" => request[s] = NoRequest
    /\ pc[s] # "sent" =>
           /\ listeners[s] = {}
           /\ chain[s] = "none"
           /\ hashOutcome[s] = "INITIAL"
           /\ confirmationOutcome[s] = "INITIAL"
    /\ confirmationOutcome[s] # "INITIAL" => listeners[s] = {}
    /\ hashOutcome[s] = "REJECTED" => listeners[s] = {}
    /\ "receipt" \in listeners[s] => options[s].confirmations = 0
    /\ options[s].confirmationType = "Hash" =>
           listeners[s] \subseteq HashListeners /\ confirmationOutcome[s] = "INITIAL"

(* Types, and that each call of send() is at a stage that fits. *)
ContractsTypeOK ==
    /\ networkId \in Networks
    /\ pc \in [Sends -> PC]
    /\ DOMAIN options = Sends
    /\ DOMAIN request = Sends
    /\ listeners \in [Sends -> SUBSET Listeners]
    /\ hashOutcome \in [Sends -> OUTCOMES]
    /\ confirmationOutcome \in [Sends -> OUTCOMES]
    /\ chain \in [Sends -> {"none", "pool", "mined", "reverted"}]
    /\ depth \in [Sends -> 0..MaxDepth]
    /\ \A s \in Sends : StageFits(s)

(* Contracts.send keeps what TxPromise promises. *)
Promise == INSTANCE TxPromise WITH
    required <- [s \in Sends |-> options[s].confirmations]
SendKeepsItsPromise == Promise!Spec

(* Every call of send() comes to an end, and so does the confirmation      *)
(* promise in the result of Both, provided that the node answers and web3  *)
(* does not go silent about a transaction that is being waited for.        *)
SendsSettle == \A s \in Sends : pc[s] # "idle" ~> Settled(s)
Answer(s) == Estimated(s) \/ EstimateFails(s) \/ Event(s)
=============================================================================
