----------------------------- MODULE TxPromise -----------------------------
(***************************************************************************)
(* What Contracts.send() promises its caller about one transaction per     *)
(* send: the hash promise and the confirmation promise each settle at most *)
(* once, the first may resolve only when a node knows the transaction, the *)
(* second only when it was executed and is as many blocks deep as was      *)
(* asked for.  How events reach the promises is left to Contracts.         *)
(***************************************************************************)
EXTENDS Naturals

CONSTANTS Sends,
          Confirmations,  \* the numbers of confirmations one may ask for
          MaxDepth        \* bounds the depth of a block

VARIABLES chain,               \* what became of the transaction
          depth,               \* how many blocks were built on its block
          required,            \* the confirmations asked for
          hashOutcome,
          confirmationOutcome

txVars == <<chain, depth, required, hashOutcome, confirmationOutcome>>

OUTCOMES == {"INITIAL", "RESOLVED", "REJECTED"}
ChainStates == {"none", "pool", "mined", "reverted"}

Init ==
    /\ chain = [s \in Sends |-> "none"]
    /\ depth = [s \in Sends |-> 0]
    /\ required \in [Sends -> Confirmations]
    /\ hashOutcome = [s \in Sends |-> "INITIAL"]
    /\ confirmationOutcome = [s \in Sends |-> "INITIAL"]

(* The caller says how many confirmations it wants, before anything happens. *)
Ask(s) ==
    /\ chain[s] = "none"
    /\ hashOutcome[s] = "INITIAL"
    /\ confirmationOutcome[s] = "INITIAL"
    /\ \E n \in Confirmations : required' = [required EXCEPT ![s] = n]
    /\ UNCHANGED <<chain, depth, hashOutcome, confirmationOutcome>>

(* The chain goes its own way, whatever the caller was told. *)
Progress(s) ==
    /\ \/ /\ \/ chain[s] = "none" /\ chain' = [chain EXCEPT ![s] = "pool"]
             \/ /\ chain[s] = "pool"
                /\ \E c \in {"mined", "reverted"} : chain' = [chain EXCEPT ![s] = c]
          /\ UNCHANGED depth
       \/ /\ chain[s] \in {"mined", "reverted"}
          /\ depth[s] < MaxDepth
          /\ depth' = [depth EXCEPT ![s] = @ + 1]
          /\ UNCHANGED chain
    /\ UNCHANGED <<required, hashOutcome, confirmationOutcome>>

SettleHash(s) ==
    /\ hashOutcome[s] = "INITIAL"
    /\ \/ hashOutcome' = [hashOutcome EXCEPT ![s] = "REJECTED"]
       \/ /\ chain[s] # "none"
          /\ hashOutcome' = [hashOutcome EXCEPT ![s] = "RESOLVED"]
    /\ UNCHANGED <<chain, depth, required, confirmationOutcome>>

SettleConfirmation(s) ==
    /\ confirmationOutcome[s] = "INITIAL"
    /\ \/ confirmationOutcome' = [confirmationOutcome EXCEPT ![s] = "REJECTED"]
       \/ /\ chain[s] = "mined"
          /\ depth[s] >= required[s]
          /\ confirmationOutcome' = [confirmationOutcome EXCEPT ![s] = "RESOLVED"]
    /\ UNCHANGED <<chain, depth, required, hashOutcome>>

Next == \E s \in Sends :
    Ask(s) \/ Progress(s) \/ SettleHash(s) \/ SettleConfirmation(s)

Spec == Init /\ [][Next]_txVars
=============================================================================
