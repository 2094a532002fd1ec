------------------------------ MODULE Getters ------------------------------
(***************************************************************************)
(* The client's Getters class (src/src/modules/Getters.ts), with the       *)
(* conversions of src/src/lib/types.ts: net balance, collateralization and *)
(* liquidatable status of an account are computed from five calls of view  *)
(* functions, between which the contract goes on, unless the caller names  *)
(* the block they refer to.                                                *)
(***************************************************************************)
EXTENDS PerpetualV1, ClientTypes

CONSTANT ReadAccount    \* accounts the client asks about

ASSUME GettersAssumption == ReadAccount \subseteq Account

VARIABLES reader,   \* the evaluation of getNetAccountBalance
          witness   \* history: what the contract held when it was read

readerVars == <<reader, witness>>
gettersVars == <<vars, readerVars>>

-----------------------------------------------------------------------------
NetBalanceRoundedToZero(balance, newIndex, oldIndex) ==
    LET credit == (newIndex - oldIndex) * (-balance.position)
        magnitude == IF credit < 0 THEN -credit ELSE credit
    IN  [margin |-> balance.margin +
             (IF credit < 0 THEN -(magnitude \div BASE) ELSE magnitude \div BASE),
         position |-> balance.position]

(* The interest is rounded down, whatever its sign. *)
NetBalance(balance, newIndex, oldIndex) ==
    [margin |-> balance.margin + ((newIndex - oldIndex) * (-balance.position)) \div BASE,
     position |-> balance.position]

IsLiquidatableOrAtRequirement(balance, price, requirement) ==
    LET collateralization == GetCollateralization(balance, price)
    IN  collateralization # Infinity /\ collateralization * BASE <= requirement * RatioUnit

(* getNetAccountIsLiquidatable compares the quotient. *)
IsLiquidatable(balance, price, requirement) ==
    LET collateralization == GetCollateralization(balance, price)
    IN  collateralization # Infinity /\ collateralization * BASE < requirement * RatioUnit

-----------------------------------------------------------------------------
(* With options.blockNumber all calls refer to one block and return what   *)
(* it held, however late they are executed.                                *)
NetAccountBalanceOfBlock(account) ==
    NetBalance(BalanceFromSolidity(balances[account]), BaseValueFromSolidity(globalIndex),
               BaseValueFromSolidity(localIndexes[account]))
NetAccountIsLiquidatableOfBlock(account) ==
    IsLiquidatable(NetAccountBalanceOfBlock(account), prices[oracle], minCollateral)

Stored(account) == <<balances[account], localIndexes[account]>>

NoRead == [pc |-> "idle"]
NoWitness == <<>>
Reading == reader # NoRead

(* A read of the latest block begins with the account's balance.           *)
ReadBalance(account) ==
    /\ nonReentrant
    /\ ~Reading
    /\ reader' = [pc |-> "balance", account |-> account, balance |-> balances[account]]
    /\ witness' = [first |-> Stored(account)]
    /\ UNCHANGED vars

(* The global index is asked for once the balance is known,                *)
ReadGlobalIndex ==
    /\ nonReentrant
    /\ reader.pc = "balance"
    /\ reader' = [pc |-> "index", account |-> reader.account, balance |-> reader.balance,
                  globalIndex |-> globalIndex]
    /\ witness' = [first |-> witness.first, second |-> Stored(reader.account),
                   exact |-> Settled(reader.account, globalIndex)]
    /\ UNCHANGED vars

(* and the account's index last: the caller has its answer.                *)
ReadLocalIndex ==
    /\ nonReentrant
    /\ reader.pc = "index"
    /\ reader' = NoRead
    /\ witness' = NoWitness
    /\ UNCHANGED vars

Answer ==
    NetBalance(BalanceFromSolidity(reader.balance),
               BaseValueFromSolidity(reader.globalIndex),
               BaseValueFromSolidity(localIndexes[reader.account]))

ReaderStep ==
    \/ \E account \in ReadAccount : ReadBalance(account)
    \/ ReadGlobalIndex \/ ReadLocalIndex

ReaderInit == reader = NoRead /\ witness = NoWitness

(* The contract, whatever is done with it, and a client that reads it.     *)
GettersInit == Init /\ ReaderInit
GettersNext == (Next /\ UNCHANGED readerVars) \/ ReaderStep
GettersSpec == GettersInit /\ [][GettersNext]_gettersVars

-----------------------------------------------------------------------------
(* A read that names a block follows the contract ("Follow P1Settlement    *)
(* rounding rules"): the net balance is the one the contract would settle  *)
(* to at the index of that block, and an account said to be liquidatable   *)
(* is under the requirement there.  The words of the block's logs say the  *)
(* same of the stored balance and indexes as the view functions.           *)
BlockReadsExact == nonReentrant => \A account \in ReadAccount :
    LET exact == Settled(account, globalIndex)
    IN  /\ NetAccountBalanceOfBlock(account) = BalanceFromSolidity(exact)
        /\ NetAccountIsLiquidatableOfBlock(account) =>
               ~IsCollateralized(exact, prices[oracle], minCollateral)
        /\ ParseBalance(BalanceToBytes32(balances[account]))
               = BalanceFromSolidity(balances[account])
        /\ \A index \in {globalIndex, localIndexes[account]} :
               ParseIndex(IndexToBytes32(index)) =
                   [timestamp |-> index.timestamp, baseValue |-> BaseValueFromSolidity(index)]

(* The three calls of a read of the latest block see the account at three  *)
(* moments.  Unless its storage differed between them, the net balance is  *)
(* the exact one of the moment at which the global index was read,         *)
(* whatever other accounts did to the index.                               *)
LatestReadsExactUnlessSettled ==
    [][ReadLocalIndex /\ {witness.first, witness.second} = {Stored(reader.account)}
          => Answer = BalanceFromSolidity(witness.exact)]_gettersVars
=============================================================================
