--------------------------- MODULE TradeOperation ---------------------------
(***************************************************************************)
(* The client's TradeOperation and Trade (src/src/modules/TradeOperation.  *)
(* ts, Trade.ts), which build a call of trade() and commit it by send(),   *)
(* and the one-line methods of the other classes, on top of Contracts.     *)
(*                                                                         *)
(* An address is a number with a spelling: the hexadecimal digits may be   *)
(* in lower case, or mixed as in a checksummed address.                    *)
(***************************************************************************)
EXTENDS Contracts, ClientMethods

CONSTANTS Operations,    \* objects of TradeOperation
          Account,       \* the addresses of accounts
          FillParties,   \* <<maker, taker>> of the orders that are filled
          LiquidateParties,
          CallsOf,       \* bound: the kinds of call each send is used for,
          OptionsOf,     \* and the options passed to it
          NoOptions,     \* no options argument
          DirectTrades,  \* <<accounts, tradeArgs>> that callers pass to trade()
          WrapperCalls,  \* the other methods that callers use
          TokenCalls,    \* <<method, owner>> of the calls of Token
          Amounts,       \* to wrap
          MaxTrades,     \* bounds the trades of an operation
          HasOrders      \* FALSE in the inverse market, whose Orders is undefined

NoOperation == "none"

ASSUME TradeOperationAssumption ==
    /\ NoOperation \notin Operations
    /\ Account \subseteq Nat
    /\ \A p \in FillParties \cup LiquidateParties : {p[1], p[2]} \subseteq Account \X {"lower", "mixed"}
    /\ MaxTrades \in Nat
    /\ WrapperCalls \subseteq Wrappers
    /\ TokenCalls \subseteq TokenMethods \X Account
    /\ \A s \in Sends : \A opts \in OptionsOf[s] :
           opts # NoOptions /\ "confirmations" \in DOMAIN opts => opts.confirmations \in Confirmations

VARIABLES trades, committed

operationVars == <<trades, committed>>
allVars == <<contractsVars, operationVars>>

Spelling == {"lower", "mixed"}
ToLower(address) == <<address[1], "lower">>

(* Array.sort() compares the text: in lower case it is the numeric order,  *)
(* and capitals come before small letters.                                 *)
SortsBefore(a, b) ==
    IF a[2] = b[2] THEN a[1] < b[1] ELSE a[2] = "mixed"

IndexIn(accounts, address) ==
    IF \E i \in DOMAIN accounts : accounts[i] = address
    THEN (CHOOSE i \in DOMAIN accounts : accounts[i] = address) - 1
    ELSE -1

AccountsOf(args) == UNION {{args[i].maker, args[i].taker} : i \in DOMAIN args}

AccountList(args) ==
    CHOOSE list \in [1..Cardinality(AccountsOf(args)) -> AccountsOf(args)] :
        \A i, j \in DOMAIN list : i < j => SortsBefore(list[i], list[j])

TradeCall(o, accounts, tradeArgs) ==
    Spread([operation |-> o, accounts |-> accounts, tradeArgs |-> tradeArgs], TradeMethod)

(* The call that commit() sends for the trades added so far. *)
CommitCall(o) ==
    LET accounts == AccountList(trades[o])
    IN  TradeCall(o, accounts,
            [i \in DOMAIN trades[o] |->
                [makerIndex |-> IndexIn(accounts, trades[o][i].maker),
                 takerIndex |-> IndexIn(accounts, trades[o][i].taker),
                 trader |-> trades[o][i].trader]])

Init ==
    /\ ContractsInit
    /\ trades = [o \in Operations |-> <<>>]
    /\ committed = [o \in Operations |-> FALSE]

-----------------------------------------------------------------------------
(* Mutation of AddTradeArg: the spelling is kept. *)
AddTradeArgAsSpelled(o, maker, taker, trader) ==
    /\ ~committed[o]
    /\ Len(trades[o]) < MaxTrades
    /\ trades' = [trades EXCEPT ![o] = Append(@,
            [maker |-> maker, taker |-> taker, trader |-> trader])]
    /\ UNCHANGED <<contractsVars, committed>>

(* Mutation of AddTradeArg: also after commit(). *)
AddTradeArgAnyTime(o, maker, taker, trader) ==
    /\ Len(trades[o]) < MaxTrades
    /\ trades' = [trades EXCEPT ![o] = Append(@,
            [maker |-> ToLower(maker), taker |-> ToLower(taker), trader |-> trader])]
    /\ UNCHANGED <<contractsVars, committed>>

(* The text of the accounts is kept in lower case. *)
AddTradeArg(o, maker, taker, trader) ==
    /\ ~committed[o]
    /\ Len(trades[o]) < MaxTrades
    /\ trades' = [trades EXCEPT ![o] = Append(@,
            [maker |-> ToLower(maker), taker |-> ToLower(taker), trader |-> trader])]
    /\ UNCHANGED <<contractsVars, committed>>

(* The inverse market has no Orders, so that fillSignedOrder() throws. *)
FillSignedOrder(o, maker, taker) ==
    HasOrders /\ AddTradeArg(o, maker, taker, Address("p1Orders", networkId))

Liquidate(o, maker, taker) ==
    AddTradeArg(o, maker, taker, Address("p1Liquidation", networkId))

(* commit() marks the operation when it is given options, unless they ask  *)
(* for a simulation.  It returns the promise of send() without waiting for *)
(* it, so that its catch block never sees a failure of send().             *)
Marks(opts) ==
    /\ opts # NoOptions
    /\ "confirmationType" \in DOMAIN opts => opts.confirmationType # "Simulate"

Given(opts) == IF opts = NoOptions THEN <<>> ELSE opts

Commit(o, s, opts) ==
    \/ /\ committed[o] \/ trades[o] = <<>>
       /\ Refuse(s, TradeCall(o, <<>>, <<>>))
       /\ UNCHANGED operationVars
    \/ /\ ~committed[o]
       /\ trades[o] # <<>>
       /\ committed' = [committed EXCEPT ![o] = Marks(opts)]
       /\ Send(s, CommitCall(o), Given(opts))
       /\ UNCHANGED trades

(* Trade.trade() rejects accounts that are not in lower case, sorted and   *)
(* unique, and indices out of bounds.                                      *)
ValidTrade(accounts, tradeArgs) ==
    /\ \A i \in DOMAIN accounts : accounts[i] = ToLower(accounts[i])
    /\ \A i, j \in DOMAIN accounts : i < j => SortsBefore(accounts[i], accounts[j])
    /\ \A i \in DOMAIN tradeArgs :
           {tradeArgs[i].makerIndex, tradeArgs[i].takerIndex} \subseteq 0..Len(accounts) - 1

TradeDirectly(s, accounts, tradeArgs, opts) ==
    LET call == TradeCall(NoOperation, accounts, tradeArgs)
    IN  /\ IF ValidTrade(accounts, tradeArgs) THEN Send(s, call, Given(opts))
           ELSE Refuse(s, call)
        /\ UNCHANGED operationVars

-----------------------------------------------------------------------------
(* The methods that only pass their arguments on.  web3 throws when the    *)
(* handle has no such function.                                            *)
Wrapper(s, m, opts) ==
    /\ IF HasFunction(m) THEN Send(s, m, Given(opts)) ELSE Refuse(s, m)
    /\ UNCHANGED operationVars

(* Token.setAllowance(), transfer(), transferFrom(): sent from the owner,  *)
(* whatever the options say.                                               *)
TokenCall(s, m, owner, opts) ==
    /\ Send(s, Spread([owner |-> owner], m), Spread([from |-> owner], Given(opts)))
    /\ UNCHANGED operationVars

(* Weth.wrap(): the value is the amount, and options that say otherwise    *)
(* are refused.                                                            *)
Wrap(s, amount, opts) ==
    LET call == Spread([amount |-> amount], WrapMethod)
    IN  /\ IF "value" \in DOMAIN Given(opts) /\ Given(opts).value # amount
           THEN Refuse(s, call)
           ELSE Send(s, call, Spread([value |-> amount], Given(opts)))
        /\ UNCHANGED operationVars

-----------------------------------------------------------------------------
AddStep == \E o \in Operations :
    \/ \E p \in FillParties : FillSignedOrder(o, p[1], p[2])
    \/ \E p \in LiquidateParties : Liquidate(o, p[1], p[2])

CallStep(s, opts) ==
    \/ "commit" \in CallsOf[s] /\ \E o \in Operations : Commit(o, s, opts)
    \/ "direct" \in CallsOf[s] /\ \E t \in DirectTrades : TradeDirectly(s, t[1], t[2], opts)
    \/ "wrapper" \in CallsOf[s] /\ \E m \in WrapperCalls : Wrapper(s, m, opts)
    \/ "token" \in CallsOf[s] /\ \E c \in TokenCalls : TokenCall(s, c[1], c[2], opts)
    \/ "wrap" \in CallsOf[s] /\ \E amount \in Amounts : Wrap(s, amount, opts)

ContractsOnly == ContractsStep /\ UNCHANGED operationVars

Next ==
    \/ AddStep
    \/ \E s \in Sends : \E opts \in OptionsOf[s] : CallStep(s, opts)
    \/ ContractsOnly

Spec == Init /\ [][Next]_allVars
(* web3 gives up waiting for a transaction after a number of blocks or     *)
(* seconds, and then reports an error; the node's answers time out.        *)
AnswerStep(s) == Answer(s) /\ UNCHANGED operationVars
FairSpec == Spec /\ \A s \in Sends : WF_allVars(AnswerStep(s))

-----------------------------------------------------------------------------
IsSendOf(o, s) == "operation" \in DOMAIN request[s] /\ request[s].operation = o

(* Every call of trade() that leaves the client lists each account it      *)
(* trades with once, in the order of the addresses, as trade() of          *)
(* PerpetualV1 requires, and its indices stay within the list.             *)
CallsAreWellFormed == \A s \in Sends :
    pc[s] \in {"estimating", "sent"} /\ "tradeArgs" \in DOMAIN request[s] =>
        LET accounts == request[s].accounts
            args == request[s].tradeArgs
        IN  /\ \A i, j \in DOMAIN accounts : i < j => accounts[i][1] < accounts[j][1]
            /\ \A i \in DOMAIN args :
                   {args[i].makerIndex, args[i].takerIndex} \subseteq 0..Len(accounts) - 1

(* An operation that is marked as committed is not changed any more, and   *)
(* not sent any more.                                                      *)
NothingAfterCommit == [][\A o \in Operations : committed[o] =>
    /\ trades'[o] = trades[o]
    /\ committed'[o]
    /\ \A s \in Sends : pc[s] = "idle" /\ IsSendOf(o, s)' => pc'[s] = "failed"]_allVars

(* What the message "Operation already committed" says of an operation     *)
(* that is refused: its transaction was sent, or is about to be.           *)
CommittedMeansSent == \A o \in Operations : committed[o] =>
    \E s \in Sends : IsSendOf(o, s) /\ pc[s] \in {"estimating", "sent"}
=============================================================================
