-------------------------------- MODULE Api --------------------------------
(***************************************************************************)
(* The client's Api class (src/src/modules/Api.ts): orders are created,     *)
(* signed by the maker's wallet, and posted to the exchange, over a network *)
(* that delays requests beyond the timeout and loses answers.  A caller     *)
(* whose call was rejected may call again, or submit the order it has.      *)
(*                                                                          *)
(* The exchange and the wallets are external.  The exchange knows orders by *)
(* their hash, checks their signatures, and has the P1Orders contract of    *)
(* its network fill them.                                                   *)
(***************************************************************************)
EXTENDS ClientOrders, Totals

CONSTANTS Calls,             \* calls of the client's methods
          Placements,        \* arguments of placePerpetualOrder
          CallsOf,           \* bound: what each call is for: "place", "submit", "cancel"
          Markets,           \* ApiMarketName
          NoFee, NoSalt,     \* arguments left out (a fee or salt of 0 is one, as it is falsy)
          RandomSalts,       \* what the generator of random salts returns
          Wallet,            \* Wallet[maker]: what it puts before a hash
          Networks,
          ExchangeNetwork,   \* the network the exchange trades on
          MaxClock

ASSUME ApiAssumption ==
    /\ ExchangeNetwork \in Networks /\ IsFiniteSet(Calls)
    /\ RandomSalts \subseteq Nat /\ MaxClock \in Nat \ {0}
    /\ \A args \in Placements :
           /\ args.amount \in Nat /\ args.lifetime \in Nat
           /\ args.limitFee = NoFee \/ args.limitFee \in BaseValue
           /\ Wallet[args.maker] \in SIGNATURE_TYPES

VARIABLES networkId, clock,
          pc,         \* where each call stands
          request,    \* what it sends
          wire,       \* external: calls whose request is on its way,
          answers,    \* and whose answer is on its way back
          verdict,    \* external: what the exchange made of each request
          book        \* external: the orders it has accepted, by hash

exchangeVars == <<wire, answers, verdict, book>>
vars == <<networkId, clock, pc, request, exchangeVars>>

NoRequest == [kind |-> "none"]

ApiInit ==
    /\ networkId \in Networks
    /\ clock = 1
    /\ pc = [c \in Calls |-> "idle"]
    /\ request = [c \in Calls |-> NoRequest]
    /\ wire = {} /\ answers = {}
    /\ verdict = [c \in Calls |-> "none"]
    /\ book = <<>>

-----------------------------------------------------------------------------
(* The order of a placement                                                 *)

\* Mutation of GetRealExpiration: 0 is a lifetime like any other.
RealExpirationAlways(lifetime) == clock + lifetime

GetRealExpiration(lifetime) == IF lifetime = 0 THEN 0 ELSE clock + lifetime

CreateOrder(args, salt) ==
    [isBuy |-> args.side = "BUY", isDecreaseOnly |-> FALSE, amount |-> args.amount,
     limitPrice |-> args.price, triggerPrice |-> [value |-> 0, isNegative |-> FALSE],
     limitFee |-> IF args.limitFee = NoFee
                  THEN GetFeeForOrder(args.amount, ~args.postOnly) ELSE args.limitFee,
     maker |-> args.maker, taker |-> args.taker,
     expiration |-> GetRealExpiration(args.lifetime), salt |-> salt]

SaltsFor(args) == IF args.salt = NoSalt THEN RandomSalts ELSE {args.salt}

ValidArguments(args) == args.market \in Markets /\ args.side \in {"BUY", "SELL"}

\* Mutation of JsonFee: the text has no sign.
JsonFeeUnsigned(fee) == [value |-> fee.value, isNegative |-> FALSE]

\* toString() of a number: zero loses its sign.
JsonFee(fee) ==
    [value |-> fee.value, isNegative |-> fee.isNegative /\ fee.value # 0]

JsonifyPerpetualOrder(order) == [order EXCEPT !.limitFee = JsonFee(order.limitFee)]

-----------------------------------------------------------------------------
(* The calls of the client.  Each is one turn, up to its next await.        *)

Reject(c) ==
    /\ pc' = [pc EXCEPT ![c] = "rejected"]
    /\ UNCHANGED <<networkId, clock, request, exchangeVars>>

\* axiosRequest: the request leaves.
Post(c, message) ==
    /\ request' = [request EXCEPT ![c] = message]
    /\ pc' = [pc EXCEPT ![c] = "waiting"]
    /\ wire' = wire \cup {c}
    /\ UNCHANGED <<networkId, clock, answers, verdict, book>>

AskWallet(c, message) ==
    /\ request' = [request EXCEPT ![c] = message]
    /\ pc' = [pc EXCEPT ![c] = "signing"]
    /\ UNCHANGED <<networkId, clock, exchangeVars>>

\* placePerpetualOrder, up to the question to the wallet; createPerpetualOrder is
\* the same part of it.  (Requests that only read have no effect to model.)
PlacePerpetualOrder(c, args) ==
    /\ pc[c] = "idle"
    /\ \/ ~ValidArguments(args) /\ Reject(c)
       \/ /\ ValidArguments(args)
          /\ \E salt \in SaltsFor(args) :
                 LET order == CreateOrder(args, salt)
                 IN  AskWallet(c, [kind |-> "order", args |-> args, order |-> order,
                                   signer |-> args.maker,
                                   hash |-> GetOrderHash(order, networkId)])

\* The call has an order that is signed.
HasSignedOrder(c) ==
    request[c].kind = "order" /\ pc[c] \notin {"signing", "rejectedByWallet"}

\* submitPerpetualOrder of the order that an earlier call has signed.
SubmitPerpetualOrder(c, earlier) ==
    /\ pc[c] = "idle"
    /\ HasSignedOrder(earlier)
    /\ Post(c, request[earlier])

\* cancelOrder of an order of the book.
CancelOrder(c, orderId, maker) ==
    /\ pc[c] = "idle"
    /\ AskWallet(c, [kind |-> "cancel", orderId |-> orderId, signer |-> maker,
                     hash |-> OrderHashToCancelOrderHash(orderId, networkId)])

\* The wallet answers: the request is signed, and sent.
Signed(c) ==
    /\ pc[c] = "signing"
    /\ LET r == request[c]
           signature == SignHash(Wallet[r.signer], r.hash, r.signer, "Hash")
       IN  Post(c, IF r.kind = "order"
                   THEN [kind |-> "order", args |-> r.args, order |-> r.order,
                         signer |-> r.signer, hash |-> r.hash, signature |-> signature,
                         json |-> JsonifyPerpetualOrder(r.order)]
                   ELSE [kind |-> "cancel", orderId |-> r.orderId, signer |-> r.signer,
                         hash |-> r.hash, signature |-> signature])

WalletRefuses(c) ==
    /\ pc[c] = "signing"
    /\ pc' = [pc EXCEPT ![c] = "rejectedByWallet"]
    /\ UNCHANGED <<networkId, clock, request, exchangeVars>>

\* The answer of the exchange arrives in time.
Answered(c) ==
    /\ pc[c] = "waiting"
    /\ c \in answers
    /\ pc' = [pc EXCEPT ![c] = IF verdict[c] = "accepted" THEN "resolved" ELSE "rejected"]
    /\ answers' = answers \ {c}
    /\ UNCHANGED <<networkId, clock, request, wire, verdict, book>>

\* The request may still arrive, or have arrived.
Timeout(c) == pc[c] = "waiting" /\ Reject(c)

-----------------------------------------------------------------------------
(* The world                                                                *)

SetProvider(network) ==
    /\ networkId' = network
    /\ UNCHANGED <<clock, pc, request, exchangeVars>>

Tick ==
    /\ clock < MaxClock
    /\ clock' = clock + 1
    /\ UNCHANGED <<networkId, pc, request, exchangeVars>>

Decide(c, decision) ==
    /\ verdict' = [verdict EXCEPT ![c] = decision]
    /\ wire' = wire \ {c}
    /\ answers' = answers \cup {c}
    /\ UNCHANGED <<networkId, clock, pc, request>>

\* The exchange hashes the order that it reads, and looks at the signature; it may
\* decline a valid order for reasons of its own.
ReceiveOrder(c) ==
    /\ c \in wire /\ request[c].kind = "order"
    /\ LET hash == GetOrderHash(request[c].json, ExchangeNetwork)
           valid == HashHasValidSignature(hash, request[c].signature, request[c].signer)
       IN  \/ ~valid /\ Decide(c, "invalid") /\ UNCHANGED book
           \/ valid /\ Decide(c, "declined") /\ UNCHANGED book
           \/ valid /\ Decide(c, "accepted")
                /\ book' = [h \in DOMAIN book \cup {hash} |->
                                IF h \in DOMAIN book THEN book[h]
                                ELSE [filled |-> 0, open |-> TRUE]]

ReceiveCancel(c) ==
    /\ c \in wire /\ request[c].kind = "cancel"
    /\ LET orderId == request[c].orderId
           hash == OrderHashToCancelOrderHash(orderId, ExchangeNetwork)
           valid == HashHasValidSignature(hash, request[c].signature, request[c].signer)
       IN  \/ ~valid /\ Decide(c, "invalid") /\ UNCHANGED book
           \/ valid /\ Decide(c, "accepted") /\ book' = [book EXCEPT ![orderId].open = FALSE]

\* Mutation of FillOrder: what is filled already does not count.
FillOrderAgain(hash, amount) ==
    /\ book[hash].open
    /\ hash.content.expiration >= clock \/ hash.content.expiration = 0
    /\ amount <= hash.content.amount
    /\ book' = [book EXCEPT ![hash].filled = @ + amount]
    /\ UNCHANGED <<networkId, clock, pc, request, wire, answers, verdict>>

\* P1Orders fills an open order, up to its amount, until it expires.
FillOrder(hash, amount) ==
    /\ book[hash].open
    /\ hash.content.expiration >= clock \/ hash.content.expiration = 0
    /\ book[hash].filled + amount <= hash.content.amount
    /\ book' = [book EXCEPT ![hash].filled = @ + amount]
    /\ UNCHANGED <<networkId, clock, pc, request, wire, answers, verdict>>

-----------------------------------------------------------------------------
Call(c) ==
    \/ "place" \in CallsOf[c] /\ \E args \in Placements : PlacePerpetualOrder(c, args)
    \/ "submit" \in CallsOf[c] /\ \E earlier \in Calls : SubmitPerpetualOrder(c, earlier)
    \/ "cancel" \in CallsOf[c] /\ \E hash \in DOMAIN book : CancelOrder(c, hash, hash.content.maker)

Client(c) == Call(c) \/ Signed(c) \/ WalletRefuses(c) \/ Answered(c) \/ Timeout(c)

Exchange ==
    \/ \E c \in wire : ReceiveOrder(c) \/ ReceiveCancel(c)
    \/ \E hash \in DOMAIN book : FillOrder(hash, 1)

ApiNext ==
    \/ \E c \in Calls : Client(c)
    \/ Exchange
    \/ \E network \in Networks : SetProvider(network)
    \/ Tick

ApiSpec == ApiInit /\ [][ApiNext]_vars

-----------------------------------------------------------------------------
(* Properties                                                               *)

PC == {"idle", "signing", "waiting", "resolved", "rejected", "rejectedByWallet"}

\* Types; what is on its way was sent by its call; no hash is filled beyond the
\* amount of its order.
ApiTypeOK ==
    /\ networkId \in Networks /\ clock \in 1..MaxClock
    /\ pc \in [Calls -> PC]
    /\ verdict \in [Calls -> {"none", "accepted", "declined", "invalid"}]
    /\ \A c \in wire \cup answers : request[c].kind # "none" /\ pc[c] \notin {"idle", "signing"}
    /\ \A hash \in DOMAIN book : book[hash].filled \in 0..hash.content.amount

\* Placing an order again with the same arguments can be told from placing another:
\* with a salt of the caller's and no expiration.
Repeatable(args) == args.salt # NoSalt /\ args.lifetime = 0

\* The calls that have a signed order for these arguments, the orders that the wallet
\* signed for them, and the hashes by which the exchange knows those.
CallsFor(args) == {c \in Calls : HasSignedOrder(c) /\ request[c].args = args}
SignedFor(args) == {request[c].order : c \in CallsFor(args)}
HashesOf(args) == {GetOrderHash(request[c].json, ExchangeNetwork) : c \in CallsFor(args)}

FilledOf(args) ==
    Total([hash \in HashesOf(args) \cap DOMAIN book |-> book[hash].filled])

\* A caller that was not answered, and places again or submits its order once more,
\* has the amount filled once for every different order that its wallet signed,
\* whichever of the requests arrive, and when: submitting an order again adds nothing.
\* By default, with a new salt and expiration, every placement is another order; with
\* a salt of the caller's and no expiration all are one, and fill once.
RetriesFillOnce ==
    \A args \in Placements :
        /\ FilledOf(args) <= args.amount * Cardinality(SignedFor(args))
        /\ Repeatable(args) => FilledOf(args) <= args.amount

\* What the exchange reads in a request is what the maker has signed, if the wallet
\* adds the prefix and the client was on the network of the exchange when the
\* request was made.  (A fee of minus zero is signed as negative, and sent as zero.)
SignedRequestsAreValid == \A c \in Calls :
    verdict[c] = "invalid" =>
        \/ Wallet[request[c].signer] # "DECIMAL"
        \/ request[c].hash.domain # ExchangeNetwork
        \/ /\ request[c].kind = "order"
           /\ request[c].order.limitFee = [value |-> 0, isNegative |-> TRUE]
=============================================================================
