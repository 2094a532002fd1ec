----------------------------- MODULE Api_proofs -----------------------------
(***************************************************************************)
(* Proofs about the client of the exchange: what is signed is what is read, *)
(* and a placement that is repeated is filled once at most, for any         *)
(* placements, calls, wallets and networks, whatever the network does.      *)
(***************************************************************************)
EXTENDS Api, P1Settlement_proofs

-----------------------------------------------------------------------------
(* Orders and signatures                                                    *)

LimitFeeOf(args) ==
    IF args.limitFee = NoFee THEN GetFeeForOrder(args.amount, ~args.postOnly) ELSE args.limitFee

OrderOf(args, expiration, salt) ==
    [isBuy |-> args.side = "BUY", isDecreaseOnly |-> FALSE, amount |-> args.amount,
     limitPrice |-> args.price, triggerPrice |-> [value |-> 0, isNegative |-> FALSE],
     limitFee |-> LimitFeeOf(args), maker |-> args.maker, taker |-> args.taker,
     expiration |-> expiration, salt |-> salt]

\* The order of a placement, at the time it is made.
LEMMA CreatedOrder ==
  ASSUME NEW args \in Placements, NEW salt, clock \in Nat
  PROVE  \E expiration \in Nat :
             /\ CreateOrder(args, salt) = OrderOf(args, expiration, salt)
             /\ args.lifetime = 0 => expiration = 0
<1>1. /\ GetRealExpiration(args.lifetime) \in Nat
      /\ args.lifetime = 0 => GetRealExpiration(args.lifetime) = 0
  BY ApiAssumption DEF GetRealExpiration
<1>2. CreateOrder(args, salt) = OrderOf(args, GetRealExpiration(args.lifetime), salt)
  BY DEF CreateOrder, OrderOf, LimitFeeOf
<1> QED
  BY <1>1, <1>2

\* The fee of a placement has a value and a sign.
LEMMA LimitFeeType ==
  ASSUME NEW args \in Placements
  PROVE  LimitFeeOf(args) \in BaseValue
BY ApiAssumption, ClientOrdersAssumption DEF LimitFeeOf, GetFeeForOrder

\* What is sent of an order is the order, with the sign of a zero fee left out.
LEMMA SentOrder ==
  ASSUME NEW args \in Placements, NEW expiration, NEW salt
  PROVE  LET order == OrderOf(args, expiration, salt)
         IN  /\ JsonifyPerpetualOrder(order).amount = args.amount
             /\ order.limitFee # [value |-> 0, isNegative |-> TRUE] =>
                    JsonifyPerpetualOrder(order) = order
<1> DEFINE fee == LimitFeeOf(args)
           order == OrderOf(args, expiration, salt)
<1>1. fee \in BaseValue
  BY LimitFeeType
<1>2. order.limitFee = fee /\ order.amount = args.amount
  BY DEF OrderOf
<1>3. fee # [value |-> 0, isNegative |-> TRUE] => JsonFee(fee) = fee
  BY <1>1 DEF JsonFee, BaseValue
<1> HIDE DEF fee
<1>4. JsonifyPerpetualOrder(order).amount = args.amount
  BY DEF JsonifyPerpetualOrder, OrderOf
<1>5. [order EXCEPT !.limitFee = order.limitFee] = order
  BY DEF OrderOf
<1> QED
  BY <1>2, <1>3, <1>4, <1>5 DEF JsonifyPerpetualOrder

\* The client asks the wallet for a signature that it takes for one with the prefix.
LEMMA SignatureIs ==
  ASSUME NEW wallet, NEW hash, NEW signer
  PROVE  SignHash(wallet, hash, signer, "Hash")
           = [signer |-> signer, hash |-> hash, prepended |-> wallet, type |-> "DECIMAL"]
BY DEF SignHash, CreateTypedSignature, EthSign, TypedDataMethods

\* Who checks it for the same hash finds it valid when the wallet added the prefix.
LEMMA SignatureValid ==
  ASSUME NEW hash, NEW signer
  PROVE  HashHasValidSignature(hash, SignHash("DECIMAL", hash, signer, "Hash"), signer)
BY SignatureIs DEF HashHasValidSignature, EcRecoverTypedSignature

-----------------------------------------------------------------------------
(* The inductive invariant                                                  *)

MinusZeroFee == [value |-> 0, isNegative |-> TRUE]

IsOrderRequest(r) ==
    /\ r.args \in Placements
    /\ r.hash = GetOrderHash(r.order, r.hash.domain)
    /\ \E expiration \in Nat, salt \in SaltsFor(r.args) :
           /\ r.order = OrderOf(r.args, expiration, salt)
           /\ r.args.lifetime = 0 => expiration = 0

IsCancelRequest(r) == r.hash = OrderHashToCancelOrderHash(r.orderId, r.hash.domain)

IsSigned(r) ==
    /\ r.signature = SignHash(Wallet[r.signer], r.hash, r.signer, "Hash")
    /\ r.kind = "order" => r.json = JsonifyPerpetualOrder(r.order)

\* A call that stands at p with the request r, which has left or not, and the verdict
\* v on it: the request is what its arguments say, and was signed before it left.
CallInv(r, p, left, v) ==
    /\ p \in PC /\ v \in {"none", "accepted", "declined", "invalid"}
    /\ r.kind \in {"none", "order", "cancel"}
    /\ p = "idle" => r.kind = "none"
    /\ p \in {"signing", "waiting"} => r.kind # "none"
    /\ r.kind = "order" => IsOrderRequest(r)
    /\ r.kind = "cancel" => IsCancelRequest(r)
    /\ r.kind # "none" /\ p \notin {"signing", "rejectedByWallet"} => IsSigned(r)
    /\ left \/ v # "none" =>
           r.kind # "none" /\ p \notin {"idle", "signing", "rejectedByWallet"}
    /\ v = "invalid" =>
           \/ Wallet[r.signer] # "DECIMAL"
           \/ r.hash.domain # ExchangeNetwork
           \/ r.kind = "order" /\ r.order.limitFee = MinusZeroFee

\* No hash of the book is filled beyond its amount.
BookInv ==
    \A hash \in DOMAIN book :
        /\ book[hash] \in [filled : Nat, open : BOOLEAN]
        /\ hash.content.amount \in Nat
        /\ book[hash].filled <= hash.content.amount

Left(c) == c \in wire \cup answers

\* f is a function of the calls.
OnCalls(f) == f = [c \in Calls |-> f[c]]

ApiIInv ==
    /\ networkId \in Networks /\ clock \in 1..MaxClock
    /\ OnCalls(pc) /\ OnCalls(request) /\ OnCalls(verdict)
    /\ wire \subseteq Calls /\ answers \subseteq Calls
    /\ \A c \in Calls : CallInv(request[c], pc[c], Left(c), verdict[c])
    /\ BookInv

\* A step of one call keeps the invariant, if it does so for that call.
LEMMA OneCall ==
  ASSUME ApiIInv, NEW c \in Calls, NEW r, NEW p, NEW v,
         request' = [request EXCEPT ![c] = r],
         pc' = [pc EXCEPT ![c] = p],
         verdict' = [verdict EXCEPT ![c] = v],
         wire' \subseteq wire \cup {c}, answers' \subseteq answers \cup {c},
         CallInv(r, p, Left(c)', v),
         networkId' = networkId, clock' = clock, BookInv'
  PROVE  ApiIInv'
<1>1. /\ OnCalls(pc)' /\ OnCalls(request)' /\ OnCalls(verdict)'
      /\ wire' \subseteq Calls /\ answers' \subseteq Calls
  BY DEF ApiIInv, OnCalls
<1>2. ASSUME NEW d \in Calls
      PROVE  CallInv(request'[d], pc'[d], Left(d)', verdict'[d])
  <2>1. CASE d = c
    <3>1. request'[d] = r /\ pc'[d] = p /\ verdict'[d] = v
      BY <2>1 DEF ApiIInv, OnCalls
    <3> QED BY <2>1, <3>1
  <2>2. CASE d # c
    <3>1. request'[d] = request[d] /\ pc'[d] = pc[d] /\ verdict'[d] = verdict[d]
      BY <2>2 DEF ApiIInv, OnCalls
    <3>2. Left(d)' => Left(d)
      BY <2>2 DEF Left
    <3>3. CallInv(request[d], pc[d], Left(d), verdict[d])
      BY DEF ApiIInv
    <3> QED BY <3>1, <3>2, <3>3 DEF CallInv
  <2> QED BY <2>1, <2>2
<1> QED
  BY <1>1, <1>2 DEF ApiIInv

\* The book stays as it is.
LEMMA SameBook ==
  ASSUME BookInv, book' = book
  PROVE  BookInv'
BY DEF BookInv
-----------------------------------------------------------------------------
(* The invariant, step by step                                              *)

\* A placement is refused, or the wallet is asked for the order it makes.
LEMMA PlaceInv ==
  ASSUME ApiIInv, NEW c \in Calls, NEW args \in Placements, PlacePerpetualOrder(c, args)
  PROVE  ApiIInv'
<1>0. /\ pc[c] = "idle" /\ CallInv(request[c], pc[c], Left(c), verdict[c])
      /\ clock \in Nat
  BY ApiAssumption DEF PlacePerpetualOrder, ApiIInv
<1>1. request[c].kind = "none" /\ ~Left(c) /\ verdict[c] = "none"
  BY <1>0 DEF CallInv
<1>2. verdict = [verdict EXCEPT ![c] = verdict[c]] /\ request = [request EXCEPT ![c] = request[c]]
  BY DEF ApiIInv, OnCalls
<1>3. CASE Reject(c)
  <2>1. /\ pc' = [pc EXCEPT ![c] = "rejected"]
        /\ UNCHANGED <<networkId, clock, request, wire, answers, verdict, book>>
    BY <1>3 DEF Reject, exchangeVars
  <2>2. CallInv(request[c], "rejected", Left(c)', verdict[c])
    BY <1>0, <1>1, <2>1 DEF CallInv, Left, PC
  <2>3. BookInv'
    BY <2>1, SameBook DEF ApiIInv
  <2> QED BY <1>2, <2>1, <2>2, <2>3, OneCall
<1>4. ASSUME NEW salt \in SaltsFor(args),
             AskWallet(c, [kind |-> "order", args |-> args, order |-> CreateOrder(args, salt),
                           signer |-> args.maker,
                           hash |-> GetOrderHash(CreateOrder(args, salt), networkId)])
      PROVE  ApiIInv'
  <2> DEFINE order == CreateOrder(args, salt)
             r == [kind |-> "order", args |-> args, order |-> order, signer |-> args.maker,
                   hash |-> GetOrderHash(order, networkId)]
  <2>1. /\ pc' = [pc EXCEPT ![c] = "signing"] /\ request' = [request EXCEPT ![c] = r]
        /\ UNCHANGED <<networkId, clock, wire, answers, verdict, book>>
    BY <1>4 DEF AskWallet, exchangeVars
  <2>2. \E expiration \in Nat :
            order = OrderOf(args, expiration, salt) /\ (args.lifetime = 0 => expiration = 0)
    BY <1>0, CreatedOrder
  <2> HIDE DEF order
  <2>3. IsOrderRequest(r)
    BY <2>2 DEF IsOrderRequest, GetOrderHash
  <2>4. r.kind = "order"
    OBVIOUS
  <2> HIDE DEF r
  <2>5. CallInv(r, "signing", Left(c)', verdict[c])
    BY <1>1, <2>1, <2>3, <2>4 DEF CallInv, Left, PC
  <2>6. BookInv'
    BY <2>1, SameBook DEF ApiIInv
  <2> QED BY <1>2, <2>1, <2>5, <2>6, OneCall
<1> QED
  BY <1>3, <1>4 DEF PlacePerpetualOrder

\* A signed order is submitted once more.
LEMMA SubmitInv ==
  ASSUME ApiIInv, NEW c \in Calls, NEW earlier \in Calls, SubmitPerpetualOrder(c, earlier)
  PROVE  ApiIInv'
<1> DEFINE r == request[earlier]
<1>1. /\ pc[c] = "idle" /\ r.kind = "order"
      /\ pc[earlier] \notin {"signing", "rejectedByWallet"}
      /\ pc' = [pc EXCEPT ![c] = "waiting"] /\ request' = [request EXCEPT ![c] = r]
      /\ wire' = wire \cup {c} /\ UNCHANGED <<networkId, clock, answers, verdict, book>>
  BY DEF SubmitPerpetualOrder, HasSignedOrder, Post
<1>2. /\ CallInv(request[c], pc[c], Left(c), verdict[c])
      /\ CallInv(r, pc[earlier], Left(earlier), verdict[earlier])
  BY DEF ApiIInv
<1>3. verdict[c] = "none"
  BY <1>1, <1>2 DEF CallInv
<1> HIDE DEF r
<1>4. CallInv(r, "waiting", Left(c)', "none")
  BY <1>1, <1>2 DEF CallInv, PC
<1>5. verdict' = [verdict EXCEPT ![c] = "none"] /\ BookInv'
  BY <1>1, <1>3, SameBook DEF ApiIInv, OnCalls
<1> QED
  BY <1>1, <1>4, <1>5, OneCall

\* The wallet is asked for a cancellation.
LEMMA CancelInv ==
  ASSUME ApiIInv, NEW c \in Calls, NEW orderId, NEW maker, CancelOrder(c, orderId, maker)
  PROVE  ApiIInv'
<1> DEFINE r == [kind |-> "cancel", orderId |-> orderId, signer |-> maker,
                 hash |-> OrderHashToCancelOrderHash(orderId, networkId)]
<1>1. /\ pc[c] = "idle"
      /\ pc' = [pc EXCEPT ![c] = "signing"] /\ request' = [request EXCEPT ![c] = r]
      /\ UNCHANGED <<networkId, clock, wire, answers, verdict, book>>
  BY DEF CancelOrder, AskWallet, exchangeVars
<1>2. CallInv(request[c], pc[c], Left(c), verdict[c])
  BY DEF ApiIInv
<1>3. verdict[c] = "none" /\ ~Left(c)
  BY <1>1, <1>2 DEF CallInv
<1>4. r.kind = "cancel" /\ IsCancelRequest(r)
  BY DEF IsCancelRequest, OrderHashToCancelOrderHash
<1> HIDE DEF r
<1>5. CallInv(r, "signing", Left(c)', "none")
  BY <1>1, <1>3, <1>4 DEF CallInv, Left, PC
<1>6. verdict' = [verdict EXCEPT ![c] = "none"] /\ BookInv'
  BY <1>1, <1>3, SameBook DEF ApiIInv, OnCalls
<1> QED
  BY <1>1, <1>5, <1>6, OneCall

\* The wallet signs, and the request leaves.
LEMMA SignedInv ==
  ASSUME ApiIInv, NEW c \in Calls, Signed(c)
  PROVE  ApiIInv'
<1> DEFINE r == request[c]
           signature == SignHash(Wallet[r.signer], r.hash, r.signer, "Hash")
           sentOrder == [kind |-> "order", args |-> r.args, order |-> r.order,
                         signer |-> r.signer, hash |-> r.hash, signature |-> signature,
                         json |-> JsonifyPerpetualOrder(r.order)]
           sentCancel == [kind |-> "cancel", orderId |-> r.orderId, signer |-> r.signer,
                          hash |-> r.hash, signature |-> signature]
           sent == IF r.kind = "order" THEN sentOrder ELSE sentCancel
<1>1. /\ pc[c] = "signing"
      /\ pc' = [pc EXCEPT ![c] = "waiting"] /\ request' = [request EXCEPT ![c] = sent]
      /\ wire' = wire \cup {c} /\ UNCHANGED <<networkId, clock, answers, verdict, book>>
  BY DEF Signed, Post
<1>2. CallInv(r, "signing", Left(c), verdict[c])
  BY <1>1 DEF ApiIInv
<1>3. verdict[c] = "none" /\ r.kind \in {"order", "cancel"}
  BY <1>2 DEF CallInv
<1> HIDE DEF r
<1>4. CallInv(sent, "waiting", Left(c)', "none")
  <2>1. CASE r.kind = "order"
    <3>1. IsOrderRequest(sentOrder)
      BY <1>2, <2>1 DEF CallInv, IsOrderRequest
    <3>2. IsSigned(sentOrder) /\ sentOrder.kind = "order"
      BY DEF IsSigned
    <3> HIDE DEF sentOrder
    <3>3. sent = sentOrder
      BY <2>1
    <3> HIDE DEF sent
    <3> QED BY <3>1, <3>2, <3>3 DEF CallInv, PC
  <2>2. CASE r.kind = "cancel"
    <3>1. IsCancelRequest(sentCancel)
      BY <1>2, <2>2 DEF CallInv, IsCancelRequest
    <3>2. IsSigned(sentCancel) /\ sentCancel.kind = "cancel"
      BY DEF IsSigned
    <3> HIDE DEF sentCancel
    <3>3. sent = sentCancel
      BY <2>2
    <3> HIDE DEF sent
    <3> QED BY <3>1, <3>2, <3>3 DEF CallInv, PC
  <2> QED BY <1>3, <2>1, <2>2
<1> HIDE DEF sent
<1>5. verdict' = [verdict EXCEPT ![c] = "none"] /\ BookInv'
  BY <1>1, <1>3, SameBook DEF ApiIInv, OnCalls
<1> QED
  BY <1>1, <1>4, <1>5, OneCall

\* The wallet refuses, the answer arrives, or the client has waited long enough.
LEMMA EndInv ==
  ASSUME ApiIInv, NEW c \in Calls, WalletRefuses(c) \/ Answered(c) \/ Timeout(c)
  PROVE  ApiIInv'
<1>1. PICK p \in {"rejectedByWallet", "resolved", "rejected"} :
          /\ pc' = [pc EXCEPT ![c] = p]
          /\ IF p = "rejectedByWallet" THEN pc[c] = "signing" ELSE pc[c] = "waiting"
          /\ answers' \subseteq answers
          /\ UNCHANGED <<networkId, clock, request, wire, verdict, book>>
  <2>1. CASE WalletRefuses(c)
    BY <2>1 DEF WalletRefuses, exchangeVars
  <2>2. CASE Answered(c)
    BY <2>2 DEF Answered
  <2>3. CASE Timeout(c)
    BY <2>3 DEF Timeout, Reject, exchangeVars
  <2> QED BY <2>1, <2>2, <2>3
<1>2. CallInv(request[c], pc[c], Left(c), verdict[c])
  BY DEF ApiIInv
<1>3. Left(c)' => Left(c)
  BY <1>1 DEF Left
<1>4. CallInv(request[c], p, Left(c)', verdict[c])
  BY <1>1, <1>2, <1>3 DEF CallInv, PC
<1>5. /\ verdict' = [verdict EXCEPT ![c] = verdict[c]]
      /\ request' = [request EXCEPT ![c] = request[c]] /\ BookInv'
  BY <1>1, SameBook DEF ApiIInv, OnCalls
<1> QED
  BY <1>1, <1>4, <1>5, OneCall

\* The exchange decides on a request that is on its way.
LEMMA DecideInv ==
  ASSUME ApiIInv, NEW c \in wire, NEW v \in {"accepted", "declined", "invalid"},
         Decide(c, v), BookInv',
         v = "invalid" => \/ Wallet[request[c].signer] # "DECIMAL"
                          \/ request[c].hash.domain # ExchangeNetwork
                          \/ request[c].kind = "order"
                               /\ request[c].order.limitFee = MinusZeroFee
  PROVE  ApiIInv'
<1>1. c \in Calls /\ CallInv(request[c], pc[c], Left(c), verdict[c]) /\ Left(c)
  BY DEF ApiIInv, Left
<1>2. CallInv(request[c], pc[c], Left(c)', v)
  BY <1>1 DEF CallInv
<1>3. /\ pc' = [pc EXCEPT ![c] = pc[c]] /\ request' = [request EXCEPT ![c] = request[c]]
      /\ verdict' = [verdict EXCEPT ![c] = v] /\ wire' \subseteq wire \cup {c}
      /\ answers' \subseteq answers \cup {c} /\ networkId' = networkId /\ clock' = clock
  BY DEF Decide, ApiIInv, OnCalls
<1> QED
  BY <1>1, <1>2, <1>3, OneCall

\* What the exchange makes of an order.
LEMMA ReceiveOrderInv ==
  ASSUME ApiIInv, NEW c \in wire, ReceiveOrder(c)
  PROVE  ApiIInv'
<1> DEFINE r == request[c]
           hash == GetOrderHash(r.json, ExchangeNetwork)
           valid == HashHasValidSignature(hash, r.signature, r.signer)
<1>1. /\ r.kind = "order" /\ IsOrderRequest(r) /\ IsSigned(r) /\ BookInv
  BY DEF ReceiveOrder, ApiIInv, CallInv, Left
<1>2. PICK expiration \in Nat, salt \in SaltsFor(r.args) :
          r.order = OrderOf(r.args, expiration, salt)
  BY <1>1 DEF IsOrderRequest
<1>3. /\ r.json.amount = r.args.amount /\ r.args.amount \in Nat
      /\ r.order.limitFee # MinusZeroFee => r.json = r.order
  <2>1. r.args \in Placements /\ r.json = JsonifyPerpetualOrder(r.order)
    BY <1>1 DEF IsOrderRequest, IsSigned
  <2> QED BY <1>2, <2>1, SentOrder, ApiAssumption DEF MinusZeroFee
<1>4. hash.content.amount \in Nat
  BY <1>3 DEF GetOrderHash, OrderToSolidity
<1>5. ~valid => \/ Wallet[r.signer] # "DECIMAL"
                \/ r.hash.domain # ExchangeNetwork
                \/ r.kind = "order" /\ r.order.limitFee = MinusZeroFee
  <2> SUFFICES ASSUME Wallet[r.signer] = "DECIMAL", r.hash.domain = ExchangeNetwork,
                      r.order.limitFee # MinusZeroFee
               PROVE  valid
    BY <1>1
  <2>1. hash = r.hash
    BY <1>1, <1>3 DEF IsOrderRequest
  <2>2. r.signature = SignHash("DECIMAL", r.hash, r.signer, "Hash")
    BY <1>1 DEF IsSigned
  <2> QED BY <2>1, <2>2, SignatureValid
<1>6. \/ ~valid /\ Decide(c, "invalid") /\ UNCHANGED book
      \/ valid /\ Decide(c, "declined") /\ UNCHANGED book
      \/ Decide(c, "accepted")
           /\ book' = [h \in DOMAIN book \cup {hash} |->
                          IF h \in DOMAIN book THEN book[h] ELSE [filled |-> 0, open |-> TRUE]]
  BY DEF ReceiveOrder
<1>7. BookInv'
  <2>1. CASE UNCHANGED book
    BY <1>1, <2>1, SameBook
  <2>2. CASE book' = [h \in DOMAIN book \cup {hash} |->
                         IF h \in DOMAIN book THEN book[h] ELSE [filled |-> 0, open |-> TRUE]]
    <3> HIDE DEF hash
    <3>1. ASSUME NEW h \in DOMAIN book'
          PROVE  /\ book'[h] \in [filled : Nat, open : BOOLEAN]
                 /\ h.content.amount \in Nat /\ book'[h].filled <= h.content.amount
      BY <1>1, <1>4, <2>2 DEF BookInv
    <3> QED BY <3>1 DEF BookInv
  <2> QED BY <1>6, <2>1, <2>2
<1> HIDE DEF valid, hash
<1> QED
  BY <1>5, <1>6, <1>7, DecideInv

\* What the exchange makes of a cancellation.
LEMMA ReceiveCancelInv ==
  ASSUME ApiIInv, NEW c \in wire, ReceiveCancel(c)
  PROVE  ApiIInv'
<1> DEFINE r == request[c]
           hash == OrderHashToCancelOrderHash(r.orderId, ExchangeNetwork)
           valid == HashHasValidSignature(hash, r.signature, r.signer)
<1>1. IsCancelRequest(r) /\ IsSigned(r) /\ BookInv
  BY DEF ReceiveCancel, ApiIInv, CallInv, Left
<1>2. ~valid => Wallet[r.signer] # "DECIMAL" \/ r.hash.domain # ExchangeNetwork
  <2> SUFFICES ASSUME Wallet[r.signer] = "DECIMAL", r.hash.domain = ExchangeNetwork
               PROVE  valid
    OBVIOUS
  <2>1. hash = r.hash
    BY <1>1 DEF IsCancelRequest
  <2>2. r.signature = SignHash("DECIMAL", r.hash, r.signer, "Hash")
    BY <1>1 DEF IsSigned
  <2> QED BY <2>1, <2>2, SignatureValid
<1>3. \/ ~valid /\ Decide(c, "invalid") /\ UNCHANGED book
      \/ Decide(c, "accepted") /\ book' = [book EXCEPT ![r.orderId].open = FALSE]
  BY DEF ReceiveCancel
<1>4. BookInv'
  <2>1. CASE UNCHANGED book
    BY <1>1, <2>1, SameBook
  <2>2. CASE book' = [book EXCEPT ![r.orderId].open = FALSE]
    BY <1>1, <2>2 DEF BookInv
  <2> QED BY <1>3, <2>1, <2>2
<1> HIDE DEF valid
<1> QED
  BY <1>2, <1>3, <1>4, DecideInv
\* The exchange fills orders; time passes, and the client changes its network.
LEMMA WorldInv ==
  ASSUME ApiIInv,
         \/ \E hash \in DOMAIN book : FillOrder(hash, 1)
         \/ \E network \in Networks : SetProvider(network)
         \/ Tick
         \/ UNCHANGED vars
  PROVE  ApiIInv'
<1>1. UNCHANGED <<pc, request, wire, answers, verdict>>
  BY DEF FillOrder, SetProvider, Tick, vars, exchangeVars
<1>2. networkId' \in Networks /\ clock' \in 1..MaxClock
  BY ApiAssumption DEF ApiIInv, FillOrder, SetProvider, Tick, vars
<1>3. BookInv'
  <2>0. BookInv
    BY DEF ApiIInv
  <2>1. CASE \E hash \in DOMAIN book : FillOrder(hash, 1)
    <3>1. PICK hash \in DOMAIN book :
              /\ book[hash].filled + 1 <= hash.content.amount
              /\ book' = [book EXCEPT ![hash].filled = @ + 1]
      BY <2>1 DEF FillOrder
    <3> QED BY <2>0, <3>1 DEF BookInv
  <2>2. CASE book' = book
    BY <2>0, <2>2, SameBook
  <2> QED BY <2>1, <2>2 DEF SetProvider, Tick, vars, exchangeVars
<1> QED
  BY <1>1, <1>2, <1>3 DEF ApiIInv, OnCalls, Left

\* The invariant holds at first, and every step keeps it.
LEMMA ApiInvariant == ApiSpec => []ApiIInv
<1>1. ApiInit => ApiIInv
  <2> SUFFICES ASSUME ApiInit PROVE ApiIInv
    OBVIOUS
  <2>1. /\ networkId \in Networks /\ clock \in 1..MaxClock
        /\ pc = [c \in Calls |-> "idle"] /\ request = [c \in Calls |-> NoRequest]
        /\ verdict = [c \in Calls |-> "none"] /\ wire = {} /\ answers = {} /\ book = <<>>
    BY ApiAssumption DEF ApiInit
  <2>2. CallInv(NoRequest, "idle", FALSE, "none")
    BY DEF CallInv, NoRequest, PC
  <2>3. \A c \in Calls : CallInv(request[c], pc[c], Left(c), verdict[c])
    BY <2>1, <2>2 DEF Left, CallInv
  <2>4. BookInv
    BY <2>1 DEF BookInv
  <2> QED BY <2>1, <2>3, <2>4 DEF ApiIInv, OnCalls
<1>2. ApiIInv /\ [ApiNext]_vars => ApiIInv'
  <2> SUFFICES ASSUME ApiIInv, [ApiNext]_vars PROVE ApiIInv'
    OBVIOUS
  <2>1. ASSUME NEW c \in Calls, Client(c)
        PROVE  ApiIInv'
    BY <2>1, PlaceInv, SubmitInv, CancelInv, SignedInv, EndInv DEF Client, Call
  <2>2. ASSUME NEW c \in wire, ReceiveOrder(c) \/ ReceiveCancel(c)
        PROVE  ApiIInv'
    BY <2>2, ReceiveOrderInv, ReceiveCancelInv
  <2> QED BY <2>1, <2>2, WorldInv DEF ApiNext, Exchange
<1> QED
  BY <1>1, <1>2, PTL DEF ApiSpec

-----------------------------------------------------------------------------
(* The theorems                                                             *)

\* The types; only requests that were sent are on their way, and no order of the book
\* is filled beyond its amount, for any calls and placements.
THEOREM ApiTypeCorrect == ApiSpec => []ApiTypeOK
<1>1. ApiIInv => ApiTypeOK
  <2> SUFFICES ASSUME ApiIInv PROVE ApiTypeOK
    OBVIOUS
  <2>1. \A c \in Calls : CallInv(request[c], pc[c], Left(c), verdict[c])
    BY DEF ApiIInv
  <2>2. pc \in [Calls -> PC]
    BY <2>1 DEF ApiIInv, OnCalls, CallInv
  <2>3. verdict \in [Calls -> {"none", "accepted", "declined", "invalid"}]
    BY <2>1 DEF ApiIInv, OnCalls, CallInv
  <2>4. \A c \in wire \cup answers :
            request[c].kind # "none" /\ pc[c] \notin {"idle", "signing"}
    BY <2>1 DEF ApiIInv, CallInv, Left
  <2>5. \A hash \in DOMAIN book : book[hash].filled \in 0..hash.content.amount
    BY DEF ApiIInv, BookInv
  <2> QED BY <2>2, <2>3, <2>4, <2>5 DEF ApiIInv, ApiTypeOK
<1> QED
  BY <1>1, ApiInvariant, PTL

\* The exchange finds no signature invalid for another reason than a wallet that adds
\* no prefix, a request made on another network, or a fee of minus zero (signOrder,
\* jsonifyPerpetualOrder), whatever happens between signing and reading.
THEOREM SignaturesAreValid == ApiSpec => []SignedRequestsAreValid
<1>1. ApiIInv => SignedRequestsAreValid
  BY DEF ApiIInv, CallInv, SignedRequestsAreValid, MinusZeroFee
<1> QED
  BY <1>1, ApiInvariant, PTL

\* Every request of a placement that can be repeated is for one and the same order.
LEMMA OneHash ==
  ASSUME ApiIInv, NEW args \in Placements, Repeatable(args)
  PROVE  \E hash : HashesOf(args) \subseteq {hash}
<1> DEFINE order == JsonifyPerpetualOrder(OrderOf(args, 0, args.salt))
           hash == GetOrderHash(order, ExchangeNetwork)
<1>1. ASSUME NEW c \in CallsFor(args)
      PROVE  request[c].json = order
  <2>1. CallInv(request[c], pc[c], Left(c), verdict[c]) /\ request[c].kind = "order"
        /\ pc[c] \notin {"signing", "rejectedByWallet"}
    BY <1>1 DEF ApiIInv, CallsFor, HasSignedOrder
  <2>2. IsOrderRequest(request[c]) /\ request[c].json = JsonifyPerpetualOrder(request[c].order)
    BY <2>1 DEF CallInv, IsSigned
  <2>3. SaltsFor(args) = {args.salt} /\ args.lifetime = 0
    BY DEF Repeatable, SaltsFor
  <2>4. request[c].order = OrderOf(args, 0, args.salt)
    BY <1>1, <2>2, <2>3 DEF IsOrderRequest, CallsFor
  <2> QED BY <2>2, <2>4
<1> HIDE DEF order
<1> QED
  BY <1>1 DEF HashesOf

\* The orders that were signed for a placement, and so the hashes of their requests,
\* are finitely many, and the hashes are no more than the orders.
LEMMA HashesCounted ==
  ASSUME ApiIInv, NEW args \in Placements
  PROVE  /\ IsFiniteSet(HashesOf(args)) /\ IsFiniteSet(SignedFor(args))
         /\ Cardinality(HashesOf(args)) <= Cardinality(SignedFor(args))
<1> DEFINE Hash(order) == GetOrderHash(JsonifyPerpetualOrder(order), ExchangeNetwork)
           order == [c \in CallsFor(args) |-> request[c].order]
           hash == [o \in SignedFor(args) |-> Hash(o)]
<1>1. IsFiniteSet(CallsFor(args))
  BY ApiAssumption, FS_Subset DEF CallsFor
<1>2. IsFiniteSet(SignedFor(args))
  <2>1. order \in Surjection(CallsFor(args), SignedFor(args))
    BY DEF Surjection, SignedFor
  <2> QED BY <1>1, <2>1, FS_Surjection
<1>3. \A c \in CallsFor(args) : request[c].json = JsonifyPerpetualOrder(request[c].order)
  <2> SUFFICES ASSUME NEW c \in CallsFor(args)
               PROVE  request[c].json = JsonifyPerpetualOrder(request[c].order)
    OBVIOUS
  <2>1. /\ CallInv(request[c], pc[c], Left(c), verdict[c]) /\ request[c].kind = "order"
        /\ pc[c] \notin {"signing", "rejectedByWallet"}
    BY DEF ApiIInv, CallsFor, HasSignedOrder
  <2> QED BY <2>1 DEF CallInv, IsSigned
<1>4. hash \in Surjection(SignedFor(args), HashesOf(args))
  <2>1. HashesOf(args) = {Hash(o) : o \in SignedFor(args)}
    BY <1>3 DEF HashesOf, SignedFor
  <2> HIDE DEF Hash
  <2> QED BY <2>1 DEF Surjection
<1> HIDE DEF hash
<1> QED
  BY <1>2, <1>4, FS_Surjection

\* The exchange has each of them with the amount of the arguments.
LEMMA HashAmount ==
  ASSUME ApiIInv, NEW args \in Placements, NEW hash \in HashesOf(args)
  PROVE  hash.content.amount = args.amount
<1>1. PICK c \in CallsFor(args) : hash = GetOrderHash(request[c].json, ExchangeNetwork)
  BY DEF HashesOf
<1>2. /\ CallInv(request[c], pc[c], Left(c), verdict[c]) /\ request[c].kind = "order"
      /\ pc[c] \notin {"signing", "rejectedByWallet"} /\ request[c].args = args
  BY <1>1 DEF ApiIInv, CallsFor, HasSignedOrder
<1>3. IsOrderRequest(request[c]) /\ request[c].json = JsonifyPerpetualOrder(request[c].order)
  BY <1>2 DEF CallInv, IsSigned
<1>4. PICK expiration, salt : request[c].order = OrderOf(args, expiration, salt)
  BY <1>2, <1>3 DEF IsOrderRequest
<1>5. request[c].json.amount = args.amount
  BY <1>3, <1>4, SentOrder
<1> QED
  BY <1>1, <1>5 DEF GetOrderHash, OrderToSolidity

\* More of the same amount is no less.
LEMMA AmountsMonotone ==
  ASSUME NEW amount \in Nat, NEW m \in Nat, NEW n \in Nat, m <= n
  PROVE  amount * m <= amount * n
<1>1. m * amount <= n * amount
  BY ProductMonotone
<1> QED
  BY <1>1

\* However often a placement is repeated, and an order submitted once more, whichever
\* of the requests arrive and when: its amount is filled at most once per order signed
\* (submitPerpetualOrder), and so at most once when the salt is the caller's and the
\* order does not expire, which makes all of them one order (createPerpetualOrder).
THEOREM RetriesAreSafe == ApiSpec => []RetriesFillOnce
<1>1. ASSUME ApiIInv, NEW args \in Placements
      PROVE  /\ FilledOf(args) <= args.amount * Cardinality(SignedFor(args))
             /\ Repeatable(args) => FilledOf(args) <= args.amount
  <2> DEFINE S == HashesOf(args) \cap DOMAIN book
             f == [h \in S |-> book[h].filled]
  <2>1. /\ IsFiniteSet(HashesOf(args)) /\ IsFiniteSet(SignedFor(args))
        /\ Cardinality(HashesOf(args)) <= Cardinality(SignedFor(args))
    BY <1>1, HashesCounted
  <2>2. IsFiniteSet(S) /\ Cardinality(S) <= Cardinality(HashesOf(args))
    BY <2>1, FS_Subset
  <2>3. /\ Cardinality(S) \in Nat /\ Cardinality(HashesOf(args)) \in Nat
        /\ Cardinality(SignedFor(args)) \in Nat
    BY <2>1, <2>2, FS_CardinalityType
  <2>4. \A h \in S : h.content.amount = args.amount
    BY <1>1, HashAmount
  <2>5. \A h \in S : book[h].filled \in Nat /\ book[h].filled <= args.amount
    BY <1>1, <2>4 DEF ApiIInv, BookInv
  <2>6. FilledOf(args) = Total(f) /\ args.amount \in Nat
    BY ApiAssumption DEF FilledOf
  <2>7. Repeatable(args) => Cardinality(S) <= 1
    <3> SUFFICES ASSUME Repeatable(args) PROVE Cardinality(S) <= 1
      OBVIOUS
    <3>1. PICK hash : HashesOf(args) \subseteq {hash}
      BY <1>1, OneHash
    <3>2. IsFiniteSet({hash}) /\ Cardinality({hash}) = 1
      BY FS_Singleton
    <3> QED BY <3>1, <3>2, FS_Subset
  <2> HIDE DEF S
  <2>8. /\ f \in [S -> Int] /\ \A h \in S : f[h] <= args.amount
    BY <2>5
  <2> HIDE DEF f
  <2>9. Total(f) <= args.amount * Cardinality(S)
    BY <2>2, <2>6, <2>8, TotalBounded
  <2>10. Total(f) \in Int
    BY <2>2, <2>8, TotalType
  <2>11. /\ args.amount * Cardinality(S) <= args.amount * Cardinality(SignedFor(args))
         /\ Repeatable(args) => args.amount * Cardinality(S) <= args.amount * 1
    BY <2>1, <2>2, <2>3, <2>6, <2>7, AmountsMonotone
  <2> DEFINE once == args.amount * Cardinality(S)
             signed == args.amount * Cardinality(SignedFor(args))
  <2>12. once \in Nat /\ signed \in Nat /\ args.amount * 1 = args.amount
    BY <2>3, <2>6
  <2> HIDE DEF once, signed
  <2>13. Total(f) <= once /\ once <= signed /\ (Repeatable(args) => once <= args.amount)
    BY <2>9, <2>11, <2>12 DEF once, signed
  <2>14. Total(f) <= signed /\ (Repeatable(args) => Total(f) <= args.amount)
    BY <2>6, <2>10, <2>12, <2>13
  <2> QED BY <2>6, <2>14 DEF signed
<1>2. ApiIInv => RetriesFillOnce
  BY <1>1 DEF RetriesFillOnce
<1> QED
  BY <1>2, ApiInvariant, PTL
=============================================================================
