---------------------------- MODULE ClientOrders ----------------------------
(***************************************************************************)
(* The client's Orders class (src/src/modules/Orders.ts): how an order is   *)
(* handed to the P1Orders contract, what the client predicts a fill to do   *)
(* to the maker, and how orders are hashed and signed.                      *)
(*                                                                          *)
(* A hash stands for what is hashed.  A wallet signs a hash as it is, or    *)
(* with one of the two prefixes that Ethereum clients put before it.        *)
(***************************************************************************)
EXTENDS ClientTypes, Totals

CONSTANTS SALT,                           \* 16^63, the salts that fit in the flags
          MakerFee, SmallFee, TakerFee,   \* -2.5, 50 and 15 bips
          SmallAmount                     \* 0.5e8

ASSUME ClientOrdersAssumption ==
    /\ SALT \in Nat \ {0}
    /\ {MakerFee, SmallFee, TakerFee} \subseteq BaseValue
    /\ SmallAmount \in Nat

(* Order and, for its fills, the arguments of fillToTradeData. *)
IsClientOrder(order) ==
    /\ {order.isBuy, order.isDecreaseOnly} \subseteq BOOLEAN
    /\ {order.amount, order.expiration, order.salt} \subseteq Nat
    /\ {order.limitPrice, order.triggerPrice, order.limitFee} \subseteq BaseValue

-----------------------------------------------------------------------------
(* ORDER_FLAGS are the last hexadecimal digit, the end of the salt precedes *)
(* it.                                                                      *)
IS_BUY == 1
IS_DECREASE_ONLY == 2
IS_NEGATIVE_LIMIT_FEE == 4

\* Mutation of OrderFlags: the sign of the fee is forgotten.
OrderFlagsUnsigned(order) ==
    16 * (order.salt % SALT)
    + (IF order.isDecreaseOnly THEN IS_DECREASE_ONLY ELSE 0)
    + (IF order.isBuy THEN IS_BUY ELSE 0)

OrderFlags(order) ==
    16 * (order.salt % SALT)
    + (IF order.limitFee.isNegative THEN IS_NEGATIVE_LIMIT_FEE ELSE 0)
    + (IF order.isDecreaseOnly THEN IS_DECREASE_ONLY ELSE 0)
    + (IF order.isBuy THEN IS_BUY ELSE 0)

\* The contract masks the flags, Logs.parseOrderFlags looks at the last three bits.
HasFlag(flags, flag) == (flags % 8) \div flag % 2 = 1

\* orderToSolidity, as the contract reads it.
OrderToSolidity(order) ==
    LET flags == OrderFlags(order)
    IN  [maker |-> order.maker, taker |-> order.taker,
         isBuy |-> HasFlag(flags, IS_BUY),
         isDecreaseOnly |-> HasFlag(flags, IS_DECREASE_ONLY),
         amount |-> order.amount,
         limitPrice |-> ToSolidity(order.limitPrice),
         triggerPrice |-> ToSolidity(order.triggerPrice),
         limitFee |-> ToSolidity(order.limitFee),
         isNegativeLimitFee |-> HasFlag(flags, IS_NEGATIVE_LIMIT_FEE),
         expiration |-> order.expiration,
         salt |-> flags \div 16]

\* The Fill that fillToTradeData encodes.
FillToSolidity(fill) ==
    [amount |-> fill.amount, price |-> ToSolidity(fill.price),
     fee |-> ToSolidity(fill.fee), isNegativeFee |-> fill.fee.isNegative]

-----------------------------------------------------------------------------
(* Predictions.  A price of p parts and a fee of f parts make a fee of      *)
(* f * p parts of a part per BASE, of which whole units count.              *)
Truncate(value, unit) == IF value < 0 THEN -((-value) \div unit) ELSE value \div unit

\* Mutation of GetBalanceUpdatesAfterFillingOrder: the fee is not truncated.
GetBalanceUpdatesWithExactFee(fillAmount, fillPrice, fillFee, isBuy) ==
    LET fee == fillFee.value * fillPrice.value * (IF fillFee.isNegative THEN -1 ELSE 1)
        price == fillPrice.value * PARTS * BASE
        marginAmount == Truncate(fillAmount * (IF isBuy THEN price + fee ELSE price - fee),
                                 PARTS * PARTS * BASE * BASE)
    IN  [marginDelta |-> IF isBuy THEN -marginAmount ELSE marginAmount,
         positionDelta |-> IF isBuy THEN fillAmount ELSE -fillAmount]

GetBalanceUpdatesAfterFillingOrder(fillAmount, fillPrice, fillFee, isBuy) ==
    LET fee == Truncate(fillFee.value * fillPrice.value * (IF fillFee.isNegative THEN -1 ELSE 1),
                        PARTS * PARTS * BASE)
        price == fillPrice.value
        marginAmount == Truncate(fillAmount * (IF isBuy THEN price + fee * PARTS
                                                        ELSE price - fee * PARTS),
                                 PARTS * BASE)
    IN  [marginDelta |-> IF isBuy THEN -marginAmount ELSE marginAmount,
         positionDelta |-> IF isBuy THEN fillAmount ELSE -fillAmount]

\* What the maker spends on a fill at the limit price: quote tokens (in parts of
\* 1/BASE token) when it buys, base tokens when it sells.
MakerTokens(order, amount) ==
    IF order.isBuy THEN amount * order.limitPrice.value ELSE amount

FillAmount(order, makerTokens) ==
    IF order.isBuy THEN Quotient(makerTokens, order.limitPrice.value) \div RatioUnit
    ELSE makerTokens

\* getAccountCollateralizationAfterMakingOrders up to the balance whose
\* collateralization it returns: every order is filled at its limits.  What the
\* loop adds up is exact, so that only the totals matter.
BalanceAfterMakingOrders(initialBalance, orders, makerTokenFillAmounts) ==
    LET delta(i) == GetBalanceUpdatesAfterFillingOrder(
                        FillAmount(orders[i], makerTokenFillAmounts[i]),
                        orders[i].limitPrice, orders[i].limitFee, orders[i].isBuy)
    IN  [margin |-> initialBalance.margin
                      + Total([i \in DOMAIN orders |-> delta(i).marginDelta]),
         position |-> initialBalance.position
                        + Total([i \in DOMAIN orders |-> delta(i).positionDelta])]

GetFeeForOrder(amount, isTaker) ==
    IF ~isTaker THEN MakerFee ELSE IF amount < SmallAmount THEN SmallFee ELSE TakerFee

-----------------------------------------------------------------------------
(* Hashes and signatures.  The domain is the network's P1Orders contract.   *)
GetOrderHash(order, network) ==
    [domain |-> network, kind |-> "Order", content |-> OrderToSolidity(order)]
OrderHashToCancelOrderHash(orderHash, network) ==
    [domain |-> network, kind |-> "CancelLimitOrder", content |-> orderHash]

SIGNATURE_TYPES == {"NO_PREPEND", "DECIMAL", "HEXADECIMAL"}
HashMethods == {"Hash", "UnsafeHash", "Compatibility"}
TypedDataMethods == {"TypedData", "MetaMask", "MetaMaskLatest", "CoinbaseWallet"}

\* eth.sign: the wallet decides what is signed.
EthSign(wallet, hash, signer) == [signer |-> signer, hash |-> hash, prepended |-> wallet]
CreateTypedSignature(rawSignature, sigType) ==
    [signer |-> rawSignature.signer, hash |-> rawSignature.hash,
     prepended |-> rawSignature.prepended, type |-> sigType]

\* An address that nobody has.
NoSigner == -1

\* The signer, or another address when the signature is of something else.
EcRecoverTypedSignature(hash, signature) ==
    IF signature.hash = hash /\ signature.prepended = signature.type THEN signature.signer
    ELSE NoSigner
HashHasValidSignature(hash, signature, expectedSigner) ==
    EcRecoverTypedSignature(hash, signature) = expectedSigner

\* signOrder and signCancelOrderByHash.  A typed-data method hashes in the wallet.
SignHash(wallet, hash, signer, signingMethod) ==
    LET hashSig == CreateTypedSignature(EthSign(wallet, hash, signer), "DECIMAL")
        unsafeHashSig == CreateTypedSignature(EthSign(wallet, hash, signer), "NO_PREPEND")
    IN  CASE signingMethod = "Hash" -> hashSig
          [] signingMethod = "UnsafeHash" -> unsafeHashSig
          [] signingMethod = "Compatibility" ->
                 IF HashHasValidSignature(hash, unsafeHashSig, signer) THEN unsafeHashSig
                 ELSE hashSig
          [] signingMethod \in TypedDataMethods ->
                 CreateTypedSignature(EthSign("NO_PREPEND", hash, signer), "NO_PREPEND")
=============================================================================
