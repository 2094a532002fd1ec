---------------------------- MODULE ClientTypes ----------------------------
(***************************************************************************)
(* The client's value types (src/src/lib/types.ts) and what it makes of    *)
(* the words in the contract's logs (src/src/modules/Logs.ts).             *)
(*                                                                         *)
(* A BigNumber is exact, but for quotients, which are rounded to           *)
(* RatioUnit-ths.  A BaseValue has a sign of its own, which zero keeps, and *)
(* may be finer than the contract's unit: it is counted in PARTS of it.    *)
(***************************************************************************)
EXTENDS P1BalanceMath, P1Index

CONSTANTS RatioUnit,     \* 10^20, when BASE is 10^18
          PARTS

ASSUME ClientTypesAssumption ==
    /\ RatioUnit \in Nat \ {0} /\ RatioUnit % BASE = 0
    /\ PARTS \in Nat \ {0}

BaseValue == [value : Nat, isNegative : BOOLEAN]

(* toFixed(0) rounds half up; the sign goes elsewhere. *)
ToSolidity(baseValue) == (2 * baseValue.value + PARTS) \div (2 * PARTS)

(* Balance.fromSolidity and BaseValue.fromSolidity. *)
BalanceFromSolidity(struct) ==
    [margin |-> Margin(struct), position |-> Position(struct)]
BaseValueFromSolidity(index) == ToInt(SignedIndex(index))

(* In units of 1/BASE token, like the values of the contract. *)
GetPositiveAndNegativeValues(balance, price) ==
    LET Part(value) == IF value > 0 THEN value ELSE 0
        marginValue == balance.margin * BASE
        positionValue == balance.position * price
    IN  [positiveValue |-> Part(marginValue) + Part(positionValue),
         negativeValue |-> Part(-marginValue) + Part(-positionValue)]

(* The quotient rounded half up, in units of 1/RatioUnit. *)
Quotient(a, b) == (2 * a * RatioUnit + b) \div (2 * b)

Infinity == -1     \* stands for a ratio that no number reaches

GetCollateralization(balance, price) ==
    LET values == GetPositiveAndNegativeValues(balance, price)
    IN  IF values.negativeValue = 0 THEN Infinity
        ELSE Quotient(values.positiveValue, values.negativeValue)

-----------------------------------------------------------------------------
(* The words that the contract logs: an unsigned field for each number and *)
(* a byte for each sign.                                                   *)
Byte == 256
Flag(isPositive) == IF isPositive THEN 1 ELSE 0
SignedField(width) == Byte * (width + 1)

BalanceToBytes32(balance) ==
    (Flag(balance.marginIsPositive) * (MAX_UINT120 + 1) + balance.margin)
        * SignedField(MAX_UINT120)
    + Flag(balance.positionIsPositive) * (MAX_UINT120 + 1) + balance.position

IndexToBytes32(index) ==
    index.timestamp * SignedField(MAX_UINT128)
    + Flag(index.isPositive) * (MAX_UINT128 + 1) + index.value

(* Logs.parseBalance and parseIndex take the digits apart. *)
ParseSigned(field, width) ==
    LET value == field % (width + 1)
    IN  IF field \div (width + 1) # 0 THEN value ELSE -value

ParseBalance(word) ==
    [margin |-> ParseSigned(word \div SignedField(MAX_UINT120), MAX_UINT120),
     position |-> ParseSigned(word % SignedField(MAX_UINT120), MAX_UINT120)]

ParseIndex(word) ==
    [timestamp |-> word \div SignedField(MAX_UINT128),
     baseValue |-> ParseSigned(word % SignedField(MAX_UINT128), MAX_UINT128)]
=============================================================================
