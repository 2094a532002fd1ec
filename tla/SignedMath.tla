----------------------------- MODULE SignedMath -----------------------------
(***************************************************************************)
(* lib/SignedMath.sol: signed integers as a magnitude and a sign.           *)
(* The libraries compute in uint256; products and sums of the magnitudes    *)
(* the contract stores (at most 2^128) stay far below 2^256, so the overflow*)
(* check of SafeMath is left out here and the narrowing casts (toUint120,   *)
(* toUint128) are guards of the modules that use these operators.           *)
(***************************************************************************)
EXTENDS Integers

\* SignedMath.Int
SignedInt == [value : Nat, isPositive : BOOLEAN]

\* The integer a pair stands for.
ToInt(sint) == IF sint.isPositive THEN sint.value ELSE -sint.value

\* Of the two representations of zero, the code only ever stores the
\* negative one: the result of Add and Sub is canonical when sint is.
Canonical(sint) == sint.value = 0 => ~sint.isPositive

Add(sint, value) ==
    IF sint.isPositive
    THEN [value |-> value + sint.value, isPositive |-> TRUE]
    ELSE IF sint.value < value
    THEN [value |-> value - sint.value, isPositive |-> TRUE]
    ELSE [value |-> sint.value - value, isPositive |-> FALSE]

\* Mutation of Sub: a zero difference is left positive.
SubPositiveZero(sint, value) ==
    IF ~sint.isPositive
    THEN [value |-> value + sint.value, isPositive |-> FALSE]
    ELSE IF sint.value >= value
    THEN [value |-> sint.value - value, isPositive |-> TRUE]
    ELSE [value |-> value - sint.value, isPositive |-> FALSE]

Sub(sint, value) ==
    IF ~sint.isPositive
    THEN [value |-> value + sint.value, isPositive |-> FALSE]
    ELSE IF sint.value > value
    THEN [value |-> sint.value - value, isPositive |-> TRUE]
    ELSE [value |-> value - sint.value, isPositive |-> FALSE]

SignedAdd(augend, addend) ==
    IF addend.isPositive THEN Add(augend, addend.value)
                         ELSE Sub(augend, addend.value)

SignedSub(minuend, subtrahend) ==
    IF subtrahend.isPositive THEN Sub(minuend, subtrahend.value)
                             ELSE Add(minuend, subtrahend.value)

Gt(a, b) ==
    \/ a.isPositive /\ b.isPositive /\ a.value > b.value
    \/ a.isPositive /\ ~b.isPositive /\ (a.value # 0 \/ b.value # 0)
    \/ ~a.isPositive /\ ~b.isPositive /\ a.value < b.value

SignedMin(a, b) == IF Gt(b, a) THEN a ELSE b
SignedMax(a, b) == IF Gt(a, b) THEN a ELSE b
=============================================================================
