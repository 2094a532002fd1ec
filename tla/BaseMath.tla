------------------------------ MODULE BaseMath ------------------------------
(***************************************************************************)
(* lib/BaseMath.sol and the rounding helpers of lib/Math.sol: fixed-point   *)
(* arithmetic, BASE standing for the number one (10^18 in the contracts).   *)
(***************************************************************************)
EXTENDS Integers

CONSTANT BASE

ASSUME BaseAssumption == BASE \in Nat \ {0}

\* value * baseValue / BASE, rounded down.
BaseMul(value, baseValue) == (value * baseValue) \div BASE

\* The same, rounded up.
BaseMulRoundUp(value, baseValue) ==
    IF value = 0 \/ baseValue = 0
    THEN 0
    ELSE (value * baseValue - 1) \div BASE + 1

\* Divides first: exact when value is a multiple of BASE.
BaseDivMul(value, baseValue) == (value \div BASE) * baseValue

BaseDiv(value, baseValue) == (value * BASE) \div baseValue
=============================================================================
