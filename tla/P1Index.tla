------------------------------ MODULE P1Index ------------------------------
(***************************************************************************)
(* The Index struct of v1/lib/P1Types.sol, a signed integer with the time   *)
(* it was set: the global and local funding indexes of PerpetualV1 and the  *)
(* funding rate of P1FundingOracle.                                         *)
(***************************************************************************)
EXTENDS SignedMath

CONSTANTS MAX_UINT32,       \* largest uint32, the width of a timestamp
          MAX_UINT128       \* largest uint128, the width of an index value

ASSUME IndexWidthAssumption == MAX_UINT32 \in Nat /\ MAX_UINT128 \in Nat

\* P1Types.Index
Index == [timestamp : Nat, isPositive : BOOLEAN, value : Nat]

ZeroIndex == [timestamp |-> 0, isPositive |-> FALSE, value |-> 0]

SignedIndex(index) == [value |-> index.value, isPositive |-> index.isPositive]

\* toUint32 and toUint128: storing an index that does not fit reverts.
FitsIndex(index) ==
    index.timestamp <= MAX_UINT32 /\ index.value <= MAX_UINT128
=============================================================================
