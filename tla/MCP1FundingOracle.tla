------------------------- MODULE MCP1FundingOracle -------------------------
(***************************************************************************)
(* Instances of P1FundingOracle for TLC: the rates asked for reach beyond   *)
(* the bounds and include both zeros.                                       *)
(***************************************************************************)
EXTENDS P1FundingOracle

CONSTANTS p1, p2

AskedRates == [value : {0, 1, MAX_ABS_VALUE + 1}, isPositive : BOOLEAN]
=============================================================================
