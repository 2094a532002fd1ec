--------------------------- MODULE MCP1Liquidation ---------------------------
(***************************************************************************)
(* Instances of P1Liquidation for TLC.                                      *)
(***************************************************************************)
EXTENDS P1Liquidation

CONSTANTS o1, f1, t1, t2

NoFunding == {[value |-> 0, isPositive |-> FALSE]}
=============================================================================
