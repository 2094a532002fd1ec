---------------------------- MODULE MCPerpetualV1 ----------------------------
(***************************************************************************)
(* Instances of PerpetualV1 for TLC. The .cfg files choose the sets; the    *)
(* funding rates, which are records, are defined here.                      *)
(***************************************************************************)
EXTENDS PerpetualLedger

Rate0   == [value |-> 0, isPositive |-> FALSE]
RateUp  == [value |-> 1, isPositive |-> TRUE]
RateDown == [value |-> 1, isPositive |-> FALSE]

NoFunding    == {Rate0}
EitherPays   == {RateUp, RateDown}

CONSTANTS o1, o2, f1, f2, t1, t2

\* A market in operation: its operators are never removed, nothing is donated,
\* and funding changes with the funder.
MarketNext ==
    \/ MarginStep \/ TradeCallStep
    \/ \E operator \in Operator : SetGlobalOperator(operator, TRUE)
    \/ \E newFunder \in Funder : SetFunder(newFunder)
    \/ Tick
=============================================================================
