--------------------------- MODULE ClientMethods ---------------------------
(***************************************************************************)
(* The methods of the client's classes that send a transaction, as the     *)
(* contract function each one names, and the functions the contracts have. *)
(* web3 builds the functions of a handle from the artifact at run time, so *)
(* that nothing compares the two before a call is made.                    *)
(***************************************************************************)
EXTENDS Naturals

Method(contract, name, arity) == [contract |-> contract, name |-> name, arity |-> arity]

AdminMethods == {Method("perpetualV1", "setGlobalOperator", 2),
                 Method("perpetualV1", "setOracle", 1),
                 Method("perpetualV1", "setFunder", 1),
                 Method("perpetualV1", "setMinCollateral", 1),
                 Method("perpetualV1", "enableFinalSettlement", 2)}
MarginMethods == {Method("perpetualV1", "deposit", 2), Method("perpetualV1", "withdraw", 3)}
OperatorMethods == {Method("perpetualV1", "setLocalOperator", 2)}
FinalSettlementMethods == {Method("perpetualV1", "withdrawFinalSettlement", 0)}
ProxyMethods == {Method("perpetualV1", "initializeV1", 4),
                 Method("perpetualProxy", "changeAdmin", 1),
                 Method("perpetualProxy", "upgradeTo", 1),
                 Method("perpetualProxy", "upgradeToAndCall", 2)}
FundingOracleMethods(oracle) ==
    {Method(oracle, "setFundingRate", 1), Method(oracle, "setFundingRateProvider", 1)}
MakerPriceOracleMethods == {Method("p1MakerOracle", "setRoute", 2),
                            Method("p1MakerOracle", "setAdjustment", 2)}
LiquidatorProxyMethods == {Method("p1LiquidatorProxy", "approveMaximumOnPerpetual", 0),
                           Method("p1LiquidatorProxy", "liquidate", 4),
                           Method("p1LiquidatorProxy", "setInsuranceFund", 1),
                           Method("p1LiquidatorProxy", "setInsuranceFee", 1)}
OrdersMethods == {Method("p1Orders", "approveOrder", 1), Method("p1Orders", "cancelOrder", 1)}
RelayerMethods == {Method("makerOracle", "poke", 5),
                   Method("makerOracle", "lift", 1),
                   Method("makerOracle", "drop", 1),
                   Method("makerOracle", "setBar", 1),
                   Method("makerOracle", "kiss", 1),
                   Method("makerOracle", "diss", 1)}
(* Those of Token and Weth set an option of the transaction themselves. *)
TokenMethods == {Method("erc20", "approve", 2),
                 Method("erc20", "transfer", 2),
                 Method("erc20", "transferFrom", 3)}
WrapMethod == Method("weth", "deposit", 0)
UnwrapMethod == Method("weth", "withdraw", 1)
TradeMethod == Method("perpetualV1", "trade", 2)

Wrappers == UNION {AdminMethods, MarginMethods, OperatorMethods, FinalSettlementMethods,
    ProxyMethods, FundingOracleMethods("p1FundingOracle"),
    FundingOracleMethods("p1InverseFundingOracle"), MakerPriceOracleMethods,
    LiquidatorProxyMethods, OrdersMethods, RelayerMethods, {UnwrapMethod}}

-----------------------------------------------------------------------------
(* The external state-changing functions of the contracts: <<name, arity>>. *)
PerpetualV1Functions ==
    {<<"deposit", 2>>, <<"withdraw", 3>>, <<"trade", 2>>, <<"withdrawFinalSettlement", 0>>,
     <<"setLocalOperator", 2>>, <<"setGlobalOperator", 2>>, <<"setOracle", 1>>,
     <<"setFunder", 1>>, <<"setMinCollateral", 1>>, <<"enableFinalSettlement", 2>>,
     <<"initializeV1", 4>>}
PerpetualProxyFunctions == {<<"changeAdmin", 1>>, <<"upgradeTo", 1>>, <<"upgradeToAndCall", 2>>}
FundingOracleFunctions == {<<"setFundingRate", 1>>, <<"setFundingRateProvider", 1>>}
P1MakerOracleFunctions == {<<"setRoute", 2>>, <<"setAdjustment", 2>>}
P1OrdersFunctions == {<<"approveOrder", 1>>, <<"cancelOrder", 1>>, <<"trade", 6>>}
P1LiquidatorProxyFunctions ==
    {<<"approveMaximumOnPerpetual", 0>>, <<"liquidate", 4>>, <<"setInsuranceFund", 1>>,
     <<"setInsuranceFee", 1>>}
I_MakerOracleFunctions == {<<"poke", 5>>, <<"kiss", 1>>, <<"diss", 1>>}
TokenFunctions == {<<"approve", 2>>, <<"transfer", 2>>, <<"transferFrom", 3>>}
WethFunctions == TokenFunctions \cup {<<"deposit", 0>>, <<"withdraw", 1>>}

Functions(contract) ==
    CASE contract = "perpetualV1" -> PerpetualV1Functions
      [] contract = "perpetualProxy" -> PerpetualProxyFunctions
      [] contract \in {"p1FundingOracle", "p1InverseFundingOracle"} -> FundingOracleFunctions
      [] contract = "p1MakerOracle" -> P1MakerOracleFunctions
      [] contract = "p1Orders" -> P1OrdersFunctions
      [] contract = "p1LiquidatorProxy" -> P1LiquidatorProxyFunctions
      [] contract = "makerOracle" -> I_MakerOracleFunctions
      [] contract = "erc20" -> TokenFunctions
      [] contract = "weth" -> WethFunctions

HasFunction(method) == <<method.name, method.arity>> \in Functions(method.contract)
=============================================================================
