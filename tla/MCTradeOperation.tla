-------------------------- MODULE MCTradeOperation --------------------------
(***************************************************************************)
(* Instances of TradeOperation for TLC: two networks, of which the second  *)
(* is a local one and lacks a contract; the options callers pass.          *)
(***************************************************************************)
EXTENDS TradeOperation, TLC

\* The addresses of the artifacts: one per market, or one for all of them.
MCDeployed == [name \in ContractNames |->
    CASE name = "perpetualProxy" -> <<"market", 1>> :> "pm1" @@ <<"any", 1>> :> "pa1"
                                        @@ <<"any", 1001>> :> "pa2"
      [] name = "perpetualV1" -> <<"any", 1>> :> "i1" @@ <<"any", 1001>> :> "i2"
      [] name = "weth" -> <<"any", 1>> :> "w1"
      [] OTHER -> <<"any", 1>> :> "x" @@ <<"any", 1001>> :> "x"]
MCAddresses == {"pm1", "pa1", "pa2", "i1", "i2", "w1", "x"}

Lower(a) == <<a, "lower">>
Mixed(a) == <<a, "mixed">>
MCFills == {<<Mixed(2), Lower(1)>>}
MCLiquidations == {<<Lower(3), Mixed(3)>>}

Typed(type) == [confirmationType |-> type]
CommitOptions == {NoOptions, Typed("Hash"), Typed("Simulate")}
WaitOptions == {NoOptions, Typed("Both"), [confirmations |-> 1, from |-> 1, value |-> 1, gas |-> 1]}
\* The first send is for operations, the second for anything.
MCCallsOf == <<{"commit"}, {"direct", "wrapper", "token", "wrap", "commit"}>>
MCOptionsOf == <<CommitOptions, WaitOptions>>
NoSendOptions == <<>>

OneWrapper == {Method("p1MakerOracle", "setRoute", 2)}
OneTokenCall == {<<Method("erc20", "transferFrom", 3), 2>>}
OneArg == <<[makerIndex |-> 0, takerIndex |-> 1]>>
DirectCalls == {<< <<Lower(1), Lower(2)>>, OneArg >>, << <<Lower(1), Mixed(2)>>, OneArg >>}
=============================================================================
