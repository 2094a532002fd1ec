------------------------------- MODULE MCApi -------------------------------
(***************************************************************************)
(* An instance of Api for TLC: placements that can be repeated and one that *)
(* cannot, of a maker whose wallet adds the prefix and one whose does not.  *)
(***************************************************************************)
EXTENDS Api

Fee(n, isNegative) == [value |-> n, isNegative |-> isNegative]

\* A post-only order with a salt and no expiration.
Plain == [side |-> "BUY", amount |-> 1, price |-> Fee(2, FALSE), maker |-> 1, taker |-> 0,
          lifetime |-> 0, limitFee |-> NoFee, salt |-> 5, postOnly |-> TRUE,
          market |-> "PBTC-USDC"]

\* One with nothing but the defaults, of the other maker.
Default == [Plain EXCEPT !.maker = 2, !.lifetime = 2, !.salt = NoSalt, !.postOnly = FALSE]

\* A fee of minus zero, and a market there is not.
MinusZero == [Plain EXCEPT !.side = "SELL", !.limitFee = Fee(0, TRUE)]
NoMarket == [Plain EXCEPT !.market = "none"]

MCPlacements == {Plain, Default, MinusZero, NoMarket}
MCCallsOf == <<{"place"}, {"place", "submit"}, {"submit", "cancel"}>>
MCWallet == <<"DECIMAL", "NO_PREPEND">>
MCMakerFee == Fee(1, TRUE)
MCSmallFee == Fee(4, FALSE)
MCTakerFee == Fee(2, FALSE)
=============================================================================
