---------------------------- MODULE ProxyLedger ----------------------------
(***************************************************************************)
(* PerpetualV1 with its liquidator proxy implements Ledger too. Of the four *)
(* calls of a liquidate() the ledger sees one exchange between at most      *)
(* three parties, the liquidator, the liquidated account and the insurance  *)
(* fund, by which no tokens come or go; of one that reverts, nothing.       *)
(***************************************************************************)
EXTENDS P1LiquidatorProxy, PerpetualLedger

LeftBalances == IF Idle THEN CommittedBalances ELSE frame.saved.balances
LeftIndexes  == IF Idle THEN CommittedIndexes ELSE frame.saved.localIndexes

ProxyBooks == INSTANCE Ledger WITH
    Unit <- BASE,
    held <- IF Idle THEN tokens ELSE frame.saved.tokens,
    claims <- Claims(LeftBalances, LeftIndexes),
    positions <- Positions(LeftBalances),
    closed <- finalSettlementEnabled,
    spread <- ClosingSpread

\* A liquidation through the proxy is all or nothing, whichever of its four calls
\* fails: it leaves everyone else's account as it is, the fee that one account pays is
\* what another receives, and together the parties lose no more than the rounding of
\* settling each of them once.
ProxyImplementsLedger == ProxyBooks!Spec
=============================================================================
