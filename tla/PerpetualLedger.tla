-------------------------- MODULE PerpetualLedger --------------------------
(***************************************************************************)
(* PerpetualV1 implements Ledger. The ledger shows what the last            *)
(* transaction that ended has left, so the calls of traders, and the        *)
(* trades of a call that reverts, are not seen in it.                       *)
(***************************************************************************)
EXTENDS PerpetualV1

CommittedBalances == IF status = Entered THEN call.saved.balances ELSE balances
CommittedIndexes == IF status = Entered THEN call.saved.localIndexes ELSE localIndexes

\* Closing replaces the index, as the value of a unit of position, by the price.
ClosingSpread == IF finalSettlementEnabled
                 THEN finalSettlementPrice - ToInt(SignedIndex(globalIndex)) ELSE 0

Books == INSTANCE Ledger WITH
    Unit <- BASE,
    held <- tokens,
    claims <- Claims(CommittedBalances, CommittedIndexes),
    positions <- Positions(CommittedBalances),
    closed <- finalSettlementEnabled,
    spread <- ClosingSpread

\* Whatever is called in whatever order: a transaction changes the claims of the
\* accounts it names, and only by the tokens that come and go or by what other
\* parties of the same call lose; funding and rounding create none; and after
\* final settlement was enabled nobody is left with a claim while there are
\* tokens to pay it.
ImplementsLedger == Books!Spec
=============================================================================
