----------------------------- MODULE MCGetters -----------------------------
(***************************************************************************)
(* A market in operation, as in MCPerpetualV1, read by the client.         *)
(***************************************************************************)
EXTENDS MCPerpetualV1, Getters

ReadsNext == (MarketNext /\ UNCHANGED readerVars) \/ ReaderStep
ReadsSpec == GettersInit /\ [][ReadsNext]_gettersVars
=============================================================================
