-------------------------- MODULE MCFundingOracle --------------------------
(***************************************************************************)
(* Instances of FundingOracle for TLC: rates of half a unit, of both zeros, *)
(* and beyond the bounds.                                                   *)
(***************************************************************************)
EXTENDS MCP1FundingOracle, FundingOracle, TLC

ClientRates == [value : {0, PARTS + PARTS \div 2, (MAX_ABS_VALUE + 1) * PARTS},
                isNegative : BOOLEAN]

\* The two providers are interchangeable.
ProviderSymmetry == Permutations(Provider)
=============================================================================
