--------------------------- MODULE FundingOracle ---------------------------
(***************************************************************************)
(* The client's FundingOracle and InverseFundingOracle classes              *)
(* (src/src/modules/FundingOracle.ts, InverseFundingOracle.ts) on the       *)
(* P1FundingOracle contract: a provider simulates setFundingRate() by a     *)
(* call, and sends it later, in another block.                              *)
(***************************************************************************)
EXTENDS P1FundingOracle, ClientTypes

CONSTANT ClientRate     \* the rates that callers pass, some finer than the contract's

ASSUME ClientRateAssumption == ClientRate \subseteq BaseValue

VARIABLES simulation,   \* a rate asked for, and what the contract would make of it
          outdated      \* history: whether the rate was set since then

clientVars == <<simulation, outdated>>
allVars == <<vars, clientVars>>

NoSimulation == [asked |-> "none"]

\* Zero keeps its sign: minus zero is not positive.
ToSoliditySignedInt(rate) == [value |-> ToSolidity(rate), isPositive |-> ~rate.isNegative]
FromSolidity(struct) == [value |-> struct.value * PARTS, isNegative |-> ~struct.isPositive]

\* Mutation of ClientFunding: the sign is left as it is charged.
FundingAsCharged(timeDelta) == GetFunding(timeDelta)

\* The inverse market flips the sign back.
ClientFunding(timeDelta) == IF InverseMarket THEN -GetFunding(timeDelta) ELSE GetFunding(timeDelta)

\* The rate per second, and the one that a log reports.
GetFundingRate == ClientFunding(1)
ParseFundingRate(word) == ParseIndex(word)

-----------------------------------------------------------------------------
\* Only a call from the provider succeeds.
GetBoundedFundingRate(sender, rate) ==
    /\ sender = fundingRateProvider
    /\ simulation' = [asked |-> rate, result |-> FromSolidity(BoundRate(ToSoliditySignedInt(rate)))]
    /\ outdated' = FALSE
    /\ UNCHANGED vars

ClientSetFundingRate(sender, rate) ==
    /\ SetFundingRate(sender, ToSoliditySignedInt(rate))
    /\ simulation' = NoSimulation
    /\ outdated' = FALSE

Simulated == simulation # NoSimulation

\* The caller sends what the simulation returned, or what it had asked for.
SetSimulatedRate(sender) == Simulated /\ ClientSetFundingRate(sender, simulation.result)
SetAskedRate(sender) == Simulated /\ ClientSetFundingRate(sender, simulation.asked)

\* The contract is used by others, and time passes.
OthersStep ==
    /\ Next
    /\ outdated' = (outdated \/ (Simulated /\ fundingRate' # fundingRate))
    /\ UNCHANGED simulation

ClientInit == Init /\ simulation = NoSimulation /\ outdated = FALSE

ClientNext ==
    \/ \E sender \in Provider : \/ \E rate \in ClientRate : GetBoundedFundingRate(sender, rate)
                                \/ SetSimulatedRate(sender) \/ SetAskedRate(sender)
    \/ OthersStep

ClientSpec == ClientInit /\ [][ClientNext]_allVars

-----------------------------------------------------------------------------
IntOf(struct) == ToInt(ToSoliditySignedInt(struct))

\* However long the provider waits, and whichever oracle it is: as long as nobody
\* else set the rate, sending the result of the simulation sets exactly that rate,
\* sending the rate asked for sets one that is no further from it, and the client
\* reads what was set from the contract and from its log.
SimulationsHold ==
    [][~outdated => \A sender \in Provider :
          /\ SetSimulatedRate(sender) => GetFundingRate' = IntOf(simulation.result)
          /\ SetAskedRate(sender) =>
                 LET asked == IntOf(simulation.asked)
                 IN  Miss(GetFundingRate', asked) <= Miss(IntOf(simulation.result), asked)
          /\ SetSimulatedRate(sender) \/ SetAskedRate(sender) =>
                 ParseFundingRate(IndexToBytes32(fundingRate')) =
                     [timestamp |-> now, baseValue |-> GetFundingRate']
      ]_allVars
=============================================================================
