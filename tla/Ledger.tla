------------------------------- MODULE Ledger -------------------------------
(***************************************************************************)
(* What PerpetualV1 promises those who hold accounts in it, without prices, *)
(* funding, collateral or permissions: a ledger of claims on the tokens it  *)
(* holds. The claim of an account is what its margin and the funding it has *)
(* not settled yet amount to, in units of 1/Unit token. Time, the market    *)
(* and the admin move no claim; every call of trade() is one step, however  *)
(* many trades it makes; and what a call loses is bounded by the rounding   *)
(* of the accounts it settles.                                              *)
(***************************************************************************)
EXTENDS Totals

CONSTANTS Account,      \* the holders
          Unit          \* fractions of a token that claims are counted in

VARIABLES held,         \* tokens
          claims,       \* of each account
          positions,    \* of each account
          closed,       \* whether every position is closed at one price,
          spread        \* and what a unit of position then adds to a claim

ledgerVars == <<held, claims, positions, closed, spread>>

\* What an account is owed.
Owed(account) == claims[account] + spread * positions[account]

\* What the account loses when it is not what it takes out or brings in.
Loss(account) == Owed(account) - Owed(account)' - Unit * (held - held')

\* Settling an account once loses less than one unit.
Rounding == 0..(Unit - 1)
MostLost(parties) ==
    Total([account \in Account |-> IF account \in parties THEN Unit - 1 ELSE 0])

OnlyChanges(parties) ==
    \A account \in Account \ parties : claims'[account] = claims[account]
                                       /\ positions'[account] = positions[account]

Init ==
    /\ held = 0 /\ spread = 0 /\ closed = FALSE
    /\ claims = [account \in Account |-> 0] /\ positions = [account \in Account |-> 0]

Deposit(account) ==
    /\ ~closed
    /\ OnlyChanges({account})
    /\ held' >= held /\ Loss(account) \in Rounding
    /\ UNCHANGED <<positions, closed, spread>>

\* Withdrawn to the contract itself, a claim is given up.
Withdraw(account) ==
    /\ ~closed
    /\ OnlyChanges({account})
    /\ held' \in 0..held
    /\ Loss(account) \in Rounding \/ (held' = held /\ Loss(account) >= 0)
    /\ UNCHANGED <<positions, closed, spread>>

\* The parties exchange claims and positions, and only among them.
Trade(parties) ==
    /\ ~closed
    /\ OnlyChanges(parties)
    /\ Total(positions') = Total(positions)
    /\ Total(claims) - Total(claims') \in 0..MostLost(parties)
    /\ UNCHANGED <<held, closed, spread>>

\* Positions that cancel out are closed at any price without a token.
Close ==
    /\ ~closed /\ Total(positions) = 0
    /\ closed' = TRUE /\ spread' \in Int
    /\ UNCHANGED <<held, claims, positions>>

\* An account in debt stays as it is. Another is closed and paid, in full as
\* long as there are tokens: it keeps a claim only when none are left.
Payout(account) ==
    /\ closed
    /\ OnlyChanges({account})
    /\ \/ /\ Owed(account)' < 0 /\ Loss(account) \in Rounding
          /\ UNCHANGED <<held, positions>>
       \/ /\ held' \in 0..held
          /\ positions'[account] = 0 /\ Owed(account)' >= 0
          /\ Owed(account)' > 0 => held' = 0
          /\ Loss(account) \in 0..(2 * (Unit - 1))
    /\ UNCHANGED <<closed, spread>>

\* Tokens sent to the contract without a deposit are nobody's.
Donate == held' >= held /\ UNCHANGED <<claims, positions, closed, spread>>

Next ==
    \/ \E account \in Account : Deposit(account) \/ Withdraw(account) \/ Payout(account)
    \/ \E parties \in SUBSET Account : Trade(parties)
    \/ Close \/ Donate

Spec == Init /\ [][Next]_ledgerVars
=============================================================================
