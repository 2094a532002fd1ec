------------------------------- MODULE Totals -------------------------------
(***************************************************************************)
(* Totals over the accounts of the contract, defined by counting, so that   *)
(* the proofs can reason about them (a fold would need an induction).       *)
(* The contract itself never computes such a total: these operators only    *)
(* serve to state its conservation properties.                              *)
(***************************************************************************)
EXTENDS Integers, FiniteSets

\* One pair <<x, 1>>, ..., <<x, f[x]>> per unit of f[x].
Units(f) == UNION { {x} \X (1..f[x]) : x \in DOMAIN f }

\* The function that gives every account the opposite value.
Negated(f) == [x \in DOMAIN f |-> -f[x]]

\* What is owned in total, and what is owed in total.
PositiveTotal(f) == Cardinality(Units(f))
NegativeTotal(f) == PositiveTotal(Negated(f))

\* The sum of f[x] over its domain, for an f with integer values.
Total(f) == PositiveTotal(f) - NegativeTotal(f)
=============================================================================
