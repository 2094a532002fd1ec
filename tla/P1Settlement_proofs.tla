------------------------ MODULE P1Settlement_proofs ------------------------
(***************************************************************************)
(* What settlement computes, for all values, with what it is computed from: *)
(* pairs of magnitude and sign behave as the integers they stand for; the   *)
(* fixed-point products bracket the exact product; a balance is split into  *)
(* its positive and its negative value; settling an account never increases *)
(* its claim. And what the proofs about the contract need to know of        *)
(* totals: how they change with one account, that they are monotone, and    *)
(* that they are linear.                                                    *)
(***************************************************************************)
EXTENDS P1Settlement, Totals, FiniteSetTheorems, TLAPS

-----------------------------------------------------------------------------
(* SignedMath                                                               *)

\* Add computes the sum of the integers (SignedMath.add).
THEOREM AddCorrect ==
  ASSUME NEW s \in SignedInt, NEW v \in Nat
  PROVE  /\ Add(s, v) \in SignedInt
         /\ ToInt(Add(s, v)) = ToInt(s) + v
         /\ Canonical(s) => Canonical(Add(s, v))
BY DEF Add, SignedInt, ToInt, Canonical

\* Sub computes the difference, and a zero difference is canonical (SignedMath.sub).
THEOREM SubCorrect ==
  ASSUME NEW s \in SignedInt, NEW v \in Nat
  PROVE  /\ Sub(s, v) \in SignedInt
         /\ ToInt(Sub(s, v)) = ToInt(s) - v
         /\ Canonical(Sub(s, v))
BY DEF Sub, SignedInt, ToInt, Canonical

\* The same for a signed second operand (signedAdd, signedSub).
THEOREM SignedAddSubCorrect ==
  ASSUME NEW s \in SignedInt, NEW t \in SignedInt
  PROVE  /\ SignedAdd(s, t) \in SignedInt
         /\ ToInt(SignedAdd(s, t)) = ToInt(s) + ToInt(t)
         /\ SignedSub(s, t) \in SignedInt
         /\ ToInt(SignedSub(s, t)) = ToInt(s) - ToInt(t)
<1>1. t.value \in Nat /\ t.isPositive \in BOOLEAN
  BY DEF SignedInt
<1>2. /\ Add(s, t.value) \in SignedInt /\ Sub(s, t.value) \in SignedInt
      /\ ToInt(Add(s, t.value)) = ToInt(s) + t.value
      /\ ToInt(Sub(s, t.value)) = ToInt(s) - t.value
  BY <1>1, AddCorrect, SubCorrect
<1>3. ToInt(s) \in Int
  BY DEF SignedInt, ToInt
<1>4. CASE t.isPositive
  <2>1. SignedAdd(s, t) = Add(s, t.value) /\ SignedSub(s, t) = Sub(s, t.value)
    BY <1>4 DEF SignedAdd, SignedSub
  <2>2. ToInt(t) = t.value
    BY <1>4 DEF ToInt
  <2> QED BY <1>2, <2>1, <2>2
<1>5. CASE ~t.isPositive
  <2>1. SignedAdd(s, t) = Sub(s, t.value) /\ SignedSub(s, t) = Add(s, t.value)
    BY <1>5 DEF SignedAdd, SignedSub
  <2>2. ToInt(t) = -t.value
    BY <1>5 DEF ToInt
  <2> QED BY <1>1, <1>2, <1>3, <2>1, <2>2
<1> QED
  BY <1>4, <1>5

\* Gt compares the integers, whatever the sign of a zero (SignedMath.gt).
THEOREM GtCorrect ==
  ASSUME NEW s \in SignedInt, NEW t \in SignedInt
  PROVE  Gt(s, t) <=> ToInt(s) > ToInt(t)
BY DEF Gt, SignedInt, ToInt

\* Of two pairs that stand for the same integer either may be returned, so only
\* the integers are compared (SignedMath.min, SignedMath.max).
THEOREM MinMaxCorrect ==
  ASSUME NEW s \in SignedInt, NEW t \in SignedInt
  PROVE  /\ SignedMin(s, t) \in {s, t} /\ SignedMax(s, t) \in {s, t}
         /\ ToInt(SignedMin(s, t)) <= ToInt(s) /\ ToInt(SignedMin(s, t)) <= ToInt(t)
         /\ ToInt(SignedMax(s, t)) >= ToInt(s) /\ ToInt(SignedMax(s, t)) >= ToInt(t)
<1>1. ToInt(s) \in Int /\ ToInt(t) \in Int
  BY DEF SignedInt, ToInt
<1>2. (Gt(s, t) <=> ToInt(s) > ToInt(t)) /\ (Gt(t, s) <=> ToInt(t) > ToInt(s))
  BY GtCorrect
<1> QED
  BY <1>1, <1>2 DEF SignedMin, SignedMax

-----------------------------------------------------------------------------
(* Totals                                                                   *)

\* There is one unit per unit of a positive value, and none of a negative one.
LEMMA UnitsOfOne ==
  ASSUME NEW n \in Int, NEW x
  PROVE  /\ IsFiniteSet({x} \X (1..n))
         /\ Cardinality({x} \X (1..n)) = IF n > 0 THEN n ELSE 0
<1>1. IsFiniteSet({x}) /\ Cardinality({x}) = 1
  BY FS_Singleton
<1>2. IsFiniteSet(1..n) /\ Cardinality(1..n) = IF 1 > n THEN 0 ELSE n - 1 + 1
  BY FS_Interval
<1>3. /\ IsFiniteSet({x} \X (1..n))
      /\ Cardinality({x} \X (1..n)) = Cardinality({x}) * Cardinality(1..n)
  BY <1>1, <1>2, FS_Product
<1> QED
  BY <1>1, <1>2, <1>3

\* The units of finitely many accounts are finitely many.
LEMMA UnitsFinite ==
  ASSUME NEW S, IsFiniteSet(S), NEW f \in [S -> Int]
  PROVE  IsFiniteSet(Units(f)) /\ Cardinality(Units(f)) \in Nat
<1> DEFINE U(x) == {x} \X (1..f[x])
<1>1. IsFiniteSet({U(x) : x \in S})
  <2> DEFINE g == [x \in S |-> U(x)]
  <2>1. g \in Surjection(S, {U(x) : x \in S})
    BY DEF Surjection
  <2> QED BY <2>1, FS_Surjection
<1>2. \A s \in {U(x) : x \in S} : IsFiniteSet(s)
  BY UnitsOfOne
<1>3. IsFiniteSet(UNION {U(x) : x \in S})
  BY <1>1, <1>2, FS_UNION
<1> QED
  BY <1>3, FS_CardinalityType DEF Units

\* Changing the value of one account replaces its units and no others.
LEMMA UnitsUpdate ==
  ASSUME NEW S, IsFiniteSet(S), NEW f \in [S -> Int],
         NEW a \in S, NEW v \in Int
  PROVE  PositiveTotal([f EXCEPT ![a] = v])
         = PositiveTotal(f) - (IF f[a] > 0 THEN f[a] ELSE 0)
                            + (IF v > 0 THEN v ELSE 0)
<1> DEFINE g == [f EXCEPT ![a] = v]
           old == {a} \X (1..f[a])
           new == {a} \X (1..v)
           rest == Units(f) \ old
<1>1. g \in [S -> Int] /\ IsFiniteSet(Units(f)) /\ IsFiniteSet(Units(g))
  BY UnitsFinite
<1>2. old \subseteq Units(f)
  BY DEF Units
<1>3. Units(g) = rest \cup new /\ rest \cap new = {}
  BY DEF Units
<1>4. /\ IsFiniteSet(rest)
      /\ Cardinality(rest) = Cardinality(Units(f)) - Cardinality(Units(f) \cap old)
  BY <1>1, FS_Difference
<1>5. Cardinality(Units(f) \cap old) = Cardinality(old)
  <2>1. Units(f) \cap old = old
    BY <1>2
  <2> QED BY <2>1
<1>6. /\ IsFiniteSet(new) /\ IsFiniteSet(old)
      /\ Cardinality(old) = IF f[a] > 0 THEN f[a] ELSE 0
      /\ Cardinality(new) = IF v > 0 THEN v ELSE 0
  BY UnitsOfOne
<1>7. /\ Cardinality(rest) \in Nat /\ Cardinality(Units(f)) \in Nat
      /\ Cardinality(old) \in Nat /\ Cardinality(new) \in Nat
  BY <1>1, <1>4, <1>6, FS_CardinalityType
<1>8. Cardinality(Units(g)) = Cardinality(rest) + Cardinality(new)
  <2>1. Cardinality(rest \cup new)
         = Cardinality(rest) + Cardinality(new) - Cardinality(rest \cap new)
    BY <1>4, <1>6, FS_Union
  <2>2. Cardinality(rest \cap new) = 0
    BY <1>3, FS_EmptySet
  <2>3. Cardinality(Units(g)) = Cardinality(rest \cup new)
    BY <1>3
  <2> HIDE DEF g, rest, new
  <2> QED BY <1>7, <2>1, <2>2, <2>3
<1>9. Cardinality(Units(g))
        = Cardinality(Units(f)) - Cardinality(old) + Cardinality(new)
  <2> HIDE DEF g, rest, old, new
  <2> QED BY <1>4, <1>5, <1>7, <1>8
<1>10. PositiveTotal(g) = Cardinality(Units(g)) /\ PositiveTotal(f) = Cardinality(Units(f))
  BY DEF PositiveTotal
<1>11. PositiveTotal(g) = PositiveTotal(f) - (IF f[a] > 0 THEN f[a] ELSE 0)
                                           + (IF v > 0 THEN v ELSE 0)
  <2> HIDE DEF g, old, new
  <2> QED BY <1>6, <1>9, <1>10
<1> QED
  BY <1>11

\* Negated gives every account the opposite integer.
LEMMA NegatedType ==
  ASSUME NEW S, NEW f \in [S -> Int]
  PROVE  Negated(f) \in [S -> Int] /\ \A x \in S : Negated(f)[x] = -f[x]
BY DEF Negated

\* Changing the value of one account moves the total by the difference.
THEOREM TotalUpdate ==
  ASSUME NEW S, IsFiniteSet(S), NEW f \in [S -> Int],
         NEW a \in S, NEW v \in Int
  PROVE  Total([f EXCEPT ![a] = v]) = Total(f) - f[a] + v
<1> DEFINE g == [f EXCEPT ![a] = v]
<1>1. /\ Negated(f) \in [S -> Int]
      /\ Negated(f)[a] = -f[a]
      /\ -v \in Int /\ f[a] \in Int
  BY NegatedType
<1>2. Negated(g) = [Negated(f) EXCEPT ![a] = -v]
  BY DEF Negated
<1>3. PositiveTotal(g) = PositiveTotal(f) - (IF f[a] > 0 THEN f[a] ELSE 0)
                                          + (IF v > 0 THEN v ELSE 0)
  BY UnitsUpdate
<1>4. PositiveTotal(Negated(g))
        = PositiveTotal(Negated(f)) - (IF -f[a] > 0 THEN -f[a] ELSE 0)
                                    + (IF -v > 0 THEN -v ELSE 0)
  <2>1. PositiveTotal([Negated(f) EXCEPT ![a] = -v])
        = PositiveTotal(Negated(f)) 
            - (IF Negated(f)[a] > 0 THEN Negated(f)[a] ELSE 0)
            + (IF -v > 0 THEN -v ELSE 0)
    BY <1>1, UnitsUpdate
  <2> QED BY <1>1, <1>2, <2>1
<1>5. /\ PositiveTotal(f) \in Nat
      /\ PositiveTotal(Negated(f)) \in Nat
  BY <1>1, UnitsFinite DEF PositiveTotal
<1>6. Total(g) = Total(f) - f[a] + v
  <2> HIDE DEF g
  <2> QED BY <1>1, <1>3, <1>4, <1>5 DEF Total, NegativeTotal
<1> QED
  BY <1>6

\* The total is an integer.
THEOREM TotalType ==
  ASSUME NEW S, IsFiniteSet(S), NEW f \in [S -> Int]
  PROVE  Total(f) \in Int
<1>1. /\ Cardinality(Units(f)) \in Nat
      /\ Cardinality(Units(Negated(f))) \in Nat
  BY NegatedType, UnitsFinite
<1> QED
  BY <1>1 DEF Total, PositiveTotal, NegativeTotal

\* The total is 0 when every account holds 0.
THEOREM TotalZero ==
  ASSUME NEW S, NEW f \in [S -> {0}]
  PROVE  Total(f) = 0
<1>1. Units(f) = {} /\ Units(Negated(f)) = {}
  BY DEF Units, Negated
<1> QED
  BY <1>1, FS_EmptySet DEF Total, PositiveTotal, NegativeTotal

\* Larger values have at least as many units.
LEMMA UnitsMonotone ==
  ASSUME NEW S, IsFiniteSet(S), NEW f \in [S -> Int], NEW g \in [S -> Int],
         \A x \in S : f[x] <= g[x]
  PROVE  PositiveTotal(f) <= PositiveTotal(g)
<1>1. Units(f) \subseteq Units(g)
  BY DEF Units
<1>2. IsFiniteSet(Units(g))
  BY UnitsFinite
<1> QED
  BY <1>1, <1>2, FS_Subset DEF PositiveTotal

\* If no account holds more in f than in g, neither do all of them together.
THEOREM TotalMonotone ==
  ASSUME NEW S, IsFiniteSet(S), NEW f \in [S -> Int], NEW g \in [S -> Int],
         \A x \in S : f[x] <= g[x]
  PROVE  Total(f) <= Total(g)
<1>1. /\ Negated(f) \in [S -> Int] /\ Negated(g) \in [S -> Int]
      /\ \A x \in S : Negated(g)[x] <= Negated(f)[x]
  BY NegatedType
<1>2. PositiveTotal(f) <= PositiveTotal(g)
  BY UnitsMonotone
<1>3. PositiveTotal(Negated(g)) <= PositiveTotal(Negated(f))
  BY <1>1, UnitsMonotone
<1>4. /\ PositiveTotal(f) \in Nat /\ PositiveTotal(g) \in Nat
      /\ PositiveTotal(Negated(f)) \in Nat /\ PositiveTotal(Negated(g)) \in Nat
  BY <1>1, UnitsFinite DEF PositiveTotal
<1> QED
  BY <1>2, <1>3, <1>4 DEF Total, NegativeTotal

\* If no account but those of T holds anything, and none of them more than b, all
\* together hold at most b times their number.
LEMMA TotalBounded ==
  ASSUME NEW S, IsFiniteSet(S), NEW f \in [S -> Int], NEW T \in SUBSET S, NEW b \in Nat,
         \A x \in T : f[x] <= b,
         \A x \in S \ T : f[x] <= 0
  PROVE  Total(f) <= b * Cardinality(T)
<1>1. IsFiniteSet(T) /\ Cardinality(T) \in Nat
  BY FS_Subset, FS_CardinalityType
<1>2. IsFiniteSet(1..b) /\ Cardinality(1..b) = b
  <2>1. IsFiniteSet(1..b) /\ Cardinality(1..b) = IF 1 > b THEN 0 ELSE b - 1 + 1
    BY FS_Interval
  <2> QED BY <2>1
<1>3. IsFiniteSet(T \X (1..b)) /\ Cardinality(T \X (1..b)) = Cardinality(T) * b
  BY <1>1, <1>2, FS_Product
<1>4. Units(f) \subseteq T \X (1..b)
  <2> SUFFICES ASSUME NEW x \in S, NEW n \in 1..f[x] PROVE x \in T /\ n \in 1..b
    BY DEF Units
  <2>1. n \in Int /\ 1 <= n /\ n <= f[x] /\ f[x] \in Int
    OBVIOUS
  <2>2. x \in T
    BY <2>1
  <2>3. f[x] <= b
    BY <2>2
  <2> QED BY <2>1, <2>2, <2>3
<1>5. PositiveTotal(f) <= Cardinality(T) * b
  BY <1>3, <1>4, FS_Subset DEF PositiveTotal
<1>6. PositiveTotal(f) \in Nat /\ NegativeTotal(f) \in Nat
  BY NegatedType, UnitsFinite DEF PositiveTotal, NegativeTotal
<1>7. Cardinality(T) * b = b * Cardinality(T) /\ Cardinality(T) * b \in Nat
  BY <1>1
<1> QED
  BY <1>5, <1>6, <1>7 DEF Total

\* The opposite values have the opposite total.
LEMMA TotalNegated ==
  ASSUME NEW S, IsFiniteSet(S), NEW f \in [S -> Int]
  PROVE  Total(Negated(f)) = -Total(f)
<1>1. Negated(f) \in [S -> Int] /\ Negated(Negated(f)) = f
  BY DEF Negated
<1>2. PositiveTotal(f) \in Nat /\ PositiveTotal(Negated(f)) \in Nat
  BY <1>1, UnitsFinite DEF PositiveTotal
<1> QED
  BY <1>1, <1>2 DEF Total, NegativeTotal

\* Every account with 1 adds one.
LEMMA TotalOfOnes ==
  ASSUME NEW S, IsFiniteSet(S)
  PROVE  Total([x \in S |-> 1]) = Cardinality(S)
<1> DEFINE f == [x \in S |-> 1]
<1>1. Units(f) = S \X {1}
  <2>1. 1..1 = {1}
    OBVIOUS
  <2> QED BY <2>1 DEF Units
<1>2. IsFiniteSet({1}) /\ Cardinality({1}) = 1
  BY FS_Singleton
<1>3. Cardinality(S \X {1}) = Cardinality(S) * Cardinality({1}) /\ Cardinality(S) \in Nat
  BY <1>2, FS_Product, FS_CardinalityType
<1>4. Units(Negated(f)) = {}
  <2>1. 1..(-1) = {}
    OBVIOUS
  <2> QED BY <2>1 DEF Units, Negated
<1>5. Cardinality(S \X {1}) = Cardinality(S)
  BY <1>2, <1>3
<1> HIDE DEF f
<1>6. PositiveTotal(f) = Cardinality(S)
  BY <1>1, <1>5 DEF PositiveTotal
<1>7. NegativeTotal(f) = 0
  BY <1>4, FS_EmptySet DEF PositiveTotal, NegativeTotal
<1>8. Total(f) = Cardinality(S)
  BY <1>3, <1>6, <1>7 DEF Total
<1> QED
  BY <1>8 DEF f

\* The form of finite induction the proofs use: a non-empty set of subsets of a
\* finite set has a minimal element.
LEMMA MinimalSubset ==
  ASSUME NEW S, IsFiniteSet(S), NEW T, T \subseteq SUBSET S, T # {}
  PROVE  \E A \in T : \A B \in T : B \subseteq A => B = A
<1> DEFINE R == StrictSubsetOrdering(S)
<1>1. IsWellFoundedOn(R, SUBSET S)
  BY FS_StrictSubsetOrderingWellFounded, FS_FiniteSubsetsOfFinite
<1> HIDE DEF R
<1>2. PICK A \in T : \A B \in T : ~(<<B, A>> \in R)
  BY <1>1, WFMin
<1>3. \A B \in T : B \subseteq A => B = A
  BY <1>2 DEF R, StrictSubsetOrdering
<1> QED
  BY <1>2, <1>3

\* The function k on A, and 0 elsewhere on S.
Only(k, S, A) == [x \in S |-> IF x \in A THEN k[x] ELSE 0]

\* Taking one more account into a total adds its value.
LEMMA OnlyOneMore ==
  ASSUME NEW S, IsFiniteSet(S), NEW k \in [S -> Int], NEW A \in SUBSET S, NEW a \in A
  PROVE  Total(Only(k, S, A)) = Total(Only(k, S, A \ {a})) + k[a]
<1> DEFINE rest == Only(k, S, A \ {a})
<1>1. rest \in [S -> Int] /\ rest[a] = 0 /\ a \in S /\ k[a] \in Int
  BY DEF Only
<1>2. Only(k, S, A) = [rest EXCEPT ![a] = k[a]]
  BY DEF Only
<1> HIDE DEF rest
<1>3. Total([rest EXCEPT ![a] = k[a]]) = Total(rest) - rest[a] + k[a]
  BY <1>1, TotalUpdate
<1>4. Total(rest) \in Int
  BY <1>1, TotalType
<1>5. Total(Only(k, S, A)) = Total(rest) + k[a]
  BY <1>1, <1>2, <1>3, <1>4
<1> QED
  BY <1>5 DEF rest

\* The total is linear.
THEOREM TotalLinear ==
  ASSUME NEW S, IsFiniteSet(S), NEW f \in [S -> Int], NEW g \in [S -> Int],
         NEW c \in Int, NEW h \in [S -> Int], \A x \in S : h[x] = f[x] + c * g[x]
  PROVE  Total(h) = Total(f) + c * Total(g)
<1> DEFINE on(k, A) == Only(k, S, A)
           Bad == {A \in SUBSET S : Total(on(h, A)) # Total(on(f, A)) + c * Total(on(g, A))}
<1>1. /\ \A A \in SUBSET S : /\ on(f, A) \in [S -> Int] /\ on(g, A) \in [S -> Int]
                             /\ on(h, A) \in [S -> Int]
      /\ on(f, S) = f /\ on(g, S) = g /\ on(h, S) = h
  BY DEF Only
<1>2. SUFFICES Bad = {}
  <2>1. S \notin Bad
    BY <1>2
  <2>2. Total(on(h, S)) = Total(on(f, S)) + c * Total(on(g, S))
    BY <2>1
  <2> QED BY <1>1, <2>2
<1>3. SUFFICES ASSUME Bad # {} PROVE FALSE
  OBVIOUS
<1> HIDE DEF on
<1>4. PICK A \in Bad : \A B \in Bad : B \subseteq A => B = A
  <2>1. Bad \subseteq SUBSET S
    OBVIOUS
  <2> HIDE DEF Bad
  <2> QED BY <1>3, <2>1, MinimalSubset
<1>5. A # {}
  <2>1. /\ on(f, {}) \in [S -> {0}] /\ on(g, {}) \in [S -> {0}] /\ on(h, {}) \in [S -> {0}]
    BY DEF on, Only
  <2>2. Total(on(f, {})) = 0 /\ Total(on(g, {})) = 0 /\ Total(on(h, {})) = 0
    BY <2>1, TotalZero
  <2>3. {} \notin Bad
    BY <2>2
  <2> QED BY <1>4, <2>3
<1>6. PICK a \in A : TRUE
  BY <1>5
<1> DEFINE B == A \ {a}
<1>7. a \in S /\ A \in SUBSET S /\ B \in SUBSET S /\ B \notin Bad
  BY <1>4, <1>6
<1>8. Total(on(h, B)) = Total(on(f, B)) + c * Total(on(g, B))
  BY <1>7
<1>9. \A k \in [S -> Int] : Total(on(k, A)) = Total(on(k, B)) + k[a]
  BY <1>6, <1>7, OnlyOneMore DEF on
<1>10. /\ Total(on(h, A)) = Total(on(h, B)) + h[a]
       /\ Total(on(f, A)) = Total(on(f, B)) + f[a]
       /\ Total(on(g, A)) = Total(on(g, B)) + g[a]
  BY <1>1, <1>9
<1>11. h[a] = f[a] + c * g[a] /\ f[a] \in Int /\ g[a] \in Int
  BY <1>7
<1>12. Total(on(f, B)) \in Int /\ Total(on(g, B)) \in Int
  BY <1>1, <1>7, TotalType
<1>13. Total(on(h, A)) = Total(on(f, A)) + c * Total(on(g, A))
  <2>1. c * (Total(on(g, B)) + g[a]) = c * Total(on(g, B)) + c * g[a]
    BY <1>11, <1>12
  <2>2. c * Total(on(g, B)) \in Int /\ c * g[a] \in Int
    BY <1>11, <1>12
  <2> QED BY <1>8, <1>10, <1>11, <1>12, <2>1, <2>2
<1> QED
  BY <1>4, <1>13

-----------------------------------------------------------------------------
(* BaseMath                                                                 *)

\* The two facts about division that everything below needs.
LEMMA DivFacts ==
  ASSUME NEW n \in Int
  PROVE  /\ n \div BASE \in Int
         /\ BASE * (n \div BASE) <= n
         /\ n < BASE * (n \div BASE) + BASE
BY BaseAssumption

\* A division is known by its quotient and its remainder.
LEMMA QuotientIs ==
  ASSUME NEW n \in Int, NEW d \in Nat \ {0}, NEW q \in Int, NEW r \in Int,
         n = q * d + r, 0 <= r, r < d
  PROVE  n \div d = q /\ n % d = r
<1> DEFINE Q == n \div d
           R == n % d
<1>1. /\ Q \in Int /\ R \in Int
      /\ n = Q * d + R /\ 0 <= R /\ R < d
  OBVIOUS
<1> HIDE DEF Q, R
<1>2. ASSUME NEW k \in Int, k >= 1
      PROVE  k * d >= d
  <2>1. (k - 1) * d \in Nat /\ (k - 1) * d = k * d - d
    BY <1>2
  <2>2. k * d \in Int
    OBVIOUS
  <2> QED BY <2>1, <2>2
<1>3. (q - Q) * d = R - r /\ (Q - q) * d = r - R
  <2>1. (q - Q) * d = q * d - Q * d /\ (Q - q) * d = Q * d - q * d
    BY <1>1
  <2>2. q * d \in Int /\ Q * d \in Int
    BY <1>1
  <2> QED BY <1>1, <2>1, <2>2
<1>4. ~(q - Q >= 1) /\ ~(Q - q >= 1)
  BY <1>1, <1>2, <1>3
<1>5. q = Q
  BY <1>1, <1>4
<1>6. R = r
  BY <1>1, <1>3, <1>5
<1> QED
  BY <1>5, <1>6 DEF Q, R

\* A product of naturals is a natural.
LEMMA ProductNat ==
  ASSUME NEW m \in Nat, NEW n \in Nat
  PROVE  m * n \in Nat
OBVIOUS

\* Products of naturals are monotone.
LEMMA ProductMonotone ==
  ASSUME NEW x \in Nat, NEW y \in Nat, NEW k \in Nat, x <= y
  PROVE  x * k <= y * k
<1>1. (y - x) * k = y * k - x * k /\ y - x \in Nat
  OBVIOUS
<1>2. (y - x) * k \in Nat /\ x * k \in Nat /\ y * k \in Nat
  BY <1>1, ProductNat
<1> QED
  BY <1>1, <1>2

\* What was scaled by BASE divides exactly.
LEMMA BaseQuotient ==
  ASSUME NEW x \in Nat
  PROVE  (x * BASE) \div BASE = x
<1> DEFINE q == (x * BASE) \div BASE
<1>1. x * BASE \in Nat
  BY BaseAssumption, ProductNat
<1>2. q \in Int /\ q * BASE <= x * BASE /\ x * BASE < (q + 1) * BASE
  BY <1>1, BaseAssumption
<1> HIDE DEF q
<1>3. ~(q > x)
  <2> SUFFICES ASSUME q >= x + 1 PROVE FALSE
    BY <1>2
  <2>1. q * BASE >= (x + 1) * BASE /\ (x + 1) * BASE = x * BASE + BASE
    BY <1>2, BaseAssumption
  <2> QED BY <1>1, <1>2, <2>1, BaseAssumption
<1>4. ~(q < x)
  <2> SUFFICES ASSUME q + 1 <= x PROVE FALSE
    BY <1>2
  <2>1. (q + 1) * BASE <= x * BASE
    BY <1>2, BaseAssumption
  <2>2. (q + 1) * BASE \in Int
    BY <1>2, BaseAssumption
  <2> QED BY <1>1, <1>2, <2>1, <2>2
<1> QED
  BY <1>2, <1>3, <1>4 DEF q

\* Ratios compare transitively, also where the outer denominators are 0.
LEMMA SignedRatioTransitive ==
  ASSUME NEW x0 \in Int, NEW x1 \in Int, NEW x2 \in Int,
         NEW p0 \in Nat, NEW p1 \in Nat \ {0}, NEW p2 \in Nat,
         x2 * p1 <= x1 * p2, x1 * p0 <= x0 * p1
  PROVE  x2 * p0 <= x0 * p2
<1>1. /\ x2 * p0 \in Int /\ x0 * p2 \in Int /\ x2 * p1 \in Int
      /\ x1 * p2 \in Int /\ x1 * p0 \in Int /\ x0 * p1 \in Int
  OBVIOUS
<1>2. (x2 * p1) * p0 <= (x1 * p2) * p0
  <2> DEFINE u == x2 * p1
             v == x1 * p2
  <2>1. u \in Int /\ v \in Int /\ u <= v
    BY <1>1
  <2> HIDE DEF u, v
  <2>2. u * p0 <= v * p0
    BY <2>1
  <2> QED BY <2>2 DEF u, v
<1>3. (x1 * p0) * p2 <= (x0 * p1) * p2
  <2> DEFINE u == x1 * p0
             v == x0 * p1
  <2>1. u \in Int /\ v \in Int /\ u <= v
    BY <1>1
  <2> HIDE DEF u, v
  <2>2. u * p2 <= v * p2
    BY <2>1
  <2> QED BY <2>2 DEF u, v
<1>4. /\ (x2 * p1) * p0 = (x2 * p0) * p1
      /\ (x1 * p2) * p0 = (x1 * p0) * p2
      /\ (x0 * p1) * p2 = (x0 * p2) * p1
  OBVIOUS
<1> DEFINE y == x2 * p0
           z == x0 * p2
<1>5. y \in Int /\ z \in Int
  BY <1>1
<1>6. y * p1 <= z * p1
  <2>1. (x1 * p0) * p2 \in Int
    BY <1>1
  <2> QED BY <1>1, <1>2, <1>3, <1>4, <2>1
<1> HIDE DEF y, z
<1>7. y <= z
  <2> SUFFICES ASSUME y >= z + 1 PROVE FALSE
    BY <1>5
  <2>1. y * p1 >= (z + 1) * p1
    BY <1>5
  <2>2. (z + 1) * p1 = z * p1 + p1 /\ z * p1 \in Int
    BY <1>5
  <2> QED BY <1>5, <1>6, <2>1, <2>2
<1> QED
  BY <1>7 DEF y, z

\* baseMul is at most the exact product, by less than one unit.
THEOREM BaseMulBounds ==
  ASSUME NEW v \in Nat, NEW b \in Nat
  PROVE  /\ BaseMul(v, b) \in Nat
         /\ BASE * BaseMul(v, b) <= v * b
         /\ v * b < BASE * BaseMul(v, b) + BASE
<1>1. v * b \in Nat
  BY ProductNat
<1>2. (v * b) \div BASE >= 0
  <2> DEFINE q == (v * b) \div BASE
  <2>1. q \in Int /\ v * b < BASE * q + BASE
    BY <1>1, DivFacts
  <2>2. BASE \in Nat /\ BASE > 0
    BY BaseAssumption
  <2>3. BASE * (q + 1) > 0 /\ q + 1 \in Int
    BY <1>1, <2>1, <2>2
  <2> HIDE DEF q
  <2>4. ~(q + 1 <= 0)
    BY <2>1, <2>2, <2>3
  <2> QED BY <2>1, <2>4 DEF q
<1> QED
  BY <1>1, <1>2, DivFacts DEF BaseMul

\* baseMulRoundUp is at least the exact product, by less than one unit.
THEOREM BaseMulRoundUpBounds ==
  ASSUME NEW v \in Nat, NEW b \in Nat
  PROVE  /\ BaseMulRoundUp(v, b) \in Nat
         /\ v * b <= BASE * BaseMulRoundUp(v, b)
         /\ BASE * BaseMulRoundUp(v, b) < v * b + BASE
<1>0. BASE \in Nat /\ BASE > 0
  BY BaseAssumption
<1>1. CASE v = 0 \/ b = 0
  BY <1>0, <1>1 DEF BaseMulRoundUp
<1>2. CASE ~(v = 0 \/ b = 0)
  <2> DEFINE n == v * b
             q == (n - 1) \div BASE
  <2>1. n \in Nat /\ n > 0
    BY <1>2
  <2>2. q \in Int /\ BASE * q <= n - 1 /\ n - 1 < BASE * q + BASE
    BY <2>1, DivFacts
  <2>3. BaseMulRoundUp(v, b) = q + 1
    BY <1>2 DEF BaseMulRoundUp
  <2> HIDE DEF n, q
  <2>4. q >= 0
    <3>1. BASE * (q + 1) > 0
      BY <1>0, <2>1, <2>2
    <3> QED BY <1>0, <2>2, <3>1
  <2>5. BASE * (q + 1) = BASE * q + BASE
    BY <1>0, <2>2
  <2>6. n <= BASE * (q + 1) /\ BASE * (q + 1) < n + BASE
    BY <1>0, <2>1, <2>2, <2>5
  <2> QED BY <2>2, <2>3, <2>4, <2>6 DEF n
<1> QED
  BY <1>1, <1>2

-----------------------------------------------------------------------------
(* P1BalanceMath                                                            *)

\* The updates of the margin change the margin by the amount, and nothing else.
LEMMA MarginUpdates ==
  ASSUME NEW b \in Balance, NEW amount \in Nat
  PROVE  /\ AddToMargin(b, amount) \in Balance
         /\ Margin(AddToMargin(b, amount)) = Margin(b) + amount
         /\ Position(AddToMargin(b, amount)) = Position(b)
         /\ Canonical(GetMargin(b)) => Canonical(GetMargin(AddToMargin(b, amount)))
         /\ GetPosition(AddToMargin(b, amount)) = GetPosition(b)
         /\ SubFromMargin(b, amount) \in Balance
         /\ Margin(SubFromMargin(b, amount)) = Margin(b) - amount
         /\ Position(SubFromMargin(b, amount)) = Position(b)
         /\ Canonical(GetMargin(SubFromMargin(b, amount)))
         /\ GetPosition(SubFromMargin(b, amount)) = GetPosition(b)
<1>1. GetMargin(b) \in SignedInt
  BY DEF Balance, GetMargin, SignedInt
<1>2. /\ \A m \in SignedInt : /\ SetMargin(b, m) \in Balance
                              /\ GetMargin(SetMargin(b, m)) = m
                              /\ GetPosition(SetMargin(b, m)) = GetPosition(b)
  BY DEF Balance, SignedInt, SetMargin, GetMargin, GetPosition
<1>3. /\ Add(GetMargin(b), amount) \in SignedInt
      /\ Sub(GetMargin(b), amount) \in SignedInt
  BY <1>1, AddCorrect, SubCorrect
<1> QED
  BY <1>1, <1>2, <1>3, AddCorrect, SubCorrect
     DEF AddToMargin, SubFromMargin, Margin, Position

\* The updates of the position change the position, and nothing else.
LEMMA PositionUpdates ==
  ASSUME NEW b \in Balance, NEW amount \in Nat
  PROVE  /\ AddToPosition(b, amount) \in Balance
         /\ Position(AddToPosition(b, amount)) = Position(b) + amount
         /\ Margin(AddToPosition(b, amount)) = Margin(b)
         /\ Canonical(GetPosition(b)) => Canonical(GetPosition(AddToPosition(b, amount)))
         /\ GetMargin(AddToPosition(b, amount)) = GetMargin(b)
         /\ SubFromPosition(b, amount) \in Balance
         /\ Position(SubFromPosition(b, amount)) = Position(b) - amount
         /\ Margin(SubFromPosition(b, amount)) = Margin(b)
         /\ Canonical(GetPosition(SubFromPosition(b, amount)))
         /\ GetMargin(SubFromPosition(b, amount)) = GetMargin(b)
<1>1. GetPosition(b) \in SignedInt
  BY DEF Balance, GetPosition, SignedInt
<1>2. /\ \A m \in SignedInt : /\ SetPosition(b, m) \in Balance
                              /\ GetPosition(SetPosition(b, m)) = m
                              /\ GetMargin(SetPosition(b, m)) = GetMargin(b)
  BY DEF Balance, SignedInt, SetPosition, GetMargin, GetPosition
<1>3. /\ Add(GetPosition(b), amount) \in SignedInt
      /\ Sub(GetPosition(b), amount) \in SignedInt
  BY <1>1, AddCorrect, SubCorrect
<1> QED
  BY <1>1, <1>2, <1>3, AddCorrect, SubCorrect
     DEF AddToPosition, SubFromPosition, Margin, Position

\* A balance stands for two integers.
LEMMA BalanceInt ==
  ASSUME NEW b \in Balance
  PROVE  Margin(b) \in Int /\ Position(b) \in Int
BY DEF Balance, Margin, Position, GetMargin, GetPosition, ToInt

\* getPositiveAndNegativeValue splits the exact value of the balance.
THEOREM ValueSplit ==
  ASSUME NEW b \in Balance, NEW price \in Nat
  PROVE  /\ PositiveValue(b, price) \in Nat /\ NegativeValue(b, price) \in Nat
         /\ PositiveValue(b, price) - NegativeValue(b, price)
              = BASE * Margin(b) + price * Position(b)
<1>1. /\ b.margin \in Nat /\ b.position \in Nat
      /\ b.marginIsPositive \in BOOLEAN /\ b.positionIsPositive \in BOOLEAN
      /\ BASE \in Nat
  BY BaseAssumption DEF Balance
<1>2. b.margin * BASE \in Nat /\ b.position * price \in Nat
  BY <1>1, ProductNat
<1>3. /\ Margin(b) = IF b.marginIsPositive THEN b.margin ELSE -b.margin
      /\ Position(b) = IF b.positionIsPositive THEN b.position ELSE -b.position
  BY DEF Margin, Position, GetMargin, GetPosition, ToInt
<1>4. BASE * Margin(b) = IF b.marginIsPositive THEN b.margin * BASE ELSE -(b.margin * BASE)
  BY <1>1, <1>3
<1>5. price * Position(b)
       = IF b.positionIsPositive THEN b.position * price ELSE -(b.position * price)
  BY <1>1, <1>3
<1> QED
  BY <1>1, <1>2, <1>4, <1>5 DEF PositiveValue, NegativeValue

-----------------------------------------------------------------------------
(* P1Settlement                                                             *)

\* The value of an index is an integer.
LEMMA SignedIndexType ==
  ASSUME NEW x \in Index
  PROVE  SignedIndex(x) \in SignedInt /\ ToInt(SignedIndex(x)) \in Int
BY DEF Index, SignedIndex, SignedInt, ToInt

\* _loadContext leaves an index with the time of the block, in canonical form.
LEMMA NextIndexType ==
  ASSUME NEW x \in Index, NEW now \in Nat, now >= x.timestamp,
         NEW rate \in SignedInt, NEW price \in Nat
  PROVE  /\ NextIndex(x, now, rate, price) \in Index
         /\ NextIndex(x, now, rate, price).timestamp = now
         /\ Canonical(SignedIndex(x)) =>
               Canonical(SignedIndex(NextIndex(x, now, rate, price)))
         /\ now = x.timestamp => NextIndex(x, now, rate, price) = x
<1> DEFINE value == BaseMul(rate.value * (now - x.timestamp), price)
           signed == IF rate.isPositive THEN Add(SignedIndex(x), value)
                                        ELSE Sub(SignedIndex(x), value)
           next == [timestamp |-> now, isPositive |-> signed.isPositive,
                    value |-> signed.value]
<1>1. CASE now = x.timestamp
  BY <1>1 DEF NextIndex, Index
<1>2. CASE now # x.timestamp
  <2>1. rate.value \in Nat /\ now - x.timestamp \in Nat
    BY DEF SignedInt, Index
  <2>2. rate.value * (now - x.timestamp) \in Nat
    BY <2>1, ProductNat
  <2>3. value \in Nat
    BY <2>2, BaseMulBounds
  <2> HIDE DEF value
  <2>4. /\ signed \in SignedInt
        /\ Canonical(SignedIndex(x)) => Canonical(signed)
    BY <2>3, SignedIndexType, AddCorrect, SubCorrect
  <2>5. NextIndex(x, now, rate, price) = next
    BY <1>2 DEF NextIndex, value
  <2> HIDE DEF signed
  <2>6. /\ next \in Index /\ next.timestamp = now
        /\ SignedIndex(next) = signed
    BY <2>4 DEF Index, SignedInt, SignedIndex
  <2> HIDE DEF next
  <2> QED BY <1>2, <2>4, <2>5, <2>6
<1> QED
  BY <1>1, <1>2

\* _settleAccount changes nothing but the margin of a balance.
LEMMA SettlementType ==
  ASSUME NEW b \in Balance, NEW x \in Index, NEW y \in Index
  PROVE  /\ SettledBalance(b, x, y) \in Balance
         /\ GetPosition(SettledBalance(b, x, y)) = GetPosition(b)
         /\ Canonical(GetMargin(b)) => Canonical(GetMargin(SettledBalance(b, x, y)))
<1> DEFINE d == SignedIndexDiff(x, y).value
<1>1. d \in Nat /\ b.position \in Nat
  BY SignedIndexType, SignedAddSubCorrect DEF SignedIndexDiff, SignedInt, Balance
<1>2. BaseMul(d, b.position) \in Nat /\ BaseMulRoundUp(d, b.position) \in Nat
  BY <1>1, BaseMulBounds, BaseMulRoundUpBounds
<1>3. \/ SettledBalance(b, x, y) = b
      \/ SettledBalance(b, x, y) = AddToMargin(b, BaseMul(d, b.position))
      \/ SettledBalance(b, x, y) = SubFromMargin(b, BaseMulRoundUp(d, b.position))
  BY DEF SettledBalance
<1> QED
  BY <1>2, <1>3, MarginUpdates

\* What _settleAccount leaves of the claim of an account is at most the claim, and
\* more than the claim less 1 token unit: a credit is never too large, a debit
\* never too small, whichever way the index moved since it last settled.
THEOREM SettlementBounds ==
  ASSUME NEW b \in Balance, NEW x \in Index, NEW y \in Index,
         x.timestamp = y.timestamp => x = y
  PROVE  /\ Claim(SettledBalance(b, x, y), y) <= Claim(b, x)
         /\ Claim(b, x) < Claim(SettledBalance(b, x, y), y) + BASE
<1> DEFINE X == ToInt(SignedIndex(x))
           Y == ToInt(SignedIndex(y))
           m == Margin(b)
           P == Position(b)
           diff == SignedIndexDiff(x, y)
           d == diff.value
           p == b.position
<1>1. /\ X \in Int /\ Y \in Int /\ m \in Int /\ P \in Int
      /\ BASE \in Nat /\ BASE > 0
  BY SignedIndexType, BalanceInt, BaseAssumption
<1>2. Claim(b, x) = BASE * m + X * P
  BY DEF Claim
<1>3. CASE x.timestamp = y.timestamp
  <2>1. SettledBalance(b, x, y) = b /\ X = Y
    BY <1>3 DEF SettledBalance
  <2>2. Claim(b, y) = BASE * m + X * P
    BY <2>1 DEF Claim
  <2> HIDE DEF X, Y, m, P
  <2> QED BY <1>1, <1>2, <2>1, <2>2
<1>4. CASE x.timestamp # y.timestamp /\ b.position = 0
  <2>1. SettledBalance(b, x, y) = b
    BY <1>4 DEF SettledBalance
  <2>2. P = 0
    <3>1. b.positionIsPositive => P = b.position
      BY DEF Position, GetPosition, ToInt
    <3>2. ~b.positionIsPositive => P = -b.position
      BY DEF Position, GetPosition, ToInt
    <3> HIDE DEF P
    <3> QED BY <1>4, <3>1, <3>2
  <2>3. Claim(b, y) = BASE * m + Y * P
    BY DEF Claim
  <2> HIDE DEF X, Y, m, P
  <2> QED BY <1>1, <1>2, <2>1, <2>2, <2>3
<1>5. CASE x.timestamp # y.timestamp /\ b.position # 0
  <2>1. diff \in SignedInt /\ ToInt(diff) = Y - X
    BY SignedIndexType, SignedAddSubCorrect DEF SignedIndexDiff
  <2>2. /\ d \in Nat /\ diff.isPositive \in BOOLEAN /\ p \in Nat
        /\ b.positionIsPositive \in BOOLEAN
        /\ Y - X = IF diff.isPositive THEN d ELSE -d
        /\ P = IF b.positionIsPositive THEN p ELSE -p
    BY <2>1 DEF SignedInt, Balance, ToInt, Position, GetPosition
  <2>3. d * p \in Nat
    BY <2>2, ProductNat
  <2>4. Y * P - X * P = IF diff.isPositive = b.positionIsPositive THEN d * p ELSE -(d * p)
    <3>1. Y * P - X * P = (Y - X) * P
      <4> HIDE DEF X, Y, P
      <4> QED BY <1>1
    <3> HIDE DEF X, Y, P, d, p
    <3>2. (Y - X) * P = IF diff.isPositive = b.positionIsPositive THEN d * p ELSE -(d * p)
      BY <2>2
    <3> QED BY <3>1, <3>2
  <2>5. CASE diff.isPositive # b.positionIsPositive
    <3> DEFINE c == BaseMul(d, p)
    <3>1. c \in Nat /\ BASE * c <= d * p /\ d * p < BASE * c + BASE
      BY <2>2, BaseMulBounds
    <3>2. SettledBalance(b, x, y) = AddToMargin(b, c)
      BY <1>5, <2>5 DEF SettledBalance
    <3> HIDE DEF c
    <3>3. Claim(AddToMargin(b, c), y) = BASE * (m + c) + Y * P
      BY <3>1, MarginUpdates DEF Claim
    <3>4. Y * P - X * P = -(d * p)
      BY <2>4, <2>5
    <3>5. BASE * (m + c) = BASE * m + BASE * c
      <4> HIDE DEF m
      <4> QED BY <1>1, <3>1
    <3>6. /\ Claim(AddToMargin(b, c), y) <= Claim(b, x)
          /\ Claim(b, x) < Claim(AddToMargin(b, c), y) + BASE
      <4>1. /\ BASE * m \in Int /\ BASE * c \in Int /\ Y * P \in Int /\ X * P \in Int
        BY <1>1, <3>1
      <4> HIDE DEF X, Y, m, P, d, p
      <4> QED BY <1>1, <1>2, <2>3, <3>1, <3>3, <3>4, <3>5, <4>1
    <3> QED
      BY <3>2, <3>6
  <2>6. CASE diff.isPositive = b.positionIsPositive
    <3> DEFINE c == BaseMulRoundUp(d, p)
    <3>1. c \in Nat /\ d * p <= BASE * c /\ BASE * c < d * p + BASE
      BY <2>2, BaseMulRoundUpBounds
    <3>2. SettledBalance(b, x, y) = SubFromMargin(b, c)
      BY <1>5, <2>6 DEF SettledBalance
    <3> HIDE DEF c
    <3>3. Claim(SubFromMargin(b, c), y) = BASE * (m - c) + Y * P
      BY <3>1, MarginUpdates DEF Claim
    <3>4. Y * P - X * P = d * p
      BY <2>4, <2>6
    <3>5. BASE * (m - c) = BASE * m - BASE * c
      <4> HIDE DEF m
      <4> QED BY <1>1, <3>1
    <3>6. /\ Claim(SubFromMargin(b, c), y) <= Claim(b, x)
          /\ Claim(b, x) < Claim(SubFromMargin(b, c), y) + BASE
      <4>1. /\ BASE * m \in Int /\ BASE * c \in Int /\ Y * P \in Int /\ X * P \in Int
        BY <1>1, <3>1
      <4> HIDE DEF X, Y, m, P, d, p
      <4> QED BY <1>1, <1>2, <2>3, <3>1, <3>3, <3>4, <3>5, <4>1
    <3> QED
      BY <3>2, <3>6
  <2> QED
    BY <2>5, <2>6
<1> QED
  BY <1>3, <1>4, <1>5
=============================================================================
