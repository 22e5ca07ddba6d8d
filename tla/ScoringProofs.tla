--------------------------- MODULE ScoringProofs ---------------------------
(***************************************************************************)
(* Theorems about the arithmetic of an evaluation, for all inputs: results *)
(* stay in [0, 1], a contradiction never raises a score, and the fallback  *)
(* of llm_judge always passes its own validation.                          *)
(***************************************************************************)
EXTENDS Scoring, FiniteSetsExt, Functions, FiniteSetTheorems, WellFoundedInduction, TLAPS

SeverityBuckets == {"critical", "high", "medium", "low"}

\* Rounding finds a neighbour and stays in a range with whole ends.
LEMMA NearestInRange ==
    ASSUME NEW n \in Int, NEW d \in Nat \ {0}, NEW top \in Int, 0 <= n, n <= d * top
    PROVE  Nearest(n, d) # {} /\ Nearest(n, d) \subseteq 0..top
<1> DEFINE q == n \div d
<1>1. q \in Int /\ q * d <= n /\ n < q * d + d /\ (q + 1) * d = q * d + d
  OBVIOUS
<1> HIDE DEF q
<1>2. q \in Nearest(n, d) \/ q + 1 \in Nearest(n, d)
  BY <1>1 DEF Nearest, q
<1>3. ASSUME NEW r \in Nearest(n, d) PROVE r \in 0..top
  <2>1. r \in Int /\ 2 * (r * d - n) <= d /\ 2 * (n - r * d) <= d
    BY <1>1, <1>3 DEF Nearest, q
  <2>2. r * d \in Int /\ d * top \in Int
    BY <2>1
  <2>3. CASE r < 0
    <3>1. r * d <= 0 - d
      BY <2>1, <2>3
    <3> QED
      BY <2>1, <2>2, <3>1
  <2>4. CASE r > top
    <3>1. r * d >= d * top + d
      BY <2>1, <2>4
    <3> QED
      BY <2>1, <2>2, <3>1
  <2> QED
    BY <2>1, <2>3, <2>4
<1> QED
  BY <1>2, <1>3

\* The weights add up to 1, so compute_weighted_average of six valid scores
\* exists and lies in [0, 1].
THEOREM AverageInRange ==
    ASSUME NEW v \in [Dimensions -> 0..One]
    PROVE  WeightedAverage(v) # {} /\ WeightedAverage(v) \subseteq 0..One
<1> DEFINE n == 20 * v["market_opportunity"] + 20 * v["team_strength"]
                + 20 * v["product_viability"] + 15 * v["financial_health"]
                + 15 * v["traction"] + 10 * v["overall"]
<1>1. One \in Nat
  BY SMT DEF One
<1>2. /\ v["market_opportunity"] \in 0..One /\ v["team_strength"] \in 0..One
      /\ v["product_viability"] \in 0..One /\ v["financial_health"] \in 0..One
      /\ v["traction"] \in 0..One /\ v["overall"] \in 0..One
  BY DEF Dimensions, Weight
<1>3. n \in Int /\ 0 <= n /\ n <= 100 * One
  BY <1>1, <1>2
<1> HIDE DEF n
<1>4. Nearest(n, 100) # {} /\ Nearest(n, 100) \subseteq 0..One
  BY <1>1, <1>3, NearestInRange
<1> QED
  BY <1>4 DEF n, WeightedAverage

\* The penalty for given counts is a natural number.
LEMMA PenaltyIsNatural ==
    ASSUME NEW buckets \in [SeverityBuckets -> Nat]
    PROVE  Penalty(buckets) \in Nat
<1>1. buckets["critical"] \in Nat /\ buckets["high"] \in Nat /\ buckets["medium"] \in Nat
  BY DEF SeverityBuckets
<1> QED
  BY <1>1 DEF Penalty

\* finalize's clamp: whatever the base and however many contradictions, the
\* overall score satisfies the range the API promises.
THEOREM FinalScoreInRange ==
    ASSUME NEW base \in Int, NEW buckets \in [SeverityBuckets -> Nat]
    PROVE  FinalScore(base, buckets) \in 0..One
<1>1. Penalty(buckets) \in Int
  BY PenaltyIsNatural
<1>2. One \in Nat
  BY SMT DEF One
<1> QED
  BY <1>1, <1>2 DEF FinalScore, AtLeast, AtMost

\* A run with at least as many contradictions in every bucket never gets the
\* higher score from the same base.
THEOREM ContradictionsNeverHelp ==
    ASSUME NEW base \in Int,
           NEW few \in [SeverityBuckets -> Nat], NEW many \in [SeverityBuckets -> Nat],
           \A b \in SeverityBuckets : few[b] <= many[b]
    PROVE  FinalScore(base, many) <= FinalScore(base, few)
<1>1. Penalty(few) \in Int /\ Penalty(many) \in Int /\ Penalty(few) <= Penalty(many)
  BY DEF Penalty, SeverityBuckets
<1> QED
  BY <1>1 DEF FinalScore, AtLeast, AtMost, One

\* Synthetic scores are valid for every confidence, number of contradictions,
\* risk and random variation: the fallback of llm_judge needs no fallback.
THEOREM SyntheticIsValid ==
    ASSUME NEW total \in Nat, NEW n \in Nat \ {0}, NEW found \in Nat,
           NEW r \in 0..One, NEW variation \in Int, -1000 <= variation, variation <= 1000
    PROVE  /\ SyntheticValue(total, n, found, r, variation) # {}
           /\ SyntheticValue(total, n, found, r, variation) \subseteq 0..One
<1> DEFINE base == AtLeast(500 * total - 5 * n * AtMost(500 * found, 3000) - n * r,
                           5 * n * 1000)
           clamped == AtLeast(AtMost(base + 5 * n * variation, 5 * n * One), 0)
<1>1. One \in Nat
  BY SMT DEF One
<1>2. base \in Int
  <2>1. AtMost(500 * found, 3000) \in Int
    BY DEF AtMost
  <2>2. 500 * total - 5 * n * AtMost(500 * found, 3000) - n * r \in Int
    BY <1>1, <2>1
  <2> QED
    BY <2>2 DEF AtLeast
<1> HIDE DEF base
<1>3. 5 * n * One \in Nat /\ 5 * n \in Nat \ {0}
  BY <1>1
<1>4. base + 5 * n * variation \in Int
  BY <1>2
<1>5. clamped \in Int /\ 0 <= clamped /\ clamped <= 5 * n * One
  BY <1>3, <1>4 DEF AtLeast, AtMost
<1> HIDE DEF clamped
<1>6. Nearest(clamped, 5 * n) # {} /\ Nearest(clamped, 5 * n) \subseteq 0..One
  BY <1>1, <1>3, <1>5, NearestInRange
<1> QED
  BY <1>6 DEF clamped, base, SyntheticValue

\* The claims of a pair may be compared in either order: _detect_contradiction
\* finds a conflict both ways round or not at all.
THEOREM ConflictIsSymmetric ==
    ASSUME NEW s \in Seq(Int), NEW t \in Seq(Int)
    PROVE  ConflictPairs(s, t) = {} <=> ConflictPairs(t, s) = {}
<1>1. ASSUME NEW a \in Int, NEW b \in Int PROVE Conflicting(a, b) <=> Conflicting(b, a)
  BY DEF Conflicting, Larger, Smaller
<1>2. ASSUME NEW u \in Seq(Int), NEW w \in Seq(Int), NEW p \in ConflictPairs(u, w)
      PROVE  <<p[2], p[1]>> \in ConflictPairs(w, u)
  <2>1. p[1] \in 1..Len(u) /\ p[2] \in 1..Len(w) /\ Conflicting(u[p[1]], w[p[2]])
    BY <1>2 DEF ConflictPairs
  <2>2. u[p[1]] \in Int /\ w[p[2]] \in Int
    BY <2>1
  <2>3. Conflicting(w[p[2]], u[p[1]])
    BY <2>1, <2>2, <1>1
  <2> QED
    BY <2>1, <2>3 DEF ConflictPairs
<1> QED
  BY <1>2

---------------------------------------------------------------------------
(***************************************************************************)
(* Induction over data, by least counterexamples: < is well founded on the *)
(* naturals, and so is strict inclusion on the subsets of a finite set.    *)
(***************************************************************************)

\* A set of natural numbers has a least element.
LEMMA LeastNumber ==
    ASSUME NEW T \in SUBSET Nat, T # {}
    PROVE  \E n \in T : \A m \in T : n <= m
<1>1. PICK x \in T : \A y \in T : ~ (<<y, x>> \in OpToRel(<,Nat))
  BY NatLessThanWellFounded, WFMin
<1>2. \A y \in T : ~(y < x)
  BY <1>1 DEF OpToRel
<1> QED BY <1>2

\* A property of sets that holds of a set whenever it holds of what is left when
\* any element is taken away, and of the empty set, holds of all finite sets: W
\* are the subsets that do not have it.
LEMMA NoLeastSet ==
    ASSUME NEW S, IsFiniteSet(S), NEW W \in SUBSET (SUBSET S),
           \A s \in W : s # {} /\ \E x \in s : s \ {x} \in W
    PROVE  W = {}
<1> SUFFICES ASSUME W # {} PROVE FALSE
  OBVIOUS
<1>1. PICK s \in W : \A u \in W : ~ (<<u, s>> \in StrictSubsetOrdering(S))
  BY FS_StrictSubsetOrderingWellFounded, WFMin, FS_FiniteSubsetsOfFinite
<1>2. \A u \in W : u \subseteq s => u = s
  BY <1>1 DEF StrictSubsetOrdering
<1> QED BY <1>2

\* The recursion equation of the sum of f over a set, for a function g.
SumEquation(g, f, D) ==
    g = [s \in D |-> IF s = {} THEN 0 ELSE LET x == CHOOSE x \in s : TRUE IN f[x] + g[s \ {x}]]

\* The recursion equation has a solution on the subsets of a finite set.
LEMMA SumExists ==
    ASSUME NEW f, NEW S, IsFiniteSet(S)
    PROVE  \E g : SumEquation(g, f, SUBSET S)
<1> DEFINE D(n) == {s \in SUBSET S : Cardinality(s) <= n}
           T == {n \in Nat : ~ \E g : SumEquation(g, f, D(n))}
<1>1. \A s \in SUBSET S : /\ IsFiniteSet(s) /\ Cardinality(s) \in Nat
                          /\ Cardinality(s) = 0 <=> s = {}
                          /\ \A x \in s : Cardinality(s \ {x}) = Cardinality(s) - 1
  BY FS_Subset, FS_CardinalityType, FS_EmptySet, FS_RemoveElement
<1>2. T = {}
  <2> SUFFICES ASSUME T # {} PROVE FALSE
    OBVIOUS
  <2>1. PICK n \in T : \A m \in T : n <= m
    BY LeastNumber
  <2>2. CASE n = 0
    <3>1. D(0) = {{}}
      BY <1>1, FS_EmptySet
    <3>2. SumEquation([s \in D(0) |-> 0], f, D(0))
      BY <3>1 DEF SumEquation
    <3> QED BY <2>1, <2>2, <3>2
  <2>3. CASE n # 0
    <3>1. n \in Nat /\ n - 1 \in Nat /\ n - 1 \notin T
      <4>1. n \in Nat
        BY <2>1
      <4>2. n - 1 \in Nat /\ ~(n <= n - 1)
        BY <2>3, <4>1
      <4> HIDE DEF T
      <4> QED BY <2>1, <4>1, <4>2
    <3>2. PICK g : SumEquation(g, f, D(n - 1))
      BY <3>1
    <3> DEFINE E(k, s) == IF s = {} THEN 0
                          ELSE LET x == CHOOSE x \in s : TRUE IN f[x] + k[s \ {x}]
               h == [s \in D(n) |-> E(g, s)]
    <3>3. \A s \in D(n) : s # {} => /\ (CHOOSE x \in s : TRUE) \in s
                                    /\ s \ {CHOOSE x \in s : TRUE} \in D(n - 1)
      BY <1>1, <3>1
    <3>4. ASSUME NEW s \in D(n - 1) PROVE s \in D(n) /\ h[s] = g[s]
      <4>1. s \in D(n)
        BY <1>1, <3>1
      <4>2. h[s] = E(g, s)
        BY <4>1
      <4>3. g[s] = E(g, s)
        BY <3>2 DEF SumEquation
      <4> QED BY <4>1, <4>2, <4>3
    <3>5. \A s \in D(n) : s # {} => h[s \ {CHOOSE x \in s : TRUE}] = g[s \ {CHOOSE x \in s : TRUE}]
      BY <3>3, <3>4
    <3>6. SumEquation(h, f, D(n))
      <4>1. ASSUME NEW s \in D(n) PROVE E(g, s) = E(h, s)
        <5>1. s # {} => h[s \ {CHOOSE x \in s : TRUE}] = g[s \ {CHOOSE x \in s : TRUE}]
          BY <3>5
        <5> HIDE DEF h, D
        <5> QED BY <5>1
      <4>2. h = [s \in D(n) |-> E(h, s)]
        <5>1. h = [s \in D(n) |-> E(g, s)]
          OBVIOUS
        <5> HIDE DEF E, h, D
        <5> QED BY <4>1, <5>1
      <4> HIDE DEF h, D
      <4> QED BY <4>2 DEF SumEquation
    <3> QED BY <2>1, <3>6
  <2> QED BY <2>2, <2>3
<1>3. Cardinality(S) \in Nat /\ D(Cardinality(S)) = SUBSET S
  BY FS_Subset, FS_CardinalityType
<1> QED BY <1>2, <1>3

\* g adds up the values of f, one element of S at a time.
AddsUp(g, f, S) ==
    /\ SumFunctionOnSet(f, S) = g[S]
    /\ g[{}] = 0
    /\ \A s \in SUBSET S : s # {} => \E x \in s : g[s] = f[x] + g[s \ {x}]

\* What SumFunctionOnSet computes.
LEMMA SumBySteps ==
    ASSUME NEW f, NEW S, IsFiniteSet(S)
    PROVE  \E g : AddsUp(g, f, S)
<1> DEFINE g == CHOOSE g : SumEquation(g, f, SUBSET S)
<1>1. SumFunctionOnSet(f, S) = g[S]
  BY DEF SumFunctionOnSet, FoldFunctionOnSet, MapThenFoldSet, SumEquation
<1>2. SumEquation(g, f, SUBSET S)
  BY SumExists
<1> HIDE DEF g
<1>3. g[{}] = 0
  BY <1>2 DEF SumEquation
<1>4. ASSUME NEW s \in SUBSET S, s # {}
      PROVE  \E x \in s : g[s] = f[x] + g[s \ {x}]
  <2>1. (CHOOSE x \in s : TRUE) \in s
    BY <1>4
  <2> QED BY <1>2, <1>4, <2>1 DEF SumEquation
<1> QED BY <1>1, <1>3, <1>4 DEF AddsUp

\* A sum of values between 0 and bound.
LEMMA SumInRange ==
    ASSUME NEW S, IsFiniteSet(S), NEW f, NEW bound \in Nat, \A x \in S : f[x] \in 0..bound
    PROVE  SumFunctionOnSet(f, S) \in 0..bound * Cardinality(S)
<1>1. PICK g : AddsUp(g, f, S)
  BY SumBySteps
<1> DEFINE W == {s \in SUBSET S : g[s] \notin 0..bound * Cardinality(s)}
<1>2. \A s \in SUBSET S : /\ Cardinality(s) \in Nat
                          /\ \A x \in s : Cardinality(s \ {x}) = Cardinality(s) - 1
  BY FS_Subset, FS_CardinalityType, FS_RemoveElement
<1>3. ASSUME NEW s \in W PROVE s # {} /\ \E x \in s : s \ {x} \in W
  <2>1. s # {}
    <3>1. Cardinality({}) = 0 /\ bound * 0 = 0
      BY FS_EmptySet
    <3>2. g[{}] \in 0..bound * Cardinality({})
      BY <1>1, <3>1 DEF AddsUp
    <3> QED BY <1>3, <3>2
  <2>2. PICK x \in s : g[s] = f[x] + g[s \ {x}]
    BY <1>1, <2>1 DEF AddsUp
  <2> DEFINE n == Cardinality(s) - 1
  <2>3. n \in Nat /\ Cardinality(s) = n + 1 /\ Cardinality(s \ {x}) = n
    <3>1. Cardinality(s \ {x}) \in Nat
      BY <1>2
    <3> QED BY <1>2, <2>2, <3>1
  <2> HIDE DEF n
  <2>4. bound * Cardinality(s) = bound * n + bound /\ bound * n \in Nat
    BY <2>3
  <2>5. f[x] \in 0..bound
    BY <2>2
  <2>6. ASSUME g[s \ {x}] \in 0..bound * n PROVE g[s] \in 0..bound * Cardinality(s)
    BY <2>2, <2>4, <2>5, <2>6
  <2> QED BY <1>3, <2>1, <2>2, <2>3, <2>6
<1>4. W = {}
  BY <1>3, NoLeastSet
<1> QED BY <1>1, <1>4 DEF AddsUp

\* A sum of natural numbers.
LEMMA SumOfNaturals ==
    ASSUME NEW S, IsFiniteSet(S), NEW f, \A x \in S : f[x] \in Nat
    PROVE  SumFunctionOnSet(f, S) \in Nat
<1>1. PICK g : AddsUp(g, f, S)
  BY SumBySteps
<1> DEFINE W == {s \in SUBSET S : g[s] \notin Nat}
<1>2. ASSUME NEW s \in W PROVE s # {} /\ \E x \in s : s \ {x} \in W
  <2>1. s # {}
    <3>1. g[{}] \in Nat
      BY <1>1 DEF AddsUp
    <3> QED BY <1>2, <3>1
  <2>2. PICK x \in s : g[s] = f[x] + g[s \ {x}]
    BY <1>1, <2>1 DEF AddsUp
  <2>3. f[x] \in Nat
    BY <2>2
  <2>4. ASSUME g[s \ {x}] \in Nat PROVE g[s] \in Nat
    BY <2>2, <2>3, <2>4
  <2> QED BY <1>2, <2>1, <2>2, <2>4
<1>3. W = {}
  BY <1>2, NoLeastSet
<1> QED BY <1>1, <1>3 DEF AddsUp

\* A finite set of numbers has a greatest element, and Max finds it.
LEMMA MaxOfFinite ==
    ASSUME NEW S \in SUBSET Nat, IsFiniteSet(S), S # {}
    PROVE  Max(S) \in S /\ \A y \in S : Max(S) >= y
<1> DEFINE W == {s \in SUBSET S : s # {} /\ ~ \E x \in s : \A y \in s : x >= y}
<1>1. ASSUME NEW s \in W PROVE s # {} /\ \E x \in s : s \ {x} \in W
  <2>1. PICK x \in s : TRUE
    BY <1>1
  <2>2. s \ {x} # {}
    BY <1>1, <2>1
  <2>3. ASSUME NEW m \in s \ {x}, \A y \in s \ {x} : m >= y PROVE FALSE
    BY <1>1, <2>1, <2>3
  <2> QED BY <1>1, <2>1, <2>2, <2>3
<1>2. W = {}
  BY <1>1, NoLeastSet
<1>3. \E x \in S : \A y \in S : x >= y
  BY <1>2
<1> QED BY <1>3 DEF Max

\* Min finds the least element of a set of numbers.
LEMMA MinOfNumbers ==
    ASSUME NEW S \in SUBSET Nat, S # {}
    PROVE  Min(S) \in S
BY LeastNumber DEF Min

---------------------------------------------------------------------------
\* The risk of a claim.
LEMMA RiskInRange ==
    ASSUME NEW claim \in ClaimRecords
    PROVE  RiskScore(claim) \in 0..100
<1> DEFINE Thousands == {i \in 1..Len(claim.nums) :
                          claim.nums[i] >= 1000 /\ claim.nums[i] % 1000 = 0}
           Hundreds == {i \in (1..Len(claim.nums)) \ Thousands :
                          claim.nums[i] >= 100 /\ claim.nums[i] % 100 = 0}
<1>1. Len(claim.nums) \in Nat
  BY DEF ClaimRecords
<1>2. IsFiniteSet(1..Len(claim.nums))
  BY <1>1, FS_Interval
<1>3. Cardinality(Thousands) \in Nat /\ Cardinality(Hundreds) \in Nat
  <2>1. Thousands \in SUBSET (1..Len(claim.nums)) /\ Hundreds \in SUBSET (1..Len(claim.nums))
    OBVIOUS
  <2> HIDE DEF Thousands, Hundreds
  <2> QED BY <1>2, <2>1, FS_Subset, FS_CardinalityType
<1> HIDE DEF Thousands, Hundreds
<1> DEFINE sum == (IF claim.superlative THEN 20 ELSE 0)
               + 15 * Cardinality(Thousands) + 10 * Cardinality(Hundreds)
               + (IF "multiplier" \in claim.growth THEN 20 ELSE 0)
               + (IF "percent" \in claim.growth THEN 10 ELSE 0)
               + (IF "users" \in claim.growth THEN 30 ELSE 0)
               + (IF claim.confidence < 50 THEN 15 ELSE 0)
<1>4. sum \in Nat
  BY <1>3
<1> HIDE DEF sum
<1>5. AtMost(sum, 100) \in 0..100
  BY <1>4 DEF AtMost
<1> QED BY <1>5 DEF RiskScore, sum, Thousands, Hundreds

\* The first conflicting pair in the order of the two loops exists, so that a
\* contradiction has a severity between 0 and 1.
LEMMA SeverityInRange ==
    ASSUME NEW s \in Seq(Nat), NEW t \in Seq(Nat)
    PROVE  detect_contradiction(s, t) \subseteq 0..100
<1> DEFINE P == ConflictPairs(s, t)
           first == CHOOSE p \in P : \A q \in P : p[1] < q[1] \/ (p[1] = q[1] /\ p[2] <= q[2])
<1>1. CASE P = {}
  BY <1>1 DEF detect_contradiction
<1>2. CASE P # {}
  <2>1. \A p \in P : p[1] \in Nat /\ p[2] \in Nat
    BY DEF ConflictPairs
  <2> DEFINE A == {p[1] : p \in P}
  <2>2. PICK a \in A : \A b \in A : a <= b
    <3>1. A \in SUBSET Nat /\ A # {}
      BY <1>2, <2>1
    <3> HIDE DEF A
    <3> QED BY <3>1, LeastNumber
  <2> DEFINE B == {p[2] : p \in {q \in P : q[1] = a}}
  <2>3. PICK b \in B : \A d \in B : b <= d
    <3>1. B \in SUBSET Nat /\ B # {}
      BY <2>1, <2>2
    <3> HIDE DEF B
    <3> QED BY <3>1, LeastNumber
  <2>4. PICK p \in P : p[1] = a /\ p[2] = b
    BY <2>3
  <2>5. ASSUME NEW q \in P PROVE p[1] < q[1] \/ (p[1] = q[1] /\ p[2] <= q[2])
    <3>1. a <= q[1] /\ a \in Nat /\ q[1] \in Nat
      BY <2>1, <2>2, <2>4
    <3>2. a = q[1] => b <= q[2]
      BY <2>3
    <3> QED BY <2>4, <3>1, <3>2
  <2>6. first \in P
    BY <2>4, <2>5
  <2> HIDE DEF first
  <2> DEFINE x == s[first[1]]
             y == t[first[2]]
  <2>7. x \in Nat /\ y \in Nat /\ x > 0 /\ y > 0
    <3>1. first[1] \in 1..Len(s) /\ first[2] \in 1..Len(t) /\ Conflicting(x, y)
      BY <2>6 DEF ConflictPairs
    <3>2. x \in Nat /\ y \in Nat
      BY <3>1
    <3> HIDE DEF x, y
    <3> QED BY <3>1, <3>2 DEF Conflicting
  <2> HIDE DEF x, y
  <2> DEFINE n == 10 * Larger(x, y)
             d == Smaller(x, y)
  <2>8. n \in Nat /\ d \in Nat \ {0}
    BY <2>7 DEF Larger, Smaller
  <2> HIDE DEF n, d
  <2>9. n <= d * n
    <3>1. PICK e \in Nat : d = e + 1
      <4>1. d - 1 \in Nat /\ d = (d - 1) + 1
        BY <2>8
      <4> QED BY <4>1
    <3>2. d * n = e * n + n /\ e * n \in Nat
      BY <2>8, <3>1
    <3> QED BY <2>8, <3>2
  <2>10. Nearest(n, d) \subseteq 0..n
    <3>1. n \in Int /\ 0 <= n
      BY <2>8
    <3> QED BY <2>8, <2>9, <3>1, NearestInRange, Zenon
  <2>11. SeverityOf(x, y) \subseteq 0..100
    <3>1. \A q \in Nearest(n, d) : AtMost(q, 100) \in 0..100
      <4>1. \A q \in 0..n : AtMost(q, 100) \in 0..100
        BY <2>8 DEF AtMost
      <4> QED BY <2>10, <4>1
    <3> QED BY <3>1 DEF SeverityOf, n, d
  <2> QED BY <1>2, <2>11 DEF detect_contradiction, first, x, y
<1> QED BY <1>1, <1>2
===========================================================================
