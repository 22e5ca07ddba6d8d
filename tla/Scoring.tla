------------------------------ MODULE Scoring ------------------------------
(***************************************************************************)
(* The arithmetic of an evaluation: contradictions between claims, the     *)
(* fabrication risk of a claim, synthetic scores, the weighted average and *)
(* the penalised final score.                                              *)
(*                                                                         *)
(* Scores are integers in units of 0.0001 (the code rounds to 4 digits),   *)
(* severities, risks and confidences in units of 0.01.  round() on a float *)
(* that lies halfway goes up or down with the float's binary               *)
(* representation, so Nearest is the set of both neighbours there.         *)
(***************************************************************************)
EXTENDS Integers, Sequences, FiniteSets

One == 10000

Nearest(n, d) == {q \in {n \div d, n \div d + 1} : 2 * (q * d - n) <= d /\ 2 * (n - q * d) <= d}
AtMost(x, bound) == IF x > bound THEN bound ELSE x
AtLeast(x, bound) == IF x < bound THEN bound ELSE x

---------------------------------------------------------------------------
(***************************************************************************)
(* cross_check: two claims of one category conflict when some number of    *)
(* the first and some number of the second are both positive and differ by *)
(* more than a factor of 3.  A claim is a record with its category, the    *)
(* numbers of its text in order, the features of its text that the         *)
(* fabrication check looks for, and its confidence.  Numbers are integers. *)
(***************************************************************************)
ClaimRecords ==
    [category : STRING, nums : Seq(Nat), superlative : BOOLEAN,
     growth : SUBSET {"multiplier", "percent", "users"}, confidence : Nat]

Larger(a, b) == IF a > b THEN a ELSE b
Smaller(a, b) == IF a > b THEN b ELSE a

Conflicting(a, b) == a > 0 /\ b > 0 /\ Larger(a, b) > 3 * Smaller(a, b)

ConflictPairs(s, t) ==
    {p \in (1..Len(s)) \X (1..Len(t)) : Conflicting(s[p[1]], t[p[2]])}

\* min(1, ratio / 10) to two digits.
SeverityOf(a, b) == {AtMost(q, 100) : q \in Nearest(10 * Larger(a, b), Smaller(a, b))}

\* _detect_contradiction stops at the first pair in the order of its two loops;
\* the empty set stands for None.
detect_contradiction(s, t) ==
    LET P == ConflictPairs(s, t)
        first == CHOOSE p \in P : \A q \in P : p[1] < q[1] \/ (p[1] = q[1] /\ p[2] <= q[2])
    IN  IF P = {} THEN {} ELSE SeverityOf(s[first[1]], t[first[2]])

\* The pairs of positions i < j that are compared and found in conflict.
ContradictoryPairs(cs) ==
    {p \in (1..Len(cs)) \X (1..Len(cs)) :
        /\ p[1] < p[2]
        /\ cs[p[1]].category = cs[p[2]].category
        /\ detect_contradiction(cs[p[1]].nums, cs[p[2]].nums) # {}}

\* What one call of cross_check can report: a severity for each of those pairs.
Contradictions(cs) ==
    LET P == ContradictoryPairs(cs)
        severities(p) == detect_contradiction(cs[p[1]].nums, cs[p[2]].nums)
    IN  {f \in [P -> UNION {severities(p) : p \in P}] : \A p \in P : f[p] \in severities(p)}

\* Mutant: 0.8 is critical, against the CASE and the docstring ("critical (>0.8)").
bucket_inclusive(severity) ==
    IF severity >= 80 THEN "critical"
    ELSE IF severity > 60 THEN "high"
    ELSE IF severity > 40 THEN "medium" ELSE "low"
\* count_by_severity_bucket's CASE expression.  Its docstring has "medium (0.4-0.6),
\* low (<0.4)": by it a severity of exactly 0.4 would be medium and cost 0.01.
severity_bucket(severity) ==
    IF severity > 80 THEN "critical"
    ELSE IF severity > 60 THEN "high"
    ELSE IF severity > 40 THEN "medium" ELSE "low"

---------------------------------------------------------------------------
(***************************************************************************)
(* fabrication.                                                            *)
(***************************************************************************)

\* _assess_claim_risk.  A text holds a superlative or not, and matches a subset
\* of the three growth patterns.
RiskScore(claim) ==
    LET Thousands == {i \in 1..Len(claim.nums) :
                        claim.nums[i] >= 1000 /\ claim.nums[i] % 1000 = 0}
        Hundreds == {i \in (1..Len(claim.nums)) \ Thousands :
                        claim.nums[i] >= 100 /\ claim.nums[i] % 100 = 0}
    IN  AtMost((IF claim.superlative THEN 20 ELSE 0)
               + 15 * Cardinality(Thousands) + 10 * Cardinality(Hundreds)
               + (IF "multiplier" \in claim.growth THEN 20 ELSE 0)
               + (IF "percent" \in claim.growth THEN 10 ELSE 0)
               + (IF "users" \in claim.growth THEN 30 ELSE 0)
               + (IF claim.confidence < 50 THEN 15 ELSE 0), 100)

Flagged(claim) == RiskScore(claim) > 50
VerificationStatus(claim) == IF RiskScore(claim) > 70 THEN "disputed" ELSE "unverified"

---------------------------------------------------------------------------
(***************************************************************************)
(* llm_judge.  An output is a function from the dimensions it names to     *)
(* values; what is not even that is covered by the empty function.         *)
(***************************************************************************)

\* DIMENSION_WEIGHTS in hundredths.
Weight == [market_opportunity |-> 20, team_strength |-> 20, product_viability |-> 20,
           financial_health |-> 15, traction |-> 15, overall |-> 10]
Dimensions == DOMAIN Weight

\* _validate_llm_output.  It also lets through a value that is NaN and a rationale that
\* is no string; neither is among the answers of the model.
Validated(output) ==
    /\ Dimensions \subseteq DOMAIN output
    /\ \A d \in Dimensions : output[d] \in 0..One

\* _generate_synthetic_scores for one dimension: the average of the n claims'
\* confidences, which add up to total, minus 0.05 per contradiction (at most
\* 0.3), minus a fifth of the average risk, at least 0.1, plus a random
\* variation.  risk and variation are in units of 0.0001; base is in units of
\* 0.00002 / n, so that only the result is rounded.
SyntheticValue(total, n, contradictions, risk, variation) ==
    LET base == AtLeast(500 * total - 5 * n * AtMost(500 * contradictions, 3000) - n * risk,
                        5 * n * 1000)
    IN  Nearest(AtLeast(AtMost(base + 5 * n * variation, 5 * n * One), 0), 5 * n)

---------------------------------------------------------------------------
(***************************************************************************)
(* finalize.                                                               *)
(***************************************************************************)

\* compute_weighted_average over the six rows; the weights add up to 1.
WeightedAverage(v) ==
    Nearest(20 * v["market_opportunity"] + 20 * v["team_strength"]
            + 20 * v["product_viability"] + 15 * v["financial_health"]
            + 15 * v["traction"] + 10 * v["overall"], 100)

\* 0.05 per critical, 0.03 per high and 0.01 per medium contradiction.
Penalty(buckets) ==
    100 * (5 * buckets["critical"] + 3 * buckets["high"] + buckets["medium"])

FinalScore(base, buckets) == AtLeast(AtMost(base - Penalty(buckets), One), 0)
===========================================================================
