----------------------- MODULE EvaluationChainProofs -----------------------
(***************************************************************************)
(* Theorems about EvaluationChain, for any number of dispatches, reports,  *)
(* model answers and faults.                                               *)
(***************************************************************************)
EXTENDS EvaluationChain, ScoringProofs

\* What the arguments need to know of the types.
ChainTypes ==
    /\ pc \in [Chains -> Running \cup {"done", "broken"}]
    /\ bills \in Nat
    /\ scores = None \/ DOMAIN scores = Dimensions

\* BilledOnce and FinalizeHasScores are not inductive: a chain about to write
\* the billing entry must be the one that stored the scores, of which there is
\* only one, and nothing has been billed yet; and behind that point the scores
\* exist.
BillingInv ==
    /\ \A c \in Chains : pc[c] = "bill" => scoredBy = c /\ bills = 0 /\ scores # None
    /\ \A c \in Chains : pc[c] \in {"billed", "score", "complete"} => scores # None
    /\ bills <= 1
    /\ bills = 1 => scores # None

ChainInv == ChainTypes /\ BillingInv

\* Six rows are not no rows.
LEMMA SixScores == ASSUME NEW f, DOMAIN f = Dimensions PROVE f # None
<1>1. "overall" \in Dimensions
  BY DEF Dimensions, Weight
<1>2. DOMAIN None = {}
  BY DEF None
<1> QED
  BY <1>1, <1>2

\* A failing stage starts over or breaks the chain; it never enters the states
\* behind the scores.
LEMMA RetryControl ==
    ASSUME ChainTypes, NEW c \in Chains, pc[c] \in Running, Retry(c)
    PROVE  /\ pc' \in [Chains -> Running \cup {"done", "broken"}]
           /\ \A d \in Chains : d # c => pc'[d] = pc[d]
           /\ pc'[c] \in {"cross", "load", "judge", "broken"} \/ (pc'[c] = "score" /\ pc[c] \in {"score", "complete"})
BY DEF ChainTypes, Retry, Running, StageStart

\* A redelivered stage starts over in the same way.
LEMMA LostControl ==
    ASSUME ChainTypes, NEW c \in Chains, WorkerLost(c)
    PROVE  /\ pc' \in [Chains -> Running \cup {"done", "broken"}]
           /\ \A d \in Chains : d # c => pc'[d] = pc[d]
           /\ pc'[c] \in {"cross", "load", "judge"} \/ (pc'[c] = "score" /\ pc[c] \in {"score", "complete"})
BY DEF ChainTypes, WorkerLost, Running, StageStart

\* A step that leaves the rows of the scores and the billing alone keeps the
\* invariant if it enters the states behind the scores only from there.
LEMMA QuietChainStep ==
    ASSUME ChainInv, NEW c \in Chains,
           UNCHANGED <<scores, scoredBy, bills>>,
           pc' \in [Chains -> Running \cup {"done", "broken"}],
           \A d \in Chains : d # c => pc'[d] = pc[d],
           \/ pc'[c] \notin {"bill", "billed", "score", "complete"}
           \/ pc'[c] \in {"score", "complete"} /\ pc[c] \in {"billed", "score", "complete"}
           \/ pc'[c] = "billed" /\ pc[c] = "bill"
    PROVE  ChainInv'
BY DEF ChainInv, ChainTypes, BillingInv

\* Every transaction, retry and redelivery keeps the invariant, and no step
\* changes scores that exist.
LEMMA ChainStep ==
    ChainInv /\ [Next]_vars => ChainInv' /\ (scores # None => scores' = scores)
<1> SUFFICES ASSUME ChainInv, [Next]_vars
             PROVE  ChainInv' /\ (scores # None => scores' = scores)
  OBVIOUS
<1> USE DEF Running, StageStart
<1>1. ASSUME NEW c \in Chains,
             \/ CrossCheck(c) \/ CrossReturn(c)
             \/ LoadClaims(c) \/ AssessClaim(c) \/ AssessReturn(c) \/ JudgeCall(c)
      PROVE  ChainInv' /\ scores' = scores
  <2>1. UNCHANGED <<scores, scoredBy, bills>>
    BY <1>1 DEF CrossCheck, CrossReturn, LoadClaims, AssessClaim, AssessReturn, JudgeCall,
                dbVars
  <2>2. /\ pc' \in [Chains -> Running \cup {"done", "broken"}]
        /\ \A d \in Chains : d # c => pc'[d] = pc[d]
        /\ pc'[c] \notin {"bill", "billed", "score", "complete"}
    BY <1>1 DEF CrossCheck, CrossReturn, LoadClaims, AssessClaim, AssessReturn, JudgeCall,
                Return, ChainInv, ChainTypes
  <2> QED
    BY <2>1, <2>2, QuietChainStep
<1>2. ASSUME NEW c \in Chains, StoreScores(c)
      PROVE  ChainInv' /\ (scores # None => scores' = scores)
  <2>1. CASE Retry(c) /\ UNCHANGED <<scores, scoredBy, bills>>
    <3>1. pc[c] = "store"
      BY <1>2 DEF StoreScores
    <3> QED
      BY <2>1, <3>1, RetryControl, QuietChainStep DEF ChainInv
  <2>2. CASE /\ scores = None
             /\ DOMAIN scores' = Dimensions
             /\ scoredBy' = c
             /\ pc' = [pc EXCEPT ![c] = "bill"]
             /\ UNCHANGED bills
    <3>1. scores' # None
      BY <2>2, SixScores
    <3>2. bills = 0 /\ \A d \in Chains : pc[d] # "bill"
      BY <2>2 DEF ChainInv, ChainTypes, BillingInv
    <3> QED
      BY <2>2, <3>1, <3>2 DEF ChainInv, ChainTypes, BillingInv
  <2> QED
    BY <1>2, <2>1, <2>2 DEF StoreScores
<1>3. ASSUME NEW c \in Chains, Bill(c)
      PROVE  ChainInv' /\ scores' = scores
  <2>1. /\ pc[c] = "bill" /\ bills = 0 /\ scores # None
        /\ \A d \in Chains : pc[d] = "bill" => d = c
    BY <1>3 DEF Bill, ChainInv, BillingInv
  <2> QED
    BY <1>3, <2>1 DEF Bill, ChainInv, ChainTypes, BillingInv
<1>4. ASSUME NEW c \in Chains, JudgeReturn(c) \/ ComputeScore(c) \/ CompleteRun(c)
      PROVE  ChainInv' /\ scores' = scores
  <2>1. UNCHANGED <<scores, scoredBy, bills>>
    BY <1>4 DEF JudgeReturn, ComputeScore, CompleteRun, dbVars
  <2>2. /\ pc' \in [Chains -> Running \cup {"done", "broken"}]
        /\ \A d \in Chains : d # c => pc'[d] = pc[d]
        /\ pc'[c] \in {"score", "complete", "done"} /\ pc[c] \in {"billed", "score", "complete"}
    BY <1>4 DEF JudgeReturn, ComputeScore, CompleteRun, Return, ChainInv, ChainTypes
  <2> QED
    BY <2>1, <2>2, QuietChainStep
<1>5. ASSUME NEW c \in Chains, TransactionFails(c) PROVE ChainInv' /\ scores' = scores
  <2>1. UNCHANGED <<scores, scoredBy, bills>>
    BY <1>5 DEF TransactionFails, dbVars
  <2>2. CASE pc[c] \in Running /\ Retry(c)
    BY <2>1, <2>2, RetryControl, QuietChainStep DEF ChainInv
  <2>3. CASE pc[c] = "bill" /\ pc' = [pc EXCEPT ![c] = "billed"]
    BY <2>1, <2>3, QuietChainStep DEF ChainInv, ChainTypes
  <2> QED
    BY <1>5, <2>2, <2>3 DEF TransactionFails
<1>6. ASSUME NEW c \in Chains, WorkerLost(c) PROVE ChainInv' /\ scores' = scores
  <2>1. UNCHANGED <<scores, scoredBy, bills>>
    BY <1>6 DEF WorkerLost, dbVars
  <2> QED
    BY <1>6, <2>1, LostControl, QuietChainStep DEF ChainInv
<1>7. CASE UNCHANGED vars
  BY <1>7 DEF vars, dbVars, ChainInv, ChainTypes, BillingInv
<1> QED
  BY <1>1, <1>2, <1>3, <1>4, <1>5, <1>6, <1>7 DEF Next, Step

\* The invariant behind the three theorems below.
THEOREM ChainInvariant == Spec => []ChainInv
<1>1. Init => ChainInv
  BY DEF Init, ChainInv, ChainTypes, BillingInv, Running, StageStart
<1> QED
  BY <1>1, ChainStep, PTL DEF Spec

\* However often the pipeline is dispatched and llm_judge redelivered, a run's
\* tokens are billed at most once, and only for stored scores.
THEOREM BillingIsUnique == Spec => []BilledOnce
<1>1. ChainInv => BilledOnce
  BY DEF ChainInv, BillingInv, BilledOnce
<1> QED
  BY <1>1, ChainInvariant, PTL

\* finalize always finds the scores it averages.
THEOREM FinalizeFollowsJudge == Spec => []FinalizeHasScores
<1>1. ChainInv => FinalizeHasScores
  BY DEF ChainInv, BillingInv, FinalizeHasScores
<1> QED
  BY <1>1, ChainInvariant, PTL

\* The unique index makes scores immutable: no step of any chain changes them.
THEOREM ScoresNeverChange == Spec => ScoresAreFinal
<1>1. ChainInv /\ [Next]_vars => [scores # None => scores' = scores]_vars
  BY ChainStep
<1> QED
  BY <1>1, ChainInvariant, PTL DEF Spec, ScoresAreFinal

---------------------------------------------------------------------------
(***************************************************************************)
(* The rows.  The properties below need to know what is in the tables:     *)
(* these are the parts of their inductive invariants.                      *)
(***************************************************************************)

\* The verdict of the fabrication check on a claim.
Verdict(claim) == IF Flagged(claim) THEN VerificationStatus(claim) ELSE "unverified"

\* Rows of claims.
ClaimRows ==
    [batch : Nat, by : Chains, claim : ClaimRecords, status : {"unverified", "disputed"}]

\* The rows of claims and contradictions, and what is left to assess of them.
DataInv ==
    /\ report \in [Chains -> Reports]
    /\ claims \in Seq(ClaimRows)
    /\ IsFiniteSet(contradictions)
    /\ \A x \in contradictions : x.severity \in 0..100
    /\ toAssess \in [Chains -> SUBSET Nat]
    /\ \A c \in Chains : \A i \in toAssess[c] : i \in 1..Len(claims) /\ Flagged(claims[i].claim)

\* Scores, risks and counters; what llm_judge is about to store is valid.
LevelsInv ==
    /\ retries \in [Chains -> 0..3]
    /\ risk \in [Chains -> 0..One]
    /\ DOMAIN validated = Chains
    /\ \A c \in Chains : pc[c] = "store" => Validated(validated[c])
    /\ scores = None \/ scores \in [Dimensions -> 0..One]
    /\ overall \in 0..One \cup {Unset}
    /\ final \in [Chains -> 0..One \cup {Unset}]
    /\ faults \in 0..MaxFaults

\* Without a fault the chain that stored the scores is past llm_judge, and only
\* another one can be broken.
OutageInv ==
    faults = 0 => \A c \in Chains :
        /\ scores # None /\ scoredBy = c => pc[c] \in {"bill", "billed", "score", "complete", "done"}
        /\ pc[c] = "broken" => scores # None /\ scoredBy # c

\* llm_judge and what comes after it.
Judged == {"judge", "store", "bill", "billed", "score", "complete"}

\* A claim carries its verdict or none yet; a chain in fabrication has still to
\* assess those of its claims that carry none.
AssessInv ==
    /\ \A i \in 1..Len(claims) : claims[i].status \in {"unverified", Verdict(claims[i].claim)}
    /\ \A c \in Chains : \A i \in 1..Len(claims) :
          claims[i].by = c /\ (pc[c] \in Judged \/ (pc[c] = "assess" /\ i \notin toAssess[c]))
              => claims[i].status = Verdict(claims[i].claim)

\* No other chain has begun, and nothing has failed.
Alone(c) == faults = 0 /\ \A d \in Chains \ {c} : pc[d] = "cross"

\* The rows cross_check inserts for what it found.
FoundRows(found, batch) ==
    {[batch |-> batch, pair |-> p, severity |-> found[p]] : p \in DOMAIN found}

\* What a chain alone has made of the report, up to each of its stages.
AloneInv(c) ==
    Alone(c) =>
        /\ pc[c] = "cross" => contradictions = {}
        /\ pc[c] # "cross" => \E found \in Contradictions(report[c]), b \in Nat :
                                 contradictions = FoundRows(found, b)
        /\ pc[c] # "done" => overall = Unset
        /\ pc[c] = "complete" => final[c] \in ReferenceScores(c)
        /\ overall # Unset => overall \in ReferenceScores(c)

---------------------------------------------------------------------------
\* The image of a finite set under a one-to-one function is as large.
LEMMA SameSize ==
    ASSUME NEW S, IsFiniteSet(S), NEW T, NEW f \in [S -> T],
           \A x, y \in S : f[x] = f[y] => x = y, \A z \in T : \E x \in S : f[x] = z
    PROVE  IsFiniteSet(T) /\ Cardinality(T) = Cardinality(S)
<1>1. f \in Bijection(S, T)
  BY DEF Bijection, Injection, Surjection, IsInjective
<1> QED BY <1>1, FS_Bijection DEF ExistsBijection

\* Pairs of positions of a finite list are finitely many.
LEMMA PairsAreFinite ==
    ASSUME NEW cs, Len(cs) \in Nat
    PROVE  IsFiniteSet(ContradictoryPairs(cs))
<1>1. IsFiniteSet(1..Len(cs))
  BY FS_Interval
<1>2. IsFiniteSet((1..Len(cs)) \X (1..Len(cs)))
  BY <1>1, FS_Product
<1>3. ContradictoryPairs(cs) \in SUBSET ((1..Len(cs)) \X (1..Len(cs)))
  BY DEF ContradictoryPairs
<1> QED BY <1>2, <1>3, FS_Subset

\* cross_check inserts finitely many contradictions, with severities in range.
LEMMA FoundInRange ==
    ASSUME NEW cs \in Seq(ClaimRecords), NEW found \in Contradictions(cs), NEW b
    PROVE  /\ IsFiniteSet(FoundRows(found, b))
           /\ \A x \in FoundRows(found, b) : x.severity \in 0..100
<1> DEFINE P == ContradictoryPairs(cs)
<1>1. DOMAIN found = P /\ \A p \in P : found[p] \in detect_contradiction(cs[p[1]].nums, cs[p[2]].nums)
  BY DEF Contradictions
<1>2. IsFiniteSet(P)
  BY PairsAreFinite
<1>3. ASSUME NEW p \in P PROVE found[p] \in 0..100
  <2>1. p[1] \in 1..Len(cs) /\ p[2] \in 1..Len(cs)
    BY <1>3 DEF ContradictoryPairs
  <2>2. cs[p[1]] \in ClaimRecords /\ cs[p[2]] \in ClaimRecords
    BY <2>1
  <2>3. cs[p[1]].nums \in Seq(Nat) /\ cs[p[2]].nums \in Seq(Nat)
    BY <2>2 DEF ClaimRecords
  <2> QED BY <1>1, <1>3, <2>3, SeverityInRange
<1> HIDE DEF P
<1> DEFINE g == [p \in P |-> [batch |-> b, pair |-> p, severity |-> found[p]]]
<1>4. \A p, q \in P : g[p] = g[q] => p = q
  <2>1. \A p \in P : g[p].pair = p
    OBVIOUS
  <2> HIDE DEF g
  <2> QED BY <2>1
<1>5. g \in [P -> FoundRows(found, b)] /\ \A z \in FoundRows(found, b) : \E p \in P : g[p] = z
  BY <1>1 DEF FoundRows
<1>6. IsFiniteSet(FoundRows(found, b))
  <2> HIDE DEF g
  <2> QED BY <1>2, <1>4, <1>5, SameSize
<1>7. \A x \in FoundRows(found, b) : x.severity \in 0..100
  BY <1>1, <1>3 DEF FoundRows
<1> QED BY <1>6, <1>7

\* What cross_check leaves in the two tables.
LEMMA CrossRows ==
    ASSUME DataInv, NEW c \in Chains, CrossCheck(c)
    PROVE  \/ Len(report[c]) < 2 /\ UNCHANGED <<claims, contradictions>>
           \/ /\ claims' \in Seq(ClaimRows)
              /\ Len(claims') \in Nat /\ Len(claims') >= Len(claims)
              /\ \A i \in 1..Len(claims) : claims'[i] = claims[i]
              /\ \A i \in 1..Len(claims') :
                    i \notin 1..Len(claims) => claims'[i].by = c /\ claims'[i].status = "unverified"
              /\ \E found \in Contradictions(report[c]), b \in Nat :
                    contradictions' = contradictions \cup FoundRows(found, b)
<1> DEFINE batch == IF Batches = {} THEN 1 ELSE Max(Batches) + 1
           new == [i \in 1..Len(report[c]) |->
                     [batch |-> batch, by |-> c, claim |-> report[c][i], status |-> "unverified"]]
<1>1. report[c] \in Seq(ClaimRecords)
  BY ChainBounds DEF DataInv
<1>2. batch \in Nat
  <2>1. CASE Batches = {}
    BY <2>1
  <2>2. CASE Batches # {}
    <3>1. claims \in Seq(ClaimRows) /\ Len(claims) \in Nat
      BY DEF DataInv
    <3>2. Batches \in SUBSET Nat
      <4>1. \A i \in 1..Len(claims) : claims[i] \in ClaimRows
        BY <3>1
      <4>2. \A i \in 1..Len(claims) : claims[i].batch \in Nat
        BY <4>1 DEF ClaimRows
      <4> QED BY <4>2 DEF Batches
    <3>3. IsFiniteSet(Batches)
      <4>1. IsFiniteSet(1..Len(claims))
        BY <3>1, FS_Interval
      <4> DEFINE f == [i \in 1..Len(claims) |-> claims[i].batch]
      <4>2. f \in Surjection(1..Len(claims), Batches)
        BY DEF Surjection, Batches
      <4> QED BY <4>1, <4>2, FS_Surjection
    <3>4. Max(Batches) \in Nat
      BY <2>2, <3>2, <3>3, MaxOfFinite
    <3> QED BY <2>2, <3>4
  <2> QED BY <2>1, <2>2
<1> HIDE DEF batch
<1>3. new \in Seq(ClaimRows) /\ Len(new) \in Nat
      /\ \A i \in 1..Len(new) : new[i].by = c /\ new[i].status = "unverified"
  <2>1. Len(report[c]) \in Nat
    BY <1>1
  <2>2. \A i \in 1..Len(report[c]) : new[i] \in ClaimRows
    BY <1>1, <1>2 DEF ClaimRows
  <2>3. new \in [1..Len(report[c]) -> ClaimRows]
    BY <2>2
  <2>4. new \in Seq(ClaimRows) /\ Len(new) = Len(report[c])
    <3> HIDE DEF new
    <3> QED BY <2>1, <2>3
  <2>5. \A i \in 1..Len(report[c]) : new[i].by = c /\ new[i].status = "unverified"
    OBVIOUS
  <2> HIDE DEF new
  <2> QED BY <2>1, <2>4, <2>5
<1>4. CASE Len(report[c]) >= 2
  <2>1. claims' = claims \o new
    <3>1. ~(Len(report[c]) < 2)
      BY <1>1, <1>4
    <3> QED BY <3>1 DEF CrossCheck, batch
  <2>2. \E found \in Contradictions(report[c]) :
           contradictions' = contradictions \cup FoundRows(found, batch)
    BY <1>1, <1>4 DEF CrossCheck, FoundRows, batch
  <2> HIDE DEF new
  <2>3. claims \in Seq(ClaimRows) /\ Len(claims) \in Nat
    BY DEF DataInv
  <2>4. /\ claims' \in Seq(ClaimRows) /\ Len(claims') = Len(claims) + Len(new)
        /\ \A i \in 1..Len(claims) : claims'[i] = claims[i]
        /\ \A i \in Len(claims) + 1 .. Len(claims) + Len(new) : claims'[i] = new[i - Len(claims)]
    BY <1>3, <2>1, <2>3
  <2>5. ASSUME NEW i \in 1..Len(claims'), i \notin 1..Len(claims)
        PROVE  claims'[i].by = c /\ claims'[i].status = "unverified"
    <3>1. i \in Len(claims) + 1 .. Len(claims) + Len(new) /\ i - Len(claims) \in 1..Len(new)
      BY <1>3, <2>3, <2>4, <2>5
    <3> QED BY <1>3, <2>4, <3>1
  <2>6. Len(claims') \in Nat /\ Len(claims') >= Len(claims)
    BY <1>3, <2>3, <2>4
  <2> QED BY <1>2, <2>2, <2>4, <2>5, <2>6
<1>5. CASE ~(Len(report[c]) >= 2)
  BY <1>1, <1>5 DEF CrossCheck
<1> QED BY <1>4, <1>5

\* What fabrication does to the claim with the least position left.
LEMMA AssessRows ==
    ASSUME DataInv, NEW c \in Chains, AssessClaim(c)
    PROVE  \E i \in toAssess[c] :
              /\ claims' \in Seq(ClaimRows) /\ Len(claims') = Len(claims) /\ Len(claims) \in Nat
              /\ i \in 1..Len(claims) /\ Flagged(claims[i].claim)
              /\ \A j \in 1..Len(claims) :
                    /\ claims'[j].claim = claims[j].claim /\ claims'[j].by = claims[j].by
                    /\ claims'[j].status = IF j = i THEN VerificationStatus(claims[i].claim)
                                           ELSE claims[j].status
              /\ toAssess' = [toAssess EXCEPT ![c] = @ \ {i}]
<1> DEFINE i == Min(toAssess[c])
<1>1. toAssess[c] \in SUBSET Nat /\ toAssess[c] # {}
  BY DEF DataInv, AssessClaim
<1>2. i \in toAssess[c]
  BY <1>1, MinOfNumbers
<1>3. /\ claims' = [claims EXCEPT ![i].status = VerificationStatus(claims[i].claim)]
      /\ toAssess' = [toAssess EXCEPT ![c] = @ \ {i}]
  BY DEF AssessClaim
<1> HIDE DEF i
<1>4. claims \in Seq(ClaimRows) /\ Len(claims) \in Nat /\ i \in 1..Len(claims)
      /\ Flagged(claims[i].claim)
  BY <1>2 DEF DataInv
<1>5. claims[i] \in ClaimRows
  BY <1>4
<1> DEFINE new == [claims[i] EXCEPT !.status = VerificationStatus(claims[i].claim)]
<1>6. /\ new \in ClaimRows /\ new.claim = claims[i].claim /\ new.by = claims[i].by
      /\ new.status = VerificationStatus(claims[i].claim)
  BY <1>5 DEF ClaimRows, VerificationStatus
<1>7. claims' = [claims EXCEPT ![i] = new]
  BY <1>3
<1> HIDE DEF new
<1>8. claims' \in Seq(ClaimRows) /\ Len(claims') = Len(claims)
      /\ \A j \in 1..Len(claims) : claims'[j] = IF j = i THEN new ELSE claims[j]
  BY <1>4, <1>6, <1>7
<1>9. ASSUME NEW j \in 1..Len(claims)
      PROVE  /\ claims'[j].claim = claims[j].claim /\ claims'[j].by = claims[j].by
             /\ claims'[j].status = IF j = i THEN VerificationStatus(claims[i].claim)
                                    ELSE claims[j].status
  BY <1>6, <1>8
<1> QED BY <1>2, <1>3, <1>4, <1>8, <1>9

\* A step of one chain.
Move(c) == Step(c) \/ TransactionFails(c) \/ WorkerLost(c)

\* The steps that leave the two tables and the messages of fabrication alone.
QuietMove(c) ==
    \/ CrossReturn(c) \/ AssessReturn(c) \/ JudgeCall(c) \/ StoreScores(c) \/ Bill(c)
    \/ JudgeReturn(c) \/ ComputeScore(c) \/ CompleteRun(c) \/ TransactionFails(c) \/ WorkerLost(c)

\* They do leave them alone.
LEMMA QuietMoves ==
    ASSUME NEW c \in Chains, QuietMove(c)
    PROVE  UNCHANGED <<report, claims, contradictions, toAssess>>
BY DEF QuietMove, CrossReturn, AssessReturn, JudgeCall, StoreScores, Bill, JudgeReturn, ComputeScore,
       CompleteRun, TransactionFails, WorkerLost, dbVars, msgVars

\* There are no other steps.
LEMMA Moves ==
    ASSUME NEW c \in Chains, Move(c)
    PROVE  CrossCheck(c) \/ LoadClaims(c) \/ AssessClaim(c) \/ QuietMove(c)
BY DEF Move, Step, QuietMove

\* DataInv is inductive.
LEMMA DataStep ==
    ASSUME DataInv, [Next]_vars
    PROVE  DataInv'
<1>1. ASSUME NEW c \in Chains, CrossCheck(c)
      PROVE  DataInv'
  <2>1. CASE UNCHANGED <<claims, contradictions>>
    BY <1>1, <2>1 DEF CrossCheck, msgVars, DataInv
  <2>2. ASSUME claims' \in Seq(ClaimRows), Len(claims') \in Nat, Len(claims') >= Len(claims),
               \A i \in 1..Len(claims) : claims'[i] = claims[i],
               NEW found \in Contradictions(report[c]), NEW b \in Nat,
               contradictions' = contradictions \cup FoundRows(found, b)
        PROVE  DataInv'
    <3>1. UNCHANGED <<report, toAssess>>
      BY <1>1 DEF CrossCheck, msgVars
    <3>2. report[c] \in Seq(ClaimRecords)
      BY ChainBounds DEF DataInv
    <3>3. /\ IsFiniteSet(FoundRows(found, b))
          /\ \A x \in FoundRows(found, b) : x.severity \in 0..100
      BY <3>2, FoundInRange
    <3>4. IsFiniteSet(contradictions')
      BY <2>2, <3>3, FS_Union DEF DataInv
    <3>5. \A x \in contradictions' : x.severity \in 0..100
      BY <2>2, <3>3 DEF DataInv
    <3>6. ASSUME NEW d \in Chains, NEW i \in toAssess[d]
          PROVE  i \in 1..Len(claims') /\ Flagged(claims'[i].claim)
      <4>1. i \in 1..Len(claims) /\ Flagged(claims[i].claim)
        BY <3>6 DEF DataInv
      <4>2. Len(claims) \in Nat
        BY DEF DataInv
      <4> QED BY <2>2, <4>1, <4>2
    <3> QED BY <2>2, <3>1, <3>4, <3>5, <3>6 DEF DataInv
  <2> QED BY <1>1, <2>1, <2>2, CrossRows
<1>2. ASSUME NEW c \in Chains, LoadClaims(c)
      PROVE  DataInv'
  <2>1. UNCHANGED <<report, claims, contradictions>>
        /\ toAssess' = [toAssess EXCEPT ![c] = {i \in 1..Len(claims) : Flagged(claims[i].claim)}]
    BY <1>2 DEF LoadClaims, dbVars
  <2>2. Len(claims) \in Nat
    BY DEF DataInv
  <2>3. {i \in 1..Len(claims) : Flagged(claims[i].claim)} \in SUBSET Nat
    BY <2>2
  <2> QED BY <2>1, <2>3 DEF DataInv
<1>3. ASSUME NEW c \in Chains, AssessClaim(c)
      PROVE  DataInv'
  <2>1. UNCHANGED <<report, contradictions>>
    BY <1>3 DEF AssessClaim
  <2>2. PICK i \in toAssess[c] :
              /\ claims' \in Seq(ClaimRows) /\ Len(claims') = Len(claims)
              /\ \A j \in 1..Len(claims) : claims'[j].claim = claims[j].claim
              /\ toAssess' = [toAssess EXCEPT ![c] = @ \ {i}]
    BY <1>3, AssessRows
  <2>3. toAssess' \in [Chains -> SUBSET Nat]
        /\ \A d \in Chains : toAssess'[d] \subseteq toAssess[d]
    BY <2>2 DEF DataInv
  <2> QED BY <2>1, <2>2, <2>3 DEF DataInv
<1>4. ASSUME UNCHANGED <<report, claims, contradictions, toAssess>>
      PROVE  DataInv'
  BY <1>4 DEF DataInv
<1>5. ASSUME NEW c \in Chains, Move(c)
      PROVE  DataInv'
  BY <1>1, <1>2, <1>3, <1>4, <1>5, Moves, QuietMoves
<1>6. CASE UNCHANGED vars
  BY <1>4, <1>6 DEF vars, dbVars, msgVars
<1> QED BY <1>5, <1>6 DEF Next, Move

\* The average risk of the claims lies between 0 and 1.
LEMMA AverageRisk ==
    ASSUME DataInv, NEW r \in IF claims = <<>> THEN {0} ELSE Nearest(100 * TotalRisk, Len(claims))
    PROVE  r \in 0..One
<1> DEFINE n == Len(claims)
           f == [i \in 1..n |-> RiskScore(claims[i].claim)]
<1>1. claims \in Seq(ClaimRows) /\ n \in Nat
  BY DEF DataInv
<1>2. CASE claims = <<>>
  BY <1>2 DEF One
<1>3. CASE claims # <<>>
  <2>1. n \in Nat \ {0}
    BY <1>1, <1>3
  <2>2. IsFiniteSet(1..n) /\ Cardinality(1..n) = n
    <3>1. 1 \in Int /\ n \in Int
      BY <1>1
    <3>2. IsFiniteSet(1..n) /\ Cardinality(1..n) = IF 1 > n THEN 0 ELSE n - 1 + 1
      BY <3>1, FS_Interval, Zenon
    <3> QED BY <2>1, <3>2
  <2>3. ASSUME NEW i \in 1..n PROVE f[i] \in 0..100
    <3>1. claims[i] \in ClaimRows
      BY <1>1
    <3>2. claims[i].claim \in ClaimRecords
      BY <3>1 DEF ClaimRows
    <3> QED BY <3>2, RiskInRange
  <2>4. TotalRisk = SumFunctionOnSet(f, 1..n)
    BY DEF TotalRisk, SumFunction
  <2> HIDE DEF f, n
  <2>5. TotalRisk \in 0..100 * n
    BY <2>2, <2>3, <2>4, SumInRange
  <2>6. 100 * TotalRisk \in Int /\ 0 <= 100 * TotalRisk /\ 100 * TotalRisk <= n * One /\ One \in Int
    BY <2>1, <2>5 DEF One
  <2>7. Nearest(100 * TotalRisk, n) \subseteq 0..One
    BY <2>1, <2>6, NearestInRange, Zenon
  <2> QED BY <1>3, <2>7 DEF n
<1> QED BY <1>2, <1>3

\* Whatever the claims, contradictions and risks, synthetic scores are valid.
LEMMA SyntheticScoresValid ==
    ASSUME DataInv, NEW c \in Chains, risk[c] \in 0..One, NEW v \in SyntheticScores(c)
    PROVE  Validated(v)
<1> DEFINE total == Confidence.total
           n == Confidence.n
           k == Cardinality(contradictions)
<1>1. total \in Nat /\ n \in Nat \ {0}
  <2>1. CASE claims = <<>>
    BY <2>1 DEF Confidence
  <2>2. CASE claims # <<>>
    <3> DEFINE m == Len(claims)
               f == [i \in 1..m |-> claims[i].claim.confidence]
    <3>1. claims \in Seq(ClaimRows) /\ m \in Nat \ {0}
      BY <2>2 DEF DataInv
    <3>2. total = SumFunctionOnSet(f, 1..m) /\ n = m
      BY <2>2 DEF Confidence, SumFunction
    <3>3. ASSUME NEW i \in 1..m PROVE f[i] \in Nat
      <4>1. claims[i] \in ClaimRows
        BY <3>1
      <4> QED BY <4>1 DEF ClaimRows, ClaimRecords
    <3>4. IsFiniteSet(1..m)
      BY <3>1, FS_Interval
    <3> HIDE DEF f, m, total, n
    <3>5. SumFunctionOnSet(f, 1..m) \in Nat
      BY <3>3, <3>4, SumOfNaturals
    <3> QED BY <3>1, <3>2, <3>5 DEF total, n
  <2> QED BY <2>1, <2>2
<1>2. k \in Nat
  BY FS_CardinalityType DEF DataInv
<1> HIDE DEF total, n, k
<1>3. ASSUME NEW u \in Variations
      PROVE  SyntheticValue(total, n, k, risk[c], u) \subseteq 0..One
  <2>1. u \in Int /\ -1000 <= u /\ u <= 1000
    BY ChainBounds
  <2> QED BY <1>1, <1>2, <2>1, SyntheticIsValid
<1>4. v \in [Dimensions -> UNION {SyntheticValue(total, n, k, risk[c], u) : u \in Variations}]
  BY DEF SyntheticScores, total, n, k
<1>5. \A d \in Dimensions : v[d] \in 0..One
  BY <1>3, <1>4
<1> QED BY <1>4, <1>5 DEF Validated

---------------------------------------------------------------------------
(***************************************************************************)
(* The range of every value.                                               *)
(***************************************************************************)

\* max_retries bounds the retries of a stage.
LEMMA RetryLevels ==
    ASSUME retries \in [Chains -> 0..3], NEW c \in Chains, Retry(c)
    PROVE  retries' \in [Chains -> 0..3]
<1>1. MaxRetries(pc[c]) \in {2, 3}
  BY DEF MaxRetries
<1> QED BY <1>1 DEF Retry

\* Chains that do not enter "store", and steps that leave the other values alone.
LEMMA QuietLevels ==
    ASSUME LevelsInv, NEW c \in Chains,
           \A d \in Chains \ {c} : pc'[d] = pc[d], pc'[c] # "store",
           retries' \in [Chains -> 0..3], faults' \in 0..MaxFaults,
           UNCHANGED <<risk, validated, scores, overall, final>>
    PROVE  LevelsInv'
BY DEF LevelsInv

\* finalize counts finitely many contradictions.
LEMMA BucketsAreNumbers ==
    ASSUME DataInv
    PROVE  Buckets \in [SeverityBuckets -> Nat]
<1>1. ASSUME NEW b \in SeverityBuckets
      PROVE  Cardinality({x \in contradictions : severity_bucket(x.severity) = b}) \in Nat
  <2>1. {x \in contradictions : severity_bucket(x.severity) = b} \in SUBSET contradictions
    OBVIOUS
  <2> QED BY <2>1, FS_Subset, FS_CardinalityType DEF DataInv
<1> QED BY <1>1 DEF Buckets, SeverityBuckets

\* LevelsInv is inductive.
LEMMA LevelsStep ==
    ASSUME ChainInv, DataInv, LevelsInv, [Next]_vars
    PROVE  LevelsInv'
<1>1. /\ pc \in [Chains -> Running \cup {"done", "broken"}] /\ retries \in [Chains -> 0..3]
      /\ faults \in 0..MaxFaults /\ ChainTypes
  BY DEF ChainInv, ChainTypes, LevelsInv
<1>2. ASSUME NEW c \in Chains,
             CrossCheck(c) \/ CrossReturn(c) \/ AssessClaim(c) \/ AssessReturn(c) \/ Bill(c) \/ JudgeReturn(c)
      PROVE  LevelsInv'
  <2>1. UNCHANGED <<risk, validated, scores, overall, final, faults>>
    BY <1>2 DEF CrossCheck, CrossReturn, AssessClaim, AssessReturn, Bill, JudgeReturn, dbVars, msgVars
  <2>2. pc'[c] # "store" /\ \A d \in Chains \ {c} : pc'[d] = pc[d]
    BY <1>1, <1>2 DEF CrossCheck, CrossReturn, AssessClaim, AssessReturn, Bill, JudgeReturn, Return
  <2>3. retries' \in [Chains -> 0..3]
    BY <1>1, <1>2 DEF CrossCheck, CrossReturn, AssessClaim, AssessReturn, Bill, JudgeReturn, Return
  <2> QED BY <1>1, <2>1, <2>2, <2>3, QuietLevels
<1>3. ASSUME NEW c \in Chains, TransactionFails(c) \/ WorkerLost(c)
      PROVE  LevelsInv'
  <2>1. UNCHANGED <<risk, validated, scores, overall, final>>
    BY <1>3 DEF TransactionFails, WorkerLost, dbVars, msgVars
  <2>2. faults' \in 0..MaxFaults
    BY <1>1, <1>3, ChainBounds DEF TransactionFails, WorkerLost
  <2>3. CASE WorkerLost(c)
    BY <1>1, <2>1, <2>2, <2>3, LostControl, QuietLevels DEF WorkerLost
  <2>4. CASE pc[c] \in Running /\ Retry(c)
    BY <1>1, <2>1, <2>2, <2>4, RetryControl, RetryLevels, QuietLevels
  <2>5. CASE pc' = [pc EXCEPT ![c] = "billed"] /\ UNCHANGED retries
    BY <1>1, <2>1, <2>2, <2>5, QuietLevels
  <2> QED BY <1>3, <2>3, <2>4, <2>5 DEF TransactionFails
<1>4. ASSUME NEW c \in Chains, LoadClaims(c)
      PROVE  LevelsInv'
  <2>1. UNCHANGED <<validated, scores, overall, final, retries, faults>>
        /\ pc' = [pc EXCEPT ![c] = "assess"]
    BY <1>4 DEF LoadClaims, dbVars
  <2>2. PICK r \in IF claims = <<>> THEN {0} ELSE Nearest(100 * TotalRisk, Len(claims)) :
            risk' = [risk EXCEPT ![c] = r]
    BY <1>4 DEF LoadClaims
  <2>3. r \in 0..One
    BY <2>2, AverageRisk
  <2> QED BY <1>1, <2>1, <2>2, <2>3 DEF LevelsInv
<1>5. ASSUME NEW c \in Chains, JudgeCall(c)
      PROVE  LevelsInv'
  <2>1. UNCHANGED <<risk, scores, overall, final, retries, faults>>
        /\ pc' = [pc EXCEPT ![c] = "store"]
    BY <1>5 DEF JudgeCall, dbVars
  <2>2. PICK v : Validated(v) /\ validated' = [validated EXCEPT ![c] = v]
    <3>1. PICK output : \E v \in IF Validated(output) THEN {output} ELSE SyntheticScores(c) :
                            validated' = [validated EXCEPT ![c] = v]
      BY <1>5 DEF JudgeCall
    <3>2. risk[c] \in 0..One
      BY DEF LevelsInv
    <3> QED BY <3>1, <3>2, SyntheticScoresValid
  <2> QED BY <1>1, <2>1, <2>2 DEF LevelsInv
<1>6. ASSUME NEW c \in Chains, StoreScores(c)
      PROVE  LevelsInv'
  <2>1. UNCHANGED <<risk, overall, final, faults>> /\ validated' = [validated EXCEPT ![c] = None]
        /\ pc[c] = "store"
    BY <1>6 DEF StoreScores
  <2>2. CASE Retry(c) /\ UNCHANGED scores
    <3>1. pc[c] \in Running
      BY <2>1 DEF Running, StageStart
    <3>2. pc'[c] # "store" /\ \A d \in Chains \ {c} : pc'[d] = pc[d]
      BY <1>1, <2>2, <3>1, RetryControl
    <3>3. retries' \in [Chains -> 0..3]
      BY <1>1, <2>2, RetryLevels
    <3> QED BY <2>1, <2>2, <3>2, <3>3 DEF LevelsInv
  <2>3. CASE scores' \in [Dimensions -> 0..One] /\ pc' = [pc EXCEPT ![c] = "bill"] /\ UNCHANGED retries
    BY <1>1, <2>1, <2>3 DEF LevelsInv
  <2> QED BY <1>6, <2>2, <2>3 DEF StoreScores
<1>7. ASSUME NEW c \in Chains, ComputeScore(c)
      PROVE  LevelsInv'
  <2>1. UNCHANGED <<risk, validated, scores, overall, retries, faults>>
        /\ pc'[c] # "store" /\ \A d \in Chains \ {c} : pc'[d] = pc[d]
    BY <1>1, <1>7 DEF ComputeScore, dbVars
  <2>2. final' \in [Chains -> 0..One \cup {Unset}]
    <3>1. CASE UNCHANGED final
      BY <3>1 DEF LevelsInv
    <3>2. CASE \E base \in IF scores = None THEN {5000} ELSE WeightedAverage(scores) :
                  final' = [final EXCEPT ![c] = FinalScore(base, Buckets)]
      <4>1. PICK base \in IF scores = None THEN {5000} ELSE WeightedAverage(scores) :
                  final' = [final EXCEPT ![c] = FinalScore(base, Buckets)]
        BY <3>2
      <4>2. base \in Int
        <5>1. CASE scores = None
          BY <4>1, <5>1
        <5>2. CASE scores \in [Dimensions -> 0..One] /\ scores # None
          BY <4>1, <5>2, AverageInRange
        <5> QED BY <5>1, <5>2 DEF LevelsInv
      <4>3. FinalScore(base, Buckets) \in 0..One
        BY <4>2, BucketsAreNumbers, FinalScoreInRange
      <4> QED BY <4>1, <4>3 DEF LevelsInv
    <3> QED BY <1>7, <3>1, <3>2 DEF ComputeScore
  <2> QED BY <2>1, <2>2 DEF LevelsInv
<1>8. ASSUME NEW c \in Chains, CompleteRun(c)
      PROVE  LevelsInv'
  <2>1. UNCHANGED <<risk, validated, scores, final, retries, faults>>
        /\ pc' = [pc EXCEPT ![c] = "done"] /\ overall' \in {overall, final[c]}
    BY <1>8 DEF CompleteRun, msgVars
  <2> QED BY <1>1, <2>1 DEF LevelsInv
<1>9. CASE UNCHANGED vars
  BY <1>9 DEF vars, dbVars, msgVars, LevelsInv
<1> QED BY <1>2, <1>3, <1>4, <1>5, <1>6, <1>7, <1>8, <1>9 DEF Next, Step

\* The rows and messages of the chain.
RangesInv == ChainInv /\ DataInv /\ LevelsInv

\* Initially there are no rows.
LEMMA RangesInit ==
    ASSUME Init
    PROVE  RangesInv
<1>1. ChainInv
  BY DEF Init, ChainInv, ChainTypes, BillingInv, Running, StageStart
<1>2. DataInv
  <2>1. IsFiniteSet(contradictions) /\ contradictions = {}
    BY FS_EmptySet DEF Init
  <2>2. claims = <<>> /\ claims \in Seq(ClaimRows)
    BY DEF Init
  <2> QED BY <2>1, <2>2 DEF Init, DataInv
<1>3. LevelsInv
  BY ChainBounds DEF Init, LevelsInv, One, Unset
<1> QED BY <1>1, <1>2, <1>3 DEF RangesInv

\* RangesInv is inductive.
LEMMA RangesStep ==
    ASSUME RangesInv, [Next]_vars
    PROVE  RangesInv'
BY ChainStep, DataStep, LevelsStep DEF RangesInv

\* However many chains run and whatever fails: every severity, risk and score
\* lies in [0, 1], synthetic scores included, and retries stay within
\* max_retries.
THEOREM ChainValuesInRange == Spec => []TypeOK
<1>1. RangesInv => TypeOK
  <2> SUFFICES ASSUME RangesInv PROVE TypeOK
    OBVIOUS
  <2>1. \A i \in 1..Len(claims) : claims[i].status \in {"unverified", "disputed"}
    <3>1. \A i \in 1..Len(claims) : claims[i] \in ClaimRows
      BY DEF RangesInv, DataInv
    <3> QED BY <3>1 DEF ClaimRows
  <2> QED BY <2>1 DEF RangesInv, ChainInv, ChainTypes, BillingInv, DataInv, LevelsInv, TypeOK
<1>2. Init => RangesInv
  BY RangesInit
<1>3. RangesInv /\ [Next]_vars => RangesInv'
  BY RangesStep
<1> QED BY <1>1, <1>2, <1>3, PTL DEF Spec

---------------------------------------------------------------------------
(***************************************************************************)
(* Outages.                                                                *)
(***************************************************************************)

\* The states behind the INSERT of the scores.
Behind == {"bill", "billed", "score", "complete", "done"}

\* A chain that moves on, without breaking or going back before the INSERT.
LEMMA QuietOutage ==
    ASSUME OutageInv, NEW c \in Chains, UNCHANGED <<scores, scoredBy, faults>>,
           \A d \in Chains \ {c} : pc'[d] = pc[d], pc'[c] # "broken",
           pc[c] \in Behind => pc'[c] \in Behind
    PROVE  OutageInv'
BY DEF OutageInv, Behind

\* OutageInv is inductive.
LEMMA OutageStep ==
    ASSUME RangesInv, OutageInv, [Next]_vars
    PROVE  OutageInv'
<1>1. ChainTypes /\ pc \in [Chains -> Running \cup {"done", "broken"}] /\ faults \in Nat
  BY ChainBounds DEF RangesInv, ChainInv, ChainTypes, LevelsInv
<1>2. ASSUME NEW c \in Chains,
             \/ CrossCheck(c) \/ CrossReturn(c) \/ LoadClaims(c) \/ AssessClaim(c) \/ AssessReturn(c)
             \/ JudgeCall(c) \/ Bill(c) \/ JudgeReturn(c) \/ ComputeScore(c) \/ CompleteRun(c)
      PROVE  OutageInv'
  <2>1. UNCHANGED <<scores, scoredBy, faults>>
    BY <1>2 DEF CrossCheck, CrossReturn, LoadClaims, AssessClaim, AssessReturn, JudgeCall, Bill,
                JudgeReturn, ComputeScore, CompleteRun, dbVars
  <2>2. /\ \A d \in Chains \ {c} : pc'[d] = pc[d]
        /\ pc'[c] # "broken" /\ (pc[c] \in Behind => pc'[c] \in Behind)
    BY <1>1, <1>2 DEF CrossCheck, CrossReturn, LoadClaims, AssessClaim, AssessReturn, JudgeCall, Bill,
                      JudgeReturn, ComputeScore, CompleteRun, Return, Behind
  <2> QED BY <2>1, <2>2, QuietOutage
<1>3. ASSUME NEW c \in Chains, StoreScores(c)
      PROVE  OutageInv'
  <2>1. pc[c] = "store" /\ UNCHANGED faults
    BY <1>3 DEF StoreScores
  <2>2. CASE scores = None /\ scoredBy' = c /\ pc' = [pc EXCEPT ![c] = "bill"] /\ DOMAIN scores' = Dimensions
    <3>1. scores' # None
      BY <2>2, SixScores
    <3> QED BY <1>1, <2>1, <2>2, <3>1 DEF OutageInv
  <2>3. CASE scores # None /\ Retry(c) /\ UNCHANGED <<scores, scoredBy>>
    <3>1. pc[c] \in Running
      BY <2>1 DEF Running, StageStart
    <3>2. \A d \in Chains \ {c} : pc'[d] = pc[d]
      BY <1>1, <2>3, <3>1, RetryControl
    <3> QED BY <2>1, <2>3, <3>2 DEF OutageInv
  <2>4. \A d \in Dimensions : validated[c][d] \in 0..One /\ d \in DOMAIN validated[c]
    BY <2>1 DEF RangesInv, LevelsInv, Validated
  <2> QED BY <1>3, <2>2, <2>3, <2>4 DEF StoreScores
<1>4. ASSUME NEW c \in Chains, TransactionFails(c) \/ WorkerLost(c)
      PROVE  OutageInv'
  <2>1. faults' # 0
    BY <1>1, <1>4 DEF TransactionFails, WorkerLost
  <2> QED BY <2>1 DEF OutageInv
<1>5. CASE UNCHANGED vars
  BY <1>5 DEF vars, dbVars, OutageInv
<1> QED BY <1>2, <1>3, <1>4, <1>5 DEF Next, Step

\* Whatever the two models answer, or fail to answer: as long as no transaction
\* fails and no worker is lost, a chain breaks only on the scores of another.
THEOREM OutagesAreSurvived == Spec => []OutagesDoNotBreak
<1>1. Init => RangesInv /\ OutageInv
  <2>1. Init => OutageInv
    BY DEF Init, OutageInv
  <2> QED BY <2>1, RangesInit
<1>2. (RangesInv /\ OutageInv) /\ [Next]_vars => (RangesInv /\ OutageInv)'
  BY RangesStep, OutageStep
<1>3. RangesInv /\ OutageInv => OutagesDoNotBreak
  BY DEF OutageInv, OutagesDoNotBreak
<1> QED BY <1>1, <1>2, <1>3, PTL DEF Spec

---------------------------------------------------------------------------
(***************************************************************************)
(* Verdicts.                                                               *)
(***************************************************************************)

\* A chain that leaves the rows alone and enters llm_judge only with nothing
\* left to assess.
LEMMA QuietAssess ==
    ASSUME AssessInv, NEW c \in Chains, UNCHANGED <<claims, toAssess>>,
           \A d \in Chains \ {c} : pc'[d] = pc[d], pc'[c] # "assess",
           pc'[c] \in Judged => pc[c] \in Judged \/ (pc[c] = "assess" /\ toAssess[c] = {})
    PROVE  AssessInv'
BY DEF AssessInv

\* The verdict on a claim that is not flagged is the status it was stored with.
LEMMA NoVerdict ==
    ASSUME NEW claim, NEW s, s \in {"unverified", Verdict(claim)}, ~Flagged(claim)
    PROVE  s = Verdict(claim)
BY DEF Verdict

\* AssessInv is inductive.
LEMMA AssessStep ==
    ASSUME RangesInv, AssessInv, [Next]_vars
    PROVE  AssessInv'
<1>1. DataInv /\ ChainTypes /\ pc \in [Chains -> Running \cup {"done", "broken"}]
      /\ toAssess \in [Chains -> SUBSET Nat] /\ Len(claims) \in Nat
  BY DEF RangesInv, ChainInv, ChainTypes, DataInv
<1>2. ASSUME NEW c \in Chains, CrossCheck(c)
      PROVE  AssessInv'
  <2>1. pc[c] = "cross" /\ pc' = [pc EXCEPT ![c] = "crossed"] /\ UNCHANGED toAssess
    BY <1>2 DEF CrossCheck, msgVars
  <2>2. CASE UNCHANGED claims
    BY <1>1, <2>1, <2>2, QuietAssess DEF Judged
  <2>3. CASE /\ Len(claims') \in Nat /\ Len(claims') >= Len(claims)
             /\ \A i \in 1..Len(claims) : claims'[i] = claims[i]
             /\ \A i \in 1..Len(claims') :
                   i \notin 1..Len(claims) => claims'[i].by = c /\ claims'[i].status = "unverified"
    <3>1. ASSUME NEW i \in 1..Len(claims')
          PROVE  claims'[i].status \in {"unverified", Verdict(claims'[i].claim)}
      BY <2>3, <3>1 DEF AssessInv
    <3>2. ASSUME NEW d \in Chains, NEW i \in 1..Len(claims'), claims'[i].by = d,
                 pc'[d] \in Judged \/ (pc'[d] = "assess" /\ i \notin toAssess'[d])
          PROVE  claims'[i].status = Verdict(claims'[i].claim)
      <4>1. d # c
        BY <1>1, <2>1, <3>2 DEF Judged
      <4>2. i \in 1..Len(claims)
        BY <2>3, <3>2, <4>1
      <4>3. pc'[d] = pc[d]
        BY <1>1, <2>1, <4>1
      <4> QED BY <2>1, <2>3, <3>2, <4>2, <4>3 DEF AssessInv
    <3> QED BY <3>1, <3>2 DEF AssessInv
  <2> QED BY <1>1, <1>2, <2>2, <2>3, CrossRows
<1>3. ASSUME NEW c \in Chains, LoadClaims(c)
      PROVE  AssessInv'
  <2>1. /\ UNCHANGED claims /\ pc' = [pc EXCEPT ![c] = "assess"]
        /\ toAssess' = [toAssess EXCEPT ![c] = {i \in 1..Len(claims) : Flagged(claims[i].claim)}]
    BY <1>3 DEF LoadClaims, dbVars
  <2>2. ASSUME NEW i \in 1..Len(claims), i \notin toAssess'[c]
        PROVE  claims[i].status = Verdict(claims[i].claim)
    <3>1. ~Flagged(claims[i].claim)
      BY <1>1, <2>1, <2>2
    <3> QED BY <3>1, NoVerdict DEF AssessInv
  <2>3. pc'[c] = "assess" /\ \A d \in Chains \ {c} : pc'[d] = pc[d] /\ toAssess'[d] = toAssess[d]
    BY <1>1, <2>1
  <2> QED BY <2>1, <2>2, <2>3 DEF AssessInv, Judged
<1>4. ASSUME NEW c \in Chains, AssessClaim(c)
      PROVE  AssessInv'
  <2>1. UNCHANGED pc
    BY <1>4 DEF AssessClaim
  <2>2. PICK i \in toAssess[c] :
              /\ Len(claims') = Len(claims)
              /\ i \in 1..Len(claims) /\ Flagged(claims[i].claim)
              /\ \A j \in 1..Len(claims) :
                    /\ claims'[j].claim = claims[j].claim /\ claims'[j].by = claims[j].by
                    /\ claims'[j].status = IF j = i THEN VerificationStatus(claims[i].claim)
                                           ELSE claims[j].status
              /\ toAssess' = [toAssess EXCEPT ![c] = @ \ {i}]
    BY <1>1, <1>4, AssessRows
  <2>3. claims'[i].status = Verdict(claims'[i].claim)
    BY <2>2 DEF Verdict
  <2>4. \A d \in Chains : \A j \in 1..Len(claims) : j # i /\ j \notin toAssess'[d] => j \notin toAssess[d]
    BY <1>1, <2>2
  <2>5. ASSUME NEW j \in 1..Len(claims')
        PROVE  claims'[j].status \in {"unverified", Verdict(claims'[j].claim)}
    BY <2>2, <2>3 DEF AssessInv
  <2>6. ASSUME NEW d \in Chains, NEW j \in 1..Len(claims'), claims'[j].by = d,
               pc'[d] \in Judged \/ (pc'[d] = "assess" /\ j \notin toAssess'[d])
        PROVE  claims'[j].status = Verdict(claims'[j].claim)
    BY <2>1, <2>2, <2>3, <2>4, <2>6 DEF AssessInv
  <2> QED BY <2>5, <2>6 DEF AssessInv
<1>5. ASSUME NEW c \in Chains, QuietMove(c)
      PROVE  AssessInv'
  <2>1. UNCHANGED <<claims, toAssess>>
    BY <1>5, QuietMoves
  <2>2. CASE \/ CrossReturn(c) \/ AssessReturn(c) \/ JudgeCall(c) \/ Bill(c)
             \/ JudgeReturn(c) \/ ComputeScore(c) \/ CompleteRun(c)
    <3>1. /\ \A d \in Chains \ {c} : pc'[d] = pc[d]
          /\ pc'[c] # "assess"
          /\ pc'[c] \in Judged => pc[c] \in Judged \/ (pc[c] = "assess" /\ toAssess[c] = {})
      BY <1>1, <2>2 DEF CrossReturn, AssessReturn, JudgeCall, Bill, JudgeReturn, ComputeScore,
                        CompleteRun, Return, Judged
    <3> QED BY <2>1, <3>1, QuietAssess
  <2>3. CASE pc[c] \in Running /\ Retry(c)
    <3>1. /\ \A d \in Chains \ {c} : pc'[d] = pc[d]
          /\ pc'[c] # "assess"
          /\ pc'[c] \in Judged => pc[c] \in Judged
      BY <1>1, <2>3 DEF Retry, Running, StageStart, Judged
    <3> QED BY <2>1, <3>1, QuietAssess
  <2>4. CASE WorkerLost(c)
    <3>1. /\ \A d \in Chains \ {c} : pc'[d] = pc[d]
          /\ pc'[c] # "assess"
          /\ pc'[c] \in Judged => pc[c] \in Judged
      BY <1>1, <2>4 DEF WorkerLost, Running, StageStart, Judged
    <3> QED BY <2>1, <3>1, QuietAssess
  <2>5. CASE StoreScores(c)
    <3>1. CASE pc' = [pc EXCEPT ![c] = "bill"]
      BY <1>1, <2>1, <2>5, <3>1, QuietAssess DEF StoreScores, Judged
    <3>2. CASE Retry(c)
      <4>1. pc[c] \in Running
        BY <2>5 DEF StoreScores, Running, StageStart
      <4> QED BY <2>3, <3>2, <4>1
    <3> QED BY <2>5, <3>1, <3>2 DEF StoreScores
  <2>6. CASE TransactionFails(c)
    <3>1. CASE pc[c] = "bill" /\ pc' = [pc EXCEPT ![c] = "billed"]
      BY <1>1, <2>1, <3>1, QuietAssess DEF Judged
    <3> QED BY <2>3, <2>6, <3>1 DEF TransactionFails
  <2> QED BY <1>5, <2>2, <2>4, <2>5, <2>6 DEF QuietMove
<1>6. ASSUME NEW c \in Chains, Move(c)
      PROVE  AssessInv'
  BY <1>2, <1>3, <1>4, <1>5, <1>6, Moves
<1>7. CASE UNCHANGED vars
  BY <1>7 DEF vars, dbVars, msgVars, AssessInv
<1> QED BY <1>6, <1>7 DEF Next, Move

\* However the transactions of several chains, their retries and redeliveries
\* interleave: no llm_judge reads a claim of its own chain without its verdict.
THEOREM VerdictsPrecedeJudge == Spec => []AssessedBeforeJudged
<1>1. Init => RangesInv /\ AssessInv
  <2>1. Init => AssessInv
    BY DEF Init, AssessInv, Judged
  <2> QED BY <2>1, RangesInit
<1>2. (RangesInv /\ AssessInv) /\ [Next]_vars => (RangesInv /\ AssessInv)'
  BY RangesStep, AssessStep
<1>3. RangesInv /\ AssessInv => AssessedBeforeJudged
  BY DEF AssessInv, AssessedBeforeJudged, Judged, Verdict
<1> QED BY <1>1, <1>2, <1>3, PTL DEF Spec

---------------------------------------------------------------------------
(***************************************************************************)
(* The score of a chain that runs alone.                                   *)
(***************************************************************************)

\* The contradictions found between the pairs in s, by severity bucket.
InBucket(found, s, b) == {p \in s : severity_bucket(found[p]) = b}
BucketCounts(found, s) == [b \in SeverityBuckets |-> Cardinality(InBucket(found, s, b))]

\* One pair more is one more in its bucket.
LEMMA OnePairMore ==
    ASSUME NEW s, IsFiniteSet(s), NEW x \in s, NEW found, NEW b
    PROVE  /\ Cardinality(InBucket(found, s \ {x}, b)) \in Nat
           /\ Cardinality(InBucket(found, s, b)) = Cardinality(InBucket(found, s \ {x}, b))
                                                 + (IF severity_bucket(found[x]) = b THEN 1 ELSE 0)
<1> DEFINE A == InBucket(found, s, b)
           B == InBucket(found, s \ {x}, b)
<1>1. IsFiniteSet(A) /\ IsFiniteSet(B)
  <2>1. A \in SUBSET s /\ B \in SUBSET s
    BY DEF InBucket
  <2> QED BY <2>1, FS_Subset
<1>2. Cardinality(A) \in Nat /\ Cardinality(B) \in Nat
  BY <1>1, FS_CardinalityType
<1>3. CASE severity_bucket(found[x]) = b
  <2>1. x \in A /\ B = A \ {x}
    BY <1>3 DEF InBucket
  <2> HIDE DEF A, B
  <2>2. Cardinality(B) = Cardinality(A) - 1
    BY <1>1, <2>1, FS_RemoveElement
  <2> QED BY <1>2, <1>3, <2>2 DEF A, B
<1>4. CASE severity_bucket(found[x]) # b
  <2>1. B = A
    BY <1>4 DEF InBucket
  <2> QED BY <1>2, <1>4, <2>1
<1> QED BY <1>3, <1>4

\* finalize's penalty, computed from the counts per bucket, is the sum of what
\* each contradiction costs.
LEMMA PenaltyAddsUp ==
    ASSUME NEW P, IsFiniteSet(P), NEW found, \A p \in P : found[p] \in 0..100
    PROVE  SumFunction([p \in P |-> PenaltyFor(found[p])]) = Penalty(BucketCounts(found, P))
<1> DEFINE f == [p \in P |-> PenaltyFor(found[p])]
<1>1. PICK g : AddsUp(g, f, P)
  BY SumBySteps
<1> DEFINE W == {s \in SUBSET P : g[s] # Penalty(BucketCounts(found, s))}
<1>2. ASSUME NEW s \in W PROVE s # {} /\ \E x \in s : s \ {x} \in W
  <2>1. s # {}
    <3>1. \A b : InBucket(found, {}, b) = {}
      BY DEF InBucket
    <3>2. BucketCounts(found, {}) = [b \in SeverityBuckets |-> 0]
      BY <3>1, FS_EmptySet DEF BucketCounts
    <3>3. Penalty(BucketCounts(found, {})) = 0
      BY <3>2 DEF Penalty, SeverityBuckets
    <3> QED BY <1>1, <1>2, <3>3 DEF AddsUp
  <2>2. PICK x \in s : g[s] = f[x] + g[s \ {x}]
    BY <1>1, <2>1 DEF AddsUp
  <2>3. IsFiniteSet(s)
    BY FS_Subset
  <2> DEFINE old == BucketCounts(found, s \ {x})
             new == BucketCounts(found, s)
  <2>4. \A b \in SeverityBuckets :
            old[b] \in Nat /\ new[b] = old[b] + (IF severity_bucket(found[x]) = b THEN 1 ELSE 0)
    BY <2>3, OnePairMore DEF BucketCounts
  <2>5. found[x] \in 0..100 /\ f[x] = PenaltyFor(found[x])
    BY <2>2
  <2> HIDE DEF old, new, f
  <2>6. Penalty(new) = f[x] + Penalty(old) /\ Penalty(old) \in Nat
    <3>1. /\ old["critical"] \in Nat /\ old["high"] \in Nat /\ old["medium"] \in Nat
          /\ new["critical"] = old["critical"] + (IF severity_bucket(found[x]) = "critical" THEN 1 ELSE 0)
          /\ new["high"] = old["high"] + (IF severity_bucket(found[x]) = "high" THEN 1 ELSE 0)
          /\ new["medium"] = old["medium"] + (IF severity_bucket(found[x]) = "medium" THEN 1 ELSE 0)
      BY <2>4 DEF SeverityBuckets
    <3> QED BY <2>5, <3>1 DEF Penalty, PenaltyFor, severity_bucket
  <2>7. s \ {x} \in SUBSET P
    OBVIOUS
  <2> QED BY <1>2, <2>1, <2>2, <2>6, <2>7 DEF old, new
<1>3. W = {}
  <2> HIDE DEF W
  <2>1. W \in SUBSET (SUBSET P)
    BY DEF W
  <2> QED BY <1>2, <2>1, NoLeastSet
<1>4. SumFunctionOnSet(f, P) = Penalty(BucketCounts(found, P))
  BY <1>1, <1>3 DEF AddsUp
<1> QED BY <1>4 DEF SumFunction

\* count_by_severity_bucket counts the rows of one batch as the pairs they are of.
LEMMA RowsAsPairs ==
    ASSUME NEW found, IsFiniteSet(DOMAIN found), NEW batch, contradictions = FoundRows(found, batch)
    PROVE  Buckets = BucketCounts(found, DOMAIN found)
<1>1. ASSUME NEW b \in SeverityBuckets
      PROVE  Cardinality({x \in contradictions : severity_bucket(x.severity) = b})
             = Cardinality(InBucket(found, DOMAIN found, b))
  <2> DEFINE S == InBucket(found, DOMAIN found, b)
             T == {x \in contradictions : severity_bucket(x.severity) = b}
             row(p) == [batch |-> batch, pair |-> p, severity |-> found[p]]
             h == [p \in S |-> row(p)]
  <2>1. IsFiniteSet(S)
    <3>1. S \in SUBSET DOMAIN found
      BY DEF InBucket
    <3> QED BY <3>1, FS_Subset
  <2>2. \A p \in S : row(p) \in T /\ row(p).pair = p
    BY DEF InBucket, FoundRows
  <2>3. \A z \in T : \E p \in S : row(p) = z
    <3> SUFFICES ASSUME NEW z \in T PROVE \E p \in S : row(p) = z
      OBVIOUS
    <3>1. PICK p \in DOMAIN found : z = row(p)
      BY DEF FoundRows
    <3>2. z.severity = found[p]
      BY <3>1
    <3> QED BY <3>1, <3>2 DEF InBucket
  <2> HIDE DEF row, S, T
  <2>4. h \in [S -> T] /\ \A x, y \in S : h[x] = h[y] => x = y
    BY <2>2
  <2>5. \A z \in T : \E p \in S : h[p] = z
    BY <2>3
  <2> HIDE DEF h
  <2>6. Cardinality(T) = Cardinality(S)
    BY <2>1, <2>4, <2>5, SameSize
  <2> QED BY <2>6 DEF S, T
<1> QED BY <1>1 DEF Buckets, BucketCounts, SeverityBuckets

\* With the contradictions of one report stored once, finalize computes a score
\* that the report deserves.
LEMMA ComputesReference ==
    ASSUME RangesInv, NEW c \in Chains, scores # None, NEW base \in WeightedAverage(scores),
           NEW found \in Contradictions(report[c]), NEW b, contradictions = FoundRows(found, b)
    PROVE  FinalScore(base, Buckets) \in ReferenceScores(c)
<1> DEFINE P == DOMAIN found
<1>1. report[c] \in Seq(ClaimRecords)
  BY ChainBounds DEF RangesInv, DataInv
<1>2. P = ContradictoryPairs(report[c]) /\ IsFiniteSet(P)
  BY <1>1, PairsAreFinite DEF Contradictions
<1>3. \A p \in P : found[p] \in 0..100
  <2>1. \A x \in FoundRows(found, b) : x.severity \in 0..100
    BY <1>1, FoundInRange
  <2>2. ASSUME NEW p \in P PROVE found[p] \in 0..100
    <3> DEFINE x == [batch |-> b, pair |-> p, severity |-> found[p]]
    <3>1. x \in FoundRows(found, b) /\ x.severity = found[p]
      BY DEF FoundRows
    <3> QED BY <2>1, <3>1
  <2> QED BY <2>2
<1> DEFINE cost == SumFunction([p \in P |-> PenaltyFor(found[p])])
<1>4. Penalty(Buckets) = cost
  BY <1>2, <1>3, PenaltyAddsUp, RowsAsPairs
<1>5. Penalty(Buckets) \in Nat
  BY BucketsAreNumbers, PenaltyIsNatural DEF RangesInv
<1>6. base \in 0..One
  BY AverageInRange DEF RangesInv, LevelsInv
<1>7. FinalScore(base, Buckets) = AtLeast(base - cost, 0)
  <2> DEFINE pen == Penalty(Buckets)
  <2>1. FinalScore(base, Buckets) = AtLeast(AtMost(base - pen, One), 0) /\ pen = cost
    BY <1>4 DEF FinalScore
  <2>2. pen \in Nat
    BY <1>5
  <2> HIDE DEF cost, pen
  <2>3. base - pen \in Int /\ ~(base - pen > One)
    BY <1>6, <2>2 DEF One
  <2> QED BY <2>1, <2>3 DEF AtMost
<1>8. AtLeast(base - cost, 0) \in ReferenceScores(c)
  <2> DEFINE D(x, f) == AtLeast(x - SumFunction([p \in DOMAIN f |-> PenaltyFor(f[p])]), 0)
  <2>1. ReferenceScores(c) = {D(x, f) : x \in WeightedAverage(scores), f \in Contradictions(report[c])}
    BY DEF ReferenceScores
  <2>2. AtLeast(base - cost, 0) = D(base, found)
    OBVIOUS
  <2> HIDE DEF D, cost
  <2>3. D(base, found) \in {D(x, f) : x \in WeightedAverage(scores), f \in Contradictions(report[c])}
    OBVIOUS
  <2> QED BY <2>1, <2>2, <2>3
<1> QED BY <1>7, <1>8

\* Fewer than two claims have no contradictions.
LEMMA NothingToCompare ==
    ASSUME NEW cs, Len(cs) \in Nat, Len(cs) < 2
    PROVE  \E found \in Contradictions(cs) : FoundRows(found, 1) = {}
<1> DEFINE found == [p \in {} |-> 0]
<1>1. ContradictoryPairs(cs) = {}
  BY DEF ContradictoryPairs
<1>2. found \in Contradictions(cs)
  BY <1>1 DEF Contradictions
<1>3. FoundRows(found, 1) = {}
  BY DEF FoundRows
<1> QED BY <1>2, <1>3

\* Without a fault no chain comes back to the beginning of cross_check.
LEMMA NeverCrossAgain ==
    ASSUME RangesInv, NEW c \in Chains, Move(c), faults' = 0
    PROVE  faults = 0 /\ pc'[c] # "cross" /\ Step(c)
           /\ \A d \in Chains \ {c} : pc'[d] = pc[d]
<1>1. ChainTypes /\ pc \in [Chains -> Running \cup {"done", "broken"}] /\ faults \in Nat
  BY ChainBounds DEF RangesInv, ChainInv, ChainTypes, LevelsInv
<1>2. Step(c)
  BY <1>1 DEF Move, TransactionFails, WorkerLost
<1>3. CASE StoreScores(c)
  <2>1. pc[c] = "store" /\ UNCHANGED faults
    BY <1>3 DEF StoreScores
  <2>2. CASE Retry(c)
    BY <1>1, <1>2, <2>1, <2>2 DEF Retry, StageStart
  <2>3. CASE pc' = [pc EXCEPT ![c] = "bill"]
    BY <1>1, <1>2, <2>1, <2>3
  <2> QED BY <1>3, <2>2, <2>3 DEF StoreScores
<1>4. CASE ~StoreScores(c)
  BY <1>1, <1>2, <1>4
     DEF Step, CrossCheck, CrossReturn, LoadClaims, AssessClaim, AssessReturn, JudgeCall, Bill,
         JudgeReturn, ComputeScore, CompleteRun, Return
<1> QED BY <1>3, <1>4

\* A chain past cross_check that neither computes nor stores its score.
LEMMA QuietAlone ==
    ASSUME NEW c \in Chains, Alone(c), AloneInv(c), pc[c] # "cross", pc[c] # "done", pc'[c] # "complete",
           UNCHANGED <<report, contradictions, overall>>, pc'[c] # "cross"
    PROVE  AloneInv(c)'
<1>1. overall' = Unset
  BY DEF AloneInv
<1>2. \E found \in Contradictions(report[c]), b \in Nat : contradictions = FoundRows(found, b)
  BY DEF AloneInv
<1>3. \E found \in Contradictions(report'[c]), b \in Nat : contradictions' = FoundRows(found, b)
  BY <1>2
<1> QED BY <1>1, <1>3 DEF AloneInv

\* AloneInv is inductive.
LEMMA AloneStep ==
    ASSUME RangesInv, \A c \in Chains : AloneInv(c), [Next]_vars
    PROVE  \A c \in Chains : AloneInv(c)'
<1> SUFFICES ASSUME NEW c \in Chains, Alone(c)'
             PROVE  AloneInv(c)'
  BY DEF AloneInv
<1>1. ChainTypes /\ pc \in [Chains -> Running \cup {"done", "broken"}] /\ DataInv
      /\ report[c] \in Seq(ClaimRecords) /\ final \in [Chains -> 0..One \cup {Unset}]
      /\ Unset \notin 0..One
  BY ChainBounds DEF RangesInv, ChainInv, ChainTypes, DataInv, LevelsInv, Unset
<1>2. ASSUME NEW d \in Chains, d # c, Move(d)
      PROVE  FALSE
  BY <1>2, NeverCrossAgain DEF Alone
<1>3. ASSUME Move(c)
      PROVE  AloneInv(c)'
  <2>1. Alone(c) /\ Step(c) /\ pc'[c] # "cross" /\ AloneInv(c)
    BY <1>3, NeverCrossAgain DEF Alone
  <2>2. CASE CrossCheck(c)
    <3>1. /\ pc[c] = "cross" /\ pc' = [pc EXCEPT ![c] = "crossed"] /\ UNCHANGED <<report, overall>>
      BY <2>2 DEF CrossCheck, msgVars
    <3>2. contradictions = {} /\ overall' = Unset /\ pc'[c] = "crossed"
      BY <1>1, <2>1, <3>1 DEF AloneInv
    <3>3. \E found \in Contradictions(report[c]), b \in Nat : contradictions' = FoundRows(found, b)
      <4>1. CASE Len(report[c]) < 2 /\ UNCHANGED contradictions
        <5>1. Len(report[c]) \in Nat /\ Len(report[c]) < 2 /\ contradictions' = {}
          BY <1>1, <3>2, <4>1
        <5>2. PICK found \in Contradictions(report[c]) : FoundRows(found, 1) = {}
          BY <5>1, NothingToCompare
        <5> QED BY <5>1, <5>2
      <4>2. CASE \E found \in Contradictions(report[c]), b \in Nat :
                    contradictions' = contradictions \cup FoundRows(found, b)
        BY <3>2, <4>2
      <4> QED BY <1>1, <2>2, <4>1, <4>2, CrossRows
    <3> QED BY <3>1, <3>2, <3>3 DEF AloneInv
  <2>3. CASE ComputeScore(c)
    <3>1. /\ pc[c] = "score" /\ UNCHANGED <<report, contradictions, scores, overall>>
      BY <2>3 DEF ComputeScore, dbVars
    <3>2. overall = Unset /\ scores # None
      BY <2>1, <3>1 DEF AloneInv, RangesInv, ChainInv, BillingInv
    <3>3. PICK base \in WeightedAverage(scores) :
              final' = [final EXCEPT ![c] = FinalScore(base, Buckets)] /\ pc' = [pc EXCEPT ![c] = "complete"]
      BY <2>3, <3>2 DEF ComputeScore
    <3>4. PICK found \in Contradictions(report[c]), b \in Nat : contradictions = FoundRows(found, b)
      BY <2>1, <3>1 DEF AloneInv
    <3>5. final'[c] \in ReferenceScores(c)
      BY <1>1, <3>2, <3>3, <3>4, ComputesReference
    <3>6. ReferenceScores(c)' = ReferenceScores(c)
      BY <3>1 DEF ReferenceScores
    <3>7. \E f \in Contradictions(report'[c]), k \in Nat : contradictions' = FoundRows(f, k)
      BY <3>1, <3>4
    <3> QED BY <1>1, <2>1, <3>1, <3>2, <3>3, <3>5, <3>6, <3>7 DEF AloneInv
  <2>4. CASE CompleteRun(c)
    <3>1. /\ pc[c] = "complete" /\ UNCHANGED <<report, contradictions, scores>>
          /\ pc' = [pc EXCEPT ![c] = "done"]
          /\ overall' = IF overall = Unset THEN final[c] ELSE overall
      BY <2>4 DEF CompleteRun, msgVars
    <3>2. overall' \in ReferenceScores(c)
      BY <2>1, <3>1 DEF AloneInv
    <3>3. ReferenceScores(c)' = ReferenceScores(c)
      BY <3>1 DEF ReferenceScores
    <3>4. PICK found \in Contradictions(report[c]), b \in Nat : contradictions = FoundRows(found, b)
      BY <2>1, <3>1 DEF AloneInv
    <3>5. \E f \in Contradictions(report'[c]), k \in Nat : contradictions' = FoundRows(f, k)
      BY <3>1, <3>4
    <3>6. pc'[c] = "done"
      BY <1>1, <3>1
    <3> QED BY <3>2, <3>3, <3>5, <3>6 DEF AloneInv
  <2>5. CASE \/ CrossReturn(c) \/ LoadClaims(c) \/ AssessClaim(c) \/ AssessReturn(c)
             \/ JudgeCall(c) \/ Bill(c) \/ JudgeReturn(c)
    <3>1. UNCHANGED <<report, contradictions, overall>>
      BY <2>5 DEF CrossReturn, LoadClaims, AssessClaim, AssessReturn, JudgeCall, Bill, JudgeReturn,
                  dbVars, msgVars
    <3>2. pc[c] # "cross" /\ pc[c] # "done" /\ pc'[c] # "complete"
      BY <1>1, <2>5 DEF CrossReturn, LoadClaims, AssessClaim, AssessReturn, JudgeCall, Bill,
                        JudgeReturn, Return
    <3> QED BY <2>1, <3>1, <3>2, QuietAlone
  <2>6. CASE StoreScores(c)
    <3>1. UNCHANGED <<report, contradictions, overall>> /\ pc[c] = "store"
      BY <2>6 DEF StoreScores
    <3>2. pc'[c] # "complete"
      <4>1. CASE Retry(c)
        BY <1>1, <3>1, <4>1 DEF Retry, StageStart
      <4>2. CASE pc' = [pc EXCEPT ![c] = "bill"]
        BY <1>1, <4>2
      <4> QED BY <2>6, <4>1, <4>2 DEF StoreScores
    <3> QED BY <2>1, <3>1, <3>2, QuietAlone
  <2> QED BY <2>1, <2>2, <2>3, <2>4, <2>5, <2>6 DEF Step
<1>4. CASE UNCHANGED vars
  <2>1. UNCHANGED <<pc, faults, report, contradictions, overall, final, scores>>
    BY <1>4 DEF vars, dbVars, msgVars
  <2>2. Alone(c) = Alone(c)' /\ ReferenceScores(c) = ReferenceScores(c)'
    BY <2>1 DEF Alone, ReferenceScores
  <2>3. (\E found \in Contradictions(report[c]), b \in Nat : contradictions = FoundRows(found, b))
        => \E found \in Contradictions(report'[c]), b \in Nat : contradictions' = FoundRows(found, b)
    BY <2>1
  <2> QED BY <2>1, <2>2, <2>3 DEF AloneInv
<1> QED BY <1>2, <1>3, <1>4 DEF Next, Move

\* From the claims the header delivered to the score of the run: a chain that
\* meets no fault, while no other has begun, takes off for each contradiction
\* between two of them what it costs, once, whatever the bucket it is counted in.
THEOREM LoneChainScoresRight == Spec => []ScoreIsDeserved
<1> DEFINE Inv == RangesInv /\ \A c \in Chains : AloneInv(c)
<1>1. Init => Inv
  <2>1. Init => \A c \in Chains : AloneInv(c)
    BY DEF Init, AloneInv
  <2> QED BY <2>1, RangesInit
<1>2. Inv /\ [Next]_vars => Inv'
  BY RangesStep, AloneStep
<1>3. Inv => ScoreIsDeserved
  BY DEF AloneInv, Alone, ScoreIsDeserved
<1> QED BY <1>1, <1>2, <1>3, PTL DEF Spec
===========================================================================
