-------------------------- MODULE EvaluationChain --------------------------
(***************************************************************************)
(* What a dispatched pipeline does with one run: the chain cross_check,    *)
(* fabrication, llm_judge, finalize that follows the chord's header, and   *)
(* the rows it leaves behind (claims, contradictions, scores, the billing  *)
(* entry).                                                                 *)
(*                                                                         *)
(* Chains are the dispatches for the run: duplicate deliveries of the      *)
(* orchestrator make the same chain run twice.  Every stage is a Celery    *)
(* task of its own: an exception retries it from its beginning             *)
(* (autoretry_for) up to its max_retries, a lost worker has it             *)
(* redelivered, and only a stage that returns publishes the next one.      *)
(* Each transaction is one step.                                           *)
(***************************************************************************)
EXTENDS Scoring, FiniteSetsExt, Functions

CONSTANTS
    Chains,
    Reports,      \* the lists of claims the chord's header may deliver
    LlmOutputs,   \* what a model may answer
    Variations,   \* samples of random.uniform(-0.1, 0.1), in units of 0.0001
    MaxFaults     \* bound: failed transactions and lost workers

ASSUME ChainBounds ==
    /\ MaxFaults \in Nat
    /\ \A v \in Variations : v \in Int /\ -1000 <= v /\ v <= 1000
    /\ Reports \subseteq Seq(ClaimRecords)

VARIABLES
    report,          \* the claims the header delivered to each chain
    pc, retries,     \* the transaction a chain is at, the retries of its stage
    claims,          \* rows of claims: [batch, by, claim, status]
    contradictions,  \* rows of contradictions: [batch, pair, severity]
    toAssess,        \* positions in claims that fabrication has still to assess
    risk,            \* average_risk_score each chain passes to llm_judge
    validated,       \* the scores each chain is about to store
    scores,          \* rows of scores: none, or a value per dimension
    scoredBy,        \* the chain that stored them, for the properties
    bills,           \* SCORE_RECORDED audit entries
    overall,         \* overall_score of the run, Unset while it is open
    final,           \* final_score of each chain
    faults

dbVars == <<claims, contradictions, scores, scoredBy, bills, overall>>
msgVars == <<report, toAssess, risk, validated, final>>
vars == <<dbVars, msgVars, pc, retries, faults>>

None == <<>>
Unset == 0 - 1

\* The transaction at which the stage of each control state starts.
StageStart ==
    [cross |-> "cross", crossed |-> "cross", load |-> "load", assess |-> "load",
     judge |-> "judge", store |-> "judge", bill |-> "judge", billed |-> "judge",
     score |-> "score", complete |-> "score"]
Running == DOMAIN StageStart

MaxRetries(state) == IF StageStart[state] = "score" THEN 2 ELSE 3

Batches == {claims[i].batch : i \in 1..Len(claims)}

Buckets ==
    [b \in {"critical", "high", "medium", "low"} |->
        Cardinality({c \in contradictions : severity_bucket(c.severity) = b})]

---------------------------------------------------------------------------
\* A stage returns: Celery publishes the next one, with retries of its own.
Return(c, next) ==
    /\ pc' = [pc EXCEPT ![c] = next]
    /\ retries' = [retries EXCEPT ![c] = 0]

\* Mutant: a failing stage is retried without end.
RetryForever(c) ==
    /\ pc' = [pc EXCEPT ![c] = StageStart[pc[c]]]
    /\ UNCHANGED retries
\* Mutant: the retry counter is compared after it was used.
RetryOnceMore(c) ==
    IF retries[c] <= MaxRetries(pc[c])
    THEN /\ pc' = [pc EXCEPT ![c] = StageStart[pc[c]]]
         /\ retries' = [retries EXCEPT ![c] = @ + 1]
    ELSE /\ pc' = [pc EXCEPT ![c] = "broken"]
         /\ UNCHANGED retries
\* An exception leaves the stage: retried, or the chain is broken for good.
Retry(c) ==
    IF retries[c] < MaxRetries(pc[c])
    THEN /\ pc' = [pc EXCEPT ![c] = StageStart[pc[c]]]
         /\ retries' = [retries EXCEPT ![c] = @ + 1]
    ELSE /\ pc' = [pc EXCEPT ![c] = "broken"]
         /\ UNCHANGED retries

---------------------------------------------------------------------------
(***************************************************************************)
(* cross_check: nothing is stored for fewer than two claims; otherwise the *)
(* claims and the contradictions between them in one transaction.          *)
(***************************************************************************)
CrossCheck(c) ==
    LET batch == IF Batches = {} THEN 1 ELSE Max(Batches) + 1
        rows == [i \in 1..Len(report[c]) |->
                    [batch |-> batch, by |-> c, claim |-> report[c][i], status |-> "unverified"]]
    IN  /\ pc[c] = "cross"
        /\ \/ /\ Len(report[c]) < 2
              /\ UNCHANGED <<claims, contradictions>>
           \/ /\ Len(report[c]) >= 2
              /\ \E found \in Contradictions(report[c]) :
                    contradictions' = contradictions \cup
                        {[batch |-> batch, pair |-> p, severity |-> found[p]] : p \in DOMAIN found}
              /\ claims' = claims \o rows
        /\ pc' = [pc EXCEPT ![c] = "crossed"]
        /\ UNCHANGED <<scores, scoredBy, bills, overall, msgVars, retries, faults>>

CrossReturn(c) ==
    /\ pc[c] = "crossed"
    /\ Return(c, "load")
    /\ UNCHANGED <<dbVars, msgVars, faults>>

---------------------------------------------------------------------------
(***************************************************************************)
(* fabrication: reads all claims of the run, then writes the status of     *)
(* each flagged one in a transaction of its own.                           *)
(***************************************************************************)
TotalRisk == SumFunction([i \in 1..Len(claims) |-> RiskScore(claims[i].claim)])

\* Mutant: only the first page of the claims is loaded.
LoadFirstPage(c) ==
    /\ pc[c] = "load"
    /\ toAssess' = [toAssess EXCEPT ![c] =
            {i \in 1..AtMost(Len(claims), 3) : Flagged(claims[i].claim)}]
    /\ \E r \in IF claims = <<>> THEN {0} ELSE Nearest(100 * TotalRisk, Len(claims)) :
            risk' = [risk EXCEPT ![c] = r]
    /\ pc' = [pc EXCEPT ![c] = "assess"]
    /\ UNCHANGED <<dbVars, report, validated, final, retries, faults>>
LoadClaims(c) ==
    /\ pc[c] = "load"
    /\ toAssess' = [toAssess EXCEPT ![c] = {i \in 1..Len(claims) : Flagged(claims[i].claim)}]
    /\ \E r \in IF claims = <<>> THEN {0} ELSE Nearest(100 * TotalRisk, Len(claims)) :
            risk' = [risk EXCEPT ![c] = r]
    /\ pc' = [pc EXCEPT ![c] = "assess"]
    /\ UNCHANGED <<dbVars, report, validated, final, retries, faults>>

AssessClaim(c) ==
    /\ pc[c] = "assess"
    /\ toAssess[c] # {}
    /\ LET i == Min(toAssess[c])
       IN  /\ claims' = [claims EXCEPT ![i].status = VerificationStatus(claims[i].claim)]
           /\ toAssess' = [toAssess EXCEPT ![c] = @ \ {i}]
    /\ UNCHANGED <<contradictions, scores, scoredBy, bills, overall, report, risk, validated, final,
                   pc, retries, faults>>

\* Mutant: the chain leaves llm_judge out.
AssessSkipsJudge(c) ==
    /\ pc[c] = "assess"
    /\ toAssess[c] = {}
    /\ Return(c, "score")
    /\ UNCHANGED <<dbVars, msgVars, faults>>
AssessReturn(c) ==
    /\ pc[c] = "assess"
    /\ toAssess[c] = {}
    /\ Return(c, "judge")
    /\ UNCHANGED <<dbVars, msgVars, faults>>

---------------------------------------------------------------------------
(***************************************************************************)
(* llm_judge: the primary model, else the backup model, else synthetic     *)
(* scores; synthetic scores too if the answer is not valid.                *)
(***************************************************************************)
\* The claims' confidences as their sum and number; 0.5 if there are none.
Confidence ==
    IF claims = <<>> THEN [total |-> 50, n |-> 1]
    ELSE [total |-> SumFunction([i \in 1..Len(claims) |-> claims[i].claim.confidence]),
          n |-> Len(claims)]

\* Every dimension has a random variation of its own.
SyntheticScores(c) ==
    [Dimensions -> UNION {SyntheticValue(Confidence.total, Confidence.n,
                                         Cardinality(contradictions), risk[c], u) :
                          u \in Variations}]

\* Mutant: when both models fail the exception leaves the task.
JudgeWithoutFallback(c) ==
    /\ pc[c] = "judge"
    /\ \E primary, backup \in LlmOutputs :
        \/ /\ primary.raises /\ backup.raises
           /\ Retry(c)
           /\ UNCHANGED validated
        \/ /\ ~primary.raises \/ ~backup.raises
           /\ LET output == IF primary.raises THEN backup.scores ELSE primary.scores IN
              \E v \in IF Validated(output) THEN {output} ELSE SyntheticScores(c) :
                    validated' = [validated EXCEPT ![c] = v]
           /\ pc' = [pc EXCEPT ![c] = "store"]
           /\ UNCHANGED retries
    /\ UNCHANGED <<dbVars, report, toAssess, risk, final, faults>>
\* Reads the claims and contradictions of the run and settles on the scores.
JudgeCall(c) ==
    /\ pc[c] = "judge"
    /\ \E primary, backup \in LlmOutputs :
        \E output \in IF ~primary.raises THEN {primary.scores}
                      ELSE IF ~backup.raises THEN {backup.scores}
                      ELSE SyntheticScores(c) :
        \E v \in IF Validated(output) THEN {output} ELSE SyntheticScores(c) :
            validated' = [validated EXCEPT ![c] = v]
    /\ pc' = [pc EXCEPT ![c] = "store"]
    /\ UNCHANGED <<dbVars, report, toAssess, risk, final, retries, faults>>

\* Mutant: the insert replaces the rows that are there.
StoreReplaces(c) ==
    /\ pc[c] = "store"
    /\ scores' = validated[c]
    /\ scoredBy' = c
    /\ pc' = [pc EXCEPT ![c] = "bill"]
    /\ validated' = [validated EXCEPT ![c] = None]
    /\ UNCHANGED <<claims, contradictions, bills, overall, report, toAssess, risk, final,
                   retries, faults>>
\* Mutant: existing rows are skipped and the task goes on.
StoreSkips(c) ==
    /\ pc[c] = "store"
    /\ scores' = IF scores = None THEN validated[c] ELSE scores
    /\ scoredBy' = IF scores = None THEN c ELSE scoredBy
    /\ pc' = [pc EXCEPT ![c] = "bill"]
    /\ validated' = [validated EXCEPT ![c] = None]
    /\ UNCHANGED <<claims, contradictions, bills, overall, report, toAssess, risk, final,
                   retries, faults>>
\* Six INSERTs in one transaction, under the unique index on run and dimension
\* and the CHECK on the value.
StoreScores(c) ==
    LET row(d) == IF d \in DOMAIN validated[c] THEN validated[c][d] ELSE 5000
        accepted == scores = None /\ \A d \in Dimensions : row(d) \in 0..One
    IN  /\ pc[c] = "store"
        /\ \/ /\ accepted
              /\ scores' = [d \in Dimensions |-> row(d)]
              /\ scoredBy' = c
              /\ pc' = [pc EXCEPT ![c] = "bill"]
              /\ UNCHANGED retries
           \/ /\ ~accepted
              /\ Retry(c)
              /\ UNCHANGED <<scores, scoredBy>>
        /\ validated' = [validated EXCEPT ![c] = None]
        /\ UNCHANGED <<claims, contradictions, bills, overall, report, toAssess, risk, final, faults>>

Bill(c) ==
    /\ pc[c] = "bill"
    /\ bills' = bills + 1
    /\ pc' = [pc EXCEPT ![c] = "billed"]
    /\ UNCHANGED <<claims, contradictions, scores, scoredBy, overall, msgVars, retries, faults>>

JudgeReturn(c) ==
    /\ pc[c] = "billed"
    /\ Return(c, "score")
    /\ UNCHANGED <<dbVars, msgVars, faults>>

---------------------------------------------------------------------------
(***************************************************************************)
(* finalize, as far as it computes the score; RunLifecycle has the locking *)
(* of the row and what follows it.  Here the run is not cancelled.         *)
(***************************************************************************)
ComputeScore(c) ==
    /\ pc[c] = "score"
    /\ \/ /\ overall # Unset
          /\ pc' = [pc EXCEPT ![c] = "done"]
          /\ UNCHANGED final
       \/ /\ overall = Unset
          /\ \E base \in IF scores = None THEN {5000} ELSE WeightedAverage(scores) :
                final' = [final EXCEPT ![c] = FinalScore(base, Buckets)]
          /\ pc' = [pc EXCEPT ![c] = "complete"]
    /\ UNCHANGED <<dbVars, report, toAssess, risk, validated, retries, faults>>

\* The run is read again and, if it is still open, completed.
CompleteRun(c) ==
    /\ pc[c] = "complete"
    /\ overall' = IF overall = Unset THEN final[c] ELSE overall
    /\ pc' = [pc EXCEPT ![c] = "done"]
    /\ UNCHANGED <<claims, contradictions, scores, scoredBy, bills, msgVars, retries, faults>>

---------------------------------------------------------------------------
\* A transaction fails, or the soft time limit expires, before a commit or after it:
\* the exception is retried.  Only the audit repository swallows it, so that
\* llm_judge goes on without its billing entry.
TransactionFails(c) ==
    /\ faults < MaxFaults
    /\ \/ /\ pc[c] \in Running
          /\ Retry(c)
       \/ /\ pc[c] = "bill"
          /\ pc' = [pc EXCEPT ![c] = "billed"]
          /\ UNCHANGED retries
    /\ faults' = faults + 1
    /\ UNCHANGED <<dbVars, msgVars>>

\* The worker dies, possibly after its last commit: the stage is redelivered.
WorkerLost(c) ==
    /\ faults < MaxFaults
    /\ pc[c] \in Running
    /\ pc' = [pc EXCEPT ![c] = StageStart[pc[c]]]
    /\ faults' = faults + 1
    /\ UNCHANGED <<dbVars, msgVars, retries>>

Init ==
    /\ report \in [Chains -> Reports]
    /\ pc = [c \in Chains |-> "cross"]
    /\ retries = [c \in Chains |-> 0]
    /\ claims = <<>>
    /\ contradictions = {}
    /\ toAssess = [c \in Chains |-> {}]
    /\ risk = [c \in Chains |-> 0]
    /\ validated = [c \in Chains |-> None]
    /\ scores = None
    /\ scoredBy = "nobody"
    /\ bills = 0
    /\ overall = Unset
    /\ final = [c \in Chains |-> Unset]
    /\ faults = 0

Step(c) ==
    \/ CrossCheck(c) \/ CrossReturn(c)
    \/ LoadClaims(c) \/ AssessClaim(c) \/ AssessReturn(c)
    \/ JudgeCall(c) \/ StoreScores(c) \/ Bill(c) \/ JudgeReturn(c)
    \/ ComputeScore(c) \/ CompleteRun(c)

Next == \E c \in Chains : Step(c) \/ TransactionFails(c) \/ WorkerLost(c)

\* A worker picks up every message that is in the broker.
Spec == Init /\ [][Next]_vars /\ \A c \in Chains : WF_vars(Step(c))

---------------------------------------------------------------------------
(***************************************************************************)
(* Properties.                                                             *)
(***************************************************************************)

\* Rows and messages are in range: in particular every stored score is a value
\* the CHECK constraint admits, and the result lies in [0, 1].
TypeOK ==
    /\ pc \in [Chains -> Running \cup {"done", "broken"}]
    /\ retries \in [Chains -> 0..3]
    /\ \A i \in 1..Len(claims) : claims[i].status \in {"unverified", "disputed"}
    /\ \A x \in contradictions : x.severity \in 0..100
    /\ risk \in [Chains -> 0..One]
    /\ scores = None \/ scores \in [Dimensions -> 0..One]
    /\ bills \in Nat
    /\ overall \in 0..One \cup {Unset}
    /\ final \in [Chains -> 0..One \cup {Unset}]
    /\ faults \in 0..MaxFaults

\* Scores are immutable: once the run has them no redelivered or duplicate
\* llm_judge changes one, although it computes new values each time.
ScoresAreFinal == [][scores # None => scores' = scores]_vars

\* The tokens of a run are billed at most once, and only for stored scores,
\* although every delivery of llm_judge calls the model again.
BilledOnce == bills <= 1 /\ (bills = 1 => scores # None)

\* finalize never falls back to its default of 0.5: whichever chain reaches it,
\* the run has all six scores.
FinalizeHasScores == \A c \in Chains : pc[c] \in {"score", "complete"} => scores # None

\* A model that fails or answers nonsense never breaks the pipeline.  Without a
\* fault a chain breaks only because another one has stored the scores.
OutagesDoNotBreak ==
    \A c \in Chains : pc[c] = "broken" /\ faults = 0 => scores # None /\ scoredBy # c

\* The claims a chain has stored carry the verdict of the fabrication check
\* before its llm_judge reads them.
AssessedBeforeJudged ==
    \A c \in Chains : pc[c] \in {"judge", "store", "bill", "billed", "score", "complete"} =>
        \A i \in 1..Len(claims) : claims[i].by = c =>
            claims[i].status = IF Flagged(claims[i].claim)
                               THEN VerificationStatus(claims[i].claim) ELSE "unverified"

\* What finalize takes off for a contradiction.
PenaltyFor(severity) ==
    IF severity > 80 THEN 500 ELSE IF severity > 60 THEN 300 ELSE IF severity > 40 THEN 100 ELSE 0

\* The score a run deserves: the average of its scores, less the penalty for the
\* contradictions between the claims the header delivered, each counted once.
ReferenceScores(c) ==
    {AtLeast(base - SumFunction([p \in DOMAIN found |-> PenaltyFor(found[p])]), 0) :
        base \in WeightedAverage(scores), found \in Contradictions(report[c])}

\* End to end over the four stages: a chain that meets no fault, while no other
\* one has begun, computes the score that the header's claims deserve.  What a
\* severity of exactly 0.4 deserves is left open: the docstring of
\* contradiction_repository.py:90 calls it medium, the CASE at line 95 low.
ScoreIsDeserved ==
    \A c \in Chains :
        /\ overall # Unset /\ faults = 0
        /\ \A x \in contradictions : x.severity # 40
        /\ \A d \in Chains \ {c} : pc[d] = "cross"
        => overall \in ReferenceScores(c)

\* Every dispatched chain comes to an end, completed or broken.
ChainsEnd == \A c \in Chains : <>(pc[c] \in {"done", "broken"})

\* As BaseEvalTask's docstring has it, the tasks of the pipeline are idempotent:
\* a redelivered stage leaves the result what it would have been without it.
RedeliveryIsHarmless ==
    \A c \in Chains : Chains = {c} /\ overall # Unset => overall \in ReferenceScores(c)
===========================================================================
