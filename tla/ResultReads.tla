---------------------------- MODULE ResultReads ----------------------------
(***************************************************************************)
(* Reading a run while the pipeline is still writing it (result_service).  *)
(*                                                                         *)
(* The pipeline commits a run's products one transaction after the other:  *)
(* the results of the analysis tasks, the claims with the contradictions   *)
(* between them, the verification status of one claim after the other, the *)
(* scores, and last the run's COMPLETED.  From cross_check on it may be    *)
(* executed several times, by a second dispatch or by a redelivery: every  *)
(* execution stores claims of its own, before or after COMPLETED, and the  *)
(* scores are stored once.  An export or a summary reads the run first and *)
(* each product by a statement of its own, every one at a later moment.    *)
(* Reading the run again in between does not refresh the object the        *)
(* session already holds.                                                  *)
(***************************************************************************)
EXTENDS Naturals, FiniteSets

CONSTANTS
    Readers,        \* concurrent requests
    Analyses,       \* the analysis tasks of the chord's header
    Executions,     \* executions of the chain: dispatches and redeliveries
    ClaimCount,     \* how many claims one of them finds, if it finds two or more
    ExportPage      \* page_size of the claims an export reads (10000)

ASSUME ResultsAssumption == ClaimCount \in Nat /\ ExportPage \in Nat

VARIABLES
    product,    \* what the pipeline has committed
    work,       \* execution -> how far it is, what it loaded and has yet to assess
    settled,    \* the claims loaded by the execution that completed the run
    reader      \* reader -> what it has read so far, or the report it published

pipelineVars == <<product, work, settled>>
resultVars == <<product, work, settled, reader>>

Kinds == {"export", "summary"}
Claims == [by : Executions, number : 1..ClaimCount]
\* contradictions: the executions whose contradictions are stored.
Report == [status : {"RUNNING", "COMPLETED", "absent"}, results : SUBSET Analyses,
           claims : SUBSET Claims, assessed : SUBSET Claims,
           contradictions : SUBSET Executions, scores : BOOLEAN]
Empty == [status |-> "RUNNING", results |-> {}, claims |-> {}, assessed |-> {},
          contradictions |-> {}, scores |-> FALSE]
Asleep == [at |-> "idle"]
Reading == [at : {"results", "claims", "contradictions", "scores", "write", "published"},
            as : Kinds, got : Report]
Work == [at : {"cross", "load", "assess", "judge", "finalize", "done"},
         loaded : SUBSET Claims, left : SUBSET Claims]

ResultsTypeOK ==
    /\ product \in Report
    /\ work \in [Executions -> Work]
    /\ settled \subseteq Claims
    /\ reader \in [Readers -> {Asleep} \cup Reading]

ResultsInit ==
    /\ product = Empty
    /\ work = [c \in Executions |-> [at |-> "cross", loaded |-> {}, left |-> {}]]
    /\ settled = {}
    /\ reader = [x \in Readers |-> Asleep]

---------------------------------------------------------------------------
(***************************************************************************)
(* The pipeline, as its readers see it                                     *)
(***************************************************************************)

\* BaseEvalTask stores the result of an analysis.
Analyse(a) ==
    /\ a \notin product.results
    /\ product' = [product EXCEPT !.results = @ \cup {a}]
    /\ UNCHANGED <<work, settled, reader>>

\* cross_check runs when the chord has collected every analysis.  Fewer than two
\* claims are not stored; nothing looks for those of an earlier execution.
StoreClaims(c) ==
    /\ work[c].at = "cross"
    /\ product.results = Analyses
    /\ \/ UNCHANGED product
       \/ /\ ClaimCount >= 2
          /\ product' = [product EXCEPT !.claims = @ \cup [by : {c}, number : 1..ClaimCount],
                                        !.contradictions = @ \cup {c}]
    /\ work' = [work EXCEPT ![c].at = "load"]
    /\ UNCHANGED <<settled, reader>>

\* fabrication reads all claims of the run
LoadRunClaims(c) ==
    /\ work[c].at = "load"
    /\ work' = [work EXCEPT ![c] = [at |-> "assess", loaded |-> product.claims,
                                    left |-> product.claims]]
    /\ UNCHANGED <<product, settled, reader>>

\* and writes the verification status of one after the other.  (Claims it does not
\* flag keep the status they have; the model's are flagged.)
AssessOne(c) ==
    /\ work[c].at = "assess"
    /\ \E k \in work[c].left :
          /\ product' = [product EXCEPT !.assessed = @ \cup {k}]
          /\ work' = [work EXCEPT ![c].left = @ \ {k}]
    /\ UNCHANGED <<settled, reader>>

AssessedAll(c) ==
    /\ work[c].at = "assess" /\ work[c].left = {}
    /\ work' = [work EXCEPT ![c].at = "judge"]
    /\ UNCHANGED <<product, settled, reader>>

\* llm_judge inserts the scores; where there are some, the unique index refuses them
\* and the execution ends.
StoreRunScores(c) ==
    /\ work[c].at = "judge"
    /\ product' = [product EXCEPT !.scores = TRUE]
    /\ work' = [work EXCEPT ![c].at = IF product.scores THEN "done" ELSE "finalize"]
    /\ UNCHANGED <<settled, reader>>

\* finalize commits COMPLETED and the overall score, unless the run is terminal.
Complete(c) ==
    /\ work[c].at = "finalize" /\ product.status = "RUNNING"
    /\ product' = [product EXCEPT !.status = "COMPLETED"]
    /\ work' = [work EXCEPT ![c].at = "done"]
    /\ settled' = work[c].loaded
    /\ UNCHANGED reader

---------------------------------------------------------------------------
(***************************************************************************)
(* export_results and get_results_summary                                  *)
(***************************************************************************)

\* _verify_run; a summary goes straight to the claims.
ReadRun(x, as) ==
    /\ reader[x].at \in {"idle", "published"}
    /\ reader' = [reader EXCEPT ![x] =
          [at |-> IF as = "summary" THEN "claims" ELSE "results", as |-> as,
           got |-> [Empty EXCEPT !.status = product.status]]]
    /\ UNCHANGED pipelineVars

\* get_worker_results_for_run
ReadResults(x) ==
    /\ reader[x].at = "results"
    /\ reader' = [reader EXCEPT ![x].at = "claims", ![x].got.results = product.results]
    /\ UNCHANGED pipelineVars

\* A page of claims ordered by created_at, the moment their transaction began: the
\* claims of one execution have the same, and which of them come first is open.
Pages(claims) ==
    IF Cardinality(claims) <= ExportPage THEN {claims}
    ELSE {P \in SUBSET claims :
            /\ Cardinality(P) = ExportPage
            /\ Cardinality({k.by : k \in P} \cap {k.by : k \in claims \ P}) <= 1}

\* A summary counts the claims; get_claims_for_run gives an export a page of them,
\* with the status each has by then.
ReadClaims(x) ==
    /\ reader[x].at = "claims"
    /\ \/ /\ reader[x].as = "summary"
          /\ reader' = [reader EXCEPT ![x].at = "contradictions",
                                      ![x].got.claims = product.claims]
       \/ /\ reader[x].as = "export"
          /\ \E P \in Pages(product.claims) :
                reader' = [reader EXCEPT ![x].at = "contradictions", ![x].got.claims = P,
                                         ![x].got.assessed = P \cap product.assessed]
    /\ UNCHANGED pipelineVars

\* get_contradictions_for_run
ReadContradictions(x) ==
    /\ reader[x].at = "contradictions"
    /\ reader' = [reader EXCEPT ![x].at = "scores",
                                ![x].got.contradictions = product.contradictions]
    /\ UNCHANGED pipelineVars

\* Mutant: the run is read after its products.
ReadScoresThenRun(x) ==
    /\ reader[x].at = "scores"
    /\ reader' = [reader EXCEPT ![x].at = "write", ![x].got.scores = product.scores,
                                ![x].got.status = product.status]
    /\ UNCHANGED pipelineVars
\* get_scores_for_run
ReadScores(x) ==
    /\ reader[x].at = "scores"
    /\ reader' = [reader EXCEPT ![x].at = "write", ![x].got.scores = product.scores]
    /\ UNCHANGED pipelineVars

\* What is made of it: an export may be a CSV file, which has the scores and nothing
\* else, no status either.  (Its format plays no part before.)
Forms(got, as) ==
    {got} \cup {csv \in {[Empty EXCEPT !.status = "absent", !.scores = got.scores]} :
                  as = "export"}

\* upload_export_data under generate_export_key, or the answer of a summary.
Publish(x) ==
    /\ reader[x].at = "write"
    /\ \E report \in Forms(reader[x].got, reader[x].as) :
          reader' = [reader EXCEPT ![x].at = "published", ![x].got = report]
    /\ UNCHANGED pipelineVars

\* The database or the store fails the request.
ReaderFails(x) ==
    /\ reader[x].at \notin {"idle", "published"}
    /\ reader' = [reader EXCEPT ![x] = Asleep]
    /\ UNCHANGED pipelineVars

ResultsNext ==
    \/ \E a \in Analyses : Analyse(a)
    \/ \E c \in Executions :
        \/ StoreClaims(c) \/ LoadRunClaims(c) \/ AssessOne(c) \/ AssessedAll(c)
        \/ StoreRunScores(c) \/ Complete(c)
    \/ \E x \in Readers :
        \/ \E as \in Kinds : ReadRun(x, as)
        \/ ReadResults(x) \/ ReadClaims(x) \/ ReadContradictions(x) \/ ReadScores(x)
        \/ Publish(x) \/ ReaderFails(x)

ResultsSpec == ResultsInit /\ [][ResultsNext]_resultVars

---------------------------------------------------------------------------
\* What a report that says COMPLETED contains: all results in an export, the scores,
\* every claim that the execution behind COMPLETED had assessed (in an export with
\* the status it gave it), and the contradictions found with these claims.  A page of
\* an export that is full says nothing of the claims.
HasEverything(report, as) ==
    /\ as = "export" => report.results = Analyses
    /\ report.scores
    /\ \A k \in settled : k.by \in report.contradictions
    /\ as = "summary" => settled \subseteq report.claims
    /\ as = "export" /\ Cardinality(report.claims) < ExportPage
          => settled \subseteq report.claims /\ settled \subseteq report.assessed

\* Although every statement of a reader sees another moment of the pipeline, and
\* other executions go on adding claims, a summary or JSON file that says COMPLETED
\* is not missing anything that went into the score: the run is read before its
\* products, and COMPLETED is committed after them.  (An export of a run with more
\* claims than a page is cut, against result_service.py:192, "all pipeline results".)
CompletedReportsAreComplete ==
    \A x \in Readers :
        reader[x].at = "published" /\ reader[x].got.status = "COMPLETED"
            => HasEverything(reader[x].got, reader[x].as)
===========================================================================
