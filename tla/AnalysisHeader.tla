--------------------------- MODULE AnalysisHeader ---------------------------
(***************************************************************************)
(* The header of a run's chord: four analysis tasks, each wrapped by       *)
(* BaseEvalTask.run (idempotency check, worker result, execute, mark       *)
(* completed or failed, retries), and the join that hands their claims to  *)
(* cross_check.                                                            *)
(*                                                                         *)
(* As committed, self.run is the task function itself, which recurses, and *)
(* self.execute is a function of two arguments called with one; two        *)
(* constants tell the code as committed from the code as meant.  A task is *)
(* a pair of a dispatch and a worker type.  Each transaction is one step,  *)
(* except that the check for an existing worker result and its insertion   *)
(* are two, because no lock or unique index keeps another transaction from *)
(* coming in between.                                                      *)
(***************************************************************************)
EXTENDS Scoring, FiniteSetsExt, SequencesExt

CONSTANTS
    AnalysisRun,    \* what self.run is bound to: "BaseEvalTask" or "task_function"
    ExecuteBound,   \* whether self.execute passes the task as first argument
    Dispatches,     \* chords dispatched for the run
    Workers,        \* the worker types that take part
    SourceChoices,  \* which sources a submission may name, by worker type
    Stars, LanguageNumbers, Contributors,  \* what GitHub may report
    Durations,      \* lengths of a video in seconds
    Signals,        \* kinds of social proof a website may show
    MaxFaults       \* bound: failed transactions, timeouts and lost workers

\* The order of the group, which is the order of the results.
WorkerTypes == <<"github_analysis", "pitch_deck", "video_analysis", "web_verification">>

MaxRetries == 3

ASSUME HeaderBounds ==
    /\ MaxFaults \in Nat
    /\ IsFiniteSet(Dispatches) /\ IsFiniteSet(Signals)
    /\ Workers \subseteq Range(WorkerTypes)
    /\ SourceChoices \subseteq SUBSET Workers

VARIABLES
    sources,           \* the sources the submission names
    pc, retries,       \* where each task is, and its retries
    found,             \* how many worker results _create_worker_result read
    result,            \* what a task is about to store or has returned
    rows,              \* worker type -> sequence of worker results
    completed_workers, failed_workers,  \* columns of the run
    report,            \* dispatch -> claims handed to cross_check
    faults

Tasks == Dispatches \X Workers
dbVars == <<rows, completed_workers, failed_workers>>
vars == <<sources, pc, retries, found, result, dbVars, report, faults>>

Nothing == [status |-> "none", claims |-> <<>>]
NotYet == [claims |-> <<>>, joined |-> FALSE]
Active == {"check", "read", "write", "execute", "complete", "return", "fail"}

---------------------------------------------------------------------------
(***************************************************************************)
(* What execute may return.  A claim is a record as in Scoring; "error"    *)
(* stands for every result without content ("error", "rate_limited",       *)
(* "partial"), "raises" for an exception that leaves execute.              *)
(***************************************************************************)
Claim(category, nums, confidence) ==
    [category |-> category, nums |-> nums, superlative |-> FALSE, growth |-> {},
     confidence |-> confidence]

Result(status, claims) == [status |-> status, claims |-> claims]
Plain(statuses) == {Result(s, <<>>) : s \in statuses}

\* The stars of a repository, its language and its contributors.
RepositoryClaims(n, lang, k) ==
    <<Claim("traction", <<n>>, 100), Claim("product", lang, 100), Claim("team", <<k>>, 90)>>

\* _analyze_github: an invalid URL, a rate limit that resets too late and an
\* answer other than 200 are results; a connection error is not caught.
\* A repository's language may have a number in its name.
AnalyzeGithub ==
    Plain({"error", "raises"}) \cup
    {Result("completed", RepositoryClaims(n, lang, k)) :
        n \in Stars, lang \in LanguageNumbers, k \in Contributors}

\* _analyze_pitch_deck: a failed download or an empty file, a corrupted file, or
\* slides.  The placeholder text of a slide holds no keyword of any section, so
\* no claim is extracted.
AnalyzePitchDeck == Plain({"error", "completed"})

\* _analyze_video: every exception becomes a result; no claim without a segment.
AnalyzeVideo ==
    Plain({"error", "completed"}) \cup
    {Result("completed", <<Claim("product", <<n>>, 90)>>) : n \in Durations}

\* One claim, without a number, for each signal.
SignalClaims(S) == [i \in 1..Cardinality(S) |-> Claim(SetToSeq(S)[i], <<>>, 60)]

\* Mutant: only a timeout is caught, not a connection error.
VerifyWebRaises ==
    Plain({"error", "raises"}) \cup
    {Result("completed", SignalClaims(S)) : S \in SUBSET Signals}
\* _verify_web: every exception becomes a result; a claim for each signal found.
VerifyWeb ==
    Plain({"error"}) \cup
    {Result("completed", SignalClaims(S)) : S \in SUBSET Signals}

Outcomes(w) ==
    IF ~ExecuteBound THEN Plain({"raises"})
    ELSE IF w \notin sources THEN Plain({"skipped"})
    ELSE CASE w = "github_analysis" -> AnalyzeGithub
           [] w = "pitch_deck" -> AnalyzePitchDeck
           [] w = "video_analysis" -> AnalyzeVideo
           [] w = "web_verification" -> VerifyWeb

---------------------------------------------------------------------------
(***************************************************************************)
(* BaseEvalTask.run.                                                       *)
(***************************************************************************)
CompletedRows(w) == {i \in 1..Len(rows[w]) : rows[w][i].status = "completed"}

MoveTo(t, state) == pc' = [pc EXCEPT ![t] = state]

\* Mutant: a task that is delivered again does not look for its result.
CheckNothing(t) ==
    /\ pc[t] = "check"
    /\ MoveTo(t, "read")
    /\ UNCHANGED <<sources, retries, found, result, dbVars, report, faults>>
\* Mutant: a row that is RUNNING is taken for another delivery at work.
CheckWaits(t) ==
    /\ pc[t] = "check"
    /\ \A i \in 1..Len(rows[t[2]]) : rows[t[2]][i].status # "running"
    /\ \/ /\ CompletedRows(t[2]) = {}
          /\ MoveTo(t, "read")
          /\ UNCHANGED result
       \/ \E i \in CompletedRows(t[2]) :
             /\ result' = [result EXCEPT ![t] = rows[t[2]][i].output]
             /\ MoveTo(t, "return")
    /\ UNCHANGED <<sources, retries, found, dbVars, report, faults>>
\* _check_idempotent: scalar_one_or_none raises if there are several.
CheckIdempotent(t) ==
    LET C == CompletedRows(t[2]) IN
    /\ pc[t] = "check"
    /\ \/ /\ Cardinality(C) > 1
          /\ MoveTo(t, "fail")
          /\ UNCHANGED result
       \/ /\ Cardinality(C) = 1
          /\ \E i \in C : result' = [result EXCEPT ![t] = rows[t[2]][i].output]
          /\ MoveTo(t, "return")
       \/ /\ C = {}
          /\ MoveTo(t, "read")
          /\ UNCHANGED result
    /\ UNCHANGED <<sources, retries, found, dbVars, report, faults>>

\* _create_worker_result, its SELECT: again at most one row is expected.
CreateRead(t) ==
    /\ pc[t] = "read"
    /\ \/ /\ Len(rows[t[2]]) > 1
          /\ MoveTo(t, "fail")
          /\ UNCHANGED found
       \/ /\ Len(rows[t[2]]) <= 1
          /\ MoveTo(t, "write")
          /\ found' = [found EXCEPT ![t] = Len(rows[t[2]])]
    /\ UNCHANGED <<sources, retries, result, dbVars, report, faults>>

\* Mutant: every attempt inserts a row of its own.
CreateAlways(t) ==
    /\ pc[t] = "write"
    /\ rows' = [rows EXCEPT ![t[2]] = Append(@, [status |-> "running", output |-> Nothing])]
    /\ MoveTo(t, "execute")
    /\ UNCHANGED <<sources, retries, found, result, completed_workers, failed_workers, report,
                   faults>>
\* Its UPDATE of the row it found, or its INSERT.
CreateWrite(t) ==
    /\ pc[t] = "write"
    /\ rows' = [rows EXCEPT ![t[2]] =
            IF found[t] = 1 THEN [@ EXCEPT ![1].status = "running"]
            ELSE Append(@, [status |-> "running", output |-> Nothing])]
    /\ MoveTo(t, "execute")
    /\ UNCHANGED <<sources, retries, found, result, completed_workers, failed_workers, report,
                   faults>>

\* The outcome of execute is stored by the next step or raised.
Settle(t, outcome) ==
    IF outcome.status = "raises"
    THEN MoveTo(t, "fail") /\ UNCHANGED result
    ELSE MoveTo(t, "complete") /\ result' = [result EXCEPT ![t] = outcome]

Execute(t) ==
    /\ pc[t] = "execute"
    /\ \E outcome \in Outcomes(t[2]) : Settle(t, outcome)
    /\ UNCHANGED <<sources, retries, found, dbVars, report, faults>>

\* _mark_completed: all rows of the worker, and the run's counter.
MarkCompleted(t) ==
    /\ pc[t] = "complete"
    /\ rows' = [rows EXCEPT ![t[2]] =
            [i \in DOMAIN @ |-> [status |-> "completed", output |-> result[t]]]]
    /\ completed_workers' = completed_workers + 1
    /\ MoveTo(t, "return")
    /\ UNCHANGED <<sources, retries, found, result, failed_workers, report, faults>>

Return(t) ==
    /\ pc[t] = "return"
    /\ MoveTo(t, "done")
    /\ UNCHANGED <<sources, retries, found, result, dbVars, report, faults>>

\* Mutant: the retry counter is compared after it was used.
RetryOnceMore(t) ==
    IF retries[t] <= MaxRetries
    THEN MoveTo(t, "check") /\ retries' = [retries EXCEPT ![t] = @ + 1]
    ELSE MoveTo(t, "broken") /\ UNCHANGED retries
\* autoretry_for wraps run: the task starts over, or the chord is broken.
Retry(t) ==
    IF retries[t] < MaxRetries
    THEN MoveTo(t, "check") /\ retries' = [retries EXCEPT ![t] = @ + 1]
    ELSE MoveTo(t, "broken") /\ UNCHANGED retries

\* _mark_failed, whatever state the rows are in, and the exception goes on.
MarkFailed(t) ==
    /\ pc[t] = "fail"
    /\ rows' = [rows EXCEPT ![t[2]] = [i \in DOMAIN @ |-> [@[i] EXCEPT !.status = "failed"]]]
    /\ failed_workers' = failed_workers + 1
    /\ Retry(t)
    /\ UNCHANGED <<sources, found, result, completed_workers, report, faults>>

---------------------------------------------------------------------------
\* A transaction fails: the exception goes to _mark_failed, which swallows its
\* own.
TransactionFails(t) ==
    /\ faults < MaxFaults
    /\ \/ /\ pc[t] \in {"check", "read", "write", "complete"}
          /\ MoveTo(t, "fail")
          /\ UNCHANGED retries
       \/ /\ pc[t] = "fail"
          /\ Retry(t)
    /\ faults' = faults + 1
    /\ UNCHANGED <<sources, found, result, dbVars, report>>

\* The soft time limit expires, or the disk or the network fails, during
\* execute: the exception leaves it, unless one of its handlers takes it for an
\* unreadable chunk, page or file and goes on to a result as usual.  Once the
\* result is stored the limit may still expire before run returns.
SoftTimeLimit(t) ==
    /\ faults < MaxFaults
    /\ \/ /\ pc[t] = "execute"
          /\ \E outcome \in Outcomes(t[2]) \cup Plain({"raises"}) : Settle(t, outcome)
       \/ /\ pc[t] = "return"
          /\ MoveTo(t, "fail")
          /\ UNCHANGED result
    /\ faults' = faults + 1
    /\ UNCHANGED <<sources, retries, found, dbVars, report>>

\* The worker dies: the task is delivered again.
WorkerLost(t) ==
    /\ faults < MaxFaults
    /\ pc[t] \in Active
    /\ MoveTo(t, "check")
    /\ faults' = faults + 1
    /\ UNCHANGED <<sources, retries, found, result, dbVars, report>>

\* What the i-th task of the group hands over.
ClaimsOf(d, i) == IF WorkerTypes[i] \in Workers THEN result[<<d, WorkerTypes[i]>>].claims ELSE <<>>

\* When all tasks of the group have returned, the chord calls cross_check, which
\* collects the claims in the order of the group.
Join(d) ==
    /\ ~report[d].joined
    /\ \A w \in Workers : pc[<<d, w>>] = "done"
    /\ report' = [report EXCEPT ![d] =
            [claims |-> ClaimsOf(d, 1) \o ClaimsOf(d, 2) \o ClaimsOf(d, 3) \o ClaimsOf(d, 4),
             joined |-> TRUE]]
    /\ UNCHANGED <<sources, pc, retries, found, result, dbVars, faults>>

\* Every attempt of a task function that calls itself ends in RecursionError.
Entry == IF AnalysisRun = "BaseEvalTask" THEN "check" ELSE "broken"

Init ==
    /\ sources \in SourceChoices
    /\ pc = [t \in Tasks |-> Entry]
    /\ retries = [t \in Tasks |-> 0]
    /\ found = [t \in Tasks |-> 0]
    /\ result = [t \in Tasks |-> Nothing]
    /\ rows = [w \in Workers |-> <<>>]
    /\ completed_workers = 0
    /\ failed_workers = 0
    /\ report = [d \in Dispatches |-> NotYet]
    /\ faults = 0

Step(t) ==
    \/ CheckIdempotent(t) \/ CreateRead(t) \/ CreateWrite(t) \/ Execute(t)
    \/ MarkCompleted(t) \/ Return(t) \/ MarkFailed(t)

Next ==
    \/ \E t \in Tasks : Step(t) \/ TransactionFails(t) \/ SoftTimeLimit(t) \/ WorkerLost(t)
    \/ \E d \in Dispatches : Join(d)

\* Workers pick up every delivered task, and the chord is unlocked when it is due.
Spec ==
    /\ Init /\ [][Next]_vars
    /\ \A t \in Tasks : WF_vars(Step(t))
    /\ \A d \in Dispatches : WF_vars(Join(d))

---------------------------------------------------------------------------
(***************************************************************************)
(* Properties.                                                             *)
(***************************************************************************)
Type(r) == r.status \in {"none", "skipped", "error", "completed"}

\* The columns and program counters have their types: in particular max_retries
\* bounds the attempts of a task and rows only hold results that execute returned.
TypeOK ==
    /\ sources \in SourceChoices
    /\ pc \in [Tasks -> Active \cup {"done", "broken"}]
    /\ retries \in [Tasks -> 0..MaxRetries]
    /\ found \in [Tasks -> 0..1]
    /\ \A t \in Tasks : Type(result[t])
    /\ \A w \in Workers : \A i \in 1..Len(rows[w]) :
          /\ rows[w][i].status \in {"running", "completed", "failed"}
          /\ Type(rows[w][i].output)
    /\ completed_workers \in Nat /\ failed_workers \in Nat
    /\ faults \in 0..MaxFaults

\* When the chord calls cross_check, every worker has one result row, it is
\* COMPLETED, and its output_data is what the chord handed over, whatever was
\* retried or delivered again on the way (one dispatch of the run).
ReportIsBacked ==
    \A d \in Dispatches : report[d].joined =>
        \A w \in Workers :
            /\ Len(rows[w]) = 1
            /\ rows[w][1].status = "completed"
            /\ rows[w][1].output = result[<<d, w>>]

\* completed_workers is never behind the COMPLETED rows, and ahead of them only
\* by attempts that failed after they were stored, which failed_workers counts.
\* A task that breaks the chord without a fault has left its row FAILED and has
\* been counted once for each of its attempts.
CountersAgree ==
    /\ LET stored == Cardinality({w \in Workers : CompletedRows(w) # {}})
       IN  stored <= completed_workers /\ completed_workers <= stored + failed_workers
    /\ \A t \in Tasks : (pc[t] = "broken" /\ faults = 0) =>
        /\ \A i \in 1..Len(rows[t[2]]) : rows[t[2]][i].status = "failed"
        /\ failed_workers >= MaxRetries + 1

\* A dispatch inserts at most one row for a worker, however often its task is
\* retried or delivered again: the check of _create_worker_result fails only
\* against another dispatch.
RowsPerDispatch == \A w \in Workers : Len(rows[w]) <= Cardinality(Dispatches)

\* While no transaction fails, no limit expires and no worker is lost, only the
\* GitHub task can break the chord of a single dispatch: the other three turn
\* every failure of their source into a result.
GithubAloneBreaks ==
    (faults = 0 /\ Cardinality(Dispatches) = 1) => \A t \in Tasks : pc[t] = "broken" => t[2] = "github_analysis"

\* Every dispatch ends: with a report for cross_check or with a broken task.
HeaderEnds ==
    \A d \in Dispatches :
        <>(report[d].joined \/ \E w \in Workers : pc[<<d, w>>] = "broken")
===========================================================================
