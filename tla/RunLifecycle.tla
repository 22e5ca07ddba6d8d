--------------------------- MODULE RunLifecycle ---------------------------
(***************************************************************************)
(* The life of an evaluation run: the row of evaluation_runs and everybody *)
(* who writes it.                                                          *)
(*                                                                         *)
(*   - the API request that triggers a run (submission_service): counts    *)
(*     the active runs, inserts the row, publishes the orchestrator task   *)
(*     and only then commits;                                              *)
(*   - the Celery task evaluate_submission (orchestrator): marks the run   *)
(*     RUNNING under the optimistic lock, dispatches the chord, and on any *)
(*     exception marks it FAILED and retries once;                         *)
(*   - the Celery task finalize_and_notify_task, the end of the chord's    *)
(*     chain: marks the run COMPLETED under the lock, then writes the      *)
(*     audit entry and the submission's status in transactions of their    *)
(*     own;                                                                *)
(*   - the API request that cancels a run (evaluation_service): revokes    *)
(*     the orchestrator task and writes CANCELLED with no version check;   *)
(*   - the maintenance task (cleanup_worker): writes FAILED on runs older  *)
(*     than 24 hours with no version check.                                *)
(*                                                                         *)
(* PostgreSQL runs at READ COMMITTED: a SELECT and the later UPDATE of one *)
(* transaction are two steps, an UPDATE re-evaluates its WHERE clause on   *)
(* the committed row and holds it until the commit, so UPDATE and COMMIT   *)
(* are one step.  Celery delivers at least once: Orchs and Finalizers are  *)
(* the deliveries of the two tasks, several of them for the same run.      *)
(***************************************************************************)
EXTENDS Naturals, FiniteSets

CONSTANTS
    Runs,             \* run ids, one trigger request each (one organization)
    Submissions,
    SubmissionOf,     \* run -> submission
    Orchs,            \* deliveries of evaluate_submission
    Finalizers,       \* deliveries of finalize_and_notify_task
    Cancels,          \* cancel requests
    RunOf,            \* delivery or request -> run
    MaxConcurrent,    \* organization.max_concurrent_evaluations
    PatchStatuses,    \* the statuses users PATCH a submission to
    ContextKeys,      \* the keys of the dictionary _prepare_run returns
    AnalysisRun,      \* what self.run is bound to in the four analysis tasks
    EvaluationModels, \* the classes src/models/evaluation.py defines
    MaxFaults         \* bound: lost workers, failed transactions and publishes

Workers == Orchs \cup Finalizers
Tasks == Workers \cup Cancels

SubmissionStatuses ==
    {"DRAFT", "SUBMITTED", "UNDER_REVIEW", "EVALUATED", "ARCHIVED"}

ASSUME TasksDisjoint ==
    /\ Orchs \cap Finalizers = {}
    /\ Orchs \cap Cancels = {}
    /\ Finalizers \cap Cancels = {}

ASSUME OwnersExist ==
    /\ RunOf \in [Tasks -> Runs]
    /\ SubmissionOf \in [Runs -> Submissions]

ASSUME BoundsAreNumbers ==
    /\ MaxConcurrent \in Nat
    /\ MaxFaults \in Nat
    /\ PatchStatuses \subseteq SubmissionStatuses

VARIABLES
    \* columns of evaluation_runs; a row is visible once its request committed
    status, version, started_at, completed_at, overall_score, error_message,
    \* columns of submissions
    subStatus, subDeleted,
    \* the trigger request of each run, and those that changed the submission
    req, dirty,
    \* control state of deliveries and cancel requests; the version a delivery
    \* read; the retries it has used
    pc, seen, retries,
    dispatched,   \* runs whose chord was accepted by Celery
    revoked,      \* runs whose orchestrator task a cancel request revoked
    old,          \* runs created more than STALE_RUN_HOURS ago
    notices,      \* EVALUATION_COMPLETED audit entries per run
    faults        \* faults so far

rowVars == <<status, version, started_at, completed_at, overall_score, error_message>>
subVars == <<subStatus, subDeleted>>
reqVars == <<req, dirty>>
taskVars == <<pc, seen, retries>>
envVars == <<dispatched, revoked, old, notices>>
vars == <<rowVars, subVars, reqVars, taskVars, envVars, faults>>

RunStatuses == {"PENDING", "RUNNING", "COMPLETED", "FAILED", "CANCELLED"}
TerminalStatuses == {"COMPLETED", "FAILED", "CANCELLED"}
OrchStates == {"idle", "prepare", "dispatch", "fail", "failwrite", "retry", "done"}
FinStates == {"idle", "score", "complete", "audit", "submission", "retry", "done"}
CancelStates == {"idle", "cancel", "done"}
Column == {"null", "set"}

\* max_retries of the two task decorators.
OrchMaxRetries == 1
FinMaxRetries == 2

---------------------------------------------------------------------------
(***************************************************************************)
(* Reading the rows.                                                       *)
(***************************************************************************)

\* Another transaction sees the row once the trigger request has committed.
Visible(r) == req[r] = "committed"

\* A trigger request that changed the submission has flushed its UPDATE before
\* it publishes, and holds the row until it ends.
RowLocked(s) == \E r \in dirty : SubmissionOf[r] = s /\ req[r] = "published"

\* Mutant: a failed run does not count as finished.
IsTerminalButFailed(r) == status[r] \in {"COMPLETED", "CANCELLED"}
\* Mutant: a run that has started needs no second look either.
IsTerminalOrStarted(r) == status[r] # "PENDING"
\* EvaluationRun.is_terminal.
IsTerminal(r) == status[r] \in TerminalStatuses

\* The runs the concurrency check counts.
ActiveRuns == {r \in Runs : Visible(r) /\ status[r] \in {"PENDING", "RUNNING"}}

---------------------------------------------------------------------------
(***************************************************************************)
(* update_with_optimistic_lock and transition_status: the UPDATE matches   *)
(* only if the version is still the one the task read, and bumps it.       *)
(***************************************************************************)

\* Mutant: the WHERE clause forgets the version.
AnyVersion(t) == TRUE
VersionMatches(t) == version[RunOf[t]] = seen[t]

\* Mutant: the version is compared but never advanced.
SameVersion(t, new) ==
    LET r == RunOf[t] IN
    /\ status' = [status EXCEPT ![r] = new]
    /\ UNCHANGED version
    /\ started_at' = IF new = "RUNNING"
                     THEN [started_at EXCEPT ![r] = "set"] ELSE started_at
    /\ completed_at' = IF new \in TerminalStatuses
                       THEN [completed_at EXCEPT ![r] = "set"] ELSE completed_at
\* Mutant: only the end of a run is stamped.
StampsOnlyTheEnd(t, new) ==
    LET r == RunOf[t] IN
    /\ status' = [status EXCEPT ![r] = new]
    /\ version' = [version EXCEPT ![r] = seen[t] + 1]
    /\ UNCHANGED started_at
    /\ completed_at' = IF new \in TerminalStatuses
                       THEN [completed_at EXCEPT ![r] = "set"] ELSE completed_at
transition_status(t, new) ==
    LET r == RunOf[t] IN
    /\ status' = [status EXCEPT ![r] = new]
    /\ version' = [version EXCEPT ![r] = seen[t] + 1]
    /\ started_at' = IF new = "RUNNING"
                     THEN [started_at EXCEPT ![r] = "set"] ELSE started_at
    /\ completed_at' = IF new \in TerminalStatuses
                       THEN [completed_at EXCEPT ![r] = "set"] ELSE completed_at

---------------------------------------------------------------------------
(***************************************************************************)
(* POST /submissions/{id}/evaluate: trigger_evaluation.                    *)
(***************************************************************************)

\* The request may go on: the submission exists and is not archived, and the
\* organization is below its limit.  (A config id that does not exist refuses
\* the request too, with no effect.)
Admitted(r) ==
    /\ SubmissionOf[r] \notin subDeleted
    /\ subStatus[SubmissionOf[r]] # "ARCHIVED"
    /\ Cardinality(ActiveRuns) < MaxConcurrent

\* The reads and checks of the handler, and the status it gives the submission
\* object in memory: DRAFT, SUBMITTED and EVALUATED all become UNDER_REVIEW.
TriggerCheck(r) ==
    /\ req[r] = "idle"
    /\ \/ /\ Admitted(r)
          /\ req' = [req EXCEPT ![r] = "checked"]
          /\ dirty' = IF subStatus[SubmissionOf[r]] \in {"DRAFT", "SUBMITTED", "EVALUATED"}
                      THEN dirty \cup {r} ELSE dirty
       \/ /\ ~Admitted(r)
          /\ req' = [req EXCEPT ![r] = "refused"]
          /\ UNCHANGED dirty
    /\ UNCHANGED <<rowVars, subVars, taskVars, envVars, faults>>

\* INSERT and flush, then evaluate_submission.delay(): the message is out
\* while the row is still invisible.
TriggerDispatch(r) ==
    /\ req[r] = "checked"
    /\ r \in dirty => ~RowLocked(SubmissionOf[r])
    /\ req' = [req EXCEPT ![r] = "published"]
    /\ UNCHANGED <<rowVars, subVars, dirty, taskVars, envVars, faults>>

\* The session commits when the handler returns.
TriggerCommit(r) ==
    /\ req[r] = "published"
    /\ req' = [req EXCEPT ![r] = "committed"]
    /\ subStatus' = IF r \in dirty
                    THEN [subStatus EXCEPT ![SubmissionOf[r]] = "UNDER_REVIEW"]
                    ELSE subStatus
    /\ UNCHANGED <<rowVars, subDeleted, dirty, taskVars, envVars, faults>>

\* delay(), the audit insert or the commit raises, or the process dies: the
\* session rolls back, but a published message stays published.
TriggerRollback(r) ==
    /\ faults < MaxFaults
    /\ \/ req[r] = "checked" /\ req' = [req EXCEPT ![r] = "refused"]
       \/ req[r] = "published" /\ req' = [req EXCEPT ![r] = "rolledback"]
    /\ faults' = faults + 1
    /\ UNCHANGED <<rowVars, subVars, dirty, taskVars, envVars>>

---------------------------------------------------------------------------
(***************************************************************************)
(* evaluate_submission.                                                    *)
(***************************************************************************)

\* A delivery that waits in the broker or for its retry countdown.
OrchDeliverable(t) ==
    /\ pc[t] \in {"idle", "retry"}
    /\ req[RunOf[t]] \in {"published", "committed", "rolledback"}

\* Mutant: the retry counter is compared after it was used.
RetryOnceMore(t, max) ==
    IF retries[t] <= max
    THEN /\ pc' = [pc EXCEPT ![t] = "retry"]
         /\ retries' = [retries EXCEPT ![t] = @ + 1]
    ELSE /\ pc' = [pc EXCEPT ![t] = "done"]
         /\ UNCHANGED retries
\* self.retry(): once more, or the failure is final and the message dropped.
RetryOrGiveUp(t, max) ==
    IF retries[t] < max
    THEN /\ pc' = [pc EXCEPT ![t] = "retry"]
         /\ retries' = [retries EXCEPT ![t] = @ + 1]
    ELSE /\ pc' = [pc EXCEPT ![t] = "done"]
         /\ UNCHANGED retries

\* _prepare_run reads the run: missing raises, terminal skips.
PrepareRead(t) ==
    LET r == RunOf[t] IN
    /\ OrchDeliverable(t)
    /\ \/ /\ ~Visible(r)
          /\ pc' = [pc EXCEPT ![t] = "fail"]
          /\ UNCHANGED seen
       \/ /\ Visible(r) /\ IsTerminal(r)
          /\ pc' = [pc EXCEPT ![t] = "done"]
          /\ UNCHANGED seen
       \/ /\ Visible(r) /\ ~IsTerminal(r)
          /\ pc' = [pc EXCEPT ![t] = "prepare"]
          /\ seen' = [seen EXCEPT ![t] = version[r]]
    /\ UNCHANGED <<rowVars, subVars, reqVars, retries, envVars, faults>>

\* The locked transition to RUNNING; a ConflictError goes to the handler.
PrepareWrite(t) ==
    /\ pc[t] = "prepare"
    /\ \/ /\ VersionMatches(t)
          /\ transition_status(t, "RUNNING")
          /\ pc' = [pc EXCEPT ![t] = "dispatch"]
       \/ /\ ~VersionMatches(t)
          /\ pc' = [pc EXCEPT ![t] = "fail"]
          /\ UNCHANGED <<status, version, started_at, completed_at>>
    /\ UNCHANGED <<overall_score, error_message, subVars, reqVars, seen, retries,
                   envVars, faults>>

\* Celery checks a signature against the task's parameters before it is sent:
\* task.s(run_id, **context) passes run_id twice when context holds it too.
SignatureAccepted == "run_id" \notin ContextKeys

\* chord(parallel_tasks)(sequential_pipeline).
Dispatch(t) ==
    /\ pc[t] = "dispatch"
    /\ \/ /\ SignatureAccepted
          /\ dispatched' = dispatched \cup {RunOf[t]}
          /\ pc' = [pc EXCEPT ![t] = "done"]
       \/ /\ ~SignatureAccepted
          /\ pc' = [pc EXCEPT ![t] = "fail"]
          /\ UNCHANGED dispatched
    /\ UNCHANGED <<rowVars, subVars, reqVars, seen, retries, revoked, old, notices, faults>>

\* _fail_run reads the run in a session of its own; nothing to do if it is
\* missing or terminal.  The task then retries.
FailRead(t) ==
    LET r == RunOf[t] IN
    /\ pc[t] = "fail"
    /\ \/ /\ Visible(r) /\ ~IsTerminal(r)
          /\ pc' = [pc EXCEPT ![t] = "failwrite"]
          /\ seen' = [seen EXCEPT ![t] = version[r]]
          /\ UNCHANGED retries
       \/ /\ ~Visible(r) \/ IsTerminal(r)
          /\ RetryOrGiveUp(t, OrchMaxRetries)
          /\ UNCHANGED seen
    /\ UNCHANGED <<rowVars, subVars, reqVars, envVars, faults>>

\* The locked transition to FAILED; _fail_run swallows a ConflictError.
FailWrite(t) ==
    /\ pc[t] = "failwrite"
    /\ \/ /\ VersionMatches(t)
          /\ transition_status(t, "FAILED")
          /\ error_message' = [error_message EXCEPT ![RunOf[t]] = "exception"]
       \/ /\ ~VersionMatches(t)
          /\ UNCHANGED <<status, version, started_at, completed_at, error_message>>
    /\ RetryOrGiveUp(t, OrchMaxRetries)
    /\ UNCHANGED <<overall_score, subVars, reqVars, seen, envVars, faults>>

\* The database or the broker raises: inside the try block the handler runs,
\* inside _fail_run the exception is swallowed and the task retries.
OrchError(t) ==
    /\ faults < MaxFaults
    /\ \/ /\ OrchDeliverable(t) \/ pc[t] \in {"prepare", "dispatch"}
          /\ pc' = [pc EXCEPT ![t] = "fail"]
          /\ UNCHANGED retries
       \/ /\ pc[t] \in {"fail", "failwrite"}
          /\ RetryOrGiveUp(t, OrchMaxRetries)
    /\ faults' = faults + 1
    /\ UNCHANGED <<rowVars, subVars, reqVars, seen, envVars>>

---------------------------------------------------------------------------
(***************************************************************************)
(* finalize_and_notify_task.  The analysis tasks before it in the chord    *)
(* are entered through self.run: only BaseEvalTask.run would execute them, *)
(* a task function that is its own run method recurses until it fails.     *)
(***************************************************************************)

FinDeliverable(t) ==
    /\ pc[t] \in {"idle", "retry"}
    /\ RunOf[t] \in dispatched
    /\ AnalysisRun = "BaseEvalTask"

\* Step 1 reads the run, the scores and the contradictions.
FinScore(t) ==
    /\ FinDeliverable(t)
    /\ pc' = [pc EXCEPT ![t] = IF IsTerminal(RunOf[t]) THEN "done" ELSE "score"]
    /\ UNCHANGED <<rowVars, subVars, reqVars, seen, retries, envVars, faults>>

\* Mutant: a finalizer that finds the run finished still marks the submission.
FinRefetchNoReturn(t) ==
    LET r == RunOf[t] IN
    /\ pc[t] = "score"
    /\ \/ /\ IsTerminal(r)
          /\ pc' = [pc EXCEPT ![t] = "submission"]
          /\ UNCHANGED seen
       \/ /\ ~IsTerminal(r)
          /\ pc' = [pc EXCEPT ![t] = "complete"]
          /\ seen' = [seen EXCEPT ![t] = version[r]]
    /\ UNCHANGED <<rowVars, subVars, reqVars, retries, envVars, faults>>
\* Step 4 reads the run again, for the current version.
FinRefetch(t) ==
    LET r == RunOf[t] IN
    /\ pc[t] = "score"
    /\ \/ /\ IsTerminal(r)
          /\ pc' = [pc EXCEPT ![t] = "done"]
          /\ UNCHANGED seen
       \/ /\ ~IsTerminal(r)
          /\ pc' = [pc EXCEPT ![t] = "complete"]
          /\ seen' = [seen EXCEPT ![t] = version[r]]
    /\ UNCHANGED <<rowVars, subVars, reqVars, retries, envVars, faults>>

\* The locked transition to COMPLETED; a ConflictError makes Celery retry.
FinWrite(t) ==
    /\ pc[t] = "complete"
    /\ \/ /\ VersionMatches(t)
          /\ transition_status(t, "COMPLETED")
          /\ overall_score' = [overall_score EXCEPT ![RunOf[t]] = "set"]
          /\ pc' = [pc EXCEPT ![t] = "audit"]
          /\ UNCHANGED retries
       \/ /\ ~VersionMatches(t)
          /\ RetryOrGiveUp(t, FinMaxRetries)
          /\ UNCHANGED <<status, version, started_at, completed_at, overall_score>>
    /\ UNCHANGED <<error_message, subVars, reqVars, seen, envVars, faults>>

\* Steps 5 and 6: the audit entry, then the webhook (its failures swallowed).
FinAudit(t) ==
    /\ pc[t] = "audit"
    /\ notices' = [notices EXCEPT ![RunOf[t]] = @ + 1]
    /\ pc' = [pc EXCEPT ![t] = "submission"]
    /\ UNCHANGED <<rowVars, subVars, reqVars, seen, retries, dispatched, revoked, old, faults>>

\* Steps 7 and 8: the submission becomes EVALUATED whatever it was.
FinSubmission(t) ==
    /\ pc[t] = "submission"
    /\ ~RowLocked(SubmissionOf[RunOf[t]])
    /\ subStatus' = [subStatus EXCEPT ![SubmissionOf[RunOf[t]]] = "EVALUATED"]
    /\ pc' = [pc EXCEPT ![t] = "done"]
    /\ UNCHANGED <<rowVars, subDeleted, reqVars, seen, retries, envVars, faults>>

\* A transaction raises: Celery retries the task from its beginning.  But the
\* submission update swallows the exception, and so does the audit repository if
\* it is the INSERT that fails: the task goes on without the entry.
FinError(t) ==
    /\ faults < MaxFaults
    /\ \/ /\ FinDeliverable(t) \/ pc[t] \in {"score", "complete", "audit"}
          /\ RetryOrGiveUp(t, FinMaxRetries)
       \/ /\ pc[t] = "audit"
          /\ pc' = [pc EXCEPT ![t] = "submission"]
          /\ UNCHANGED retries
       \/ /\ pc[t] = "submission"
          /\ pc' = [pc EXCEPT ![t] = "done"]
          /\ UNCHANGED retries
    /\ faults' = faults + 1
    /\ UNCHANGED <<rowVars, subVars, reqVars, seen, envVars>>

\* acks_late and reject_on_worker_lost: the message of a worker that dies is
\* requeued and the task starts over.
WorkerLost(t) ==
    /\ faults < MaxFaults
    /\ pc[t] \notin {"idle", "retry", "done"}
    /\ pc' = [pc EXCEPT ![t] = "idle"]
    /\ faults' = faults + 1
    /\ UNCHANGED <<rowVars, subVars, reqVars, seen, retries, envVars>>

---------------------------------------------------------------------------
(***************************************************************************)
(* POST /evaluations/runs/{id}/cancel: cancel_evaluation_run.              *)
(***************************************************************************)

\* Reads the run, refuses a terminal one, revokes the orchestrator task.
CancelRead(t) ==
    LET r == RunOf[t] IN
    /\ pc[t] = "idle"
    /\ Visible(r)
    /\ \/ /\ IsTerminal(r)
          /\ pc' = [pc EXCEPT ![t] = "done"]
          /\ UNCHANGED revoked
       \/ /\ ~IsTerminal(r)
          /\ pc' = [pc EXCEPT ![t] = "cancel"]
          /\ revoked' = revoked \cup {r}
    /\ UNCHANGED <<rowVars, subVars, reqVars, seen, retries, dispatched, old, notices, faults>>

\* Writes status and completed_at through the ORM: no version in the WHERE
\* clause, no new version.
CancelWrite(t) ==
    LET r == RunOf[t] IN
    /\ pc[t] = "cancel"
    /\ status' = [status EXCEPT ![r] = "CANCELLED"]
    /\ completed_at' = [completed_at EXCEPT ![r] = "set"]
    /\ pc' = [pc EXCEPT ![t] = "done"]
    /\ UNCHANGED <<version, started_at, overall_score, error_message, subVars, reqVars,
                   seen, retries, envVars, faults>>

\* The request rolls back after the revocation was broadcast.
CancelRollback(t) ==
    /\ faults < MaxFaults
    /\ pc[t] = "cancel"
    /\ pc' = [pc EXCEPT ![t] = "done"]
    /\ faults' = faults + 1
    /\ UNCHANGED <<rowVars, subVars, reqVars, seen, retries, envVars>>

\* A worker that hears the broadcast kills or discards the orchestrator task;
\* the tasks of a chord already dispatched are not revoked.
KillRevoked(t) ==
    /\ RunOf[t] \in revoked
    /\ pc[t] # "done"
    /\ pc' = [pc EXCEPT ![t] = "done"]
    /\ UNCHANGED <<rowVars, subVars, reqVars, seen, retries, envVars, faults>>

---------------------------------------------------------------------------
(***************************************************************************)
(* run_maintenance: the hard delete imports three classes from             *)
(* src/models/evaluation.py; only if it succeeds are stale runs failed.    *)
(***************************************************************************)

ImportsResolve ==
    {"EvaluationConfig", "EvaluationResult", "EvaluationRun"} \subseteq EvaluationModels

StaleRuns == {r \in old : Visible(r) /\ status[r] \in {"PENDING", "RUNNING"}}

\* One UPDATE over all stale runs, with no version check and no new version.
Maintenance ==
    /\ ImportsResolve
    /\ StaleRuns # {}
    /\ status' = [r \in Runs |-> IF r \in StaleRuns THEN "FAILED" ELSE status[r]]
    /\ error_message' = [r \in Runs |-> IF r \in StaleRuns THEN "timeout" ELSE error_message[r]]
    /\ completed_at' = [r \in Runs |-> IF r \in StaleRuns THEN "set" ELSE completed_at[r]]
    /\ UNCHANGED <<version, started_at, overall_score, subVars, reqVars, taskVars,
                   envVars, faults>>

\* STALE_RUN_HOURS pass since the run was created.
Age(r) ==
    /\ Visible(r)
    /\ r \notin old
    /\ old' = old \cup {r}
    /\ UNCHANGED <<rowVars, subVars, reqVars, taskVars, dispatched, revoked, notices, faults>>

---------------------------------------------------------------------------
(***************************************************************************)
(* PATCH and DELETE /submissions/{id}.                                     *)
(***************************************************************************)

UpdateSubmission(s, new) ==
    /\ s \notin subDeleted
    /\ ~RowLocked(s)
    /\ subStatus' = [subStatus EXCEPT ![s] = new]
    /\ UNCHANGED <<rowVars, subDeleted, reqVars, taskVars, envVars, faults>>

DeleteSubmission(s) ==
    /\ s \notin subDeleted
    /\ ~RowLocked(s)
    /\ subDeleted' = subDeleted \cup {s}
    /\ UNCHANGED <<rowVars, subStatus, reqVars, taskVars, envVars, faults>>

---------------------------------------------------------------------------
Init ==
    /\ status = [r \in Runs |-> "PENDING"]
    /\ version = [r \in Runs |-> 1]
    /\ started_at = [r \in Runs |-> "null"]
    /\ completed_at = [r \in Runs |-> "null"]
    /\ overall_score = [r \in Runs |-> "null"]
    /\ error_message = [r \in Runs |-> "null"]
    /\ subStatus = [s \in Submissions |-> "DRAFT"]
    /\ subDeleted = {}
    /\ req = [r \in Runs |-> "idle"]
    /\ dirty = {}
    /\ pc = [t \in Tasks |-> "idle"]
    /\ seen = [t \in Workers |-> 0]
    /\ retries = [t \in Workers |-> 0]
    /\ dispatched = {}
    /\ revoked = {}
    /\ old = {}
    /\ notices = [r \in Runs |-> 0]
    /\ faults = 0

TriggerStep(r) == TriggerCheck(r) \/ TriggerDispatch(r) \/ TriggerCommit(r)
OrchStep(t) ==
    PrepareRead(t) \/ PrepareWrite(t) \/ Dispatch(t) \/ FailRead(t) \/ FailWrite(t)
FinStep(t) ==
    FinScore(t) \/ FinRefetch(t) \/ FinWrite(t) \/ FinAudit(t) \/ FinSubmission(t)
CancelStep(t) == CancelRead(t) \/ CancelWrite(t)

Next ==
    \/ \E r \in Runs : TriggerStep(r) \/ TriggerRollback(r) \/ Age(r)
    \/ \E t \in Orchs : OrchStep(t) \/ OrchError(t) \/ KillRevoked(t)
    \/ \E t \in Finalizers : FinStep(t) \/ FinError(t)
    \/ \E t \in Workers : WorkerLost(t)
    \/ \E t \in Cancels : CancelStep(t) \/ CancelRollback(t)
    \/ Maintenance
    \/ \E s \in Submissions : \/ \E new \in PatchStatuses : UpdateSubmission(s, new)
                              \/ DeleteSubmission(s)

Spec == Init /\ [][Next]_vars

\* What the deployment provides: requests and started tasks run to their end.
\* A chord may still break before finalize, so starting a finalizer is not
\* assumed.  Nor is the maintenance task: beat_schedule does not name it, and
\* neither the worker's task discovery nor the deployment files do.
FairSpec ==
    /\ Spec
    /\ \A r \in Runs : WF_vars(TriggerStep(r))
    /\ \A t \in Orchs : WF_vars(OrchStep(t))
    /\ \A t \in Finalizers : WF_vars(pc[t] # "idle" /\ FinStep(t))
    /\ \A t \in Cancels : WF_vars(CancelWrite(t))

\* With the schedule that cleanup_worker's docstring claims: time passes and the
\* maintenance task is started.  Only the run that refutes the docstring grants it.
ScheduledSpec ==
    /\ FairSpec
    /\ \A r \in Runs : WF_vars(Age(r))
    /\ WF_vars(Maintenance)

---------------------------------------------------------------------------
(***************************************************************************)
(* Properties.                                                             *)
(***************************************************************************)

\* Every column, request and task stays in its range, and no delivery exceeds
\* the max_retries of its decorator, however it is redelivered in between.
TypeOK ==
    /\ status \in [Runs -> RunStatuses]
    /\ version \in [Runs -> Nat]
    /\ started_at \in [Runs -> Column]
    /\ completed_at \in [Runs -> Column]
    /\ overall_score \in [Runs -> Column]
    /\ error_message \in [Runs -> {"null", "exception", "timeout"}]
    /\ subStatus \in [Submissions -> SubmissionStatuses]
    /\ subDeleted \subseteq Submissions
    /\ req \in [Runs -> {"idle", "checked", "refused", "published", "committed", "rolledback"}]
    /\ dirty \subseteq Runs
    /\ pc \in [Tasks -> OrchStates \cup FinStates \cup CancelStates]
    /\ \A t \in Orchs : pc[t] \in OrchStates /\ retries[t] <= OrchMaxRetries
    /\ \A t \in Finalizers : pc[t] \in FinStates /\ retries[t] <= FinMaxRetries
    /\ \A t \in Cancels : pc[t] \in CancelStates
    /\ seen \in [Workers -> Nat]
    /\ retries \in [Workers -> Nat]
    /\ dispatched \subseteq Runs
    /\ revoked \subseteq Runs
    /\ old \subseteq Runs
    /\ notices \in [Runs -> Nat]
    /\ faults \in Nat

\* The verdict the workers recorded in a run's row.
Scored(r) == overall_score[r] = "set"
Errored(r) == error_message[r] = "exception"

\* A task about to send its locked UPDATE, with the version it read.
Writing(t) == pc[t] \in {"prepare", "failwrite", "complete"}

\* No run is both scored by finalize and failed by the orchestrator, however
\* often the tasks are delivered, retried and overtaken by one another.
OneVerdict == \A r \in Runs : ~(Scored(r) /\ Errored(r))

\* A run that was scored is COMPLETED, one that failed with an exception is
\* FAILED, and neither is ever seen PENDING or RUNNING again: only a
\* cancellation, which ignores the version, can cover the verdict.
VerdictIsShown ==
    \A r \in Runs : /\ Scored(r) => status[r] \in {"COMPLETED", "CANCELLED"}
                    /\ Errored(r) => status[r] \in {"FAILED", "CANCELLED"}

\* Why the lock works: a version a task has read never runs ahead of the row,
\* and once the run has a verdict no task in flight can match any more.
LockDiscipline ==
    \A t \in Workers :
        Writing(t) => /\ seen[t] <= version[RunOf[t]]
                      /\ Scored(RunOf[t]) \/ Errored(RunOf[t]) => seen[t] < version[RunOf[t]]

\* Duplicate deliveries of finalize write the EVALUATION_COMPLETED entry (and
\* attempt the webhook after it) at most once per run, and only for a run
\* that has its score.
OneNoticePerCompletion ==
    \A r \in Runs : notices[r] <= 1 /\ (notices[r] = 1 => Scored(r))

\* A score is only ever written on a run that the orchestrator had started
\* and dispatched.
ScoredRunsWereDispatched ==
    \A r \in Runs : Scored(r) => started_at[r] = "set" /\ r \in dispatched

\* A submission that shows EVALUATED has a run with a score, as long as nobody
\* sets that status by PATCH: a skipped finalizer must not mark it.
EvaluatedMeansScored ==
    "EVALUATED" \notin PatchStatuses =>
        \A s \in Submissions : subStatus[s] = "EVALUATED" =>
            \E r \in Runs : SubmissionOf[r] = s /\ Scored(r)

\* The verdict as the abstract specification sees it.
verdictOf == [r \in Runs |-> IF Scored(r) THEN "completed"
                             ELSE IF Errored(r) THEN "failed" ELSE "open"]
Verdict == INSTANCE RunVerdict WITH verdict <- verdictOf

\* The row and its five writers implement RunVerdict: workers decide a run at
\* most once and a decided run changes only by being cancelled.
VerdictSpec == Verdict!Spec

\* No run is left RUNNING with nobody to move it on: once a delivery of the
\* orchestrator has committed RUNNING, and until the chord is dispatched, some
\* delivery of the task is still under way, redelivered or waiting for its retry,
\* however deliveries take the version from one another.  This is so up to one
\* fault, if Celery accepts the chord, and unless a cancellation revoked the task;
\* a second fault can hit the handler of the first.
RunningIsAttended ==
    SignatureAccepted /\ faults <= 1 =>
        \A r \in Runs : status[r] = "RUNNING" /\ r \notin dispatched \cup revoked =>
            \E t \in Orchs : RunOf[t] = r /\ pc[t] # "done"

\* As the maintenance task's docstring has it, runs do not stay PENDING or RUNNING
\* for ever: every committed run is in a terminal status from some moment on.
EventuallySettled == \A r \in Runs : Visible(r) ~> []IsTerminal(r)

\* As the model's docstring has it, the version column prevents lost updates:
\* a terminal status, once committed, is not overwritten.
TerminalIsFinal ==
    [][\A r \in Runs : Visible(r) /\ IsTerminal(r) => status'[r] = status[r]]_vars

\* As trigger_evaluation's docstring has it, the limit on concurrent
\* evaluations of an organization holds.
WithinConcurrencyLimit == Cardinality(ActiveRuns) <= MaxConcurrent

\* As the orchestrator's docstring has it, a triggered run that nobody cancels
\* has its pipeline dispatched.
EventuallyDispatched ==
    \A r \in Runs : Visible(r) ~> (r \in dispatched \/ r \in revoked)
===========================================================================
