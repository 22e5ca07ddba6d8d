# A TLA+ verification project for the evaluation engine

The repository is a service that evaluates startup submissions: a FastAPI
application with PostgreSQL, Redis and S3 behind it, Celery workers that run an
evaluation pipeline, and a React frontend. This directory models the parts in
which steps of several processes meet, checks them with TLC on small instances
and proves the central results with TLAPS for every instance. Paths below are
relative to the repository's root, where the Python package is `src/`.

## 1. Inventory

| Part | State | Operations | Talks to |
|---|---|---|---|
| Trigger (`services/submission_service.py`) | submission rows and their status, new run rows | `trigger_evaluation`, `update_submission`, `delete_submission` | publishes the orchestrator's message before its own commit |
| Orchestrator (`workers/tasks/orchestrator.py`) | the run's row | `_prepare_run`, dispatch of the chord, `_fail_run`, one retry | the chord: four analysis tasks, then a chain of four |
| Run repository (`repositories/evaluation_run_repository.py`) | status, version, timestamps, score | `update_with_optimistic_lock`, `transition_status` | used by the workers, not by cancel and maintenance |
| Cancel (`services/evaluation_service.py`) | the run's row | `cancel_evaluation_run` | revokes the orchestrator's task, then writes without the lock |
| Maintenance (`workers/cleanup_worker.py`) | old runs, records past retention | `_hard_delete_expired_records`, `_cleanup_stale_runs` | the only safety net for runs nobody moves; nothing in the repository schedules it |
| Analysis tasks (`github_analysis`, `pitch_deck`, `video_analysis`, `web_verification`) | worker results, claims they return | `execute` | header of the chord |
| Chain (`cross_check`, `fabrication`, `llm_judge`, `finalize`) | claims, contradictions, scores, audit entries, the run's score | one Celery task per stage, several transactions each | each stage's result is the next one's argument |
| `BaseEvalTask` | worker results, progress, dead letter queue | `run`, retries, `_check_idempotent`, counters | base class of the tasks; its `run` is overridden by all of them, though the analysis tasks mean to call it |
| Accounts (`services/auth_service.py`, `security.py`, `api/deps.py`) | users, organizations, failed attempts, API keys | register, login, refresh, key creation, use, revocation | every request |
| Datasets (`services/dataset_service.py`, S3) | dataset rows, objects | initiate, confirm, delete | the client uploads directly to S3 |
| Configurations and webhooks (`evaluation_service`, `webhook_service.py`) | configuration rows with a version, the snapshot of a run, deliveries | CRUD, snapshot at the trigger, three attempts | the receiver's server |
| Metric catalogue (`services/metric_service.py`, `main.py`) | built-in and custom metrics | seeding at every start, creation | several application instances, one database |
| Lists (`utils/pagination.py`, the `list_*` functions) | rows ordered by creation | count, page | clients that walk pages |
| Results and export (`services/result_service.py`) | none of its own; files in S3 | export, summary | reads what the pipeline is still writing |
| Rate limiter (`middleware/rate_limiter.py`) | a sorted set in Redis | one transaction per request | every request |
| Audit log (`services/audit_service.py`) | append-only entries | one in the transaction of each operation | an action it does not know ends the request |
| Progress (`update_progress`, `api/v1/ws_runs.py`) | Redis channels, subscriptions | publish, relay to a socket | the live page; nothing waits for it |
| Caches, health, observability | Redis keys, counters | see `PROJECT.json` | nothing waits for them |
| Frontend (`api/client.ts`, `hooks/useWebSocket.ts`, `EvaluationStream.tsx`) | tokens, the refresh queue; sockets, timers, what the live page displays | refresh on 401; connect, reconnect, close | the API |

What is hard here:

* **Several writers of one row.** Two orchestrator deliveries, two finalizers, a
  cancel request and the maintenance task all write the run's row; only the
  workers use the version.
* **At-least-once delivery.** `task_acks_late` and `task_reject_on_worker_lost`
  redeliver a task that has already committed.
* **Messages outside the transaction.** The trigger publishes before it commits,
  the cancel request revokes before it commits.
* **Stages of several transactions.** `llm_judge` stores scores in one and bills
  in another; `finalize` completes the run, then writes its audit entry, then
  marks the submission; `fabrication` commits once per flagged claim.
* **Handlers that read, wait and write.** Registration, login, key use, upload
  confirmation, configuration updates and seeding all test what had been committed
  and write later; what protects them is a unique index, a row lock, the set of
  columns an UPDATE names, or nothing.
* **Exceptions after work is done.** A handler that raises loses everything it
  flushed: the count of failed logins, the status FAILED, and, where the audited
  action does not exist, the whole operation.
* **Readers beside writers.** Exports, summaries and pages are several statements,
  each of a later moment.
* **One refresh for many requests.** The browser queues requests behind a token
  refresh that may fail, be lost or come too late.
* **Handlers that outlive their effect.** A socket's handlers and its reconnection
  timer keep the URL of the run they were made for; the cleanup undoes neither.
* **Nobody is left to move a run** after a broken chord, a lost message or an
  exhausted retry, except the maintenance task. `workers/cleanup_worker.py:10` says
  that it runs on a schedule; `beat_schedule` in `workers/celery_app.py:227-232` has
  only `poll-queue-depth`, `autodiscover_tasks` (124-135) does not load the module,
  and neither the compose file nor the Kubernetes manifests start it.

What makes each part correct: a run gets at most one verdict and shows it; its
completion is announced at most once; a submission is EVALUATED only with a
score; a started run is never left without a delivery that will dispatch or fail it;
the chain stores scores once, bills once and computes
the score its claims deserve; an outage of the models does not stop it. Around
the pipeline: registrations are whole and unique, a revoked key stays revoked, a
READY dataset stays READY and describes its object once the upload URL is dead, an
event is delivered no more often than it is tried, the catalogue is complete, a walk
through pages misses nothing that was there, a report that says COMPLETED has what
the score was made of, nobody exceeds the quota unseen, failed logins lock an
account, the browser's requests settle without ending the session, and the live page
displays the run on screen. Not all of these hold; sections 3 and 5 say which.

`PROJECT.json` lists every component with its status and every hazard at its
line, with the properties that cover it or the reason why none does.

## 2. Modules

| Module | Models | Proofs |
|---|---|---|
| `RunVerdict` | what the lock promises of a run: the abstract specification | |
| `RunLifecycle` | trigger, orchestrator, finalize, cancel, maintenance, submission edits | `RunLifecycleProofs`, `RunVerdictProofs`, `RunNoticeProofs` |
| `MCRunLifecycle` | its instances | |
| `Scoring` | the arithmetic: contradictions, risk, validation, averages, penalty | `ScoringProofs` |
| `EvaluationChain` | `cross_check`, `fabrication`, `llm_judge`, the score of `finalize` | `EvaluationChainProofs` |
| `MCEvaluationChain` | its instances | |
| `AnalysisHeader` | `BaseEvalTask.run` and the four analysis tasks, up to the join of the chord | `AnalysisHeaderProofs` |
| `MCAnalysisHeader` | its instances | |
| `Requests` | what API requests share: the transaction and the audited action | |
| `Accounts` | registration, login, API keys | `ServiceProofs` |
| `MCAccounts` | its logins with a history of refusals, against the code as committed | |
| `Datasets` | upload, confirmation, deletion | `ServiceProofs` |
| `Configurations` | configurations, a run's snapshot, the webhook | `ServiceProofs` |
| `MetricCatalogue` | seeding and custom metrics | `ServiceProofs` |
| `Listing` | offset pagination | `ClientProofs` |
| `ResultReads` | exports and summaries beside the pipeline | `ClientProofs` |
| `RateLimiter` | the sliding window | `ClientProofs` |
| `SessionRefresh` | the browser's tokens and refresh queue | `ClientProofs` |
| `LiveView` | the progress of a run from the tasks through a socket to its page | `ClientProofs` |
| `MCPlatform` | the nine components above, in one instance | |
| `MCSessionRefresh` | the session against the code as committed | |

### RunLifecycle

State: the columns of each run (`status`, `version`, `started_at`,
`completed_at`, `overall_score`, `error_message`), the submissions, the trigger
request of each run, a program counter, retry count and read version (`seen`)
per task, and the environment (dispatched chords, revoked tasks, old runs,
audit notices). One action per transaction or per step between awaits. Rows of a
request are invisible to others until `TriggerCommit` (READ COMMITTED), and the
request holds the row lock of its submission from its flush to its end
(`RowLocked`). A task reads in one action and writes in another; `VersionMatches`
is the WHERE clause of the locked update, and `transition_status` its effect.
`CancelWrite` and `Maintenance` write without it, as the code does.

Three constants separate the code as committed from the code as meant, because
as committed some of it cannot be reached:

* `ContextKeys`: the keys of the dictionary `_prepare_run` returns. With `run_id`
  among them the dispatch is refused (`SignatureAccepted`).
* `AnalysisRun`: whether the analysis tasks' entry point is the base class's or
  the task function itself, which recurses.
* `EvaluationModels`: the classes `src.models.evaluation` defines. Without
  `EvaluationResult`, which `cleanup_worker` imports, the maintenance task fails
  before it does anything (`ImportsResolve`).

The violation runs `stuck_run` and `no_dispatch` use the committed values; the
other runs use the repaired ones, in which the rest of the code is reachable.

### EvaluationChain and Scoring

State: the rows the chain leaves (claims, contradictions, scores, billing
entries, the score) and, per dispatched chain, its stage, retries and the values
in flight. `Chains` are the dispatches for one run; two of them are what a
duplicated orchestrator causes. `Retry` is `autoretry_for`, `WorkerLost`
redelivery, possibly after the last commit, `TransactionFails` a rollback or a soft
time limit that expires at any step, after a commit too; the
audit repository swallows its own failures, so a billing entry may be lost
without a retry. Claim texts are abstracted to what the code extracts: the
numbers in them (integers, on which both regular expressions of the code agree)
and the features the risk assessment looks for. Scores are integers in units of
0.0001, severities and risks in units of 0.01; `round` is `Nearest`, which allows
both neighbours at a tie, because the float decides. A chain that reaches
`finalize` is one whose run is not cancelled; locking and notices are
`RunLifecycle`'s.

### AnalysisHeader

State: the worker results (`rows`, per worker type), the counters of the run, and
per task (a dispatch and a worker type) its place in `run`, its retries, the row
it found and the result it holds; per dispatch the claims `cross_check` receives.
`CheckIdempotent`, `CreateRead`, `CreateWrite`, `Execute`, `MarkCompleted`,
`Return` and `MarkFailed` are the steps of `run` in its order; `Outcomes` is what
each analysis can come to, texts and scores abstracted to the claims, their
categories and numbers. The placeholder text of a slide contains no keyword, so
`pitch_deck` yields no claims. `SoftTimeLimit` may expire inside `execute`, where a
handler may swallow it, or between the commit of the result and the return. The
dead letter queue is not reached: `autoretry_for` wraps `run` from outside. The
hard time limit acts like `WorkerLost`. Two constants tell the committed wiring
from the one meant: `AnalysisRun`, as above, and `ExecuteBound`, since the lambdas
assigned to `execute` on a task instance are not bound and get one argument too
few. The runs use the wiring that is meant.

`EvaluationChain` starts where this module ends; its `Reports` are not derived
from the header, so that the chain is checked for reports with contradictions
that the present analyses cannot produce (section 6).

The window in which a stage has published its successor but is not yet
acknowledged is not modelled.

### The services: Requests and the modules on it

A handler is a sequence of actions, one per statement that another transaction can
observe or wait for. `areq`, `dreq`, `creq` and `mreq` hold, per concurrent
request, the place of the handler and what it has read; committed rows change only
in the actions named `...Commit`. A read sees committed rows. The operators
`...Held` are PostgreSQL's row and index locks: an UPDATE or a conflicting INSERT
waits until the transaction that has flushed the row ends. An UPDATE writes the
columns SQLAlchemy found changed, never the row that was read. `...Abort` is the
rollback of `get_db_session`, after a lost connection, an exception, or an audit
INSERT that failed and was swallowed while PostgreSQL had aborted the transaction.

`AuditActions` is the enumeration `AuditAction`. Handlers evaluate
`AuditAction.X` themselves, outside the `try` of `create_audit_log`, so where X is
missing the handler raises after all its work: `Audited(X)` guards its commit.
Five members that handlers name are missing (`NamedActions`), so that as committed
no API key is created or revoked, no token is refreshed and no dataset confirmed
or deleted. The run `platform` completes the enumeration (`RepairedActions`), so
that the rest of those handlers is reachable; `refresh` takes it as committed.

* `Accounts`. The unique indexes on slug and e-mail decide between registrations
  that both passed the checks. A wrong password increments a counter, flushes it,
  and raises: the rollback takes the increment with it. `MCAccounts` counts the
  refusals beside it, and the run `lockout` shows that they do not lock the account.
  `SetActive` and `KeyExpires` are the environment's.
* `Datasets`. `object` is the stored object, `url` the presigned URL; `checkedLate`
  records the datasets whose checksum was verified after the URL expired. A
  confirm that fails flushes FAILED and raises: the API never shows FAILED, although
  `tests/unit/test_dataset_service.py`, which calls the service without the
  request's transaction, sees it.
* `Configurations`. The snapshot is `pipeline_config`, and `webhook_url` is looked
  up in it; the column `webhook_url` of the configuration, which
  `schemas/evaluation.py:29-33` documents as the completion callback, is written and
  never read (`hook`). The version is written as the one read plus one, so that
  increments are lost; no code compares it.
* `MetricCatalogue`. `boot` is the start of an instance, with the metrics it has
  added to its session but not flushed. A look-up that meets two rows raises, and
  the instance serves without seeding.
* `Listing`. `created_at` is the start of the inserting transaction, so that a row
  appears anywhere between the others. `torn` and `lost` record the two events
  after which a client may really miss a row.
* `ResultReads`. The pipeline as its readers see it: one product after the other,
  from `cross_check` on in several `Executions` (a second dispatch, or a redelivery),
  which store claims of their own before or after COMPLETED. `settled` are the claims
  behind the score, those the execution that completed the run had loaded; `got` is
  what a reader holds. An export reads one page of claims, in the order of their
  transactions (`Pages`). Reading the run again does not refresh the object of the
  session. That COMPLETED may be left again (`lost_update`) is not among the steps.
* `RateLimiter`. For one key. Members of the sorted set are timestamps, so requests
  with equal ones are one entry; a refused request is recorded too. Time is in ticks
  of one second, and requests of one tick have one timestamp. `unseen` records the
  admitted requests the count cannot rely on (`Unreliable`): their timestamp was
  there already, their transaction came out of order, or later than the second by
  which the key outlives the window.
* `SessionRefresh`. `carried` tells the stored access token, an earlier valid one
  and an expired one apart; `excuses` records what has happened that may end a
  session: the refresh token expired, the user was deactivated, a refresh got no
  answer, or it got an error. The last includes 429, since the rate limiter does not
  exempt `/auth/refresh`, and 5xx: the catch block of the client treats all alike.
* `LiveView`. `sockets` keeps, with each socket, the run in the closure of its
  handlers; `screen` is the run the page has rendered, `hooked` the one its effects
  ran for: React runs them some time after it has painted, and a message may arrive
  in between. `timers` are reconnections to come, `earlier` the sockets opened
  before the effects ran last. `strayed` records the three events that mix up runs:
  a reconnection set up by an earlier effect, a message that arrives after a change
  of the run and before its effects, and one that was not yet rendered at the
  change. Browser and Redis are external: a closed socket delivers nothing, one
  that is closed while connecting ends with code 1006, and a channel keeps nothing
  for later subscribers. Percentages and texts are left out.

## 3. Runs

| Run | Instance | What it shows |
|---|---|---|
| `lifecycle_safety` | one run, two orchestrator and two finalize deliveries, a cancel, maintenance, edits of the submission, one fault | nine properties, among them the refinement `VerdictSpec`; 1.5 million states |
| `chain` | two dispatches, a report too short to compare and one with five claims, models that fail, answer low scores or leave [0, 1], one fault | eight properties; 45 thousand states |
| `header` | one dispatch, three of the four analyses, a submission with all sources or one, one fault | five properties; 237 thousand states |
| `two_headers` | one analysis in two dispatches, one fault | `RowsPerDispatch` |
| `platform` | two account requests over two addresses and two organizations, three dataset requests, two configuration requests and a run, three instances, three rows, a reader beside two executions of the chain, three requests over four ticks, three browser requests, a page with two runs, three sockets and one reconnection | fourteen properties; 589 thousand states |
| `lost_update` | violation | `TerminalIsFinal`: a cancelled run becomes RUNNING again |
| `stuck_run` | violation, with fairness and a schedule for the maintenance task | `EventuallySettled`: a run stays PENDING for ever without any fault |
| `no_dispatch` | violation, with fairness | no run is ever dispatched |
| `concurrency_limit` | violation, two runs | two requests pass a limit of one |
| `redelivery` | violation | one lost worker doubles the contradictions of a run |
| `refresh` | violation, two browser requests, the enumeration as committed | the first expiry of an access token ends the session |
| `lockout` | violation, one user, one request at a time | `LockedAfterFailures`: five refusals in a row do not lock the account |

Properties of `RunLifecycle`: `OneVerdict` (no run is both scored by finalize and
failed by the orchestrator), `VerdictIsShown` (a decided run never looks open
again; cancellation may cover the verdict), `LockDiscipline` (no task holds a
version ahead of the row, and every version held is stale once the run is
decided), `OneNoticePerCompletion`, `ScoredRunsWereDispatched`,
`EvaluatedMeansScored` (unless a user sets that status), `VerdictSpec`
(`RunLifecycle` implements `RunVerdict`), `RunningIsAttended` (a run that is RUNNING
and not yet dispatched has a delivery of its orchestrator that has not ended, unless
a second fault hit it, Celery refused the chord or a cancellation revoked the task).
What happens after the dispatch is up to the chain and, when a chord breaks, to the
maintenance task: `EventuallySettled` is checked only where it is refuted.

Properties of `EvaluationChain`: `ScoresAreFinal`, `BilledOnce`,
`FinalizeHasScores` (the default of 0.5 is never used), `OutagesDoNotBreak`,
`AssessedBeforeJudged`, `ScoreIsDeserved` (an undisturbed chain computes what the
header's claims deserve by a definition that looks only at them), `ChainsEnd`.
`ScoreIsDeserved` says nothing of reports with a severity of exactly 0.4: the code
(`> 0.4`) calls it low, the docstring of `contradiction_repository.py:90` medium.
`BilledOnce` is an upper bound: scores whose billing entry is lost stay unbilled.

Properties of `AnalysisHeader`: `ReportIsBacked` (what the chord delivers is what
the one COMPLETED row of each worker holds), `CountersAgree` (the run's counters of
completed and failed workers against the rows), `RowsPerDispatch`,
`GithubAloneBreaks` (the other three analyses turn every failure into a result),
`HeaderEnds`.

Properties around the pipeline: `OneFounderPerOrganization`, `RevocationIsFinal`
(`Accounts`); `ReadyNeverRegresses`, `LateCheckIsFinal` (`Datasets`);
`DeliveriesAreBounded` (`Configurations`); `DuplicatesAreBounded`,
`SeededCatalogueIsComplete` (`MetricCatalogue`); `InsertsHideNothing` (`Listing`);
`CompletedReportsAreComplete` (`ResultReads`); `ExcessIsUnseen` (`RateLimiter`);
`NobodyWaitsForNothing`, `EveryCallSettles`, `SessionOutlivesAccessToken`
(`SessionRefresh`); `StreamShowsItsRun` (`LiveView`). Several say how far a weakness of the code goes: duplicates in
the catalogue exist but are bounded by the instances, a page may repeat rows but
hides none of those a deletion or an insert between its two queries does not, a
window may hold more requests than the quota but the excess is no larger than the
number of requests in it that the limiter cannot see, an export of a run that says
COMPLETED has what its score was made of unless its page of claims is full, a
session ends for four causes only, the live page shows its own run until one of
three events happens.

The nine components of `platform` share no variable, so no behaviour of one can
disturb another. `focus` picks one component per behaviour, which checks each of
them in full while the states add up and do not multiply.

**Bounds.** `MaxFaults` is 1: a second fault repeats a recovery the first one
has shown, and the theorems hold for any number. Two deliveries per task are
what a conflict over a version takes. Retry budgets are the code's own. Versions
are bounded by the retries and need no cap. Reports have one or five claims, so
that both early returns, a critical contradiction and one exactly at the end of a
bucket (0.8) occur; model answers are chosen below the penalty (so that the clamp acts),
failing and out of range. `header` leaves `pitch_deck` out, whose outcomes are
among those of `video_analysis`. In `platform`, two requests are what a race between
checks and writes takes, and the third dataset request lets two stale confirms
follow a commit; three instances make duplicates at the bound reachable after a
restart; three rows and a page size of two give a last page that is not full;
a limit of two in a window of three ticks, with three requests and four ticks, lets
a window slide, the key expire and a window hold one request too many; three browser requests are one that refreshes, one that
waits and one whose 401 comes late; three sockets are one per run and a
reconnection, with one message at a time on its way to each. `ExportPage` is 3, between the claims
of one execution and those of two: a page may hold everything or be full. `MaxVersion` and `MaxClock` bound counters. The runs do not check for deadlock: requests and deliveries are finite, and when
they have ended there is nothing to do. That nothing ends too early is what
`RunningIsAttended`, `ChainsEnd`, `HeaderEnds` and `EveryCallSettles` say.

**Fairness.** Weak fairness of the steps of a started task and of a request,
which the worker and the web server provide. No passing run assumes that the
maintenance task is ever started, because nothing in the repository schedules it;
`stuck_run` alone grants it (`ScheduledSpec`), to show that it would not help. Starting a finalizer is not fair,
because a chord may break; nor is any fault, cancellation or edit. `ChainsEnd` and
`HeaderEnds` assume that a worker picks up every message in the broker, and the
latter that the chord is unlocked when its tasks have returned. `EveryCallSettles`
assumes that a request is answered or fails in the end (the client sets no timeout,
so this is the network's and the server's part) and that the browser runs the
interceptor on each answer. Nothing about tokens is fair.

## 4. Proofs

All theorems hold for arbitrary sets of runs, submissions, tasks, chains, requests,
users and rows and any number of faults. Assumptions: every task has a run and every run a
submission, the sets of tasks are disjoint, instances and requests are finitely
many where rows are counted, a website has finitely many signals, a report is a
sequence of claims with natural numbers in them, the variation of a synthetic score
lies in [-0.1, 0.1], bounds are natural numbers (`ASSUME`s of the modules, evaluated
by TLC in the runs). Three theorems about the header assume more, and say so in their
statements: one dispatch, the wiring that is meant, or both.

* **The lock** (`RunLifecycleProofs`). `OneVerdict` is not inductive: a step
  deciding a run must be shown to find it undecided, and all it knows is that the
  version it read is still there. The inductive invariant adds `LockDiscipline`:
  a version held by a task that is about to write never exceeds the row's, and if
  the run is decided it is strictly smaller. A locked write advances the version,
  so whoever read before a verdict no longer matches. The unlocked writes of
  cancel and maintenance leave the version and the verdict columns consistent,
  which is why the verdict survives although the status does not
  (`lost_update`). `TypeCorrect`, `VerdictIsUnique`, `VerdictStaysShown` and
  `LockIsDisciplined` follow. `RunningStaysAttended` has an invariant of its own
  (`AttendInv`): behind every RUNNING run that is not dispatched stands a delivery
  that starts over, dispatches next, or writes next with the version the row still
  has; a write that takes the version from another delivery leaves its own writer in
  such a place.
* **Refinement** (`RunVerdictProofs`). The verdict of a run is read off
  its score and its error message, its status is the status column; under this
  mapping every step decides an open run, covers one, moves open ones or
  stutters: `ImplementsVerdict`.
* **What follows a completion** (`RunNoticeProofs`). A finalizer between its write
  and its audit entry is the only one for its run, and the entry is not there
  yet; one that stands before the submission update belongs to a scored run. From
  this, with the lock's invariant, `NoticeIsUnique`, `ScoresFollowDispatch`,
  `EvaluatedFollowsScore`.
* **The chain** (`EvaluationChainProofs`). A chain about to bill is the one that
  stored the scores, of which the unique index allows one, and nothing is billed
  yet: `BillingIsUnique`, `FinalizeFollowsJudge`, `ScoresNeverChange`. What the
  tables hold is `RangesInv`: well-formed rows with severities in range, positions to
  assess that exist and are flagged (`DataInv`), and scores, risks and counters in
  range, with what `llm_judge` is about to store valid whichever of the two models or
  the fallback it comes from (`LevelsInv`). This gives `ChainValuesInRange` and
  carries the other three.
  `OutagesAreSurvived`: without a fault an INSERT of valid scores can only fail on
  the unique index, and the chain that stored the scores is already behind it
  (`OutageInv`), so the one that fails is another.
  `VerdictsPrecedeJudge`: a claim carries its verdict or none yet, and a chain in
  fabrication still has to assess those of its claims that carry none (`AssessInv`);
  claims that another chain adds in between are not its own, and writing a verdict
  twice writes the same one.
  `LoneChainScoresRight`: while no other chain has begun and nothing has failed, the
  contradictions stored are those found in one comparison of the report (`AloneInv`).
  A step of another chain leaves `cross`, and without a fault none comes back there,
  so only the chain itself can move. The counts per bucket times their weights are
  the sum over the pairs of what each costs (`PenaltyAddsUp`, with rows and pairs in
  one-to-one correspondence, `RowsAsPairs`), and the upper bound on the score has no effect
  because the average does not exceed 1.
* **The header** (`AnalysisHeaderProofs`). `RowsPerDispatch` is not inductive: a
  task that has found no row will insert one whatever happens meanwhile. The
  invariant counts those tasks as well: rows plus dispatches about to insert never
  exceed the dispatches, because one starts to insert only while there is no row.
  This gives `RowsAreBounded`; with one dispatch there is never a second row, so
  neither check raises, and `OnlyGithubBreaks` follows (assuming the wiring that is
  meant). `HeaderTypes` holds for any wiring and any number of dispatches.
  `ReportsAreBacked` (one dispatch) needs to know, for each place in `run`, what the
  row is by then: not completed before `_mark_completed`, what the task found while it
  is about to write, and completed with the task's own result behind it
  (`SingleInv`). `CountersAreRight` adds that `completed_workers` lies between the
  stored results and those plus the failures, and that without a fault each retry
  has been counted (`CountersInv`).
* **The services** (`ServiceProofs`). Each invariant adds what a handler in the
  middle of its work may rely on. Accounts: a registration that has inserted its
  organization knows that the slug is free, and no two such registrations have one
  slug (`Knows`, `Apart`); with that the commit cannot add a second founder:
  `AccountsAreSound`, `RevokedForGood`. Datasets: a check
  made after the expiry compared with an object that cannot change any more, and
  only the holder of the row commits (`LateChecks`): `LateCheckHolds`,
  `ReadyIsFinal`. Configurations: the calls received fit the attempts made so far
  (`CallsFit`): `AttemptsBoundDeliveries`. Catalogue: rows
  plus instances about to add one never exceed the instances, since an instance
  decides to add a metric only while it has no row at all (`RowsToCome`), and what
  an instance has passed is stored or about to be (`Passed`): `CatalogueIsSound`,
  `SeedingIsComplete`.
* **Clients** (`ClientProofs`). `QueueIsServed` is inductive with the types.
  `SessionIsKept` is about the code with one repair: it assumes that the refresh can be
  audited, which is false of the enumeration as committed (run `refresh`). Its
  invariant says that without an excuse the refresh token is valid and the user
  active; errors and lost answers of the refresh are among the excuses.
  `ReportsAreComplete` rests on the order of each execution's commits
  (`PipelineOrder`), on the scores being stored once, so that the execution that
  completes a run is the one that stored them, and on what a reader of a COMPLETED
  run has read staying complete while other executions add claims (`ReadsAreFinal`);
  a page that is not full is all there is (`PageIsWhole`). `QuotaIsKept` shows that
  every admitted request that is not unseen has a timestamp of its own (`Counted`),
  still in the set while its window lasts (`Remembered`), so that the count the
  limiter tests is at least the number of those requests; the rest of a window is the
  excess. `StreamIsTidy` needs what
  holds of sockets always (`Wiring`: a socket carries messages of its own run, a
  timer belongs to a closed socket) and what holds until something strays
  (`OneConnection`: the effect in force has one live socket, the one in `wsRef`, or
  one reconnection to come, so that the cleanup closes all there is; `RightRun`).
  `WalksMissNothing`: wherever a row is inserted, the others keep their places or
  move to later ones, so a row of the beginning that lies before the offset of the
  next page has been seen (`WalkInv`); and the number of pages computed from a count
  that is still true reaches the last row (`PageOffsets`, `LastPage`).
* **Arithmetic** (`ScoringProofs`). Averages, penalised scores and synthetic
  scores stay in [0, 1] after rounding, contradictions never raise a score,
  conflict is symmetric; the risk of a claim and the severity of a contradiction are
  in range, the first conflicting pair of the two loops included
  (`RiskInRange`, `SeverityInRange`). The module also holds what the chain needs of sums
  and extrema: `SumFunction` satisfies its recursion over finite sets (`SumExists`,
  `SumBySteps`), sums of bounded values are bounded (`SumInRange`), `Max` and `Min`
  are attained. These are inductions over finite sets, done without an induction
  rule: the subsets that lack the property have a minimal one, strict inclusion
  being well founded, and none can be minimal (`NoLeastSet`).

Every safety property that a passing run checks is a theorem. Only model-checked are
the liveness properties `HeaderEnds`, `ChainsEnd` and
`EveryCallSettles` (fairness and ENABLED are outside the prover's reach), and the
violations, which are traces.

## 5. Findings

Each is a violation run with its trace: cancellation loses to a concurrent locked
write (`lost_update`); the maintenance task is scheduled by nothing and, were it
started, would fail at an import, so that runs stay PENDING (`stuck_run`); the chord is never dispatched (`no_dispatch`); the
concurrency limit can be exceeded (`concurrency_limit`); a redelivered
`cross_check` is not idempotent (`redelivery`); a token can never be refreshed,
because the audited action does not exist (`refresh`); failed logins never lock an
account, because the counter is rolled back (`lockout`). `PROJECT.json` quotes the lines
that say otherwise.

## 6. Not modelled

Logging, tracing, counters, schemas, single read-only queries and pages hold no
state that another step depends on. Hashing, JWT encoding, S3, Redis and the Celery
broker are external and appear only through what the code observes of them. The
development bypass of `get_current_user` is left out.

Code that no path reaches, and that a model could only invent a use for:

* `CacheManager.connect` is never called, so its cache never stores; the entries of
  `eval_config` that `evaluation_service` deletes are never set or read;
  `submission_cache` and `submission_repository` import each other and no service
  imports either.
* `rate_limit.check_rate_limit`, `progress.get_run_progress`, the functions of the
  dead letter queue and `paginate_list` have no caller; the export tasks are never
  enqueued; the repositories of users and organizations are not used.
* The hard deletion of `cleanup_worker` stops at the same missing class as the rest
  of that task.

Facts met while modelling that no run is about: the tables of datasets, metrics and
API keys are absent from the migration; the rate limiter records refused requests
although `middleware/rate_limiter.py:11` says "If under limit, add current
timestamp", uses the default limit although line 14 names the organization's, and
keys by address, because it runs before authentication; a close by the server
without a code counts as clean for `useWebSocket`, so the stream stops for good; two
messages before one render leave only the second on the page; "Pipeline completed
successfully." appears as soon as every worker seen so far is at 100; `ROLE_HIERARCHY` has no
entry for the role JUDGE, which no endpoint assigns.

Where a comment promises more than the code does and a property here states only what
the code does:

* With the categories the four analyses give their claims, only claims about the
  product can conflict. The examples of `workers/tasks/cross_check.py:30`
  (contributors in GitHub against a team of 20 in the deck) and
  `models/contradiction.py:8-14` cannot occur.
* A severity of exactly 0.4 is low for the code and medium for the docstring of
  `repositories/contradiction_repository.py:90`; `ScoreIsDeserved` leaves it open.
* The field `webhook_url` of a configuration (`schemas/evaluation.py:29-33`) is never
  called; the run calls the URL under that key of its snapshot, if there is one.
* `services/webhook_service.py:6-7` reads like four attempts (three retries after 1, 2
  and 4 seconds); `stop_after_attempt(3)` makes three, which is the bound of
  `DeliveriesAreBounded`.
* `services/metric_service.py:103-104` means to create no duplicates;
  `DuplicatesAreBounded` only bounds those that instances starting together create.
* `services/result_service.py:192` exports "all pipeline results"; the claims of an
  export are one page of 10000. `CompletedReportsAreComplete` says nothing about the
  claims of a full page.
* `middleware/rate_limiter.py:6` promises the limit for any window;
  `ExcessIsUnseen` says by which requests it is exceeded. A page that has used up its
  quota loses its session when its refresh is answered 429.
* `InsertsHideNothing` and `StreamShowsItsRun` end at the events recorded in `torn`,
  `lost` and `strayed`, after which rows are missed and runs mixed up.

Of the models' answers, scores that are not numbers in JSON's sense (NaN) and
rationales that are not strings, which `workers/tasks/llm_judge.py:340` lets through,
are left out.

What could follow: the refinement of an abstract pipeline by the header and the chain
in sequence, which needs the chain's `Reports` to be the header's reports, and the
window between the publication of a stage and its predecessor's acknowledgement.
