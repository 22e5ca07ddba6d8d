------------------------ MODULE RunLifecycleProofs ------------------------
(***************************************************************************)
(* Theorems about RunLifecycle, for every set of runs, submissions and     *)
(* deliveries and every value of the other constants.                      *)
(***************************************************************************)
EXTENDS RunLifecycle, TLAPS

\* The control states and columns that the steps name.
USE DEF RunStatuses, TerminalStatuses, OrchStates, FinStates, CancelStates, Column,
        SubmissionStatuses, Workers, Tasks, OrchMaxRetries, FinMaxRetries

\* A retry keeps control states and retry counters in range (self.retry and
\* Celery's autoretry).
LEMMA RetryType ==
    ASSUME NEW t \in Workers, NEW max, TypeOK, RetryOrGiveUp(t, max)
    PROVE  /\ pc' \in [Tasks -> OrchStates \cup FinStates \cup CancelStates]
           /\ pc'[t] \in {"retry", "done"}
           /\ \A u \in Tasks : u # t => pc'[u] = pc[u]
           /\ retries' \in [Workers -> Nat]
BY DEF RetryOrGiveUp, TypeOK

\* A retry stays within the max_retries of the task's decorator.
LEMMA RetryBudget ==
    ASSUME TypeOK,
           NEW t \in Workers,
           \/ t \in Orchs /\ RetryOrGiveUp(t, OrchMaxRetries)
           \/ t \in Finalizers /\ RetryOrGiveUp(t, FinMaxRetries)
    PROVE  /\ \A u \in Orchs : retries'[u] <= OrchMaxRetries
           /\ \A u \in Finalizers : retries'[u] <= FinMaxRetries
BY TasksDisjoint DEF RetryOrGiveUp, TypeOK

\* The locked UPDATE keeps the four columns it writes in range.
LEMMA TransitionType ==
    ASSUME NEW t \in Workers, NEW new \in RunStatuses, TypeOK, transition_status(t, new)
    PROVE  /\ status' \in [Runs -> RunStatuses]
           /\ version' \in [Runs -> Nat]
           /\ started_at' \in [Runs -> Column]
           /\ completed_at' \in [Runs -> Column]
BY OwnersExist DEF transition_status, TypeOK

\* Every step of a request, a task or the maintenance keeps the types.
LEMMA TypeStep == TypeOK /\ [Next]_vars => TypeOK'
<1> SUFFICES ASSUME TypeOK, [Next]_vars PROVE TypeOK'
  OBVIOUS
<1> USE OwnersExist, TasksDisjoint
<1>1. ASSUME NEW r \in Runs, TriggerStep(r) \/ TriggerRollback(r) \/ Age(r)
      PROVE  TypeOK'
  BY <1>1, BoundsAreNumbers
     DEF TriggerStep, TriggerCheck, TriggerDispatch, TriggerCommit, TriggerRollback,
         Age, TypeOK, rowVars, subVars, reqVars, taskVars, envVars
<1>2. ASSUME NEW t \in Orchs, OrchStep(t) PROVE TypeOK'
  <2>1. CASE PrepareRead(t)
    BY <2>1 DEF PrepareRead, TypeOK, rowVars, subVars, reqVars, envVars
  <2>2. CASE PrepareWrite(t)
    BY <2>2, TransitionType DEF PrepareWrite, TypeOK, subVars, reqVars, envVars
  <2>3. CASE Dispatch(t)
    BY <2>3 DEF Dispatch, TypeOK, rowVars, subVars, reqVars
  <2>4. CASE FailRead(t)
    BY <2>4, RetryType, RetryBudget DEF FailRead, TypeOK, rowVars, subVars, reqVars, envVars
  <2>5. CASE FailWrite(t)
    <3>1. RetryOrGiveUp(t, OrchMaxRetries)
      BY <2>5 DEF FailWrite
    <3>2. /\ status' \in [Runs -> RunStatuses]
          /\ version' \in [Runs -> Nat]
          /\ started_at' \in [Runs -> Column]
          /\ completed_at' \in [Runs -> Column]
          /\ error_message' \in [Runs -> {"null", "exception", "timeout"}]
      BY <2>5, TransitionType DEF FailWrite, TypeOK
    <3> QED
      BY <2>5, <3>1, <3>2, RetryType, RetryBudget DEF FailWrite, TypeOK, subVars, reqVars, envVars
  <2> QED
    BY <1>2, <2>1, <2>2, <2>3, <2>4, <2>5 DEF OrchStep
<1>3. ASSUME NEW t \in Orchs, OrchError(t) \/ KillRevoked(t) PROVE TypeOK'
  BY <1>3, RetryType, RetryBudget
     DEF OrchError, KillRevoked, TypeOK, rowVars, subVars, reqVars, envVars
<1>4. ASSUME NEW t \in Finalizers, FinStep(t) PROVE TypeOK'
  <2>1. CASE FinScore(t)
    BY <2>1 DEF FinScore, TypeOK, rowVars, subVars, reqVars, envVars
  <2>2. CASE FinRefetch(t)
    BY <2>2 DEF FinRefetch, TypeOK, rowVars, subVars, reqVars, envVars
  <2>3. CASE FinWrite(t)
    <3>1. CASE VersionMatches(t) /\ transition_status(t, "COMPLETED")
      <4>1. /\ status' \in [Runs -> RunStatuses]
            /\ version' \in [Runs -> Nat]
            /\ started_at' \in [Runs -> Column]
            /\ completed_at' \in [Runs -> Column]
        BY <3>1, TransitionType
      <4>2. /\ overall_score' = [overall_score EXCEPT ![RunOf[t]] = "set"]
            /\ pc' = [pc EXCEPT ![t] = "audit"]
            /\ UNCHANGED <<retries, error_message, subVars, reqVars, seen, envVars, faults>>
        BY <2>3, <3>1 DEF FinWrite
      <4> QED
        BY <4>1, <4>2 DEF TypeOK, subVars, reqVars, envVars
    <3>2. CASE ~VersionMatches(t) /\ RetryOrGiveUp(t, FinMaxRetries)
      BY <2>3, <3>2, RetryType, RetryBudget DEF FinWrite, TypeOK, subVars, reqVars, envVars
    <3> QED
      BY <2>3, <3>1, <3>2 DEF FinWrite
  <2>4. CASE FinAudit(t)
    BY <2>4 DEF FinAudit, TypeOK, rowVars, subVars, reqVars
  <2>5. CASE FinSubmission(t)
    BY <2>5 DEF FinSubmission, TypeOK, rowVars, reqVars, envVars
  <2> QED
    BY <1>4, <2>1, <2>2, <2>3, <2>4, <2>5 DEF FinStep
<1>5. ASSUME NEW t \in Finalizers, FinError(t) PROVE TypeOK'
  BY <1>5, RetryType, RetryBudget DEF FinError, TypeOK, rowVars, subVars, reqVars, envVars
<1>6. ASSUME NEW t \in Workers, WorkerLost(t) PROVE TypeOK'
  BY <1>6 DEF WorkerLost, TypeOK, rowVars, subVars, reqVars, envVars
<1>7. ASSUME NEW t \in Cancels, CancelStep(t) \/ CancelRollback(t) PROVE TypeOK'
  BY <1>7 DEF CancelStep, CancelRead, CancelWrite, CancelRollback, TypeOK,
              rowVars, subVars, reqVars, envVars
<1>8. CASE Maintenance
  BY <1>8 DEF Maintenance, TypeOK, subVars, reqVars, taskVars, envVars
<1>9. ASSUME NEW s \in Submissions,
             (\E new \in PatchStatuses : UpdateSubmission(s, new)) \/ DeleteSubmission(s)
      PROVE  TypeOK'
  BY <1>9, BoundsAreNumbers
     DEF UpdateSubmission, DeleteSubmission, TypeOK, rowVars, reqVars, taskVars, envVars
<1>10. CASE UNCHANGED vars
  BY <1>10 DEF vars, rowVars, subVars, reqVars, taskVars, envVars, TypeOK
<1> QED
  BY <1>1, <1>2, <1>3, <1>4, <1>5, <1>6, <1>7, <1>8, <1>9, <1>10 DEF Next

\* Type correctness: no request, task or maintenance step takes a column or a
\* control state out of its range.
THEOREM TypeCorrect == Spec => []TypeOK
<1>1. Init => TypeOK
  BY DEF Init, TypeOK
<1> QED
  BY <1>1, TypeStep, PTL DEF Spec

---------------------------------------------------------------------------
(***************************************************************************)
(* The optimistic lock.  OneVerdict and VerdictIsShown are not inductive:  *)
(* they need to know that a task whose UPDATE is still to come cannot      *)
(* match once the run has a verdict, which is LockDiscipline, and that in  *)
(* turn needs VerdictIsShown (a reader that finds the run active has found *)
(* it without a verdict).  Together they are inductive.                    *)
(***************************************************************************)

Safe == OneVerdict /\ VerdictIsShown /\ LockDiscipline
IInv == TypeOK /\ Safe

\* A step that leaves the row alone and lets no new task reach its write.
LEMMA IdleStep ==
    ASSUME IInv, UNCHANGED rowVars, UNCHANGED seen,
           \A u \in Workers : Writing(u)' => Writing(u)
    PROVE  Safe'
BY DEF IInv, Safe, OneVerdict, VerdictIsShown, LockDiscipline, Scored, Errored, rowVars

\* A task reads the version of a run it finds active and goes on to its write
\* (_prepare_run, _fail_run and step 4 of _finalize).
LEMMA ReadStep ==
    ASSUME IInv, UNCHANGED rowVars, NEW t \in Workers, ~IsTerminal(RunOf[t]),
           seen' = [seen EXCEPT ![t] = version[RunOf[t]]],
           \A u \in Workers : u # t => (Writing(u)' => Writing(u))
    PROVE  Safe'
<1>1. ~Scored(RunOf[t]) /\ ~Errored(RunOf[t])
  BY OwnersExist DEF IInv, Safe, VerdictIsShown, IsTerminal
<1>2. OneVerdict' /\ VerdictIsShown'
  BY DEF IInv, Safe, OneVerdict, VerdictIsShown, Scored, Errored, rowVars
<1>3. LockDiscipline'
  <2> SUFFICES ASSUME NEW u \in Workers, Writing(u)'
               PROVE  /\ seen'[u] <= version'[RunOf[u]]
                      /\ (Scored(RunOf[u]) \/ Errored(RunOf[u]))' => seen'[u] < version'[RunOf[u]]
    BY DEF LockDiscipline
  <2> USE OwnersExist DEF Scored, Errored, rowVars
  <2>1. CASE u = t
    BY <1>1, <2>1 DEF IInv, TypeOK
  <2>2. CASE u # t
    BY <2>2 DEF IInv, TypeOK, Safe, LockDiscipline
  <2> QED
    BY <2>1, <2>2
<1> QED
  BY <1>2, <1>3 DEF Safe

\* A task that matches writes on a run that has no verdict yet.
LEMMA MatchMeansOpen ==
    ASSUME IInv, NEW t \in Workers, Writing(t), VersionMatches(t)
    PROVE  ~Scored(RunOf[t]) /\ ~Errored(RunOf[t])
BY OwnersExist DEF IInv, TypeOK, Safe, LockDiscipline, VersionMatches

\* After a matching write every other task in flight for the run is behind.
LEMMA WriteKeepsDiscipline ==
    ASSUME IInv, NEW t \in Workers, NEW new \in RunStatuses, VersionMatches(t),
           transition_status(t, new), UNCHANGED seen,
           \A u \in Workers : Writing(u)' => Writing(u),
           \A r \in Runs : r # RunOf[t] => /\ overall_score'[r] = overall_score[r]
                                           /\ error_message'[r] = error_message[r]
    PROVE  LockDiscipline'
<1> SUFFICES ASSUME NEW u \in Workers, Writing(u)'
             PROVE  /\ seen'[u] <= version'[RunOf[u]]
                    /\ (Scored(RunOf[u]) \/ Errored(RunOf[u]))' => seen'[u] < version'[RunOf[u]]
  BY DEF LockDiscipline
<1> USE OwnersExist
<1>1. /\ Writing(u)
      /\ seen[u] \in Nat /\ seen[t] \in Nat /\ version[RunOf[u]] \in Nat
      /\ seen[u] <= version[RunOf[u]]
  BY DEF IInv, TypeOK, Safe, LockDiscipline
<1>2. version' = [version EXCEPT ![RunOf[t]] = seen[t] + 1]
  BY DEF transition_status
<1>3. CASE RunOf[u] = RunOf[t]
  BY <1>1, <1>2, <1>3 DEF IInv, TypeOK, VersionMatches
<1>4. CASE RunOf[u] # RunOf[t]
  BY <1>1, <1>2, <1>4 DEF IInv, TypeOK, Safe, LockDiscipline, Scored, Errored
<1> QED
  BY <1>3, <1>4

\* Every step of every actor keeps the optimistic lock's invariant.
LEMMA SafeStep == IInv /\ [Next]_vars => Safe'
<1> SUFFICES ASSUME IInv, [Next]_vars PROVE Safe'
  OBVIOUS
<1> USE OwnersExist, TasksDisjoint
<1> TypeOK
  BY DEF IInv
<1>1. ASSUME NEW r \in Runs, TriggerStep(r) \/ TriggerRollback(r) \/ Age(r)
      PROVE  Safe'
  BY <1>1, IdleStep
     DEF TriggerStep, TriggerCheck, TriggerDispatch, TriggerCommit, TriggerRollback,
         Age, taskVars, Writing
<1>2. ASSUME NEW t \in Orchs, OrchStep(t) PROVE Safe'
  <2>1. CASE PrepareRead(t)
    <3>1. CASE Visible(RunOf[t]) /\ ~IsTerminal(RunOf[t])
      BY <2>1, <3>1, ReadStep DEF PrepareRead, Writing, TypeOK
    <3>2. CASE ~(Visible(RunOf[t]) /\ ~IsTerminal(RunOf[t]))
      BY <2>1, <3>2, IdleStep DEF PrepareRead, Writing, TypeOK
    <3> QED
      BY <3>1, <3>2
  <2>2. CASE PrepareWrite(t)
    <3>1. CASE VersionMatches(t)
      <4>1. /\ transition_status(t, "RUNNING") /\ pc[t] = "prepare"
            /\ pc' = [pc EXCEPT ![t] = "dispatch"]
            /\ UNCHANGED <<overall_score, error_message, seen>>
        BY <2>2, <3>1 DEF PrepareWrite
      <4>2. ~Scored(RunOf[t]) /\ ~Errored(RunOf[t])
        BY <3>1, <4>1, MatchMeansOpen DEF Writing
      <4>3. LockDiscipline'
        BY <3>1, <4>1, WriteKeepsDiscipline DEF Writing, TypeOK
      <4>4. OneVerdict' /\ VerdictIsShown'
        BY <4>1, <4>2 DEF transition_status, IInv, Safe, OneVerdict, VerdictIsShown,
                          Scored, Errored, TypeOK
      <4> QED
        BY <4>3, <4>4 DEF Safe
    <3>2. CASE ~VersionMatches(t)
      BY <2>2, <3>2, IdleStep DEF PrepareWrite, Writing, TypeOK, rowVars
    <3> QED
      BY <3>1, <3>2
  <2>3. CASE Dispatch(t)
    BY <2>3, IdleStep DEF Dispatch, Writing, TypeOK
  <2>4. CASE FailRead(t)
    <3>1. CASE Visible(RunOf[t]) /\ ~IsTerminal(RunOf[t])
      BY <2>4, <3>1, ReadStep DEF FailRead, Writing, TypeOK
    <3>2. CASE ~(Visible(RunOf[t]) /\ ~IsTerminal(RunOf[t]))
      BY <2>4, <3>2, IdleStep, RetryType DEF FailRead, Writing, TypeOK
    <3> QED
      BY <3>1, <3>2
  <2>5. CASE FailWrite(t)
    <3>1. RetryOrGiveUp(t, OrchMaxRetries) /\ UNCHANGED seen
      BY <2>5 DEF FailWrite
    <3>2. \A u \in Workers : Writing(u)' => Writing(u)
      BY <3>1, RetryType DEF Writing
    <3>3. CASE VersionMatches(t)
      <4>1. /\ transition_status(t, "FAILED") /\ pc[t] = "failwrite"
            /\ error_message' = [error_message EXCEPT ![RunOf[t]] = "exception"]
            /\ UNCHANGED overall_score
        BY <2>5, <3>3 DEF FailWrite
      <4>2. ~Scored(RunOf[t]) /\ ~Errored(RunOf[t])
        BY <3>3, <4>1, MatchMeansOpen DEF Writing
      <4>3. LockDiscipline'
        BY <3>1, <3>2, <3>3, <4>1, WriteKeepsDiscipline DEF TypeOK
      <4>4. OneVerdict' /\ VerdictIsShown'
        BY <4>1, <4>2 DEF transition_status, IInv, Safe, OneVerdict, VerdictIsShown,
                          Scored, Errored, TypeOK
      <4> QED
        BY <4>3, <4>4 DEF Safe
    <3>4. CASE ~VersionMatches(t)
      <4>1. UNCHANGED rowVars
        BY <2>5, <3>4 DEF FailWrite, rowVars
      <4> QED
        BY <3>1, <3>2, <4>1, IdleStep
    <3> QED
      BY <3>3, <3>4
  <2> QED
    BY <1>2, <2>1, <2>2, <2>3, <2>4, <2>5 DEF OrchStep
<1>3. ASSUME NEW t \in Orchs, OrchError(t) \/ KillRevoked(t) PROVE Safe'
  <2>1. UNCHANGED rowVars /\ UNCHANGED seen
    BY <1>3 DEF OrchError, KillRevoked
  <2>2. \A u \in Workers : Writing(u)' => Writing(u)
    BY <1>3, RetryType DEF OrchError, KillRevoked, Writing, TypeOK
  <2> QED
    BY <2>1, <2>2, IdleStep
<1>4. ASSUME NEW t \in Finalizers, FinStep(t) PROVE Safe'
  <2>1. CASE FinScore(t)
    BY <2>1, IdleStep DEF FinScore, Writing, TypeOK
  <2>2. CASE FinRefetch(t)
    <3>1. CASE ~IsTerminal(RunOf[t])
      BY <2>2, <3>1, ReadStep DEF FinRefetch, Writing, TypeOK
    <3>2. CASE IsTerminal(RunOf[t])
      BY <2>2, <3>2, IdleStep DEF FinRefetch, Writing, TypeOK
    <3> QED
      BY <3>1, <3>2
  <2>3. CASE FinWrite(t)
    <3>1. CASE VersionMatches(t)
      <4>1. /\ transition_status(t, "COMPLETED") /\ pc[t] = "complete"
            /\ pc' = [pc EXCEPT ![t] = "audit"]
            /\ overall_score' = [overall_score EXCEPT ![RunOf[t]] = "set"]
            /\ UNCHANGED <<error_message, seen>>
        BY <2>3, <3>1 DEF FinWrite
      <4>2. ~Scored(RunOf[t]) /\ ~Errored(RunOf[t])
        BY <3>1, <4>1, MatchMeansOpen DEF Writing
      <4>3. LockDiscipline'
        BY <3>1, <4>1, WriteKeepsDiscipline DEF Writing, TypeOK
      <4>4. OneVerdict' /\ VerdictIsShown'
        BY <4>1, <4>2 DEF transition_status, IInv, Safe, OneVerdict, VerdictIsShown,
                          Scored, Errored, TypeOK
      <4> QED
        BY <4>3, <4>4 DEF Safe
    <3>2. CASE ~VersionMatches(t)
      <4>1. UNCHANGED rowVars /\ UNCHANGED seen /\ RetryOrGiveUp(t, FinMaxRetries)
        BY <2>3, <3>2 DEF FinWrite, rowVars
      <4>2. \A u \in Workers : Writing(u)' => Writing(u)
        BY <4>1, RetryType DEF Writing
      <4> QED
        BY <4>1, <4>2, IdleStep
    <3> QED
      BY <3>1, <3>2
  <2>4. CASE FinAudit(t)
    BY <2>4, IdleStep DEF FinAudit, Writing, TypeOK
  <2>5. CASE FinSubmission(t)
    BY <2>5, IdleStep DEF FinSubmission, Writing, TypeOK
  <2> QED
    BY <1>4, <2>1, <2>2, <2>3, <2>4, <2>5 DEF FinStep
<1>5. ASSUME NEW t \in Finalizers, FinError(t) PROVE Safe'
  <2>1. UNCHANGED rowVars /\ UNCHANGED seen
    BY <1>5 DEF FinError
  <2>2. \A u \in Workers : Writing(u)' => Writing(u)
    BY <1>5, RetryType DEF FinError, Writing, TypeOK
  <2> QED
    BY <2>1, <2>2, IdleStep
<1>6. ASSUME NEW t \in Workers, WorkerLost(t) PROVE Safe'
  BY <1>6, IdleStep DEF WorkerLost, Writing, TypeOK
<1>7. ASSUME NEW t \in Cancels, CancelStep(t) \/ CancelRollback(t) PROVE Safe'
  <2>1. CASE CancelRead(t) \/ CancelRollback(t)
    BY <2>1, IdleStep DEF CancelRead, CancelRollback, Writing, TypeOK
  <2>2. CASE CancelWrite(t)
    BY <2>2 DEF CancelWrite, Writing, IInv, Safe, OneVerdict, VerdictIsShown,
                LockDiscipline, Scored, Errored, TypeOK
  <2> QED
    BY <1>7, <2>1, <2>2 DEF CancelStep
<1>8. CASE Maintenance
  <2>1. \A r \in StaleRuns : r \in Runs /\ ~Scored(r) /\ ~Errored(r)
    BY DEF StaleRuns, IInv, Safe, VerdictIsShown, TypeOK
  <2>2. UNCHANGED <<version, overall_score, pc, seen>>
    BY <1>8 DEF Maintenance, taskVars
  <2>3. OneVerdict' /\ VerdictIsShown'
    BY <1>8, <2>1, <2>2 DEF Maintenance, IInv, Safe, OneVerdict, VerdictIsShown,
                            Scored, Errored, TypeOK
  <2>4. LockDiscipline'
    BY <1>8, <2>1, <2>2 DEF Maintenance, IInv, Safe, LockDiscipline, Writing,
                            Scored, Errored, TypeOK
  <2> QED
    BY <2>3, <2>4 DEF Safe
<1>9. ASSUME NEW s \in Submissions,
             (\E new \in PatchStatuses : UpdateSubmission(s, new)) \/ DeleteSubmission(s)
      PROVE  Safe'
  BY <1>9, IdleStep DEF UpdateSubmission, DeleteSubmission, taskVars, Writing
<1>10. CASE UNCHANGED vars
  BY <1>10, IdleStep DEF vars, taskVars, Writing
<1> QED
  BY <1>1, <1>2, <1>3, <1>4, <1>5, <1>6, <1>7, <1>8, <1>9, <1>10 DEF Next

\* The inductive invariant holds in every reachable state.
THEOREM LockInvariant == Spec => []IInv
<1>1. Init => IInv
  BY OwnersExist DEF Init, IInv, Safe, TypeOK, OneVerdict, VerdictIsShown, LockDiscipline, Scored,
         Errored, Writing
<1>2. IInv /\ [Next]_vars => IInv'
  BY TypeStep, SafeStep DEF IInv
<1> QED
  BY <1>1, <1>2, PTL DEF Spec

\* However often tasks are delivered, retried, lost or overtaken, no run is
\* both scored and failed.
THEOREM VerdictIsUnique == Spec => []OneVerdict
BY LockInvariant, PTL DEF IInv, Safe

\* A recorded verdict is never replaced by PENDING, RUNNING or the other
\* verdict: only a cancellation, which skips the lock, covers it.
THEOREM VerdictStaysShown == Spec => []VerdictIsShown
BY LockInvariant, PTL DEF IInv, Safe

\* No task in flight can match a run that has a verdict.
THEOREM LockIsDisciplined == Spec => []LockDiscipline
BY LockInvariant, PTL DEF IInv, Safe

---------------------------------------------------------------------------
(***************************************************************************)
(* A RUNNING run is attended until its chord is dispatched.                *)
(***************************************************************************)

\* A delivery that will dispatch the run, start over or fail it: one that writes
\* next still matches the row, and one in the handler has no fault left to meet.
Keeps(t) ==
    \/ pc[t] \in {"idle", "retry", "dispatch"}
    \/ pc[t] = "prepare" /\ seen[t] = version[RunOf[t]]
    \/ pc[t] = "fail" /\ faults = 1
    \/ pc[t] = "failwrite" /\ faults = 1 /\ seen[t] = version[RunOf[t]]

\* The runs somebody has to attend to.
Unattended(r) == status[r] = "RUNNING" /\ r \notin dispatched /\ r \notin revoked

\* The inductive form of RunningIsAttended; only rows that are committed are
\* ever RUNNING, so that the handler finds them.
AttendInv ==
    /\ \A r \in Runs : status[r] = "RUNNING" => Visible(r)
    /\ \A t \in Orchs : pc[t] = "prepare" => Visible(RunOf[t])
    /\ SignatureAccepted /\ faults <= 1 =>
           \A r \in Runs : Unattended(r) => \E t \in Orchs : RunOf[t] = r /\ Keeps(t)

\* A step that leaves rows and the orchestrator's deliveries alone, and at most
\* spends a fault or takes runs from those to attend to, keeps the invariant.
LEMMA AttendIdle ==
    ASSUME TypeOK, AttendInv,
           \A r \in Runs : Visible(r) => Visible(r)',
           \A r \in Runs : status'[r] = "RUNNING" => status[r] = "RUNNING",
           \A r \in Runs : Unattended(r)' => Unattended(r) /\ version'[r] = version[r],
           \A t \in Orchs : pc'[t] = pc[t] /\ seen'[t] = seen[t],
           faults' \in {faults, faults + 1}
    PROVE  AttendInv'
<1> USE OwnersExist
<1>1. \A r \in Runs : status'[r] = "RUNNING" => Visible(r)'
  BY DEF AttendInv
<1>2. \A t \in Orchs : pc'[t] = "prepare" => Visible(RunOf[t])'
  BY DEF AttendInv
<1>3. ASSUME SignatureAccepted, faults' <= 1, NEW r \in Runs, Unattended(r)'
      PROVE  \E t \in Orchs : RunOf[t] = r /\ Keeps(t)'
  <2>1. faults <= 1 /\ faults \in Nat
    BY <1>3 DEF TypeOK
  <2>2. PICK t \in Orchs : RunOf[t] = r /\ Keeps(t)
    BY <1>3, <2>1 DEF AttendInv
  <2>3. faults = 1 => faults' = 1
    BY <1>3, <2>1
  <2>4. version'[r] = version[r]
    BY <1>3
  <2> QED
    BY <2>2, <2>3, <2>4 DEF Keeps
<1> QED
  BY <1>1, <1>2, <1>3 DEF AttendInv, SignatureAccepted

\* A step of one delivery that writes no row but the one it dispatches, unless the
\* delivery was what the run relied on.
LEMMA AttendOther ==
    ASSUME TypeOK, AttendInv, NEW t \in Orchs,
           \A r \in Runs : Visible(r) => Visible(r)',
           UNCHANGED <<status, version>>,
           \A r \in Runs : Unattended(r)' => Unattended(r),
           \A u \in Orchs : u # t => pc'[u] = pc[u] /\ seen'[u] = seen[u],
           pc'[t] = "prepare" => Visible(RunOf[t])',
           faults' \in {faults, faults + 1},
           faults' <= 1 /\ Unattended(RunOf[t])' /\ Keeps(t) /\ SignatureAccepted => Keeps(t)'
    PROVE  AttendInv'
<1> USE OwnersExist
<1>1. \A r \in Runs : status'[r] = "RUNNING" => Visible(r)'
  BY DEF AttendInv
<1>2. \A u \in Orchs : pc'[u] = "prepare" => Visible(RunOf[u])'
  <2> TAKE u \in Orchs
  <2>1. RunOf[u] \in Runs
    BY DEF Tasks, Workers
  <2> QED
    BY <2>1 DEF AttendInv
<1>3. ASSUME SignatureAccepted, faults' <= 1, NEW r \in Runs, Unattended(r)'
      PROVE  \E u \in Orchs : RunOf[u] = r /\ Keeps(u)'
  <2>1. faults <= 1 /\ faults \in Nat
    BY <1>3 DEF TypeOK
  <2>2. PICK u \in Orchs : RunOf[u] = r /\ Keeps(u)
    BY <1>3, <2>1 DEF AttendInv
  <2>3. faults = 1 => faults' = 1
    BY <1>3, <2>1
  <2>4. CASE u = t
    BY <1>3, <2>2, <2>4
  <2>5. CASE u # t
    BY <2>2, <2>3, <2>5 DEF Keeps
  <2> QED
    BY <2>2, <2>4, <2>5
<1> QED
  BY <1>1, <1>2, <1>3 DEF AttendInv, SignatureAccepted

\* Every step keeps a RUNNING run attended.
LEMMA AttendStep == IInv /\ AttendInv /\ [Next]_vars => AttendInv'
<1> SUFFICES ASSUME IInv, AttendInv, [Next]_vars PROVE AttendInv'
  OBVIOUS
<1> USE OwnersExist, TasksDisjoint
<1>0. TypeOK
  BY DEF IInv
<1>1. ASSUME NEW r \in Runs, TriggerStep(r) \/ TriggerRollback(r) \/ Age(r)
      PROVE  AttendInv'
  <2>1. \A u \in Runs : Visible(u) => Visible(u)'
    BY <1>0, <1>1
       DEF TriggerStep, TriggerCheck, TriggerDispatch, TriggerCommit, TriggerRollback, Age,
           Visible, reqVars, TypeOK
  <2>2. /\ UNCHANGED <<status, version, pc, seen, dispatched, revoked>>
        /\ faults' \in {faults, faults + 1}
    BY <1>1
       DEF TriggerStep, TriggerCheck, TriggerDispatch, TriggerCommit, TriggerRollback, Age,
           rowVars, taskVars, envVars
  <2> QED
    BY <1>0, <2>1, <2>2, AttendIdle DEF Unattended
<1>2. ASSUME NEW t \in Orchs, OrchStep(t) PROVE AttendInv'
  <2>0. RunOf[t] \in Runs
    OBVIOUS
  <2>1. CASE PrepareRead(t)
    BY <1>0, <2>0, <2>1, AttendOther
       DEF PrepareRead, OrchDeliverable, AttendInv, Visible, IsTerminal, Unattended, Keeps,
           rowVars, reqVars, envVars, TypeOK
  <2>2. CASE PrepareWrite(t)
    <3>1. CASE VersionMatches(t)
      <4>1. /\ pc[t] = "prepare" /\ transition_status(t, "RUNNING")
            /\ pc' = [pc EXCEPT ![t] = "dispatch"]
            /\ UNCHANGED <<seen, req, dispatched, revoked, faults>>
        BY <2>2, <3>1 DEF PrepareWrite, reqVars, envVars
      <4>2. \A r \in Runs : status'[r] = "RUNNING" => Visible(r)'
        BY <1>0, <2>0, <4>1 DEF AttendInv, transition_status, Visible, TypeOK
      <4>3. \A u \in Orchs : pc'[u] = "prepare" => Visible(RunOf[u])'
        BY <1>0, <4>1 DEF AttendInv, Visible, TypeOK
      <4>4. ASSUME SignatureAccepted, faults' <= 1, NEW r \in Runs, Unattended(r)'
            PROVE  \E u \in Orchs : RunOf[u] = r /\ Keeps(u)'
        <5>1. CASE r = RunOf[t]
          BY <1>0, <4>1, <5>1 DEF Keeps, TypeOK
        <5>2. CASE r # RunOf[t]
          <6>1. Unattended(r) /\ version'[r] = version[r] /\ faults <= 1
            BY <1>0, <4>1, <4>4, <5>2 DEF transition_status, Unattended, TypeOK
          <6>2. PICK u \in Orchs : RunOf[u] = r /\ Keeps(u)
            BY <4>4, <6>1 DEF AttendInv
          <6>3. u # t /\ pc'[u] = pc[u]
            BY <1>0, <4>1, <5>2, <6>2 DEF TypeOK
          <6> QED
            BY <4>1, <6>1, <6>2, <6>3 DEF Keeps
        <5> QED
          BY <5>1, <5>2
      <4> QED
        BY <4>2, <4>3, <4>4 DEF AttendInv, SignatureAccepted
    <3>2. CASE ~VersionMatches(t)
      BY <1>0, <2>0, <2>2, <3>2, AttendOther
         DEF PrepareWrite, VersionMatches, Visible, Unattended, Keeps, reqVars, envVars, TypeOK
    <3> QED
      BY <3>1, <3>2
  <2>3. CASE Dispatch(t)
    <3>1. SignatureAccepted => RunOf[t] \in dispatched'
      BY <2>3 DEF Dispatch
    <3>2. /\ pc[t] = "dispatch" /\ pc'[t] \in {"done", "fail"}
          /\ \A u \in Orchs : u # t => pc'[u] = pc[u]
          /\ UNCHANGED <<status, version, req, seen, revoked, faults>>
          /\ dispatched \subseteq dispatched'
      BY <1>0, <2>3 DEF Dispatch, rowVars, reqVars, TypeOK
    <3> QED
      BY <1>0, <2>0, <3>1, <3>2, AttendOther DEF Visible, Unattended
  <2>4. CASE FailRead(t)
    <3>1. CASE Visible(RunOf[t]) /\ ~IsTerminal(RunOf[t])
      BY <1>0, <2>0, <2>4, <3>1, AttendOther
         DEF FailRead, Visible, Unattended, Keeps, rowVars, reqVars, envVars, TypeOK
    <3>2. CASE ~Visible(RunOf[t]) \/ IsTerminal(RunOf[t])
      <4>1. ~Unattended(RunOf[t])
        BY <2>0, <3>2 DEF AttendInv, Unattended, IsTerminal
      <4>2. /\ UNCHANGED <<status, version, req, seen, dispatched, revoked, faults>>
            /\ RetryOrGiveUp(t, OrchMaxRetries)
        BY <2>4, <3>2 DEF FailRead, rowVars, reqVars, envVars
      <4>3. /\ pc'[t] \in {"retry", "done"}
            /\ \A u \in Orchs : u # t => pc'[u] = pc[u]
        BY <1>0, <4>2, RetryType
      <4> QED
        BY <1>0, <2>0, <4>1, <4>2, <4>3, AttendOther DEF Visible, Unattended
    <3> QED
      BY <3>1, <3>2
  <2>5. CASE FailWrite(t)
    <3>1. RetryOrGiveUp(t, OrchMaxRetries)
      BY <2>5 DEF FailWrite
    <3>2. /\ pc[t] = "failwrite"
          /\ pc'[t] \in {"retry", "done"}
          /\ \A u \in Orchs : u # t => pc'[u] = pc[u]
          /\ UNCHANGED <<req, seen, dispatched, revoked, faults>>
      BY <1>0, <2>5, <3>1, RetryType DEF FailWrite, reqVars, envVars
    <3>3. CASE VersionMatches(t)
      <4>1. transition_status(t, "FAILED")
        BY <2>5, <3>3 DEF FailWrite
      <4>2. \A r \in Runs : r # RunOf[t] => status'[r] = status[r] /\ version'[r] = version[r]
        BY <1>0, <4>1 DEF transition_status, TypeOK
      <4>3. status'[RunOf[t]] = "FAILED"
        BY <1>0, <2>0, <4>1 DEF transition_status, TypeOK
      <4>4. \A r \in Runs : status'[r] = "RUNNING" => Visible(r)'
        BY <3>2, <4>2, <4>3 DEF AttendInv, Visible
      <4>5. \A u \in Orchs : pc'[u] = "prepare" => Visible(RunOf[u])'
        BY <3>2 DEF AttendInv, Visible
      <4>6. ASSUME SignatureAccepted, faults' <= 1, NEW r \in Runs, Unattended(r)'
            PROVE  \E u \in Orchs : RunOf[u] = r /\ Keeps(u)'
        <5>1. r # RunOf[t] /\ Unattended(r) /\ faults <= 1
          BY <3>2, <4>2, <4>3, <4>6 DEF Unattended
        <5>2. PICK u \in Orchs : RunOf[u] = r /\ Keeps(u)
          BY <4>6, <5>1 DEF AttendInv
        <5> QED
          BY <3>2, <4>2, <5>1, <5>2 DEF Keeps
      <4> QED
        BY <4>4, <4>5, <4>6 DEF AttendInv, SignatureAccepted
    <3>4. CASE ~VersionMatches(t)
      <4>1. UNCHANGED <<status, version>>
        BY <2>5, <3>4 DEF FailWrite
      <4>2. ~Keeps(t)
        BY <3>2, <3>4 DEF Keeps, VersionMatches
      <4> QED
        BY <1>0, <3>2, <4>1, <4>2, AttendOther DEF Visible, Unattended
    <3> QED
      BY <3>3, <3>4
  <2> QED
    BY <1>2, <2>1, <2>2, <2>3, <2>4, <2>5 DEF OrchStep
<1>3. ASSUME NEW t \in Orchs, OrchError(t) PROVE AttendInv'
  <2>0. /\ UNCHANGED <<status, version, req, seen, dispatched, revoked>>
        /\ faults' = faults + 1 /\ faults \in Nat
    BY <1>0, <1>3 DEF OrchError, rowVars, reqVars, envVars, TypeOK
  <2>1. CASE pc' = [pc EXCEPT ![t] = "fail"]
    BY <1>0, <2>0, <2>1, AttendOther DEF Visible, Unattended, Keeps, TypeOK
  <2>2. CASE pc[t] \in {"fail", "failwrite"} /\ RetryOrGiveUp(t, OrchMaxRetries)
    <3>1. /\ pc'[t] \in {"retry", "done"}
          /\ \A u \in Orchs : u # t => pc'[u] = pc[u]
      BY <1>0, <2>2, RetryType
    <3>2. faults' <= 1 => ~Keeps(t)
      BY <2>0, <2>2 DEF Keeps
    <3> QED
      BY <1>0, <2>0, <3>1, <3>2, AttendOther DEF Visible, Unattended
  <2> QED
    BY <1>3, <2>1, <2>2 DEF OrchError
<1>4. ASSUME NEW t \in Orchs, KillRevoked(t) PROVE AttendInv'
  BY <1>0, <1>4, AttendOther
     DEF KillRevoked, Visible, Unattended, rowVars, reqVars, envVars, TypeOK
<1>5. ASSUME NEW t \in Finalizers, FinStep(t) \/ FinError(t) PROVE AttendInv'
  <2>1. /\ \A u \in Orchs : pc'[u] = pc[u]
        /\ UNCHANGED <<req, dispatched, revoked>>
        /\ faults' \in {faults, faults + 1}
        /\ seen' = seen \/ \E v : seen' = [seen EXCEPT ![t] = v]
    BY <1>0, <1>5, RetryType
       DEF FinStep, FinScore, FinRefetch, FinWrite, FinAudit, FinSubmission, FinError,
           reqVars, envVars, TypeOK
  <2>2. \A u \in Orchs : seen'[u] = seen[u]
    BY <1>0, <2>1 DEF TypeOK
  <2>3. \A r \in Runs : status'[r] = "RUNNING" => status[r] = "RUNNING" /\ version'[r] = version[r]
    BY <1>0, <1>5
       DEF FinStep, FinScore, FinRefetch, FinWrite, FinAudit, FinSubmission, FinError,
           transition_status, rowVars, TypeOK
  <2> QED
    BY <1>0, <2>1, <2>2, <2>3, AttendIdle DEF Visible, Unattended
<1>6. ASSUME NEW t \in Workers, WorkerLost(t) PROVE AttendInv'
  <2>1. CASE t \in Orchs
    BY <1>0, <1>6, <2>1, AttendOther
       DEF WorkerLost, Visible, Unattended, Keeps, rowVars, reqVars, envVars, TypeOK
  <2>2. CASE t \in Finalizers
    BY <1>0, <1>6, <2>2, AttendIdle
       DEF WorkerLost, Visible, Unattended, rowVars, reqVars, envVars, TypeOK
  <2> QED
    BY <2>1, <2>2
<1>7. ASSUME NEW t \in Cancels, CancelStep(t) \/ CancelRollback(t) PROVE AttendInv'
  BY <1>0, <1>7, AttendIdle
     DEF CancelStep, CancelRead, CancelWrite, CancelRollback, Visible, Unattended,
         rowVars, reqVars, envVars, TypeOK
<1>8. CASE Maintenance
  BY <1>0, <1>8, AttendIdle
     DEF Maintenance, Visible, Unattended, reqVars, taskVars, envVars, TypeOK
<1>9. ASSUME NEW s \in Submissions,
             (\E new \in PatchStatuses : UpdateSubmission(s, new)) \/ DeleteSubmission(s)
      PROVE  AttendInv'
  BY <1>0, <1>9, AttendIdle
     DEF UpdateSubmission, DeleteSubmission, Visible, Unattended, rowVars, reqVars, taskVars,
         envVars
<1>10. CASE UNCHANGED vars
  BY <1>0, <1>10, AttendIdle
     DEF vars, Visible, Unattended, rowVars, reqVars, taskVars, envVars
<1> QED
  BY <1>1, <1>2, <1>3, <1>4, <1>5, <1>6, <1>7, <1>8, <1>9, <1>10 DEF Next

\* With a chord that Celery accepts and at most one fault, no run that an
\* orchestrator has marked RUNNING and nobody cancels is forgotten before its chord
\* is dispatched, for any number of deliveries.
THEOREM RunningStaysAttended == Spec => []RunningIsAttended
<1>1. Init => AttendInv
  BY DEF Init, AttendInv, Unattended
<1>2. IInv /\ AttendInv /\ [Next]_vars => AttendInv'
  BY AttendStep
<1>3. AttendInv => RunningIsAttended
  BY DEF AttendInv, RunningIsAttended, Unattended, Keeps
<1> QED
  BY <1>1, <1>2, <1>3, LockInvariant, PTL DEF Spec
===========================================================================
