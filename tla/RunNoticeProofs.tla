-------------------------- MODULE RunNoticeProofs --------------------------
(***************************************************************************)
(* What follows the verdict: the audit entry, the submission's status, and *)
(* the dispatch that must have come before.                                *)
(***************************************************************************)
EXTENDS RunLifecycleProofs

USE DEF RunStatuses, TerminalStatuses, OrchStates, FinStates, CancelStates, Column,
        SubmissionStatuses, Workers, Tasks

\* The orchestrator dispatches only after its write to RUNNING, and a finalizer
\* only exists for a dispatched run.
DispatchInv ==
    /\ \A t \in Orchs : pc[t] = "dispatch" => started_at[RunOf[t]] = "set"
    /\ \A r \in dispatched : started_at[r] = "set"
    /\ \A t \in Finalizers :
          pc[t] \in {"score", "complete", "audit", "submission"} => RunOf[t] \in dispatched
    /\ ScoredRunsWereDispatched

\* At most one finalizer stands between its write to COMPLETED and the audit
\* entry, and while it does the entry is not there yet.
NoticeInv ==
    /\ \A t \in Finalizers : pc[t] = "audit" => Scored(RunOf[t]) /\ notices[RunOf[t]] = 0
    /\ \A t, u \in Finalizers :
          pc[t] = "audit" /\ pc[u] = "audit" /\ RunOf[t] = RunOf[u] => t = u
    /\ OneNoticePerCompletion

\* A finalizer marks the submission only after its own write to COMPLETED.
EvaluatedInv ==
    /\ \A t \in Finalizers : pc[t] = "submission" => Scored(RunOf[t])
    /\ EvaluatedMeansScored

AfterInv == DispatchInv /\ NoticeInv /\ EvaluatedInv

\* A step that touches none of the columns involved and moves no task into one
\* of the states involved.
LEMMA QuietStep ==
    ASSUME AfterInv,
           UNCHANGED <<started_at, overall_score, dispatched, notices, subStatus>>,
           \A t \in Orchs : pc'[t] = "dispatch" => pc[t] = "dispatch",
           \A t \in Finalizers :
              pc'[t] \in {"score", "complete", "audit", "submission"} =>
                 \/ pc'[t] = pc[t]
                 \/ pc'[t] \in {"score", "complete"} /\ RunOf[t] \in dispatched
                 \/ pc'[t] = "submission" /\ pc[t] = "audit"
    PROVE  AfterInv'
<1>1. DispatchInv'
  BY DEF AfterInv, DispatchInv, ScoredRunsWereDispatched, Scored
<1>2. NoticeInv'
  BY DEF AfterInv, NoticeInv, OneNoticePerCompletion, Scored
<1>3. EvaluatedInv'
  BY DEF AfterInv, NoticeInv, EvaluatedInv, EvaluatedMeansScored, Scored
<1> QED
  BY <1>1, <1>2, <1>3 DEF AfterInv

\* Every step keeps the three invariants.
LEMMA AfterStep == IInv /\ AfterInv /\ [Next]_vars => AfterInv'
<1> SUFFICES ASSUME IInv, AfterInv, [Next]_vars PROVE AfterInv'
  OBVIOUS
<1> USE OwnersExist, TasksDisjoint
<1> TypeOK
  BY DEF IInv
<1>1. ASSUME NEW r \in Runs, TriggerStep(r) \/ TriggerRollback(r) \/ Age(r)
      PROVE  AfterInv'
  <2>1. CASE TriggerCommit(r)
    <3>1. UNCHANGED <<started_at, overall_score, dispatched, notices, pc>>
      BY <2>1 DEF TriggerCommit, rowVars, taskVars, envVars
    <3>2. DispatchInv' /\ NoticeInv'
      BY <3>1 DEF AfterInv, DispatchInv, ScoredRunsWereDispatched, NoticeInv,
                  OneNoticePerCompletion, Scored
    <3>3. \A s \in Submissions : subStatus'[s] = "EVALUATED" => subStatus[s] = "EVALUATED"
      BY <2>1 DEF TriggerCommit, TypeOK
    <3>4. EvaluatedInv'
      BY <3>1, <3>3 DEF AfterInv, EvaluatedInv, EvaluatedMeansScored, Scored
    <3> QED
      BY <3>2, <3>4 DEF AfterInv
  <2>2. CASE ~TriggerCommit(r)
    BY <1>1, <2>2, QuietStep
       DEF TriggerStep, TriggerCheck, TriggerDispatch, TriggerRollback, Age, rowVars,
           subVars, taskVars, envVars
  <2> QED
    BY <2>1, <2>2
<1>2. ASSUME NEW t \in Orchs, OrchStep(t) PROVE AfterInv'
  <2>1. CASE PrepareRead(t)
    BY <2>1, QuietStep DEF PrepareRead, TypeOK, rowVars, subVars, envVars
  <2>2. CASE PrepareWrite(t)
    <3>1. CASE VersionMatches(t)
      <4>1. /\ pc' = [pc EXCEPT ![t] = "dispatch"]
            /\ started_at' = [started_at EXCEPT ![RunOf[t]] = "set"]
            /\ UNCHANGED <<overall_score, dispatched, notices, subStatus>>
        BY <2>2, <3>1 DEF PrepareWrite, transition_status, subVars, envVars
      <4>2. DispatchInv'
        BY <4>1 DEF AfterInv, DispatchInv, ScoredRunsWereDispatched, Scored, TypeOK
      <4>3. NoticeInv' /\ EvaluatedInv'
        BY <4>1 DEF AfterInv, NoticeInv, OneNoticePerCompletion, EvaluatedInv,
                    EvaluatedMeansScored, Scored, TypeOK
      <4> QED
        BY <4>2, <4>3 DEF AfterInv
    <3>2. CASE ~VersionMatches(t)
      BY <2>2, <3>2, QuietStep DEF PrepareWrite, TypeOK, subVars, envVars
    <3> QED
      BY <3>1, <3>2
  <2>3. CASE Dispatch(t)
    <3>1. /\ UNCHANGED <<started_at, overall_score, notices, subStatus>>
          /\ dispatched' \in {dispatched, dispatched \cup {RunOf[t]}}
          /\ pc[t] = "dispatch"
          /\ pc' \in {[pc EXCEPT ![t] = "done"], [pc EXCEPT ![t] = "fail"]}
      BY <2>3 DEF Dispatch, rowVars, subVars
    <3>2. DispatchInv'
      BY <3>1 DEF AfterInv, DispatchInv, ScoredRunsWereDispatched, Scored, TypeOK
    <3>3. NoticeInv' /\ EvaluatedInv'
      BY <3>1 DEF AfterInv, NoticeInv, OneNoticePerCompletion, EvaluatedInv,
                  EvaluatedMeansScored, Scored, TypeOK
    <3> QED
      BY <3>2, <3>3 DEF AfterInv
  <2>4. CASE FailRead(t)
    BY <2>4, QuietStep, RetryType DEF FailRead, TypeOK, rowVars, subVars, envVars
  <2>5. CASE FailWrite(t)
    <3>1. UNCHANGED <<started_at, overall_score, dispatched, notices, subStatus>>
      BY <2>5 DEF FailWrite, transition_status, subVars, envVars
    <3>2. RetryOrGiveUp(t, OrchMaxRetries)
      BY <2>5 DEF FailWrite
    <3> QED
      BY <3>1, <3>2, QuietStep, RetryType
  <2> QED
    BY <1>2, <2>1, <2>2, <2>3, <2>4, <2>5 DEF OrchStep
<1>3. ASSUME NEW t \in Orchs, OrchError(t) \/ KillRevoked(t) PROVE AfterInv'
  <2>1. UNCHANGED <<started_at, overall_score, dispatched, notices, subStatus>>
    BY <1>3 DEF OrchError, KillRevoked, rowVars, subVars, envVars
  <2>2. pc'[t] # "dispatch" /\ \A u \in Tasks : u # t => pc'[u] = pc[u]
    BY <1>3, RetryType DEF OrchError, KillRevoked, TypeOK
  <2> QED
    BY <2>1, <2>2, QuietStep
<1>4. ASSUME NEW t \in Finalizers, FinStep(t) PROVE AfterInv'
  <2>1. CASE FinScore(t)
    BY <2>1, QuietStep DEF FinScore, FinDeliverable, TypeOK, rowVars, subVars, envVars
  <2>2. CASE FinRefetch(t)
    <3>1. RunOf[t] \in dispatched
      BY <2>2 DEF FinRefetch, AfterInv, DispatchInv
    <3> QED
      BY <2>2, <3>1, QuietStep DEF FinRefetch, TypeOK, rowVars, subVars, envVars
  <2>3. CASE FinWrite(t)
    <3>1. CASE VersionMatches(t)
      <4>1. /\ pc[t] = "complete"
            /\ pc' = [pc EXCEPT ![t] = "audit"]
            /\ overall_score' = [overall_score EXCEPT ![RunOf[t]] = "set"]
            /\ UNCHANGED <<started_at, dispatched, notices, subStatus>>
        BY <2>3, <3>1 DEF FinWrite, transition_status, subVars, envVars
      <4>2. ~Scored(RunOf[t])
        BY <3>1, <4>1, MatchMeansOpen DEF Writing
      <4>3. DispatchInv'
        BY <4>1 DEF AfterInv, DispatchInv, ScoredRunsWereDispatched, Scored, TypeOK
      <4>4. /\ notices[RunOf[t]] = 0
            /\ \A u \in Finalizers : RunOf[u] = RunOf[t] => pc[u] # "audit"
        BY <4>2 DEF AfterInv, NoticeInv, OneNoticePerCompletion, TypeOK
      <4>5. NoticeInv'
        BY <4>1, <4>4 DEF AfterInv, NoticeInv, OneNoticePerCompletion, Scored, TypeOK
      <4>6. EvaluatedInv'
        BY <4>1 DEF AfterInv, EvaluatedInv, EvaluatedMeansScored, Scored, TypeOK
      <4> QED
        BY <4>3, <4>5, <4>6 DEF AfterInv
    <3>2. CASE ~VersionMatches(t)
      <4>1. UNCHANGED <<started_at, overall_score, dispatched, notices, subStatus>>
        BY <2>3, <3>2 DEF FinWrite, subVars, envVars
      <4>2. RetryOrGiveUp(t, FinMaxRetries)
        BY <2>3, <3>2 DEF FinWrite
      <4> QED
        BY <4>1, <4>2, QuietStep, RetryType
    <3> QED
      BY <3>1, <3>2
  <2>4. CASE FinAudit(t)
    <3>1. /\ pc[t] = "audit"
          /\ pc' = [pc EXCEPT ![t] = "submission"]
          /\ notices' = [notices EXCEPT ![RunOf[t]] = @ + 1]
          /\ UNCHANGED <<started_at, overall_score, dispatched, subStatus>>
      BY <2>4 DEF FinAudit, rowVars, subVars
    <3>2. DispatchInv'
      BY <3>1 DEF AfterInv, DispatchInv, ScoredRunsWereDispatched, Scored, TypeOK
    <3>3. NoticeInv'
      BY <3>1 DEF AfterInv, NoticeInv, OneNoticePerCompletion, Scored, TypeOK
    <3>4. EvaluatedInv'
      BY <3>1 DEF AfterInv, NoticeInv, EvaluatedInv, EvaluatedMeansScored, Scored, TypeOK
    <3> QED
      BY <3>2, <3>3, <3>4 DEF AfterInv
  <2>5. CASE FinSubmission(t)
    <3>1. /\ pc[t] = "submission"
          /\ pc' = [pc EXCEPT ![t] = "done"]
          /\ subStatus' = [subStatus EXCEPT ![SubmissionOf[RunOf[t]]] = "EVALUATED"]
          /\ UNCHANGED <<started_at, overall_score, dispatched, notices>>
      BY <2>5 DEF FinSubmission, rowVars, envVars
    <3>2. DispatchInv' /\ NoticeInv'
      BY <3>1 DEF AfterInv, DispatchInv, ScoredRunsWereDispatched, NoticeInv,
                  OneNoticePerCompletion, Scored, TypeOK
    <3>3. EvaluatedInv'
      BY <3>1 DEF AfterInv, EvaluatedInv, EvaluatedMeansScored, Scored, TypeOK
    <3> QED
      BY <3>2, <3>3 DEF AfterInv
  <2> QED
    BY <1>4, <2>1, <2>2, <2>3, <2>4, <2>5 DEF FinStep
<1>5. ASSUME NEW t \in Finalizers, FinError(t) PROVE AfterInv'
  <2>1. UNCHANGED <<started_at, overall_score, dispatched, notices, subStatus>>
    BY <1>5 DEF FinError, rowVars, subVars, envVars
  <2>2. /\ pc'[t] \in {"retry", "done"} \/ (pc'[t] = "submission" /\ pc[t] = "audit")
        /\ \A u \in Tasks : u # t => pc'[u] = pc[u]
    BY <1>5, RetryType DEF FinError, TypeOK
  <2> QED
    BY <2>1, <2>2, QuietStep
<1>6. ASSUME NEW t \in Workers, WorkerLost(t) PROVE AfterInv'
  BY <1>6, QuietStep DEF WorkerLost, TypeOK, rowVars, subVars, envVars
<1>7. ASSUME NEW t \in Cancels, CancelStep(t) \/ CancelRollback(t) PROVE AfterInv'
  BY <1>7, QuietStep
     DEF CancelStep, CancelRead, CancelWrite, CancelRollback, TypeOK, rowVars, subVars, envVars
<1>8. CASE Maintenance
  BY <1>8, QuietStep DEF Maintenance, subVars, taskVars, envVars
<1>9. ASSUME NEW s \in Submissions,
             (\E new \in PatchStatuses : UpdateSubmission(s, new)) \/ DeleteSubmission(s)
      PROVE  AfterInv'
  <2>1. UNCHANGED <<started_at, overall_score, dispatched, notices, pc>>
    BY <1>9 DEF UpdateSubmission, DeleteSubmission, rowVars, taskVars, envVars
  <2>2. "EVALUATED" \notin PatchStatuses =>
          \A u \in Submissions : subStatus'[u] = "EVALUATED" => subStatus[u] = "EVALUATED"
    BY <1>9 DEF UpdateSubmission, DeleteSubmission, TypeOK
  <2>3. DispatchInv' /\ NoticeInv'
    BY <2>1 DEF AfterInv, DispatchInv, ScoredRunsWereDispatched, NoticeInv,
                OneNoticePerCompletion, Scored
  <2>4. EvaluatedInv'
    BY <2>1, <2>2 DEF AfterInv, EvaluatedInv, EvaluatedMeansScored, Scored
  <2> QED
    BY <2>3, <2>4 DEF AfterInv
<1>10. CASE UNCHANGED vars
  BY <1>10, QuietStep DEF vars, rowVars, subVars, taskVars, envVars
<1> QED
  BY <1>1, <1>2, <1>3, <1>4, <1>5, <1>6, <1>7, <1>8, <1>9, <1>10 DEF Next

\* The three invariants hold in every reachable state.
THEOREM AfterInvariant == Spec => []AfterInv
<1>1. Init => AfterInv
  BY OwnersExist
     DEF Init, AfterInv, DispatchInv, ScoredRunsWereDispatched, NoticeInv,
         OneNoticePerCompletion, EvaluatedInv, EvaluatedMeansScored, Scored
<1> QED
  BY <1>1, AfterStep, LockInvariant, PTL DEF Spec

\* However often finalize is delivered and retried, a run gets at most one
\* EVALUATION_COMPLETED entry, and only with its score.
THEOREM NoticeIsUnique == Spec => []OneNoticePerCompletion
BY AfterInvariant, PTL DEF AfterInv, NoticeInv

\* No score without a start and a dispatch before it.
THEOREM ScoresFollowDispatch == Spec => []ScoredRunsWereDispatched
BY AfterInvariant, PTL DEF AfterInv, DispatchInv

\* No submission shows EVALUATED without a scored run, unless a PATCH may say so.
THEOREM EvaluatedFollowsScore == Spec => []EvaluatedMeansScored
BY AfterInvariant, PTL DEF AfterInv, EvaluatedInv
============================================================================
