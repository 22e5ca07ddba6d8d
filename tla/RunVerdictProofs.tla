------------------------- MODULE RunVerdictProofs -------------------------
(***************************************************************************)
(* RunLifecycle implements RunVerdict: with the verdict read off the       *)
(* columns overall_score and error_message, every step of every request,   *)
(* task and maintenance pass is a step of the abstract specification.      *)
(***************************************************************************)
EXTENDS RunLifecycleProofs

USE DEF RunStatuses, TerminalStatuses, Workers, Tasks

\* A step that leaves the row alone is a stuttering step.
LEMMA RowStutter ==
    ASSUME UNCHANGED <<status, overall_score, error_message>>
    PROVE  UNCHANGED Verdict!vars
BY DEF Verdict!vars, verdictOf, Scored, Errored

\* A status that moves on a run without verdict is a Move of the abstraction.
LEMMA MoveStep ==
    ASSUME IInv, TypeOK', UNCHANGED overall_score, NEW S \in SUBSET Runs,
           \A r \in S : ~Scored(r) /\ ~Errored(r),
           \A r \in Runs \ S : status'[r] = status[r] /\ error_message'[r] = error_message[r],
           \A r \in S : error_message'[r] # "exception"
    PROVE  Verdict!Move
<1>1. verdictOf' = verdictOf
  <2> SUFFICES ASSUME NEW r \in Runs
               PROVE  verdictOf'[r] = verdictOf[r]
    BY DEF verdictOf
  <2>1. Scored(r)' <=> Scored(r)
    BY DEF Scored
  <2>2. Errored(r)' <=> Errored(r)
    BY DEF Errored
  <2> QED
    BY <2>1, <2>2 DEF verdictOf
<1>2. \A r \in Runs : verdictOf[r] # "open" => status'[r] = status[r]
  BY DEF verdictOf
<1>3. status' \in [Runs -> Verdict!Statuses]
  BY DEF TypeOK, Verdict!Statuses
<1> QED
  BY <1>1, <1>2, <1>3 DEF Verdict!Move

\* A write of a terminal status by a worker that still matches is a decision.
LEMMA DecideStep ==
    ASSUME IInv, NEW t \in Workers, Writing(t), VersionMatches(t), NEW v \in {"completed", "failed"},
           status' = [status EXCEPT ![RunOf[t]] = Verdict!StatusOf(v)],
           overall_score' = IF v = "completed" THEN [overall_score EXCEPT ![RunOf[t]] = "set"]
                                               ELSE overall_score,
           error_message' = IF v = "failed" THEN [error_message EXCEPT ![RunOf[t]] = "exception"]
                                            ELSE error_message
    PROVE  Verdict!Next
<1>0. RunOf[t] \in Runs
  BY OwnersExist
<1>1. ~Scored(RunOf[t]) /\ ~Errored(RunOf[t])
  BY MatchMeansOpen
<1>2. verdictOf[RunOf[t]] = "open"
  BY <1>0, <1>1 DEF verdictOf
<1>3. verdictOf' = [verdictOf EXCEPT ![RunOf[t]] = v]
  BY <1>0, <1>1 DEF verdictOf, Scored, Errored, IInv, TypeOK
<1>4. Verdict!Decide(RunOf[t], v)
  BY <1>2, <1>3 DEF Verdict!Decide
<1> QED
  BY <1>0, <1>4 DEF Verdict!Next, Verdict!Verdicts

\* Every step of the system is a step of RunVerdict, or leaves it unchanged.
LEMMA VerdictStep == IInv /\ TypeOK' /\ [Next]_vars => [Verdict!Next]_(Verdict!vars)
<1> SUFFICES ASSUME IInv, TypeOK', [Next]_vars
             PROVE  Verdict!Next \/ UNCHANGED Verdict!vars
  OBVIOUS
<1> USE OwnersExist
<1> TypeOK
  BY DEF IInv
<1>1. ASSUME NEW r \in Runs, TriggerStep(r) \/ TriggerRollback(r) \/ Age(r)
      PROVE  UNCHANGED Verdict!vars
  BY <1>1, RowStutter
     DEF TriggerStep, TriggerCheck, TriggerDispatch, TriggerCommit, TriggerRollback, Age, rowVars
<1>2. ASSUME NEW t \in Orchs, OrchStep(t)
      PROVE  Verdict!Next \/ UNCHANGED Verdict!vars
  <2>1. CASE PrepareRead(t) \/ Dispatch(t) \/ FailRead(t)
    BY <2>1, RowStutter DEF PrepareRead, Dispatch, FailRead, rowVars
  <2>2. CASE PrepareWrite(t)
    <3>1. CASE VersionMatches(t)
      <4>1. ~Scored(RunOf[t]) /\ ~Errored(RunOf[t])
        BY <2>2, <3>1, MatchMeansOpen DEF PrepareWrite, Writing
      <4>2. /\ UNCHANGED <<overall_score, error_message>>
            /\ status' = [status EXCEPT ![RunOf[t]] = "RUNNING"]
        BY <2>2, <3>1 DEF PrepareWrite, transition_status
      <4>3. Verdict!Move
        <5> DEFINE S == {RunOf[t]}
        <5>1. S \in SUBSET Runs
          OBVIOUS
        <5>2. \A r \in S : ~Scored(r) /\ ~Errored(r) /\ error_message'[r] # "exception"
          BY <4>1, <4>2 DEF Errored
        <5>3. \A r \in Runs \ S : status'[r] = status[r] /\ error_message'[r] = error_message[r]
          BY <4>2 DEF TypeOK
        <5> QED
          BY <4>2, <5>1, <5>2, <5>3, MoveStep
      <4> QED
        BY <4>3 DEF Verdict!Next
    <3>2. CASE ~VersionMatches(t)
      BY <2>2, <3>2, RowStutter DEF PrepareWrite
    <3> QED
      BY <3>1, <3>2
  <2>3. CASE FailWrite(t)
    <3>1. CASE VersionMatches(t)
      BY <2>3, <3>1, DecideStep DEF FailWrite, transition_status, Writing, Verdict!StatusOf
    <3>2. CASE ~VersionMatches(t)
      BY <2>3, <3>2, RowStutter DEF FailWrite
    <3> QED
      BY <3>1, <3>2
  <2> QED
    BY <1>2, <2>1, <2>2, <2>3 DEF OrchStep
<1>3. ASSUME NEW t \in Orchs, OrchError(t) \/ KillRevoked(t)
      PROVE  UNCHANGED Verdict!vars
  BY <1>3, RowStutter DEF OrchError, KillRevoked, rowVars
<1>4. ASSUME NEW t \in Finalizers, FinStep(t)
      PROVE  Verdict!Next \/ UNCHANGED Verdict!vars
  <2>1. CASE FinScore(t) \/ FinRefetch(t) \/ FinAudit(t) \/ FinSubmission(t)
    BY <2>1, RowStutter DEF FinScore, FinRefetch, FinAudit, FinSubmission, rowVars
  <2>2. CASE FinWrite(t)
    <3>1. CASE VersionMatches(t)
      BY <2>2, <3>1, DecideStep DEF FinWrite, transition_status, Writing, Verdict!StatusOf
    <3>2. CASE ~VersionMatches(t)
      BY <2>2, <3>2, RowStutter DEF FinWrite
    <3> QED
      BY <3>1, <3>2
  <2> QED
    BY <1>4, <2>1, <2>2 DEF FinStep
<1>5. ASSUME NEW t \in Finalizers, FinError(t) PROVE UNCHANGED Verdict!vars
  BY <1>5, RowStutter DEF FinError, rowVars
<1>6. ASSUME NEW t \in Workers, WorkerLost(t) PROVE UNCHANGED Verdict!vars
  BY <1>6, RowStutter DEF WorkerLost, rowVars
<1>7. ASSUME NEW t \in Cancels, CancelStep(t) \/ CancelRollback(t)
      PROVE  Verdict!Next \/ UNCHANGED Verdict!vars
  <2>1. CASE CancelRead(t) \/ CancelRollback(t)
    BY <2>1, RowStutter DEF CancelRead, CancelRollback, rowVars
  <2>2. CASE CancelWrite(t)
    <3>1. Verdict!Cover(RunOf[t])
      BY <2>2 DEF CancelWrite, Verdict!Cover, verdictOf, Scored, Errored
    <3> QED
      BY <3>1 DEF Verdict!Next
  <2> QED
    BY <1>7, <2>1, <2>2 DEF CancelStep
<1>8. CASE Maintenance
  <2>1. StaleRuns \in SUBSET Runs
    BY DEF StaleRuns, TypeOK
  <2>2. \A r \in StaleRuns : ~Scored(r) /\ ~Errored(r)
    BY <2>1 DEF StaleRuns, IInv, Safe, VerdictIsShown
  <2>3. /\ \A r \in StaleRuns : error_message'[r] # "exception"
        /\ \A r \in Runs \ StaleRuns : /\ status'[r] = status[r]
                                       /\ error_message'[r] = error_message[r]
        /\ UNCHANGED overall_score
    BY <1>8, <2>1 DEF Maintenance
  <2>4. Verdict!Move
    BY <2>1, <2>2, <2>3, MoveStep
  <2> QED
    BY <2>4 DEF Verdict!Next
<1>9. ASSUME NEW s \in Submissions,
             (\E new \in PatchStatuses : UpdateSubmission(s, new)) \/ DeleteSubmission(s)
      PROVE  UNCHANGED Verdict!vars
  BY <1>9, RowStutter DEF UpdateSubmission, DeleteSubmission, rowVars
<1>10. CASE UNCHANGED vars
  BY <1>10, RowStutter DEF vars, rowVars
<1> QED
  BY <1>1, <1>2, <1>3, <1>4, <1>5, <1>6, <1>7, <1>8, <1>9, <1>10 DEF Next

\* The five writers of the run row implement the abstract specification: the
\* workers decide a run at most once, and a decided run changes only by being
\* cancelled.
THEOREM ImplementsVerdict == Spec => VerdictSpec
<1>1. Init => Verdict!Init
  BY DEF Init, Verdict!Init, verdictOf, Scored, Errored
<1>2. IInv /\ IInv' /\ [Next]_vars => [Verdict!Next]_(Verdict!vars)
  BY VerdictStep DEF IInv
<1> QED
  BY <1>1, <1>2, LockInvariant, PTL DEF Spec, VerdictSpec, Verdict!Spec
===========================================================================
