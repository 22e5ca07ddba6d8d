------------------------ MODULE AnalysisHeaderProofs ------------------------
(***************************************************************************)
(* Proofs about AnalysisHeader: a dispatch inserts at most one row for     *)
(* each worker, without faults only the GitHub task of a single dispatch   *)
(* can fail, its report is backed by rows and its counters agree with      *)
(* them.                                                                   *)
(***************************************************************************)
EXTENDS AnalysisHeader, FiniteSetTheorems, TLAPS

\* What execute may come to, the results without an exception being those that
\* are stored in output_data.
AllOutcomes ==
    {Nothing} \cup Plain({"skipped"}) \cup AnalyzeGithub \cup AnalyzePitchDeck
    \cup AnalyzeVideo \cup VerifyWeb

Outputs == {o \in AllOutcomes : Type(o)}

Row == [status : {"running", "completed", "failed"}, output : Outputs]

States == {"check", "read", "write", "execute", "complete", "return", "fail", "done", "broken"}

\* The types the arguments below need.
Types ==
    /\ pc \in [Tasks -> States]
    /\ found \in [Tasks -> {0, 1}]
    /\ result \in [Tasks -> Outputs]
    /\ rows \in [Workers -> Seq(Row)]

\* The dispatches that have found no row for w and are about to insert one.
Inserting(w) == {d \in Dispatches : pc[<<d, w>>] = "write" /\ found[<<d, w>>] = 0}

\* The strengthening that makes RowsPerDispatch inductive: rows to come count.
RowsAndInserts ==
    \A w \in Workers : Len(rows[w]) + Cardinality(Inserting(w)) <= Cardinality(Dispatches)

RowsInv == Types /\ RowsAndInserts

\* Every outcome has the status of a result or is an exception.
LEMMA OutcomesHaveType ==
    ASSUME NEW o \in AllOutcomes, o.status # "raises"
    PROVE  Type(o)
<1>1. CASE o = Nothing
  BY <1>1 DEF Nothing, Type
<1>2. CASE o \in Plain({"skipped", "error", "completed", "raises"})
  BY <1>2 DEF Plain, Result, Type
<1>3. CASE \E c : o = Result("completed", c)
  BY <1>3 DEF Result, Type
<1>4. CASE o \in AnalyzeGithub
  BY <1>2, <1>3, <1>4 DEF AnalyzeGithub, Plain
<1>5. CASE o \in AnalyzePitchDeck
  BY <1>2, <1>5 DEF AnalyzePitchDeck, Plain
<1>6. CASE o \in AnalyzeVideo
  BY <1>2, <1>3, <1>6 DEF AnalyzeVideo, Plain
<1>7. CASE o \in VerifyWeb
  BY <1>2, <1>3, <1>7 DEF VerifyWeb, Plain
<1>8. CASE o \in Plain({"skipped"})
  BY <1>2, <1>8 DEF Plain
<1> QED BY <1>1, <1>4, <1>5, <1>6, <1>7, <1>8 DEF AllOutcomes

\* A row is inserted without a result.
LEMMA NothingIsOutput == Nothing \in Outputs
BY DEF Outputs, AllOutcomes, Nothing, Type

\* What execute returns can be stored.
LEMMA OutcomesAreOutputs ==
    ASSUME NEW w \in Workers, NEW o \in Outcomes(w) \cup Plain({"raises"}),
           o.status # "raises"
    PROVE  o \in Outputs
<1>1. CASE o \in Plain({"raises"})
  BY <1>1 DEF Plain, Result
<1>2. CASE o \in Outcomes(w)
  <2>1. CASE ~ExecuteBound
    BY <1>2, <2>1 DEF Outcomes, Plain, Result
  <2>2. CASE ExecuteBound /\ w \notin sources
    BY <1>2, <2>2, OutcomesHaveType DEF Outcomes, Outputs, AllOutcomes
  <2>3. CASE ExecuteBound /\ w \in sources
    <3>1. w \in {"github_analysis", "pitch_deck", "video_analysis", "web_verification"}
      BY HeaderBounds DEF WorkerTypes, Range
    <3>2. o \in AllOutcomes
      BY <1>2, <2>3, <3>1 DEF Outcomes, AllOutcomes
    <3> QED BY <3>2, OutcomesHaveType DEF Outputs
  <2> QED BY <2>1, <2>2, <2>3
<1> QED BY <1>1, <1>2

\* A function that differs from a sequence only in its elements is one, of the
\* same length.
LEMMA SameShape ==
    ASSUME NEW S, NEW s \in Seq(S), NEW f, f \in [DOMAIN s -> S]
    PROVE  f \in Seq(S) /\ Len(f) = Len(s)
<1>1. Len(s) \in Nat /\ DOMAIN s = 1..Len(s)
  OBVIOUS
<1>2. f \in [1..Len(s) -> S]
  BY <1>1
<1> QED BY <1>1, <1>2

\* The types are inductive.
LEMMA TypesStep ==
    ASSUME Types, [Next]_vars
    PROVE  Types'
<1>1. ASSUME NEW t \in Tasks, CheckIdempotent(t)
      PROVE  Types'
  <2>1. t[2] \in Workers
    BY <1>1 DEF Tasks
  <2>2. \A i \in CompletedRows(t[2]) : rows[t[2]][i].output \in Outputs
    <3>1. \A i \in CompletedRows(t[2]) : rows[t[2]][i] \in Row
      BY <2>1 DEF Types, CompletedRows
    <3> QED BY <3>1 DEF Row
  <2> QED BY <1>1, <2>2 DEF CheckIdempotent, MoveTo, States, Types, dbVars
<1>2. ASSUME NEW t \in Tasks, CreateRead(t)
      PROVE  Types'
  <2>1. t[2] \in Workers
    BY <1>2 DEF Tasks
  <2>2. Len(rows[t[2]]) \in Nat
    BY <2>1 DEF Types
  <2> QED BY <1>2, <2>1, <2>2 DEF CreateRead, MoveTo, States, Types, dbVars
<1>3. ASSUME NEW t \in Tasks, CreateWrite(t)
      PROVE  Types'
  <2>1. t[2] \in Workers
    BY <1>3 DEF Tasks
  <2>2. [status |-> "running", output |-> Nothing] \in Row
    BY NothingIsOutput DEF Row
  <2>3. Append(rows[t[2]], [status |-> "running", output |-> Nothing]) \in Seq(Row)
    BY <2>1, <2>2 DEF Types
  <2>4. [rows[t[2]] EXCEPT ![1].status = "running"] \in Seq(Row)
    <3>1. rows[t[2]] \in Seq(Row)
      BY <2>1 DEF Types
    <3>2. \A i \in DOMAIN rows[t[2]] : rows[t[2]][i] \in Row
      BY <3>1
    <3>3. 1 \in DOMAIN rows[t[2]] => [rows[t[2]][1] EXCEPT !.status = "running"] \in Row
      BY <3>2 DEF Row
    <3>4. [rows[t[2]] EXCEPT ![1].status = "running"] \in [DOMAIN rows[t[2]] -> Row]
      BY <3>1, <3>2, <3>3
    <3> QED BY <3>1, <3>4, SameShape
  <2> QED BY <1>3, <2>1, <2>3, <2>4 DEF CreateWrite, MoveTo, States, Types
<1>4. ASSUME NEW t \in Tasks, NEW o \in Outcomes(t[2]) \cup Plain({"raises"}), Settle(t, o),
             UNCHANGED <<found, rows>>
      PROVE  Types'
  <2>1. t[2] \in Workers
    BY <1>4 DEF Tasks
  <2>2. o.status # "raises" => o \in Outputs
    BY <1>4, <2>1, OutcomesAreOutputs
  <2> QED BY <1>4, <2>2 DEF Settle, MoveTo, States, Types
<1>5. ASSUME NEW t \in Tasks, MarkCompleted(t)
      PROVE  Types'
  <2>1. t[2] \in Workers
    BY <1>5 DEF Tasks
  <2>2. [i \in DOMAIN rows[t[2]] |-> [status |-> "completed", output |-> result[t]]] \in Seq(Row)
    <3>1. rows[t[2]] \in Seq(Row) /\ result[t] \in Outputs
      BY <1>5, <2>1 DEF Types
    <3>2. [status |-> "completed", output |-> result[t]] \in Row
      BY <3>1 DEF Row
    <3> QED BY <3>1, <3>2, SameShape
  <2> QED BY <1>5, <2>1, <2>2 DEF MarkCompleted, MoveTo, States, Types
<1>6. ASSUME NEW t \in Tasks, MarkFailed(t)
      PROVE  Types'
  <2>1. t[2] \in Workers
    BY <1>6 DEF Tasks
  <2>2. [i \in DOMAIN rows[t[2]] |-> [rows[t[2]][i] EXCEPT !.status = "failed"]] \in Seq(Row)
    <3>1. rows[t[2]] \in Seq(Row)
      BY <2>1 DEF Types
    <3>2. \A i \in DOMAIN rows[t[2]] : rows[t[2]][i] \in Row
      BY <3>1
    <3>3. \A i \in DOMAIN rows[t[2]] : [rows[t[2]][i] EXCEPT !.status = "failed"] \in Row
      BY <3>2 DEF Row
    <3> QED BY <3>1, <3>3, SameShape
  <2> QED BY <1>6, <2>1, <2>2 DEF MarkFailed, Retry, MoveTo, States, Types
<1>7. ASSUME NEW t \in Tasks, Return(t) \/ TransactionFails(t) \/ WorkerLost(t)
      PROVE  Types'
  BY <1>7 DEF Return, TransactionFails, WorkerLost, Retry, MoveTo, States, Types, dbVars
<1>8. ASSUME NEW t \in Tasks, Execute(t) \/ SoftTimeLimit(t)
      PROVE  Types'
  <2>1. CASE Execute(t)
    BY <1>4, <2>1 DEF Execute, dbVars
  <2>2. CASE SoftTimeLimit(t) /\ pc[t] = "execute"
    BY <1>4, <2>2 DEF SoftTimeLimit, dbVars
  <2>3. CASE SoftTimeLimit(t) /\ pc[t] # "execute"
    BY <1>8, <2>3 DEF SoftTimeLimit, MoveTo, States, Types, dbVars
  <2> QED BY <1>8, <2>1, <2>2, <2>3
<1>9. ASSUME NEW d \in Dispatches, Join(d)
      PROVE  Types'
  BY <1>9 DEF Join, States, Types, dbVars
<1>10. CASE UNCHANGED vars
  BY <1>10 DEF vars, dbVars, States, Types
<1> QED BY <1>1, <1>2, <1>3, <1>5, <1>6, <1>7, <1>8, <1>9, <1>10 DEF Next, Step

\* Inserting is finite, and its cardinality a number.
LEMMA InsertingFinite ==
    ASSUME NEW w \in Workers
    PROVE  /\ IsFiniteSet(Inserting(w)) /\ Cardinality(Inserting(w)) \in Nat
           /\ Cardinality(Inserting(w)) <= Cardinality(Dispatches)
           /\ Cardinality(Dispatches) \in Nat
<1>1. IsFiniteSet(Dispatches) /\ Inserting(w) \subseteq Dispatches
  BY HeaderBounds DEF Inserting
<1> QED BY <1>1, FS_Subset, FS_CardinalityType

\* A step that inserts no row, and after which no more dispatches are about to,
\* keeps the bound.
LEMMA NoMoreInserts ==
    ASSUME RowsInv, NEW w \in Workers,
           Len(rows'[w]) = Len(rows[w]), Inserting(w)' \subseteq Inserting(w)
    PROVE  Len(rows'[w]) + Cardinality(Inserting(w)') <= Cardinality(Dispatches)
<1>1. Cardinality(Inserting(w)') <= Cardinality(Inserting(w))
      /\ Cardinality(Inserting(w)') \in Nat
  BY InsertingFinite, FS_Subset, FS_CardinalityType
<1>2. Len(rows[w]) \in Nat
  BY DEF RowsInv, Types
<1>3. Len(rows[w]) + Cardinality(Inserting(w)) <= Cardinality(Dispatches)
  BY DEF RowsInv, RowsAndInserts
<1> QED BY <1>1, <1>2, <1>3, InsertingFinite

\* A step of t that does not lead to "write" and leaves the rows' number alone
\* keeps the bound.
LEMMA OtherSteps ==
    ASSUME RowsInv, NEW t \in Tasks, NEW x, x # "write", MoveTo(t, x), UNCHANGED found,
           \A w \in Workers : Len(rows'[w]) = Len(rows[w])
    PROVE  RowsAndInserts'
<1>1. ASSUME NEW w \in Workers
      PROVE  Inserting(w)' \subseteq Inserting(w)
  BY DEF Inserting, MoveTo, RowsInv, Types, Tasks
<1> QED BY <1>1, NoMoreInserts DEF RowsAndInserts

\* RowsInv is inductive.  Reading makes a dispatch insert only when there is no
\* row, and writing turns an insert to come into a row.
LEMMA RowsStep ==
    ASSUME RowsInv, [Next]_vars
    PROVE  RowsInv'
<1> USE DEF RowsInv
<1>1. Types'
  BY TypesStep
<1>2. ASSUME NEW t \in Tasks, UNCHANGED <<found, rows>>,
             \E x \in States \ {"write"} : MoveTo(t, x)
      PROVE  RowsAndInserts'
  BY <1>2, OtherSteps
<1>3. ASSUME NEW t \in Tasks, MarkCompleted(t) \/ MarkFailed(t)
      PROVE  RowsAndInserts'
  <2>1. t[2] \in Workers
    BY <1>3 DEF Tasks
  <2>2. rows[t[2]] \in Seq(Row) /\ rows'[t[2]] \in Seq(Row)
    BY <1>1, <2>1 DEF Types
  <2>3. DOMAIN rows'[t[2]] = DOMAIN rows[t[2]]
    BY <1>3, <2>1 DEF MarkCompleted, MarkFailed, Types
  <2>4. Len(rows'[t[2]]) = Len(rows[t[2]])
    BY <2>2, <2>3
  <2>5. \A w \in Workers : Len(rows'[w]) = Len(rows[w])
    BY <1>3, <2>4 DEF MarkCompleted, MarkFailed, Types
  <2>6. UNCHANGED found /\ \E x \in States \ {"write"} : MoveTo(t, x)
    BY <1>3 DEF MarkCompleted, MarkFailed, Retry, States
  <2> QED BY <2>5, <2>6, OtherSteps
<1>4. ASSUME NEW t \in Tasks, CreateRead(t)
      PROVE  RowsAndInserts'
  <2>1. t[2] \in Workers /\ t[1] \in Dispatches /\ t = <<t[1], t[2]>>
    BY <1>4 DEF Tasks
  <2>2. UNCHANGED rows
    BY <1>4 DEF CreateRead, dbVars
  <2>3. ASSUME NEW w \in Workers, ~(w = t[2] /\ Len(rows[w]) = 0)
        PROVE  Inserting(w)' \subseteq Inserting(w)
    BY <1>4, <2>1, <2>3 DEF CreateRead, MoveTo, Inserting, Types, Tasks
  <2>4. ASSUME NEW w \in Workers, Len(rows[w]) = 0
        PROVE  Len(rows'[w]) + Cardinality(Inserting(w)') <= Cardinality(Dispatches)
    <3>1. Inserting(w)' \subseteq Dispatches
      BY DEF Inserting
    <3>2. Cardinality(Inserting(w)') <= Cardinality(Dispatches)
          /\ Cardinality(Inserting(w)') \in Nat
      BY <3>1, HeaderBounds, FS_Subset, FS_CardinalityType
    <3> QED BY <2>2, <2>4, <3>2, InsertingFinite
  <2> QED BY <2>2, <2>3, <2>4, NoMoreInserts DEF RowsAndInserts
<1>5. ASSUME NEW t \in Tasks, CreateWrite(t)
      PROVE  RowsAndInserts'
  <2>1. t[2] \in Workers /\ t[1] \in Dispatches /\ t = <<t[1], t[2]>>
    BY <1>5 DEF Tasks
  <2>2. rows[t[2]] \in Seq(Row) /\ rows'[t[2]] \in Seq(Row)
    BY <1>1, <2>1 DEF Types
  <2>3. \A w \in Workers \ {t[2]} : rows'[w] = rows[w]
    BY <1>5 DEF CreateWrite, Types
  <2>4. \A w \in Workers : Inserting(w)' \subseteq Inserting(w)
    BY <1>5 DEF CreateWrite, MoveTo, Inserting, Types, Tasks
  <2>5. CASE found[t] = 1
    <3>1. DOMAIN rows'[t[2]] = DOMAIN rows[t[2]]
      BY <1>5, <2>1, <2>5 DEF CreateWrite, Types
    <3>2. Len(rows'[t[2]]) = Len(rows[t[2]])
      BY <2>2, <3>1
    <3> QED BY <2>3, <2>4, <3>2, NoMoreInserts DEF RowsAndInserts
  <2>6. CASE found[t] # 1
    <3>1. Len(rows'[t[2]]) = Len(rows[t[2]]) + 1
      BY <1>5, <2>1, <2>2, <2>6 DEF CreateWrite, Types
    <3>2. t[1] \in Inserting(t[2])
      BY <1>5, <2>1, <2>6 DEF CreateWrite, Inserting, Types
    <3>3. Inserting(t[2])' \subseteq Inserting(t[2]) \ {t[1]}
      BY <1>5, <2>1, <2>4 DEF CreateWrite, MoveTo, Inserting, Types
    <3>4. /\ IsFiniteSet(Inserting(t[2]) \ {t[1]})
          /\ Cardinality(Inserting(t[2]) \ {t[1]}) = Cardinality(Inserting(t[2])) - 1
      BY <2>1, <3>2, InsertingFinite, FS_RemoveElement
    <3>5. Cardinality(Inserting(t[2])') <= Cardinality(Inserting(t[2])) - 1
          /\ Cardinality(Inserting(t[2])') \in Nat
      BY <3>3, <3>4, FS_Subset, FS_CardinalityType
    <3>6. Len(rows'[t[2]]) + Cardinality(Inserting(t[2])') <= Cardinality(Dispatches)
      BY <2>1, <2>2, <3>1, <3>5, InsertingFinite DEF RowsAndInserts
    <3> QED BY <2>3, <2>4, <3>6, NoMoreInserts DEF RowsAndInserts
  <2> QED BY <2>5, <2>6
<1>6. ASSUME NEW t \in Tasks,
             CheckIdempotent(t) \/ Execute(t) \/ Return(t) \/ TransactionFails(t)
             \/ SoftTimeLimit(t) \/ WorkerLost(t)
      PROVE  UNCHANGED <<found, rows>> /\ \E x \in States \ {"write"} : MoveTo(t, x)
  BY <1>6 DEF CheckIdempotent, Execute, Return, TransactionFails, SoftTimeLimit, WorkerLost,
              Settle, Retry, States, dbVars
<1>7. ASSUME UNCHANGED <<pc, found, rows>>
      PROVE  RowsAndInserts'
  BY <1>7 DEF RowsAndInserts, Inserting
<1>8. ASSUME NEW d \in Dispatches, Join(d)
      PROVE  RowsAndInserts'
  BY <1>7, <1>8 DEF Join, dbVars
<1>9. CASE UNCHANGED vars
  BY <1>1, <1>7, <1>9 DEF vars, dbVars
<1> QED BY <1>1, <1>2, <1>3, <1>4, <1>5, <1>6, <1>8, <1>9 DEF Next, Step

\* Initially there are no rows and no task is about to insert one.
LEMMA RowsInit ==
    ASSUME Init
    PROVE  RowsInv
<1>1. Types
  <2>1. Nothing \in Outputs
    BY NothingIsOutput
  <2>2. <<>> \in Seq(Row)
    OBVIOUS
  <2> QED BY <2>1, <2>2 DEF Init, Entry, Types, States
<1>2. ASSUME NEW w \in Workers
      PROVE  Len(rows[w]) + Cardinality(Inserting(w)) <= Cardinality(Dispatches)
  <2>1. Len(rows[w]) = 0
    BY DEF Init
  <2> QED BY <2>1, InsertingFinite
<1> QED BY <1>1, <1>2 DEF RowsInv, RowsAndInserts

\* However often the analysis tasks of a run are retried or delivered again, and
\* whatever the number of chords dispatched for it, _create_worker_result leaves
\* at most one row per worker and dispatch.
THEOREM RowsAreBounded == Spec => []RowsPerDispatch
<1>1. Init => RowsInv
  BY RowsInit
<1>2. RowsInv /\ [Next]_vars => RowsInv'
  BY RowsStep
<1>3. RowsInv => RowsPerDispatch
  <2>1. ASSUME RowsInv, NEW w \in Workers
        PROVE  Len(rows[w]) <= Cardinality(Dispatches)
    BY <2>1, InsertingFinite DEF RowsInv, Types, RowsAndInserts
  <2> QED BY <2>1 DEF RowsPerDispatch
<1> QED BY <1>1, <1>2, <1>3, PTL DEF Spec

---------------------------------------------------------------------------
(***************************************************************************)
(* Who can break the chord, when the code is wired as meant.               *)
(***************************************************************************)
Wired == AnalysisRun = "BaseEvalTask" /\ ExecuteBound

\* The strengthening of GithubAloneBreaks: without a fault the other tasks do not
\* even have to be marked as failed.
OthersNeverFail ==
    (faults = 0 /\ Cardinality(Dispatches) = 1) =>
        \A t \in Tasks : t[2] # "github_analysis" => pc[t] \notin {"fail", "broken"}

GithubInv == RowsInv /\ faults \in Nat /\ OthersNeverFail

\* The three other analyses turn every exception into a result.
LEMMA OthersCatch ==
    ASSUME Wired, NEW w \in Workers, w # "github_analysis", NEW o \in Outcomes(w)
    PROVE  o.status # "raises"
<1>1. w \in {"pitch_deck", "video_analysis", "web_verification"}
  BY HeaderBounds DEF WorkerTypes, Range
<1>2. CASE w \notin sources
  BY <1>2 DEF Wired, Outcomes, Plain, Result
<1>3. CASE w \in sources /\ w = "pitch_deck"
  BY <1>3 DEF Wired, Outcomes, AnalyzePitchDeck, Plain, Result
<1>4. CASE w \in sources /\ w = "video_analysis"
  <2>1. o \in AnalyzeVideo
    BY <1>4 DEF Wired, Outcomes
  <2>2. CASE o \in Plain({"error", "completed"})
    BY <2>2 DEF Plain, Result
  <2>3. CASE \E c : o = Result("completed", c)
    BY <2>3 DEF Result
  <2> QED BY <2>1, <2>2, <2>3 DEF AnalyzeVideo
<1>5. CASE w \in sources /\ w = "web_verification"
  BY <1>5 DEF Wired, Outcomes, VerifyWeb, Plain, Result
<1> QED BY <1>1, <1>2, <1>3, <1>4, <1>5

\* With one dispatch scalar_one_or_none never meets a second row.
LEMMA NoDuplicates ==
    ASSUME RowsInv, Cardinality(Dispatches) = 1, NEW w \in Workers
    PROVE  Len(rows[w]) <= 1 /\ ~(Cardinality(CompletedRows(w)) > 1)
<1>1. Len(rows[w]) \in Nat /\ Len(rows[w]) <= 1
  BY InsertingFinite DEF RowsInv, Types, RowsAndInserts
<1>2. /\ IsFiniteSet(1..Len(rows[w]))
      /\ Cardinality(1..Len(rows[w])) <= 1
      /\ Cardinality(1..Len(rows[w])) \in Nat
  <2>1. 1 \in Int /\ Len(rows[w]) \in Int
    BY <1>1
  <2>2. /\ IsFiniteSet(1..Len(rows[w]))
        /\ Cardinality(1..Len(rows[w])) = IF 1 > Len(rows[w]) THEN 0 ELSE Len(rows[w]) - 1 + 1
    BY <2>1, FS_Interval, Zenon
  <2> QED BY <1>1, <2>2
<1>3. CompletedRows(w) \subseteq 1..Len(rows[w])
  BY DEF CompletedRows
<1> QED BY <1>1, <1>2, <1>3, FS_Subset, FS_CardinalityType

\* GithubInv is inductive.
LEMMA GithubStep ==
    ASSUME Wired, GithubInv, [Next]_vars
    PROVE  GithubInv'
<1> USE DEF GithubInv
<1>1. RowsInv'
  BY RowsStep
<1>2. ASSUME NEW t \in Tasks, TransactionFails(t) \/ SoftTimeLimit(t) \/ WorkerLost(t)
      PROVE  faults' \in Nat /\ OthersNeverFail'
  BY <1>2 DEF TransactionFails, SoftTimeLimit, WorkerLost, OthersNeverFail
<1>3. ASSUME NEW t \in Tasks, NEW x \in States \ {"fail", "broken"}, MoveTo(t, x), UNCHANGED faults
      PROVE  faults' \in Nat /\ OthersNeverFail'
  BY <1>3 DEF MoveTo, OthersNeverFail, RowsInv, Types
<1>4. ASSUME NEW t \in Tasks, t[2] = "github_analysis", NEW x, MoveTo(t, x), UNCHANGED faults
      PROVE  faults' \in Nat /\ OthersNeverFail'
  BY <1>4 DEF MoveTo, OthersNeverFail, RowsInv, Types
<1>5. ASSUME NEW t \in Tasks, Step(t), faults = 0 => Cardinality(Dispatches) # 1
      PROVE  faults' \in Nat /\ OthersNeverFail'
  BY <1>5 DEF Step, CheckIdempotent, CreateRead, CreateWrite, Execute, MarkCompleted, Return,
              MarkFailed, OthersNeverFail
<1>6. ASSUME NEW t \in Tasks, Step(t), UNCHANGED faults, t[2] # "github_analysis",
             faults = 0, Cardinality(Dispatches) = 1
      PROVE  \E x \in States \ {"fail", "broken"} : MoveTo(t, x)
  <2>1. t[2] \in Workers
    BY <1>6 DEF Tasks
  <2>2. Len(rows[t[2]]) <= 1 /\ ~(Cardinality(CompletedRows(t[2])) > 1)
    BY <1>6, <2>1, NoDuplicates
  <2>3. Len(rows[t[2]]) \in Nat
    BY <2>1 DEF RowsInv, Types
  <2>4. CASE CheckIdempotent(t)
    BY <2>2, <2>4 DEF CheckIdempotent, States
  <2>5. CASE CreateRead(t)
    BY <2>2, <2>3, <2>5 DEF CreateRead, States
  <2>6. CASE Execute(t)
    <3>1. PICK o \in Outcomes(t[2]) : Settle(t, o)
      BY <2>6 DEF Execute
    <3>2. o.status # "raises"
      BY <1>6, <2>1, <3>1, OthersCatch
    <3> QED BY <3>1, <3>2 DEF Settle, States
  <2>7. CASE CreateWrite(t) \/ MarkCompleted(t) \/ Return(t)
    BY <2>7 DEF CreateWrite, MarkCompleted, Return, States
  <2>8. ~MarkFailed(t)
    BY <1>6 DEF MarkFailed, OthersNeverFail
  <2> QED BY <1>6, <2>4, <2>5, <2>6, <2>7, <2>8 DEF Step
<1>7. ASSUME NEW t \in Tasks, Step(t)
      PROVE  UNCHANGED faults /\ \E x : MoveTo(t, x)
  BY <1>7 DEF Step, CheckIdempotent, CreateRead, CreateWrite, Execute, Settle, MarkCompleted,
              Return, MarkFailed, Retry
<1>8. ASSUME UNCHANGED <<pc, faults>>
      PROVE  faults' \in Nat /\ OthersNeverFail'
  BY <1>8 DEF OthersNeverFail
<1>9. ASSUME NEW t \in Tasks, Step(t)
      PROVE  faults' \in Nat /\ OthersNeverFail'
  BY <1>3, <1>4, <1>5, <1>6, <1>7, <1>9
<1>10. ASSUME NEW d \in Dispatches, Join(d)
       PROVE  faults' \in Nat /\ OthersNeverFail'
  BY <1>8, <1>10 DEF Join
<1>11. CASE UNCHANGED vars
  BY <1>1, <1>8, <1>11 DEF vars
<1> QED BY <1>1, <1>2, <1>9, <1>10, <1>11 DEF Next

\* With one dispatch and no fault, no failure of a pitch deck, a video or a
\* website breaks the chord: only a GitHub task whose exceptions outlast its
\* retries does.
THEOREM OnlyGithubBreaks ==
    ASSUME Wired
    PROVE  Spec => []GithubAloneBreaks
<1>1. Init => GithubInv
  <2>1. Init => RowsInv
    BY RowsInit
  <2>2. Init => faults \in Nat /\ OthersNeverFail
    BY DEF Wired, Init, Entry, OthersNeverFail
  <2> QED BY <2>1, <2>2 DEF GithubInv
<1>2. GithubInv /\ [Next]_vars => GithubInv'
  BY GithubStep
<1>3. GithubInv => GithubAloneBreaks
  BY DEF GithubInv, OthersNeverFail, GithubAloneBreaks
<1> QED BY <1>1, <1>2, <1>3, PTL DEF Spec

---------------------------------------------------------------------------
(***************************************************************************)
(* Types of all variables.                                                 *)
(***************************************************************************)
\* The columns and counters that Types leaves out.
Counts ==
    /\ sources \in SourceChoices
    /\ retries \in [Tasks -> 0..MaxRetries]
    /\ completed_workers \in Nat /\ failed_workers \in Nat
    /\ faults \in 0..MaxFaults

\* A retry keeps the count of retries below max_retries.
LEMMA RetryCounts ==
    ASSUME retries \in [Tasks -> 0..MaxRetries], NEW t \in Tasks, Retry(t)
    PROVE  retries' \in [Tasks -> 0..MaxRetries]
<1>1. MaxRetries \in Nat
  BY DEF MaxRetries
<1> QED BY <1>1 DEF Retry

\* Counts is inductive.
LEMMA CountsStep ==
    ASSUME Counts, [Next]_vars
    PROVE  Counts'
<1>1. ASSUME NEW t \in Tasks,
             CheckIdempotent(t) \/ CreateRead(t) \/ CreateWrite(t) \/ Execute(t) \/ Return(t)
      PROVE  Counts'
  BY <1>1 DEF CheckIdempotent, CreateRead, CreateWrite, Execute, Return, Counts, dbVars
<1>2. ASSUME NEW t \in Tasks, MarkCompleted(t)
      PROVE  Counts'
  BY <1>2 DEF MarkCompleted, Counts
<1>3. ASSUME NEW t \in Tasks, MarkFailed(t)
      PROVE  Counts'
  <2>1. retries' \in [Tasks -> 0..MaxRetries]
    BY <1>3, RetryCounts DEF MarkFailed, Counts
  <2> QED BY <1>3, <2>1 DEF MarkFailed, Counts
<1>4. ASSUME NEW t \in Tasks, TransactionFails(t) \/ SoftTimeLimit(t) \/ WorkerLost(t)
      PROVE  Counts'
  <2>1. retries' \in [Tasks -> 0..MaxRetries]
    BY <1>4, RetryCounts DEF TransactionFails, SoftTimeLimit, WorkerLost, Counts
  <2>2. faults' \in 0..MaxFaults
    BY <1>4, HeaderBounds DEF TransactionFails, SoftTimeLimit, WorkerLost, Counts
  <2> QED BY <1>4, <2>1, <2>2 DEF TransactionFails, SoftTimeLimit, WorkerLost, Counts, dbVars
<1>5. ASSUME NEW d \in Dispatches, Join(d)
      PROVE  Counts'
  BY <1>5 DEF Join, Counts, dbVars
<1>6. CASE UNCHANGED vars
  BY <1>6 DEF vars, dbVars, Counts
<1> QED BY <1>1, <1>2, <1>3, <1>4, <1>5, <1>6 DEF Next, Step

\* Every variable keeps its type: retries are bounded, and rows and tasks only
\* hold results that execute returned.
THEOREM HeaderTypes == Spec => []TypeOK
<1>1. Init => Types /\ Counts
  <2>1. Init => Types
    BY RowsInit DEF RowsInv
  <2>2. Init => Counts
    BY HeaderBounds DEF Init, Counts, MaxRetries
  <2> QED BY <2>1, <2>2
<1>2. (Types /\ Counts) /\ [Next]_vars => (Types /\ Counts)'
  BY TypesStep, CountsStep
<1>3. Types /\ Counts => TypeOK
  <2> SUFFICES ASSUME Types, Counts PROVE TypeOK
    OBVIOUS
  <2>1. \A t \in Tasks : Type(result[t])
    BY DEF Types, Outputs
  <2>2. ASSUME NEW w \in Workers, NEW i \in 1..Len(rows[w])
        PROVE  rows[w][i].status \in {"running", "completed", "failed"} /\ Type(rows[w][i].output)
    <3>1. rows[w][i] \in Row
      BY DEF Types
    <3> QED BY <3>1 DEF Row, Outputs
  <2>3. pc \in [Tasks -> Active \cup {"done", "broken"}] /\ found \in [Tasks -> 0..1]
    BY DEF Types, States, Active
  <2> QED BY <2>1, <2>2, <2>3 DEF Counts, TypeOK
<1> QED BY <1>1, <1>2, <1>3, PTL DEF Spec

---------------------------------------------------------------------------
(***************************************************************************)
(* One dispatch: each worker type has one task, so that nobody else        *)
(* touches its rows.                                                       *)
(***************************************************************************)

\* What a task knows of the rows of its worker.
Single(t) ==
    LET R == rows[t[2]] IN
    /\ Len(R) <= 1
    /\ pc[t] \in {"read", "write", "execute", "complete"} =>
          \A i \in 1..Len(R) : R[i].status # "completed"
    /\ pc[t] = "write" => found[t] = Len(R)
    /\ pc[t] \in {"execute", "complete"} => Len(R) = 1
    /\ pc[t] \in {"return", "done"} =>
          Len(R) = 1 /\ R[1].status = "completed" /\ R[1].output = result[t]

\* The chord is unlocked by the last task.
JoinedAreDone ==
    \A d \in Dispatches : report[d].joined => \A w \in Workers : pc[<<d, w>>] = "done"

SingleInv == Types /\ (\A t \in Tasks : Single(t)) /\ JoinedAreDone

\* A single dispatch has one task for each worker type.
LEMMA OneTaskPerWorker ==
    ASSUME Cardinality(Dispatches) = 1, NEW t \in Tasks, NEW u \in Tasks, t[2] = u[2]
    PROVE  t = u
<1>1. PICK d : Dispatches = {d}
  BY HeaderBounds, FS_Singleton
<1> QED BY <1>1 DEF Tasks

\* A step of one task leaves what the others know as it is.
LEMMA OthersKeepRows ==
    ASSUME Cardinality(Dispatches) = 1, SingleInv, Types',
           NEW t \in Tasks, Single(t)',
           \A u \in Tasks \ {t} : /\ pc'[u] = pc[u] /\ found'[u] = found[u]
                                  /\ result'[u] = result[u],
           \A w \in Workers \ {t[2]} : rows'[w] = rows[w],
           pc[t] # "done", UNCHANGED report
    PROVE  SingleInv'
<1>1. ASSUME NEW u \in Tasks, u # t
      PROVE  Single(u)'
  <2>1. u[2] \in Workers \ {t[2]}
    BY <1>1, OneTaskPerWorker DEF Tasks
  <2>2. rows'[u[2]] = rows[u[2]]
    BY <2>1
  <2>3. Single(u)
    BY DEF SingleInv
  <2> QED BY <1>1, <2>2, <2>3 DEF Single
<1>2. JoinedAreDone'
  BY DEF SingleInv, JoinedAreDone, Tasks
<1> QED BY <1>1, <1>2 DEF SingleInv

\* SingleInv is inductive: the rows of a worker only change in steps of its task.
LEMMA SingleStep ==
    ASSUME Cardinality(Dispatches) = 1, SingleInv, [Next]_vars
    PROVE  SingleInv'
<1>1. Types'
  BY TypesStep DEF SingleInv
<1>2. ASSUME NEW t \in Tasks
      PROVE  /\ t[2] \in Workers /\ Single(t) /\ rows[t[2]] \in Seq(Row) /\ rows'[t[2]] \in Seq(Row)
             /\ Len(rows[t[2]]) \in Nat /\ Len(rows'[t[2]]) \in Nat
  <2>1. t[2] \in Workers
    BY DEF Tasks
  <2> QED BY <1>1, <2>1 DEF SingleInv, Types
<1>3. ASSUME NEW t \in Tasks, CheckIdempotent(t)
      PROVE  SingleInv'
  <2>1. /\ pc[t] = "check" /\ UNCHANGED <<found, rows, report>>
        /\ \A u \in Tasks \ {t} : pc'[u] = pc[u] /\ result'[u] = result[u]
    BY <1>3 DEF CheckIdempotent, MoveTo, dbVars, SingleInv, Types
  <2>2. ASSUME pc'[t] = "fail"
        PROVE  Single(t)'
    BY <1>2, <2>1, <2>2 DEF Single
  <2>3. ASSUME pc'[t] = "return",
               NEW i \in CompletedRows(t[2]), result'[t] = rows[t[2]][i].output
        PROVE  Single(t)'
    <3>1. i \in 1..Len(rows[t[2]]) /\ rows[t[2]][i].status = "completed"
      BY <2>3 DEF CompletedRows
    <3>2. Len(rows[t[2]]) <= 1 /\ Len(rows[t[2]]) \in Nat
      BY <1>2 DEF Single
    <3>3. i = 1 /\ Len(rows[t[2]]) = 1
      <4> DEFINE n == Len(rows[t[2]])
      <4>1. n \in Nat /\ n <= 1 /\ i \in 1..n
        BY <3>1, <3>2
      <4> HIDE DEF n
      <4>2. i = 1 /\ n = 1
        BY <4>1
      <4> QED BY <4>2 DEF n
    <3> QED BY <2>1, <2>3, <3>1, <3>3 DEF Single
  <2>4. ASSUME pc'[t] = "read", CompletedRows(t[2]) = {}
        PROVE  Single(t)'
    BY <1>2, <2>1, <2>4 DEF Single, CompletedRows
  <2>5. Single(t)'
    BY <1>3, <2>2, <2>3, <2>4 DEF CheckIdempotent, MoveTo, SingleInv, Types
  <2> QED BY <1>1, <2>1, <2>5, OthersKeepRows
<1>4. ASSUME NEW t \in Tasks, CreateRead(t)
      PROVE  SingleInv'
  <2>1. /\ pc[t] = "read" /\ UNCHANGED <<result, rows, report>>
        /\ \A u \in Tasks \ {t} : pc'[u] = pc[u] /\ found'[u] = found[u]
        /\ pc'[t] = "fail" \/ (pc'[t] = "write" /\ found'[t] = Len(rows[t[2]]))
    BY <1>4 DEF CreateRead, MoveTo, dbVars, SingleInv, Types
  <2>2. Single(t)'
    BY <1>2, <2>1 DEF Single
  <2> QED BY <1>1, <2>1, <2>2, OthersKeepRows
<1>5. ASSUME NEW t \in Tasks, CreateWrite(t)
      PROVE  SingleInv'
  <2>1. /\ pc[t] = "write" /\ pc'[t] = "execute" /\ UNCHANGED <<found, result, report>>
        /\ \A u \in Tasks \ {t} : pc'[u] = pc[u]
        /\ \A w \in Workers \ {t[2]} : rows'[w] = rows[w]
        /\ rows'[t[2]] = IF found[t] = 1 THEN [rows[t[2]] EXCEPT ![1].status = "running"]
                         ELSE Append(rows[t[2]], [status |-> "running", output |-> Nothing])
    BY <1>2, <1>5 DEF CreateWrite, MoveTo, SingleInv, Types
  <2>2. found[t] = Len(rows[t[2]]) /\ found[t] \in {0, 1}
    BY <1>2, <2>1 DEF Single, SingleInv, Types
  <2>3. Len(rows'[t[2]]) = 1 /\ rows'[t[2]][1].status = "running"
    <3> DEFINE R == rows[t[2]]
    <3>1. CASE found[t] = 1
      <4>1. R \in Seq(Row) /\ Len(R) = 1
        BY <1>2, <2>2, <3>1
      <4>2. rows'[t[2]] = [R EXCEPT ![1] = [R[1] EXCEPT !.status = "running"]]
        BY <2>1, <3>1
      <4>3. R[1] \in Row /\ DOMAIN rows'[t[2]] = DOMAIN R
        BY <4>1, <4>2
      <4>4. Len(rows'[t[2]]) = 1
        BY <1>2, <4>1, <4>3
      <4>5. rows'[t[2]][1] = [R[1] EXCEPT !.status = "running"]
        BY <4>1, <4>2
      <4> QED BY <4>3, <4>4, <4>5 DEF Row
    <3>2. CASE found[t] = 0
      <4>1. R \in Seq(Row) /\ Len(R) = 0
        BY <1>2, <2>2, <3>2
      <4>2. rows'[t[2]] = Append(R, [status |-> "running", output |-> Nothing])
        BY <2>1, <3>2
      <4> QED BY <4>1, <4>2
    <3> QED BY <2>2, <3>1, <3>2
  <2>4. \A i \in 1..Len(rows'[t[2]]) : rows'[t[2]][i].status # "completed"
    BY <2>3
  <2>5. Single(t)'
    BY <2>1, <2>3, <2>4 DEF Single
  <2> QED BY <1>1, <2>1, <2>5, OthersKeepRows
<1>6. ASSUME NEW t \in Tasks, Execute(t) \/ SoftTimeLimit(t)
      PROVE  SingleInv'
  <2>1. /\ UNCHANGED <<found, rows, report>>
        /\ \A u \in Tasks \ {t} : pc'[u] = pc[u] /\ result'[u] = result[u]
        /\ \/ pc[t] = "execute" /\ pc'[t] \in {"fail", "complete"}
           \/ pc[t] = "return" /\ pc'[t] = "fail"
    BY <1>6 DEF Execute, SoftTimeLimit, Settle, MoveTo, dbVars, SingleInv, Types
  <2>2. Single(t)'
    BY <1>2, <2>1 DEF Single
  <2> QED BY <1>1, <2>1, <2>2, OthersKeepRows
<1>7. ASSUME NEW t \in Tasks, MarkCompleted(t)
      PROVE  SingleInv'
  <2>1. /\ pc[t] = "complete" /\ pc'[t] = "return" /\ UNCHANGED <<found, result, report>>
        /\ \A u \in Tasks \ {t} : pc'[u] = pc[u]
        /\ \A w \in Workers \ {t[2]} : rows'[w] = rows[w]
        /\ rows'[t[2]] = [i \in DOMAIN rows[t[2]] |-> [status |-> "completed", output |-> result[t]]]
    BY <1>2, <1>7 DEF MarkCompleted, MoveTo, SingleInv, Types
  <2>2. Len(rows[t[2]]) = 1
    BY <1>2, <2>1 DEF Single
  <2>3. Len(rows'[t[2]]) = 1 /\ rows'[t[2]][1] = [status |-> "completed", output |-> result[t]]
    BY <1>2, <2>1, <2>2
  <2>4. Single(t)'
    BY <2>1, <2>3 DEF Single
  <2> QED BY <1>1, <2>1, <2>4, OthersKeepRows
<1>8. ASSUME NEW t \in Tasks, MarkFailed(t)
      PROVE  SingleInv'
  <2>1. /\ pc[t] = "fail" /\ pc'[t] \in {"check", "broken"} /\ UNCHANGED <<found, result, report>>
        /\ \A u \in Tasks \ {t} : pc'[u] = pc[u]
        /\ \A w \in Workers \ {t[2]} : rows'[w] = rows[w]
        /\ DOMAIN rows'[t[2]] = DOMAIN rows[t[2]]
    BY <1>2, <1>8 DEF MarkFailed, Retry, MoveTo, SingleInv, Types
  <2>2. Len(rows'[t[2]]) = Len(rows[t[2]])
    BY <1>2, <2>1
  <2>3. Single(t)'
    BY <1>2, <2>1, <2>2 DEF Single
  <2> QED BY <1>1, <2>1, <2>3, OthersKeepRows
<1>9. ASSUME NEW t \in Tasks, Return(t) \/ TransactionFails(t) \/ WorkerLost(t)
      PROVE  SingleInv'
  <2>1. /\ UNCHANGED <<found, result, rows, report>>
        /\ \A u \in Tasks \ {t} : pc'[u] = pc[u]
        /\ pc[t] # "done"
        /\ \/ pc[t] = "return" /\ pc'[t] = "done"
           \/ pc'[t] \in {"fail", "check", "broken"}
    BY <1>9 DEF Return, TransactionFails, WorkerLost, Active, Retry, MoveTo, dbVars, SingleInv, Types
  <2>2. Single(t)'
    BY <1>2, <2>1 DEF Single
  <2> QED BY <1>1, <2>1, <2>2, OthersKeepRows
<1>10. ASSUME NEW d \in Dispatches, Join(d)
       PROVE  SingleInv'
  <2>1. UNCHANGED <<pc, found, result, rows>>
    BY <1>10 DEF Join, dbVars
  <2>2. \A t \in Tasks : Single(t)'
    BY <2>1 DEF SingleInv, Single
  <2>3. \A e \in Dispatches : e # d => report'[e] = report[e]
    BY <1>10 DEF Join
  <2>4. JoinedAreDone'
    BY <1>10, <2>1, <2>3 DEF Join, SingleInv, JoinedAreDone
  <2> QED BY <1>1, <2>2, <2>4 DEF SingleInv
<1>11. CASE UNCHANGED vars
  BY <1>1, <1>11 DEF vars, dbVars, SingleInv, Single, JoinedAreDone
<1> QED BY <1>3, <1>4, <1>5, <1>6, <1>7, <1>8, <1>9, <1>10, <1>11 DEF Next, Step

\* Initially there are no rows and no task has returned.
LEMMA SingleInit ==
    ASSUME Init
    PROVE  SingleInv
<1>1. Types
  BY RowsInit DEF RowsInv
<1>2. ASSUME NEW t \in Tasks
      PROVE  Single(t)
  <2>1. rows[t[2]] = <<>> /\ pc[t] \in {"check", "broken"}
    BY DEF Init, Entry, Tasks
  <2> QED BY <2>1 DEF Single
<1>3. JoinedAreDone
  BY DEF Init, NotYet, JoinedAreDone
<1> QED BY <1>1, <1>2, <1>3 DEF SingleInv

\* With one dispatch of a run, what the chord hands to cross_check is what the
\* one COMPLETED row of each worker holds, whatever was retried, timed out or
\* delivered again on the way.
THEOREM ReportsAreBacked ==
    ASSUME Cardinality(Dispatches) = 1
    PROVE  Spec => []ReportIsBacked
<1>1. Init => SingleInv
  BY SingleInit
<1>2. SingleInv /\ [Next]_vars => SingleInv'
  BY SingleStep
<1>3. SingleInv => ReportIsBacked
  <2>1. ASSUME SingleInv, NEW d \in Dispatches, report[d].joined, NEW w \in Workers
        PROVE  /\ Len(rows[w]) = 1 /\ rows[w][1].status = "completed"
               /\ rows[w][1].output = result[<<d, w>>]
    <3>1. <<d, w>> \in Tasks /\ pc[<<d, w>>] = "done"
      BY <2>1 DEF SingleInv, JoinedAreDone, Tasks
    <3>2. Single(<<d, w>>)
      BY <2>1, <3>1 DEF SingleInv
    <3> QED BY <3>1, <3>2 DEF Single
  <2> QED BY <2>1 DEF ReportIsBacked
<1> QED BY <1>1, <1>2, <1>3, PTL DEF Spec

---------------------------------------------------------------------------
(***************************************************************************)
(* The counters of the run, for one dispatch.                              *)
(***************************************************************************)
\* The worker types with a COMPLETED row.
Stored == {w \in Workers : CompletedRows(w) # {}}

\* completed_workers lies between the stored results and those plus the failures.
StoredCounted ==
    Cardinality(Stored) <= completed_workers /\ completed_workers <= Cardinality(Stored) + failed_workers

\* Without a fault every retry has been counted by _mark_failed.
RetriesCounted ==
    faults = 0 => \A t \in Tasks :
        /\ retries[t] <= failed_workers
        /\ pc[t] = "broken" =>
              /\ \A i \in 1..Len(rows[t[2]]) : rows[t[2]][i].status = "failed"
              /\ failed_workers >= MaxRetries + 1

CountersInv == SingleInv /\ Counts /\ StoredCounted /\ RetriesCounted

\* There are at most four worker types to count.
LEMMA StoredFinite == IsFiniteSet(Stored) /\ Cardinality(Stored) \in Nat
<1>1. Stored \subseteq {"github_analysis", "pitch_deck", "video_analysis", "web_verification"}
  BY HeaderBounds DEF Stored, WorkerTypes, Range
<1>2. IsFiniteSet({"github_analysis", "pitch_deck", "video_analysis", "web_verification"})
  <2>1. IsFiniteSet({"github_analysis"} \cup {"pitch_deck"} \cup {"video_analysis"} \cup {"web_verification"})
    BY FS_Singleton, FS_Union
  <2> QED BY <2>1
<1> QED BY <1>1, <1>2, FS_Subset, FS_CardinalityType

\* The rows of one worker type change: the others stay stored or not.
LEMMA StoredStep ==
    ASSUME NEW w \in Workers, \A v \in Workers \ {w} : rows'[v] = rows[v]
    PROVE  \/ w \notin Stored /\ w \in Stored' /\ Cardinality(Stored') = Cardinality(Stored) + 1
           \/ (w \in Stored <=> w \in Stored') /\ Stored' = Stored
           \/ w \in Stored /\ w \notin Stored' /\ Cardinality(Stored') = Cardinality(Stored) - 1
<1>1. \A v \in Workers \ {w} : v \in Stored <=> v \in Stored'
  BY DEF Stored, CompletedRows
<1>2. Stored \subseteq Workers /\ Stored' \subseteq Workers
  BY DEF Stored
<1>3. CASE w \notin Stored /\ w \in Stored'
  <2>1. Stored' = Stored \cup {w}
    BY <1>1, <1>2, <1>3
  <2> QED BY <1>3, <2>1, StoredFinite, FS_AddElement
<1>4. CASE w \in Stored /\ w \notin Stored'
  <2>1. Stored' = Stored \ {w}
    BY <1>1, <1>2, <1>4
  <2> QED BY <1>4, <2>1, StoredFinite, FS_RemoveElement
<1>5. CASE w \in Stored <=> w \in Stored'
  <2>1. Stored' = Stored
    BY <1>1, <1>2, <1>5
  <2> QED BY <1>5, <2>1
<1> QED BY <1>3, <1>4, <1>5

\* _mark_completed stores the worker, and nothing but _mark_failed takes it back.
LEMMA StoredCountedStep ==
    ASSUME Cardinality(Dispatches) = 1, CountersInv, [Next]_vars
    PROVE  StoredCounted'
<1>1. /\ Cardinality(Stored) \in Nat /\ completed_workers \in Nat /\ failed_workers \in Nat
      /\ StoredCounted
  BY StoredFinite DEF CountersInv, Counts
<1>2. SingleInv' /\ Types /\ Types'
  BY SingleStep DEF CountersInv, SingleInv
<1>3. ASSUME NEW t \in Tasks
      PROVE  /\ t[2] \in Workers /\ Single(t) /\ Single(t)'
             /\ rows[t[2]] \in Seq(Row) /\ rows'[t[2]] \in Seq(Row)
             /\ pc[t] \in {"read", "write", "execute", "complete"} => t[2] \notin Stored
             /\ pc'[t] = "execute" => t[2] \notin Stored'
             /\ pc'[t] = "return" => t[2] \in Stored'
  <2>1. t[2] \in Workers /\ Single(t) /\ Single(t)'
    BY <1>2 DEF Tasks, CountersInv, SingleInv
  <2>2. rows[t[2]] \in Seq(Row) /\ rows'[t[2]] \in Seq(Row)
    BY <1>2, <2>1 DEF Types
  <2>3. pc'[t] = "return" => 1 \in CompletedRows(t[2])'
    BY <2>1, <2>2 DEF Single, CompletedRows
  <2> QED BY <2>1, <2>2, <2>3 DEF Single, Stored, CompletedRows
<1>4. ASSUME NEW t \in Tasks, MarkCompleted(t)
      PROVE  StoredCounted'
  <2>1. \A w \in Workers \ {t[2]} : rows'[w] = rows[w]
    BY <1>2, <1>4 DEF MarkCompleted, Types
  <2>2. pc[t] = "complete" /\ pc'[t] = "return"
        /\ completed_workers' = completed_workers + 1 /\ failed_workers' = failed_workers
    BY <1>2, <1>4 DEF MarkCompleted, MoveTo, Types
  <2>3. Cardinality(Stored') = Cardinality(Stored) + 1
    BY <1>3, <2>1, <2>2, StoredStep
  <2> QED BY <1>1, <2>2, <2>3 DEF StoredCounted
<1>5. ASSUME NEW t \in Tasks, MarkFailed(t)
      PROVE  StoredCounted'
  <2>1. \A w \in Workers \ {t[2]} : rows'[w] = rows[w]
    BY <1>2, <1>5 DEF MarkFailed, Types
  <2>2. completed_workers' = completed_workers /\ failed_workers' = failed_workers + 1
    BY <1>5 DEF MarkFailed
  <2>3. t[2] \notin Stored'
    <3>1. rows'[t[2]] = [i \in DOMAIN rows[t[2]] |-> [rows[t[2]][i] EXCEPT !.status = "failed"]]
      BY <1>2, <1>3, <1>5 DEF MarkFailed, Types
    <3>2. ASSUME NEW i \in 1..Len(rows'[t[2]])
          PROVE  rows'[t[2]][i].status = "failed"
      <4>1. i \in DOMAIN rows[t[2]]
        BY <1>3, <3>1, <3>2
      <4>2. rows[t[2]][i] \in Row
        BY <1>3, <4>1
      <4> QED BY <3>1, <4>1, <4>2 DEF Row
    <3> QED BY <3>2 DEF Stored, CompletedRows
  <2>4. Cardinality(Stored') = Cardinality(Stored) \/ Cardinality(Stored') = Cardinality(Stored) - 1
    BY <1>3, <2>1, <2>3, StoredStep
  <2> QED BY <1>1, <2>2, <2>4 DEF StoredCounted
<1>6. ASSUME NEW t \in Tasks, CreateWrite(t)
      PROVE  StoredCounted'
  <2>1. \A w \in Workers \ {t[2]} : rows'[w] = rows[w]
    BY <1>2, <1>6 DEF CreateWrite, Types
  <2>2. pc[t] = "write" /\ pc'[t] = "execute"
        /\ UNCHANGED <<completed_workers, failed_workers>>
    BY <1>2, <1>6 DEF CreateWrite, MoveTo, Types
  <2>3. Stored' = Stored
    BY <1>3, <2>1, <2>2, StoredStep
  <2> QED BY <1>1, <2>2, <2>3 DEF StoredCounted
<1>7. ASSUME UNCHANGED <<rows, completed_workers, failed_workers>>
      PROVE  StoredCounted'
  BY <1>1, <1>7 DEF StoredCounted, Stored, CompletedRows
<1>8. ASSUME NEW t \in Tasks,
             CheckIdempotent(t) \/ CreateRead(t) \/ Execute(t) \/ Return(t)
             \/ TransactionFails(t) \/ SoftTimeLimit(t) \/ WorkerLost(t)
      PROVE  UNCHANGED <<rows, completed_workers, failed_workers>>
  BY <1>8 DEF CheckIdempotent, CreateRead, Execute, Return, TransactionFails, SoftTimeLimit,
              WorkerLost, dbVars
<1>9. (\E d \in Dispatches : Join(d)) \/ UNCHANGED vars
      => UNCHANGED <<rows, completed_workers, failed_workers>>
  BY DEF Join, vars, dbVars
<1> QED BY <1>4, <1>5, <1>6, <1>7, <1>8, <1>9 DEF Next, Step

\* Without a fault only _mark_failed leads to a retry.
LEMMA RetriesCountedStep ==
    ASSUME Cardinality(Dispatches) = 1, CountersInv, [Next]_vars
    PROVE  RetriesCounted'
<1> SUFFICES ASSUME faults' = 0
             PROVE  RetriesCounted'
  BY DEF RetriesCounted
<1>1. /\ Types /\ retries \in [Tasks -> 0..MaxRetries] /\ failed_workers \in Nat /\ faults \in Nat
      /\ MaxRetries \in Nat
  BY DEF CountersInv, SingleInv, Counts, MaxRetries
<1>2. ASSUME NEW t \in Tasks
      PROVE  ~TransactionFails(t) /\ ~SoftTimeLimit(t) /\ ~WorkerLost(t)
  BY <1>1 DEF TransactionFails, SoftTimeLimit, WorkerLost
<1>3. faults = 0
  BY <1>1, <1>2 DEF Next, Step, CheckIdempotent, CreateRead, CreateWrite, Execute, MarkCompleted,
     Return, MarkFailed, Join, vars
<1>4. \A u \in Tasks :
        /\ retries[u] <= failed_workers
        /\ pc[u] = "broken" =>
              /\ \A i \in 1..Len(rows[u[2]]) : rows[u[2]][i].status = "failed"
              /\ failed_workers >= MaxRetries + 1
  BY <1>3 DEF CountersInv, RetriesCounted
<1>5. ASSUME NEW t \in Tasks, NEW x, x # "broken", MoveTo(t, x), UNCHANGED <<retries, failed_workers>>,
             \A w \in Workers \ {t[2]} : rows'[w] = rows[w]
      PROVE  RetriesCounted'
  <2>1. ASSUME NEW u \in Tasks, pc'[u] = "broken"
        PROVE  pc[u] = "broken" /\ rows'[u[2]] = rows[u[2]]
    <3>1. u # t /\ pc[u] = "broken"
      BY <1>1, <1>5, <2>1 DEF MoveTo, Types
    <3>2. u[2] \in Workers \ {t[2]}
      BY <3>1, OneTaskPerWorker DEF Tasks
    <3> QED BY <1>5, <3>1, <3>2
  <2>2. ASSUME NEW u \in Tasks
        PROVE  /\ retries'[u] <= failed_workers'
               /\ pc'[u] = "broken" =>
                     /\ \A i \in 1..Len(rows'[u[2]]) : rows'[u[2]][i].status = "failed"
                     /\ failed_workers' >= MaxRetries + 1
    BY <1>4, <1>5, <2>1
  <2> QED BY <2>2 DEF RetriesCounted
<1>6. ASSUME NEW t \in Tasks, MarkFailed(t)
      PROVE  RetriesCounted'
  <2>1. t[2] \in Workers /\ rows[t[2]] \in Seq(Row) /\ failed_workers' = failed_workers + 1
    BY <1>1, <1>6 DEF MarkFailed, Tasks, Types
  <2>2. rows'[t[2]] = [i \in DOMAIN rows[t[2]] |-> [rows[t[2]][i] EXCEPT !.status = "failed"]]
    BY <1>1, <1>6, <2>1 DEF MarkFailed, Types
  <2>3. rows'[t[2]] \in Seq(Row)
    BY <2>1, TypesStep DEF CountersInv, SingleInv, Types
  <2>4. ASSUME NEW i \in 1..Len(rows'[t[2]])
        PROVE  rows'[t[2]][i].status = "failed"
    <3>1. i \in DOMAIN rows[t[2]]
      BY <2>2, <2>3, <2>4
    <3>2. rows[t[2]][i] \in Row
      BY <2>1, <3>1
    <3> QED BY <2>2, <3>1, <3>2 DEF Row
  <2>5. \A w \in Workers \ {t[2]} : rows'[w] = rows[w]
    BY <1>1, <1>6 DEF MarkFailed, Types
  <2>6. ASSUME NEW u \in Tasks, u # t
        PROVE  /\ retries'[u] <= failed_workers'
               /\ pc'[u] = "broken" =>
                     /\ \A i \in 1..Len(rows'[u[2]]) : rows'[u[2]][i].status = "failed"
                     /\ failed_workers' >= MaxRetries + 1
    <3>1. u[2] \in Workers \ {t[2]}
      BY <2>6, OneTaskPerWorker DEF Tasks
    <3>2. pc'[u] = pc[u] /\ retries'[u] = retries[u] /\ rows'[u[2]] = rows[u[2]]
      BY <1>1, <1>6, <2>5, <2>6, <3>1 DEF MarkFailed, Retry, MoveTo, Types
    <3>3. retries[u] \in Nat
      BY <1>1
    <3> QED BY <1>1, <1>4, <2>1, <3>2, <3>3
  <2>7. /\ retries'[t] <= failed_workers'
        /\ pc'[t] = "broken" => failed_workers' >= MaxRetries + 1
    <3>1. retries[t] \in 0..MaxRetries /\ retries[t] <= failed_workers
      BY <1>1, <1>4
    <3>2. \/ pc'[t] = "check" /\ retries'[t] = retries[t] + 1
          \/ retries'[t] = retries[t] /\ ~(retries[t] < MaxRetries)
      BY <1>1, <1>6 DEF MarkFailed, Retry, MoveTo, Types
    <3> QED BY <1>1, <2>1, <3>1, <3>2
  <2> QED BY <2>4, <2>6, <2>7 DEF RetriesCounted
<1>7. ASSUME NEW t \in Tasks, Step(t), ~MarkFailed(t)
      PROVE  /\ \E x \in States \ {"broken"} : MoveTo(t, x)
             /\ UNCHANGED <<retries, failed_workers>>
             /\ \A w \in Workers \ {t[2]} : rows'[w] = rows[w]
  BY <1>1, <1>7 DEF Step, CheckIdempotent, CreateRead, CreateWrite, Execute, Settle, MarkCompleted,
     Return, States, Types, dbVars
<1>8. ASSUME UNCHANGED <<pc, retries, rows, failed_workers>>
      PROVE  RetriesCounted'
  BY <1>4, <1>8 DEF RetriesCounted
<1>9. (\E d \in Dispatches : Join(d)) \/ UNCHANGED vars
      => UNCHANGED <<pc, retries, rows, failed_workers>>
  BY DEF Join, vars, dbVars
<1> QED BY <1>2, <1>5, <1>6, <1>7, <1>8, <1>9 DEF Next

\* With one dispatch of a run, wired as meant: completed_workers counts every
\* stored result, exceeds them only by failures that failed_workers counts, and
\* without a fault a broken task has failed MaxRetries + 1 times.
THEOREM CountersAreRight ==
    ASSUME Wired, Cardinality(Dispatches) = 1
    PROVE  Spec => []CountersAgree
<1>1. Init => CountersInv
  <2> SUFFICES ASSUME Init PROVE CountersInv
    OBVIOUS
  <2>1. SingleInv /\ Counts
    BY SingleInit, HeaderBounds DEF Init, Counts, MaxRetries
  <2>2. Stored = {}
    BY DEF Init, Stored, CompletedRows
  <2>3. StoredCounted
    BY <2>2, FS_EmptySet DEF Init, StoredCounted
  <2>4. RetriesCounted
    BY DEF Init, Wired, Entry, RetriesCounted
  <2> QED BY <2>1, <2>3, <2>4 DEF CountersInv
<1>2. CountersInv /\ [Next]_vars => CountersInv'
  BY SingleStep, CountsStep, StoredCountedStep, RetriesCountedStep DEF CountersInv
<1>3. CountersInv => CountersAgree
  BY DEF CountersInv, StoredCounted, Stored, RetriesCounted, CountersAgree
<1> QED BY <1>1, <1>2, <1>3, PTL DEF Spec
===========================================================================
