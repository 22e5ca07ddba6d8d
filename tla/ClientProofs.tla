--------------------------- MODULE ClientProofs ---------------------------
(***************************************************************************)
(* Proofs about what clients of the API see: SessionRefresh (the queue of  *)
(* requests behind a refresh is always being served, and access tokens     *)
(* that expire do not end a session), ResultReads (a report that says      *)
(* COMPLETED has what went into the score), RateLimiter (what exceeds the  *)
(* limit are requests that share a timestamp, came out of order or late),  *)
(* LiveView (until something strays, the live page displays its own run    *)
(* and leaves no connection behind) and Listing (rows created during a     *)
(* walk through the pages hide none).                                      *)
(***************************************************************************)
EXTENDS SessionRefresh, ResultReads, RateLimiter, LiveView, Listing, FiniteSetTheorems,
        SequenceTheorems, TLAPS

(***************************************************************************)
(* SessionRefresh                                                          *)
(***************************************************************************)

\* The names of the steps a behaviour of the session takes.
LEMMA SessionSteps ==
    ASSUME SessionNext
    PROVE  \/ \E q \in Calls : \/ Send(q) \/ Served(q) \/ Denied(q) \/ GiveUp(q) \/ Enqueue(q)
                               \/ StartRefresh(q) \/ NoRefreshToken(q) \/ RefreshSucceeds(q)
                               \/ RefreshRefused(q) \/ RefreshLost(q) \/ RefreshErrors(q)
                               \/ EarlierExpires(q)
           \/ AccessExpires \/ RefreshExpires \/ DeactivateUser \/ PageUnloads
BY DEF SessionNext, Answer, Handle

\* SessionTypeOK is preserved: where the store and the queue are replaced as a
\* whole, every request keeps a place.
LEMMA SessionTypes ==
    ASSUME SessionTypeOK, [SessionNext]_sessionVars
    PROVE  SessionTypeOK'
<1> USE DEF SessionTypeOK, CallStates, TokenStates, CarriedStates, Excuses
<1>1. CASE UNCHANGED sessionVars
  BY <1>1 DEF sessionVars
<1>2. ASSUME NEW q \in Calls, Send(q) \/ Served(q) \/ Denied(q) \/ GiveUp(q)
      PROVE  SessionTypeOK'
  BY <1>2 DEF Send, Served, Denied, GiveUp, queueVars, storeVars, serverVars
<1>3. ASSUME NEW q \in Calls, Enqueue(q) \/ StartRefresh(q) \/ EarlierExpires(q)
      PROVE  SessionTypeOK'
  BY <1>3 DEF Enqueue, StartRefresh, MarkRetry, EarlierExpires, queueVars, storeVars, serverVars
<1>4. ASSUME NEW q \in Calls, NoRefreshToken(q)
      PROVE  SessionTypeOK'
  BY <1>4 DEF NoRefreshToken, MarkRetry, Superseded, serverVars
<1>5. ASSUME NEW q \in Calls, RefreshSucceeds(q)
      PROVE  SessionTypeOK'
  BY <1>5 DEF RefreshSucceeds, Resend, Superseded
<1>6. ASSUME NEW q \in Calls, RefreshRefused(q) \/ RefreshLost(q) \/ RefreshErrors(q)
      PROVE  SessionTypeOK'
  BY <1>6 DEF RefreshRefused, RefreshLost, RefreshErrors, RefreshRejected, Superseded
<1>7. CASE AccessExpires \/ RefreshExpires \/ DeactivateUser \/ PageUnloads
  BY <1>7 DEF AccessExpires, RefreshExpires, DeactivateUser, PageUnloads, queueVars,
              storeVars, serverVars
<1> QED BY <1>1, <1>2, <1>3, <1>4, <1>5, <1>6, <1>7, SessionSteps

\* NobodyWaitsForNothing with what makes it inductive: the queue holds exactly
\* the requests that wait, and the converse of its second part.
QueueInv ==
    /\ SessionTypeOK
    /\ NobodyWaitsForNothing
    /\ \A q \in failedQueue : call[q] = "queued"
    /\ \A q \in Calls : call[q] = "refreshing" => isRefreshing

\* No step of a page leaves a request waiting behind a refresh that is over.
LEMMA QueueIsKept ==
    ASSUME QueueInv, [SessionNext]_sessionVars
    PROVE  QueueInv'
<1> USE DEF QueueInv, NobodyWaitsForNothing, SessionTypeOK
<1>0. SessionTypeOK'
  BY SessionTypes
<1>1. CASE UNCHANGED sessionVars
  BY <1>1 DEF sessionVars
<1>2. ASSUME NEW q \in Calls, Send(q) \/ Served(q) \/ Denied(q) \/ GiveUp(q)
      PROVE  QueueInv'
  BY <1>0, <1>2 DEF Send, Served, Denied, GiveUp, queueVars
<1>3. ASSUME NEW q \in Calls, Enqueue(q)
      PROVE  QueueInv'
  BY <1>0, <1>3 DEF Enqueue
<1>4. ASSUME NEW q \in Calls, StartRefresh(q) \/ EarlierExpires(q)
      PROVE  QueueInv'
  BY <1>0, <1>4 DEF StartRefresh, EarlierExpires, queueVars
<1>5. ASSUME NEW q \in Calls, NoRefreshToken(q)
      PROVE  QueueInv'
  BY <1>0, <1>5 DEF NoRefreshToken
<1>6. ASSUME NEW q \in Calls, RefreshSucceeds(q)
      PROVE  QueueInv'
  BY <1>0, <1>6 DEF RefreshSucceeds, Resend
<1>7. ASSUME NEW q \in Calls, RefreshRefused(q) \/ RefreshLost(q) \/ RefreshErrors(q)
      PROVE  QueueInv'
  BY <1>0, <1>7 DEF RefreshRefused, RefreshLost, RefreshErrors, RefreshRejected
<1>8. CASE AccessExpires \/ RefreshExpires \/ DeactivateUser \/ PageUnloads
  BY <1>0, <1>8 DEF AccessExpires, RefreshExpires, DeactivateUser, PageUnloads, queueVars
<1> QED BY <1>1, <1>2, <1>3, <1>4, <1>5, <1>6, <1>7, <1>8, SessionSteps

\* For any number of requests: whoever waits in failedQueue waits for a refresh
\* that is under way, and there is one refresh at a time.
THEOREM QueueIsServed == SessionSpec => [](SessionTypeOK /\ NobodyWaitsForNothing)
<1>1. SessionInit => QueueInv
  BY DEF SessionInit, QueueInv, SessionTypeOK, NobodyWaitsForNothing, CallStates,
         TokenStates, CarriedStates
<1>2. QueueInv /\ [SessionNext]_sessionVars => QueueInv'
  BY QueueIsKept
<1>3. QueueInv => SessionTypeOK /\ NobodyWaitsForNothing
  BY DEF QueueInv
<1> QED BY <1>1, <1>2, <1>3, PTL DEF SessionSpec

\* Until something excuses the end of a session, the tokens and the user are
\* good and the page is where it was.
SessionInv ==
    /\ SessionOutlivesAccessToken
    /\ excuses = {} => refresh = "valid" /\ isActive

\* For any number of requests, and with the repair that auth_service.py:251 needs
\* (AuditAction has no TOKEN_REFRESH; without it every refresh ends the session): the
\* page is sent to /login only after the refresh token expired, the user was
\* deactivated, or a refresh stayed unanswered or was answered by an error.
THEOREM SessionIsKept ==
    ASSUME Audited("TOKEN_REFRESH")
    PROVE  SessionSpec => []SessionOutlivesAccessToken
<1>1. SessionInit => SessionInv
  BY DEF SessionInit, SessionInv, SessionOutlivesAccessToken
<1>2. ASSUME SessionInv, [SessionNext]_sessionVars
      PROVE  SessionInv'
  <2> USE <1>2 DEF SessionInv, SessionOutlivesAccessToken
  <2>1. CASE UNCHANGED sessionVars
    BY <2>1 DEF sessionVars
  <2>2. ASSUME NEW q \in Calls,
               Send(q) \/ Served(q) \/ Denied(q) \/ GiveUp(q) \/ Enqueue(q)
               \/ StartRefresh(q) \/ EarlierExpires(q)
        PROVE  SessionInv'
    BY <2>2 DEF Send, Served, Denied, GiveUp, Enqueue, StartRefresh, EarlierExpires,
                storeVars, serverVars
  <2>3. ASSUME NEW q \in Calls, NoRefreshToken(q)
        PROVE  SessionInv'
    BY <2>3 DEF NoRefreshToken, serverVars
  <2>4. ASSUME NEW q \in Calls, RefreshSucceeds(q)
        PROVE  SessionInv'
    BY <2>4 DEF RefreshSucceeds
  <2>5. ASSUME NEW q \in Calls, RefreshRefused(q)
        PROVE  SessionInv'
    BY <2>5, Audited("TOKEN_REFRESH") DEF RefreshRefused, RefreshRejected, RefreshGranted
  <2>6. ASSUME NEW q \in Calls, RefreshLost(q) \/ RefreshErrors(q)
        PROVE  SessionInv'
    BY <2>6 DEF RefreshLost, RefreshErrors, RefreshRejected
  <2>7. CASE AccessExpires \/ PageUnloads
    BY <2>7 DEF AccessExpires, PageUnloads, storeVars, serverVars
  <2>8. CASE RefreshExpires \/ DeactivateUser
    <3>1. excuses' # {}
      BY <2>8 DEF RefreshExpires, DeactivateUser
    <3> QED BY <3>1
  <2> QED BY <2>1, <2>2, <2>3, <2>4, <2>5, <2>6, <2>7, <2>8, SessionSteps
<1>3. SessionInv => SessionOutlivesAccessToken
  BY DEF SessionInv
<1> QED BY <1>1, <1>2, <1>3, PTL DEF SessionSpec

---------------------------------------------------------------------------
(***************************************************************************)
(* ResultReads                                                             *)
(***************************************************************************)

\* What the pipeline has committed by the time an execution gets to a place, and
\* what it has committed by COMPLETED.
PipelineOrder ==
    /\ \A k \in product.claims : k.by \in product.contradictions
    /\ \A c \in Executions :
          /\ work[c].at # "cross" => product.results = Analyses
          /\ work[c].loaded \subseteq product.claims
          /\ work[c].loaded \ work[c].left \subseteq product.assessed
          /\ work[c].at \in {"judge", "finalize"} => work[c].left = {}
          /\ work[c].at = "finalize" => product.scores
    /\ product.status = "COMPLETED" =>
          /\ product.results = Analyses /\ product.scores
          /\ settled \subseteq product.claims /\ settled \subseteq product.assessed

\* What a reader that saw COMPLETED has read by the time it gets to a place.
ReadsAreFinal(x) ==
    LET got == reader[x].got IN
    reader[x].at # "idle" /\ got.status = "COMPLETED" =>
        /\ product.status = "COMPLETED"
        /\ reader[x].as = "export" /\ reader[x].at # "results" => got.results = Analyses
        /\ reader[x].at \in {"contradictions", "scores", "write", "published"} =>
              /\ reader[x].as = "summary" => settled \subseteq got.claims
              /\ reader[x].as = "export" /\ Cardinality(got.claims) < ExportPage
                     => settled \subseteq got.claims /\ settled \subseteq got.assessed
        /\ reader[x].at \in {"scores", "write", "published"}
              => \A k \in settled : k.by \in got.contradictions
        /\ reader[x].at \in {"write", "published"} => got.scores

ReportsInv ==
    /\ ResultsTypeOK
    /\ PipelineOrder
    /\ \A x \in Readers : ReadsAreFinal(x)

\* The types and the order of commits survive every step of the pipeline.
LEMMA PipelineKeeps ==
    ASSUME ReportsInv,
           \/ \E a \in Analyses : Analyse(a)
           \/ \E c \in Executions : \/ StoreClaims(c) \/ LoadRunClaims(c) \/ AssessOne(c)
                                    \/ AssessedAll(c) \/ StoreRunScores(c) \/ Complete(c)
    PROVE  ResultsTypeOK' /\ PipelineOrder'
<1> USE DEF ReportsInv, ResultsTypeOK
<1>1. ASSUME NEW a \in Analyses, Analyse(a)
      PROVE  ResultsTypeOK' /\ PipelineOrder'
  <2>1. /\ product' = [product EXCEPT !.results = @ \cup {a}] /\ a \notin product.results
        /\ UNCHANGED <<work, settled, reader>>
    BY <1>1 DEF Analyse
  <2>2. product' \in Report
    BY <2>1 DEF Report
  <2> QED BY <2>1, <2>2 DEF PipelineOrder, Report
<1>2. ASSUME NEW c \in Executions, StoreClaims(c)
      PROVE  ResultsTypeOK' /\ PipelineOrder'
  <2> DEFINE new == [by : {c}, number : 1..ClaimCount]
  <2>1. /\ work[c].at = "cross" /\ product.results = Analyses
        /\ work' = [work EXCEPT ![c].at = "load"]
        /\ UNCHANGED <<settled, reader>>
    BY <1>2 DEF StoreClaims
  <2>2. work' \in [Executions -> Work]
    BY <2>1 DEF Work
  <2>3. \A d \in Executions : /\ work'[d].loaded = work[d].loaded /\ work'[d].left = work[d].left
                              /\ work'[d].at = work[d].at \/ work'[d].at = "load"
    BY <2>1 DEF Work
  <2>4. CASE UNCHANGED product
    BY <2>1, <2>2, <2>3, <2>4 DEF PipelineOrder
  <2>5. CASE product' = [product EXCEPT !.claims = @ \cup new, !.contradictions = @ \cup {c}]
    <3>1. new \subseteq Claims /\ \A k \in new : k.by = c
      BY DEF Claims
    <3> HIDE DEF new
    <3>2. /\ product' \in Report
          /\ product'.claims = product.claims \cup new
          /\ product'.contradictions = product.contradictions \cup {c}
          /\ product'.results = product.results /\ product'.assessed = product.assessed
          /\ product'.scores = product.scores /\ product'.status = product.status
      BY <2>5, <3>1 DEF Report
    <3> QED BY <2>1, <2>2, <2>3, <3>1, <3>2 DEF PipelineOrder
  <2> QED BY <1>2, <2>4, <2>5 DEF StoreClaims
<1>3. ASSUME NEW c \in Executions, LoadRunClaims(c)
      PROVE  ResultsTypeOK' /\ PipelineOrder'
  <2>1. /\ work' = [work EXCEPT ![c] = [at |-> "assess", loaded |-> product.claims,
                                        left |-> product.claims]]
        /\ work[c].at = "load"
        /\ UNCHANGED <<product, settled, reader>>
    BY <1>3 DEF LoadRunClaims
  <2>2. work' \in [Executions -> Work]
    BY <2>1 DEF Work, Report
  <2> QED BY <2>1, <2>2 DEF PipelineOrder
<1>4. ASSUME NEW c \in Executions, AssessOne(c)
      PROVE  ResultsTypeOK' /\ PipelineOrder'
  <2>1. PICK k \in work[c].left :
           /\ product' = [product EXCEPT !.assessed = @ \cup {k}]
           /\ work' = [work EXCEPT ![c].left = @ \ {k}]
    BY <1>4 DEF AssessOne
  <2>2. work[c].at = "assess" /\ UNCHANGED <<settled, reader>>
    BY <1>4 DEF AssessOne
  <2>3. /\ product' \in Report /\ work' \in [Executions -> Work]
        /\ product'.assessed = product.assessed \cup {k}
        /\ product'.claims = product.claims /\ product'.results = product.results
        /\ product'.contradictions = product.contradictions
        /\ product'.scores = product.scores /\ product'.status = product.status
    BY <2>1 DEF Report, Work
  <2>4. \A d \in Executions : /\ work'[d].at = work[d].at /\ work'[d].loaded = work[d].loaded
                              /\ work'[d].left = IF d = c THEN work[d].left \ {k} ELSE work[d].left
    BY <2>1 DEF Work
  <2> QED BY <2>2, <2>3, <2>4 DEF PipelineOrder
<1>5. ASSUME NEW c \in Executions, AssessedAll(c)
      PROVE  ResultsTypeOK' /\ PipelineOrder'
  <2>1. /\ work[c].at = "assess" /\ work[c].left = {}
        /\ work' = [work EXCEPT ![c].at = "judge"]
        /\ UNCHANGED <<product, settled, reader>>
    BY <1>5 DEF AssessedAll
  <2>2. work' \in [Executions -> Work]
    BY <2>1 DEF Work
  <2> QED BY <2>1, <2>2 DEF PipelineOrder, Work
<1>6. ASSUME NEW c \in Executions, StoreRunScores(c)
      PROVE  ResultsTypeOK' /\ PipelineOrder'
  <2>1. /\ work[c].at = "judge" /\ product' = [product EXCEPT !.scores = TRUE]
        /\ work' = [work EXCEPT ![c].at = IF product.scores THEN "done" ELSE "finalize"]
        /\ UNCHANGED <<settled, reader>>
    BY <1>6 DEF StoreRunScores
  <2>2. /\ product' \in Report /\ work' \in [Executions -> Work]
        /\ product'.scores = TRUE /\ product'.assessed = product.assessed
        /\ product'.claims = product.claims /\ product'.results = product.results
        /\ product'.contradictions = product.contradictions /\ product'.status = product.status
    BY <2>1 DEF Report, Work
  <2>3. \A d \in Executions : /\ work'[d].loaded = work[d].loaded /\ work'[d].left = work[d].left
                              /\ d # c => work'[d].at = work[d].at
    BY <2>1 DEF Work
  <2> QED BY <2>1, <2>2, <2>3 DEF PipelineOrder
<1>7. ASSUME NEW c \in Executions, Complete(c)
      PROVE  ResultsTypeOK' /\ PipelineOrder'
  <2>1. /\ work[c].at = "finalize" /\ product' = [product EXCEPT !.status = "COMPLETED"]
        /\ work' = [work EXCEPT ![c].at = "done"]
        /\ settled' = work[c].loaded /\ UNCHANGED reader
    BY <1>7 DEF Complete
  <2>2. /\ product' \in Report /\ work' \in [Executions -> Work]
        /\ product'.scores = product.scores /\ product'.assessed = product.assessed
        /\ product'.claims = product.claims /\ product'.results = product.results
        /\ product'.contradictions = product.contradictions
    BY <2>1 DEF Report, Work
  <2>3. \A d \in Executions : /\ work'[d].loaded = work[d].loaded /\ work'[d].left = work[d].left
                              /\ d # c => work'[d].at = work[d].at
                              /\ work'[c].at = "done"
    BY <2>1 DEF Work
  <2>4. settled' \subseteq Claims
    BY <2>1 DEF Work
  <2> QED BY <2>1, <2>2, <2>3, <2>4 DEF PipelineOrder
<1> QED BY <1>1, <1>2, <1>3, <1>4, <1>5, <1>6, <1>7

\* A step of the pipeline takes nothing away from a reader that saw COMPLETED.
LEMMA PipelineStep ==
    ASSUME ReportsInv,
           \/ \E a \in Analyses : Analyse(a)
           \/ \E c \in Executions : \/ StoreClaims(c) \/ LoadRunClaims(c) \/ AssessOne(c)
                                    \/ AssessedAll(c) \/ StoreRunScores(c) \/ Complete(c)
    PROVE  ReportsInv'
<1>1. ResultsTypeOK' /\ PipelineOrder'
  BY PipelineKeeps
<1>2. /\ UNCHANGED reader
      /\ product.status = "COMPLETED" => product'.status = "COMPLETED" /\ settled' = settled
  BY DEF Analyse, StoreClaims, LoadRunClaims, AssessOne, AssessedAll, StoreRunScores, Complete,
         ReportsInv, ResultsTypeOK, Report
<1>3. \A x \in Readers : ReadsAreFinal(x)'
  BY <1>2 DEF ReadsAreFinal, ReportsInv
<1> QED BY <1>1, <1>3 DEF ReportsInv

\* A page that is not full has all claims.
LEMMA PageIsWhole ==
    ASSUME NEW S, NEW P \in Pages(S)
    PROVE  P \subseteq S /\ (Cardinality(P) < ExportPage => P = S)
BY ResultsAssumption DEF Pages

\* A reader that saw COMPLETED reads nothing but final products.
LEMMA ReaderStep ==
    ASSUME ReportsInv, NEW x \in Readers,
           \/ \E as \in Kinds : ReadRun(x, as)
           \/ ReadResults(x) \/ ReadClaims(x) \/ ReadContradictions(x) \/ ReadScores(x)
           \/ Publish(x) \/ ReaderFails(x)
    PROVE  ReportsInv'
<1> USE DEF ReportsInv
<1>1. UNCHANGED pipelineVars
  BY DEF ReadRun, ReadResults, ReadClaims, ReadContradictions, ReadScores, Publish, ReaderFails
<1>2. PipelineOrder' /\ UNCHANGED <<product, work, settled>>
  BY <1>1 DEF PipelineOrder, pipelineVars
<1>3. reader' = [reader EXCEPT ![x] = reader'[x]]
  BY DEF ReadRun, ReadResults, ReadClaims, ReadContradictions, ReadScores, Publish, ReaderFails,
         ResultsTypeOK
<1>4. reader'[x] \in {Asleep} \cup Reading /\ ReadsAreFinal(x)'
  <2> USE <1>2 DEF ResultsTypeOK, ReadsAreFinal
  <2>1. ASSUME NEW as \in Kinds, ReadRun(x, as)
        PROVE  reader'[x] \in {Asleep} \cup Reading /\ ReadsAreFinal(x)'
    <3> DEFINE start == [at |-> IF as = "summary" THEN "claims" ELSE "results", as |-> as,
                         got |-> [Empty EXCEPT !.status = product.status]]
    <3>1. reader'[x] = start
      BY <2>1 DEF ReadRun
    <3>2. start.got \in Report /\ start.got.status = product.status
      BY DEF Empty, Report
    <3>3. start \in Reading
      BY <3>2 DEF Reading, Kinds
    <3>4. /\ start.at \in {"claims", "results"} /\ start.as = as
          /\ as = "export" => start.at = "results"
      OBVIOUS
    <3> HIDE DEF start
    <3>5. /\ reader'[x].at \in {"claims", "results"} /\ reader'[x].got.status = product'.status
          /\ reader'[x].as = "export" => reader'[x].at = "results"
      BY <3>1, <3>2, <3>4
    <3>6. ReadsAreFinal(x)'
      BY <3>5
    <3> QED BY <3>1, <3>3, <3>6
  <2>2. CASE ReadResults(x)
    <3>1. reader[x] \in Reading /\ reader[x].at = "results"
      BY <2>2 DEF ReadResults, Asleep
    <3>2. reader'[x] = [at |-> "claims", as |-> reader[x].as,
                        got |-> [reader[x].got EXCEPT !.results = product.results]]
      BY <2>2, <3>1 DEF ReadResults, Reading
    <3>3. [reader[x].got EXCEPT !.results = product.results] \in Report
      BY <3>1 DEF Reading, Report
    <3>4. reader'[x] \in Reading
      BY <3>1, <3>2, <3>3 DEF Reading
    <3> QED BY <3>1, <3>2, <3>4 DEF Reading, Report, PipelineOrder
  <2>3. CASE ReadClaims(x)
    <3>0. reader[x].at = "claims"
      BY <2>3 DEF ReadClaims
    <3>1. reader[x] \in Reading /\ reader[x].at = "claims"
      BY <3>0 DEF Asleep
    <3>2. product.status = "COMPLETED" =>
              settled \subseteq product.claims /\ settled \subseteq product.assessed
      BY DEF PipelineOrder
    <3>3. CASE reader[x].as = "summary"
      <4> DEFINE got == [reader[x].got EXCEPT !.claims = product.claims]
      <4>1. reader'[x] = [at |-> "contradictions", as |-> "summary", got |-> got]
        BY <2>3, <3>1, <3>3 DEF ReadClaims, Reading, Report
      <4>2. got \in Report /\ got.claims = product.claims /\ got.status = reader[x].got.status
        BY <3>1 DEF Reading, Report
      <4> HIDE DEF got
      <4>3. reader'[x] \in Reading
        BY <4>1, <4>2 DEF Reading, Kinds
      <4> QED BY <3>1, <3>2, <4>1, <4>2, <4>3
    <3>4. CASE reader[x].as = "export"
      <4>1. PICK P \in Pages(product.claims) :
               reader' = [reader EXCEPT ![x].at = "contradictions", ![x].got.claims = P,
                                        ![x].got.assessed = P \cap product.assessed]
        BY <2>3, <3>4 DEF ReadClaims
      <4>2. P \subseteq product.claims /\ (Cardinality(P) < ExportPage => P = product.claims)
        BY PageIsWhole
      <4> DEFINE got == [reader[x].got EXCEPT !.claims = P, !.assessed = P \cap product.assessed]
      <4>3. reader'[x] = [at |-> "contradictions", as |-> "export", got |-> got]
        BY <3>1, <3>4, <4>1 DEF Reading, Report
      <4>4. /\ got \in Report /\ got.claims = P /\ got.assessed = P \cap product.assessed
            /\ got.status = reader[x].got.status /\ got.results = reader[x].got.results
        BY <3>1, <4>2 DEF Reading, Report
      <4> HIDE DEF got
      <4>5. reader'[x] \in Reading
        BY <4>3, <4>4 DEF Reading, Kinds
      <4> QED BY <3>1, <3>2, <3>4, <4>2, <4>3, <4>4, <4>5
    <3> QED BY <3>1, <3>3, <3>4 DEF Reading, Kinds
  <2>4. CASE ReadContradictions(x)
    <3> DEFINE got == [reader[x].got EXCEPT !.contradictions = product.contradictions]
    <3>1. reader[x] \in Reading /\ reader[x].at = "contradictions"
      BY <2>4 DEF ReadContradictions, Asleep
    <3>2. reader'[x] = [at |-> "scores", as |-> reader[x].as, got |-> got]
      BY <2>4, <3>1 DEF ReadContradictions, Reading
    <3>3. got \in Report
      BY <3>1 DEF Reading, Report
    <3>4. reader'[x] \in Reading
      BY <3>1, <3>2, <3>3 DEF Reading
    <3> QED BY <3>1, <3>2, <3>4 DEF Reading, Report, PipelineOrder
  <2>5. CASE ReadScores(x)
    <3> DEFINE got == [reader[x].got EXCEPT !.scores = product.scores]
    <3>1. reader[x] \in Reading /\ reader[x].at = "scores"
      BY <2>5 DEF ReadScores, Asleep
    <3>2. reader'[x] = [at |-> "write", as |-> reader[x].as, got |-> got]
      BY <2>5, <3>1 DEF ReadScores, Reading
    <3>3. got \in Report
      BY <3>1 DEF Reading, Report
    <3>4. reader'[x] \in Reading
      BY <3>1, <3>2, <3>3 DEF Reading
    <3> QED BY <3>1, <3>2, <3>4 DEF Reading, Report, PipelineOrder
  <2>6. CASE Publish(x)
    <3>0. reader[x].at = "write"
      BY <2>6 DEF Publish
    <3>1. reader[x] \in Reading /\ reader[x].at = "write"
      BY <3>0 DEF Asleep
    <3>2. PICK report \in Forms(reader[x].got, reader[x].as) :
             reader' = [reader EXCEPT ![x].at = "published", ![x].got = report]
      BY <2>6 DEF Publish
    <3>3. reader'[x] = [at |-> "published", as |-> reader[x].as, got |-> report]
      BY <3>1, <3>2 DEF Reading
    <3>4. report \in Report /\ (report.status = "COMPLETED" => report = reader[x].got)
      <4>1. report = reader[x].got \/ report = [Empty EXCEPT !.status = "absent",
                                                        !.scores = reader[x].got.scores]
        BY DEF Forms
      <4>2. reader[x].got \in Report
        BY <3>1 DEF Reading
      <4>3. ASSUME NEW b \in BOOLEAN
            PROVE  LET csv == [Empty EXCEPT !.status = "absent", !.scores = b]
                   IN  csv \in Report /\ csv.status # "COMPLETED"
        BY DEF Empty, Report
      <4> QED BY <4>1, <4>2, <4>3 DEF Report
    <3>5. reader'[x] \in Reading
      BY <3>1, <3>3, <3>4 DEF Reading
    <3> QED BY <3>1, <3>3, <3>4, <3>5
  <2>7. CASE ReaderFails(x)
    BY <2>7 DEF ReaderFails, Asleep
  <2> QED BY <2>1, <2>2, <2>3, <2>4, <2>5, <2>6, <2>7
<1>5. ResultsTypeOK'
  BY <1>2, <1>3, <1>4 DEF ResultsTypeOK
<1>6. \A y \in Readers : ReadsAreFinal(y)'
  BY <1>2, <1>3, <1>4 DEF ReadsAreFinal, ResultsTypeOK
<1> QED BY <1>2, <1>5, <1>6

\* For any number of readers, analyses, executions of the chain and claims: an export
\* or a summary that says COMPLETED has the scores and all contradictions and, unless
\* its page of claims is full, all claims that the execution behind COMPLETED assessed.
THEOREM ReportsAreComplete == ResultsSpec => [](ResultsTypeOK /\ CompletedReportsAreComplete)
<1>1. ResultsInit => ReportsInv
  BY ResultsAssumption
     DEF ResultsInit, ReportsInv, ResultsTypeOK, PipelineOrder, ReadsAreFinal,
         Empty, Report, Work, Asleep
<1>2. ASSUME ReportsInv, [ResultsNext]_resultVars
      PROVE  ReportsInv'
  <2>1. CASE UNCHANGED resultVars
    BY <1>2, <2>1 DEF resultVars, ReportsInv, ResultsTypeOK, PipelineOrder, ReadsAreFinal
  <2>2. CASE ResultsNext
    BY <1>2, <2>2, PipelineStep, ReaderStep DEF ResultsNext
  <2> QED BY <1>2, <2>1, <2>2
<1>3. ReportsInv => ResultsTypeOK /\ CompletedReportsAreComplete
  BY DEF ReportsInv, ReadsAreFinal, CompletedReportsAreComplete, HasEverything
<1> QED BY <1>1, <1>2, <1>3, PTL DEF ResultsSpec

---------------------------------------------------------------------------
(***************************************************************************)
(* RateLimiter                                                             *)
(***************************************************************************)

\* The timestamps in flight have passed, and the key outlives the window of the
\* latest transaction.
ClockInv ==
    /\ RateTypeOK
    /\ \A q \in Callers : stamp[q] # NoStamp => stamp[q].now <= clock
    /\ newest <= clock
    /\ entries # {} \/ admitted # {} => newest + Window + 1 <= ttl

\* The requests the limiter's count can rely on.
Counted == admitted \ unseen
CountedIn(t) == {q \in Counted : stamp[q].now <= t /\ stamp[q].now + Window > t}

\* A timestamp is still in the sorted set, or out of the window of every transaction
\* to come that is neither late nor out of order.
Remembered(u) ==
    u \in entries \/ u + Window <= newest \/ u + Window + 1 <= clock

QuotaInv ==
    /\ ClockInv
    /\ \A q \in Counted : stamp[q].now <= newest /\ Remembered(stamp[q].now)
    /\ \A p, q \in Counted : p # q => stamp[p].now # stamp[q].now
    /\ \A t \in Nat : Cardinality(CountedIn(t)) <= Limit

\* The numbers of the limiter, and the timestamps of its requests.
LEMMA RateNumbers ==
    ASSUME ClockInv
    PROVE  /\ clock \in Nat /\ ttl \in Nat /\ newest \in Nat
           /\ Limit \in Nat /\ Window \in Nat /\ Window > 0
           /\ entries \subseteq 0 .. clock
           /\ \A q \in Callers : stamp[q] # NoStamp => stamp[q].now \in Nat
           /\ \A q \in admitted : q \in Callers /\ stamp[q] # NoStamp /\ stamp[q].now \in Nat
<1> USE RateAssumption DEF ClockInv, RateTypeOK
<1>1. \A q \in Callers : stamp[q] # NoStamp => stamp[q].now \in Nat
  BY DEF Stamps
<1> QED BY <1>1

\* Sets of requests are finite, and so are sets of timestamps up to the present.
LEMMA RateSetsAreFinite ==
    ASSUME ClockInv
    PROVE  /\ \A T : T \subseteq Callers => IsFiniteSet(T) /\ Cardinality(T) \in Nat
           /\ \A T : T \subseteq entries => IsFiniteSet(T) /\ Cardinality(T) \in Nat
<1>1. IsFiniteSet(0 .. clock)
  BY RateNumbers, FS_Interval
<1>2. \A T : T \subseteq entries => IsFiniteSet(T)
  BY <1>1, RateNumbers, FS_Subset
<1>3. \A T : T \subseteq Callers => IsFiniteSet(T)
  BY RateAssumption, FS_Subset
<1> QED BY <1>2, <1>3, FS_CardinalityType

\* A transaction that is prompt and in order finds every counted request of a
\* window that it belongs to, and each has a timestamp of its own.
LEMMA CountedFit ==
    ASSUME QuotaInv, NEW now \in Nat, NEW t \in Nat, newest <= now, clock <= now + 1, now <= t
    PROVE  Cardinality(CountedIn(t)) <= Cardinality(Kept(now))
<1> USE DEF QuotaInv
<1> DEFINE f == [q \in CountedIn(t) |-> stamp[q].now]
<1>1. CountedIn(t) \subseteq Callers /\ Kept(now) \subseteq entries
  BY RateNumbers DEF CountedIn, Counted, Kept
<1>2. ASSUME NEW q \in CountedIn(t)
      PROVE  stamp[q].now \in Kept(now)
  <2>1. q \in Counted /\ stamp[q].now + Window > t /\ stamp[q].now \in Nat
    BY RateNumbers DEF CountedIn, Counted
  <2>2. Remembered(stamp[q].now)
    BY <2>1
  <2>3. stamp[q].now + Window > now /\ stamp[q].now + Window > newest
        /\ stamp[q].now + Window + 1 > clock
    BY <2>1, RateNumbers
  <2>4. stamp[q].now \in entries
    BY <2>1, <2>2, <2>3, RateNumbers DEF Remembered
  <2> QED BY <2>3, <2>4 DEF Kept
<1>3. f \in [CountedIn(t) -> Kept(now)]
  BY <1>2
<1>4. \A p, q \in CountedIn(t) : p # q => f[p] # f[q]
  BY DEF CountedIn
<1>5. /\ IsFiniteSet(CountedIn(t)) /\ Cardinality(CountedIn(t)) \in Nat
      /\ IsFiniteSet(Kept(now)) /\ Cardinality(Kept(now)) \in Nat
  BY <1>1, RateSetsAreFinite
<1> HIDE DEF f
<1>6. ~(Cardinality(Kept(now)) < Cardinality(CountedIn(t)))
  BY <1>3, <1>4, <1>5, FS_PigeonHole
<1> QED BY <1>5, <1>6

\* What both outcomes of a transaction do to the clock and the sorted set.
LEMMA RecordedStep ==
    ASSUME ClockInv, NEW q \in Callers, Unanswered(q), Recorded(q),
           stamp' \in [Callers -> Stamps \cup {NoStamp}],
           \A p \in Callers : stamp'[p] = stamp[p] \/ (p = q /\ stamp'[p] = NoStamp),
           unseen' \subseteq admitted', admitted' \subseteq admitted \cup {q},
           \A p \in admitted' : stamp'[p] = stamp[p]
    PROVE  /\ ClockInv'
           /\ \A u \in Nat : Remembered(u) \/ u = stamp[q].now => Remembered(u)'
           /\ newest <= newest' /\ stamp[q].now <= newest'
<1> DEFINE now == stamp[q].now
<1>1. now \in Nat /\ now <= clock
  BY RateNumbers DEF Unanswered, ClockInv
<1>2. /\ clock' = clock /\ ttl' = clock + Window + 1
      /\ newest' = (IF now > newest THEN now ELSE newest)
      /\ entries' = Kept(now) \cup {now}
  BY DEF Recorded
<1>3. newest <= clock /\ Kept(now) \subseteq entries
  BY DEF ClockInv, Kept
<1>4. /\ \A u \in Nat : Remembered(u) \/ u = now => Remembered(u)'
      /\ newest <= newest' /\ now <= newest'
  <2> HIDE DEF now
  <2>1. \A u \in Nat : u = now => Remembered(u)'
    BY <1>2 DEF Remembered
  <2>2. newest <= newest' /\ now <= newest'
    BY <1>1, <1>2, RateNumbers
  <2>3. ASSUME NEW u \in Nat, Remembered(u)
        PROVE  Remembered(u)'
    BY <1>1, <1>2, <2>2, <2>3, RateNumbers DEF Remembered, Kept
  <2> QED BY <2>1, <2>2, <2>3
<1>5. RateTypeOK'
  <2>1. clock' \in Nat /\ ttl' \in Nat /\ newest' \in Nat
    BY <1>1, <1>2, RateNumbers
  <2>2. entries' \subseteq 0 .. clock'
    BY <1>1, <1>2, <1>3, RateNumbers
  <2>3. admitted' \subseteq Callers /\ \A p \in admitted' : stamp'[p] # NoStamp
    BY RateNumbers DEF Unanswered, ClockInv, RateTypeOK
  <2> QED BY <2>1, <2>2, <2>3 DEF RateTypeOK
<1>6. (\A p \in Callers : stamp[p] # NoStamp => stamp[p].now <= clock)'
  BY <1>2 DEF ClockInv
<1>7. newest' <= clock' /\ newest' + Window + 1 <= ttl'
  BY <1>1, <1>2, <1>3, RateNumbers
<1> QED BY <1>4, <1>5, <1>6, <1>7 DEF ClockInv

\* A request whose stamp and admission do not change stays counted as it was.
LEMMA CountsStay ==
    ASSUME QuotaInv, ClockInv', UNCHANGED <<admitted, unseen>>,
           \A p \in admitted : stamp'[p] = stamp[p],
           \A u \in Nat : u <= newest /\ Remembered(u) => Remembered(u)',
           newest <= newest'
    PROVE  QuotaInv'
<1> USE DEF QuotaInv
<1>1. Counted' = Counted /\ \A p \in Counted : p \in admitted /\ stamp'[p] = stamp[p]
  BY DEF Counted
<1>2. \A t : CountedIn(t)' = CountedIn(t)
  BY <1>1 DEF CountedIn
<1>3. ASSUME NEW q \in Counted'
      PROVE  (stamp[q].now <= newest /\ Remembered(stamp[q].now))'
  <2>1. q \in Counted /\ stamp'[q] = stamp[q]
    BY <1>1
  <2>2. stamp[q].now \in Nat /\ stamp[q].now <= newest /\ Remembered(stamp[q].now)
    BY <2>1, RateNumbers DEF Counted
  <2>3. PICK u \in Nat : u = stamp[q].now
    BY <2>2
  <2>4. u <= newest /\ Remembered(u) /\ u = stamp'[q].now
    BY <2>1, <2>2, <2>3
  <2>5. Remembered(u)'
    BY <2>4
  <2>6. newest' \in Nat /\ newest \in Nat
    BY RateNumbers DEF ClockInv, RateTypeOK
  <2>7. u <= newest'
    BY <2>4, <2>6
  <2> QED BY <2>4, <2>5, <2>7 DEF Remembered
<1>4. (\A q \in Counted : stamp[q].now <= newest /\ Remembered(stamp[q].now))'
  BY <1>3
<1>5. (\A p, q \in Counted : p # q => stamp[p].now # stamp[q].now)'
  BY <1>1
<1>6. (\A t \in Nat : Cardinality(CountedIn(t)) <= Limit)'
  BY <1>2
<1> QED BY <1>4, <1>5, <1>6

\* An admission, counted or not, leaves every window within the limit.
LEMMA AdmitStep ==
    ASSUME QuotaInv, NEW q \in Callers, Admit(q)
    PROVE  QuotaInv'
<1> USE DEF QuotaInv
<1> DEFINE now == stamp[q].now
<1>1. /\ Unanswered(q) /\ Recorded(q) /\ UNCHANGED stamp /\ admitted' = admitted \cup {q}
      /\ unseen' = IF Unreliable(q) THEN unseen \cup {q} ELSE unseen
  BY DEF Admit
<1>2. now \in Nat /\ q \notin admitted /\ unseen \subseteq admitted
  BY <1>1, RateNumbers DEF Unanswered, ClockInv, RateTypeOK
<1>3. /\ ClockInv'
      /\ \A u \in Nat : Remembered(u) \/ u = now => Remembered(u)'
      /\ newest <= newest' /\ now <= newest'
  <2>1. stamp' \in [Callers -> Stamps \cup {NoStamp}]
    BY <1>1 DEF ClockInv, RateTypeOK
  <2>2. unseen' \subseteq admitted'
    BY <1>1, <1>2
  <2> QED BY <1>1, <2>1, <2>2, RecordedStep
<1> HIDE DEF now
<1>4. ASSUME NEW p, p \in Counted \/ p = q
      PROVE  (stamp[p].now <= newest /\ Remembered(stamp[p].now))'
  <2>1. /\ stamp'[p] = stamp[p] /\ stamp[p].now \in Nat
        /\ (stamp[p].now <= newest /\ Remembered(stamp[p].now)) \/ stamp[p].now = now
    BY <1>1, <1>2, <1>4, RateNumbers DEF Counted, now
  <2>2. PICK u \in Nat : u = stamp[p].now
    BY <2>1
  <2>3. Remembered(u)' /\ u = stamp'[p].now
    BY <1>3, <2>1, <2>2
  <2>4. newest \in Nat /\ newest' \in Nat
    BY <1>3 DEF ClockInv, RateTypeOK
  <2>5. u <= newest'
    BY <1>2, <1>3, <2>1, <2>2, <2>4
  <2> QED BY <2>3, <2>5 DEF Remembered
<1>5. CASE Unreliable(q)
  <2>1. Counted' = Counted
    BY <1>1, <1>2, <1>5 DEF Counted
  <2>2. \A t : CountedIn(t)' = CountedIn(t)
    BY <1>1, <2>1 DEF CountedIn
  <2>3. (\A p \in Counted : stamp[p].now <= newest /\ Remembered(stamp[p].now))'
    BY <1>4, <2>1
  <2>4. (\A p, r \in Counted : p # r => stamp[p].now # stamp[r].now)'
    BY <1>1, <2>1
  <2>5. (\A t \in Nat : Cardinality(CountedIn(t)) <= Limit)'
    BY <2>2
  <2> QED BY <1>3, <2>3, <2>4, <2>5
<1>6. CASE ~Unreliable(q)
  <2>1. Counted' = Counted \cup {q} /\ q \notin Counted
    BY <1>1, <1>2, <1>6 DEF Counted
  <2>2. now \notin entries /\ newest <= now /\ clock <= now + 1
    BY <1>2, <1>6, RateNumbers DEF Unreliable, now
  <2>3. \A p \in Counted : stamp[p].now # now
    <3> SUFFICES ASSUME NEW p \in Counted, stamp[p].now = now
                 PROVE  FALSE
      OBVIOUS
    <3>1. Remembered(now)
      OBVIOUS
    <3> QED BY <1>2, <2>2, <3>1, RateNumbers DEF Remembered
  <2>4. \A p, r \in Counted' : p # r => stamp'[p].now # stamp'[r].now
    BY <1>1, <2>1, <2>3 DEF now
  <2>5. (\A p \in Counted : stamp[p].now <= newest /\ Remembered(stamp[p].now))'
    BY <1>4, <2>1
  <2>6. ASSUME NEW t \in Nat
        PROVE  Cardinality(CountedIn(t)') <= Limit
    <3>1. CASE now <= t /\ now + Window > t
      <4>1. CountedIn(t)' = CountedIn(t) \cup {q}
        BY <1>1, <2>1, <3>1 DEF CountedIn, now
      <4>2. CountedIn(t) \subseteq Callers /\ q \notin CountedIn(t)
        BY <2>1, RateNumbers DEF CountedIn, Counted
      <4>3. IsFiniteSet(CountedIn(t)) /\ Cardinality(CountedIn(t)) \in Nat
        BY <4>2, RateSetsAreFinite
      <4>4. Cardinality(CountedIn(t)) <= Cardinality(Kept(now))
        BY <1>2, <2>2, <3>1, CountedFit
      <4>5. Kept(now) \subseteq entries
        BY DEF Kept
      <4>6. Cardinality(Kept(now)) \in Nat /\ ~(Cardinality(Kept(now)) >= Limit)
        BY <4>5, RateSetsAreFinite DEF Admit, OverLimit, now
      <4>7. Cardinality(CountedIn(t) \cup {q}) = Cardinality(CountedIn(t)) + 1
        BY <4>2, <4>3, FS_AddElement
      <4> QED BY <4>1, <4>3, <4>4, <4>6, <4>7, RateNumbers
    <3>2. CASE ~(now <= t /\ now + Window > t)
      <4>1. CountedIn(t)' = CountedIn(t)
        BY <1>1, <2>1, <3>2 DEF CountedIn, now
      <4> QED BY <4>1
    <3> QED BY <3>1, <3>2
  <2>7. (\A t \in Nat : Cardinality(CountedIn(t)) <= Limit)'
    BY <2>6
  <2> QED BY <1>3, <2>4, <2>5, <2>7
<1> QED BY <1>5, <1>6

\* Every step keeps the quota and what it rests on.
LEMMA QuotaStep ==
    ASSUME QuotaInv, [RateNext]_rateVars
    PROVE  QuotaInv'
<1> USE DEF QuotaInv
<1>1. CASE UNCHANGED rateVars
  BY <1>1 DEF rateVars, ClockInv, RateTypeOK, Remembered, Counted, CountedIn
<1>2. CASE Tick
  <2>1. /\ clock' = clock + 1 /\ entries' \subseteq entries
        /\ (clock + 1 < ttl => entries' = entries)
        /\ UNCHANGED <<stamp, ttl, newest, admitted, unseen>>
    BY <1>2, RateNumbers DEF Tick
  <2>2. ClockInv'
    <3>1. 0 .. clock \subseteq 0 .. clock'
      BY <2>1, RateNumbers
    <3>2. RateTypeOK'
      BY <2>1, <3>1 DEF ClockInv, RateTypeOK
    <3>3. (\A q \in Callers : stamp[q] # NoStamp => stamp[q].now <= clock)'
      <4> SUFFICES ASSUME NEW q \in Callers, stamp[q] # NoStamp
                   PROVE  stamp[q].now <= clock + 1
        BY <2>1
      <4>1. stamp[q].now \in Nat /\ stamp[q].now <= clock
        BY RateNumbers DEF ClockInv
      <4> QED BY <4>1, RateNumbers
    <3>4. newest' <= clock'
      BY <2>1, RateNumbers DEF ClockInv
    <3>5. (entries # {} \/ admitted # {} => newest + Window + 1 <= ttl)'
      BY <2>1 DEF ClockInv
    <3> QED BY <3>2, <3>3, <3>4, <3>5 DEF ClockInv
  <2>3. ASSUME NEW u \in Nat, u <= newest, Remembered(u)
        PROVE  Remembered(u)'
    <3>1. entries # {} => newest + Window + 1 <= ttl
      BY DEF ClockInv
    <3> QED BY <2>1, <2>3, <3>1, RateNumbers DEF Remembered
  <2> QED BY <2>1, <2>2, <2>3, RateNumbers, CountsStay
<1>3. ASSUME NEW q \in Callers, TakeStamp(q)
      PROVE  QuotaInv'
  <2>1. /\ stamp[q] = NoStamp /\ stamp' = [stamp EXCEPT ![q] = [now |-> clock]]
        /\ UNCHANGED <<clock, entries, ttl, newest, admitted, unseen>>
    BY <1>3 DEF TakeStamp
  <2>2. q \notin admitted /\ \A p \in admitted : stamp'[p] = stamp[p]
    BY <2>1 DEF ClockInv, RateTypeOK
  <2>3. ClockInv'
    BY <2>1, <2>2 DEF ClockInv, RateTypeOK, Stamps
  <2>4. \A u \in Nat : Remembered(u) => Remembered(u)'
    BY <2>1 DEF Remembered
  <2> QED BY <2>1, <2>2, <2>3, <2>4, RateNumbers, CountsStay
<1>4. ASSUME NEW q \in Callers, Refuse(q)
      PROVE  QuotaInv'
  <2>1. /\ Unanswered(q) /\ Recorded(q) /\ stamp' = [stamp EXCEPT ![q] = NoStamp]
        /\ UNCHANGED <<admitted, unseen>>
    BY <1>4 DEF Refuse
  <2>2. \A p \in admitted : stamp'[p] = stamp[p]
    BY <2>1 DEF Unanswered, ClockInv, RateTypeOK
  <2>3. /\ stamp' \in [Callers -> Stamps \cup {NoStamp}]
        /\ \A p \in Callers : stamp'[p] = stamp[p] \/ (p = q /\ stamp'[p] = NoStamp)
        /\ unseen' \subseteq admitted'
    BY <2>1 DEF ClockInv, RateTypeOK
  <2>4. /\ ClockInv' /\ newest <= newest'
        /\ \A u \in Nat : Remembered(u) => Remembered(u)'
    BY <2>1, <2>2, <2>3, RecordedStep
  <2> QED BY <2>1, <2>2, <2>4, CountsStay
<1>5. ASSUME NEW q \in Callers, RedisFails(q)
      PROVE  QuotaInv'
  <2>1. /\ q \notin admitted /\ stamp' = [stamp EXCEPT ![q] = NoStamp]
        /\ UNCHANGED <<clock, entries, ttl, newest, admitted, unseen>>
    BY <1>5 DEF RedisFails, Unanswered
  <2>2. \A p \in admitted : stamp'[p] = stamp[p]
    BY <2>1 DEF ClockInv, RateTypeOK
  <2>3. ClockInv'
    BY <2>1, <2>2 DEF ClockInv, RateTypeOK
  <2>4. \A u \in Nat : Remembered(u) => Remembered(u)'
    BY <2>1 DEF Remembered
  <2> QED BY <2>1, <2>2, <2>3, <2>4, RateNumbers, CountsStay
<1> QED BY <1>1, <1>2, <1>3, <1>4, <1>5, AdmitStep DEF RateNext

\* A window holds the requests that were counted and those that were not.
LEMMA CountedAndUnseen ==
    ASSUME QuotaInv
    PROVE  ExcessIsUnseen
<1> USE DEF QuotaInv
<1> SUFFICES ASSUME NEW q \in admitted
             PROVE  Cardinality(InWindow(stamp[q].now))
                        <= Limit + Cardinality(InWindow(stamp[q].now) \cap unseen)
  BY DEF ExcessIsUnseen
<1> DEFINE t == stamp[q].now
           A == CountedIn(t)
           B == InWindow(t) \cap unseen
<1>1. t \in Nat
  BY RateNumbers
<1>2. InWindow(t) = A \cup B /\ A \cap B = {}
  BY DEF InWindow, CountedIn, Counted
<1>3. A \subseteq Callers /\ B \subseteq Callers
  BY RateNumbers DEF InWindow, CountedIn, Counted
<1>4. /\ IsFiniteSet(A) /\ Cardinality(A) \in Nat
      /\ IsFiniteSet(B) /\ Cardinality(B) \in Nat
  BY <1>3, RateSetsAreFinite
<1>5. Cardinality(A) <= Limit
  BY <1>1
<1> HIDE DEF A, B, t
<1>6. Cardinality(A \cup B) = Cardinality(A) + Cardinality(B)
  <2>1. Cardinality(A \cup B) = Cardinality(A) + Cardinality(B) - Cardinality(A \cap B)
    BY <1>4, FS_Union
  <2>2. Cardinality(A \cap B) = 0
    BY <1>2, FS_EmptySet
  <2> HIDE DEF A, B
  <2> QED BY <1>4, <2>1, <2>2
<1>7. Cardinality(InWindow(t)) <= Limit + Cardinality(B)
  BY <1>2, <1>4, <1>5, <1>6, RateNumbers
<1> QED BY <1>7 DEF B, t

\* For any number of requests, any limit, window and length of time: the requests
\* admitted in a window are no more than the limit and those of them that shared a
\* timestamp, came out of order or late.
THEOREM QuotaIsKept == RateSpec => [](RateTypeOK /\ ExcessIsUnseen)
<1>1. ASSUME RateInit
      PROVE  QuotaInv
  <2>1. RateTypeOK
    BY <1>1 DEF RateInit, RateTypeOK
  <2>2. /\ entries = {} /\ admitted = {} /\ newest <= clock
        /\ \A q \in Callers : stamp[q] = NoStamp
    BY <1>1 DEF RateInit
  <2>3. Counted = {} /\ \A t \in Nat : CountedIn(t) = {}
    BY <2>2 DEF Counted, CountedIn
  <2>4. \A t \in Nat : Cardinality(CountedIn(t)) <= Limit
    BY <2>3, FS_EmptySet, RateAssumption
  <2> QED BY <2>1, <2>2, <2>3, <2>4 DEF QuotaInv, ClockInv
<1>2. QuotaInv /\ [RateNext]_rateVars => QuotaInv'
  BY QuotaStep
<1>3. QuotaInv => RateTypeOK /\ ExcessIsUnseen
  BY CountedAndUnseen DEF QuotaInv, ClockInv
<1> QED BY <1>1, <1>2, <1>3, PTL DEF RateSpec

---------------------------------------------------------------------------
(***************************************************************************)
(* LiveView                                                                *)
(***************************************************************************)

\* A socket that the effect in force has opened.
Own(s) == sockets[s] # Unused /\ s \notin earlier

\* A socket carries messages about its run only.
Carries(s) ==
    /\ sockets[s] = Unused => inFlight[s] = <<>>
    /\ \A i \in 1 .. Len(inFlight[s]) : inFlight[s][i].about = sockets[s].run

\* What always holds of sockets, timers and messages on their way.
Wiring ==
    /\ \A s \in timers : sockets[s].at = "closed"
    /\ \A s \in earlier : sockets[s] # Unused
    /\ \A s \in Sockets : Carries(s)
    /\ here => mountedRef
    /\ ~here /\ mountedRef => hooked = NoRun

\* What holds until something strays: the effect in force has at most one socket
\* or one reconnection to come, for the run it was started with.
OneConnection ==
    /\ \A s \in Sockets : Own(s) => hooked # NoRun /\ sockets[s].run = hooked
    /\ \A s \in Sockets : IsLive(s) => Own(s) /\ s = wsRef /\ here
    /\ \A s \in Sockets : Own(s) /\ sockets[s].at = "closing" => ~mountedRef
    /\ \A t \in timers : Own(t) =>
        (\A s \in Sockets : ~IsLive(s)) /\ \A u \in timers : Own(u) => u = t

RightRun ==
    /\ data # NoData => data.about = screen /\ hooked = screen
    /\ here /\ hooked = screen => \A w \in LiveWorkers : workers[w] \in {NoRun, screen}

LiveInv == LiveTypeOK /\ Wiring /\ (~strayed => OneConnection /\ RightRun)

\* A socket that has been opened has a place and a run.
LEMMA SocketRows ==
    ASSUME LiveTypeOK, NEW s \in Sockets
    PROVE  /\ sockets[s] = Unused <=> sockets[s].at = "unused"
           /\ sockets[s] # Unused => sockets[s].run \in LiveRuns
<1>1. sockets[s] = Unused \/ sockets[s] \in [at : {"connecting", "open", "closing", "closed"},
                                             run : LiveRuns]
  BY DEF LiveTypeOK, SocketRow
<1> QED BY <1>1 DEF Unused

\* A socket changes its place and nothing else.
LEMMA SocketMoves ==
    ASSUME LiveTypeOK, NEW s \in Sockets, sockets[s] # Unused,
           NEW place \in {"connecting", "open", "closing", "closed"}
    PROVE  /\ Moved(s, place) \in [Sockets -> SocketRow]
           /\ Moved(s, place)[s].at = place
           /\ Moved(s, place)[s].run = sockets[s].run
           /\ Moved(s, place)[s] # Unused
           /\ \A q \in Sockets : q # s => Moved(s, place)[q] = sockets[q]
BY DEF LiveTypeOK, SocketRow, Unused, Moved

\* A new socket.
LEMMA SocketOpens ==
    ASSUME NEW old \in [Sockets -> SocketRow], NEW s \in Sockets, NEW r \in LiveRuns
    PROVE  /\ Connected(old, s, r) \in [Sockets -> SocketRow]
           /\ Connected(old, s, r)[s] = [at |-> "connecting", run |-> r]
           /\ Connected(old, s, r)[s] # Unused
           /\ \A q \in Sockets : q # s => Connected(old, s, r)[q] = old[q]
BY DEF Connected, SocketRow, Unused

\* close() ends the only live socket, if something has not strayed.
LEMMA CloseClosesAll ==
    ASSUME LiveInv
    PROVE  /\ Closed \in [Sockets -> SocketRow]
           /\ \A s \in Sockets :
               /\ Closed[s] = Unused <=> sockets[s] = Unused
               /\ Closed[s].run = sockets[s].run
               /\ Closed[s] = sockets[s] \/ (Closed[s].at = "closing" /\ hooked # NoRun)
               /\ sockets[s].at = "closed" => Closed[s].at = "closed"
               /\ ~strayed => Closed[s].at \notin {"connecting", "open"}
<1>1. CASE wsRef # NoSocket /\ hooked # NoRun /\ IsLive(wsRef)
  <2>1. wsRef \in Sockets /\ sockets[wsRef] # Unused
    BY <1>1 DEF LiveInv, LiveTypeOK, IsLive, Unused
  <2> DEFINE new == Moved(wsRef, "closing")
  <2>2. Closed = new
    BY <1>1 DEF Closed
  <2>3. /\ new \in [Sockets -> SocketRow]
        /\ new[wsRef].at = "closing" /\ new[wsRef].run = sockets[wsRef].run /\ new[wsRef] # Unused
        /\ \A q \in Sockets : q # wsRef => new[q] = sockets[q]
    BY <2>1, SocketMoves DEF LiveInv
  <2>4. ~strayed => \A s \in Sockets : s # wsRef => sockets[s].at \notin {"connecting", "open"}
    BY DEF LiveInv, OneConnection, IsLive
  <2> HIDE DEF new
  <2> QED BY <1>1, <2>1, <2>2, <2>3, <2>4 DEF IsLive
<1>2. CASE ~(wsRef # NoSocket /\ hooked # NoRun /\ IsLive(wsRef))
  <2>1. Closed = sockets
    BY <1>2 DEF Closed
  <2>2. ASSUME ~strayed, NEW s \in Sockets
        PROVE  sockets[s].at \notin {"connecting", "open"}
    BY <1>2, <2>2 DEF LiveInv, OneConnection, Own, IsLive, NoSocket, Sockets
  <2>3. sockets \in [Sockets -> SocketRow]
    BY DEF LiveInv, LiveTypeOK
  <2>4. \A s \in Sockets : ~strayed => sockets[s].at \notin {"connecting", "open"}
    BY <2>2
  <2> QED BY <2>1, <2>3, <2>4
<1> QED BY <1>1, <1>2

\* The end of a socket: it was the only live one of the effect in force, or one
\* that an earlier effect has closed.
LEMMA OnCloseStep ==
    ASSUME LiveInv, NEW s \in Sockets, NEW code \in {1000, 1006}, OnClose(s, code),
           IsLive(s) \/ sockets[s].at = "closing"
    PROVE  LiveInv'
<1>1. sockets[s] # Unused /\ sockets[s].at # "closed"
  BY DEF IsLive, Unused
<1>2. /\ sockets' \in [Sockets -> SocketRow]
      /\ sockets'[s].at = "closed" /\ sockets'[s].run = sockets[s].run /\ sockets'[s] # Unused
      /\ \A q \in Sockets : q # s => sockets'[q] = sockets[q]
  BY <1>1, SocketMoves DEF LiveInv, OnClose
<1>3. /\ inFlight' \in [Sockets -> Seq(Messages)] /\ inFlight'[s] = <<>>
      /\ \A q \in Sockets : q # s => inFlight'[q] = inFlight[q]
  BY DEF LiveInv, LiveTypeOK, OnClose
<1>4. /\ timers' \subseteq timers \cup {s} /\ retriesRef' \in 0 .. ReconnectAttempts
      /\ s \in timers' => mountedRef
  BY <1>1, LiveAssumption DEF LiveInv, LiveTypeOK, Wiring, OnClose
<1>5. UNCHANGED <<here, screen, hooked, earlier, mountedRef, wsRef, data, workers, strayed>>
      /\ joined' \subseteq joined
  BY DEF OnClose, pageVars, viewVars
<1>6. LiveTypeOK'
  BY <1>2, <1>3, <1>4, <1>5 DEF LiveInv, LiveTypeOK
<1>7. Wiring'
  <2>1. Carries(s)'
    BY <1>2, <1>3 DEF Carries
  <2>4. ASSUME NEW q \in Sockets, q # s
        PROVE  Carries(q)'
    <3>1. sockets'[q] = sockets[q] /\ inFlight'[q] = inFlight[q] /\ Carries(q)
      BY <1>2, <1>3, <2>4 DEF LiveInv, Wiring
    <3> QED BY <3>1 DEF Carries
  <2>2. \A t \in timers' : sockets'[t].at = "closed"
    BY <1>2, <1>4 DEF LiveInv, Wiring, LiveTypeOK
  <2>3. \A t \in earlier' : sockets'[t] # Unused
    BY <1>2, <1>5 DEF LiveInv, Wiring, LiveTypeOK
  <2> QED BY <1>5, <2>1, <2>2, <2>3, <2>4 DEF LiveInv, Wiring
<1>8. ASSUME ~strayed
      PROVE  OneConnection'
  <2>1. \A q \in Sockets : (Own(q)' <=> Own(q)) /\ (IsLive(q)' <=> IsLive(q) /\ q # s)
    BY <1>1, <1>2, <1>5 DEF Own, IsLive
  <2>2. IsLive(s) => \A q \in Sockets : ~IsLive(q)'
    BY <1>8, <2>1 DEF LiveInv, OneConnection
  <2>3. sockets[s].at = "closing" => ~Own(s) \/ s \notin timers'
    BY <1>4, <1>8 DEF LiveInv, OneConnection
  <2>4. IsLive(s) => \A t \in timers : ~Own(t)
    BY <1>8 DEF LiveInv, OneConnection
  <2>5. ASSUME NEW q \in Sockets
        PROVE  /\ Own(q)' => hooked' # NoRun /\ sockets'[q].run = hooked'
               /\ IsLive(q)' => Own(q)' /\ q = wsRef' /\ here'
               /\ Own(q)' /\ sockets'[q].at = "closing" => ~mountedRef'
    BY <1>2, <1>5, <1>8, <2>1 DEF LiveInv, OneConnection
  <2>6. ASSUME NEW t \in timers', Own(t)'
        PROVE  (\A q \in Sockets : ~IsLive(q)') /\ \A u \in timers' : Own(u)' => u = t
    <3>1. \A u \in timers' : u \in Sockets /\ (u = s \/ u \in timers)
      BY <1>4 DEF LiveInv, LiveTypeOK
    <3>2. CASE IsLive(s)
      BY <2>1, <2>2, <2>4, <2>6, <3>1, <3>2
    <3>3. CASE sockets[s].at = "closing"
      BY <1>8, <2>1, <2>3, <2>6, <3>1, <3>3 DEF LiveInv, OneConnection
    <3> QED BY <3>2, <3>3
  <2> QED BY <2>5, <2>6 DEF OneConnection
<1>9. ~strayed => RightRun'
  BY <1>5 DEF LiveInv, RightRun
<1> QED BY <1>5, <1>6, <1>7, <1>8, <1>9 DEF LiveInv

\* A reconnection: while nothing has strayed it replaces a socket that is gone.
LEMMA TimerStep ==
    ASSUME LiveInv, NEW t \in Sockets, TimerFires(t)
    PROVE  LiveInv'
<1>1. CASE ~mountedRef
  BY <1>1 DEF TimerFires, pageVars, wireVars, viewVars, LiveInv, LiveTypeOK, Wiring,
              Carries, OneConnection, RightRun, Own, IsLive
<1>2. CASE mountedRef
  <2>1. PICK s \in Sockets : /\ Fresh(s)
                             /\ sockets' = Connected(sockets, s, sockets[t].run)
                             /\ wsRef' = s
                             /\ strayed' = (strayed \/ t \in earlier)
    BY <1>2 DEF TimerFires
  <2>2. sockets[s] = Unused /\ t \in timers /\ sockets[t].at = "closed"
        /\ sockets[t].run \in LiveRuns /\ sockets[t] # Unused
    BY <2>1, SocketRows DEF Fresh, TimerFires, LiveInv, Wiring, Unused
  <2>3. /\ sockets' \in [Sockets -> SocketRow]
        /\ sockets'[s] = [at |-> "connecting", run |-> sockets[t].run] /\ sockets'[s] # Unused
        /\ \A q \in Sockets : q # s => sockets'[q] = sockets[q]
    <3>1. sockets \in [Sockets -> SocketRow]
      BY DEF LiveInv, LiveTypeOK
    <3> QED BY <2>1, <2>2, <3>1, SocketOpens
  <2>4. timers' = timers \ {t}
        /\ UNCHANGED <<here, screen, hooked, earlier, mountedRef, retriesRef, joined, inFlight,
                       data, workers>>
    BY DEF TimerFires, pageVars, wireVars, viewVars
  <2>5. LiveTypeOK'
    BY <2>1, <2>3, <2>4 DEF LiveInv, LiveTypeOK
  <2>6. Wiring'
    <3>1. Carries(s)' /\ \A q \in Sockets : q # s => Carries(q)'
      BY <2>2, <2>3, <2>4 DEF LiveInv, Wiring, Carries
    <3>2. ASSUME NEW u \in timers'
          PROVE  sockets'[u].at = "closed"
      <4>1. u \in Sockets /\ sockets[u].at = "closed"
        BY <2>4, <3>2 DEF LiveInv, Wiring, LiveTypeOK
      <4>2. u # s
        BY <2>2, <4>1 DEF Unused
      <4> QED BY <2>3, <4>1, <4>2
    <3>3. \A u \in earlier' : sockets'[u] # Unused
      BY <2>3, <2>4 DEF LiveInv, Wiring, LiveTypeOK
    <3> QED BY <2>4, <3>1, <3>2, <3>3 DEF LiveInv, Wiring
  <2>7. ASSUME ~strayed'
        PROVE  OneConnection'
    <3>1. ~strayed /\ Own(t) /\ s \notin earlier
      BY <2>1, <2>2, <2>7 DEF Own, LiveInv, Wiring
    <3>2. /\ \A q \in Sockets : ~IsLive(q)
          /\ \A u \in timers' : ~Own(u)
          /\ hooked # NoRun /\ sockets[t].run = hooked
      BY <2>2, <2>4, <3>1 DEF LiveInv, OneConnection
    <3>3. here
      BY <1>2, <3>2 DEF LiveInv, Wiring
    <3>4. \A u \in timers' : ~Own(u)'
      BY <2>2, <2>3, <2>4, <3>2 DEF Own, LiveInv, LiveTypeOK, Wiring, Unused
    <3> QED BY <2>1, <2>3, <2>4, <3>1, <3>2, <3>3, <3>4 DEF OneConnection, LiveInv, Own, IsLive
  <2>8. ~strayed' => RightRun'
    BY <2>1, <2>4 DEF LiveInv, RightRun
  <2> QED BY <2>5, <2>6, <2>7, <2>8 DEF LiveInv
<1> QED BY <1>1, <1>2 DEF LiveInv, LiveTypeOK

\* The effects: what was open is closed and earlier, what opens is the only one.
LEMMA EffectsStep ==
    ASSUME LiveInv, RunEffects
    PROVE  LiveInv'
<1> DEFINE cl == Closed
<1>1. /\ cl \in [Sockets -> SocketRow]
      /\ \A s \in Sockets :
          /\ cl[s] = Unused <=> sockets[s] = Unused
          /\ cl[s].run = sockets[s].run
          /\ sockets[s].at = "closed" => cl[s].at = "closed"
          /\ ~strayed => cl[s].at \notin {"connecting", "open"}
  BY CloseClosesAll
<1>2. /\ here /\ here' = here /\ mountedRef' = TRUE /\ hooked' = screen /\ screen' = screen
      /\ earlier' = {s \in Sockets : sockets[s] # Unused}
      /\ workers' = [w \in LiveWorkers |-> NoRun]
      /\ hooked # screen
      /\ UNCHANGED <<retriesRef, joined, inFlight, timers, data, strayed>>
  BY DEF RunEffects, wireVars
<1>3. \A t \in timers : t \in Sockets /\ sockets[t] # Unused
  BY DEF LiveInv, Wiring, LiveTypeOK, Unused
<1>4. ~strayed => data = NoData
  BY <1>2 DEF LiveInv, RightRun
<1>5. CASE screen = NoRun
  <2>1. sockets' = cl /\ wsRef' \in {wsRef, NoSocket}
    BY <1>5 DEF RunEffects
  <2> HIDE DEF cl
  <2>2. LiveTypeOK'
    BY <1>1, <1>2, <2>1 DEF LiveInv, LiveTypeOK, MaybeRun
  <2>3. Wiring'
    BY <1>1, <1>2, <1>3, <2>1 DEF LiveInv, LiveTypeOK, Wiring, Carries
  <2>4. ~strayed => OneConnection' /\ RightRun'
    BY <1>1, <1>2, <1>3, <1>4, <2>1 DEF OneConnection, RightRun, Own, IsLive
  <2> QED BY <1>2, <2>2, <2>3, <2>4 DEF LiveInv
<1>6. CASE screen # NoRun
  <2>1. PICK s \in Sockets : Fresh(s) /\ sockets' = Connected(cl, s, screen) /\ wsRef' = s
    BY <1>6 DEF RunEffects
  <2>2. screen \in LiveRuns /\ sockets[s] = Unused
    BY <1>6, <2>1 DEF LiveInv, LiveTypeOK, MaybeRun, Fresh
  <2>3. /\ sockets' \in [Sockets -> SocketRow]
        /\ sockets'[s] = [at |-> "connecting", run |-> screen] /\ sockets'[s] # Unused
        /\ \A q \in Sockets : q # s => sockets'[q] = cl[q]
    BY <1>1, <2>1, <2>2, SocketOpens
  <2> HIDE DEF cl
  <2>4. LiveTypeOK'
    BY <1>2, <2>1, <2>3 DEF LiveInv, LiveTypeOK, MaybeRun
  <2>5. Wiring'
    <3>1. Carries(s)' /\ \A q \in Sockets : q # s => Carries(q)'
      BY <1>1, <1>2, <2>2, <2>3 DEF LiveInv, Wiring, Carries
    <3>2. \A u \in timers' : sockets'[u].at = "closed"
      BY <1>1, <1>2, <1>3, <2>2, <2>3 DEF LiveInv, Wiring
    <3>3. \A u \in earlier' : sockets'[u] # Unused
      BY <1>1, <1>2, <2>2, <2>3
    <3> QED BY <1>2, <3>1, <3>2, <3>3 DEF Wiring
  <2>6. ~strayed => OneConnection'
    BY <1>1, <1>2, <1>3, <1>6, <2>1, <2>2, <2>3 DEF OneConnection, Own, IsLive
  <2>7. ~strayed => RightRun'
    BY <1>2, <1>4 DEF RightRun
  <2> QED BY <1>2, <2>4, <2>5, <2>6, <2>7 DEF LiveInv
<1> QED BY <1>5, <1>6

\* Leaving the page: what was open is closed, and no handler acts any more.
LEMMA LeaveStep ==
    ASSUME LiveInv, LeavePage
    PROVE  LiveInv'
<1> DEFINE cl == Closed
<1>1. /\ cl \in [Sockets -> SocketRow]
      /\ \A s \in Sockets :
          /\ cl[s] = Unused <=> sockets[s] = Unused
          /\ cl[s].run = sockets[s].run
          /\ cl[s] = sockets[s] \/ (cl[s].at = "closing" /\ hooked # NoRun)
          /\ sockets[s].at = "closed" => cl[s].at = "closed"
          /\ ~strayed => cl[s].at \notin {"connecting", "open"}
  BY CloseClosesAll
<1>2. /\ here /\ here' = FALSE /\ mountedRef' = (hooked = NoRun)
      /\ sockets' = cl /\ wsRef' \in {wsRef, NoSocket}
      /\ data' = NoData /\ workers' = [w \in LiveWorkers |-> NoRun]
      /\ UNCHANGED <<screen, hooked, earlier, retriesRef, joined, inFlight, timers, strayed>>
  BY DEF LeavePage, wireVars
<1> HIDE DEF cl
<1>3. LiveTypeOK'
  <2>1. mountedRef' \in BOOLEAN
    BY <1>2
  <2> QED BY <1>1, <1>2, <2>1 DEF LiveInv, LiveTypeOK, MaybeRun
<1>4. Wiring'
  BY <1>1, <1>2 DEF LiveInv, LiveTypeOK, Wiring, Carries
<1>5. ASSUME ~strayed
      PROVE  OneConnection'
  <2>1. \A s \in Sockets : (Own(s)' <=> Own(s)) /\ ~IsLive(s)'
    BY <1>1, <1>2, <1>5 DEF Own, IsLive
  <2>2. \A s \in Sockets : Own(s) => hooked # NoRun /\ cl[s].run = hooked
    BY <1>1, <1>5 DEF LiveInv, OneConnection
  <2> QED BY <1>2, <1>3, <1>5, <2>1, <2>2 DEF LiveInv, OneConnection, LiveTypeOK
<1>6. RightRun'
  BY <1>2 DEF RightRun
<1> QED BY <1>2, <1>3, <1>4, <1>5, <1>6 DEF LiveInv

\* The remaining steps move one socket, one message or the page.
LEMMA SmallSteps ==
    ASSUME LiveInv,
           \/ \E r \in LiveRuns, w \in LiveWorkers : PublishProgress(r, w)
           \/ \E s \in Sockets : Subscribe(s) \/ Opened(s) \/ OnMessage(s)
           \/ \E r \in MaybeRun : Navigate(r)
           \/ TakeData
    PROVE  LiveInv'
<1>1. ASSUME NEW r \in LiveRuns, NEW w \in LiveWorkers, PublishProgress(r, w)
      PROVE  LiveInv'
  <2> DEFINE msg == [worker |-> w, about |-> r]
  <2>1. msg \in Messages /\ msg.about = r
    BY DEF Messages
  <2>2. \A s \in Sockets : \/ inFlight'[s] = inFlight[s]
                           \/ /\ inFlight'[s] = Append(inFlight[s], msg)
                              /\ sockets[s].run = r /\ sockets[s].at = "open"
    BY <1>1 DEF PublishProgress, Reached
  <2>3. UNCHANGED <<here, screen, hooked, earlier, mountedRef, wsRef, retriesRef, sockets,
                    joined, timers, data, workers, strayed>>
    BY <1>1 DEF PublishProgress, pageVars, viewVars
  <2> HIDE DEF msg
  <2>4. ASSUME NEW s \in Sockets
        PROVE  inFlight'[s] \in Seq(Messages) /\ Carries(s)'
    <3>1. inFlight[s] \in Seq(Messages) /\ Carries(s)
      BY DEF LiveInv, LiveTypeOK, Wiring
    <3>2. CASE inFlight'[s] = inFlight[s]
      BY <2>3, <3>1, <3>2 DEF Carries
    <3>3. CASE inFlight'[s] = Append(inFlight[s], msg) /\ sockets[s].run = r
               /\ sockets[s].at = "open"
      <4>1. sockets'[s] # Unused
        BY <2>3, <3>3 DEF Unused
      <4>2. /\ inFlight'[s] \in Seq(Messages)
            /\ Len(inFlight'[s]) = Len(inFlight[s]) + 1
            /\ inFlight'[s][Len(inFlight[s]) + 1] = msg
            /\ \A i \in 1 .. Len(inFlight[s]) : inFlight'[s][i] = inFlight[s][i]
        BY <2>1, <3>1, <3>3, AppendProperties
      <4>3. Len(inFlight[s]) \in Nat
        BY <3>1, LenProperties
      <4>4. ASSUME NEW i \in 1 .. Len(inFlight'[s])
            PROVE  inFlight'[s][i].about = sockets'[s].run
        <5>1. i \in 1 .. Len(inFlight[s]) \/ i = Len(inFlight[s]) + 1
          BY <4>2, <4>3
        <5> QED BY <2>1, <2>3, <3>1, <3>3, <4>2, <5>1 DEF Carries
      <4> QED BY <4>1, <4>2, <4>4 DEF Carries
    <3> QED BY <2>2, <3>2, <3>3
  <2>5. inFlight' \in [Sockets -> Seq(Messages)]
    BY <1>1, <2>4 DEF PublishProgress
  <2> QED BY <2>3, <2>4, <2>5
          DEF LiveInv, LiveTypeOK, Wiring, OneConnection, RightRun, Own, IsLive
<1>2. ASSUME NEW s \in Sockets, Subscribe(s)
      PROVE  LiveInv'
  BY <1>2 DEF Subscribe, pageVars, viewVars, LiveInv, LiveTypeOK, Wiring, Carries,
              OneConnection, RightRun, Own, IsLive
<1>3. ASSUME NEW s \in Sockets, Opened(s)
      PROVE  LiveInv'
  <2>1. sockets[s].at = "connecting" /\ sockets[s] # Unused
    BY <1>3 DEF Opened, Unused
  <2>2. /\ sockets' \in [Sockets -> SocketRow]
        /\ sockets'[s].at = "open" /\ sockets'[s].run = sockets[s].run /\ sockets'[s] # Unused
        /\ \A q \in Sockets : q # s => sockets'[q] = sockets[q]
    BY <1>3, <2>1, SocketMoves DEF LiveInv, Opened
  <2>3. /\ retriesRef' \in {0, retriesRef}
        /\ UNCHANGED <<here, screen, hooked, earlier, mountedRef, wsRef, joined, inFlight,
                       timers, data, workers, strayed>>
    BY <1>3 DEF Opened, pageVars, viewVars, wireVars
  <2>4. LiveTypeOK'
    BY <2>2, <2>3, LiveAssumption DEF LiveInv, LiveTypeOK
  <2>5. \A q \in Sockets : /\ sockets'[q].run = sockets[q].run
                           /\ sockets'[q] = Unused <=> sockets[q] = Unused
                           /\ IsLive(q)' <=> IsLive(q)
                           /\ q # s => sockets'[q].at = sockets[q].at
    BY <2>1, <2>2 DEF IsLive
  <2>6. \A q \in Sockets : (Own(q)' <=> Own(q)) /\ Carries(q)'
    BY <2>3, <2>5 DEF Own, LiveInv, Wiring, Carries
  <2>7. Wiring'
    BY <2>1, <2>3, <2>5, <2>6 DEF LiveInv, LiveTypeOK, Wiring
  <2>8. ~strayed => OneConnection'
    BY <2>1, <2>2, <2>3, <2>5, <2>6 DEF LiveInv, LiveTypeOK, OneConnection
  <2> QED BY <2>3, <2>4, <2>7, <2>8 DEF LiveInv, RightRun
<1>4. ASSUME NEW s \in Sockets, OnMessage(s)
      PROVE  LiveInv'
  <2>1. /\ sockets[s].at = "open" /\ inFlight[s] # <<>> /\ inFlight[s] \in Seq(Messages)
        /\ inFlight' = [inFlight EXCEPT ![s] = Tail(inFlight[s])]
        /\ data' \in {data, Head(inFlight[s])}
        /\ strayed' = (strayed \/ hooked # screen)
        /\ UNCHANGED <<here, screen, hooked, earlier, mountedRef, wsRef, retriesRef, sockets,
                       joined, timers, workers>>
    BY <1>4 DEF OnMessage, pageVars, LiveInv, LiveTypeOK
  <2>2. /\ Head(inFlight[s]) \in Messages /\ Head(inFlight[s]).about = sockets[s].run
        /\ Tail(inFlight[s]) \in Seq(Messages)
        /\ \A i \in 1 .. Len(Tail(inFlight[s])) : Tail(inFlight[s])[i].about = sockets[s].run
    <3>1. Carries(s) /\ Len(inFlight[s]) \in Nat /\ Len(inFlight[s]) > 0
          /\ inFlight[s][1] \in Messages
      BY <2>1, LenProperties, EmptySeq DEF LiveInv, Wiring
    <3>2. /\ Tail(inFlight[s]) \in Seq(Messages)
          /\ Len(Tail(inFlight[s])) = Len(inFlight[s]) - 1
          /\ \A i \in 1 .. Len(Tail(inFlight[s])) : Tail(inFlight[s])[i] = inFlight[s][i + 1]
      BY <2>1, HeadTailProperties
    <3> QED BY <2>1, <3>1, <3>2 DEF Carries
  <2>3. LiveTypeOK'
    <3>1. strayed' \in BOOLEAN
      BY <2>1
    <3> QED BY <2>1, <2>2, <3>1 DEF LiveInv, LiveTypeOK
  <2>4. Wiring'
    <3>1. sockets'[s] # Unused
      BY <2>1 DEF Unused
    <3>2. \A q \in Sockets : Carries(q)'
      BY <2>1, <2>2, <3>1 DEF LiveInv, LiveTypeOK, Wiring, Carries
    <3> QED BY <2>1, <3>2 DEF LiveInv, Wiring
  <2>5. ASSUME ~strayed'
        PROVE  OneConnection' /\ RightRun'
    <3>1. ~strayed /\ hooked = screen /\ sockets[s].run = hooked
      BY <2>1, <2>5 DEF LiveInv, OneConnection, IsLive
    <3> QED BY <2>1, <2>2, <3>1 DEF LiveInv, OneConnection, RightRun, Own, IsLive
  <2> QED BY <2>3, <2>4, <2>5 DEF LiveInv
<1>5. ASSUME NEW r \in MaybeRun, Navigate(r)
      PROVE  LiveInv'
  <2>1. /\ screen' = r /\ hooked = screen /\ r # screen /\ data' \in {data, NoData}
        /\ strayed' = (strayed \/ data' # NoData)
        /\ UNCHANGED <<here, hooked, earlier, mountedRef, wsRef, retriesRef, sockets, joined,
                       inFlight, timers, workers>>
    BY <1>5 DEF Navigate, wireVars
  <2>2. strayed' \in BOOLEAN
    BY <2>1
  <2>3. LiveTypeOK'
    BY <2>1, <2>2 DEF LiveInv, LiveTypeOK
  <2>4. Wiring'
    BY <2>1 DEF LiveInv, Wiring, Carries
  <2>5. ASSUME ~strayed'
        PROVE  OneConnection' /\ RightRun'
    BY <2>1, <2>5 DEF LiveInv, OneConnection, RightRun, Own, IsLive
  <2> QED BY <2>3, <2>4, <2>5 DEF LiveInv
<1>6. ASSUME TakeData
      PROVE  LiveInv'
  <2>1. /\ data # NoData /\ data \in Messages /\ data' = NoData
        /\ workers' = [workers EXCEPT ![data.worker] = data.about]
        /\ data.worker \in LiveWorkers /\ data.about \in LiveRuns
        /\ UNCHANGED <<here, screen, hooked, earlier, mountedRef, wsRef, retriesRef, sockets,
                       joined, inFlight, timers, strayed>>
    BY <1>6 DEF TakeData, pageVars, wireVars, LiveInv, LiveTypeOK, Messages
  <2>2. LiveTypeOK'
    BY <2>1 DEF LiveInv, LiveTypeOK, MaybeRun
  <2> QED BY <2>1, <2>2
          DEF LiveInv, LiveTypeOK, Wiring, Carries, OneConnection, RightRun, Own, IsLive
<1> QED BY <1>1, <1>2, <1>3, <1>4, <1>5, <1>6

\* For any number of runs, workers, sockets and reconnections: until something
\* strays, the page displays the run on screen and leaves no connection behind.
THEOREM StreamIsTidy == LiveSpec => [](LiveTypeOK /\ StreamShowsItsRun)
<1>1. LiveInit => LiveInv
  <2> SUFFICES ASSUME LiveInit PROVE LiveInv
    OBVIOUS
  <2>1. LiveTypeOK
    <3>1. here \in BOOLEAN /\ mountedRef \in BOOLEAN /\ strayed \in BOOLEAN
      BY DEF LiveInit
    <3>2. retriesRef \in 0 .. ReconnectAttempts
      BY LiveAssumption DEF LiveInit
    <3>3. inFlight \in [Sockets -> Seq(Messages)]
      BY EmptySeq DEF LiveInit
    <3>4. sockets \in [Sockets -> SocketRow] /\ workers \in [LiveWorkers -> MaybeRun]
      BY DEF LiveInit, SocketRow, MaybeRun
    <3> QED BY <3>1, <3>2, <3>3, <3>4 DEF LiveInit, LiveTypeOK, MaybeRun
  <2>2. \A s \in Sockets : sockets[s] = Unused /\ inFlight[s] = <<>> /\ Carries(s)
    BY DEF LiveInit, Carries
  <2> QED BY <2>1, <2>2
          DEF LiveInit, LiveInv, Wiring, OneConnection, RightRun, Own, IsLive, Unused
<1>2. ASSUME LiveInv, [LiveNext]_liveVars
      PROVE  LiveInv'
  <2>1. CASE UNCHANGED liveVars
    BY <1>2, <2>1 DEF liveVars, LiveInv, LiveTypeOK, Wiring, Carries, OneConnection, RightRun,
                      Own, IsLive
  <2>2. ASSUME NEW s \in Sockets, ConnectionLost(s) \/ ServerCloses(s) \/ CloseEnds(s)
        PROVE  LiveInv'
    BY <1>2, <2>2, OnCloseStep DEF ConnectionLost, ServerCloses, CloseEnds, IsLive
  <2>3. CASE LiveNext
    BY <1>2, <2>2, <2>3, SmallSteps, TimerStep, EffectsStep, LeaveStep DEF LiveNext
  <2> QED BY <1>2, <2>1, <2>3
<1>3. LiveInv => LiveTypeOK /\ StreamShowsItsRun
  BY DEF LiveInv, OneConnection, RightRun, StreamShowsItsRun
<1> QED BY <1>1, <1>2, <1>3, PTL DEF LiveSpec

---------------------------------------------------------------------------
(***************************************************************************)
(* Listing                                                                 *)
(***************************************************************************)

\* What a walk that lost no row knows: the rows it began with are still listed,
\* those before its next page have been seen, and the total of an untorn page is
\* the number of rows.
WalkInv ==
    /\ ListingTypeOK
    /\ walk.page >= 1
    /\ walk.at # "idle" /\ ~walk.lost =>
          /\ walk.start \subseteq Listed
          /\ \A k \in 1..Len(rows) :
                k <= Offset(walk.page) /\ rows[k] \in walk.start => rows[k] \in walk.seen
          /\ walk.at = "page" /\ ~walk.torn => walk.total = Len(rows)
    /\ InsertsHideNothing

\* page_size is clamped to 1..100, and the offsets of the pages are multiples.
LEMMA PageOffsets ==
    /\ PageSize \in 1..100
    /\ \A p \in Nat \ {0} : Offset(p) \in Nat /\ Offset(p + 1) = Offset(p) + PageSize
    /\ Offset(1) = 0
<1>1. PageSize \in 1..100
  BY RequestedSizeAssumption DEF PageSize, AtLeastOne
<1> HIDE DEF PageSize
<1>2. ASSUME NEW p \in Nat \ {0}
      PROVE  Offset(p) \in Nat /\ Offset(p + 1) = Offset(p) + PageSize
  <2>1. PICK q \in Nat : p = q + 1
    <3>1. p - 1 \in Nat /\ p = (p - 1) + 1
      BY <1>2
    <3> QED BY <3>1
  <2>2. Offset(p) = q * PageSize /\ Offset(p + 1) = (q + 1) * PageSize
    BY <2>1 DEF Offset
  <2>3. q * PageSize \in Nat /\ (q + 1) * PageSize = q * PageSize + PageSize
    BY <1>1, <2>1
  <2> QED BY <2>2, <2>3
<1>3. Offset(1) = 0
  BY <1>1 DEF Offset
<1> QED BY <1>1, <1>2, <1>3

\* has_next is false only when the page ends behind the last of the rows counted.
LEMMA LastPage ==
    ASSUME NEW total \in Nat, NEW p \in Nat \ {0}, ~(p < TotalPages(total))
    PROVE  total <= Offset(p + 1)
<1> DEFINE q == (total + PageSize - 1) \div PageSize
           size == PageSize
<1>1. size \in Nat /\ 1 <= size
  BY PageOffsets
<1>2. total + size - 1 \in Nat
  BY <1>1
<1>3. q \in Nat /\ total + size - 1 < q * size + size
  BY <1>1, <1>2
<1>4. q <= p
  BY <1>3 DEF TotalPages
<1> HIDE DEF q
<1>5. q * size <= p * size /\ q * size \in Nat /\ p * size \in Nat
  BY <1>1, <1>3, <1>4
<1>6. Offset(p + 1) = p * size
  BY <1>1 DEF Offset
<1> QED BY <1>1, <1>3, <1>5, <1>6

\* The fields of a walk can be replaced.
LEMMA WalkFields ==
    ASSUME NEW w \in Walk, NEW b \in BOOLEAN, NEW S \in SUBSET RowIds, NEW p \in Nat,
           NEW at \in {"count", "end"}
    PROVE  /\ [w EXCEPT !.torn = b] \in Walk
           /\ [w EXCEPT !.lost = b] \in Walk
           /\ [w EXCEPT !.seen = S, !.page = p, !.at = at] \in Walk
BY DEF Walk

\* WalkInv is inductive: a new row pushes others behind the pages already seen,
\* never before them.
LEMMA WalkStep ==
    ASSUME WalkInv, [ListingNext]_listVars
    PROVE  WalkInv'
<1>1. rows \in Seq(RowIds) /\ Len(rows) \in Nat /\ walk \in Walk /\ retired \subseteq RowIds
      /\ walk.page \in Nat \ {0}
  BY DEF WalkInv, ListingTypeOK, Walk
<1>2. ASSUME NEW x \in RowIds, NEW k \in 0..Len(rows), Insert(x, k)
      PROVE  WalkInv'
  <2>1. /\ rows' \in Seq(RowIds) /\ Len(rows') = Len(rows) + 1
        /\ \A j \in 1..k : rows'[j] = rows[j]
        /\ rows'[k + 1] = x
        /\ \A j \in k + 2 .. Len(rows) + 1 : rows'[j] = rows[j - 1]
    <3> DEFINE a == SubSeq(rows, 1, k)
               b == SubSeq(rows, k + 1, Len(rows))
    <3>1. /\ a \in Seq(RowIds) /\ Len(a) = k /\ \A j \in 1..k : a[j] = rows[j]
      BY <1>1, <1>2
    <3>2. /\ b \in Seq(RowIds) /\ Len(b) = Len(rows) - k
          /\ \A j \in 1..Len(rows) - k : b[j] = rows[k + j]
      BY <1>1, <1>2
    <3> HIDE DEF a, b
    <3>3. rows' = a \o <<x>> \o b
      BY <1>2 DEF Insert, a, b
    <3> DEFINE ax == a \o <<x>>
    <3>4. /\ ax \in Seq(RowIds) /\ Len(ax) = k + 1 /\ ax[k + 1] = x
          /\ \A j \in 1..k : ax[j] = rows[j]
      BY <1>2, <3>1
    <3> HIDE DEF ax
    <3>5. rows' = ax \o b
      BY <3>3 DEF ax
    <3>6. rows' \in Seq(RowIds) /\ Len(rows') = Len(rows) + 1
      <4>1. rows' \in Seq(RowIds) /\ Len(rows') = Len(ax) + Len(b)
        BY <3>2, <3>4, <3>5, ConcatProperties
      <4>2. k \in Nat /\ Len(ax) = k + 1 /\ Len(b) = Len(rows) - k
        BY <1>1, <1>2, <3>2, <3>4
      <4> QED BY <1>1, <4>1, <4>2
    <3>7. \A j \in 1..k + 1 : rows'[j] = ax[j]
      BY <1>1, <1>2, <3>2, <3>4, <3>5
    <3>8. ASSUME NEW j \in k + 2 .. Len(rows) + 1
          PROVE  rows'[j] = rows[j - 1]
      <4>1. rows'[j] = b[j - (k + 1)]
        BY <1>1, <1>2, <3>2, <3>4, <3>5, <3>8
      <4>2. j - (k + 1) \in 1..Len(rows) - k /\ k + (j - (k + 1)) = j - 1
        BY <1>1, <1>2, <3>8
      <4> QED BY <3>2, <4>1, <4>2
    <3> QED BY <1>2, <3>4, <3>6, <3>7, <3>8
  <2>2. x \notin Listed /\ UNCHANGED retired
        /\ walk' = [walk EXCEPT !.torn = @ \/ walk.at = "page"]
    BY <1>2 DEF Insert
  <2>3. ListingTypeOK' /\ walk'.page >= 1
    <3>1. (walk.torn \/ walk.at = "page") \in BOOLEAN
      OBVIOUS
    <3>2. walk' \in Walk
      BY <1>1, <2>2, <3>1, WalkFields
    <3>3. walk'.page = walk.page
      BY <1>1, <2>2 DEF Walk
    <3> QED BY <1>1, <2>1, <2>2, <3>2, <3>3 DEF ListingTypeOK
  <2>4. /\ walk'.at = walk.at /\ walk'.lost = walk.lost /\ walk'.start = walk.start
        /\ walk'.seen = walk.seen /\ walk'.page = walk.page /\ walk'.total = walk.total
        /\ walk'.torn = (walk.torn \/ walk.at = "page")
    BY <1>1, <2>2 DEF Walk
  <2>5. InsertsHideNothing'
    BY <2>4 DEF WalkInv, InsertsHideNothing
  <2>6. ASSUME walk.at # "idle", ~walk.lost
        PROVE  /\ walk.start \subseteq Listed'
               /\ \A j \in 1..Len(rows') :
                     j <= Offset(walk.page) /\ rows'[j] \in walk.start => rows'[j] \in walk.seen
    <3>1. /\ walk.start \subseteq Listed
          /\ \A j \in 1..Len(rows) :
                j <= Offset(walk.page) /\ rows[j] \in walk.start => rows[j] \in walk.seen
      BY <2>6 DEF WalkInv
    <3>2. ASSUME NEW y \in Listed PROVE y \in Listed'
      <4>1. PICK j \in 1..Len(rows) : y = rows[j]
        BY <3>2 DEF Listed
      <4>2. CASE j <= k
        <5>1. j \in 1..Len(rows') /\ j \in 1..k
          BY <1>1, <2>1, <4>1, <4>2
        <5>2. rows'[j] = y
          BY <2>1, <4>1, <5>1
        <5> QED BY <5>1, <5>2 DEF Listed
      <4>3. CASE j > k
        <5>1. j + 1 \in 1..Len(rows') /\ j + 1 \in k + 2 .. Len(rows) + 1 /\ (j + 1) - 1 = j
          BY <1>1, <1>2, <2>1, <4>1, <4>3
        <5>2. rows'[j + 1] = y
          BY <2>1, <4>1, <5>1
        <5> QED BY <5>1, <5>2 DEF Listed
      <4> QED BY <1>2, <4>1, <4>2, <4>3
    <3>3. ASSUME NEW j \in 1..Len(rows'), j <= Offset(walk.page), rows'[j] \in walk.start
          PROVE  rows'[j] \in walk.seen
      <4>1. Offset(walk.page) \in Nat
        BY <1>1, PageOffsets
      <4>2. CASE j \in 1..k
        <5>1. j \in 1..Len(rows)
          BY <1>1, <4>2
        <5>2. rows'[j] = rows[j]
          BY <2>1, <4>2
        <5> QED BY <3>1, <3>3, <5>1, <5>2
      <4>3. j # k + 1
        BY <2>1, <2>2, <3>1, <3>3
      <4>4. CASE j \in k + 2 .. Len(rows) + 1
        <5>1. j - 1 \in 1..Len(rows) /\ j - 1 <= Offset(walk.page)
          BY <1>1, <3>3, <4>1, <4>4
        <5>2. rows'[j] = rows[j - 1]
          BY <2>1, <4>4
        <5> QED BY <3>1, <3>3, <5>1, <5>2
      <4> QED BY <1>1, <1>2, <2>1, <3>3, <4>2, <4>3, <4>4
    <3> QED BY <3>1, <3>2, <3>3
  <2>7. walk'.at = "page" => walk'.torn
    BY <2>4
  <2> QED BY <2>3, <2>4, <2>5, <2>6, <2>7 DEF WalkInv
<1>3. ASSUME NEW k \in 1..Len(rows), SoftDelete(k)
      PROVE  WalkInv'
  <2> DEFINE a == SubSeq(rows, 1, k - 1)
             b == SubSeq(rows, k + 1, Len(rows))
  <2>1. a \in Seq(RowIds) /\ b \in Seq(RowIds) /\ rows[k] \in RowIds
    BY <1>1, <1>3
  <2> HIDE DEF a, b
  <2>2. rows' = a \o b /\ retired' = retired \cup {rows[k]}
        /\ walk' = [walk EXCEPT !.lost = @ \/ walk.at # "idle"]
    BY <1>3 DEF SoftDelete, a, b
  <2>3. ListingTypeOK' /\ walk'.page >= 1
    <3>1. (walk.lost \/ walk.at # "idle") \in BOOLEAN
      OBVIOUS
    <3>2. walk' \in Walk
      BY <1>1, <2>2, <3>1, WalkFields
    <3>3. walk'.page = walk.page
      BY <1>1, <2>2 DEF Walk
    <3> QED BY <1>1, <2>1, <2>2, <3>2, <3>3 DEF ListingTypeOK
  <2>4. walk'.at = walk.at /\ walk'.lost = (walk.lost \/ walk.at # "idle")
    BY <1>1, <2>2 DEF Walk
  <2> QED BY <2>3, <2>4 DEF WalkInv, InsertsHideNothing
<1>4. CASE StartWalk
  <2>1. /\ walk'.at = "count" /\ walk'.start = Listed /\ walk'.page = 1 /\ UNCHANGED <<rows, retired>>
        /\ Listed' = Listed
    BY <1>4 DEF StartWalk, NoWalk, Listed
  <2>2. Listed \subseteq RowIds
    BY <1>1 DEF Listed
  <2>3. ListingTypeOK'
    BY <1>1, <1>4, <2>2 DEF StartWalk, NoWalk, Walk, ListingTypeOK
  <2>4. \A k \in 1..Len(rows') : ~(k <= Offset(1))
    BY <2>1, <1>1, PageOffsets
  <2> QED BY <2>1, <2>3, <2>4 DEF WalkInv, InsertsHideNothing
<1>5. CASE CountQuery
  <2>1. UNCHANGED <<rows, retired>> /\ walk' = [walk EXCEPT !.at = "page", !.total = Len(rows)]
        /\ walk.at = "count" /\ Listed' = Listed
    BY <1>5 DEF CountQuery, Listed
  <2>2. ListingTypeOK'
    BY <1>1, <2>1 DEF Walk, ListingTypeOK
  <2>3. /\ walk'.at = "page" /\ walk'.lost = walk.lost /\ walk'.start = walk.start
        /\ walk'.seen = walk.seen /\ walk'.page = walk.page /\ walk'.total = Len(rows)
    BY <1>1, <2>1 DEF Walk
  <2> QED BY <2>1, <2>2, <2>3 DEF WalkInv, InsertsHideNothing
<1>6. CASE PageQuery
  <2>1. /\ UNCHANGED <<rows, retired>> /\ walk.at = "page" /\ Listed' = Listed
    BY <1>6 DEF PageQuery, Listed
  <2>2. /\ walk'.lost = walk.lost /\ walk'.torn = walk.torn /\ walk'.start = walk.start
        /\ walk'.seen = walk.seen \cup PageItems /\ walk'.page = walk.page + 1
        /\ walk'.at = IF walk.page < TotalPages(walk.total) THEN "count" ELSE "end"
        /\ walk'.total = walk.total
    BY <1>1, <1>6 DEF PageQuery, Walk
  <2>3. PageItems \subseteq RowIds
    BY <1>1 DEF PageItems
  <2>4. ListingTypeOK' /\ walk'.page >= 1
    <3>1. walk' \in Walk
      <4>1. walk.seen \cup PageItems \in SUBSET RowIds /\ walk.page + 1 \in Nat
        BY <1>1, <2>3 DEF Walk
      <4>2. (IF walk.page < TotalPages(walk.total) THEN "count" ELSE "end") \in {"count", "end"}
        OBVIOUS
      <4> QED BY <1>1, <1>6, <4>1, <4>2, WalkFields DEF PageQuery
    <3> QED BY <1>1, <2>1, <2>2, <3>1 DEF ListingTypeOK
  <2>5. Offset(walk.page) \in Nat /\ Offset(walk.page + 1) = Offset(walk.page) + PageSize
        /\ PageSize \in Nat
    <3>1. PageSize \in Nat
      BY PageOffsets
    <3>2. \A p \in Nat \ {0} : Offset(p) \in Nat /\ Offset(p + 1) = Offset(p) + PageSize
      BY PageOffsets
    <3> QED BY <1>1, <3>1, <3>2
  <2>6. ASSUME ~walk.lost, NEW k \in 1..Len(rows), k <= Offset(walk.page + 1), rows[k] \in walk.start
        PROVE  rows[k] \in walk'.seen
    <3>1. CASE k <= Offset(walk.page)
      BY <2>1, <2>2, <2>6, <3>1 DEF WalkInv
    <3>2. CASE ~(k <= Offset(walk.page))
      <4>1. rows[k] \in PageItems
        BY <2>5, <2>6, <3>2 DEF PageItems
      <4> QED BY <2>2, <4>1
    <3> QED BY <3>1, <3>2
  <2>7. ASSUME walk'.at = "end", ~walk'.torn, ~walk'.lost
        PROVE  walk'.start \subseteq walk'.seen
    <3>1. walk.total = Len(rows) /\ walk.start \subseteq Listed
      BY <2>1, <2>2, <2>7 DEF WalkInv
    <3>2. ~(walk.page < TotalPages(walk.total))
      BY <2>2, <2>7
    <3>3. Len(rows) <= Offset(walk.page + 1)
      BY <1>1, <3>1, <3>2, LastPage
    <3>4. ASSUME NEW y \in walk.start PROVE y \in walk'.seen
      <4>1. PICK k \in 1..Len(rows) : y = rows[k]
        BY <3>1, <3>4 DEF Listed
      <4>2. k <= Offset(walk.page + 1)
        BY <1>1, <2>5, <3>3, <4>1
      <4> QED BY <2>2, <2>6, <2>7, <3>4, <4>1, <4>2
    <3> QED BY <2>2, <3>4
  <2>8. walk'.at # "page"
    BY <2>2
  <2>9. ~walk'.lost => walk'.start \subseteq Listed'
    BY <2>1, <2>2 DEF WalkInv
  <2>10. ASSUME ~walk'.lost
         PROVE  \A k \in 1..Len(rows') :
                   k <= Offset(walk'.page) /\ rows'[k] \in walk'.start => rows'[k] \in walk'.seen
    BY <2>1, <2>2, <2>6, <2>10
  <2> QED BY <2>4, <2>7, <2>8, <2>9, <2>10 DEF WalkInv, InsertsHideNothing
<1>7. CASE FinishWalk
  <2>1. walk' = NoWalk /\ UNCHANGED <<rows, retired>>
    BY <1>7 DEF FinishWalk
  <2>2. ListingTypeOK'
    BY <1>1, <2>1 DEF ListingTypeOK, NoWalk, Walk
  <2> QED BY <2>1, <2>2 DEF NoWalk, WalkInv, InsertsHideNothing
<1>8. CASE UNCHANGED listVars
  BY <1>8 DEF listVars, WalkInv, ListingTypeOK, Listed, InsertsHideNothing
<1> QED BY <1>2, <1>3, <1>4, <1>5, <1>6, <1>7, <1>8 DEF ListingNext

\* However many rows are created while a client pages through a list, and
\* wherever they appear, the walk misses none of the rows it began with, as long
\* as no row is deleted and none appears between the two queries of a page.
THEOREM WalksMissNothing == ListingSpec => []InsertsHideNothing
<1>1. ListingInit => WalkInv
  <2> SUFFICES ASSUME ListingInit PROVE WalkInv
    OBVIOUS
  <2>1. rows = <<>> /\ retired = {} /\ walk = NoWalk
    BY DEF ListingInit
  <2>2. ListingTypeOK
    BY <2>1 DEF ListingTypeOK, NoWalk, Walk
  <2> QED BY <2>1, <2>2 DEF NoWalk, WalkInv, InsertsHideNothing
<1>2. WalkInv /\ [ListingNext]_listVars => WalkInv'
  BY WalkStep
<1>3. WalkInv => InsertsHideNothing
  BY DEF WalkInv
<1> QED BY <1>1, <1>2, <1>3, PTL DEF ListingSpec
===========================================================================
