--------------------------- MODULE ServiceProofs ---------------------------
(***************************************************************************)
(* Proofs about the services behind the API: Datasets (READY is final, and *)
(* so is a check made after the upload URL expired), Configurations (whom  *)
(* a run calls back, and how often), MetricCatalogue (duplicates are       *)
(* bounded and a seeded catalogue is complete) and Accounts (founders,     *)
(* refused logins, revoked keys).                                          *)
(***************************************************************************)
EXTENDS Accounts, Datasets, Configurations, MetricCatalogue, FiniteSetTheorems, TLAPS

(***************************************************************************)
(* Datasets                                                                *)
(***************************************************************************)

HoldsDataset == {"validating", "verified", "deleting"}

\* A request works on a dataset that exists; one request at a time holds a row;
\* a row that is READY has a checksum.
DatasetRows ==
    /\ DatasetsTypeOK
    /\ \A r \in DatasetRequests : dreq[r] # Quiet => datasets[dreq[r].ds] # NoRow
    /\ \A p, r \in DatasetRequests :
          /\ p # r
          /\ dreq[p].at \in HoldsDataset
          /\ dreq[r].at \in HoldsDataset
          => dreq[p].ds # dreq[r].ds
    /\ \A d \in DatasetIds :
          datasets[d] # NoRow /\ datasets[d].status = "READY"
              => datasets[d].checksum \in Contents

\* What a check that was made after the expiry of the URL has seen.
LateChecks ==
    /\ \A r \in DatasetRequests :
          dreq[r].at = "verified" /\ dreq[r].late
              => url[dreq[r].ds] = "expired" /\ object[dreq[r].ds] = dreq[r].sum
    /\ \A r \in DatasetRequests :
          dreq[r].at = "verified" /\ dreq[r].ds \in checkedLate => dreq[r].late
    /\ \A d \in checkedLate : url[d] = "expired"
    /\ LateCheckIsFinal

\* Where a request is, and the dataset it works on.
LEMMA RequestOnDataset ==
    ASSUME DatasetsTypeOK, NEW r \in DatasetRequests, dreq[r] # Quiet
    PROVE  /\ dreq[r] \in Confirming \cup Deleting
           /\ dreq[r].ds \in DatasetIds
           /\ dreq[r].at \in {"read", "validating", "verified"} => dreq[r] \in Confirming
           /\ dreq[r].at \in {"found", "deleting"} => dreq[r] \in Deleting
<1>1. dreq[r] \in Confirming \cup Deleting
  BY DEF DatasetsTypeOK
<1> QED BY <1>1 DEF Confirming, Deleting

\* DatasetRows is preserved by a step in which one request moves and rows stay.
LEMMA RequestMoves ==
    ASSUME DatasetRows, NEW r \in DatasetRequests,
           NEW x \in {Quiet} \cup Confirming \cup Deleting,
           dreq' = [dreq EXCEPT ![r] = x],
           UNCHANGED <<datasets, object, url, checkedLate>>,
           x # Quiet => datasets[x.ds] # NoRow,
           x.at \in HoldsDataset =>
               \A q \in DatasetRequests \ {r} :
                   dreq[q].at \in HoldsDataset => dreq[q].ds # x.ds
    PROVE  DatasetRows'
<1> USE DEF DatasetRows, DatasetsTypeOK
<1>1. \A q \in DatasetRequests : dreq'[q] = IF q = r THEN x ELSE dreq[q]
  OBVIOUS
<1>2. DatasetsTypeOK'
  OBVIOUS
<1>3. (\A q \in DatasetRequests : dreq[q] # Quiet => datasets[dreq[q].ds] # NoRow)'
  BY <1>1
<1>4. (\A p, q \in DatasetRequests :
          /\ p # q /\ dreq[p].at \in HoldsDataset /\ dreq[q].at \in HoldsDataset
          => dreq[p].ds # dreq[q].ds)'
  BY <1>1
<1> QED BY <1>2, <1>3, <1>4

\* DatasetRows is preserved by a commit of the row its request holds.
LEMMA RowCommits ==
    ASSUME DatasetRows, NEW r \in DatasetRequests, NEW d \in DatasetIds,
           NEW row \in DatasetRow,
           row.status = "READY" => row.checksum \in Contents,
           datasets' = [datasets EXCEPT ![d] = row],
           dreq' = [dreq EXCEPT ![r] = Quiet],
           UNCHANGED <<object, url>>, checkedLate' \subseteq DatasetIds
    PROVE  DatasetRows'
<1> USE DEF DatasetRows, DatasetsTypeOK
<1>1. row # NoRow
  BY DEF DatasetRow, NoRow
<1>2. Quiet.at \notin HoldsDataset
  BY DEF Quiet, HoldsDataset
<1>3. \A q \in DatasetRequests : dreq'[q] = IF q = r THEN Quiet ELSE dreq[q]
  OBVIOUS
<1>4. \A c \in DatasetIds : datasets'[c] = IF c = d THEN row ELSE datasets[c]
  OBVIOUS
<1>5. DatasetsTypeOK'
  OBVIOUS
<1>6. (\A q \in DatasetRequests : dreq[q] # Quiet => datasets[dreq[q].ds] # NoRow)'
  BY <1>1, <1>3, <1>4, RequestOnDataset
<1>7. (\A p, q \in DatasetRequests :
          /\ p # q /\ dreq[p].at \in HoldsDataset /\ dreq[q].at \in HoldsDataset
          => dreq[p].ds # dreq[q].ds)'
  BY <1>2, <1>3
<1>8. (\A c \in DatasetIds : datasets[c] # NoRow /\ datasets[c].status = "READY"
          => datasets[c].checksum \in Contents)'
  BY <1>4
<1> QED BY <1>5, <1>6, <1>7, <1>8

\* What the two commits write.
LEMMA CommittedRow ==
    ASSUME DatasetRows, NEW r \in DatasetRequests, ConfirmCommit(r) \/ DeleteCommit(r)
    PROVE  \E row \in DatasetRow :
              /\ datasets' = [datasets EXCEPT ![dreq[r].ds] = row]
              /\ dreq[r].ds \in DatasetIds /\ datasets[dreq[r].ds] \in DatasetRow
              /\ ConfirmCommit(r) =>
                    /\ dreq[r] \in Confirming
                    /\ row.status = "READY" /\ row.checksum = dreq[r].sum
              /\ DeleteCommit(r) =>
                    /\ row.status = datasets[dreq[r].ds].status
                    /\ row.checksum = datasets[dreq[r].ds].checksum
<1> USE DEF DatasetRows
<1> DEFINE old == datasets[dreq[r].ds]
<1>1. dreq[r] # Quiet /\ dreq[r].at \in {"verified", "deleting"}
  BY DEF Quiet, ConfirmCommit, DeleteCommit
<1>2. dreq[r].ds \in DatasetIds /\ old \in DatasetRow
  BY <1>1, RequestOnDataset DEF DatasetsTypeOK
<1>3. CASE ConfirmCommit(r)
  <2> DEFINE row == [old EXCEPT !.status = "READY", !.checksum = dreq[r].sum]
  <2>1. dreq[r].at = "verified" /\ dreq[r] \in Confirming
    BY <1>1, <1>3, RequestOnDataset DEF ConfirmCommit
  <2>2. dreq[r].sum \in Contents
    BY <2>1 DEF Confirming
  <2>3. row \in DatasetRow /\ row.status = "READY" /\ row.checksum = dreq[r].sum
    BY <1>2, <2>2 DEF DatasetRow, DatasetStatus
  <2>4. datasets' = [datasets EXCEPT ![dreq[r].ds] = row] /\ ~DeleteCommit(r)
    BY <1>3, <2>1 DEF ConfirmCommit, DeleteCommit
  <2> QED BY <1>2, <2>1, <2>3, <2>4
<1>4. CASE DeleteCommit(r)
  <2> DEFINE row == [old EXCEPT !.deleted = TRUE]
  <2>1. row \in DatasetRow /\ row.status = old.status /\ row.checksum = old.checksum
    BY <1>2 DEF DatasetRow
  <2>2. datasets' = [datasets EXCEPT ![dreq[r].ds] = row] /\ ~ConfirmCommit(r)
    BY <1>4 DEF ConfirmCommit, DeleteCommit
  <2> QED BY <1>2, <2>1, <2>2
<1> QED BY <1>3, <1>4

\* The steps in which a request moves on and no row changes.
RequestStep(r) ==
    \/ \E d \in DatasetIds : DeleteRead(r, d) \/ \E c \in Contents : ConfirmRead(r, d, c)
    \/ ConfirmValidating(r) \/ ConfirmMatches(r) \/ ConfirmFails(r) \/ DeleteFlush(r)
    \/ DatasetsAbort(r)

\* The place such a step takes its request to.
LEMMA RequestStepMoves ==
    ASSUME DatasetRows, NEW r \in DatasetRequests, RequestStep(r)
    PROVE  \E x \in {Quiet} \cup Confirming \cup Deleting :
              /\ dreq' = [dreq EXCEPT ![r] = x]
              /\ UNCHANGED <<datasets, object, url, checkedLate>>
              /\ x # Quiet => datasets[x.ds] # NoRow
              /\ x.at \in HoldsDataset =>
                    \A q \in DatasetRequests \ {r} :
                        dreq[q].at \in HoldsDataset => dreq[q].ds # x.ds
              /\ x.at = "verified" =>
                    /\ object[x.ds] = x.sum
                    /\ x.late = (url[x.ds] = "expired")
<1> DEFINE Goal(x) ==
              /\ x \in {Quiet} \cup Confirming \cup Deleting
              /\ dreq' = [dreq EXCEPT ![r] = x]
              /\ UNCHANGED <<datasets, object, url, checkedLate>>
              /\ x # Quiet => datasets[x.ds] # NoRow
              /\ x.at \in HoldsDataset =>
                    \A q \in DatasetRequests \ {r} :
                        dreq[q].at \in HoldsDataset => dreq[q].ds # x.ds
              /\ x.at = "verified" =>
                    /\ object[x.ds] = x.sum
                    /\ x.late = (url[x.ds] = "expired")
<1> SUFFICES \E x : Goal(x)
  OBVIOUS
<1> USE DEF DatasetRows, HoldsDataset
<1>1. ASSUME NEW d \in DatasetIds, DeleteRead(r, d)
      PROVE  Goal([at |-> "found", ds |-> d])
  BY <1>1 DEF DeleteRead, Found, Deleting
<1>2. ASSUME NEW d \in DatasetIds, NEW c \in Contents, ConfirmRead(r, d, c)
      PROVE  Goal([at |-> "read", ds |-> d, sum |-> c, late |-> FALSE])
  BY <1>2 DEF ConfirmRead, Found, Confirming
<1>3. CASE ConfirmFails(r) \/ DatasetsAbort(r)
  <2>1. Goal(Quiet)
    BY <1>3 DEF ConfirmFails, DatasetsAbort, DatasetRequestEnds, Quiet
  <2> QED BY <2>1
<1>4. ASSUME ConfirmValidating(r)
      PROVE  Goal([dreq[r] EXCEPT !.at = "validating"])
  <2>1. dreq[r] \in Confirming /\ dreq[r] # Quiet
    BY <1>4, RequestOnDataset DEF ConfirmValidating, Quiet
  <2>2. /\ [dreq[r] EXCEPT !.at = "validating"] \in Confirming
        /\ [dreq[r] EXCEPT !.at = "validating"].ds = dreq[r].ds
        /\ [dreq[r] EXCEPT !.at = "validating"].at = "validating"
    BY <2>1 DEF Confirming
  <2> QED BY <1>4, <2>1, <2>2 DEF ConfirmValidating, DatasetHeld
<1>5. ASSUME DeleteFlush(r)
      PROVE  Goal([dreq[r] EXCEPT !.at = "deleting"])
  <2>1. dreq[r] \in Deleting /\ dreq[r] # Quiet
    BY <1>5, RequestOnDataset DEF DeleteFlush, Quiet
  <2>2. /\ [dreq[r] EXCEPT !.at = "deleting"] \in Deleting
        /\ [dreq[r] EXCEPT !.at = "deleting"].ds = dreq[r].ds
        /\ [dreq[r] EXCEPT !.at = "deleting"].at = "deleting"
    BY <2>1 DEF Deleting
  <2> QED BY <1>5, <2>1, <2>2 DEF DeleteFlush, DatasetHeld
<1>6. ASSUME ConfirmMatches(r)
      PROVE  Goal([dreq[r] EXCEPT !.at = "verified", !.late = url[dreq[r].ds] = "expired"])
  <2> DEFINE x == [dreq[r] EXCEPT !.at = "verified", !.late = url[dreq[r].ds] = "expired"]
  <2>1. dreq[r] \in Confirming /\ dreq[r] # Quiet /\ dreq[r].at = "validating"
    BY <1>6, RequestOnDataset DEF ConfirmMatches, Quiet
  <2>2. x \in Confirming /\ x.ds = dreq[r].ds /\ x.sum = dreq[r].sum
        /\ x.late = (url[dreq[r].ds] = "expired") /\ x.at = "verified"
    BY <2>1 DEF Confirming
  <2>3. dreq' = [dreq EXCEPT ![r] = x] /\ object[dreq[r].ds] = dreq[r].sum
    BY <1>6 DEF ConfirmMatches
  <2> HIDE DEF x
  <2>4. UNCHANGED <<datasets, object, url, checkedLate>> /\ datasets[x.ds] # NoRow
    BY <1>6, <2>1, <2>2 DEF ConfirmMatches
  <2>5. \A q \in DatasetRequests \ {r} : dreq[q].at \in HoldsDataset => dreq[q].ds # x.ds
    BY <2>1, <2>2
  <2>6. object[x.ds] = x.sum /\ x.late = (url[x.ds] = "expired")
    BY <2>2, <2>3, Zenon
  <2>7. Goal(x)
    BY <2>2, <2>3, <2>4, <2>5, <2>6, Zenon
  <2> QED BY <2>7 DEF x
<1> HIDE DEF Goal
<1> QED BY <1>1, <1>2, <1>3, <1>4, <1>5, <1>6 DEF RequestStep

\* Every step keeps DatasetRows.
LEMMA DatasetRowsStep ==
    ASSUME DatasetRows, [DatasetsNext]_datasetVars
    PROVE  DatasetRows'
<1>1. CASE UNCHANGED datasetVars
  BY <1>1 DEF datasetVars, DatasetRows, DatasetsTypeOK
<1>2. ASSUME NEW d \in DatasetIds, Initiate(d)
      PROVE  DatasetRows'
  <2> DEFINE row == [status |-> "UPLOADING", checksum |-> Pending, deleted |-> FALSE]
  <2>1. row \in DatasetRow /\ row # NoRow /\ row.status # "READY"
    BY DEF DatasetRow, DatasetStatus, NoRow
  <2>2. datasets' = [datasets EXCEPT ![d] = row] /\ UNCHANGED <<object, dreq, checkedLate>>
    BY <1>2 DEF Initiate
  <2>3. url' \in [DatasetIds -> {"none", "open", "expired"}]
    BY <1>2 DEF Initiate, DatasetRows, DatasetsTypeOK
  <2>4. DatasetsTypeOK'
    BY <2>1, <2>2, <2>3 DEF DatasetRows, DatasetsTypeOK
  <2> HIDE DEF row
  <2>5. \A c \in DatasetIds : datasets'[c] = IF c = d THEN row ELSE datasets[c]
    BY <2>2 DEF DatasetRows, DatasetsTypeOK
  <2>6. (\A r \in DatasetRequests : dreq[r] # Quiet => datasets[dreq[r].ds] # NoRow)'
    BY <2>1, <2>2, <2>5, RequestOnDataset DEF DatasetRows
  <2>7. (\A c \in DatasetIds : datasets[c] # NoRow /\ datasets[c].status = "READY"
            => datasets[c].checksum \in Contents)'
    BY <2>1, <2>5 DEF DatasetRows
  <2> QED BY <2>2, <2>4, <2>6, <2>7 DEF DatasetRows
<1>3. ASSUME NEW d \in DatasetIds, UrlExpires(d) \/ \E c \in Contents : Upload(d, c)
      PROVE  DatasetRows'
  BY <1>3 DEF UrlExpires, Upload, DatasetRows, DatasetsTypeOK
<1>4. ASSUME NEW r \in DatasetRequests, RequestStep(r)
      PROVE  DatasetRows'
  BY <1>4, RequestStepMoves, RequestMoves
<1>5. ASSUME NEW r \in DatasetRequests, ConfirmCommit(r) \/ DeleteCommit(r)
      PROVE  DatasetRows'
  <2>1. PICK row \in DatasetRow :
              /\ datasets' = [datasets EXCEPT ![dreq[r].ds] = row]
              /\ dreq[r].ds \in DatasetIds /\ datasets[dreq[r].ds] \in DatasetRow
              /\ ConfirmCommit(r) =>
                    /\ dreq[r] \in Confirming
                    /\ row.status = "READY" /\ row.checksum = dreq[r].sum
              /\ DeleteCommit(r) =>
                    /\ row.status = datasets[dreq[r].ds].status
                    /\ row.checksum = datasets[dreq[r].ds].checksum
    BY <1>5, CommittedRow
  <2>2. datasets[dreq[r].ds] # NoRow
    BY <2>1 DEF DatasetRow, NoRow
  <2>3. row.status = "READY" => row.checksum \in Contents
    BY <1>5, <2>1, <2>2 DEF DatasetRows, Confirming
  <2>4. dreq' = [dreq EXCEPT ![r] = Quiet] /\ UNCHANGED <<object, url>>
        /\ checkedLate' \subseteq DatasetIds
    BY <1>5, <2>1 DEF ConfirmCommit, DeleteCommit, DatasetRequestEnds, DatasetRows,
                      DatasetsTypeOK
  <2> QED BY <2>1, <2>3, <2>4, RowCommits
<1> QED BY <1>1, <1>2, <1>3, <1>4, <1>5 DEF DatasetsNext, RequestStep

\* DatasetRows holds in every behaviour.
LEMMA DatasetRowsHold == DatasetsSpec => []DatasetRows
<1>1. DatasetsInit => DatasetRows
  BY DEF DatasetsInit, DatasetRows, DatasetsTypeOK, NoRow, Quiet, HoldsDataset
<1> QED BY <1>1, DatasetRowsStep, PTL DEF DatasetsSpec

\* For any number of datasets and concurrent requests: a dataset that is READY
\* stays READY with a checksum.
THEOREM ReadyIsFinal == DatasetsSpec => ReadyNeverRegresses
<1>1. ASSUME DatasetRows, [DatasetsNext]_datasetVars, NEW d \in DatasetIds,
             datasets[d] # NoRow, datasets[d].status = "READY"
      PROVE  /\ datasets'[d] # NoRow
             /\ datasets'[d].status = "READY"
             /\ datasets'[d].checksum \in Contents
  <2>1. datasets[d].checksum \in Contents
    BY <1>1 DEF DatasetRows
  <2>2. CASE UNCHANGED datasets
    BY <1>1, <2>1, <2>2
  <2>3. ASSUME NEW c \in DatasetIds, Initiate(c)
        PROVE  datasets'[d] = datasets[d]
    BY <1>1, <2>3 DEF Initiate, DatasetRows, DatasetsTypeOK
  <2>4. ASSUME NEW r \in DatasetRequests, ConfirmCommit(r) \/ DeleteCommit(r)
        PROVE  /\ datasets'[d] # NoRow
               /\ datasets'[d].status = "READY"
               /\ datasets'[d].checksum \in Contents
    <3>1. PICK row \in DatasetRow :
              /\ datasets' = [datasets EXCEPT ![dreq[r].ds] = row]
              /\ dreq[r].ds \in DatasetIds /\ datasets[dreq[r].ds] \in DatasetRow
              /\ ConfirmCommit(r) =>
                    /\ dreq[r] \in Confirming
                    /\ row.status = "READY" /\ row.checksum = dreq[r].sum
              /\ DeleteCommit(r) =>
                    /\ row.status = datasets[dreq[r].ds].status
                    /\ row.checksum = datasets[dreq[r].ds].checksum
      BY <1>1, <2>4, CommittedRow
    <3>2. CASE d = dreq[r].ds
      <4>1. datasets'[d] = row
        BY <1>1, <3>1, <3>2 DEF DatasetRows, DatasetsTypeOK
      <4>2. row # NoRow
        BY DEF DatasetRow, NoRow
      <4>3. row.status = "READY" /\ row.checksum \in Contents
        BY <1>1, <2>1, <2>4, <3>1, <3>2 DEF Confirming
      <4> QED BY <4>1, <4>2, <4>3
    <3>3. CASE d # dreq[r].ds
      BY <1>1, <2>1, <3>1, <3>3 DEF DatasetRows, DatasetsTypeOK
    <3> QED BY <3>2, <3>3
  <2>5. \/ UNCHANGED datasets
        \/ \E c \in DatasetIds : Initiate(c)
        \/ \E r \in DatasetRequests : ConfirmCommit(r) \/ DeleteCommit(r)
    BY <1>1 DEF DatasetsNext, datasetVars, UrlExpires, Upload, DeleteRead, ConfirmRead,
                ConfirmValidating, ConfirmMatches, ConfirmFails, DeleteFlush, DatasetsAbort
  <2> QED BY <1>1, <2>1, <2>2, <2>3, <2>4, <2>5
<1>2. DatasetRows /\ [DatasetsNext]_datasetVars
          => [\A d \in DatasetIds :
                datasets[d] # NoRow /\ datasets[d].status = "READY"
                    => /\ datasets'[d] # NoRow
                       /\ datasets'[d].status = "READY"
                       /\ datasets'[d].checksum \in Contents]_datasetVars
  BY <1>1
<1> QED BY <1>2, DatasetRowsHold, PTL DEF DatasetsSpec, ReadyNeverRegresses

\* LateChecks is preserved: whoever has verified a dataset holds its row, and
\* whoever verifies it after a late check makes a late check too.
LEMMA LateChecksStep ==
    ASSUME DatasetRows, LateChecks, [DatasetsNext]_datasetVars
    PROVE  LateChecks'
<1> USE DEF LateChecks, LateCheckIsFinal
<1>1. CASE UNCHANGED datasetVars
  BY <1>1 DEF datasetVars
<1>2. ASSUME NEW d \in DatasetIds, Initiate(d)
      PROVE  LateChecks'
  <2>1. d \notin checkedLate
    BY <1>2 DEF Initiate
  <2>2. \A r \in DatasetRequests : dreq[r].at = "verified" => dreq[r].ds # d
    BY <1>2 DEF Initiate, DatasetRows, Quiet
  <2>3. \A c \in DatasetIds : c # d => datasets'[c] = datasets[c] /\ url'[c] = url[c]
    BY <1>2 DEF Initiate, DatasetRows, DatasetsTypeOK
  <2>4. \A r \in DatasetRequests : dreq[r].at = "verified" => dreq[r].ds \in DatasetIds
    BY RequestOnDataset DEF DatasetRows, Quiet
  <2>5. UNCHANGED <<object, dreq, checkedLate>> /\ checkedLate \subseteq DatasetIds
    BY <1>2 DEF Initiate, DatasetRows, DatasetsTypeOK
  <2> QED BY <2>1, <2>2, <2>3, <2>4, <2>5
<1>3. ASSUME NEW d \in DatasetIds, NEW c \in Contents, Upload(d, c)
      PROVE  LateChecks'
  <2>1. url[d] = "open" /\ UNCHANGED <<datasets, url, dreq, checkedLate>>
    BY <1>3 DEF Upload
  <2>2. \A e \in DatasetIds : e # d => object'[e] = object[e]
    BY <1>3 DEF Upload, DatasetRows, DatasetsTypeOK
  <2>3. \A r \in DatasetRequests : dreq[r].at = "verified" => dreq[r].ds \in DatasetIds
    BY RequestOnDataset DEF DatasetRows, Quiet
  <2>4. checkedLate \subseteq DatasetIds
    BY DEF DatasetRows, DatasetsTypeOK
  <2> QED BY <2>1, <2>2, <2>3, <2>4
<1>4. ASSUME NEW d \in DatasetIds, UrlExpires(d)
      PROVE  LateChecks'
  <2>1. UNCHANGED <<datasets, object, dreq, checkedLate>>
    BY <1>4 DEF UrlExpires
  <2>2. \A e \in DatasetIds : url[e] = "expired" => url'[e] = "expired"
    BY <1>4 DEF UrlExpires, DatasetRows, DatasetsTypeOK
  <2>3. \A r \in DatasetRequests : dreq[r].at = "verified" => dreq[r].ds \in DatasetIds
    BY RequestOnDataset DEF DatasetRows, Quiet
  <2>4. checkedLate \subseteq DatasetIds
    BY DEF DatasetRows, DatasetsTypeOK
  <2> QED BY <2>1, <2>2, <2>3, <2>4
<1>5. ASSUME NEW r \in DatasetRequests, RequestStep(r)
      PROVE  LateChecks'
  <2>1. PICK x \in {Quiet} \cup Confirming \cup Deleting :
              /\ dreq' = [dreq EXCEPT ![r] = x]
              /\ UNCHANGED <<datasets, object, url, checkedLate>>
              /\ x.at = "verified" =>
                    /\ object[x.ds] = x.sum
                    /\ x.late = (url[x.ds] = "expired")
    BY <1>5, RequestStepMoves
  <2>2. \A q \in DatasetRequests : dreq'[q] = IF q = r THEN x ELSE dreq[q]
    BY <2>1 DEF DatasetRows, DatasetsTypeOK
  <2>3. x.at = "verified" /\ x.late => url[x.ds] = "expired" /\ object[x.ds] = x.sum
    BY <2>1
  <2>4. x.at = "verified" /\ x.ds \in checkedLate => x.late
    BY <2>1
  <2> QED BY <2>1, <2>2, <2>3, <2>4
<1>6. ASSUME NEW r \in DatasetRequests, ConfirmCommit(r) \/ DeleteCommit(r)
      PROVE  LateChecks'
  <2> DEFINE d == dreq[r].ds
  <2>1. PICK row \in DatasetRow :
              /\ datasets' = [datasets EXCEPT ![d] = row]
              /\ d \in DatasetIds
              /\ ConfirmCommit(r) => row.status = "READY" /\ row.checksum = dreq[r].sum
              /\ DeleteCommit(r) =>
                    row.status = datasets[d].status /\ row.checksum = datasets[d].checksum
    BY <1>6, CommittedRow
  <2>2. dreq' = [dreq EXCEPT ![r] = Quiet] /\ UNCHANGED <<object, url>>
    BY <1>6 DEF ConfirmCommit, DeleteCommit, DatasetRequestEnds
  <2>3. \A q \in DatasetRequests : dreq'[q].at = "verified" => q # r /\ dreq'[q] = dreq[q]
    BY <2>2 DEF DatasetRows, DatasetsTypeOK, Quiet
  <2>4. \A q \in DatasetRequests : dreq'[q].at = "verified" => dreq[q].ds # d
    BY <1>6, <2>3 DEF ConfirmCommit, DeleteCommit, DatasetRows, HoldsDataset
  <2>5. \A c \in DatasetIds : datasets'[c] = IF c = d THEN row ELSE datasets[c]
    BY <2>1 DEF DatasetRows, DatasetsTypeOK
  <2>6. checkedLate' \subseteq checkedLate \cup {d} /\ checkedLate \subseteq DatasetIds
    BY <1>6 DEF ConfirmCommit, DeleteCommit, DatasetRows, DatasetsTypeOK
  <2>7. d \in checkedLate' =>
            url[d] = "expired" /\ row.status = "READY" /\ row.checksum = object[d]
    <3>1. CASE ConfirmCommit(r)
      <4>1. dreq[r].at = "verified"
            /\ checkedLate' = (IF dreq[r].late THEN checkedLate \cup {d} ELSE checkedLate)
        BY <3>1 DEF ConfirmCommit
      <4>2. d \in checkedLate' => dreq[r].late
        BY <4>1
      <4> QED BY <2>1, <3>1, <4>1, <4>2
    <3>2. CASE DeleteCommit(r)
      BY <2>1, <3>2 DEF DeleteCommit
    <3> QED BY <1>6, <3>1, <3>2
  <2>8. row # NoRow
    BY DEF DatasetRow, NoRow
  <2> HIDE DEF d
  <2>9. LateCheckIsFinal' /\ \A c \in checkedLate' : url'[c] = "expired"
    <3> SUFFICES ASSUME NEW c \in checkedLate'
                 PROVE  /\ datasets'[c] # NoRow /\ datasets'[c].status = "READY"
                        /\ datasets'[c].checksum = object'[c] /\ url'[c] = "expired"
      OBVIOUS
    <3>1. CASE c = d
      BY <2>1, <2>2, <2>5, <2>7, <2>8, <3>1
    <3>2. CASE c # d
      BY <2>2, <2>5, <2>6, <3>2
    <3> QED BY <3>1, <3>2
  <2>10. \A q \in DatasetRequests :
            dreq'[q].at = "verified" /\ dreq'[q].ds \in checkedLate' => dreq'[q].late
    BY <2>3, <2>4, <2>6
  <2> QED BY <2>2, <2>3, <2>9, <2>10
<1> QED BY <1>1, <1>2, <1>3, <1>4, <1>5, <1>6 DEF DatasetsNext, RequestStep

\* For any number of datasets, contents and concurrent requests: a check made
\* after the expiry of the URL has the last word.
THEOREM LateCheckHolds == DatasetsSpec => []LateCheckIsFinal
<1>1. DatasetsInit => LateChecks
  BY DEF DatasetsInit, LateChecks, LateCheckIsFinal, Quiet
<1>2. LateChecks => LateCheckIsFinal
  BY DEF LateChecks
<1> QED BY <1>1, <1>2, LateChecksStep, DatasetRowsHold, PTL DEF DatasetsSpec

---------------------------------------------------------------------------
(***************************************************************************)
(* Configurations                                                          *)
(***************************************************************************)

\* A request works on a configuration that exists.
ConfigRows ==
    /\ ConfigurationsTypeOK
    /\ \A r \in ConfigRequests : creq[r] # Resting => configs[creq[r].cfg] # NoConfig

\* How many calls of a delivery may have arrived, and where.
CallsFit(d, got, to) ==
    /\ d.at \in {"none", "triggered"} => \A u \in Urls : got[u] = 0
    /\ d.at = "sending" => \A u \in Urls : got[u] <= d.tries
    /\ d.at = "delivered" => to \in Urls /\ got[to] > 0
    /\ \A u \in Urls : got[u] <= ATTEMPTS
    /\ \A u \in Urls : got[u] > 0 => to = u

CallsOf(r) == CallsFit(delivery[r], received[r], snapshot[r])

CallbackInv == ConfigRows /\ \A r \in ConfigRuns : CallsOf(r)

\* Where a request is, and the configuration it works on.
LEMMA RequestOnConfig ==
    ASSUME ConfigRows, NEW r \in ConfigRequests, creq[r] # Resting
    PROVE  /\ creq[r].cfg \in ConfigIds
           /\ configs[creq[r].cfg] \in ConfigRow
           /\ creq[r].at \in {"read", "flushed"} => creq[r] \in Updating
           /\ creq[r].at \in {"found", "removing"} => creq[r] \in Removing
<1>1. creq[r] \in Updating \cup Removing /\ configs[creq[r].cfg] # NoConfig
  BY DEF ConfigRows, ConfigurationsTypeOK
<1>2. creq[r].cfg \in ConfigIds
  BY <1>1 DEF Updating, Removing
<1> QED BY <1>1, <1>2 DEF Updating, Removing, ConfigRows, ConfigurationsTypeOK

\* Requests that read or flush, and those that end without a commit.
LEMMA ConfigRequestMoves ==
    ASSUME ConfigRows, NEW r \in ConfigRequests,
           NEW x \in {Resting} \cup Updating \cup Removing,
           creq' = [creq EXCEPT ![r] = x],
           UNCHANGED <<configs, snapshot, delivery, received>>,
           x # Resting => configs[x.cfg] # NoConfig
    PROVE  ConfigRows'
<1>1. \A q \in ConfigRequests : creq'[q] = IF q = r THEN x ELSE creq[q]
  BY DEF ConfigRows, ConfigurationsTypeOK
<1> QED BY <1>1 DEF ConfigRows, ConfigurationsTypeOK

\* The commits of create, update and delete write rows of the table's type.
LEMMA ConfigCommits ==
    ASSUME ConfigRows, NEW c \in ConfigIds, NEW row \in ConfigRow,
           configs' = [configs EXCEPT ![c] = row],
           \A q \in ConfigRequests : creq'[q] \in {creq[q], Resting},
           creq' \in [ConfigRequests -> {Resting} \cup Updating \cup Removing],
           UNCHANGED <<snapshot, delivery, received>>
    PROVE  ConfigRows'
<1>1. row # NoConfig
  BY DEF ConfigRow, NoConfig
<1>2. \A d \in ConfigIds : configs'[d] = IF d = c THEN row ELSE configs[d]
  BY DEF ConfigRows, ConfigurationsTypeOK
<1>3. ConfigurationsTypeOK'
  BY DEF ConfigRows, ConfigurationsTypeOK
<1>4. ASSUME NEW q \in ConfigRequests, creq'[q] # Resting
      PROVE  configs'[creq'[q].cfg] # NoConfig
  <2>1. creq'[q] = creq[q] /\ creq[q] # Resting
    BY <1>4
  <2> QED BY <1>1, <1>2, <2>1, RequestOnConfig DEF ConfigRows
<1> QED BY <1>3, <1>4 DEF ConfigRows

\* The requests of users leave the runs and their callbacks alone.
LEMMA ConfigRequestStep ==
    ASSUME ConfigRows, NEW r \in ConfigRequests,
           \/ \E c \in ConfigIds :
                RemoveRead(r, c) \/ \E p, h \in MaybeUrl : UpdateRead(r, c, p, h)
           \/ UpdateFlush(r) \/ UpdateCommit(r) \/ RemoveFlush(r) \/ RemoveCommit(r)
           \/ ConfigurationsAbort(r)
    PROVE  ConfigRows' /\ UNCHANGED <<snapshot, delivery, received>>
<1> DEFINE Goal == ConfigRows' /\ UNCHANGED <<snapshot, delivery, received>>
<1>1. ASSUME NEW c \in ConfigIds, RemoveRead(r, c)
      PROVE  Goal
  <2>1. [at |-> "found", cfg |-> c] \in Removing
    BY DEF Removing
  <2> QED BY <1>1, <2>1, ConfigRequestMoves DEF RemoveRead, Available
<1>2. ASSUME NEW c \in ConfigIds, NEW p \in MaybeUrl, NEW h \in MaybeUrl,
             UpdateRead(r, c, p, h)
      PROVE  Goal
  <2>1. configs[c] \in ConfigRow
    BY <1>2 DEF UpdateRead, Available, ConfigRows, ConfigurationsTypeOK
  <2>2. [at |-> "read", cfg |-> c, seen |-> configs[c].version, pipeline |-> p, hook |-> h]
            \in Updating
    BY <2>1 DEF Updating, ConfigRow
  <2> QED BY <1>2, <2>2, ConfigRequestMoves DEF UpdateRead, Available
<1>3. CASE UpdateFlush(r)
  <2>1. creq[r] # Resting /\ creq[r].at = "read"
    BY <1>3 DEF UpdateFlush, Resting
  <2>2. creq[r] \in Updating /\ configs[creq[r].cfg] # NoConfig
    BY <2>1, RequestOnConfig DEF ConfigRows
  <2>3. [creq[r] EXCEPT !.at = "flushed"] \in Updating
        /\ [creq[r] EXCEPT !.at = "flushed"].cfg = creq[r].cfg
    BY <2>2 DEF Updating
  <2> QED BY <1>3, <2>2, <2>3, ConfigRequestMoves DEF UpdateFlush
<1>4. CASE RemoveFlush(r)
  <2>1. creq[r] # Resting /\ creq[r].at = "found"
    BY <1>4 DEF RemoveFlush, Resting
  <2>2. creq[r] \in Removing /\ configs[creq[r].cfg] # NoConfig
    BY <2>1, RequestOnConfig DEF ConfigRows
  <2>3. [creq[r] EXCEPT !.at = "removing"] \in Removing
        /\ [creq[r] EXCEPT !.at = "removing"].cfg = creq[r].cfg
    BY <2>2 DEF Removing
  <2> QED BY <1>4, <2>2, <2>3, ConfigRequestMoves DEF RemoveFlush
<1>5. CASE ConfigurationsAbort(r)
  BY <1>5, ConfigRequestMoves DEF ConfigurationsAbort, ConfigRequestEnds
<1>6. ASSUME ConfigRequestEnds(r)
      PROVE  /\ \A q \in ConfigRequests : creq'[q] \in {creq[q], Resting}
             /\ creq' \in [ConfigRequests -> {Resting} \cup Updating \cup Removing]
  BY <1>6 DEF ConfigRequestEnds, ConfigRows, ConfigurationsTypeOK
<1>7. CASE UpdateCommit(r)
  <2> DEFINE u == creq[r]
             old == configs[u.cfg]
             row == [old EXCEPT !.pipeline = Chosen(u.pipeline, old.pipeline),
                                !.hook = Chosen(u.hook, old.hook), !.version = u.seen + 1]
  <2>1. u # Resting /\ u.at = "flushed"
    BY <1>7 DEF UpdateCommit, Resting
  <2>2. u \in Updating /\ u.cfg \in ConfigIds /\ old \in ConfigRow
    BY <2>1, RequestOnConfig
  <2>3. u.seen + 1 \in Nat /\ Chosen(u.pipeline, old.pipeline) \in MaybeUrl
        /\ Chosen(u.hook, old.hook) \in MaybeUrl
    BY <2>2 DEF Updating, Chosen, ConfigRow
  <2>4. row \in ConfigRow
    BY <2>2, <2>3 DEF ConfigRow
  <2>5. configs' = [configs EXCEPT ![u.cfg] = row] /\ UNCHANGED <<snapshot, delivery, received>>
        /\ ConfigRequestEnds(r)
    BY <1>7 DEF UpdateCommit
  <2> HIDE DEF row
  <2> QED BY <1>6, <2>2, <2>4, <2>5, ConfigCommits
<1>8. CASE RemoveCommit(r)
  <2> DEFINE row == [configs[creq[r].cfg] EXCEPT !.deleted = TRUE]
  <2>1. creq[r] # Resting
    BY <1>8 DEF RemoveCommit, Resting
  <2>2. creq[r].cfg \in ConfigIds /\ row \in ConfigRow
    BY <2>1, RequestOnConfig DEF ConfigRow
  <2>3. configs' = [configs EXCEPT ![creq[r].cfg] = row]
        /\ UNCHANGED <<snapshot, delivery, received>> /\ ConfigRequestEnds(r)
    BY <1>8 DEF RemoveCommit
  <2> HIDE DEF row
  <2> QED BY <1>6, <2>2, <2>3, ConfigCommits
<1> QED BY <1>1, <1>2, <1>3, <1>4, <1>5, <1>7, <1>8

\* One run's delivery advances; the others and the configurations stay.
LEMMA DeliveryAdvances ==
    ASSUME CallbackInv, NEW r \in ConfigRuns, NEW d \in Deliveries,
           NEW got \in [Urls -> Nat],
           delivery' = [delivery EXCEPT ![r] = d],
           received' = [received EXCEPT ![r] = got],
           UNCHANGED <<configs, creq, snapshot>>,
           CallsFit(d, got, snapshot[r])
    PROVE  CallbackInv'
<1> USE DEF CallbackInv, ConfigRows, ConfigurationsTypeOK
<1>1. \A q \in ConfigRuns : /\ delivery'[q] = IF q = r THEN d ELSE delivery[q]
                            /\ received'[q] = IF q = r THEN got ELSE received[q]
  OBVIOUS
<1>2. ConfigRows'
  OBVIOUS
<1>3. ASSUME NEW q \in ConfigRuns
      PROVE  CallsOf(q)'
  <2>1. CASE q = r
    BY <1>1, <2>1 DEF CallsOf, CallsFit
  <2>2. CASE q # r
    BY <1>1, <2>2 DEF CallsOf, CallsFit
  <2> QED BY <2>1, <2>2
<1> QED BY <1>2, <1>3

\* Stages of a delivery have the type of one.
LEMMA StagesAreDeliveries ==
    /\ \A s \in {"none", "triggered", "delivered", "failed", "lost", "sending"} :
          Stage(s) \in Deliveries
    /\ \A s : Stage(s).at = s /\ Stage(s).tries = 0
<1>1. 0 \in 0 .. ATTEMPTS - 1
  BY DEF ATTEMPTS
<1> QED BY <1>1 DEF Stage, Deliveries

\* The steps of a run keep CallbackInv.
LEMMA DeliveryStep ==
    ASSUME CallbackInv, NEW r \in ConfigRuns,
           Finalize(r) \/ Answered(r) \/ AttemptFails(r) \/ DeliveryStops(r)
    PROVE  CallbackInv'
<1> DEFINE got == received[r]
           more == [received[r] EXCEPT ![snapshot[r]] = @ + 1]
           to == snapshot[r]
<1>1. /\ delivery[r] \in Deliveries /\ to \in MaybeUrl
      /\ CallsFit(delivery[r], got, to)
      /\ got \in [Urls -> Nat]
  BY DEF CallbackInv, CallsOf, ConfigRows, ConfigurationsTypeOK
<1>2. received = [received EXCEPT ![r] = got]
  BY DEF CallbackInv, ConfigRows, ConfigurationsTypeOK
<1>3. more \in [Urls -> Nat] /\ \A u \in Urls : more[u] = IF u = to THEN got[u] + 1 ELSE got[u]
  <2>1. \A u \in Urls : more[u] = IF u = to THEN got[u] + 1 ELSE got[u]
    BY <1>1
  <2>2. \A u \in Urls : more[u] \in Nat
    BY <1>1, <2>1
  <2>3. more = [u \in Urls |-> more[u]]
    BY <1>1
  <2> QED BY <2>1, <2>2, <2>3
<1>4. UNCHANGED <<configs, creq, snapshot>>
  BY DEF Finalize, Answered, AttemptFails, DeliveryStops
<1>5. CASE Finalize(r)
  <2>1. delivery' = [delivery EXCEPT ![r] = Stage("sending")] /\ delivery[r].at = "triggered"
        /\ received' = [received EXCEPT ![r] = got]
    BY <1>2, <1>5 DEF Finalize
  <2> HIDE DEF got
  <2>2. Stage("sending") \in Deliveries /\ Stage("sending").at = "sending"
        /\ Stage("sending").tries = 0
    BY StagesAreDeliveries
  <2>3. CallsFit(Stage("sending"), got, to)
    BY <1>1, <2>1, <2>2 DEF CallsFit
  <2> QED BY <1>1, <1>4, <2>1, <2>2, <2>3, DeliveryAdvances
<1>6. CASE DeliveryStops(r)
  <2>1. PICK end \in {"failed", "lost"} : delivery' = [delivery EXCEPT ![r] = Stage(end)]
    BY <1>6 DEF DeliveryStops
  <2>2. received' = [received EXCEPT ![r] = got]
    BY <1>2, <1>6 DEF DeliveryStops
  <2> HIDE DEF got
  <2>3. Stage(end) \in Deliveries /\ Stage(end).at = end
    BY StagesAreDeliveries
  <2>4. CallsFit(Stage(end), got, to)
    BY <1>1, <2>3 DEF CallsFit
  <2> QED BY <1>1, <1>4, <2>1, <2>2, <2>3, <2>4, DeliveryAdvances
<1>7. ASSUME delivery[r].at = "sending", CallbackUrl(r) # NoUrl
      PROVE  /\ to \in Urls
             /\ delivery[r].tries \in 0 .. 2
             /\ \A u \in Urls : got[u] <= delivery[r].tries
             /\ \A u \in Urls : got[u] > 0 => to = u
             /\ \A u \in Urls : more[u] <= delivery[r].tries + 1
             /\ \A u \in Urls : more[u] > 0 => to = u
             /\ more[to] > 0
  <2>1. to \in Urls
    BY <1>1, <1>7 DEF CallbackUrl, MaybeUrl
  <2>2. delivery[r].tries \in 0 .. 2
    BY <1>1, <1>7 DEF Deliveries, ATTEMPTS
  <2>3. \A u \in Urls : got[u] <= delivery[r].tries /\ (got[u] > 0 => to = u)
    BY <1>1, <1>7 DEF CallsFit
  <2> HIDE DEF got, more, to
  <2> QED BY <1>1, <1>3, <2>1, <2>2, <2>3
<1>8. CASE Answered(r)
  <2>1. received' = [received EXCEPT ![r] = more]
    BY <1>1, <1>8 DEF Answered, Arrives, CallbackUrl
  <2>2. delivery' = [delivery EXCEPT ![r] = Stage("delivered")]
        /\ delivery[r].at = "sending" /\ CallbackUrl(r) # NoUrl
    BY <1>8 DEF Answered
  <2> HIDE DEF got, more
  <2>3. Stage("delivered") \in Deliveries /\ Stage("delivered").at = "delivered"
    BY StagesAreDeliveries
  <2>4. \A u \in Urls : more[u] <= ATTEMPTS
    BY <1>3, <1>7, <2>2 DEF ATTEMPTS
  <2>5. CallsFit(Stage("delivered"), more, to)
    BY <1>7, <2>2, <2>3, <2>4 DEF CallsFit
  <2> QED BY <1>3, <1>4, <2>1, <2>2, <2>3, <2>5, DeliveryAdvances
<1>9. CASE AttemptFails(r)
  <2>1. received' = [received EXCEPT ![r] = more] \/ received' = [received EXCEPT ![r] = got]
    BY <1>1, <1>2, <1>9 DEF AttemptFails, Arrives, CallbackUrl
  <2>2. delivery' = [delivery EXCEPT ![r] = TryAgain(r)]
        /\ delivery[r].at = "sending" /\ CallbackUrl(r) # NoUrl
    BY <1>9 DEF AttemptFails
  <2> HIDE DEF got, more
  <2>3. TryAgain(r) \in Deliveries
        /\ TryAgain(r).at \in {"failed", "sending"}
        /\ (TryAgain(r).at = "sending" => TryAgain(r).tries = delivery[r].tries + 1)
    <3>1. CASE delivery[r].tries = ATTEMPTS - 1
      BY <3>1, StagesAreDeliveries DEF TryAgain
    <3>2. CASE delivery[r].tries # ATTEMPTS - 1
      <4>1. delivery[r].tries + 1 \in 0 .. ATTEMPTS - 1
        BY <1>7, <2>2, <3>2 DEF ATTEMPTS
      <4> QED BY <3>2, <4>1 DEF TryAgain, Deliveries
    <3> QED BY <3>1, <3>2
  <2>4. /\ \A u \in Urls : more[u] <= ATTEMPTS /\ got[u] <= ATTEMPTS
        /\ \A u \in Urls : got[u] <= delivery[r].tries + 1
    BY <1>1, <1>3, <1>7, <2>2 DEF ATTEMPTS
  <2>5. CallsFit(TryAgain(r), more, to) /\ CallsFit(TryAgain(r), got, to)
    BY <1>7, <2>2, <2>3, <2>4 DEF CallsFit
  <2> QED BY <1>1, <1>3, <1>4, <2>1, <2>2, <2>3, <2>5, DeliveryAdvances
<1> QED BY <1>5, <1>6, <1>8, <1>9

\* The calls received fit the attempts made, in every behaviour.
LEMMA CallbackInvHolds == ConfigurationsSpec => []CallbackInv
<1>1. ConfigurationsInit => CallbackInv
  BY StagesAreDeliveries
     DEF ConfigurationsInit, CallbackInv, ConfigRows, ConfigurationsTypeOK, CallsOf, CallsFit,
         MaybeUrl, Resting, NoConfig, ATTEMPTS
<1>2. ASSUME CallbackInv, [ConfigurationsNext]_configVars
      PROVE  CallbackInv'
  <2>1. CASE UNCHANGED configVars
    BY <1>2, <2>1 DEF configVars, CallbackInv, ConfigRows, ConfigurationsTypeOK, CallsOf, CallsFit
  <2>2. ASSUME ConfigRows', UNCHANGED <<snapshot, delivery, received>>
        PROVE  CallbackInv'
    BY <1>2, <2>2 DEF CallbackInv, CallsOf, CallsFit
  <2>3. ASSUME NEW c \in ConfigIds, NEW p \in MaybeUrl, NEW h \in MaybeUrl,
               CreateConfig(c, p, h)
        PROVE  CallbackInv'
    <3> DEFINE row == [pipeline |-> p, hook |-> h, version |-> 1, deleted |-> FALSE]
    <3>1. row \in ConfigRow
      BY DEF ConfigRow
    <3>2. configs' = [configs EXCEPT ![c] = row]
          /\ UNCHANGED <<creq, snapshot, delivery, received>>
      BY <2>3 DEF CreateConfig
    <3> HIDE DEF row
    <3> QED BY <1>2, <2>2, <3>1, <3>2, ConfigCommits
            DEF CallbackInv, ConfigRows, ConfigurationsTypeOK
  <2>4. ASSUME NEW r \in ConfigRuns, NEW c \in ConfigIds, TriggerRun(r, c)
        PROVE  CallbackInv'
    <3>1. configs[c] \in ConfigRow /\ delivery[r].at = "none"
      BY <1>2, <2>4 DEF TriggerRun, Available, CallbackInv, ConfigRows, ConfigurationsTypeOK
    <3>2. configs[c].pipeline \in MaybeUrl
      BY <3>1 DEF ConfigRow
    <3>3. /\ snapshot' = [snapshot EXCEPT ![r] = configs[c].pipeline]
          /\ delivery' = [delivery EXCEPT ![r] = Stage("triggered")]
          /\ UNCHANGED <<configs, creq, received>>
      BY <2>4 DEF TriggerRun
    <3>4. ConfigRows'
      BY <1>2, <3>2, <3>3, StagesAreDeliveries DEF CallbackInv, ConfigRows, ConfigurationsTypeOK
    <3>5. ASSUME NEW q \in ConfigRuns
          PROVE  CallsOf(q)'
      <4>1. CASE q = r
        <5>1. \A u \in Urls : received[r][u] = 0
          BY <1>2, <3>1 DEF CallbackInv, CallsOf, CallsFit
        <5>2. delivery'[r].at = "triggered"
          BY <1>2, <3>3, StagesAreDeliveries DEF CallbackInv, ConfigRows, ConfigurationsTypeOK
        <5> QED BY <3>3, <4>1, <5>1, <5>2 DEF CallsOf, CallsFit, ATTEMPTS
      <4>2. CASE q # r
        <5>1. delivery'[q] = delivery[q] /\ snapshot'[q] = snapshot[q]
          BY <1>2, <3>3, <4>2 DEF CallbackInv, ConfigRows, ConfigurationsTypeOK
        <5> QED BY <1>2, <3>3, <5>1 DEF CallbackInv, CallsOf, CallsFit
      <4> QED BY <4>1, <4>2
    <3> QED BY <3>4, <3>5 DEF CallbackInv
  <2>5. ASSUME NEW r \in ConfigRequests,
               \/ \E c \in ConfigIds :
                    RemoveRead(r, c) \/ \E p, h \in MaybeUrl : UpdateRead(r, c, p, h)
               \/ UpdateFlush(r) \/ UpdateCommit(r) \/ RemoveFlush(r) \/ RemoveCommit(r)
               \/ ConfigurationsAbort(r)
        PROVE  CallbackInv'
    BY <1>2, <2>2, <2>5, ConfigRequestStep DEF CallbackInv
  <2> QED BY <1>2, <2>1, <2>3, <2>4, <2>5, DeliveryStep DEF ConfigurationsNext
<1> QED BY <1>1, <1>2, PTL DEF ConfigurationsSpec

\* For any number of configurations, runs and requests, a receiver gets an event no
\* more often than there are attempts, and a delivery that is reported did arrive.
THEOREM AttemptsBoundDeliveries ==
    ConfigurationsSpec => [](ConfigurationsTypeOK /\ DeliveriesAreBounded)
<1>1. CallbackInv => ConfigurationsTypeOK /\ DeliveriesAreBounded
  BY DEF CallbackInv, ConfigRows, CallsOf, CallsFit, DeliveriesAreBounded, ReceivedAt
<1> QED BY <1>1, CallbackInvHolds, PTL

---------------------------------------------------------------------------
(***************************************************************************)
(* MetricCatalogue                                                         *)
(***************************************************************************)

\* The instances about to insert a row for a built-in metric, and the requests
\* about to insert one for a custom metric.
Adding(m) == {i \in Instances : boot[i].at = "seeding" /\ m \in boot[i].new}
Creating(n) == {r \in MetricRequests : mreq[r] # NoName /\ mreq[r].name = n}

\* DuplicatesAreBounded made inductive: the rows to come count.
RowsToCome ==
    /\ \A m \in Places : builtin[m] + Cardinality(Adding(m)) <= Cardinality(Instances)
    /\ \A n \in CustomNames : custom[n] + Cardinality(Creating(n)) <= Cardinality(MetricRequests)

\* A metric that a seeding instance has passed has a row or will get one.
Passed(i) ==
    boot[i].at = "seeding" =>
        \A m \in Places : m < boot[i].next => builtin[m] > 0 \/ m \in boot[i].new

CatalogueInv ==
    /\ MetricsTypeOK
    /\ RowsToCome
    /\ \A i \in Instances : Passed(i)
    /\ SeededCatalogueIsComplete

\* Subsets of the instances and of the requests are finite and no larger.
LEMMA FewActors ==
    /\ \A T \in SUBSET Instances :
          IsFiniteSet(T) /\ Cardinality(T) \in Nat /\ Cardinality(T) <= Cardinality(Instances)
    /\ \A T \in SUBSET MetricRequests :
          IsFiniteSet(T) /\ Cardinality(T) \in Nat /\ Cardinality(T) <= Cardinality(MetricRequests)
    /\ Cardinality(Instances) \in Nat /\ Cardinality(MetricRequests) \in Nat
BY CatalogueAssumption, FS_Subset, FS_CardinalityType

\* A set that loses an element has one element less.
LEMMA OneLess ==
    ASSUME NEW T, IsFiniteSet(T), NEW x \in T
    PROVE  Cardinality(T) \in Nat /\ Cardinality(T \ {x}) + 1 = Cardinality(T)
<1>1. Cardinality(T) \in Nat /\ Cardinality(T \ {x}) = Cardinality(T) - 1
  BY FS_RemoveElement, FS_CardinalityType
<1> QED BY <1>1

\* A step of one instance that inserts nothing.
LEMMA InstanceMoves ==
    ASSUME CatalogueInv, NEW i \in Instances, NEW b \in {Down} \cup Seeding \cup Up,
           boot' = [boot EXCEPT ![i] = b], UNCHANGED <<builtin, custom, mreq>>,
           b.at = "seeding" => \A m \in b.new : builtin[m] = 0 \/ i \in Adding(m),
           b.at = "seeding" => \A m \in Places : m < b.next => builtin[m] > 0 \/ m \in b.new,
           b.at = "up" => ~b.seeded
    PROVE  CatalogueInv'
<1> USE DEF CatalogueInv
<1>1. \A j \in Instances : boot'[j] = IF j = i THEN b ELSE boot[j]
  BY DEF MetricsTypeOK
<1>2. MetricsTypeOK'
  BY DEF MetricsTypeOK
<1>3. ASSUME NEW m \in Places
      PROVE  builtin'[m] + Cardinality(Adding(m)') <= Cardinality(Instances)
  <2>1. builtin[m] \in Nat /\ builtin'[m] = builtin[m]
    BY DEF MetricsTypeOK
  <2>2. Adding(m)' \in SUBSET Instances /\ Adding(m) \in SUBSET Instances
    BY DEF Adding
  <2>3. CASE builtin[m] = 0
    BY <2>1, <2>2, <2>3, FewActors
  <2>4. CASE builtin[m] # 0
    <3>1. Adding(m)' \subseteq Adding(m)
      BY <1>1, <2>4 DEF Adding
    <3>2. Cardinality(Adding(m)') <= Cardinality(Adding(m))
      BY <2>2, <3>1, FewActors, FS_Subset
    <3> QED BY <2>1, <2>2, <3>2, FewActors DEF RowsToCome
  <2> QED BY <2>3, <2>4
<1>4. RowsToCome'
  BY <1>3 DEF RowsToCome, Creating
<1>5. \A j \in Instances : Passed(j)'
  BY <1>1 DEF Passed
<1>6. SeededCatalogueIsComplete'
  BY <1>1 DEF SeededCatalogueIsComplete
<1> QED BY <1>2, <1>4, <1>5, <1>6

\* The steps of a starting instance before its commit.
LEMMA SeedingStep ==
    ASSUME CatalogueInv, NEW i \in Instances,
           SeedStart(i) \/ SeedLookup(i) \/ SeedFails(i) \/ InstanceStops(i)
    PROVE  CatalogueInv'
<1> USE DEF CatalogueInv
<1>1. CASE SeedStart(i)
  <2> DEFINE b == [at |-> "seeding", next |-> 1, new |-> {}]
  <2>1. b \in Seeding /\ b.next = 1 /\ b.new = {} /\ b.at = "seeding"
    BY CatalogueAssumption DEF Seeding
  <2>2. boot' = [boot EXCEPT ![i] = b] /\ UNCHANGED <<builtin, custom, mreq>>
    BY <1>1 DEF SeedStart
  <2> HIDE DEF b
  <2>3. \A m \in Places : ~(m < b.next)
    BY <2>1 DEF Places
  <2> QED BY <2>1, <2>2, <2>3, InstanceMoves
<1>2. CASE SeedLookup(i)
  <2> DEFINE b == LookedUp(i)
             m == boot[i].next
  <2>1. boot[i] \in Seeding /\ ~AllSeen(i)
    BY <1>2 DEF SeedLookup, MetricsTypeOK, Down, Up
  <2>2. m \in Places
    BY <2>1, CatalogueAssumption DEF Seeding, AllSeen, Places
  <2>3. /\ b \in Seeding /\ b.at = "seeding" /\ b.next = m + 1
        /\ b.new = IF builtin[m] = 0 THEN boot[i].new \cup {m} ELSE boot[i].new
    <3>1. m + 1 \in 1 .. BuiltinCount + 1
      BY <2>2, CatalogueAssumption DEF Places
    <3>2. CASE builtin[m] = 0
      BY <2>1, <2>2, <3>1, <3>2 DEF LookedUp, Seeding
    <3>3. CASE builtin[m] # 0
      BY <2>1, <2>2, <3>1, <3>3 DEF LookedUp, Seeding
    <3> QED BY <3>2, <3>3
  <2>4. boot' = [boot EXCEPT ![i] = b] /\ UNCHANGED <<builtin, custom, mreq>>
    BY <1>2 DEF SeedLookup
  <2>5. boot[i].at = "seeding" /\ boot[i].new \subseteq Places
    BY <2>1 DEF Seeding
  <2> HIDE DEF b
  <2>6. \A k \in b.new : builtin[k] = 0 \/ i \in Adding(k)
    BY <2>3, <2>5 DEF Adding
  <2>7. \A k \in Places : k < b.next => builtin[k] > 0 \/ k \in b.new
    <3> SUFFICES ASSUME NEW k \in Places, k < m + 1
                 PROVE  builtin[k] > 0 \/ k \in b.new
      BY <2>3
    <3>1. CASE k = m
      BY <2>2, <2>3, <3>1 DEF MetricsTypeOK
    <3>2. CASE k # m
      <4>1. k < m
        BY <2>2, <3>2, CatalogueAssumption DEF Places
      <4> QED BY <2>3, <2>5, <4>1 DEF Passed
    <3> QED BY <3>1, <3>2
  <2> QED BY <2>3, <2>4, <2>6, <2>7, InstanceMoves
<1>3. CASE SeedFails(i)
  <2> DEFINE b == [at |-> "up", seeded |-> FALSE]
  <2>1. b \in Up /\ b.at = "up" /\ b.seeded = FALSE
    BY DEF Up
  <2>2. boot' = [boot EXCEPT ![i] = b] /\ UNCHANGED <<builtin, custom, mreq>>
    BY <1>3 DEF SeedFails
  <2> HIDE DEF b
  <2> QED BY <2>1, <2>2, InstanceMoves
<1>4. CASE InstanceStops(i)
  <2>1. Down.at = "down"
    BY DEF Down
  <2>2. boot' = [boot EXCEPT ![i] = Down] /\ UNCHANGED <<builtin, custom, mreq>>
    BY <1>4 DEF InstanceStops
  <2> QED BY <2>1, <2>2, InstanceMoves
<1> QED BY <1>1, <1>2, <1>3, <1>4

\* The commit of a start: every row it adds was counted before.
LEMMA SeedCommitStep ==
    ASSUME CatalogueInv, NEW i \in Instances, SeedCommit(i)
    PROVE  CatalogueInv'
<1> USE DEF CatalogueInv
<1> DEFINE b == [at |-> "up", seeded |-> TRUE]
<1>1. boot[i] \in Seeding /\ AllSeen(i) /\ boot[i].at = "seeding"
  BY DEF SeedCommit, MetricsTypeOK, Down, Up
<1>2. b \in Up /\ b.at = "up"
  BY DEF Up
<1>3. /\ boot' = [boot EXCEPT ![i] = b] /\ UNCHANGED <<custom, mreq>>
      /\ builtin' = [m \in Places |-> IF m \in boot[i].new THEN builtin[m] + 1 ELSE builtin[m]]
  BY DEF SeedCommit
<1> HIDE DEF b
<1>4. \A j \in Instances : boot'[j] = IF j = i THEN b ELSE boot[j]
  BY <1>3 DEF MetricsTypeOK
<1>5. \A m \in Places :
        builtin[m] \in Nat
        /\ builtin'[m] = IF m \in boot[i].new THEN builtin[m] + 1 ELSE builtin[m]
  BY <1>3 DEF MetricsTypeOK
<1>6. MetricsTypeOK'
  BY <1>2, <1>3, <1>5 DEF MetricsTypeOK
<1>7. ASSUME NEW m \in Places
      PROVE  builtin'[m] + Cardinality(Adding(m)') <= Cardinality(Instances)
  <2>1. Adding(m)' = Adding(m) \ {i}
    BY <1>2, <1>4 DEF Adding
  <2>2. Adding(m) \in SUBSET Instances /\ Adding(m)' \in SUBSET Instances
    BY DEF Adding
  <2>3. builtin[m] + Cardinality(Adding(m)) <= Cardinality(Instances)
    BY DEF RowsToCome
  <2>4. CASE m \in boot[i].new
    <3>1. i \in Adding(m)
      BY <1>1, <2>4 DEF Adding
    <3>2. Cardinality(Adding(m)') + 1 = Cardinality(Adding(m))
      BY <2>1, <2>2, <3>1, FewActors, OneLess
    <3> QED BY <1>5, <2>2, <2>3, <2>4, <3>2, FewActors
  <2>5. CASE m \notin boot[i].new
    <3>1. Adding(m)' = Adding(m)
      BY <2>1, <2>5 DEF Adding
    <3> QED BY <1>5, <2>3, <2>5, <3>1
  <2> QED BY <2>4, <2>5
<1>8. RowsToCome'
  BY <1>3, <1>7 DEF RowsToCome, Creating
<1>9. \A m \in Places : builtin[m] > 0 => builtin'[m] > 0
  BY <1>5
<1>10. \A j \in Instances : Passed(j)'
  BY <1>2, <1>4, <1>9 DEF Passed
<1>11. \A m \in Places : builtin'[m] > 0
  <2> SUFFICES ASSUME NEW m \in Places
               PROVE  builtin'[m] > 0
    OBVIOUS
  <2>1. m < boot[i].next
    BY <1>1, CatalogueAssumption DEF AllSeen, Seeding, Places
  <2>2. builtin[m] > 0 \/ m \in boot[i].new
    BY <1>1, <2>1 DEF Passed
  <2> QED BY <1>5, <2>2
<1>12. SeededCatalogueIsComplete'
  BY <1>11 DEF SeededCatalogueIsComplete
<1> QED BY <1>6, <1>8, <1>10, <1>12

\* The requests for custom metrics.
LEMMA CustomStep ==
    ASSUME CatalogueInv, NEW r \in MetricRequests,
           CustomCommit(r) \/ CustomAbort(r) \/ \E n \in CustomNames : CustomCheck(r, n)
    PROVE  CatalogueInv'
<1> USE DEF CatalogueInv
<1>1. UNCHANGED <<builtin, boot>>
  BY DEF CustomCommit, CustomAbort, CustomCheck
<1>2. /\ \A i \in Instances : Passed(i)'
      /\ SeededCatalogueIsComplete'
      /\ \A m \in Places : builtin'[m] + Cardinality(Adding(m)') <= Cardinality(Instances)
  BY <1>1 DEF Passed, SeededCatalogueIsComplete, RowsToCome, Adding
<1>3. SUFFICES MetricsTypeOK' /\ \A n \in CustomNames :
          custom'[n] + Cardinality(Creating(n)') <= Cardinality(MetricRequests)
  BY <1>2 DEF RowsToCome
<1>4. \A n \in CustomNames :
          /\ custom[n] \in Nat /\ Creating(n) \in SUBSET MetricRequests
          /\ Creating(n)' \in SUBSET MetricRequests
          /\ custom[n] + Cardinality(Creating(n)) <= Cardinality(MetricRequests)
  BY DEF MetricsTypeOK, RowsToCome, Creating
<1>5. ASSUME NEW n \in CustomNames, CustomCheck(r, n)
      PROVE  MetricsTypeOK' /\ \A k \in CustomNames :
                 custom'[k] + Cardinality(Creating(k)') <= Cardinality(MetricRequests)
  <2>1. MetricsTypeOK'
    BY <1>1, <1>5 DEF CustomCheck, MetricsTypeOK, Missing
  <2>2. \A k \in CustomNames : k # n => Creating(k)' = Creating(k)
    BY <1>5 DEF CustomCheck, Creating, MetricsTypeOK, NoName
  <2>3. custom' = custom /\ custom[n] = 0
    BY <1>5 DEF CustomCheck
  <2> QED BY <1>4, <2>1, <2>2, <2>3, FewActors
<1>6. CASE CustomAbort(r)
  <2>1. MetricsTypeOK'
    BY <1>1, <1>6 DEF CustomAbort, MetricsTypeOK
  <2>2. \A k \in CustomNames : Creating(k)' \subseteq Creating(k)
    BY <1>6 DEF CustomAbort, Creating, MetricsTypeOK
  <2>3. \A k \in CustomNames : Cardinality(Creating(k)') <= Cardinality(Creating(k))
    BY <1>4, <2>2, FewActors, FS_Subset
  <2>4. custom' = custom
    BY <1>6 DEF CustomAbort
  <2> QED BY <1>4, <2>1, <2>3, <2>4, FewActors
<1>7. CASE CustomCommit(r)
  <2> DEFINE n == mreq[r].name
  <2>1. mreq[r] # NoName /\ n \in CustomNames
    BY <1>7 DEF CustomCommit, MetricsTypeOK, Missing
  <2>2. /\ custom' = [custom EXCEPT ![n] = @ + 1]
        /\ mreq' = [mreq EXCEPT ![r] = NoName]
    BY <1>7 DEF CustomCommit
  <2>3. MetricsTypeOK'
    BY <1>1, <2>1, <2>2 DEF MetricsTypeOK
  <2>4. \A k \in CustomNames : Creating(k)' = Creating(k) \ {r}
    BY <2>2 DEF Creating, MetricsTypeOK
  <2>5. \A k \in CustomNames : custom'[k] = IF k = n THEN custom[k] + 1 ELSE custom[k]
    BY <2>1, <2>2 DEF MetricsTypeOK
  <2>6. ASSUME NEW k \in CustomNames
        PROVE  custom'[k] + Cardinality(Creating(k)') <= Cardinality(MetricRequests)
    <3>1. CASE k = n
      <4>1. r \in Creating(k)
        BY <2>1, <3>1 DEF Creating
      <4>2. Cardinality(Creating(k)') + 1 = Cardinality(Creating(k))
        BY <1>4, <2>4, <4>1, FewActors, OneLess
      <4> QED BY <1>4, <2>5, <3>1, <4>2, FewActors
    <3>2. CASE k # n
      <4>1. Creating(k)' = Creating(k)
        BY <2>4, <3>2 DEF Creating
      <4> QED BY <1>4, <2>5, <3>2, <4>1
    <3> QED BY <3>1, <3>2
  <2> QED BY <2>3, <2>6
<1> QED BY <1>5, <1>6, <1>7

\* For any number of instances, metrics and requests, and however often the
\* instances restart.
THEOREM CatalogueIsSound ==
    MetricsSpec => [](MetricsTypeOK /\ DuplicatesAreBounded /\ SeededCatalogueIsComplete)
<1>1. ASSUME MetricsInit
      PROVE  CatalogueInv
  <2>1. MetricsTypeOK
    BY <1>1 DEF MetricsInit, MetricsTypeOK
  <2>2. /\ \A m \in Places : builtin[m] = 0 /\ Adding(m) = {}
        /\ \A n \in CustomNames : custom[n] = 0 /\ Creating(n) = {}
        /\ \A i \in Instances : boot[i].at = "down"
    BY <1>1 DEF MetricsInit, Adding, Creating, Down
  <2>3. Cardinality({}) = 0
    BY FS_EmptySet
  <2> QED BY <2>1, <2>2, <2>3, FewActors
          DEF CatalogueInv, RowsToCome, Passed, SeededCatalogueIsComplete
<1>2. ASSUME CatalogueInv, [MetricsNext]_metricVars
      PROVE  CatalogueInv'
  <2>1. CASE UNCHANGED metricVars
    BY <1>2, <2>1 DEF metricVars, CatalogueInv, MetricsTypeOK, RowsToCome, Adding, Creating,
                      Passed, SeededCatalogueIsComplete
  <2>2. CASE MetricsNext
    BY <1>2, <2>2, SeedingStep, SeedCommitStep, CustomStep DEF MetricsNext
  <2> QED BY <1>2, <2>1, <2>2
<1>3. ASSUME CatalogueInv
      PROVE  DuplicatesAreBounded
  <2>1. /\ \A m \in Places : builtin[m] \in Nat /\ Adding(m) \in SUBSET Instances
        /\ \A n \in CustomNames : custom[n] \in Nat /\ Creating(n) \in SUBSET MetricRequests
    BY <1>3 DEF CatalogueInv, MetricsTypeOK, Adding, Creating
  <2> QED BY <1>3, <2>1, FewActors DEF CatalogueInv, RowsToCome, DuplicatesAreBounded
<1>4. CatalogueInv => MetricsTypeOK /\ SeededCatalogueIsComplete
  BY DEF CatalogueInv
<1> QED BY <1>1, <1>2, <1>3, <1>4, PTL DEF MetricsSpec

\* For any number of instances that start and stop: one whose seeding committed
\* serves every built-in metric.
THEOREM SeedingIsComplete == MetricsSpec => []SeededCatalogueIsComplete
BY CatalogueIsSound, PTL

---------------------------------------------------------------------------
(***************************************************************************)
(* Accounts                                                                *)
(***************************************************************************)

Handling == {Idle} \cup Registering \cup LoggingIn \cup CreatingKey \cup OnKey

\* What a handler that has got to a place knows of the committed rows.
Knows(x) ==
    /\ x.at \in {"user", "commit"} => x.slug \notin orgs
    /\ x.at = "commit" => users[x.email] = NoUser
    /\ x.at \in {"password", "wrong", "right"} => users[x.email] # NoUser
    /\ x.at = "newkey" => apiKeys[x.key] = NoKey
    /\ x.at \in {"keyread", "keyused", "revokeread", "revoked"} => apiKeys[x.key] # NoKey

\* What the unique indexes keep apart.
Apart(x, y) ==
    /\ x.at \in {"user", "commit"} /\ y.at \in {"user", "commit"} => x.slug # y.slug
    /\ x.at = "commit" /\ y.at = "commit" => x.email # y.email
    /\ x.at = "newkey" /\ y.at = "newkey" => x.key # y.key

AccountsInv ==
    /\ AccountsTypeOK
    /\ \A r \in AccountRequests : Knows(areq[r])
    /\ \A p, r \in AccountRequests : p # r => Apart(areq[p], areq[r])
    /\ OneFounderPerOrganization

\* The kind of a request is told by its place.
LEMMA PlacesOfRequests ==
    ASSUME AccountsTypeOK, NEW r \in AccountRequests
    PROVE  /\ areq[r].at \in {"slug", "org", "user", "commit"} => areq[r] \in Registering
           /\ areq[r].at \in {"password", "wrong", "right"} => areq[r] \in LoggingIn
           /\ areq[r].at = "newkey" => areq[r] \in CreatingKey
           /\ areq[r].at \in {"keyread", "keyused", "revokeread", "revoked"}
                 => areq[r] \in OnKey
<1>1. areq[r] \in Handling
  BY DEF AccountsTypeOK, Handling
<1> QED BY <1>1 DEF Handling, Idle, Registering, LoggingIn, CreatingKey, OnKey

\* A handler moves on and no row changes.
LEMMA HandlerMoves ==
    ASSUME AccountsInv, NEW r \in AccountRequests, NEW x \in Handling,
           areq' = [areq EXCEPT ![r] = x], UNCHANGED <<orgs, users, apiKeys>>,
           Knows(x), \A q \in AccountRequests \ {r} : Apart(x, areq[q])
    PROVE  AccountsInv'
<1> USE DEF AccountsInv
<1>1. \A q \in AccountRequests : areq'[q] = IF q = r THEN x ELSE areq[q]
  BY DEF AccountsTypeOK
<1>2. AccountsTypeOK'
  BY DEF AccountsTypeOK, Handling
<1>3. \A q \in AccountRequests : Knows(areq[q])'
  BY <1>1 DEF Knows
<1>4. (\A p, q \in AccountRequests : p # q => Apart(areq[p], areq[q]))'
  BY <1>1 DEF Apart
<1>5. OneFounderPerOrganization'
  BY DEF OneFounderPerOrganization, FoundersOf
<1> QED BY <1>2, <1>3, <1>4, <1>5

\* Rolling back leaves nothing behind.
LEMMA HandlerEnds ==
    ASSUME AccountsInv, NEW r \in AccountRequests, Ends(r), UNCHANGED <<orgs, users, apiKeys>>
    PROVE  AccountsInv'
<1>1. Idle \in Handling /\ Idle.at = "idle"
  BY DEF Handling, Idle
<1>2. Knows(Idle) /\ \A q \in AccountRequests : Apart(Idle, areq[q])
  BY <1>1 DEF Knows, Apart
<1> QED BY <1>1, <1>2, HandlerMoves DEF Ends

\* The handler of a registration before its commit.
LEMMA RegisterStep ==
    ASSUME AccountsInv, NEW r \in AccountRequests,
           \/ \E e \in Emails, s \in Slugs : RegisterCheckEmail(r, e, s)
           \/ RegisterCheckSlug(r) \/ RegisterInsertOrg(r) \/ RegisterInsertUser(r)
    PROVE  AccountsInv'
<1>1. UNCHANGED <<orgs, users, apiKeys>>
  BY DEF RegisterCheckEmail, RegisterCheckSlug, RegisterInsertOrg, RegisterInsertUser
<1>2. ASSUME NEW e \in Emails, NEW s \in Slugs, RegisterCheckEmail(r, e, s)
      PROVE  AccountsInv'
  <2> DEFINE x == [at |-> "slug", email |-> e, slug |-> s]
  <2>1. x \in Handling /\ x.at = "slug"
    BY DEF Handling, Registering
  <2>2. areq' = [areq EXCEPT ![r] = x]
    BY <1>2 DEF RegisterCheckEmail
  <2> HIDE DEF x
  <2>3. Knows(x) /\ \A q \in AccountRequests : Apart(x, areq[q])
    BY <2>1 DEF Knows, Apart
  <2> QED BY <1>1, <2>1, <2>2, <2>3, HandlerMoves
<1>3. ASSUME NEW place \in {"org", "user", "commit"}, Goto(r, place), areq[r] \in Registering
      PROVE  /\ [areq[r] EXCEPT !.at = place] \in Handling
             /\ [areq[r] EXCEPT !.at = place].at = place
             /\ [areq[r] EXCEPT !.at = place].slug = areq[r].slug
             /\ [areq[r] EXCEPT !.at = place].email = areq[r].email
             /\ areq' = [areq EXCEPT ![r] = [areq[r] EXCEPT !.at = place]]
  <2>1. [areq[r] EXCEPT !.at = place] \in Registering
    BY <1>3 DEF Registering
  <2>2. areq' = [areq EXCEPT ![r] = [areq[r] EXCEPT !.at = place]]
    BY <1>3 DEF Goto
  <2> QED BY <1>3, <2>1, <2>2 DEF Registering, Handling
<1>4. ASSUME RegisterCheckSlug(r), ~Ends(r)
      PROVE  AccountsInv'
  <2> DEFINE x == [areq[r] EXCEPT !.at = "org"]
  <2>1. areq[r] \in Registering /\ Goto(r, "org")
    BY <1>4, PlacesOfRequests DEF RegisterCheckSlug, At, AccountsInv
  <2>2. x \in Handling /\ x.at = "org" /\ areq' = [areq EXCEPT ![r] = x]
    BY <1>3, <2>1
  <2> HIDE DEF x
  <2>3. Knows(x) /\ \A q \in AccountRequests : Apart(x, areq[q])
    BY <2>2 DEF Knows, Apart
  <2> QED BY <1>1, <2>2, <2>3, HandlerMoves
<1>5. ASSUME RegisterInsertOrg(r), ~Ends(r)
      PROVE  AccountsInv'
  <2> DEFINE x == [areq[r] EXCEPT !.at = "user"]
  <2>1. areq[r] \in Registering /\ Goto(r, "user") /\ areq[r].slug \notin orgs
    BY <1>5, PlacesOfRequests DEF RegisterInsertOrg, At, AccountsInv
  <2>2. x \in Handling /\ x.at = "user" /\ x.slug = areq[r].slug
        /\ areq' = [areq EXCEPT ![r] = x]
    BY <1>3, <2>1
  <2> HIDE DEF x
  <2>3. Knows(x)
    BY <2>1, <2>2 DEF Knows
  <2>4. \A q \in AccountRequests \ {r} : Apart(x, areq[q])
    BY <1>5, <2>2 DEF RegisterInsertOrg, SlugHeld, Apart
  <2> QED BY <1>1, <2>2, <2>3, <2>4, HandlerMoves
<1>6. ASSUME RegisterInsertUser(r), ~Ends(r)
      PROVE  AccountsInv'
  <2> DEFINE x == [areq[r] EXCEPT !.at = "commit"]
  <2>1. areq[r] \in Registering /\ Goto(r, "commit") /\ users[areq[r].email] = NoUser
        /\ areq[r].at = "user"
    BY <1>6, PlacesOfRequests DEF RegisterInsertUser, At, AccountsInv
  <2>2. x \in Handling /\ x.at = "commit" /\ x.slug = areq[r].slug
        /\ x.email = areq[r].email /\ areq' = [areq EXCEPT ![r] = x]
    BY <1>3, <2>1
  <2> HIDE DEF x
  <2>3. Knows(x)
    BY <2>1, <2>2 DEF Knows, AccountsInv
  <2>4. \A q \in AccountRequests \ {r} : Apart(x, areq[q])
    BY <1>6, <2>1, <2>2 DEF RegisterInsertUser, EmailHeld, Apart, AccountsInv
  <2> QED BY <1>1, <2>2, <2>3, <2>4, HandlerMoves
<1> QED BY <1>1, <1>2, <1>4, <1>5, <1>6, HandlerEnds

\* The commit of a registration: the organization is new, and so is its founder.
LEMMA RegisterCommitStep ==
    ASSUME AccountsInv, NEW r \in AccountRequests, RegisterCommit(r)
    PROVE  AccountsInv'
<1> USE DEF AccountsInv
<1>1. areq[r] \in Registering /\ areq[r].at = "commit"
  BY PlacesOfRequests DEF RegisterCommit, At
<1>2. PICK e \in Emails, s \in Slugs : areq[r].email = e /\ areq[r].slug = s
  BY <1>1 DEF Registering
<1> DEFINE row == [org |-> s, role |-> "admin", active |-> TRUE, attempts |-> 0]
<1>3. row \in UserRow /\ row # NoUser /\ row.org = s
  BY <1>2 DEF UserRow, NoUser
<1>4. orgs' = orgs \cup {s} /\ users' = [users EXCEPT ![e] = row]
      /\ areq' = [areq EXCEPT ![r] = Idle] /\ UNCHANGED apiKeys
  BY <1>2 DEF RegisterCommit, Ends
<1>5. s \notin orgs /\ users[e] = NoUser
  BY <1>1, <1>2 DEF Knows
<1> HIDE DEF row
<1>6. \A f \in Emails : users'[f] = IF f = e THEN row ELSE users[f]
  BY <1>4 DEF AccountsTypeOK
<1>7. \A q \in AccountRequests : areq'[q] = IF q = r THEN Idle ELSE areq[q]
  BY <1>4 DEF AccountsTypeOK
<1>8. AccountsTypeOK'
  BY <1>2, <1>3, <1>4 DEF AccountsTypeOK
<1>9. ASSUME NEW q \in AccountRequests
      PROVE  Knows(areq[q])'
  <2>1. CASE q = r
    BY <1>7, <2>1 DEF Knows, Idle
  <2>2. CASE q # r
    <3>1. areq'[q] = areq[q] /\ Apart(areq[q], areq[r]) /\ Knows(areq[q])
      BY <1>7, <2>2
    <3>2. areq[q].at \in {"password", "wrong", "right", "commit"} => areq[q].email \in Emails
      BY PlacesOfRequests DEF LoggingIn, Registering
    <3> QED BY <1>1, <1>2, <1>3, <1>4, <1>6, <3>1, <3>2 DEF Knows, Apart
  <2> QED BY <2>1, <2>2
<1>10. (\A p, q \in AccountRequests : p # q => Apart(areq[p], areq[q]))'
  BY <1>7 DEF Apart, Idle
<1>11. FoundersOf(s)' = {e}
  BY <1>2, <1>3, <1>5, <1>6 DEF FoundersOf, OneFounderPerOrganization
<1>12. \A t \in orgs : FoundersOf(t)' = FoundersOf(t)
  BY <1>2, <1>3, <1>5, <1>6 DEF FoundersOf
<1>13. OneFounderPerOrganization'
  <2>1. \A t \in orgs' : \E f \in FoundersOf(t)' : FoundersOf(t)' = {f}
    BY <1>4, <1>11, <1>12 DEF OneFounderPerOrganization
  <2>2. \A f \in Emails : users'[f] # NoUser => users'[f].org \in orgs'
    BY <1>3, <1>4, <1>6 DEF OneFounderPerOrganization
  <2> QED BY <2>1, <2>2 DEF OneFounderPerOrganization
<1> QED BY <1>8, <1>9, <1>10, <1>13

\* The row of a user changes, but not its organization.
LEMMA UserRowChanges ==
    ASSUME AccountsInv, NEW e \in Emails, NEW row \in UserRow, users[e] # NoUser,
           row.org = users[e].org,
           users' = [users EXCEPT ![e] = row], UNCHANGED <<orgs, apiKeys>>,
           areq' \in [AccountRequests -> Handling],
           \A q \in AccountRequests : areq'[q] \in {areq[q], Idle}
    PROVE  AccountsInv'
<1> USE DEF AccountsInv
<1>1. row # NoUser
  BY DEF UserRow, NoUser
<1>2. \A f \in Emails : users'[f] = IF f = e THEN row ELSE users[f]
  BY DEF AccountsTypeOK
<1>3. AccountsTypeOK'
  BY DEF AccountsTypeOK, Handling
<1>4. ASSUME NEW q \in AccountRequests
      PROVE  Knows(areq[q])'
  <2>1. CASE areq'[q] = Idle
    BY <2>1 DEF Knows, Idle
  <2>2. CASE areq'[q] = areq[q]
    <3>1. areq[q].at \in {"password", "wrong", "right", "commit"} => areq[q].email \in Emails
      BY PlacesOfRequests DEF LoggingIn, Registering
    <3> QED BY <1>1, <1>2, <2>2, <3>1 DEF Knows
  <2> QED BY <2>1, <2>2
<1>5. (\A p, q \in AccountRequests : p # q => Apart(areq[p], areq[q]))'
  BY DEF Apart, Idle
<1>6. \A t : FoundersOf(t)' = FoundersOf(t)
  BY <1>1, <1>2 DEF FoundersOf
<1>7. OneFounderPerOrganization'
  <2>1. \A t \in orgs' : \E f \in FoundersOf(t)' : FoundersOf(t)' = {f}
    BY <1>6 DEF OneFounderPerOrganization
  <2>2. \A f \in Emails : users'[f] # NoUser => users'[f].org \in orgs'
    BY <1>1, <1>2 DEF OneFounderPerOrganization
  <2> QED BY <2>1, <2>2 DEF OneFounderPerOrganization
<1> QED BY <1>3, <1>4, <1>5, <1>7

\* A handler that ends, among the others.
LEMMA OthersStay ==
    ASSUME AccountsTypeOK, NEW r \in AccountRequests, Ends(r)
    PROVE  /\ areq' \in [AccountRequests -> Handling]
           /\ \A q \in AccountRequests : areq'[q] \in {areq[q], Idle}
           /\ areq'[r] = Idle
BY DEF Ends, AccountsTypeOK, Handling

\* The handler of a login.
LEMMA LoginStep ==
    ASSUME AccountsInv, NEW r \in AccountRequests,
           \/ \E e \in Emails : LoginRead(r, e)
           \/ LoginFlushWrong(r) \/ LoginReject(r) \/ LoginFlushRight(r) \/ LoginCommit(r)
    PROVE  AccountsInv'
<1> USE DEF AccountsInv
<1>1. ASSUME NEW e \in Emails, LoginRead(r, e)
      PROVE  AccountsInv'
  <2> DEFINE x == [at |-> "password", email |-> e, attempts |-> users[e].attempts]
  <2>1. users[e] # NoUser /\ users[e] \in UserRow
    BY <1>1 DEF LoginRead, ActiveUser, AccountsTypeOK
  <2>2. x \in Handling /\ x.at = "password" /\ x.email = e
    BY <2>1 DEF UserRow, LoggingIn, Handling
  <2>3. areq' = [areq EXCEPT ![r] = x] /\ UNCHANGED <<orgs, users, apiKeys>>
    BY <1>1 DEF LoginRead
  <2> HIDE DEF x
  <2>4. Knows(x) /\ \A q \in AccountRequests : Apart(x, areq[q])
    BY <2>1, <2>2 DEF Knows, Apart
  <2> QED BY <2>2, <2>3, <2>4, HandlerMoves
<1>2. CASE LoginFlushWrong(r)
  <2> DEFINE x == [areq[r] EXCEPT !.at = "wrong", !.attempts = areq[r].attempts + 1]
  <2>1. areq[r] \in LoggingIn /\ areq[r].at = "password"
    BY <1>2, PlacesOfRequests DEF LoginFlushWrong, At
  <2>2. areq[r].attempts + 1 \in Nat
    BY <2>1 DEF LoggingIn
  <2>3. x \in Handling /\ x.at = "wrong" /\ x.email = areq[r].email
    BY <2>1, <2>2 DEF LoggingIn, Handling
  <2>4. areq' = [areq EXCEPT ![r] = x] /\ UNCHANGED <<orgs, users, apiKeys>>
    BY <1>2 DEF LoginFlushWrong
  <2> HIDE DEF x
  <2>5. Knows(x) /\ \A q \in AccountRequests : Apart(x, areq[q])
    BY <2>1, <2>3 DEF Knows, Apart
  <2> QED BY <2>3, <2>4, <2>5, HandlerMoves
<1>3. CASE LoginFlushRight(r)
  <2> DEFINE x == [areq[r] EXCEPT !.at = "right", !.attempts = 0]
  <2>1. areq[r] \in LoggingIn /\ areq[r].at = "password"
    BY <1>3, PlacesOfRequests DEF LoginFlushRight, At
  <2>2. x \in Handling /\ x.at = "right" /\ x.email = areq[r].email
    BY <2>1 DEF LoggingIn, Handling
  <2>3. areq' = [areq EXCEPT ![r] = x] /\ UNCHANGED <<orgs, users, apiKeys>>
    BY <1>3 DEF LoginFlushRight
  <2> HIDE DEF x
  <2>4. Knows(x) /\ \A q \in AccountRequests : Apart(x, areq[q])
    BY <2>1, <2>2 DEF Knows, Apart
  <2> QED BY <2>2, <2>3, <2>4, HandlerMoves
<1>4. CASE LoginReject(r)
  BY <1>4, HandlerEnds DEF LoginReject
<1>5. CASE LoginCommit(r)
  <2> DEFINE e == areq[r].email
             row == [users[e] EXCEPT !.attempts = areq[r].attempts]
  <2>1. areq[r] \in LoggingIn /\ areq[r].at = "right"
    BY <1>5, PlacesOfRequests DEF LoginCommit, At
  <2>2. e \in Emails /\ users[e] # NoUser /\ areq[r].attempts \in Nat
    BY <2>1 DEF LoggingIn, Knows
  <2>3. users[e] \in UserRow
    BY <2>2 DEF AccountsTypeOK
  <2>4. row \in UserRow /\ row.org = users[e].org
    BY <2>2, <2>3 DEF UserRow
  <2>5. users' = [users EXCEPT ![e] = row] /\ UNCHANGED <<orgs, apiKeys>> /\ Ends(r)
    BY <1>5 DEF LoginCommit
  <2> HIDE DEF row, e
  <2> QED BY <2>2, <2>4, <2>5, OthersStay, UserRowChanges
<1> QED BY <1>1, <1>2, <1>3, <1>4, <1>5

\* An operator switches a user.
LEMMA SetActiveStep ==
    ASSUME AccountsInv, NEW e \in Emails, SetActive(e)
    PROVE  AccountsInv'
<1> DEFINE row == [users[e] EXCEPT !.active = ~users[e].active]
<1>1. users[e] # NoUser /\ users[e] \in UserRow
  BY DEF SetActive, AccountsInv, AccountsTypeOK
<1>3. row \in UserRow /\ row.org = users[e].org
  BY <1>1 DEF UserRow
<1>4. users' = [users EXCEPT ![e] = row] /\ UNCHANGED <<orgs, apiKeys, areq>>
  BY DEF SetActive
<1>5. areq' \in [AccountRequests -> Handling]
  BY <1>4 DEF AccountsInv, AccountsTypeOK, Handling
<1> HIDE DEF row
<1> QED BY <1>1, <1>3, <1>4, <1>5, UserRowChanges

\* The row of a key changes, or appears for the request that created it.
LEMMA KeyRowChanges ==
    ASSUME AccountsInv, NEW k \in ApiKeys, NEW row \in KeyRow,
           apiKeys' = [apiKeys EXCEPT ![k] = row], UNCHANGED <<orgs, users>>,
           areq' \in [AccountRequests -> Handling],
           \A q \in AccountRequests : areq'[q] \in {areq[q], Idle},
           \A q \in AccountRequests : areq'[q].at = "newkey" => areq[q].key # k
    PROVE  AccountsInv'
<1> USE DEF AccountsInv
<1>1. row # NoKey
  BY DEF KeyRow, NoKey
<1>2. \A j \in ApiKeys : apiKeys'[j] = IF j = k THEN row ELSE apiKeys[j]
  BY DEF AccountsTypeOK
<1>3. AccountsTypeOK'
  BY DEF AccountsTypeOK, Handling
<1>4. ASSUME NEW q \in AccountRequests
      PROVE  Knows(areq[q])'
  <2>1. CASE areq'[q] = Idle
    BY <2>1 DEF Knows, Idle
  <2>2. CASE areq'[q] = areq[q]
    <3>1. areq[q].at \in {"newkey", "keyread", "keyused", "revokeread", "revoked"}
              => areq[q].key \in ApiKeys
      BY PlacesOfRequests DEF CreatingKey, OnKey
    <3> QED BY <1>1, <1>2, <2>2, <3>1 DEF Knows
  <2> QED BY <2>1, <2>2
<1>5. (\A p, q \in AccountRequests : p # q => Apart(areq[p], areq[q]))'
  BY DEF Apart, Idle
<1>6. OneFounderPerOrganization'
  BY DEF OneFounderPerOrganization, FoundersOf
<1> QED BY <1>3, <1>4, <1>5, <1>6

\* What the commits on keys write: a row for a key that had none, or the row as
\* it is with one more column set.
LEMMA KeyCommits ==
    ASSUME AccountsInv, NEW r \in AccountRequests,
           KeyCreateCommit(r) \/ RevokeCommit(r) \/ (KeyUseCommit(r) /\ apiKeys' # apiKeys)
    PROVE  \E k \in ApiKeys, row \in KeyRow :
              /\ apiKeys' = [apiKeys EXCEPT ![k] = row]
              /\ areq[r].key = k
              /\ Ends(r) /\ UNCHANGED <<orgs, users>>
              /\ areq[r].at = "newkey" \/ apiKeys[k] # NoKey
              /\ apiKeys[k] # NoKey /\ apiKeys[k].revoked => row.revoked
<1> USE DEF AccountsInv
<1>1. CASE KeyCreateCommit(r)
  <2> DEFINE k == areq[r].key
             row == [owner |-> areq[r].owner, revoked |-> FALSE, expired |-> FALSE,
                     used |-> FALSE]
  <2>1. areq[r] \in CreatingKey /\ areq[r].at = "newkey"
    BY <1>1, PlacesOfRequests DEF KeyCreateCommit, At
  <2>2. k \in ApiKeys /\ row \in KeyRow /\ apiKeys[k] = NoKey
    BY <2>1 DEF CreatingKey, KeyRow, Knows
  <2>3. apiKeys' = [apiKeys EXCEPT ![k] = row] /\ Ends(r) /\ UNCHANGED <<orgs, users>>
    BY <1>1 DEF KeyCreateCommit
  <2> HIDE DEF row
  <2> QED BY <2>1, <2>2, <2>3
<1>2. CASE RevokeCommit(r)
  <2> DEFINE k == areq[r].key
             row == [apiKeys[k] EXCEPT !.revoked = TRUE]
  <2>1. areq[r] \in OnKey /\ areq[r].at = "revoked"
    BY <1>2, PlacesOfRequests DEF RevokeCommit, At
  <2>2. k \in ApiKeys /\ apiKeys[k] # NoKey
    BY <2>1 DEF OnKey, Knows
  <2>3. apiKeys[k] \in KeyRow
    BY <2>2 DEF AccountsTypeOK
  <2>4. row \in KeyRow /\ row.revoked = TRUE
    BY <2>3 DEF KeyRow
  <2>5. apiKeys' = [apiKeys EXCEPT ![k] = row] /\ Ends(r) /\ UNCHANGED <<orgs, users>>
    BY <1>2 DEF RevokeCommit
  <2> HIDE DEF row
  <2> QED BY <2>2, <2>4, <2>5
<1>3. CASE KeyUseCommit(r) /\ apiKeys' # apiKeys
  <2> DEFINE k == areq[r].key
             row == [apiKeys[k] EXCEPT !.used = TRUE]
  <2>1. areq[r] \in OnKey /\ areq[r].at = "keyused"
    BY <1>3, PlacesOfRequests DEF KeyUseCommit, At
  <2>2. k \in ApiKeys /\ apiKeys[k] # NoKey
    BY <2>1 DEF OnKey, Knows
  <2>3. apiKeys[k] \in KeyRow
    BY <2>2 DEF AccountsTypeOK
  <2>4. row \in KeyRow /\ row.revoked = apiKeys[k].revoked
    BY <2>3 DEF KeyRow
  <2>5. apiKeys' = [apiKeys EXCEPT ![k] = row] /\ Ends(r) /\ UNCHANGED <<orgs, users>>
    BY <1>3 DEF KeyUseCommit
  <2> HIDE DEF row
  <2> QED BY <2>2, <2>4, <2>5
<1> QED BY <1>1, <1>2, <1>3

\* The handlers that work on keys, and the clock.
LEMMA KeyStep ==
    ASSUME AccountsInv, NEW r \in AccountRequests,
           \/ \E e \in Emails, k \in ApiKeys : KeyCreate(r, e, k) \/ RevokeRead(r, e, k)
           \/ \E k \in ApiKeys : KeyRead(r, k)
           \/ KeyTouch(r) \/ RevokeFlush(r)
           \/ KeyCreateCommit(r) \/ KeyUseCommit(r) \/ RevokeCommit(r)
    PROVE  AccountsInv'
<1> USE DEF AccountsInv
<1>1. ASSUME NEW e \in Emails, NEW k \in ApiKeys, KeyCreate(r, e, k)
      PROVE  AccountsInv'
  <2> DEFINE x == [at |-> "newkey", key |-> k, owner |-> e]
  <2>1. x \in Handling /\ x.at = "newkey" /\ x.key = k
    BY DEF CreatingKey, Handling
  <2>2. areq' = [areq EXCEPT ![r] = x] /\ UNCHANGED <<orgs, users, apiKeys>>
    BY <1>1 DEF KeyCreate
  <2> HIDE DEF x
  <2>3. Knows(x)
    BY <1>1, <2>1 DEF KeyCreate, Knows
  <2>4. \A q \in AccountRequests : Apart(x, areq[q])
    BY <1>1, <2>1 DEF KeyCreate, At, Apart
  <2> QED BY <2>1, <2>2, <2>3, <2>4, HandlerMoves
<1>2. ASSUME NEW place \in {"keyread", "revokeread"}, NEW k \in ApiKeys, apiKeys[k] # NoKey,
             areq' = [areq EXCEPT ![r] = [at |-> place, key |-> k, row |-> apiKeys[k]]],
             UNCHANGED <<orgs, users, apiKeys>>
      PROVE  AccountsInv'
  <2> DEFINE x == [at |-> place, key |-> k, row |-> apiKeys[k]]
  <2>1. x \in Handling /\ x.at = place /\ x.key = k
    BY <1>2 DEF OnKey, Handling, AccountsTypeOK
  <2>2. areq' = [areq EXCEPT ![r] = x]
    BY <1>2
  <2> HIDE DEF x
  <2>3. Knows(x) /\ \A q \in AccountRequests : Apart(x, areq[q])
    BY <1>2, <2>1 DEF Knows, Apart
  <2> QED BY <1>2, <2>1, <2>2, <2>3, HandlerMoves
<1>3. ASSUME NEW place \in {"keyused", "revoked"}, Goto(r, place),
             areq[r].at \in {"keyread", "revokeread"}, UNCHANGED <<orgs, users, apiKeys>>
      PROVE  AccountsInv'
  <2> DEFINE x == [areq[r] EXCEPT !.at = place]
  <2>1. areq[r] \in OnKey
    BY <1>3, PlacesOfRequests
  <2>2. x \in Handling /\ x.at = place /\ x.key = areq[r].key
    BY <2>1 DEF OnKey, Handling
  <2>3. areq' = [areq EXCEPT ![r] = x]
    BY <1>3 DEF Goto
  <2> HIDE DEF x
  <2>4. Knows(x) /\ \A q \in AccountRequests : Apart(x, areq[q])
    BY <1>3, <2>2 DEF Knows, Apart
  <2> QED BY <1>3, <2>2, <2>3, <2>4, HandlerMoves
<1>4. ASSUME KeyCreateCommit(r) \/ RevokeCommit(r) \/ (KeyUseCommit(r) /\ apiKeys' # apiKeys)
      PROVE  AccountsInv'
  <2>1. PICK k \in ApiKeys, row \in KeyRow :
              /\ apiKeys' = [apiKeys EXCEPT ![k] = row]
              /\ areq[r].key = k
              /\ Ends(r) /\ UNCHANGED <<orgs, users>>
              /\ areq[r].at = "newkey" \/ apiKeys[k] # NoKey
    BY <1>4, KeyCommits
  <2>2. /\ areq' \in [AccountRequests -> Handling]
        /\ \A q \in AccountRequests : areq'[q] \in {areq[q], Idle}
        /\ areq'[r] = Idle
    BY <2>1, OthersStay
  <2>3. \A q \in AccountRequests : areq'[q].at = "newkey" => areq[q].key # k
    <3> SUFFICES ASSUME NEW q \in AccountRequests, areq'[q].at = "newkey"
                 PROVE  areq[q].key # k
      OBVIOUS
    <3>1. q # r /\ areq'[q] = areq[q]
      BY <2>2 DEF Idle
    <3>2. Apart(areq[q], areq[r]) /\ Knows(areq[q])
      BY <3>1
    <3> QED BY <2>1, <3>1, <3>2 DEF Apart, Knows
  <2> QED BY <2>1, <2>2, <2>3, KeyRowChanges
<1>5. ASSUME KeyUseCommit(r), apiKeys' = apiKeys
      PROVE  AccountsInv'
  BY <1>5, HandlerEnds DEF KeyUseCommit
<1> QED BY <1>1, <1>2, <1>3, <1>4, <1>5
        DEF RevokeRead, KeyRead, KeyTouch, RevokeFlush, At

\* expires_at passes.
LEMMA KeyExpiresStep ==
    ASSUME AccountsInv, NEW k \in ApiKeys, KeyExpires(k)
    PROVE  /\ AccountsInv'
           /\ \E row \in KeyRow : /\ apiKeys' = [apiKeys EXCEPT ![k] = row]
                                  /\ row.revoked = apiKeys[k].revoked
<1> DEFINE row == [apiKeys[k] EXCEPT !.expired = TRUE]
<1>1. apiKeys[k] # NoKey /\ apiKeys[k] \in KeyRow
  BY DEF KeyExpires, AccountsInv, AccountsTypeOK
<1>2. row \in KeyRow /\ row.revoked = apiKeys[k].revoked
  BY <1>1 DEF KeyRow
<1>3. apiKeys' = [apiKeys EXCEPT ![k] = row] /\ UNCHANGED <<orgs, users, areq>>
  BY DEF KeyExpires
<1>4. areq' \in [AccountRequests -> Handling]
  BY <1>3 DEF AccountsInv, AccountsTypeOK, Handling
<1>5. \A q \in AccountRequests : areq'[q].at = "newkey" => areq[q].key # k
  BY <1>1, <1>3 DEF AccountsInv, Knows
<1> HIDE DEF row
<1> QED BY <1>1, <1>2, <1>3, <1>4, <1>5, KeyRowChanges

\* Every step keeps AccountsInv.
LEMMA AccountsStep ==
    ASSUME AccountsInv, [AccountsNext]_accountVars
    PROVE  AccountsInv'
<1>1. CASE UNCHANGED accountVars
  BY <1>1 DEF accountVars, AccountsInv, AccountsTypeOK, Knows, Apart,
              OneFounderPerOrganization, FoundersOf
<1>2. ASSUME NEW r \in AccountRequests, AccountsAbort(r)
      PROVE  AccountsInv'
  BY <1>2, HandlerEnds DEF AccountsAbort
<1> QED BY <1>1, <1>2, RegisterStep, RegisterCommitStep, LoginStep, KeyStep, KeyExpiresStep,
           SetActiveStep DEF AccountsNext

\* AccountsInv holds in every behaviour.
LEMMA AccountsInvHolds == AccountsSpec => []AccountsInv
<1>1. AccountsInit => AccountsInv
  BY DEF AccountsInit, AccountsInv, AccountsTypeOK, Knows, Apart, Idle, NoUser, NoKey,
         OneFounderPerOrganization, FoundersOf
<1> QED BY <1>1, AccountsStep, PTL DEF AccountsSpec

\* For any number of addresses, organizations, keys and concurrent requests: one
\* founder for each organization, whatever registrations are under way.
THEOREM AccountsAreSound == AccountsSpec => [](AccountsTypeOK /\ OneFounderPerOrganization)
<1>1. AccountsInv => AccountsTypeOK /\ OneFounderPerOrganization
  BY DEF AccountsInv
<1> QED BY <1>1, AccountsInvHolds, PTL

\* For any number of keys and concurrent requests: a revoked key stays revoked.
THEOREM RevokedForGood == AccountsSpec => RevocationIsFinal
<1>1. ASSUME AccountsInv, [AccountsNext]_accountVars, NEW k \in ApiKeys,
             apiKeys[k] # NoKey, apiKeys[k].revoked
      PROVE  apiKeys'[k] # NoKey /\ apiKeys'[k].revoked
  <2>1. ASSUME NEW j \in ApiKeys, NEW row \in KeyRow,
               apiKeys' = [apiKeys EXCEPT ![j] = row],
               apiKeys[j] # NoKey /\ apiKeys[j].revoked => row.revoked
        PROVE  apiKeys'[k] # NoKey /\ apiKeys'[k].revoked
    <3>1. row # NoKey
      BY DEF KeyRow, NoKey
    <3>2. apiKeys'[k] = IF k = j THEN row ELSE apiKeys[k]
      BY <1>1, <2>1 DEF AccountsInv, AccountsTypeOK
    <3> QED BY <1>1, <2>1, <3>1, <3>2
  <2>2. \/ apiKeys' = apiKeys
        \/ \E r \in AccountRequests :
              KeyCreateCommit(r) \/ RevokeCommit(r) \/ (KeyUseCommit(r) /\ apiKeys' # apiKeys)
        \/ \E j \in ApiKeys : KeyExpires(j)
    BY <1>1
       DEF AccountsNext, accountVars, RegisterCheckEmail, RegisterCheckSlug, RegisterInsertOrg,
           RegisterInsertUser, RegisterCommit, LoginRead, LoginFlushWrong, LoginReject,
           LoginFlushRight, LoginCommit, KeyCreate, RevokeRead, KeyRead, KeyTouch,
           RevokeFlush, AccountsAbort, SetActive
  <2>3. ASSUME NEW r \in AccountRequests,
               KeyCreateCommit(r) \/ RevokeCommit(r) \/ (KeyUseCommit(r) /\ apiKeys' # apiKeys)
        PROVE  apiKeys'[k] # NoKey /\ apiKeys'[k].revoked
    BY <1>1, <2>1, <2>3, KeyCommits
  <2>4. ASSUME NEW j \in ApiKeys, KeyExpires(j)
        PROVE  apiKeys'[k] # NoKey /\ apiKeys'[k].revoked
    BY <1>1, <2>1, <2>4, KeyExpiresStep
  <2> QED BY <1>1, <2>2, <2>3, <2>4
<1>2. AccountsInv /\ [AccountsNext]_accountVars
          => [\A k \in ApiKeys :
                apiKeys[k] # NoKey /\ apiKeys[k].revoked
                    => apiKeys'[k] # NoKey /\ apiKeys'[k].revoked]_accountVars
  BY <1>1
<1> QED BY <1>2, AccountsInvHolds, PTL DEF AccountsSpec, RevocationIsFinal
===========================================================================
