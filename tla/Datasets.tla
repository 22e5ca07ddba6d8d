----------------------------- MODULE Datasets -----------------------------
(***************************************************************************)
(* Datasets: a row in the database and an object in the store, tied by a   *)
(* presigned upload URL and a checksum (dataset_service, storage_service). *)
(*                                                                         *)
(* The client gets the URL with the row, uploads to the store directly, as *)
(* often as it likes until the URL expires, and then confirms with the     *)
(* checksum of what it meant to upload.  A confirm request reads the row,  *)
(* flushes VALIDATING (from then on it holds the row), fetches the object  *)
(* and compares.  A dataset's content is told apart by its checksum.       *)
(***************************************************************************)
EXTENDS Requests

CONSTANTS
    DatasetIds, Contents,
    DatasetRequests     \* concurrent confirm and delete requests

VARIABLES
    datasets,     \* dataset -> committed row
    object,       \* dataset -> what the store holds under its key
    url,          \* dataset -> "none", "open" or "expired"
    dreq,         \* request -> where its handler is
    checkedLate   \* datasets with a committed check made after the URL expired

datasetVars == <<datasets, object, url, dreq, checkedLate>>

NoRow == [none |-> "row"]
NoObject == "no object"
Pending == "pending"
Quiet == [at |-> "idle"]

DatasetStatus == {"UPLOADING", "VALIDATING", "READY", "FAILED", "ARCHIVED"}
DatasetRow == [status : DatasetStatus, checksum : Contents \cup {Pending}, deleted : BOOLEAN]
Confirming == [at : {"read", "validating", "verified"}, ds : DatasetIds, sum : Contents,
               late : BOOLEAN]
Deleting == [at : {"found", "deleting"}, ds : DatasetIds]

DatasetsTypeOK ==
    /\ datasets \in [DatasetIds -> DatasetRow \cup {NoRow}]
    /\ object \in [DatasetIds -> Contents \cup {NoObject}]
    /\ url \in [DatasetIds -> {"none", "open", "expired"}]
    /\ dreq \in [DatasetRequests -> {Quiet} \cup Confirming \cup Deleting]
    /\ checkedLate \subseteq DatasetIds

DatasetsInit ==
    /\ datasets = [d \in DatasetIds |-> NoRow]
    /\ object = [d \in DatasetIds |-> NoObject]
    /\ url = [d \in DatasetIds |-> "none"]
    /\ dreq = [r \in DatasetRequests |-> Quiet]
    /\ checkedLate = {}

\* get_dataset: the row is there and not soft-deleted.
Found(d) == datasets[d] # NoRow /\ ~datasets[d].deleted

\* Another transaction has updated the row and not ended.
DatasetHeld(r) ==
    \E q \in DatasetRequests \ {r} :
        /\ dreq[q].at \in {"validating", "verified", "deleting"}
        /\ dreq[q].ds = dreq[r].ds

DatasetRequestEnds(r) == dreq' = [dreq EXCEPT ![r] = Quiet]

---------------------------------------------------------------------------
\* initiate_dataset_upload: the key is computed from the id, the URL signed, the
\* row committed, and the URL returned.
Initiate(d) ==
    /\ datasets[d] = NoRow
    /\ Audited("CREATE")
    /\ datasets' = [datasets EXCEPT ![d] =
                       [status |-> "UPLOADING", checksum |-> Pending, deleted |-> FALSE]]
    /\ url' = [url EXCEPT ![d] = "open"]
    /\ UNCHANGED <<object, dreq, checkedLate>>

\* The client puts an object under the key; the store accepts it while the URL
\* is valid, whatever the row says.
Upload(d, c) ==
    /\ url[d] = "open"
    /\ object' = [object EXCEPT ![d] = c]
    /\ UNCHANGED <<datasets, url, dreq, checkedLate>>

UrlExpires(d) ==
    /\ url[d] = "open"
    /\ url' = [url EXCEPT ![d] = "expired"]
    /\ UNCHANGED <<datasets, object, dreq, checkedLate>>

\* confirm_dataset_upload: the SELECT and the test of the status.
ConfirmRead(r, d, c) ==
    /\ dreq[r] = Quiet
    /\ Found(d)
    /\ datasets[d].status = "UPLOADING"
    /\ dreq' = [dreq EXCEPT ![r] = [at |-> "read", ds |-> d, sum |-> c, late |-> FALSE]]
    /\ UNCHANGED <<datasets, object, url, checkedLate>>

\* Mutant: two confirm requests work on the row at once.
ConfirmWithoutRow(r) ==
    /\ dreq[r].at = "read"
    /\ dreq' = [dreq EXCEPT ![r].at = "validating"]
    /\ UNCHANGED <<datasets, object, url, checkedLate>>
\* The UPDATE to VALIDATING waits for the row and tests nothing again: a confirm
\* that read UPLOADING goes on although another has committed READY since.
ConfirmValidating(r) ==
    /\ dreq[r].at = "read"
    /\ ~DatasetHeld(r)
    /\ dreq' = [dreq EXCEPT ![r].at = "validating"]
    /\ UNCHANGED <<datasets, object, url, checkedLate>>

\* verify_dataset_integrity returns TRUE.
ConfirmMatches(r) ==
    /\ dreq[r].at = "validating"
    /\ object[dreq[r].ds] = dreq[r].sum
    /\ dreq' = [dreq EXCEPT ![r] =
                   [@ EXCEPT !.at = "verified", !.late = url[dreq[r].ds] = "expired"]]
    /\ UNCHANGED <<datasets, object, url, checkedLate>>

\* Mutant: the status FAILED is committed.
ConfirmFailureCommits(r) ==
    /\ dreq[r].at = "validating"
    /\ datasets' = [datasets EXCEPT ![dreq[r].ds].status = "FAILED"]
    /\ DatasetRequestEnds(r)
    /\ UNCHANGED <<object, url, checkedLate>>
\* verify_dataset_integrity returns FALSE: another checksum, no object, or an
\* error of the store.  FAILED is flushed, then ConflictError rolls it back.
ConfirmFails(r) ==
    /\ dreq[r].at = "validating"
    /\ DatasetRequestEnds(r)
    /\ UNCHANGED <<datasets, object, url, checkedLate>>

ConfirmCommit(r) ==
    /\ dreq[r].at = "verified"
    /\ Audited("DATASET_UPLOADED")
    /\ datasets' = [datasets EXCEPT ![dreq[r].ds] =
                       [@ EXCEPT !.status = "READY", !.checksum = dreq[r].sum]]
    /\ checkedLate' = IF dreq[r].late THEN checkedLate \cup {dreq[r].ds} ELSE checkedLate
    /\ DatasetRequestEnds(r)
    /\ UNCHANGED <<object, url>>

\* delete_dataset; the object stays.
DeleteRead(r, d) ==
    /\ dreq[r] = Quiet
    /\ Found(d)
    /\ dreq' = [dreq EXCEPT ![r] = [at |-> "found", ds |-> d]]
    /\ UNCHANGED <<datasets, object, url, checkedLate>>

DeleteFlush(r) ==
    /\ dreq[r].at = "found"
    /\ ~DatasetHeld(r)
    /\ dreq' = [dreq EXCEPT ![r].at = "deleting"]
    /\ UNCHANGED <<datasets, object, url, checkedLate>>

DeleteCommit(r) ==
    /\ dreq[r].at = "deleting"
    /\ Audited("DATASET_DELETED")
    /\ datasets' = [datasets EXCEPT ![dreq[r].ds].deleted = TRUE]
    /\ DatasetRequestEnds(r)
    /\ UNCHANGED <<object, url, checkedLate>>

\* The connection is lost, or the handler raises: get_db_session rolls back.
DatasetsAbort(r) ==
    /\ dreq[r] # Quiet
    /\ DatasetRequestEnds(r)
    /\ UNCHANGED <<datasets, object, url, checkedLate>>

DatasetsNext ==
    \/ \E d \in DatasetIds :
        Initiate(d) \/ UrlExpires(d) \/ \E c \in Contents : Upload(d, c)
    \/ \E r \in DatasetRequests :
        \/ \E d \in DatasetIds : DeleteRead(r, d) \/ \E c \in Contents : ConfirmRead(r, d, c)
        \/ ConfirmValidating(r) \/ ConfirmMatches(r) \/ ConfirmFails(r) \/ ConfirmCommit(r)
        \/ DeleteFlush(r) \/ DeleteCommit(r)
        \/ DatasetsAbort(r)

DatasetsSpec == DatasetsInit /\ [][DatasetsNext]_datasetVars

---------------------------------------------------------------------------
(***************************************************************************)
(* Properties                                                              *)
(***************************************************************************)

\* A dataset that is READY stays READY with a checksum, although a confirm
\* request that read UPLOADING earlier goes on to flush VALIDATING or FAILED.
ReadyNeverRegresses ==
    [][\A d \in DatasetIds :
        datasets[d] # NoRow /\ datasets[d].status = "READY"
            => /\ datasets'[d] # NoRow
               /\ datasets'[d].status = "READY"
               /\ datasets'[d].checksum \in Contents]_datasetVars

\* The comparison is with the object of that moment, and the URL lets the client
\* replace the object afterwards.  Once a check made after the expiry of the URL
\* has committed, the row describes the stored object for good, whichever
\* confirm requests are still under way.
LateCheckIsFinal ==
    \A d \in checkedLate :
        datasets[d] # NoRow /\ datasets[d].status = "READY" /\ datasets[d].checksum = object[d]
===========================================================================
