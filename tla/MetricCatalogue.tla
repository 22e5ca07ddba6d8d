-------------------------- MODULE MetricCatalogue --------------------------
(***************************************************************************)
(* The catalogue of metrics (metric_service): the built-in ones, which     *)
(* every application instance seeds when it starts, and the custom ones of *)
(* an organization.  Both are check-then-insert: no index of the table is  *)
(* unique, and a look-up that meets two rows raises MultipleResultsFound.  *)
(* Built-in metrics are known by their place in BUILTIN_METRICS.           *)
(***************************************************************************)
EXTENDS Requests, Naturals, FiniteSets

CONSTANTS
    Instances,          \* application processes sharing the database
    BuiltinCount,       \* the length of BUILTIN_METRICS
    CustomNames,        \* names of custom metrics, in one organization
    MetricRequests      \* concurrent requests to create one

ASSUME CatalogueAssumption ==
    /\ IsFiniteSet(Instances)
    /\ IsFiniteSet(MetricRequests)
    /\ BuiltinCount \in Nat

VARIABLES
    builtin,    \* place -> how many committed rows the built-in metric has
    custom,     \* name -> how many committed rows the custom metric has
    boot,       \* instance -> how far its start is
    mreq        \* request -> the name it found free, or none

metricVars == <<builtin, custom, boot, mreq>>

Places == 1 .. BuiltinCount
NoName == [none |-> "name"]
Missing == [name : CustomNames]

Down == [at |-> "down"]
Seeding == [at : {"seeding"}, next : 1 .. BuiltinCount + 1, new : SUBSET Places]
Up == [at : {"up"}, seeded : BOOLEAN]

MetricsTypeOK ==
    /\ builtin \in [Places -> Nat]
    /\ custom \in [CustomNames -> Nat]
    /\ boot \in [Instances -> {Down} \cup Seeding \cup Up]
    /\ mreq \in [MetricRequests -> Missing \cup {NoName}]

MetricsInit ==
    /\ builtin = [m \in Places |-> 0]
    /\ custom = [n \in CustomNames |-> 0]
    /\ boot = [i \in Instances |-> Down]
    /\ mreq = [r \in MetricRequests |-> NoName]

---------------------------------------------------------------------------
(***************************************************************************)
(* lifespan: seeding, whose failure does not keep the instance from serving*)
(***************************************************************************)

SeedStart(i) ==
    /\ boot[i] = Down
    /\ boot' = [boot EXCEPT ![i] = [at |-> "seeding", next |-> 1, new |-> {}]]
    /\ UNCHANGED <<builtin, custom, mreq>>

\* Mutant: the last metric of the list is not looked up.
AllButLastSeen(i) == boot[i].next >= BuiltinCount
\* The loop over BUILTIN_METRICS is over.
AllSeen(i) == boot[i].next > BuiltinCount

\* Mutant: the look-up does not find what another instance committed.
AlwaysAdds(i) == [boot[i] EXCEPT !.next = @ + 1, !.new = @ \cup {boot[i].next}]
\* A metric with no row is added to the session; nothing is flushed yet.
LookedUp(i) ==
    IF builtin[boot[i].next] = 0
    THEN [boot[i] EXCEPT !.next = @ + 1, !.new = @ \cup {boot[i].next}]
    ELSE [boot[i] EXCEPT !.next = @ + 1]

\* One SELECT of seed_builtin_metrics; it raises where there are two rows.
SeedLookup(i) ==
    /\ boot[i].at = "seeding"
    /\ ~AllSeen(i)
    /\ builtin[boot[i].next] <= 1
    /\ boot' = [boot EXCEPT ![i] = LookedUp(i)]
    /\ UNCHANGED <<builtin, custom, mreq>>

\* The flush of the new rows and the commit.
SeedCommit(i) ==
    /\ boot[i].at = "seeding"
    /\ AllSeen(i)
    /\ builtin' = [m \in Places |-> IF m \in boot[i].new THEN builtin[m] + 1 ELSE builtin[m]]
    /\ boot' = [boot EXCEPT ![i] = [at |-> "up", seeded |-> TRUE]]
    /\ UNCHANGED <<custom, mreq>>

\* The look-up that meets two rows, or a lost connection: rolled back, logged,
\* and the instance serves.
SeedFails(i) ==
    /\ boot[i].at = "seeding"
    /\ boot' = [boot EXCEPT ![i] = [at |-> "up", seeded |-> FALSE]]
    /\ UNCHANGED <<builtin, custom, mreq>>

\* The instance ends or is killed, a transaction of its start with it.
InstanceStops(i) ==
    /\ boot[i] # Down
    /\ boot' = [boot EXCEPT ![i] = Down]
    /\ UNCHANGED <<builtin, custom, mreq>>

---------------------------------------------------------------------------
(***************************************************************************)
(* create_custom_metric                                                    *)
(***************************************************************************)

\* The name is free; one row is a conflict and two an error: the request ends.
CustomCheck(r, n) ==
    /\ mreq[r] = NoName
    /\ custom[n] = 0
    /\ mreq' = [mreq EXCEPT ![r] = [name |-> n]]
    /\ UNCHANGED <<builtin, custom, boot>>

CustomCommit(r) ==
    /\ mreq[r] # NoName
    /\ Audited("CREATE")
    /\ custom' = [custom EXCEPT ![mreq[r].name] = @ + 1]
    /\ mreq' = [mreq EXCEPT ![r] = NoName]
    /\ UNCHANGED <<builtin, boot>>

\* get_db_session rolls back.
CustomAbort(r) ==
    /\ mreq[r] # NoName
    /\ mreq' = [mreq EXCEPT ![r] = NoName]
    /\ UNCHANGED <<builtin, custom, boot>>

MetricsNext ==
    \/ \E i \in Instances :
        SeedStart(i) \/ SeedLookup(i) \/ SeedCommit(i) \/ SeedFails(i) \/ InstanceStops(i)
    \/ \E r \in MetricRequests :
        CustomCommit(r) \/ CustomAbort(r) \/ \E n \in CustomNames : CustomCheck(r, n)

MetricsSpec == MetricsInit /\ [][MetricsNext]_metricVars

---------------------------------------------------------------------------
(***************************************************************************)
(* Properties                                                              *)
(***************************************************************************)

\* Instances that start together each add a metric none of them has committed,
\* so the catalogue can hold duplicates.  However often instances restart, it
\* holds no more of one metric than there are instances, and no more of a custom
\* one than there were requests at a time.
DuplicatesAreBounded ==
    /\ \A m \in Places : builtin[m] <= Cardinality(Instances)
    /\ \A n \in CustomNames : custom[n] <= Cardinality(MetricRequests)

\* An instance whose seeding committed serves a complete catalogue, whichever
\* rows it inserted itself and whichever it found.
SeededCatalogueIsComplete ==
    \A i \in Instances :
        boot[i].at = "up" /\ boot[i].seeded => \A m \in Places : builtin[m] > 0
===========================================================================
