-------------------------- MODULE Configurations --------------------------
(***************************************************************************)
(* Evaluation configurations and the callback of a completed run           *)
(* (evaluation_service, submission_service, finalize, webhook_service).    *)
(*                                                                         *)
(* A run copies pipeline_config when it is triggered; finalize calls the   *)
(* webhook_url it finds in that copy, with up to three attempts.  The      *)
(* column webhook_url of the configuration (hook), which schemas/          *)
(* evaluation.py:32 describes as "Webhook URL for completion callback", is *)
(* written and never read: a URL set there is never called.                *)
(* Updates of a configuration read the row, change what the request names, *)
(* and write those columns and the version they read plus one.             *)
(***************************************************************************)
EXTENDS Requests, Naturals, FiniteSets

CONSTANTS
    ConfigIds, ConfigRuns, Urls,
    ConfigRequests,     \* concurrent update and delete requests
    MaxVersion          \* bound: versions of a configuration

ASSUME MaxVersionAssumption == MaxVersion \in Nat

VARIABLES
    configs,      \* configuration -> committed row
    creq,         \* request -> where its handler is
    snapshot,     \* run -> the webhook_url of config_snapshot
    delivery,     \* run -> how far its callback is
    received      \* run -> the URL -> how many calls arrived there

configVars == <<configs, creq, snapshot, delivery, received>>

NoConfig == [none |-> "config"]
NoUrl == "no url"
Resting == [at |-> "idle"]
ATTEMPTS == 3      \* stop_after_attempt(3)

MaybeUrl == Urls \cup {NoUrl}
ConfigRow == [pipeline : MaybeUrl, hook : MaybeUrl, version : Nat, deleted : BOOLEAN]
\* The values of an update; NoUrl stands for a field the request leaves out.
Updating == [at : {"read", "flushed"}, cfg : ConfigIds, seen : Nat,
             pipeline : MaybeUrl, hook : MaybeUrl]
Removing == [at : {"found", "removing"}, cfg : ConfigIds]
Deliveries == [at : {"none", "triggered", "delivered", "failed", "lost"}, tries : {0}]
              \cup [at : {"sending"}, tries : 0 .. ATTEMPTS - 1]
Stage(place) == [at |-> place, tries |-> 0]

ConfigurationsTypeOK ==
    /\ configs \in [ConfigIds -> ConfigRow \cup {NoConfig}]
    /\ creq \in [ConfigRequests -> {Resting} \cup Updating \cup Removing]
    /\ snapshot \in [ConfigRuns -> MaybeUrl]
    /\ delivery \in [ConfigRuns -> Deliveries]
    /\ received \in [ConfigRuns -> [Urls -> Nat]]

ConfigurationsInit ==
    /\ configs = [c \in ConfigIds |-> NoConfig]
    /\ creq = [r \in ConfigRequests |-> Resting]
    /\ snapshot = [r \in ConfigRuns |-> NoUrl]
    /\ delivery = [r \in ConfigRuns |-> Stage("none")]
    /\ received = [r \in ConfigRuns |-> [u \in Urls |-> 0]]

\* get_evaluation_config
Available(c) == configs[c] # NoConfig /\ ~configs[c].deleted

ConfigHeld(r) ==
    \E q \in ConfigRequests \ {r} :
        creq[q].at \in {"flushed", "removing"} /\ creq[q].cfg = creq[r].cfg

ConfigRequestEnds(r) == creq' = [creq EXCEPT ![r] = Resting]

---------------------------------------------------------------------------
(***************************************************************************)
(* create, update and delete_evaluation_config                             *)
(***************************************************************************)

CreateConfig(c, p, h) ==
    /\ configs[c] = NoConfig
    /\ Audited("CREATE")
    /\ configs' = [configs EXCEPT ![c] =
                      [pipeline |-> p, hook |-> h, version |-> 1, deleted |-> FALSE]]
    /\ UNCHANGED <<creq, snapshot, delivery, received>>

UpdateRead(r, c, p, h) ==
    /\ creq[r] = Resting
    /\ Available(c)
    /\ configs[c].version < MaxVersion
    /\ creq' = [creq EXCEPT ![r] = [at |-> "read", cfg |-> c, seen |-> configs[c].version,
                                    pipeline |-> p, hook |-> h]]
    /\ UNCHANGED <<configs, snapshot, delivery, received>>

\* The UPDATE waits for the row; it has no test of the version.
UpdateFlush(r) ==
    /\ creq[r].at = "read"
    /\ ~ConfigHeld(r)
    /\ creq' = [creq EXCEPT ![r].at = "flushed"]
    /\ UNCHANGED <<configs, snapshot, delivery, received>>

\* A field the request leaves out (None) keeps its column.
Chosen(new, old) == IF new = NoUrl THEN old ELSE new

UpdateCommit(r) ==
    /\ creq[r].at = "flushed"
    /\ Audited("UPDATE")
    /\ LET u == creq[r]
           old == configs[u.cfg]
       IN  configs' = [configs EXCEPT ![u.cfg] =
               [old EXCEPT !.pipeline = Chosen(u.pipeline, old.pipeline),
                           !.hook = Chosen(u.hook, old.hook), !.version = u.seen + 1]]
    /\ ConfigRequestEnds(r)
    /\ UNCHANGED <<snapshot, delivery, received>>

RemoveRead(r, c) ==
    /\ creq[r] = Resting
    /\ Available(c)
    /\ creq' = [creq EXCEPT ![r] = [at |-> "found", cfg |-> c]]
    /\ UNCHANGED <<configs, snapshot, delivery, received>>

RemoveFlush(r) ==
    /\ creq[r].at = "found"
    /\ ~ConfigHeld(r)
    /\ creq' = [creq EXCEPT ![r].at = "removing"]
    /\ UNCHANGED <<configs, snapshot, delivery, received>>

RemoveCommit(r) ==
    /\ creq[r].at = "removing"
    /\ Audited("DELETE")
    /\ configs' = [configs EXCEPT ![creq[r].cfg].deleted = TRUE]
    /\ ConfigRequestEnds(r)
    /\ UNCHANGED <<snapshot, delivery, received>>

\* The connection is lost, or the handler raises: get_db_session rolls back.
ConfigurationsAbort(r) ==
    /\ creq[r] # Resting
    /\ ConfigRequestEnds(r)
    /\ UNCHANGED <<configs, snapshot, delivery, received>>

---------------------------------------------------------------------------
(***************************************************************************)
(* The run: trigger_evaluation copies pipeline_config; finalize calls back *)
(***************************************************************************)

TriggerRun(r, c) ==
    /\ delivery[r].at = "none"
    /\ Available(c)
    /\ snapshot' = [snapshot EXCEPT ![r] = configs[c].pipeline]
    /\ delivery' = [delivery EXCEPT ![r] = Stage("triggered")]
    /\ UNCHANGED <<configs, creq, received>>

\* _finalize, step 6: config.get("webhook_url") of the run's own copy, never hook,
\* the column that the request schema calls the URL of the completion callback.
CallbackUrl(r) == snapshot[r]

\* The run is COMPLETED; without a URL nothing is called.
Finalize(r) ==
    /\ delivery[r].at = "triggered"
    /\ CallbackUrl(r) # NoUrl
    /\ delivery' = [delivery EXCEPT ![r] = Stage("sending")]
    /\ UNCHANGED <<configs, creq, snapshot, received>>

Arrives(r) == received' = [received EXCEPT ![r][CallbackUrl(r)] = @ + 1]

\* An answer below 500 ends the delivery, a client error included.
Answered(r) ==
    /\ delivery[r].at = "sending"
    /\ CallbackUrl(r) # NoUrl
    /\ Arrives(r)
    /\ delivery' = [delivery EXCEPT ![r] = Stage("delivered")]
    /\ UNCHANGED <<configs, creq, snapshot>>

\* Mutant: the attempts are counted from zero.
OneTryTooMany(r) ==
    IF delivery[r].tries = ATTEMPTS THEN Stage("failed")
    ELSE [at |-> "sending", tries |-> delivery[r].tries + 1]
\* stop_after_attempt: the last attempt's exception is re-raised and caught by
\* deliver_webhook.
TryAgain(r) ==
    IF delivery[r].tries = ATTEMPTS - 1 THEN Stage("failed")
    ELSE [at |-> "sending", tries |-> delivery[r].tries + 1]

\* A server error, a connection that fails, or a timeout before or after the
\* receiver has taken the call.
AttemptFails(r) ==
    /\ delivery[r].at = "sending"
    /\ CallbackUrl(r) # NoUrl
    /\ Arrives(r) \/ UNCHANGED received
    /\ delivery' = [delivery EXCEPT ![r] = TryAgain(r)]
    /\ UNCHANGED <<configs, creq, snapshot>>

\* An exception that is not in the list of retried ones; or the worker is lost
\* after COMPLETED was committed, and the redelivered task stops there.
DeliveryStops(r) ==
    /\ delivery[r].at = "sending"
    /\ \E end \in {"failed", "lost"} : delivery' = [delivery EXCEPT ![r] = Stage(end)]
    /\ UNCHANGED <<configs, creq, snapshot, received>>

ConfigurationsNext ==
    \/ \E c \in ConfigIds, p, h \in MaybeUrl : CreateConfig(c, p, h)
    \/ \E r \in ConfigRequests :
        \/ \E c \in ConfigIds :
            RemoveRead(r, c) \/ \E p, h \in MaybeUrl : UpdateRead(r, c, p, h)
        \/ UpdateFlush(r) \/ UpdateCommit(r) \/ RemoveFlush(r) \/ RemoveCommit(r)
        \/ ConfigurationsAbort(r)
    \/ \E r \in ConfigRuns :
        \/ \E c \in ConfigIds : TriggerRun(r, c)
        \/ Finalize(r) \/ Answered(r) \/ AttemptFails(r) \/ DeliveryStops(r)

ConfigurationsSpec == ConfigurationsInit /\ [][ConfigurationsNext]_configVars

---------------------------------------------------------------------------
(***************************************************************************)
(* Properties                                                              *)
(***************************************************************************)

ReceivedAt(r) == {u \in Urls : received[r][u] > 0}

\* A timeout may hide a call that arrived, so a receiver can get the same event
\* more than once, but no more often than there are attempts; and a delivery is
\* reported only if a call did arrive.
DeliveriesAreBounded ==
    \A r \in ConfigRuns :
        /\ \A u \in Urls : received[r][u] <= ATTEMPTS
        /\ delivery[r].at = "delivered" => ReceivedAt(r) # {}
===========================================================================
