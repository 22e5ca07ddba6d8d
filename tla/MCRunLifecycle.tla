-------------------------- MODULE MCRunLifecycle --------------------------
(***************************************************************************)
(* Small instances of RunLifecycle.                                        *)
(***************************************************************************)
EXTENDS RunLifecycle, TLC

\* One run and one submission: every task is about the run.
AllOfOneRun == [t \in Tasks |-> CHOOSE r \in Runs : TRUE]
OneSubmission == [r \in Runs |-> CHOOSE s \in Submissions : TRUE]

\* Deliveries of one task are interchangeable.
Deliveries == Permutations(Orchs) \cup Permutations(Finalizers)

\* The literal of _prepare_run, and the literal without the key that collides
\* with the positional argument of the analysis tasks.
CommittedKeys == {"run_id", "org_id", "submission_id", "startup_name", "website_url",
                  "pitch_deck_url", "raw_content", "metadata", "config_snapshot"}
RepairedKeys == CommittedKeys \ {"run_id"}

\* The classes of src/models/evaluation.py, and those with the class that
\* cleanup_worker imports from it.
CommittedModels == {"EvaluationConfig", "RunStatus", "EvaluationRun"}
RepairedModels == CommittedModels \cup {"EvaluationResult"}
===========================================================================
