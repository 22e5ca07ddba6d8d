---------------------------- MODULE RunVerdict ----------------------------
(***************************************************************************)
(* What optimistic locking is meant to give an evaluation run: the workers *)
(* decide it at most once.  A run is "open" until one worker records its   *)
(* verdict, "completed" (a score) or "failed" (an exception); a verdict is *)
(* never revised, and from then on the status column shows it, unless a    *)
(* user's cancellation covers it.  While a run is open its status may move *)
(* in any way.  RunLifecycle implements this specification.                *)
(***************************************************************************)

CONSTANT Runs

VARIABLES verdict, status

vars == <<verdict, status>>

Statuses == {"PENDING", "RUNNING", "COMPLETED", "FAILED", "CANCELLED"}
Verdicts == {"completed", "failed"}

\* The status a worker writes together with its verdict.
StatusOf(v) == IF v = "completed" THEN "COMPLETED" ELSE "FAILED"

Init ==
    /\ verdict = [r \in Runs |-> "open"]
    /\ status = [r \in Runs |-> "PENDING"]

\* One worker decides one open run and shows the verdict in the same write.
Decide(r, v) ==
    /\ verdict[r] = "open"
    /\ verdict' = [verdict EXCEPT ![r] = v]
    /\ status' = [status EXCEPT ![r] = StatusOf(v)]

\* A cancellation covers the status of a run, decided or not.
Cover(r) ==
    /\ status' = [status EXCEPT ![r] = "CANCELLED"]
    /\ UNCHANGED verdict

\* The status of open runs moves; no decided run is touched.
Move ==
    /\ status' \in [Runs -> Statuses]
    /\ \A r \in Runs : verdict[r] # "open" => status'[r] = status[r]
    /\ UNCHANGED verdict

Next ==
    \/ \E r \in Runs, v \in Verdicts : Decide(r, v)
    \/ \E r \in Runs : Cover(r)
    \/ Move

Spec == Init /\ [][Next]_vars
===========================================================================
