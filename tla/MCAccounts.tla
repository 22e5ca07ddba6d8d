---------------------------- MODULE MCAccounts ----------------------------
(***************************************************************************)
(* Accounts with a history of refused logins: how many logins of a user    *)
(* have been refused for their password since the last one that succeeded. *)
(***************************************************************************)
EXTENDS Accounts

VARIABLE failures   \* e-mail address -> refusals in a row, counted up to the limit

lockoutVars == <<accountVars, failures>>

LockoutInit == AccountsInit /\ failures = [e \in Emails |-> 0]

Refused(r) ==
    /\ LoginReject(r)
    /\ failures' = [failures EXCEPT ![areq[r].email] =
                       IF @ < MAX_FAILED_ATTEMPTS THEN @ + 1 ELSE @]

Succeeded(r) ==
    /\ LoginCommit(r)
    /\ failures' = [failures EXCEPT ![areq[r].email] = 0]

\* Any other step; a login whose connection is lost between its flush and its
\* answer is no refusal, and is left out.
Elsewhere ==
    /\ AccountsNext
    /\ \A r \in AccountRequests : areq[r].at \in {"wrong", "right"} => areq'[r] = areq[r]
    /\ UNCHANGED failures

LockoutSpec ==
    LockoutInit /\ [][Elsewhere \/ \E r \in AccountRequests : Refused(r) \/ Succeeded(r)]_lockoutVars

\* As the documentation of failed_login_attempts has it, an account is locked
\* after MAX_FAILED_ATTEMPTS consecutive failures.
LockedAfterFailures ==
    \A e \in Emails : failures[e] >= MAX_FAILED_ATTEMPTS => IsLocked(users[e])
===========================================================================
