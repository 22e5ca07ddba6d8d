----------------------------- MODULE Requests -----------------------------
(***************************************************************************)
(* What every API request shares: one database transaction, committed when *)
(* the handler returns and rolled back when it raises, and the audit entry *)
(* written inside it.                                                      *)
(*                                                                         *)
(* create_audit_log catches what its INSERT raises, but its argument       *)
(* AuditAction.X is evaluated by the caller: where the enumeration has no  *)
(* member X the handler raises and the request is rolled back.  An INSERT  *)
(* that the database refuses is swallowed, yet PostgreSQL has aborted the  *)
(* transaction and the COMMIT that follows rolls back: for the rows it is  *)
(* the same as a lost connection, and the components' Abort stands for     *)
(* both.                                                                   *)
(***************************************************************************)

CONSTANT
    AuditActions    \* the members of the enumeration AuditAction

\* The action a handler audits can be named, so the handler returns.
Audited(action) == action \in AuditActions

\* The enumeration as committed.
CommittedActions ==
    {"CREATE", "READ", "UPDATE", "DELETE", "LOGIN", "LOGOUT", "LOGIN_FAILED",
     "SUBMISSION_CREATED", "SUBMISSION_UPDATED", "EVALUATION_STARTED",
     "EVALUATION_COMPLETED", "EVALUATION_FAILED", "EVALUATION_CANCELLED",
     "CLAIM_EXTRACTED", "CONTRADICTION_DETECTED", "SCORE_RECORDED", "SETTINGS_CHANGED"}

\* The actions that the handlers modelled on this module name: five of them are
\* not members of the enumeration.
NamedActions ==
    {"CREATE", "UPDATE", "DELETE", "LOGIN", "LOGIN_FAILED",
     "API_KEY_CREATED", "API_KEY_REVOKED", "TOKEN_REFRESH",
     "DATASET_UPLOADED", "DATASET_DELETED"}
===========================================================================
