------------------------- MODULE MCSessionRefresh -------------------------
(***************************************************************************)
(* The session of a browser against the API as committed: refresh.cfg      *)
(* gives AuditActions the members the enumeration really has.              *)
(***************************************************************************)
EXTENDS SessionRefresh
===========================================================================
