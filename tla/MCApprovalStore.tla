-------------------------- MODULE MCApprovalStore --------------------------
(***************************************************************************)
(* Small instances of ApprovalStore.  Two identifiers let one approval     *)
(* follow another in a full store; two waiters let two calls race for one  *)
(* approval; a decision can fall before, on and after a deadline.          *)
(***************************************************************************)
EXTENDS ApprovalStore

=============================================================================
