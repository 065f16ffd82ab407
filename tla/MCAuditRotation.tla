-------------------------- MODULE MCAuditRotation --------------------------
(***************************************************************************)
(* A small instance of AuditRotation: two backups, so that one rotation    *)
(* moves a backup to another; files of two events, so that a write also    *)
(* appends; three writes on top of up to two full files of earlier runs,   *)
(* so that there are two rotations and the second drops the oldest file.   *)
(***************************************************************************)
EXTENDS AuditRotation

=============================================================================
