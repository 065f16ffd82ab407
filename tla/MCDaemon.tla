------------------------------ MODULE MCDaemon ------------------------------
(***************************************************************************)
(* Small instances of Daemon: two connections at a time, so that every two *)
(* operations overlap in every way.                                        *)
(***************************************************************************)
EXTENDS Daemon

=============================================================================
