----------------------------- MODULE MCSSHCache -----------------------------
(***************************************************************************)
(* A small instance of SSHCache: three calls to one server, two of which   *)
(* may dial at the same time while the third uses what they cache, a       *)
(* handshake whose goroutine runs late, a command past its timeout, and    *)
(* one Close.                                                              *)
(***************************************************************************)
EXTENDS SSHCache, TLC

MCKey == [c \in Calls |-> CHOOSE k \in Keys : TRUE]

Symmetry == Permutations(Calls)

=============================================================================
