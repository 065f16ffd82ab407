----------------------------- MODULE MCStorage ------------------------------
(***************************************************************************)
(* Small instances of Storage: two terminals, so that commands overlap     *)
(* where the lock lets them.                                               *)
(***************************************************************************)
EXTENDS Storage, TLC

Symmetry == Permutations(Terminals) \cup Permutations(Aliases)

=============================================================================
