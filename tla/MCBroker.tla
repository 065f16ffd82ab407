------------------------------ MODULE MCBroker ------------------------------
(***************************************************************************)
(* Small instances of Broker, one for the calls on a single server and one *)
(* for batches.  Two calls race for approvals, for the policy and for the  *)
(* secrets; one command of each class lets every early return happen.      *)
(***************************************************************************)
EXTENDS Broker, TLC

CONSTANTS a1, a2

\* Alias lists of the batch instance: everything, one server, and only blanks.
Lists == {{a1, a2}, {a2, Blank}, {Blank}}
NoLists == {}

Symmetry == Permutations(Calls) \cup Permutations(Ids)

=============================================================================
