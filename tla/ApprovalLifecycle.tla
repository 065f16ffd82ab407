------------------------- MODULE ApprovalLifecycle -------------------------
(***************************************************************************)
(* What the approval store promises its callers, without its clock, its    *)
(* codes, its channels and its map: an approval is opened once, is granted *)
(* at most once and only while it is open, and once it is granted or       *)
(* closed (expired, revoked, denied to its waiter) that is final.          *)
(***************************************************************************)
CONSTANT Ids

VARIABLE status

Statuses == {"unknown", "open", "granted", "closed"}

Init == status = [id \in Ids |-> "unknown"]

OpenIds == { id \in Ids : status[id] = "open" }

\* Approvals close together: one sweep may remove several.
Close(gone) ==
    status' = [i \in Ids |-> IF i \in gone THEN "closed" ELSE status[i]]

\* A fresh approval opens while the sweep that precedes it closes others.
Open(id, gone) ==
    /\ status[id] = "unknown"
    /\ status' = [i \in Ids |-> IF i = id THEN "open" ELSE IF i \in gone THEN "closed" ELSE status[i]]

\* An open approval is handed out to exactly one caller.
GrantOne(id, gone) ==
    /\ status[id] = "open"
    /\ status' = [i \in Ids |-> IF i = id THEN "granted" ELSE IF i \in gone THEN "closed" ELSE status[i]]

Next == \E gone \in SUBSET OpenIds :
           \/ Close(gone)
           \/ \E id \in Ids : Open(id, gone) \/ GrantOne(id, gone)

Spec == Init /\ [][Next]_status

=============================================================================
