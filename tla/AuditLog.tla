------------------------------ MODULE AuditLog ------------------------------
(***************************************************************************)
(* What the audit log promises: a sequence of files, the newest first,     *)
(* that changes only by whole events.  A write appends to the newest file  *)
(* or shifts all files by one and starts a new one, atomically; a power    *)
(* loss may take back the write that is not settled yet, and events whose  *)
(* write did not ask for durability, but never a confirmed one.            *)
(***************************************************************************)
EXTENDS Naturals, Sequences

CONSTANTS Backups, Events, Durable

VARIABLES
    files,     \* files[i] is the content of the i-th newest file
    possible,  \* the logs a power loss may leave, before volatile events are lost
    safe       \* the durable events whose write was confirmed

In(seq) == { seq[k] : k \in 1..Len(seq) }
Present == UNION { In(files[i]) : i \in 0..Backups }

\* The log an earlier run of the daemon left.
Init ==
    /\ files \in [0..Backups -> Seq(Events)]
    /\ possible = {files}
    /\ safe = Present \cap Durable

\* Events are numbered in the order in which they are written.
Newer(e) == \A x \in Present : x < e

\* An appended event is confirmed at once, or never (its write failed late).
AppendEvent(e) ==
    /\ Newer(e)
    /\ files' = [files EXCEPT ![0] = Append(@, e)]
    /\ possible' = {files'}
    /\ safe' \in {safe, safe \cup ({e} \cap Durable)}

Rotate(e) ==
    /\ Newer(e)
    /\ files' = [i \in 0..Backups |-> IF i = 0 THEN <<e>> ELSE files[i-1]]
    /\ possible' = possible \cup {files'}
    /\ UNCHANGED safe

\* The last write can no longer be taken back.
Settle ==
    /\ possible' = {files}
    /\ UNCHANGED <<files, safe>>

Confirm(e) ==
    /\ possible = {files}
    /\ e \in In(files[0])
    /\ safe' = safe \cup ({e} \cap Durable)
    /\ UNCHANGED <<files, possible>>

\* Each file keeps a prefix that holds all its confirmed durable events.
Cut(before, after) ==
    \E n \in 0..Len(before) :
        /\ after = SubSeq(before, 1, n)
        /\ \A k \in (n+1)..Len(before) : before[k] \notin safe

PowerLoss ==
    /\ DOMAIN files' = 0..Backups
    /\ \E log \in possible : \A i \in 0..Backups : Cut(log[i], files'[i])
    /\ possible' = {files'}
    /\ UNCHANGED safe

Next == Settle \/ PowerLoss \/ \E e \in Events : AppendEvent(e) \/ Rotate(e) \/ Confirm(e)

Spec == Init /\ [][Next]_<<files, possible, safe>>

=============================================================================
