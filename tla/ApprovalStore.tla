--------------------------- MODULE ApprovalStore ---------------------------
(***************************************************************************)
(* The in-memory approval store of the broker (internal/approval/store.go).*)
(*                                                                         *)
(* Every method of Store holds s.mu for its whole body, so a method is one *)
(* action, with one exception: Wait releases the mutex while it blocks in  *)
(* its select, and is split where it does (WaitSelect, the three arms of   *)
(* the select, and the locked section that follows two of them).           *)
(*                                                                         *)
(* Abstracted: an approval's aliases, command, categories and limits are   *)
(* one element of Requests; an identifier is a 128-bit random number and   *)
(* is taken to be fresh for ever; s.now() is the integer clock now.        *)
(***************************************************************************)
EXTENDS Naturals, Sequences, FiniteSets, Functions

CONSTANTS
    Ids,              \* identifiers the random source may return
    Requests,         \* what an approval is bound to: aliases, command, limits
    Codes,            \* four-character approval codes
    Waiters,          \* goroutines that call Wait
    Erased,           \* the zeroed request of a used tombstone
    NoCode,           \* the empty code of a used tombstone
    NoId,             \* the identifier of a waiter that has not called yet
    TTL,              \* defaultTTL, in ticks
    MaxStoreEntries,  \* maxStoreEntries
    Horizon           \* bound of the model: the last instant of the clock

ASSUME StoreAssumption ==
    /\ Erased \notin Requests
    /\ NoCode \notin Codes
    /\ NoId \notin Ids
    /\ TTL \in Nat \ {0}
    /\ MaxStoreEntries \in Nat \ {0}
    /\ Horizon \in Nat

VARIABLES
    now,      \* the clock
    items,    \* Store.items, a map from identifiers to stored approvals
    wait,     \* the program counter, locals and result of each Wait call
    (* History of what the callers were told. *)
    issued,   \* every approval ever created, as it was created
    verdict,  \* the decision Decide recorded for an identifier, and when
    grants    \* the successful Consume and Wait calls of each identifier

storeVars == <<items, wait, issued, verdict, grants>>
vars == <<now, items, wait, issued, verdict, grants>>

(***************************************************************************)
(* A stored approval.  The pair (decision, used) of the code takes four    *)
(* values: ("", false), ("approved", false), ("denied", false) and the     *)
(* tombstone ("", true); they are the four states here.                    *)
(***************************************************************************)
StoredApproval ==
    [ request   : Requests \cup {Erased},
      code      : Codes \cup {NoCode},
      expiresAt : Nat,
      state     : {"pending", "approved", "denied", "used"} ]

WaitState ==
    [ pc        : {"idle", "select", "woken", "timedOut", "returned"},
      id        : Ids \cup {NoId},
      expiresAt : Nat,
      done      : {"nil", "chan"},     \* item.done, nil in a tombstone
      result    : {"none", "granted", "denied", "notFound", "expired", "cancelled"} ]

Verdict == [ decision : {"none", "approved", "denied"}, at : Nat ]
Grant   == [ via : {"code", "wait"}, request : Requests \cup {Erased}, at : Nat ]

IdleWait  == [ pc |-> "idle", id |-> NoId, expiresAt |-> 0, done |-> "nil", result |-> "none" ]
Undecided == [ decision |-> "none", at |-> 0 ]

Init ==
    /\ now = 0
    /\ items = [id \in {} |-> IdleWait]
    /\ wait = [w \in Waiters |-> IdleWait]
    /\ issued = [id \in {} |-> IdleWait]
    /\ verdict = [id \in Ids |-> Undecided]
    /\ grants = [id \in Ids |-> <<>>]

-----------------------------------------------------------------------------
(***************************************************************************)
(* Operators named Mutant_* are the definition that follows them with a    *)
(* plausible bug.  Nothing uses them: they show which bug each property    *)
(* would catch.                                                            *)
(***************************************************************************)
Mutant_Expired(id) == now > items[id].expiresAt

Expired(id) == now >= items[id].expiresAt

\* cleanupLocked: the records it deletes, and the map without some records.
Stale(except) == { id \in DOMAIN items : Expired(id) /\ id # except }
Without(S) == Restrict(items, DOMAIN items \ S)

\* The done channel of an approval is closed by the decision on it, once.
ChannelClosed(id) == verdict[id].decision # "none"

\* The result of a Wait call, and the grant a successful call hands out.
Return(w, result) == wait' = [wait EXCEPT ![w].pc = "returned", ![w].result = result]
Mutant_Granted(id, how) ==
    grants' = [grants EXCEPT ![id] = Append(@, [ via |-> how, request |-> Erased, at |-> now ])]

Granted(id, how) ==
    grants' = [grants EXCEPT ![id] = Append(@, [ via |-> how, request |-> items[id].request, at |-> now ])]

-----------------------------------------------------------------------------
Mutant_CreateBatchFull(id, request, code) ==
    LET kept == DOMAIN items \ Stale(NoId)
        item == [ request |-> request, code |-> code, expiresAt |-> now + TTL, state |-> "pending" ]
    IN
    /\ id \notin DOMAIN issued
    /\ now + TTL <= Horizon
    /\ Cardinality(kept) <= MaxStoreEntries
    /\ items' = [i \in kept \cup {id} |-> IF i = id THEN item ELSE items[i]]
    /\ issued' = [i \in DOMAIN issued \cup {id} |-> IF i = id THEN item ELSE issued[i]]
    /\ UNCHANGED <<now, wait, verdict, grants>>

Mutant_CreateBatchPast(id, request, code) ==
    LET kept == DOMAIN items \ Stale(NoId)
        item == [ request |-> request, code |-> code, expiresAt |-> now - TTL, state |-> "pending" ]
    IN
    /\ id \notin DOMAIN issued
    /\ now + TTL <= Horizon
    /\ Cardinality(kept) < MaxStoreEntries
    /\ items' = [i \in kept \cup {id} |-> IF i = id THEN item ELSE items[i]]
    /\ issued' = [i \in DOMAIN issued \cup {id} |-> IF i = id THEN item ELSE issued[i]]
    /\ UNCHANGED <<now, wait, verdict, grants>>

\* CreateBatch: sweep, refuse at capacity, and store a fresh pending approval.
CreateBatch(id, request, code) ==
    LET kept == DOMAIN items \ Stale(NoId)
        item == [ request |-> request, code |-> code, expiresAt |-> now + TTL, state |-> "pending" ]
    IN
    /\ id \notin DOMAIN issued
    /\ now + TTL <= Horizon
    /\ Cardinality(kept) < MaxStoreEntries
    /\ items' = [i \in kept \cup {id} |-> IF i = id THEN item ELSE items[i]]
    /\ issued' = [i \in DOMAIN issued \cup {id} |-> IF i = id THEN item ELSE issued[i]]
    /\ UNCHANGED <<now, wait, verdict, grants>>

\* CreateBatch that fails after its sweep: the store is full (ErrCapacity) or
\* the random source fails or repeats a live identifier (ErrRandom).
CreateRefused ==
    /\ items' = Without(Stale(NoId))
    /\ UNCHANGED <<now, wait, issued, verdict, grants>>

\* List sweeps before it copies the records that are not tombstones.
List ==
    /\ items' = Without(Stale(NoId))
    /\ UNCHANGED <<now, wait, issued, verdict, grants>>

\* Decide on an expired record deletes it and reports ErrExpired.
DecideExpired(id) ==
    /\ id \in DOMAIN items
    /\ Expired(id)
    /\ items' = Without({id})
    /\ UNCHANGED <<now, wait, issued, verdict, grants>>

Mutant_Decide(id, decision) ==
    /\ id \in DOMAIN items
    /\ ~Expired(id)
    /\ items[id].state # "used"
    /\ items' = [items EXCEPT ![id].state = decision]
    /\ verdict' = [verdict EXCEPT ![id] = [ decision |-> decision, at |-> now ]]
    /\ UNCHANGED <<now, wait, issued, grants>>

\* Decide records the decision and closes the done channel.
Decide(id, decision) ==
    /\ id \in DOMAIN items
    /\ ~Expired(id)
    /\ items[id].state = "pending"
    /\ items' = [items EXCEPT ![id].state = decision]
    /\ verdict' = [verdict EXCEPT ![id] = [ decision |-> decision, at |-> now ]]
    /\ UNCHANGED <<now, wait, issued, grants>>

-----------------------------------------------------------------------------
\* Wait, first locked section: an unknown identifier is ErrNotFound.
WaitMissing(w, id) ==
    /\ wait[w].pc = "idle"
    /\ id \notin DOMAIN items
    /\ wait' = [wait EXCEPT ![w] = [@ EXCEPT !.pc = "returned", !.id = id, !.result = "notFound"]]
    /\ UNCHANGED <<now, items, issued, verdict, grants>>

\* Wait, first locked section: the channel and the deadline are read, the
\* mutex released and the timer armed.
WaitSelect(w, id) ==
    /\ wait[w].pc = "idle"
    /\ id \in DOMAIN items
    /\ wait' = [wait EXCEPT ![w] =
                  [ pc |-> "select", id |-> id, expiresAt |-> items[id].expiresAt,
                    done |-> IF items[id].state = "used" THEN "nil" ELSE "chan",
                    result |-> "none" ]]
    /\ UNCHANGED <<now, items, issued, verdict, grants>>

\* The three arms of the select; when several are ready the choice is free.
WaitCancelled(w) ==
    /\ wait[w].pc = "select"
    /\ Return(w, "cancelled")
    /\ UNCHANGED <<now, items, issued, verdict, grants>>

WaitWoken(w) ==
    /\ wait[w].pc = "select"
    /\ wait[w].done = "chan"
    /\ ChannelClosed(wait[w].id)
    /\ wait' = [wait EXCEPT ![w].pc = "woken"]
    /\ UNCHANGED <<now, items, issued, verdict, grants>>

WaitTimer(w) ==
    /\ wait[w].pc = "select"
    /\ now >= wait[w].expiresAt
    /\ wait' = [wait EXCEPT ![w].pc = "timedOut"]
    /\ UNCHANGED <<now, items, issued, verdict, grants>>

Mutant_WaitExpire(w) ==
    /\ wait[w].pc = "timedOut"
    /\ wait[w].id \in DOMAIN items
    /\ items' = Without({wait[w].id})
    /\ Return(w, "expired")
    /\ UNCHANGED <<now, issued, verdict, grants>>

\* The timer's arm takes the mutex and deletes the record, decided or not.
WaitExpire(w) ==
    /\ wait[w].pc = "timedOut"
    /\ items' = Without({wait[w].id})
    /\ Return(w, "expired")
    /\ UNCHANGED <<now, issued, verdict, grants>>

Mutant_WaitLost(w) ==
    LET id == wait[w].id IN
    /\ wait[w].pc = "woken"
    /\ id \notin DOMAIN items
    /\ Return(w, "granted")
    /\ grants' = [grants EXCEPT ![id] = Append(@, [ via |-> "wait", request |-> issued[id].request, at |-> now ])]
    /\ UNCHANGED <<now, items, issued, verdict>>

\* After the done arm: the record is gone, or was consumed by its code.
WaitLost(w) ==
    LET id == wait[w].id IN
    /\ wait[w].pc = "woken"
    /\ id \in DOMAIN items => items[id].state \notin {"approved", "denied"}
    /\ Return(w, "notFound")
    /\ UNCHANGED <<now, items, issued, verdict, grants>>

\* After the done arm: a denial is delivered and the record deleted.
WaitDenied(w) ==
    LET id == wait[w].id IN
    /\ wait[w].pc = "woken"
    /\ id \in DOMAIN items
    /\ items[id].state = "denied"
    /\ items' = Without({id})
    /\ Return(w, "denied")
    /\ UNCHANGED <<now, issued, verdict, grants>>

Mutant_WaitGrantedKept(w) ==
    LET id == wait[w].id IN
    /\ wait[w].pc = "woken"
    /\ id \in DOMAIN items
    /\ items[id].state = "approved"
    /\ Granted(id, "wait")
    /\ Return(w, "granted")
    /\ UNCHANGED <<now, items, issued, verdict>>

Mutant_WaitGrantedAny(w) ==
    LET id == wait[w].id IN
    /\ wait[w].pc = "woken"
    /\ id \in DOMAIN items
    /\ items[id].state # "used"
    /\ Granted(id, "wait")
    /\ items' = Without({id})
    /\ Return(w, "granted")
    /\ UNCHANGED <<now, issued, verdict>>

\* After the done arm: the approval is handed out and the record deleted.
WaitGranted(w) ==
    LET id == wait[w].id IN
    /\ wait[w].pc = "woken"
    /\ id \in DOMAIN items
    /\ items[id].state = "approved"
    /\ Granted(id, "wait")
    /\ items' = Without({id})
    /\ Return(w, "granted")
    /\ UNCHANGED <<now, issued, verdict>>

-----------------------------------------------------------------------------
\* Consume on an expired record deletes it before any other check.
ConsumeExpired(id) ==
    /\ id \in DOMAIN items
    /\ Expired(id)
    /\ items' = Without({id})
    /\ UNCHANGED <<now, wait, issued, verdict, grants>>

\* Consume that fails after its sweep: unknown, used, or the wrong code.
ConsumeRefused(id, code) ==
    /\ id \in DOMAIN items => /\ ~Expired(id)
                              /\ items[id].state = "used" \/ items[id].code # code
    /\ items' = Without(Stale(id))
    /\ UNCHANGED <<now, wait, issued, verdict, grants>>

\* Consume with the right code: hand the approval out, leave a tombstone.
Consume(id, code) ==
    LET tombstone == [ request |-> Erased, code |-> NoCode,
                       expiresAt |-> items[id].expiresAt, state |-> "used" ]
    IN
    /\ id \in DOMAIN items
    /\ ~Expired(id)
    /\ items[id].state # "used"
    /\ items[id].code = code
    /\ Granted(id, "code")
    /\ items' = [Without(Stale(id)) EXCEPT ![id] = tombstone]
    /\ UNCHANGED <<now, wait, issued, verdict>>

Mutant_Revoke(id) ==
    /\ id \in DOMAIN items
    /\ items' = Without({id})
    /\ UNCHANGED <<now, wait, issued, verdict, grants>>

\* Revoke deletes a record unless it is a used tombstone.
Revoke(id) ==
    /\ id \in DOMAIN items
    /\ items[id].state # "used"
    /\ items' = Without({id})
    /\ UNCHANGED <<now, wait, issued, verdict, grants>>

\* Time passes between calls.
Tick ==
    /\ now < Horizon
    /\ now' = now + 1
    /\ UNCHANGED storeVars

-----------------------------------------------------------------------------
\* A Wait call after it has begun: what its goroutine does by itself.
WaitStep(w) ==
    \/ WaitWoken(w) \/ WaitTimer(w) \/ WaitExpire(w)
    \/ WaitLost(w) \/ WaitDenied(w) \/ WaitGranted(w)

Next ==
    \/ Tick
    \/ CreateRefused
    \/ List
    \/ \E id \in Ids :
          \/ \E request \in Requests, code \in Codes : CreateBatch(id, request, code)
          \/ \E decision \in {"approved", "denied"} : Decide(id, decision)
          \/ \E code \in Codes : Consume(id, code) \/ ConsumeRefused(id, code)
          \/ DecideExpired(id) \/ ConsumeExpired(id) \/ Revoke(id)
          \/ \E w \in Waiters : WaitMissing(w, id) \/ WaitSelect(w, id)
    \/ \E w \in Waiters : WaitCancelled(w) \/ WaitStep(w)

Spec == Init /\ [][Next]_vars

\* Time passes, and the scheduler runs a goroutine whose select is ready.
FairSpec == Spec /\ WF_vars(Tick) /\ \A w \in Waiters : WF_vars(WaitStep(w))

-----------------------------------------------------------------------------
(* Correctness. *)

TypeOK ==
    /\ now \in Nat
    /\ DOMAIN items \subseteq DOMAIN issued
    /\ items \in [DOMAIN items -> StoredApproval]
    /\ wait \in [Waiters -> WaitState]
    /\ DOMAIN issued \subseteq Ids
    /\ issued \in [DOMAIN issued -> [ request : Requests, code : Codes, expiresAt : Nat, state : {"pending"} ]]
    /\ verdict \in [Ids -> Verdict]
    /\ grants \in [Ids -> Seq(Grant)]

\* An approval is handed out at most once, whatever mix of Consume calls with
\* its code and Wait calls competes for it.
SingleUse == \A id \in Ids : Len(grants[id]) <= 1

\* What is handed out is the request the approval was created for: the caller
\* gets the snapshot, never a record that was zeroed or replaced.
GrantBoundToRequest ==
    \A id \in Ids : \A k \in 1..Len(grants[id]) :
        id \in DOMAIN issued /\ grants[id][k].request = issued[id].request

\* Every grant was authorised before the approval's deadline: the code was
\* presented in time, or the decision its waiter acts on was made in time
\* (the waiter itself may be scheduled later).
AuthorisedInTime ==
    \A id \in Ids : \A k \in 1..Len(grants[id]) :
        LET g == grants[id][k] IN
        \/ g.via = "code" /\ g.at < issued[id].expiresAt
        \/ g.via = "wait" /\ verdict[id].decision = "approved" /\ verdict[id].at < issued[id].expiresAt

\* A waiter is told what was decided: it is granted only an approval somebody
\* approved, and is told of a denial only when there was one.
WaiterToldTheVerdict ==
    \A w \in Waiters :
        /\ wait[w].result = "granted" => verdict[wait[w].id].decision = "approved"
        /\ wait[w].result = "denied" => verdict[wait[w].id].decision = "denied"

\* "used tombstones are retained so replay remains distinguishable" (Revoke):
\* until its deadline a consumed approval stays in the map as used, so that a
\* second Consume reports ErrUsed and not ErrNotFound.
TombstoneRetained ==
    \A id \in DOMAIN issued :
        (\E k \in 1..Len(grants[id]) : grants[id][k].via = "code") /\ now < issued[id].expiresAt
            => id \in DOMAIN items /\ items[id].state = "used"

\* The store never holds more than maxStoreEntries records.
WithinCapacity == Cardinality(DOMAIN items) <= MaxStoreEntries

\* A decision is final: Decide never closes a done channel twice (a second
\* close would panic) and never turns a denial into an approval.
DecisionFinal ==
    [][\A id \in Ids : ChannelClosed(id) => verdict'[id] = verdict[id]]_vars

\* Every Wait call returns: when the decision arrives, or at the latest when
\* its timer fires, also if the record was deleted or consumed under it.
WaitReturns == \A w \in Waiters : wait[w].pc = "select" ~> wait[w].pc = "returned"

\* A user who denies an approval has refused the command: `approval deny` is
\* the counterpart of `approval approve` in the documented approval flow.
DeniedNeverGranted ==
    \A id \in Ids : verdict[id].decision = "denied" => grants[id] = <<>>

(***************************************************************************)
(* The store implements the life cycle its callers rely on.                *)
(***************************************************************************)
StatusOf(id) ==
    IF grants[id] # <<>> THEN "granted"
    ELSE IF id \notin DOMAIN issued THEN "unknown"
    ELSE IF id \in DOMAIN items THEN "open"
    ELSE "closed"

Lifecycle == INSTANCE ApprovalLifecycle WITH status <- [id \in Ids |-> StatusOf(id)]

\* Every step of the store is a step of the life cycle: one approval opens or
\* is granted, others close, and nothing that closed is ever granted.
ImplementsLifecycle == Lifecycle!Spec

=============================================================================
