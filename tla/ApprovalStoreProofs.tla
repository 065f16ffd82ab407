------------------------ MODULE ApprovalStoreProofs ------------------------
(***************************************************************************)
(* Proofs about the approval store, for every set of identifiers, codes,   *)
(* requests and waiters, every TTL, capacity and horizon.                  *)
(***************************************************************************)
EXTENDS ApprovalStore, FiniteSetTheorems, TLAPS

(***************************************************************************)
(* The strengthening.  What the properties say about grants follows from   *)
(* what the map says about an identifier while its record is there, and    *)
(* from what a Wait call remembers while the mutex is released.            *)
(***************************************************************************)
ItemInv ==
    \A id \in DOMAIN items :
        /\ items[id].expiresAt = issued[id].expiresAt
        /\ items[id].state # "used" => /\ grants[id] = <<>>
                                       /\ items[id].request = issued[id].request
        /\ items[id].state = "pending" => verdict[id].decision = "none"
        /\ items[id].state \in {"approved", "denied"} =>
              /\ verdict[id].decision = items[id].state
              /\ verdict[id].at < issued[id].expiresAt

FreshInv ==
    \A id \in Ids \ DOMAIN issued : grants[id] = <<>> /\ verdict[id].decision = "none"

WaitInv ==
    \A w \in Waiters :
        /\ wait[w].pc \in {"select", "woken", "timedOut"} =>
              /\ wait[w].id \in DOMAIN issued
              /\ wait[w].expiresAt = issued[wait[w].id].expiresAt
        /\ wait[w].pc = "timedOut" => now >= wait[w].expiresAt
        /\ wait[w].result \in {"granted", "denied"} => wait[w].id \in Ids

\* The part of the invariant about the map and its history.
StoreInv ==
    /\ now \in Nat
    /\ DOMAIN items \subseteq DOMAIN issued
    /\ items \in [DOMAIN items -> StoredApproval]
    /\ DOMAIN issued \subseteq Ids
    /\ issued \in [DOMAIN issued -> [ request : Requests, code : Codes, expiresAt : Nat, state : {"pending"} ]]
    /\ verdict \in [Ids -> Verdict]
    /\ grants \in [Ids -> Seq(Grant)]
    /\ ItemInv
    /\ FreshInv
    /\ SingleUse
    /\ GrantBoundToRequest
    /\ AuthorisedInTime
    /\ TombstoneRetained

\* The part about the Wait calls in progress.
WaitersInv ==
    /\ wait \in [Waiters -> WaitState]
    /\ WaitInv
    /\ WaiterToldTheVerdict

IInv == StoreInv /\ WaitersInv

-----------------------------------------------------------------------------
\* Deleting records keeps the store's part, provided no tombstone is deleted
\* before its deadline: every sweep, revocation and expiry is of this form.
LEMMA DeleteRecords ==
    ASSUME StoreInv, NEW S,
           items' = Without(S),
           UNCHANGED <<now, issued, verdict, grants>>,
           \A id \in S \cap DOMAIN items : items[id].state = "used" => now >= items[id].expiresAt
    PROVE  StoreInv'
<1>1. /\ DOMAIN items' = DOMAIN items \ S
      /\ \A id \in DOMAIN items \ S : items'[id] = items[id]
      /\ items' \in [DOMAIN items' -> StoredApproval]
  BY DEF Without, Restrict, StoreInv
<1>2. ItemInv'
  BY <1>1 DEF StoreInv, ItemInv
<1>3. TombstoneRetained'
  <2> SUFFICES ASSUME NEW id \in DOMAIN issued,
                      \E k \in 1..Len(grants[id]) : grants[id][k].via = "code",
                      now < issued[id].expiresAt
               PROVE  id \in DOMAIN items' /\ items'[id].state = "used"
    BY DEF TombstoneRetained
  <2>1. id \in DOMAIN items /\ items[id].state = "used"
    BY DEF StoreInv, TombstoneRetained
  <2>2. /\ now \in Nat
        /\ issued[id].expiresAt \in Nat
        /\ items[id].expiresAt = issued[id].expiresAt
    BY <2>1 DEF StoreInv, ItemInv
  <2>3. id \notin S
    BY <2>1, <2>2
  <2>4. QED
    BY <1>1, <2>1, <2>3
<1>4. QED
  BY <1>1, <1>2, <1>3 DEF StoreInv, FreshInv, SingleUse, GrantBoundToRequest, AuthorisedInTime

\* A step that leaves the Wait calls alone keeps their part as long as the
\* clock does not go back and neither deadlines nor decisions change.
LEMMA WaitersKept ==
    ASSUME IInv,
           UNCHANGED wait,
           now' \in Nat, now' >= now,
           DOMAIN issued \subseteq DOMAIN issued',
           \A id \in DOMAIN issued : issued'[id].expiresAt = issued[id].expiresAt,
           \A id \in Ids : verdict[id].decision # "none" => verdict'[id] = verdict[id]
    PROVE  WaitersInv'
<1>1. WaitInv'
  <2> SUFFICES ASSUME NEW w \in Waiters
               PROVE  /\ wait[w].pc \in {"select", "woken", "timedOut"} =>
                            /\ wait[w].id \in DOMAIN issued'
                            /\ wait[w].expiresAt = issued'[wait[w].id].expiresAt
                      /\ wait[w].pc = "timedOut" => now' >= wait[w].expiresAt
                      /\ wait[w].result \in {"granted", "denied"} => wait[w].id \in Ids
    BY DEF WaitInv
  <2>1. wait[w] \in WaitState
    BY DEF IInv, WaitersInv
  <2>2. now \in Nat
    BY DEF IInv, StoreInv
  <2>3. QED
    BY <2>1, <2>2 DEF IInv, WaitersInv, WaitInv, WaitState
<1>2. WaiterToldTheVerdict'
  BY DEF IInv, WaitersInv, WaitInv, WaiterToldTheVerdict
<1>3. QED
  BY <1>1, <1>2 DEF IInv, WaitersInv


\* A fresh approval is added after the sweep of CreateBatch.
LEMMA CreateKeeps ==
    ASSUME IInv, NEW id \in Ids, NEW request \in Requests, NEW code \in Codes,
           CreateBatch(id, request, code)
    PROVE  IInv'
<1> DEFINE kept == DOMAIN items \ Stale(NoId)
           item == [ request |-> request, code |-> code, expiresAt |-> now + TTL, state |-> "pending" ]
<1>1. /\ id \notin DOMAIN issued /\ id \notin DOMAIN items
      /\ items' = [i \in kept \cup {id} |-> IF i = id THEN item ELSE items[i]]
      /\ issued' = [i \in DOMAIN issued \cup {id} |-> IF i = id THEN item ELSE issued[i]]
      /\ UNCHANGED <<now, wait, verdict, grants>>
  BY DEF CreateBatch, IInv, StoreInv
<1>2. now \in Nat /\ now + TTL \in Nat
  BY StoreAssumption DEF IInv, StoreInv
<1>3. /\ DOMAIN issued' = DOMAIN issued \cup {id}
      /\ issued'[id] = item
      /\ \A i \in DOMAIN issued : issued'[i] = issued[i]
  BY <1>1
<1>4. /\ DOMAIN items' = kept \cup {id}
      /\ items'[id] = item
      /\ \A i \in kept : items'[i] = items[i]
  BY <1>1
<1>5. issued' \in [DOMAIN issued' -> [ request : Requests, code : Codes, expiresAt : Nat, state : {"pending"} ]]
  BY <1>1, <1>2 DEF IInv, StoreInv
<1>6. items' \in [DOMAIN items' -> StoredApproval] /\ DOMAIN items' \subseteq DOMAIN issued'
  BY <1>1, <1>2 DEF IInv, StoreInv, StoredApproval
<1>7. grants[id] = <<>> /\ verdict[id].decision = "none"
  BY <1>1 DEF IInv, StoreInv, FreshInv
<1>8. ItemInv'
  BY <1>1, <1>3, <1>4, <1>7 DEF IInv, StoreInv, ItemInv
<1>9. FreshInv' /\ SingleUse'
  BY <1>1, <1>3 DEF IInv, StoreInv, FreshInv, SingleUse
<1>10. GrantBoundToRequest' /\ AuthorisedInTime'
  BY <1>1, <1>3, <1>7 DEF IInv, StoreInv, GrantBoundToRequest, AuthorisedInTime
<1>11. TombstoneRetained'
  <2> SUFFICES ASSUME NEW i \in DOMAIN issued',
                      \E k \in 1..Len(grants[i]) : grants[i][k].via = "code",
                      now < issued'[i].expiresAt
               PROVE  i \in DOMAIN items' /\ items'[i].state = "used"
    BY <1>1 DEF TombstoneRetained
  <2>1. i # id
    BY <1>7
  <2>2. i \in DOMAIN issued /\ now < issued[i].expiresAt
    BY <1>3, <2>1
  <2>3. i \in DOMAIN items /\ items[i].state = "used"
    BY <2>2 DEF IInv, StoreInv, TombstoneRetained
  <2>4. items[i].expiresAt = issued[i].expiresAt /\ issued[i].expiresAt \in Nat
    BY <2>3 DEF IInv, StoreInv, ItemInv
  <2>5. i \in kept
    BY <1>2, <2>2, <2>3, <2>4 DEF Stale, Expired
  <2>6. QED
    BY <1>4, <2>3, <2>5
<1>12. WaitersInv'
  <2>1. now' \in Nat /\ now' >= now
    BY <1>1, <1>2
  <2>2. QED
    BY <1>1, <1>3, <2>1, WaitersKept
<1>13. QED
  BY <1>1, <1>3, <1>5, <1>6, <1>8, <1>9, <1>10, <1>11, <1>12 DEF IInv, StoreInv

\* A decision changes one pending record and the history of its identifier.
LEMMA DecideKeeps ==
    ASSUME IInv, NEW id \in Ids, NEW decision \in {"approved", "denied"}, Decide(id, decision)
    PROVE  IInv'
<1>1. /\ id \in DOMAIN items /\ id \in DOMAIN issued
      /\ items[id].state = "pending"
      /\ verdict[id].decision = "none"
      /\ grants[id] = <<>>
      /\ items[id].expiresAt = issued[id].expiresAt
      /\ items[id].request = issued[id].request
  BY DEF Decide, IInv, StoreInv, ItemInv
<1>2. /\ items' = [items EXCEPT ![id].state = decision]
      /\ verdict' = [verdict EXCEPT ![id] = [ decision |-> decision, at |-> now ]]
      /\ UNCHANGED <<now, wait, issued, grants>>
  BY DEF Decide
<1>3. now \in Nat /\ issued[id].expiresAt \in Nat /\ items[id] \in StoredApproval
  BY <1>1 DEF IInv, StoreInv
<1>4. now < issued[id].expiresAt
  BY <1>1, <1>3 DEF Decide, Expired
<1>5. /\ DOMAIN items' = DOMAIN items
      /\ items' \in [DOMAIN items' -> StoredApproval]
      /\ \A i \in DOMAIN items \ {id} : items'[i] = items[i]
      /\ items'[id].state = decision
      /\ items'[id].expiresAt = items[id].expiresAt
      /\ items'[id].request = items[id].request
  BY <1>1, <1>2, <1>3 DEF IInv, StoreInv, StoredApproval
<1>6. /\ verdict' \in [Ids -> Verdict]
      /\ verdict'[id].decision = decision /\ verdict'[id].at = now
      /\ \A i \in Ids \ {id} : verdict'[i] = verdict[i]
  BY <1>2, <1>3 DEF IInv, StoreInv, Verdict
<1>7. ItemInv'
  <2> SUFFICES ASSUME NEW i \in DOMAIN items
               PROVE  /\ items'[i].expiresAt = issued[i].expiresAt
                      /\ items'[i].state # "used" => /\ grants[i] = <<>>
                                                     /\ items'[i].request = issued[i].request
                      /\ items'[i].state = "pending" => verdict'[i].decision = "none"
                      /\ items'[i].state \in {"approved", "denied"} =>
                            /\ verdict'[i].decision = items'[i].state
                            /\ verdict'[i].at < issued[i].expiresAt
    BY <1>2, <1>5 DEF ItemInv
  <2>1. CASE i = id
    BY <1>1, <1>4, <1>5, <1>6, <2>1
  <2>2. CASE i # id
    BY <1>5, <1>6, <2>2 DEF IInv, StoreInv, ItemInv
  <2>3. QED
    BY <2>1, <2>2
<1>8. FreshInv' /\ SingleUse' /\ GrantBoundToRequest'
  BY <1>1, <1>2, <1>6 DEF IInv, StoreInv, FreshInv, SingleUse, GrantBoundToRequest
<1>9. AuthorisedInTime'
  <2> SUFFICES ASSUME NEW i \in Ids, NEW k \in 1..Len(grants[i])
               PROVE  \/ grants[i][k].via = "code" /\ grants[i][k].at < issued[i].expiresAt
                      \/ /\ grants[i][k].via = "wait"
                         /\ verdict'[i].decision = "approved"
                         /\ verdict'[i].at < issued[i].expiresAt
    BY <1>2 DEF AuthorisedInTime
  <2>1. i # id
    BY <1>1
  <2>2. QED
    BY <1>6, <2>1 DEF IInv, StoreInv, AuthorisedInTime
<1>10. TombstoneRetained'
  BY <1>1, <1>2, <1>5 DEF IInv, StoreInv, TombstoneRetained
<1>11. WaitersInv'
  <2>1. now' \in Nat /\ now' >= now
    BY <1>2, <1>3
  <2>2. \A i \in Ids : verdict[i].decision # "none" => verdict'[i] = verdict[i]
    BY <1>1, <1>6
  <2>3. QED
    BY <1>2, <2>1, <2>2, WaitersKept
<1>12. QED
  BY <1>2, <1>5, <1>6, <1>7, <1>8, <1>9, <1>10, <1>11 DEF IInv, StoreInv


\* The history after a grant: the approval handed out had not been before.
LEMMA GrantFacts ==
    ASSUME StoreInv, NEW id \in DOMAIN items, NEW how \in {"code", "wait"},
           items[id].state # "used",
           Granted(id, how)
    PROVE  /\ grants' \in [Ids -> Seq(Grant)]
           /\ grants'[id] = << [ via |-> how, request |-> issued[id].request, at |-> now ] >>
           /\ \A i \in Ids \ {id} : grants'[i] = grants[i]
<1> DEFINE g == [ via |-> how, request |-> items[id].request, at |-> now ]
<1>1. id \in Ids /\ grants[id] = <<>> /\ items[id].request = issued[id].request
  BY DEF StoreInv, ItemInv
<1>2. g \in Grant
  <2>1. items[id] \in StoredApproval /\ now \in Nat
    BY DEF StoreInv
  <2>2. QED
    BY <2>1 DEF Grant, StoredApproval
<1>3. grants' = [grants EXCEPT ![id] = Append(grants[id], g)]
  BY DEF Granted
<1>4. Append(grants[id], g) = <<g>> /\ <<g>> \in Seq(Grant)
  BY <1>1, <1>2
<1>5. QED
  BY <1>1, <1>3, <1>4 DEF StoreInv

\* A grant from a live record, with the record deleted (Wait) or replaced by a
\* tombstone (Consume), keeps the store's part.
LEMMA GrantKeeps ==
    ASSUME StoreInv, NEW id \in DOMAIN items, NEW how \in {"code", "wait"},
           items[id].state # "used",
           Granted(id, how),
           UNCHANGED <<now, issued, verdict>>,
           items' \in [DOMAIN items' -> StoredApproval],
           DOMAIN items' \subseteq DOMAIN items,
           \A i \in DOMAIN items' \ {id} : items'[i] = items[i],
           \A i \in DOMAIN items \ {id} : i \notin DOMAIN items' => now >= items[i].expiresAt,
           how = "code" => /\ now < items[id].expiresAt
                           /\ id \in DOMAIN items'
                           /\ items'[id].state = "used"
                           /\ items'[id].expiresAt = items[id].expiresAt,
           how = "wait" => items[id].state = "approved" /\ id \notin DOMAIN items'
    PROVE  StoreInv'
<1>1. /\ grants' \in [Ids -> Seq(Grant)]
      /\ grants'[id] = << [ via |-> how, request |-> issued[id].request, at |-> now ] >>
      /\ \A i \in Ids \ {id} : grants'[i] = grants[i]
  BY GrantFacts
<1>2. /\ id \in Ids /\ id \in DOMAIN issued
      /\ items[id].expiresAt = issued[id].expiresAt
      /\ now \in Nat
      /\ items[id].state = "approved" =>
            verdict[id].decision = "approved" /\ verdict[id].at < issued[id].expiresAt
  BY DEF StoreInv, ItemInv
<1>3. /\ Len(grants'[id]) = 1
      /\ grants'[id][1].via = how
      /\ grants'[id][1].request = issued[id].request
      /\ grants'[id][1].at = now
  BY <1>1
<1>4. ItemInv'
  <2> SUFFICES ASSUME NEW i \in DOMAIN items'
               PROVE  /\ items'[i].expiresAt = issued[i].expiresAt
                      /\ items'[i].state # "used" => /\ grants'[i] = <<>>
                                                     /\ items'[i].request = issued[i].request
                      /\ items'[i].state = "pending" => verdict[i].decision = "none"
                      /\ items'[i].state \in {"approved", "denied"} =>
                            /\ verdict[i].decision = items'[i].state
                            /\ verdict[i].at < issued[i].expiresAt
    BY DEF ItemInv
  <2>1. CASE i = id
    BY <1>2, <2>1
  <2>2. CASE i # id
    BY <1>1, <2>2 DEF StoreInv, ItemInv
  <2>3. QED
    BY <2>1, <2>2
<1>5. FreshInv'
  BY <1>1, <1>2 DEF StoreInv, FreshInv
<1>6. SingleUse'
  <2> SUFFICES ASSUME NEW i \in Ids PROVE Len(grants'[i]) <= 1
    BY DEF SingleUse
  <2>1. CASE i = id
    <3>1. Len(grants'[i]) = 1
      BY <1>3, <2>1
    <3>2. QED
      BY <3>1
  <2>2. CASE i # id
    BY <1>1, <2>2 DEF StoreInv, SingleUse
  <2>3. QED
    BY <2>1, <2>2
<1>7. GrantBoundToRequest'
  <2> SUFFICES ASSUME NEW i \in Ids, NEW k \in 1..Len(grants'[i])
               PROVE  i \in DOMAIN issued /\ grants'[i][k].request = issued[i].request
    BY DEF GrantBoundToRequest
  <2>1. CASE i = id
    BY <1>2, <1>3, <2>1
  <2>2. CASE i # id
    BY <1>1, <2>2 DEF StoreInv, GrantBoundToRequest
  <2>3. QED
    BY <2>1, <2>2
<1>8. AuthorisedInTime'
  <2> SUFFICES ASSUME NEW i \in Ids, NEW k \in 1..Len(grants'[i])
               PROVE  \/ grants'[i][k].via = "code" /\ grants'[i][k].at < issued[i].expiresAt
                      \/ /\ grants'[i][k].via = "wait"
                         /\ verdict[i].decision = "approved"
                         /\ verdict[i].at < issued[i].expiresAt
    BY DEF AuthorisedInTime
  <2>1. CASE i = id
    <3>1. Len(grants'[i]) = 1
      BY <1>3, <2>1
    <3>2. k = 1
      BY <3>1
    <3>3. QED
      BY <1>2, <1>3, <2>1, <3>2
  <2>2. CASE i # id
    BY <1>1, <2>2 DEF StoreInv, AuthorisedInTime
  <2>3. QED
    BY <2>1, <2>2
<1>9. TombstoneRetained'
  <2> SUFFICES ASSUME NEW i \in DOMAIN issued,
                      NEW k \in 1..Len(grants'[i]),
                      grants'[i][k].via = "code",
                      now < issued[i].expiresAt
               PROVE  i \in DOMAIN items' /\ items'[i].state = "used"
    BY DEF TombstoneRetained
  <2>1. CASE i = id
    <3>1. k = 1
      BY <1>3, <2>1
    <3>2. QED
      BY <1>3, <2>1, <3>1
  <2>2. CASE i # id
    <3>1. grants'[i] = grants[i]
      BY <1>1, <2>2 DEF StoreInv
    <3>2. i \in DOMAIN items /\ items[i].state = "used"
      BY <3>1 DEF StoreInv, TombstoneRetained
    <3>3. items[i].expiresAt = issued[i].expiresAt /\ issued[i].expiresAt \in Nat
      BY <3>2 DEF StoreInv, ItemInv
    <3>4. i \in DOMAIN items'
      BY <1>2, <2>2, <3>2, <3>3
    <3>5. QED
      BY <2>2, <3>2, <3>4
  <2>3. QED
    BY <2>1, <2>2
<1>10. QED
  BY <1>1, <1>4, <1>5, <1>6, <1>7, <1>8, <1>9 DEF StoreInv

\* A Wait call that moves, or returns with a result backed by the verdict,
\* keeps the waiters' part.
LEMMA WaiterMoves ==
    ASSUME IInv, NEW w \in Waiters, NEW s \in WaitState,
           wait' = [wait EXCEPT ![w] = s],
           UNCHANGED <<now, issued, verdict>>,
           s.pc \in {"select", "woken", "timedOut"} =>
              s.id \in DOMAIN issued /\ s.expiresAt = issued[s.id].expiresAt,
           s.pc = "timedOut" => now >= s.expiresAt,
           s.result = "granted" => s.id \in Ids /\ verdict[s.id].decision = "approved",
           s.result = "denied" => s.id \in Ids /\ verdict[s.id].decision = "denied"
    PROVE  WaitersInv'
<1>1. wait' \in [Waiters -> WaitState] /\ wait'[w] = s /\ \A v \in Waiters \ {w} : wait'[v] = wait[v]
  BY DEF IInv, WaitersInv
<1>2. WaitInv'
  BY <1>1 DEF IInv, WaitersInv, WaitInv
<1>3. WaiterToldTheVerdict'
  BY <1>1 DEF IInv, WaitersInv, WaiterToldTheVerdict
<1>4. QED
  BY <1>1, <1>2, <1>3 DEF WaitersInv


-----------------------------------------------------------------------------
\* The invariant is inductive.
THEOREM InitInvariant == Init => IInv
<1> SUFFICES ASSUME Init PROVE IInv
  OBVIOUS
<1>1. /\ now = 0
      /\ DOMAIN items = {} /\ DOMAIN issued = {}
      /\ items \in [{} -> StoredApproval]
      /\ issued \in [{} -> [ request : Requests, code : Codes, expiresAt : Nat, state : {"pending"} ]]
      /\ grants = [id \in Ids |-> <<>>]
      /\ verdict = [id \in Ids |-> Undecided]
      /\ wait = [w \in Waiters |-> IdleWait]
  BY DEF Init
<1>2. verdict \in [Ids -> Verdict] /\ wait \in [Waiters -> WaitState]
  BY <1>1 DEF Undecided, Verdict, IdleWait, WaitState
<1>3. grants \in [Ids -> Seq(Grant)] /\ \A id \in Ids : grants[id] = <<>> /\ Len(grants[id]) = 0
  BY <1>1
<1>4. ItemInv /\ TombstoneRetained
  BY <1>1 DEF ItemInv, TombstoneRetained
<1>5. FreshInv
  BY <1>1, <1>3 DEF FreshInv, Undecided
<1>6. SingleUse /\ GrantBoundToRequest /\ AuthorisedInTime
  BY <1>3 DEF SingleUse, GrantBoundToRequest, AuthorisedInTime
<1>7. WaitInv /\ WaiterToldTheVerdict
  BY <1>1 DEF WaitInv, WaiterToldTheVerdict, IdleWait
<1>8. QED
  BY <1>1, <1>2, <1>3, <1>4, <1>5, <1>6, <1>7 DEF IInv, StoreInv, WaitersInv

\* Every step of the store preserves the invariant: one case per action.
THEOREM NextInvariant == IInv /\ [Next]_vars => IInv'
<1> SUFFICES ASSUME IInv, [Next]_vars PROVE IInv'
  OBVIOUS
<1> USE DEF IInv
<1>0. /\ now \in Nat /\ now >= now
      /\ \A w \in Waiters : wait[w] \in WaitState
  BY DEF StoreInv, WaitersInv
<1>S. ASSUME NEW except,
             items' = Without(Stale(except)),
             UNCHANGED <<now, wait, issued, verdict, grants>>
      PROVE  IInv'
  <2>1. \A id \in Stale(except) \cap DOMAIN items : now >= items[id].expiresAt
    BY DEF Stale, Expired
  <2>2. StoreInv'
    BY <1>S, <2>1, DeleteRecords
  <2>3. WaitersInv'
    BY <1>S, <1>0, WaitersKept
  <2>4. QED
    BY <2>2, <2>3
<1>D. ASSUME NEW id \in DOMAIN items,
             items[id].state = "used" => now >= items[id].expiresAt,
             items' = Without({id}),
             UNCHANGED <<now, wait, issued, verdict, grants>>
      PROVE  IInv'
  <2>1. StoreInv'
    BY <1>D, DeleteRecords
  <2>2. WaitersInv'
    BY <1>D, <1>0, WaitersKept
  <2>3. QED
    BY <2>1, <2>2
<1>1. CASE UNCHANGED vars
  <2>1. StoreInv'
    BY <1>1 DEF vars, StoreInv, ItemInv, FreshInv, SingleUse, GrantBoundToRequest,
                AuthorisedInTime, TombstoneRetained
  <2>2. WaitersInv'
    BY <1>1 DEF vars, WaitersInv, WaitInv, WaiterToldTheVerdict
  <2>3. QED
    BY <2>1, <2>2
<1>2. CASE Tick
  <2>1. now' = now + 1 /\ now' \in Nat /\ now' >= now /\ UNCHANGED storeVars
    BY <1>0, <1>2 DEF Tick
  <2>2. TombstoneRetained'
    <3> SUFFICES ASSUME NEW id \in DOMAIN issued,
                        \E k \in 1..Len(grants[id]) : grants[id][k].via = "code",
                        now' < issued[id].expiresAt
                 PROVE  id \in DOMAIN items /\ items[id].state = "used"
      BY <2>1 DEF storeVars, TombstoneRetained
    <3>1. issued[id].expiresAt \in Nat
      BY DEF StoreInv
    <3>2. now < issued[id].expiresAt
      BY <1>0, <2>1, <3>1
    <3>3. QED
      BY <3>2 DEF StoreInv, TombstoneRetained
  <2>3. StoreInv'
    BY <2>1, <2>2 DEF storeVars, StoreInv, ItemInv, FreshInv, SingleUse, GrantBoundToRequest, AuthorisedInTime
  <2>4. WaitersInv'
    BY <2>1, WaitersKept DEF storeVars
  <2>5. QED
    BY <2>3, <2>4
<1>3. CASE CreateRefused \/ List
  BY <1>3, <1>S DEF CreateRefused, List
<1>4. ASSUME NEW id \in Ids, NEW request \in Requests, NEW code \in Codes,
             CreateBatch(id, request, code)
      PROVE  IInv'
  BY <1>4, CreateKeeps
<1>5. ASSUME NEW id \in Ids, NEW decision \in {"approved", "denied"}, Decide(id, decision)
      PROVE  IInv'
  BY <1>5, DecideKeeps
<1>6. ASSUME NEW id \in Ids, DecideExpired(id) \/ ConsumeExpired(id) \/ Revoke(id)
      PROVE  IInv'
  BY <1>6, <1>D DEF DecideExpired, ConsumeExpired, Revoke, Expired
<1>7. ASSUME NEW id \in Ids, NEW code \in Codes, ConsumeRefused(id, code)
      PROVE  IInv'
  BY <1>7, <1>S DEF ConsumeRefused
<1>8. ASSUME NEW id \in Ids, NEW code \in Codes, Consume(id, code)
      PROVE  IInv'
  <2> DEFINE tombstone == [ request |-> Erased, code |-> NoCode,
                            expiresAt |-> items[id].expiresAt, state |-> "used" ]
  <2>1. /\ id \in DOMAIN items /\ items[id].state # "used"
        /\ Granted(id, "code")
        /\ items' = [Without(Stale(id)) EXCEPT ![id] = tombstone]
        /\ UNCHANGED <<now, wait, issued, verdict>>
    BY <1>8 DEF Consume
  <2>2. items[id].expiresAt \in Nat /\ now < items[id].expiresAt
    <3>1. items[id] \in StoredApproval
      BY <2>1 DEF StoreInv
    <3>2. QED
      BY <1>0, <1>8, <3>1 DEF Consume, Expired, StoredApproval
  <2>3. tombstone \in StoredApproval
    BY <2>2 DEF StoredApproval
  <2>4. /\ DOMAIN items' = DOMAIN items \ Stale(id)
        /\ id \in DOMAIN items' /\ items'[id] = tombstone
        /\ \A i \in DOMAIN items' \ {id} : items'[i] = items[i]
    BY <2>1 DEF Without, Restrict, Stale
  <2>5. items' \in [DOMAIN items' -> StoredApproval]
    BY <2>1, <2>3, <2>4 DEF StoreInv, Without, Restrict
  <2>6. \A i \in DOMAIN items \ {id} : i \notin DOMAIN items' => now >= items[i].expiresAt
    BY <2>4 DEF Stale, Expired
  <2>7. StoreInv'
    BY <2>1, <2>2, <2>4, <2>5, <2>6, GrantKeeps
  <2>8. WaitersInv'
    BY <1>0, <2>1, WaitersKept
  <2>9. QED
    BY <2>7, <2>8
<1>9. ASSUME NEW w \in Waiters, NEW id \in Ids, WaitMissing(w, id) \/ WaitSelect(w, id)
      PROVE  IInv'
  <2>1. UNCHANGED <<now, items, issued, verdict, grants>>
    BY <1>9 DEF WaitMissing, WaitSelect
  <2>2. StoreInv'
    BY <2>1 DEF StoreInv, ItemInv, FreshInv, SingleUse, GrantBoundToRequest,
                AuthorisedInTime, TombstoneRetained
  <2>3. CASE WaitMissing(w, id)
    <3> DEFINE s == [wait[w] EXCEPT !.pc = "returned", !.id = id, !.result = "notFound"]
    <3>1. wait' = [wait EXCEPT ![w] = s]
      BY <2>3 DEF WaitMissing
    <3>2. s \in WaitState /\ s.pc = "returned" /\ s.result = "notFound"
      BY <1>0 DEF WaitState
    <3>3. QED
      BY <2>1, <2>2, <3>1, <3>2, WaiterMoves
  <2>4. CASE WaitSelect(w, id)
    <3> DEFINE s == [ pc |-> "select", id |-> id, expiresAt |-> items[id].expiresAt,
                      done |-> IF items[id].state = "used" THEN "nil" ELSE "chan",
                      result |-> "none" ]
    <3>1. wait' = [wait EXCEPT ![w] = s] /\ id \in DOMAIN items
      BY <2>4 DEF WaitSelect
    <3>2. id \in DOMAIN issued /\ items[id] \in StoredApproval /\ items[id].expiresAt = issued[id].expiresAt
      BY <3>1 DEF StoreInv, ItemInv
    <3>3. s \in WaitState
      BY <3>2 DEF WaitState, StoredApproval
    <3>4. /\ s.pc = "select" /\ s.result = "none"
          /\ s.id \in DOMAIN issued /\ s.expiresAt = issued[s.id].expiresAt
      BY <3>2
    <3> HIDE DEF s
    <3>5. QED
      BY <2>1, <2>2, <3>1, <3>3, <3>4, WaiterMoves
  <2>5. QED
    BY <1>9, <2>3, <2>4
<1>10. ASSUME NEW w \in Waiters, WaitCancelled(w) \/ WaitWoken(w) \/ WaitTimer(w) \/ WaitLost(w)
       PROVE  IInv'
  <2>1. UNCHANGED <<now, items, issued, verdict, grants>>
    BY <1>10 DEF WaitCancelled, WaitWoken, WaitTimer, WaitLost
  <2>2. StoreInv'
    BY <2>1 DEF StoreInv, ItemInv, FreshInv, SingleUse, GrantBoundToRequest,
                AuthorisedInTime, TombstoneRetained
  <2>3. /\ wait[w].pc \in {"select", "woken"}
        /\ wait[w].id \in DOMAIN issued /\ wait[w].expiresAt = issued[wait[w].id].expiresAt
        /\ wait[w].result \in {"granted", "denied"} =>
              wait[w].id \in Ids /\ verdict[wait[w].id].decision =
                 (IF wait[w].result = "granted" THEN "approved" ELSE "denied")
    BY <1>10 DEF WaitCancelled, WaitWoken, WaitTimer, WaitLost, WaitersInv, WaitInv, WaiterToldTheVerdict
  <2>4. PICK pc \in {"returned", "woken", "timedOut"},
             result \in {"cancelled", "notFound", wait[w].result} :
          /\ wait' = [wait EXCEPT ![w] = [wait[w] EXCEPT !.pc = pc, !.result = result]]
          /\ pc = "timedOut" => now >= wait[w].expiresAt
    <3>1. CASE WaitCancelled(w)
      <4>1. wait' = [wait EXCEPT ![w] = [wait[w] EXCEPT !.pc = "returned", !.result = "cancelled"]]
        BY <3>1 DEF WaitCancelled, Return
      <4>2. QED
        BY <4>1
    <3>2. CASE WaitWoken(w)
      <4>1. wait' = [wait EXCEPT ![w] = [wait[w] EXCEPT !.pc = "woken", !.result = wait[w].result]]
        BY <3>2, <1>0 DEF WaitWoken, WaitState
      <4>2. QED
        BY <4>1
    <3>3. CASE WaitTimer(w)
      <4>1. /\ wait' = [wait EXCEPT ![w] = [wait[w] EXCEPT !.pc = "timedOut", !.result = wait[w].result]]
            /\ now >= wait[w].expiresAt
        BY <3>3, <1>0 DEF WaitTimer, WaitState
      <4>2. QED
        BY <4>1
    <3>4. CASE WaitLost(w)
      <4>1. wait' = [wait EXCEPT ![w] = [wait[w] EXCEPT !.pc = "returned", !.result = "notFound"]]
        BY <3>4 DEF WaitLost, Return
      <4>2. QED
        BY <4>1
    <3>5. QED
      BY <1>10, <3>1, <3>2, <3>3, <3>4
  <2> DEFINE s == [wait[w] EXCEPT !.pc = pc, !.result = result]
  <2>5. /\ s \in WaitState
        /\ s.pc = pc /\ s.result = result /\ s.id = wait[w].id /\ s.expiresAt = wait[w].expiresAt
    BY <1>0, <2>4 DEF WaitState
  <2> HIDE DEF s
  <2>6. WaitersInv'
    BY <2>1, <2>3, <2>4, <2>5, WaiterMoves DEF s
  <2>7. QED
    BY <2>2, <2>6
<1>11. ASSUME NEW w \in Waiters, WaitExpire(w) \/ WaitDenied(w) \/ WaitGranted(w)
       PROVE  IInv'
  <2> DEFINE id == wait[w].id
  <2>1. /\ UNCHANGED <<now, issued, verdict>>
        /\ items' = Without({id})
        /\ wait[w].pc \in {"woken", "timedOut"}
        /\ id \in DOMAIN issued /\ id \in Ids
    BY <1>11 DEF WaitExpire, WaitDenied, WaitGranted, WaitersInv, WaitInv, StoreInv
  <2>2. StoreInv'
    <3>1. CASE WaitExpire(w)
      <4>1. id \in DOMAIN items => now >= items[id].expiresAt
        BY <3>1 DEF WaitExpire, WaitersInv, WaitInv, StoreInv, ItemInv
      <4>2. UNCHANGED grants
        BY <3>1 DEF WaitExpire
      <4>3. QED
        BY <2>1, <4>1, <4>2, DeleteRecords
    <3>2. CASE WaitDenied(w)
      <4>1. items[id].state = "denied" /\ UNCHANGED grants
        BY <3>2 DEF WaitDenied
      <4>2. QED
        BY <2>1, <4>1, DeleteRecords
    <3>3. CASE WaitGranted(w)
      <4>1. id \in DOMAIN items /\ items[id].state = "approved" /\ Granted(id, "wait")
        BY <3>3 DEF WaitGranted
      <4>2. /\ DOMAIN items' = DOMAIN items \ {id}
            /\ \A i \in DOMAIN items' : items'[i] = items[i]
            /\ items' \in [DOMAIN items' -> StoredApproval]
        BY <2>1 DEF Without, Restrict, StoreInv
      <4>3. QED
        BY <2>1, <4>1, <4>2, GrantKeeps
    <3>4. QED
      BY <1>11, <3>1, <3>2, <3>3
  <2>3. PICK result \in {"expired", "denied", "granted"} :
          /\ wait' = [wait EXCEPT ![w] = [wait[w] EXCEPT !.pc = "returned", !.result = result]]
          /\ result = "denied" => verdict[id].decision = "denied"
          /\ result = "granted" => verdict[id].decision = "approved"
    <3>1. CASE WaitExpire(w)
      BY <3>1 DEF WaitExpire, Return
    <3>2. CASE WaitDenied(w)
      BY <3>2 DEF WaitDenied, Return, StoreInv, ItemInv
    <3>3. CASE WaitGranted(w)
      BY <3>3 DEF WaitGranted, Return, StoreInv, ItemInv
    <3>4. QED
      BY <1>11, <3>1, <3>2, <3>3
  <2> DEFINE s == [wait[w] EXCEPT !.pc = "returned", !.result = result]
  <2>4. s \in WaitState /\ s.pc = "returned" /\ s.result = result /\ s.id = id
    BY <1>0, <2>3 DEF WaitState
  <2> HIDE DEF s
  <2>5. WaitersInv'
    BY <2>1, <2>3, <2>4, WaiterMoves DEF s
  <2>6. QED
    BY <2>2, <2>5
<1>12. QED
  BY <1>1, <1>2, <1>3, <1>4, <1>5, <1>6, <1>7, <1>8, <1>9, <1>10, <1>11 DEF Next, WaitStep

\* What the invariant says, in the vocabulary of the store's callers: in every
\* reachable state of the store an approval has been handed out at most once,
\* for the request it was created for, and on an authorisation given in time;
\* waiters are told the verdict; and tombstones outlive every replay.
THEOREM StoreInvariant == Spec => []IInv
<1>1. Init => IInv
  BY InitInvariant
<1>2. IInv /\ [Next]_vars => IInv'
  BY NextInvariant
<1>3. QED
  BY <1>1, <1>2, PTL DEF Spec

-----------------------------------------------------------------------------
\* The store's variables keep their types.
THEOREM TypeCorrect == Spec => []TypeOK
<1>1. IInv => TypeOK
  BY DEF IInv, StoreInv, WaitersInv, TypeOK
<1>2. QED
  BY <1>1, StoreInvariant, PTL

\* An approval is handed out at most once, however Consume and Wait calls of
\* any number of goroutines interleave.
THEOREM SingleUseCorrect == Spec => []SingleUse
<1>1. IInv => SingleUse
  BY DEF IInv, StoreInv
<1>2. QED
  BY <1>1, StoreInvariant, PTL

\* What is handed out is the request the approval was created for.
THEOREM GrantCorrect == Spec => []GrantBoundToRequest
<1>1. IInv => GrantBoundToRequest
  BY DEF IInv, StoreInv
<1>2. QED
  BY <1>1, StoreInvariant, PTL

\* Every grant was authorised before the approval's deadline, by its code or by the
\* decision its waiter acts on, however late that waiter is scheduled.
THEOREM GrantInTime == Spec => []AuthorisedInTime
<1>1. IInv => AuthorisedInTime
  BY DEF IInv, StoreInv
<1>2. QED
  BY <1>1, StoreInvariant, PTL

\* No Wait call reports a grant that nobody approved, or a denial nobody made.
THEOREM WaitCorrect == Spec => []WaiterToldTheVerdict
<1>1. IInv => WaiterToldTheVerdict
  BY DEF IInv, WaitersInv
<1>2. QED
  BY <1>1, StoreInvariant, PTL

\* Until its deadline a consumed approval is remembered as used.
THEOREM ReplayDistinguishable == Spec => []TombstoneRetained
<1>1. IInv => TombstoneRetained
  BY DEF IInv, StoreInv
<1>2. QED
  BY <1>1, StoreInvariant, PTL

\* A done channel is closed at most once and a decision never changes.
THEOREM DecisionIsFinal == Spec => DecisionFinal
<1>1. IInv /\ [Next]_vars => [\A id \in Ids : ChannelClosed(id) => verdict'[id] = verdict[id]]_vars
  <2> SUFFICES ASSUME IInv, Next, NEW id \in Ids, ChannelClosed(id)
               PROVE  verdict'[id] = verdict[id]
    OBVIOUS
  <2>1. ASSUME NEW i \in Ids, NEW decision \in {"approved", "denied"}, Decide(i, decision)
        PROVE  verdict'[id] = verdict[id]
    <3>1. i # id
      BY <2>1 DEF Decide, IInv, StoreInv, ItemInv, ChannelClosed
    <3>2. QED
      BY <2>1, <3>1 DEF Decide, IInv, StoreInv
  <2>2. CASE UNCHANGED verdict
    BY <2>2
  <2>3. QED
    BY <2>1, <2>2 DEF Next, Tick, storeVars, CreateRefused, List, CreateBatch, Consume, ConsumeRefused,
         DecideExpired, ConsumeExpired, Revoke, WaitMissing, WaitSelect, WaitCancelled, WaitStep,
         WaitWoken, WaitTimer, WaitExpire, WaitLost, WaitDenied, WaitGranted
<1>2. QED
  BY <1>1, StoreInvariant, PTL DEF Spec, DecisionFinal

-----------------------------------------------------------------------------
(* The capacity of the store. *)

CapacityInv == IsFiniteSet(DOMAIN items) /\ WithinCapacity

\* A step that only deletes or replaces records cannot exceed the capacity.
LEMMA ShrinkingKeepsCapacity ==
    ASSUME CapacityInv, DOMAIN items' \subseteq DOMAIN items
    PROVE  CapacityInv'
<1>1. IsFiniteSet(DOMAIN items') /\ Cardinality(DOMAIN items') <= Cardinality(DOMAIN items)
  BY FS_Subset DEF CapacityInv
<1>2. Cardinality(DOMAIN items) \in Nat /\ Cardinality(DOMAIN items') \in Nat
  BY <1>1, FS_CardinalityType DEF CapacityInv
<1>3. QED
  BY <1>1, <1>2, StoreAssumption DEF CapacityInv, WithinCapacity

\* The store never holds more than maxStoreEntries records: CreateBatch counts
\* after its sweep, under the same lock as its insertion.
THEOREM CapacityCorrect == Spec => []WithinCapacity
<1>1. Init => CapacityInv
  <2> SUFFICES ASSUME Init PROVE CapacityInv
    OBVIOUS
  <2>1. DOMAIN items = {}
    BY DEF Init
  <2>2. QED
    BY <2>1, FS_EmptySet, StoreAssumption DEF CapacityInv, WithinCapacity
<1>2. IInv /\ CapacityInv /\ [Next]_vars => CapacityInv'
  <2> SUFFICES ASSUME IInv, CapacityInv, [Next]_vars PROVE CapacityInv'
    OBVIOUS
  <2>1. ASSUME NEW id \in Ids, NEW request \in Requests, NEW code \in Codes,
               CreateBatch(id, request, code)
        PROVE  CapacityInv'
    <3> DEFINE kept == DOMAIN items \ Stale(NoId)
    <3>1. Cardinality(kept) < MaxStoreEntries /\ DOMAIN items' = kept \cup {id}
      BY <2>1 DEF CreateBatch
    <3>2. id \notin kept
      BY <2>1 DEF CreateBatch, IInv, StoreInv
    <3>3. IsFiniteSet(kept) /\ Cardinality(kept) \in Nat
      BY FS_Subset, FS_CardinalityType DEF CapacityInv
    <3> HIDE DEF kept
    <3>4. IsFiniteSet(kept \cup {id}) /\ Cardinality(kept \cup {id}) = Cardinality(kept) + 1
      BY <3>2, <3>3, FS_AddElement
    <3>5. IsFiniteSet(DOMAIN items') /\ Cardinality(DOMAIN items') = Cardinality(kept) + 1
      BY <3>1, <3>4
    <3>6. QED
      BY <3>1, <3>3, <3>5, StoreAssumption DEF CapacityInv, WithinCapacity
  <2>2. ASSUME NEW S, items' = Without(S)
        PROVE  CapacityInv'
    <3>1. DOMAIN items' \subseteq DOMAIN items
      BY <2>2 DEF Without, Restrict
    <3>2. QED
      BY <3>1, ShrinkingKeepsCapacity
  <2>3. ASSUME NEW id \in Ids, NEW code \in Codes, Consume(id, code)
        PROVE  CapacityInv'
    <3>1. DOMAIN items' \subseteq DOMAIN items
      BY <2>3 DEF Consume, Without, Restrict
    <3>2. QED
      BY <3>1, ShrinkingKeepsCapacity
  <2>4. ASSUME NEW id \in Ids, NEW decision \in {"approved", "denied"}, Decide(id, decision)
        PROVE  CapacityInv'
    <3>1. DOMAIN items' = DOMAIN items
      BY <2>4 DEF Decide
    <3>2. QED
      BY <3>1, ShrinkingKeepsCapacity
  <2>5. CASE UNCHANGED items
    BY <2>5, ShrinkingKeepsCapacity
  <2>6. QED
    BY <2>1, <2>2, <2>3, <2>4, <2>5
       DEF Next, vars, storeVars, Tick, CreateRefused, List, ConsumeRefused,
           DecideExpired, ConsumeExpired, Revoke, WaitMissing, WaitSelect, WaitCancelled, WaitStep,
           WaitWoken, WaitTimer, WaitExpire, WaitLost, WaitDenied, WaitGranted
<1>3. CapacityInv => WithinCapacity
  BY DEF CapacityInv
<1>4. QED
  BY <1>1, <1>2, <1>3, StoreInvariant, PTL DEF Spec

-----------------------------------------------------------------------------
(* The store implements its life cycle. *)

statusBar == [id \in Ids |-> StatusOf(id)]

\* A step that deletes records and grants nothing closes the open ones of them.
LEMMA DeletingCloses ==
    ASSUME StoreInv,
           DOMAIN items' \subseteq DOMAIN items,
           UNCHANGED <<issued, grants>>
    PROVE  [Lifecycle!Next]_statusBar
<1> DEFINE gone == { id \in Ids : StatusOf(id) = "open" /\ id \notin DOMAIN items' }
<1>1. gone \in SUBSET Lifecycle!OpenIds
  BY DEF Lifecycle!OpenIds
<1>2. \A id \in Ids : StatusOf(id)' = IF id \in gone THEN "closed" ELSE StatusOf(id)
  BY DEF StatusOf
<1>3. Lifecycle!Close(gone)
  BY <1>2 DEF Lifecycle!Close
<1>4. QED
  BY <1>1, <1>3 DEF Lifecycle!Next

\* A step that grants one live approval and may sweep others.
LEMMA GrantingGrants ==
    ASSUME StoreInv, NEW id \in DOMAIN items, NEW how \in {"code", "wait"},
           items[id].state # "used",
           Granted(id, how),
           DOMAIN items' \subseteq DOMAIN items,
           UNCHANGED issued
    PROVE  Lifecycle!Next
<1> DEFINE gone == { i \in Ids : i # id /\ StatusOf(i) = "open" /\ i \notin DOMAIN items' }
<1>1. gone \in SUBSET Lifecycle!OpenIds
  BY DEF Lifecycle!OpenIds
<1>2. /\ id \in Ids /\ id \in DOMAIN issued
      /\ grants[id] = <<>>
  BY DEF StoreInv, ItemInv
<1>3. StatusOf(id) = "open"
  BY <1>2 DEF StatusOf
<1>4. grants'[id] # <<>> /\ \A i \in Ids \ {id} : grants'[i] = grants[i]
  <2>1. /\ grants'[id] = << [ via |-> how, request |-> issued[id].request, at |-> now ] >>
        /\ \A i \in Ids \ {id} : grants'[i] = grants[i]
    BY GrantFacts
  <2>2. Len(grants'[id]) = 1
    BY <2>1
  <2>3. Len(<<>>) = 0
    OBVIOUS
  <2>4. QED
    BY <2>1, <2>2, <2>3
<1>5. \A i \in Ids : StatusOf(i)' = IF i = id THEN "granted" ELSE IF i \in gone THEN "closed" ELSE StatusOf(i)
  BY <1>4 DEF StatusOf
<1>6. Lifecycle!GrantOne(id, gone)
  BY <1>2, <1>3, <1>5 DEF Lifecycle!GrantOne
<1>7. QED
  BY <1>1, <1>2, <1>6 DEF Lifecycle!Next

\* CreateBatch opens a fresh approval and may sweep others.
LEMMA CreatingOpens ==
    ASSUME IInv, NEW id \in Ids, NEW request \in Requests, NEW code \in Codes,
           CreateBatch(id, request, code)
    PROVE  Lifecycle!Next
<1> DEFINE gone == { i \in Ids : StatusOf(i) = "open" /\ i \notin DOMAIN items' }
<1>1. gone \in SUBSET Lifecycle!OpenIds
  BY DEF Lifecycle!OpenIds
<1>2. /\ id \notin DOMAIN issued /\ grants[id] = <<>>
      /\ DOMAIN issued' = DOMAIN issued \cup {id}
      /\ DOMAIN items' \subseteq DOMAIN items \cup {id} /\ id \in DOMAIN items'
      /\ UNCHANGED grants
  BY DEF CreateBatch, IInv, StoreInv, FreshInv
<1>3. StatusOf(id) = "unknown" /\ StatusOf(id)' = "open"
  BY <1>2 DEF StatusOf
<1>4. \A i \in Ids \ {id} : StatusOf(i)' = IF i \in gone THEN "closed" ELSE StatusOf(i)
  BY <1>2 DEF StatusOf
<1>5. Lifecycle!Open(id, gone)
  BY <1>3, <1>4 DEF Lifecycle!Open
<1>6. QED
  BY <1>1, <1>5 DEF Lifecycle!Next

\* The store refines the life cycle: opened once, granted at most once and only
\* while open, and closed for good.
THEOREM StoreImplementsLifecycle == Spec => ImplementsLifecycle
<1>1. Init => Lifecycle!Init
  <2> SUFFICES ASSUME Init PROVE Lifecycle!Init
    OBVIOUS
  <2>1. \A id \in Ids : StatusOf(id) = "unknown"
    BY DEF Init, StatusOf
  <2>2. QED
    BY <2>1 DEF Lifecycle!Init
<1>2. IInv /\ [Next]_vars => [Lifecycle!Next]_statusBar
  <2> SUFFICES ASSUME IInv, [Next]_vars PROVE [Lifecycle!Next]_statusBar
    OBVIOUS
  <2>0. StoreInv
    BY DEF IInv
  <2>1. ASSUME NEW id \in Ids, NEW request \in Requests, NEW code \in Codes,
               CreateBatch(id, request, code)
        PROVE  Lifecycle!Next
    BY <2>1, CreatingOpens
  <2>2. ASSUME NEW S, items' = Without(S), UNCHANGED <<issued, grants>>
        PROVE  [Lifecycle!Next]_statusBar
    <3>1. DOMAIN items' \subseteq DOMAIN items
      BY <2>2 DEF Without, Restrict
    <3>2. QED
      BY <2>0, <2>2, <3>1, DeletingCloses
  <2>3. ASSUME NEW id \in Ids, NEW code \in Codes, Consume(id, code)
        PROVE  Lifecycle!Next
    <3>1. /\ id \in DOMAIN items /\ items[id].state # "used"
          /\ Granted(id, "code") /\ UNCHANGED issued
          /\ DOMAIN items' \subseteq DOMAIN items
      BY <2>3 DEF Consume, Without, Restrict
    <3>2. QED
      BY <2>0, <3>1, GrantingGrants
  <2>4. ASSUME NEW w \in Waiters, WaitGranted(w)
        PROVE  Lifecycle!Next
    <3>1. /\ wait[w].id \in DOMAIN items /\ items[wait[w].id].state # "used"
          /\ Granted(wait[w].id, "wait") /\ UNCHANGED issued
          /\ DOMAIN items' \subseteq DOMAIN items
      BY <2>4 DEF WaitGranted, Without, Restrict
    <3>2. QED
      BY <2>0, <3>1, GrantingGrants
  <2>5. ASSUME NEW id \in Ids, NEW decision \in {"approved", "denied"}, Decide(id, decision)
        PROVE  [Lifecycle!Next]_statusBar
    <3>1. DOMAIN items' = DOMAIN items /\ UNCHANGED <<issued, grants>>
      BY <2>5 DEF Decide
    <3>2. QED
      BY <2>0, <3>1, DeletingCloses
  <2>6. CASE UNCHANGED <<items, issued, grants>>
    BY <2>0, <2>6, DeletingCloses
  <2>7. QED
    BY <2>1, <2>2, <2>3, <2>4, <2>5, <2>6
       DEF Next, vars, storeVars, Tick, CreateRefused, List, ConsumeRefused,
           DecideExpired, ConsumeExpired, Revoke, WaitMissing, WaitSelect, WaitCancelled, WaitStep,
           WaitWoken, WaitTimer, WaitExpire, WaitLost, WaitDenied
<1>3. QED
  BY <1>1, <1>2, StoreInvariant, PTL DEF Spec, ImplementsLifecycle, Lifecycle!Spec, statusBar

=============================================================================
