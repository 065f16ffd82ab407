---------------------------- MODULE BrokerProofs ----------------------------
(***************************************************************************)
(* Proofs about the broker's request pipeline, for any number of calls,    *)
(* servers, commands and approvals.  What is proved of the approval store  *)
(* in ApprovalStoreProofs holds of the broker's store, because every step  *)
(* of the pipeline is a step of the store or leaves it alone.              *)
(***************************************************************************)
EXTENDS Broker, FiniteSetTheorems, TLAPS

SP == INSTANCE ApprovalStoreProofs WITH
            Requests <- Snapshots, Codes <- {Code}, Waiters <- Calls

-----------------------------------------------------------------------------
(* The inductive invariant. *)

\* The types of the pipeline's own state.
CallTypes ==
    /\ policy \in Policies \cup {"enforce"}
    /\ secrets \in {{}, Aliases}
    /\ ctxDone \in BOOLEAN
    /\ call \in [Calls -> CallState]
    /\ job \in [Calls -> [Aliases -> JobState]]
    /\ codes \subseteq DOMAIN issued
    /\ audit \subseteq AuditRecord
    /\ ran \in [Calls -> [Aliases -> Nat]]
    /\ relaxed \subseteq Calls

\* What the locals of a call are at each point of the pipeline.
PhaseOf(r) ==
    /\ r.pc \in {"idle", "lookup", "settings", "screen", "batchSettings", "create"} => r.id = NoId
    /\ r.pc \in {"auditCreated", "revoke", "wait", "granted"} => r.id # NoId
    /\ r.pc \in {"lookup", "settings", "screen", "batchSettings", "create"} => r.command \in Commands
    /\ r.pc # "returned" => r.result = "none"
    /\ r.approved => r.id # NoId /\ r.pc \in {"granted", "jobs", "returned"}
    /\ r.pc = "granted" => r.approved
    /\ r.pc = "jobs" /\ r.id # NoId => r.approved

PhaseInv ==
    \A c \in Calls : /\ PhaseOf(call[c])
                     /\ call[c].id # NoId => call[c].id \in DOMAIN issued

\* A call is in Store.Wait only for its own approval.
WaitingInv ==
    \A c \in Calls :
        /\ wait[c].pc # "idle" => /\ wait[c].id = call[c].id
                                  /\ call[c].pc \in {"wait", "granted", "jobs", "returned"}
        /\ wait[c].pc # "returned" => wait[c].result = "none"

\* The state of a job tells how often its command ran, and the jobs of a call are
\* its targets.
JobInv ==
    \A c \in Calls :
        /\ call[c].pc \notin {"jobs", "returned"} => \A a \in Aliases : job[c][a] = "none"
        /\ call[c].pc = "jobs" => \A a \in Aliases : job[c][a] = "none" <=> a \notin call[c].targets
        /\ \A a \in Aliases : /\ job[c][a] \in {"none", "queued", "ready", "cleared"} => ran[c][a] = 0
                              /\ job[c][a] \in {"ran", "done"} => ran[c][a] = 1
                              /\ job[c][a] = "failed" => ran[c][a] \in {0, 1}
                              /\ ran[c][a] # 0 => a \in call[c].targets /\ (call[c].id # NoId => call[c].approved)

\* The record a job's command runs on.
Preflighted(c, a) == [ event |-> "preflight", call |-> c, alias |-> a, id |-> call[c].id ] \in audit

\* A fail-closed job gets past the preflight only with its record.
AuditInv ==
    \A c \in Calls, a \in Aliases :
        (job[c][a] = "cleared" \/ ran[c][a] # 0) /\ FailClosed(c) => Preflighted(c, a)

\* A call without a grant that has seen another policy than enforce, as far as it has
\* got, is among the relaxed ones.
RelaxInv ==
    \A c \in Calls :
        /\ Active(c) /\ ~call[c].approved /\ policy # "enforce" => c \in relaxed
        /\ call[c].pc = "batchSettings" /\ call[c].command \in Risky /\ ~call[c].flagged => c \in relaxed
        /\ (call[c].pc = "jobs" \/ Ran(c) # {}) /\ call[c].command \in Risky /\ ~call[c].approved => c \in relaxed

\* The call has been handed the approval, by its code or by Store.Wait.
Holds(c, id) ==
    \/ call[c].approved /\ call[c].id = id
    \/ wait[c].result = "granted" /\ wait[c].id = id

\* An approval is held by one call, which runs what was approved.
HolderInv ==
    /\ \A c \in Calls, id \in Ids : Holds(c, id) => grants[id] # <<>>
    /\ \A c, d \in Calls, id \in Ids : Holds(c, id) /\ Holds(d, id) => c = d
    /\ \A c \in Calls : call[c].approved => /\ call[c].command = issued[call[c].id].request.command
                                            /\ call[c].targets = issued[call[c].id].request.targets
    /\ \A id \in DOMAIN items : items[id].state = "used" => grants[id] # <<>>

CreatedRecord(c) == [ event |-> "created", call |-> c, alias |-> Blank, id |-> call[c].id ]

\* An approval whose creation is not audited yet is known to its creator only; if it
\* cannot be audited it is gone.
CreatedInv ==
    \A c \in Calls :
        /\ call[c].pc \in {"auditCreated", "revoke"} =>
              /\ grants[call[c].id] = <<>>
              /\ call[c].id \notin codes
              /\ \A d \in Calls : d # c => call[d].id # call[c].id
        /\ call[c].kind \in {"execute", "executeWait"} /\ call[c].id # NoId /\ call[c].pc \notin {"auditCreated", "revoke"} =>
              \/ CreatedRecord(c) \in audit
              \/ call[c].pc = "returned" /\ grants[call[c].id] = <<>> /\ call[c].id \notin DOMAIN items

\* The pipeline's part of the invariant, and the whole.
CallInv ==
    /\ CallTypes /\ PhaseInv /\ WaitingInv /\ JobInv /\ AuditInv /\ RelaxInv /\ HolderInv /\ CreatedInv
    /\ ResultTruthful

IInv == SP!IInv /\ CallInv

-----------------------------------------------------------------------------
(* The broker's store is the store of ApprovalStoreProofs. *)

\* The operators of the two instances are the same.
LEMMA SameOperators ==
    /\ \A S : Store!Without(S) = SP!Without(S)
    /\ \A id : Store!Stale(id) = SP!Stale(id)
    /\ \A S : Store!Cardinality(S) = SP!Cardinality(S)
<1>1. \A f, S : Store!Restrict(f, S) = SP!Restrict(f, S)
  BY DEF Store!Restrict, SP!Restrict
<1>2. \A S : Store!Without(S) = SP!Without(S)
  BY <1>1 DEF Store!Without, SP!Without
<1>3. \A id : Store!Stale(id) = SP!Stale(id)
  BY DEF Store!Stale, SP!Stale, Store!Expired, SP!Expired
<1>4. \A S : Store!Cardinality(S) = SP!Cardinality(S)
  BY DEF Store!Cardinality, SP!Cardinality
<1> QED
  BY <1>2, <1>3, <1>4

\* The invariant of the store survives every step of the store.
LEMMA StoreKeeps == ASSUME SP!IInv, [Store!Next]_(Store!vars) PROVE SP!IInv'
<1>1. CASE Store!Next
  <2>1. ASSUME NEW id \in Ids
        PROVE  /\ \A request \in Snapshots, code \in {Code} : Store!CreateBatch(id, request, code) => SP!CreateBatch(id, request, code)
               /\ \A decision \in {"approved", "denied"} : Store!Decide(id, decision) => SP!Decide(id, decision)
               /\ Store!DecideExpired(id) => SP!DecideExpired(id)
               /\ Store!ConsumeExpired(id) => SP!ConsumeExpired(id)
               /\ Store!Revoke(id) => SP!Revoke(id)
    BY SameOperators DEF Store!CreateBatch, SP!CreateBatch, Store!Decide, SP!Decide, Store!DecideExpired, SP!DecideExpired,
       Store!ConsumeExpired, SP!ConsumeExpired, Store!Revoke, SP!Revoke, Store!Expired, SP!Expired
  <2>2. ASSUME NEW id \in Ids, NEW code \in {Code}
        PROVE  /\ Store!Consume(id, code) => SP!Consume(id, code)
               /\ Store!ConsumeRefused(id, code) => SP!ConsumeRefused(id, code)
    BY SameOperators DEF Store!Consume, SP!Consume, Store!ConsumeRefused, SP!ConsumeRefused,
       Store!Granted, SP!Granted, Store!Expired, SP!Expired
  <2>3. ASSUME NEW id \in Ids, NEW w \in Calls
        PROVE  /\ Store!WaitMissing(w, id) => SP!WaitMissing(w, id)
               /\ Store!WaitSelect(w, id) => SP!WaitSelect(w, id)
    BY DEF Store!WaitMissing, SP!WaitMissing, Store!WaitSelect, SP!WaitSelect
  <2>4. ASSUME NEW w \in Calls
        PROVE  /\ Store!WaitCancelled(w) => SP!WaitCancelled(w)
               /\ Store!WaitStep(w) => SP!WaitStep(w)
    BY SameOperators DEF Store!WaitCancelled, SP!WaitCancelled, Store!WaitStep, SP!WaitStep, Store!WaitWoken, SP!WaitWoken,
       Store!WaitTimer, SP!WaitTimer, Store!WaitExpire, SP!WaitExpire, Store!WaitLost, SP!WaitLost,
       Store!WaitDenied, SP!WaitDenied, Store!WaitGranted, SP!WaitGranted, Store!Return, SP!Return,
       Store!Granted, SP!Granted, Store!ChannelClosed, SP!ChannelClosed
  <2>5. /\ Store!Tick => SP!Tick
        /\ Store!CreateRefused => SP!CreateRefused
        /\ Store!List => SP!List
    BY SameOperators DEF Store!Tick, SP!Tick, Store!storeVars, SP!storeVars, Store!CreateRefused, SP!CreateRefused,
       Store!List, SP!List
  <2>6. SP!Next
    BY <1>1, <2>1, <2>2, <2>3, <2>4, <2>5 DEF Store!Next, SP!Next
  <2> QED
    BY <2>6, SP!NextInvariant, StoreParameters
<1>2. CASE UNCHANGED Store!vars
  <2>1. UNCHANGED SP!vars
    BY <1>2 DEF Store!vars, SP!vars
  <2> QED
    BY <2>1, SP!NextInvariant, StoreParameters
<1> QED
  BY <1>1, <1>2

-----------------------------------------------------------------------------
(* The steps of the pipeline. *)

\* Every approval that was issued stays as it was issued.
IssuedKept ==
    /\ DOMAIN issued \subseteq DOMAIN issued'
    /\ \A id \in DOMAIN issued : issued'[id] = issued[id]

\* Records are deleted, decided or created, and none is handed out.
NothingGranted ==
    /\ IssuedKept
    /\ grants' = grants
    /\ \A id \in DOMAIN items' : \/ id \in DOMAIN items /\ (items'[id].state = "used" => items[id].state = "used")
                                 \/ id \notin DOMAIN issued /\ items'[id].state # "used"

\* Deleting records hands nothing out.
LEMMA Sweeping ==
    ASSUME NEW S, items' = Store!Without(S), UNCHANGED <<issued, grants>>
    PROVE  NothingGranted /\ DOMAIN items' = DOMAIN items \ S
<1>1. DOMAIN items' = DOMAIN items \ S /\ \A id \in DOMAIN items' : items'[id] = items[id]
  BY DEF Store!Without, Store!Restrict
<1> QED
  BY <1>1 DEF NothingGranted, IssuedKept

\* What happens around the calls leaves their invariant alone.
LEMMA AroundKeeps ==
    ASSUME IInv, NothingGranted,
           UNCHANGED <<wait, call, job, codes, audit, ran>>,
           policy' \in Policies \cup {"enforce"}, secrets' \in {{}, Aliases}, ctxDone' \in BOOLEAN,
           \/ policy' = policy /\ relaxed' = relaxed
           \/ policy' = "enforce" /\ relaxed' = relaxed
           \/ relaxed' = relaxed \cup { c \in Calls : Active(c) }
    PROVE  CallInv'
<1> USE DEF IInv, CallInv
<1>1. CallTypes'
  BY DEF CallTypes, NothingGranted, IssuedKept
<1>2. PhaseInv'
  BY DEF PhaseInv, PhaseOf, NothingGranted, IssuedKept
<1>3. WaitingInv' /\ JobInv' /\ AuditInv' /\ ResultTruthful'
  BY DEF WaitingInv, JobInv, AuditInv, ResultTruthful, Ran, FailClosed, Preflighted
<1>4. RelaxInv'
  BY DEF RelaxInv, Active, Ran
<1>5. HolderInv'
  <2>1. \A id \in DOMAIN items' : items'[id].state = "used" => grants'[id] # <<>>
    BY DEF HolderInv, NothingGranted
  <2>2. \A c \in Calls : call[c].approved => call[c].id \in DOMAIN issued
    BY DEF PhaseInv, PhaseOf
  <2> QED
    BY <2>1, <2>2 DEF HolderInv, Holds, NothingGranted, IssuedKept
<1>6. CreatedInv'
  BY DEF CreatedInv, CreatedRecord, PhaseInv, NothingGranted
<1> QED
  BY <1>1, <1>2, <1>3, <1>4, <1>5, <1>6

\* A call moves to the state r, without a grant before or after and with no job yet.
LEMMA MoveKeeps ==
    ASSUME IInv, NothingGranted, NEW c \in Calls, NEW r \in CallState,
           call' = [call EXCEPT ![c] = r],
           UNCHANGED <<wait, policy, secrets, ctxDone, job, ran>>,
           call[c].pc \notin {"granted", "jobs", "returned"}, ~r.approved, r.pc # "jobs",
           PhaseOf(r), r.result # "completed",
           r.id \in {call[c].id, NoId} \/ r.id \notin DOMAIN issued,
           r.id # NoId => r.id \in DOMAIN issued',
           wait[c].pc # "idle" => r.id = call[c].id /\ r.pc \in {"wait", "returned"},
           codes \subseteq codes', codes' \subseteq codes \cup {call[c].id}, codes' \subseteq DOMAIN issued',
           audit \subseteq audit', audit' \subseteq AuditRecord,
           relaxed \subseteq relaxed', relaxed' \subseteq Calls,
           r.pc \notin {"idle", "returned"} /\ policy # "enforce" => c \in relaxed',
           r.pc = "batchSettings" /\ r.command \in Risky /\ ~r.flagged => c \in relaxed',
           r.pc \in {"auditCreated", "revoke"} =>
              grants[r.id] = <<>> /\ r.id \notin codes' /\ \A d \in Calls : d # c => call[d].id # r.id,
           r.kind \in {"execute", "executeWait"} /\ r.id # NoId /\ r.pc \notin {"auditCreated", "revoke"} =>
              \/ [ event |-> "created", call |-> c, alias |-> Blank, id |-> r.id ] \in audit'
              \/ r.pc = "returned" /\ grants[r.id] = <<>> /\ r.id \notin DOMAIN items'
    PROVE  CallInv'
<1> USE DEF IInv, CallInv
<1>1. /\ call' \in [Calls -> CallState] /\ call'[c] = r
      /\ \A d \in Calls : d # c => call'[d] = call[d]
  BY DEF CallTypes
<1>2. /\ ~call[c].approved
      /\ \A a \in Aliases : job[c][a] = "none" /\ ran[c][a] = 0
  BY DEF PhaseInv, PhaseOf, JobInv
<1>3. CallTypes'
  BY <1>1 DEF CallTypes
<1>4. PhaseInv'
  BY <1>1 DEF PhaseInv, PhaseOf, NothingGranted, IssuedKept
<1>5. WaitingInv'
  BY <1>1 DEF WaitingInv
<1>6. JobInv'
  BY <1>1, <1>2 DEF JobInv
<1>7. AuditInv'
  BY <1>1, <1>2 DEF AuditInv, FailClosed, Preflighted
<1>8. RelaxInv'
  BY <1>1, <1>2 DEF RelaxInv, Active, Ran
<1>9. HolderInv'
  <2>1. \A id \in DOMAIN items' : items'[id].state = "used" => grants'[id] # <<>>
    BY DEF HolderInv, NothingGranted
  <2>2. \A d \in Calls : call[d].approved => call[d].id \in DOMAIN issued
    BY DEF PhaseInv, PhaseOf
  <2>3. \A d \in Calls, id \in Ids : Holds(d, id)' => Holds(d, id)
    BY <1>1 DEF Holds
  <2> QED
    BY <1>1, <2>1, <2>2, <2>3 DEF HolderInv, NothingGranted, IssuedKept
<1>10. CreatedInv'
  <2> SUFFICES ASSUME NEW d \in Calls
               PROVE  /\ call'[d].pc \in {"auditCreated", "revoke"} =>
                            /\ grants'[call'[d].id] = <<>>
                            /\ call'[d].id \notin codes'
                            /\ \A e \in Calls : e # d => call'[e].id # call'[d].id
                      /\ call'[d].kind \in {"execute", "executeWait"} /\ call'[d].id # NoId
                         /\ call'[d].pc \notin {"auditCreated", "revoke"} =>
                            \/ CreatedRecord(d)' \in audit'
                            \/ call'[d].pc = "returned" /\ grants'[call'[d].id] = <<>> /\ call'[d].id \notin DOMAIN items'
    BY DEF CreatedInv
  <2>1. CASE d = c
    BY <1>1, <2>1 DEF CreatedRecord, NothingGranted
  <2>2. CASE d # c
    <3>1. call[d].pc \in {"auditCreated", "revoke"} => call[d].id \in DOMAIN issued /\ call[d].id # NoId
      BY DEF PhaseInv, PhaseOf
    <3>2. call[d].id # NoId => call[d].id \in DOMAIN issued
      BY DEF PhaseInv
    <3> QED
      BY <1>1, <2>2, <3>1, <3>2 DEF CreatedInv, CreatedRecord, NothingGranted
  <2> QED
    BY <2>1, <2>2
<1>11. ResultTruthful'
  BY <1>1, <1>2 DEF ResultTruthful, Ran
<1> QED
  BY <1>3, <1>4, <1>5, <1>6, <1>7, <1>8, <1>9, <1>10, <1>11

\* The clock, the decisions, the list and the administrator's operations.
LEMMA AroundIInv ==
    ASSUME IInv,
           \/ \E id \in Ids : DecideApproval(id)
           \/ ListApprovals \/ Tick \/ LockSecrets \/ UnlockSecrets \/ Stop
           \/ \E new \in Policies : UpdateSettings(new)
    PROVE  CallInv'
<1>0. policy \in Policies \cup {"enforce"} /\ secrets \in {{}, Aliases} /\ ctxDone \in BOOLEAN
  BY DEF IInv, CallInv, CallTypes
<1>1. ASSUME NEW id \in Ids, DecideApproval(id) PROVE CallInv'
  <2>1. UNCHANGED <<policy, secrets, ctxDone, call, job, codes, audit, ran, relaxed, wait, issued, grants>>
    BY <1>1 DEF DecideApproval, Store!Decide, Store!DecideExpired
  <2>2. CASE Store!DecideExpired(id)
    BY <1>0, <2>1, <2>2, Sweeping, AroundKeeps DEF Store!DecideExpired
  <2>3. ASSUME NEW decision \in {"approved", "denied"}, Store!Decide(id, decision) PROVE CallInv'
    <3>1. id \in DOMAIN items /\ items' = [items EXCEPT ![id].state = decision]
      BY <2>3 DEF Store!Decide
    <3>2. items \in [DOMAIN items -> SP!StoredApproval]
      BY DEF IInv, SP!IInv, SP!StoreInv
    <3>3. items[id] \in SP!StoredApproval
      BY <3>1, <3>2
    <3>4. items'[id] = [items[id] EXCEPT !.state = decision] /\ DOMAIN items' = DOMAIN items
          /\ \A i \in DOMAIN items : i # id => items'[i] = items[i]
      BY <3>1, <3>2
    <3>5. items'[id].state = decision
      BY <3>3, <3>4 DEF SP!StoredApproval
    <3>6. NothingGranted
      BY <2>1, <3>4, <3>5 DEF NothingGranted, IssuedKept
    <3> QED
      BY <1>0, <2>1, <3>6, AroundKeeps
  <2> QED
    BY <1>1, <2>2, <2>3 DEF DecideApproval
<1>2. CASE ListApprovals
  BY <1>0, <1>2, Sweeping, AroundKeeps DEF ListApprovals, Store!List
<1>3. CASE Tick
  <2>1. NothingGranted /\ UNCHANGED <<policy, secrets, ctxDone, call, job, codes, audit, ran, relaxed, wait>>
    BY <1>3 DEF Tick, Store!Tick, Store!storeVars, NothingGranted, IssuedKept
  <2> QED
    BY <1>0, <2>1, AroundKeeps
<1>4. CASE LockSecrets \/ UnlockSecrets \/ Stop \/ \E new \in Policies : UpdateSettings(new)
  <2>1. /\ NothingGranted /\ UNCHANGED <<call, job, codes, audit, ran, wait>>
        /\ policy' \in Policies \cup {"enforce"} /\ secrets' \in {{}, Aliases} /\ ctxDone' \in BOOLEAN
        /\ \/ policy' = policy /\ relaxed' = relaxed
           \/ policy' = "enforce" /\ relaxed' = relaxed
           \/ relaxed' = relaxed \cup { c \in Calls : Active(c) }
    BY <1>0, <1>4 DEF LockSecrets, UnlockSecrets, Stop, UpdateSettings, NothingGranted, IssuedKept
  <2> QED
    BY <2>1, AroundKeeps
<1> QED
  BY <1>1, <1>2, <1>3, <1>4

\* A call whose store is left alone.
LEMMA StoreLeftAlone ==
    ASSUME UNCHANGED <<now, items, wait, issued, verdict, grants>>
    PROVE  NothingGranted
BY DEF NothingGranted, IssuedKept

\* A request arrives.
LEMMA BeginIInv ==
    ASSUME IInv, NEW c \in Calls, BeginExecute(c) \/ BeginBatch(c)
    PROVE  CallInv'
<1> USE BrokerAssumption, StoreParameters
<1>1. PICK kind \in {"execute", "executeWait", "executeBatch", "executeBatchWait"}, pc \in {"lookup", "screen"},
           targets \in SUBSET Aliases, command \in Commands : Begin(c, kind, pc, targets, command)
  <2>1. \A list \in BatchTargets : list \ {Blank} \in SUBSET Aliases
    OBVIOUS
  <2>2. CASE BeginExecute(c)
    <3>1. PICK kind \in {"execute", "executeWait"}, a \in Aliases, command \in Commands :
               Begin(c, kind, "lookup", {a}, command)
      BY <2>2 DEF BeginExecute
    <3> QED
      BY <3>1
  <2>3. CASE BeginBatch(c)
    <3>1. PICK kind \in {"executeBatch", "executeBatchWait"}, list \in BatchTargets, command \in Commands :
               Begin(c, kind, "screen", list \ {Blank}, command)
      BY <2>3 DEF BeginBatch
    <3> QED
      BY <2>1, <3>1
  <2> QED
    BY <2>2, <2>3
<1>2. /\ call[c].pc = "idle" /\ kind \in Kinds /\ NothingGranted
      /\ UNCHANGED <<now, items, wait, issued, verdict, grants, policy, secrets, ctxDone, job, codes, audit, ran>>
  BY <1>1, StoreLeftAlone DEF Begin
<1>3. /\ call[c] \in CallState /\ PhaseOf(call[c]) /\ call[c].id = NoId /\ wait[c].pc = "idle" /\ ~call[c].approved
      /\ call[c].command \in Commands \cup {Erased} /\ call[c].targets \in SUBSET Aliases /\ call[c].kind \in Kinds \cup {"none"}
      /\ codes \subseteq DOMAIN issued /\ audit \subseteq AuditRecord /\ relaxed \subseteq Calls
  BY <1>2 DEF IInv, CallInv, CallTypes, PhaseInv, PhaseOf, WaitingInv, CallState
<1>4. CASE ctxDone
  <2> DEFINE r == [call[c] EXCEPT !.pc = "returned", !.result = "errValidation"]
  <2>1. call' = [call EXCEPT ![c] = r] /\ relaxed' = relaxed
    BY <1>1, <1>4 DEF Begin, Return, IInv, CallInv, CallTypes
  <2>2. r \in CallState /\ r.pc = "returned" /\ r.id = NoId /\ ~r.approved /\ r.result = "errValidation"
    BY <1>3 DEF CallState, Results
  <2> HIDE DEF r
  <2>3. PhaseOf(r)
    BY <2>2 DEF PhaseOf
  <2> QED
    BY <1>2, <1>3, <2>1, <2>2, <2>3, MoveKeeps
<1>5. CASE ~ctxDone
  <2> DEFINE r == [IdleCall EXCEPT !.pc = pc, !.kind = kind, !.targets = targets, !.command = command]
  <2>1. call' = [call EXCEPT ![c] = r] /\ relaxed' = IF policy # "enforce" THEN relaxed \cup {c} ELSE relaxed
    BY <1>1, <1>5 DEF Begin
  <2>2. r \in CallState /\ r.pc = pc /\ r.id = NoId /\ ~r.approved /\ r.result = "none" /\ r.command = command
    BY <1>2 DEF CallState, Results, IdleCall
  <2> HIDE DEF r
  <2>3. PhaseOf(r)
    BY <2>2 DEF PhaseOf
  <2> QED
    BY <1>2, <1>3, <2>1, <2>2, <2>3, MoveKeeps
<1> QED
  BY <1>4, <1>5

\* A call goes to another point of the pipeline and keeps its locals.
LEMMA WentTo ==
    ASSUME IInv, NEW c \in Calls,
           NEW pc \in {"settings", "create", "revoke", "wait", "jobs"}, Goto(c, pc)
    PROVE  \E r \in CallState :
              /\ call' = [call EXCEPT ![c] = r] /\ r.pc = pc
              /\ r.kind = call[c].kind /\ r.targets = call[c].targets /\ r.command = call[c].command
              /\ r.flagged = call[c].flagged /\ r.id = call[c].id /\ r.approved = call[c].approved
              /\ r.result = call[c].result
<1> DEFINE r == [call[c] EXCEPT !.pc = pc]
<1>1. call[c] \in CallState
  BY DEF IInv, CallInv, CallTypes
<1>2. /\ r \in CallState /\ r.pc = pc
      /\ r.kind = call[c].kind /\ r.targets = call[c].targets /\ r.command = call[c].command
      /\ r.flagged = call[c].flagged /\ r.id = call[c].id /\ r.approved = call[c].approved
      /\ r.result = call[c].result
  BY <1>1 DEF CallState
<1>3. call' = [call EXCEPT ![c] = r]
  BY DEF Goto
<1> HIDE DEF r
<1> QED
  BY <1>2, <1>3

\* A call returns with a result and keeps its locals.
LEMMA ReturnedWith ==
    ASSUME IInv, NEW c \in Calls, NEW result \in Results, Return(c, result)
    PROVE  \E r \in CallState :
              /\ call' = [call EXCEPT ![c] = r] /\ r.pc = "returned" /\ r.result = result
              /\ r.kind = call[c].kind /\ r.targets = call[c].targets /\ r.command = call[c].command
              /\ r.flagged = call[c].flagged /\ r.id = call[c].id /\ r.approved = call[c].approved
<1> DEFINE r == [call[c] EXCEPT !.pc = "returned", !.result = result]
<1>1. call[c] \in CallState
  BY DEF IInv, CallInv, CallTypes
<1>2. /\ r \in CallState /\ r.pc = "returned" /\ r.result = result
      /\ r.kind = call[c].kind /\ r.targets = call[c].targets /\ r.command = call[c].command
      /\ r.flagged = call[c].flagged /\ r.id = call[c].id /\ r.approved = call[c].approved
  BY <1>1 DEF CallState
<1>3. call' = [call EXCEPT ![c] = r]
  BY <1>1 DEF Return, IInv, CallInv, CallTypes, CallState
<1> HIDE DEF r
<1> QED
  BY <1>2, <1>3

\* What is known of a call that has not created an approval.
LEMMA Early ==
    ASSUME IInv, NEW c \in Calls, call[c].pc \in {"lookup", "settings", "screen", "batchSettings", "create"}
    PROVE  /\ call[c] \in CallState /\ call[c].id = NoId /\ ~call[c].approved /\ call[c].result = "none"
           /\ call[c].command \in Commands /\ wait[c].pc = "idle"
           /\ policy # "enforce" => c \in relaxed
           /\ codes \subseteq DOMAIN issued /\ audit \subseteq AuditRecord /\ relaxed \subseteq Calls
BY DEF IInv, CallInv, CallTypes, PhaseInv, PhaseOf, WaitingInv, RelaxInv, Active

\* The lookup of the secret, the analysis of the command and the decision that an
\* approval is needed.
LEMMA ScreenIInv ==
    ASSUME IInv, NEW c \in Calls,
           \/ Lookup(c)
           \/ Settings(c) /\ UNCHANGED job /\ call'[c].pc # "jobs"
           \/ Screen(c)
           \/ BatchSettings(c) /\ UNCHANGED job /\ call'[c].pc # "jobs"
    PROVE  CallInv'
<1> USE StoreParameters
<1>1. /\ call[c].pc \in {"lookup", "settings", "screen", "batchSettings"} /\ NothingGranted
      /\ UNCHANGED <<now, items, wait, issued, verdict, grants, policy, secrets, ctxDone, job, codes, audit, ran, relaxed>>
  <2>1. UNCHANGED <<now, items, wait, issued, verdict, grants, policy, secrets, ctxDone, job, codes, audit, ran, relaxed>>
    BY DEF Lookup, Settings, Screen, BatchSettings
  <2> QED
    BY <2>1, StoreLeftAlone DEF Lookup, Settings, Screen, BatchSettings
<1>2. /\ call[c] \in CallState /\ call[c].id = NoId /\ ~call[c].approved /\ call[c].result = "none"
      /\ call[c].command \in Commands /\ wait[c].pc = "idle"
      /\ policy # "enforce" => c \in relaxed
      /\ codes \subseteq DOMAIN issued /\ audit \subseteq AuditRecord /\ relaxed \subseteq Calls
  BY <1>1, Early
<1>3. \E r \in CallState :
         /\ call' = [call EXCEPT ![c] = r]
         /\ r.id = NoId /\ ~r.approved /\ r.command = call[c].command
         /\ r.pc \in {"settings", "batchSettings", "create", "returned"}
         /\ r.pc # "returned" => r.result = "none"
         /\ r.result \in {"none", "errValidation"}
         /\ r.pc = "batchSettings" /\ r.command \in Risky /\ ~r.flagged => policy # "enforce"
  <2>1. CASE Goto(c, "settings") \/ Goto(c, "create")
    BY <1>2, <2>1, WentTo
  <2>2. CASE Return(c, "errValidation")
    BY <1>2, <2>2, ReturnedWith DEF Results
  <2>3. CASE Settings(c) /\ call' = [call EXCEPT ![c].pc = "create", ![c].flagged = TRUE]
    <3> DEFINE r == [call[c] EXCEPT !.pc = "create", !.flagged = TRUE]
    <3>1. r \in CallState /\ r.pc = "create" /\ r.id = NoId /\ ~r.approved /\ r.result = "none" /\ r.command = call[c].command
      BY <1>2 DEF CallState
    <3>2. call' = [call EXCEPT ![c] = r]
      BY <1>2, <2>3 DEF CallState, IInv, CallInv, CallTypes
    <3> HIDE DEF r
    <3> QED
      BY <3>1, <3>2
  <2>4. CASE Screen(c) /\ ~Return(c, "errValidation")
    <3> DEFINE f == (policy # "off" /\ call[c].command \in Risky)
               r == [call[c] EXCEPT !.pc = "batchSettings", !.flagged = f]
    <3>1. r \in CallState /\ r.pc = "batchSettings" /\ r.id = NoId /\ ~r.approved /\ r.result = "none"
          /\ r.command = call[c].command /\ r.flagged = f
      BY <1>2 DEF CallState
    <3>2. call' = [call EXCEPT ![c] = r]
      BY <1>2, <2>4 DEF Screen, CallState, IInv, CallInv, CallTypes
    <3>3. call[c].command \in Risky /\ ~f => policy # "enforce"
      OBVIOUS
    <3> HIDE DEF f, r
    <3> QED
      BY <3>1, <3>2, <3>3
  <2>5. Settings(c) => \/ Return(c, "errValidation")
                       \/ call' = [call EXCEPT ![c].pc = "create", ![c].flagged = TRUE]
                       \/ call'[c].pc = "jobs"
    BY <1>2 DEF Settings, IInv, CallInv, CallTypes, CallState
  <2>6. BatchSettings(c) => Goto(c, "create") \/ Goto(c, "jobs")
    BY DEF BatchSettings
  <2>7. Goto(c, "jobs") => call'[c].pc = "jobs"
    BY <1>2 DEF Goto, IInv, CallInv, CallTypes, CallState
  <2> QED
    BY <2>1, <2>2, <2>3, <2>4, <2>5, <2>6, <2>7 DEF Lookup
<1>4. PICK r \in CallState :
         /\ call' = [call EXCEPT ![c] = r]
         /\ r.id = NoId /\ ~r.approved /\ r.command = call[c].command
         /\ r.pc \in {"settings", "batchSettings", "create", "returned"}
         /\ r.pc # "returned" => r.result = "none"
         /\ r.result \in {"none", "errValidation"}
         /\ r.pc = "batchSettings" /\ r.command \in Risky /\ ~r.flagged => policy # "enforce"
  BY <1>3
<1>5. PhaseOf(r)
  BY <1>2, <1>4 DEF PhaseOf
<1> QED
  BY <1>1, <1>2, <1>4, <1>5, MoveKeeps

\* CreateBatch of the store succeeds, or does not.
LEMMA CreateIInv ==
    ASSUME IInv, NEW c \in Calls, CreateFails(c) \/ \E id \in Ids : CreateApproval(c, id)
    PROVE  CallInv'
<1> USE StoreParameters
<1>1. call[c].pc = "create" /\ UNCHANGED <<wait, policy, secrets, ctxDone, job, codes, audit, ran, relaxed>>
  BY DEF CreateFails, CreateApproval, Store!CreateRefused, Store!CreateBatch
<1>2. /\ call[c] \in CallState /\ call[c].id = NoId /\ ~call[c].approved /\ call[c].result = "none"
      /\ call[c].command \in Commands /\ wait[c].pc = "idle"
      /\ policy # "enforce" => c \in relaxed
      /\ codes \subseteq DOMAIN issued /\ audit \subseteq AuditRecord /\ relaxed \subseteq Calls
  BY <1>1, Early
<1>3. CASE CreateFails(c)
  <2>1. PICK r \in CallState :
              /\ call' = [call EXCEPT ![c] = r] /\ r.pc = "returned" /\ r.result = "errApproval"
              /\ r.id = NoId /\ ~r.approved
    BY <1>2, <1>3, ReturnedWith DEF CreateFails, Results
  <2>2. NothingGranted
    BY <1>3, Sweeping DEF CreateFails, Store!CreateRefused
  <2>3. PhaseOf(r) /\ issued' = issued
    BY <1>3, <2>1 DEF PhaseOf, CreateFails, Store!CreateRefused
  <2> QED
    BY <1>1, <1>2, <2>1, <2>2, <2>3, MoveKeeps
<1>4. ASSUME NEW id \in Ids, CreateApproval(c, id) PROVE CallInv'
  <2> DEFINE kept == DOMAIN items \ Store!Stale(NoId)
             item == [ request |-> [ targets |-> call[c].targets, command |-> call[c].command ], code |-> Code,
                       expiresAt |-> now + TTL, state |-> "pending" ]
  <2>0. /\ id \notin DOMAIN issued /\ grants' = grants
        /\ items' = [i \in kept \cup {id} |-> IF i = id THEN item ELSE items[i]]
        /\ issued' = [i \in DOMAIN issued \cup {id} |-> IF i = id THEN item ELSE issued[i]]
    BY <1>4 DEF CreateApproval, Store!CreateBatch
  <2>a. kept \subseteq DOMAIN items /\ item.state = "pending"
    OBVIOUS
  <2> HIDE DEF kept, item
  <2>1. /\ id \notin DOMAIN issued /\ grants' = grants
        /\ DOMAIN issued' = DOMAIN issued \cup {id}
        /\ \A i \in DOMAIN issued : issued'[i] = issued[i]
        /\ DOMAIN items' \subseteq DOMAIN items \cup {id}
        /\ \A i \in DOMAIN items' : i # id => items'[i] = items[i]
        /\ items'[id].state = "pending"
    BY <2>0, <2>a
  <2>2. NothingGranted
    <3>1. DOMAIN items \subseteq DOMAIN issued
      BY DEF IInv, SP!IInv, SP!StoreInv
    <3> QED
      BY <2>1, <3>1 DEF NothingGranted, IssuedKept
  <2>3. grants[id] = <<>>
    BY <2>1 DEF IInv, SP!IInv, SP!StoreInv, SP!FreshInv
  <2>4. id # NoId /\ \A d \in Calls : call[d].id # id
    BY <2>1 DEF IInv, CallInv, PhaseInv
  <2> DEFINE res == IF AfterCreate(c) = "returned" THEN "requiresApproval" ELSE "none"
             r == [call[c] EXCEPT !.pc = AfterCreate(c), !.id = id, !.result = res]
  <2>5. call' = [call EXCEPT ![c] = r]
    BY <1>2, <1>4 DEF CreateApproval, IInv, CallInv, CallTypes, CallState
  <2>6. /\ r \in CallState /\ r.pc = AfterCreate(c) /\ r.id = id /\ r.result = res /\ ~r.approved /\ r.kind = call[c].kind
        /\ AfterCreate(c) \in {"auditCreated", "wait", "returned"}
        /\ AfterCreate(c) = "auditCreated" <=> call[c].kind \notin {"executeBatch", "executeBatchWait"}
        /\ res \in {"requiresApproval", "none"} /\ (AfterCreate(c) # "returned" => res = "none")
    BY <1>2 DEF CallState, AfterCreate, IsBatch, Results
  <2> HIDE DEF r, res
  <2>7. PhaseOf(r)
    BY <2>4, <2>6 DEF PhaseOf
  <2> QED
    BY <1>1, <1>2, <2>1, <2>2, <2>3, <2>4, <2>5, <2>6, <2>7, MoveKeeps
<1> QED
  BY <1>3, <1>4

\* What is known of a call whose approval is not audited yet.
LEMMA Unaudited ==
    ASSUME IInv, NEW c \in Calls, call[c].pc \in {"auditCreated", "revoke"}
    PROVE  /\ call[c] \in CallState /\ call[c].id # NoId /\ ~call[c].approved /\ call[c].result = "none"
           /\ call[c].id \in DOMAIN issued /\ call[c].id \in Ids
           /\ wait[c].pc = "idle"
           /\ policy # "enforce" => c \in relaxed
           /\ codes \subseteq DOMAIN issued /\ audit \subseteq AuditRecord /\ relaxed \subseteq Calls
           /\ grants[call[c].id] = <<>> /\ call[c].id \notin codes
           /\ \A d \in Calls : d # c => call[d].id # call[c].id
BY DEF IInv, CallInv, CallTypes, PhaseInv, PhaseOf, WaitingInv, RelaxInv, Active, CreatedInv, SP!IInv, SP!StoreInv

\* The record of the creation is written, or is not and the approval is revoked.
LEMMA AuditCreatedIInv ==
    ASSUME IInv, NEW c \in Calls, AuditCreated(c) \/ AuditCreatedFails(c) \/ RevokeUnaudited(c)
    PROVE  CallInv'
<1> USE StoreParameters
<1>1. call[c].pc \in {"auditCreated", "revoke"}
      /\ UNCHANGED <<wait, issued, grants, policy, secrets, ctxDone, job, ran, relaxed>>
  BY DEF AuditCreated, AuditCreatedFails, RevokeUnaudited, Store!Revoke, store
<1>2. /\ call[c] \in CallState /\ call[c].id # NoId /\ ~call[c].approved /\ call[c].result = "none"
      /\ call[c].id \in DOMAIN issued /\ call[c].id \in Ids
      /\ wait[c].pc = "idle"
      /\ policy # "enforce" => c \in relaxed
      /\ codes \subseteq DOMAIN issued /\ audit \subseteq AuditRecord /\ relaxed \subseteq Calls
      /\ grants[call[c].id] = <<>> /\ call[c].id \notin codes
      /\ \A d \in Calls : d # c => call[d].id # call[c].id
  BY <1>1, Unaudited
<1>3. CASE AuditCreated(c)
  <2>1. PICK r \in CallState :
            /\ call' = [call EXCEPT ![c] = r] /\ r.id = call[c].id /\ ~r.approved /\ r.kind = call[c].kind
            /\ \/ r.pc = "returned" /\ r.result = "requiresApproval" /\ codes' = codes \cup {call[c].id}
               \/ r.pc = "wait" /\ r.result = "none" /\ codes' = codes
    <3>1. CASE call[c].kind = "execute"
      BY <1>2, <1>3, <3>1, ReturnedWith DEF AuditCreated, Results
    <3>2. CASE call[c].kind # "execute"
      BY <1>2, <1>3, <3>2, WentTo DEF AuditCreated
    <3> QED
      BY <3>1, <3>2
  <2>2. audit' = audit \cup {[ event |-> "created", call |-> c, alias |-> Blank, id |-> r.id ]}
    BY <1>3, <2>1 DEF AuditCreated
  <2>3. [ event |-> "created", call |-> c, alias |-> Blank, id |-> r.id ] \in AuditRecord
    BY <1>2, <2>1 DEF AuditRecord
  <2>4. NothingGranted
    BY <1>3, StoreLeftAlone DEF AuditCreated
  <2>5. PhaseOf(r)
    BY <1>2, <2>1 DEF PhaseOf
  <2>6. /\ codes \subseteq codes' /\ codes' \subseteq codes \cup {call[c].id} /\ codes' \subseteq DOMAIN issued'
        /\ audit \subseteq audit' /\ audit' \subseteq AuditRecord
        /\ [ event |-> "created", call |-> c, alias |-> Blank, id |-> r.id ] \in audit'
    BY <1>1, <1>2, <2>1, <2>2, <2>3
  <2> HIDE <2>2
  <2> QED
    BY <1>1, <1>2, <2>1, <2>4, <2>5, <2>6, MoveKeeps
<1>4. CASE AuditCreatedFails(c)
  <2>1. PICK r \in CallState :
            /\ call' = [call EXCEPT ![c] = r] /\ r.id = call[c].id /\ ~r.approved /\ r.kind = call[c].kind
            /\ r.pc = "revoke" /\ r.result = "none"
    BY <1>2, <1>4, WentTo DEF AuditCreatedFails
  <2>2. NothingGranted /\ UNCHANGED <<codes, audit>>
    BY <1>4, StoreLeftAlone DEF AuditCreatedFails
  <2>3. PhaseOf(r)
    BY <1>2, <2>1 DEF PhaseOf
  <2> QED
    BY <1>1, <1>2, <2>1, <2>2, <2>3, MoveKeeps
<1>5. CASE RevokeUnaudited(c)
  <2>1. PICK r \in CallState :
            /\ call' = [call EXCEPT ![c] = r] /\ r.id = call[c].id /\ ~r.approved /\ r.kind = call[c].kind
            /\ r.pc = "returned" /\ r.result = "errAudit"
    BY <1>2, <1>5, ReturnedWith DEF RevokeUnaudited, Results
  <2>2. NothingGranted /\ call[c].id \notin DOMAIN items' /\ UNCHANGED <<codes, audit>>
    <3>1. CASE Store!Revoke(call[c].id)
      <4>1. items' = Store!Without({call[c].id}) /\ UNCHANGED <<issued, grants>>
        BY <3>1 DEF Store!Revoke
      <4>2. UNCHANGED <<codes, audit>>
        BY <1>5 DEF RevokeUnaudited
      <4>3. NothingGranted /\ DOMAIN items' = DOMAIN items \ {call[c].id}
        BY <4>1, Sweeping
      <4> QED
        BY <4>2, <4>3
    <3>2. CASE (call[c].id \in DOMAIN items => items[call[c].id].state = "used") /\ UNCHANGED store
      <4>1. call[c].id \notin DOMAIN items
        BY <1>2, <3>2 DEF IInv, CallInv, HolderInv
      <4> QED
        BY <1>5, <3>2, <4>1, StoreLeftAlone DEF RevokeUnaudited, store
    <3> QED
      BY <1>5, <3>1, <3>2 DEF RevokeUnaudited
  <2>3. PhaseOf(r)
    BY <1>2, <2>1 DEF PhaseOf
  <2> QED
    BY <1>1, <1>2, <2>1, <2>2, <2>3, MoveKeeps
<1> QED
  BY <1>3, <1>4, <1>5

\* What is known of a call that is in Store.Wait, before it or just after.
LEMMA Waiting ==
    ASSUME IInv, NEW c \in Calls, call[c].pc = "wait"
    PROVE  /\ call[c] \in CallState /\ call[c].id # NoId /\ ~call[c].approved /\ call[c].result = "none"
           /\ call[c].id \in DOMAIN issued /\ call[c].id \in Ids
           /\ wait[c].pc # "idle" => wait[c].id = call[c].id
           /\ wait \in [Calls -> SP!WaitState]
           /\ wait[c].pc # "returned" => wait[c].result = "none"
           /\ policy # "enforce" => c \in relaxed
           /\ codes \subseteq DOMAIN issued /\ audit \subseteq AuditRecord /\ relaxed \subseteq Calls
           /\ call[c].kind \in {"execute", "executeWait"} => CreatedRecord(c) \in audit
BY DEF IInv, CallInv, CallTypes, PhaseInv, PhaseOf, WaitingInv, RelaxInv, Active, CreatedInv, SP!IInv, SP!StoreInv,
   SP!WaitersInv

\* Store.Wait of call c goes on, and is not granted the approval.
LEMMA WaitMoves ==
    ASSUME IInv, NothingGranted, NEW c \in Calls, call[c].pc = "wait",
           UNCHANGED <<policy, secrets, ctxDone, call, job, codes, audit, ran, relaxed>>,
           \A d \in Calls : d # c => wait'[d] = wait[d],
           wait'[c].id = call[c].id, wait'[c].result # "granted",
           wait'[c].pc # "returned" => wait'[c].result = "none"
    PROVE  CallInv'
<1> USE DEF IInv, CallInv
<1>1. CallTypes'
  BY DEF CallTypes, NothingGranted, IssuedKept
<1>2. PhaseInv'
  BY DEF PhaseInv, PhaseOf, NothingGranted, IssuedKept
<1>3. JobInv' /\ AuditInv' /\ RelaxInv' /\ ResultTruthful'
  BY DEF JobInv, AuditInv, ResultTruthful, Ran, FailClosed, Preflighted, RelaxInv, Active
<1>4. WaitingInv'
  BY DEF WaitingInv
<1>5. HolderInv'
  <2>1. \A id \in DOMAIN items' : items'[id].state = "used" => grants'[id] # <<>>
    BY DEF HolderInv, NothingGranted
  <2>2. \A d \in Calls : call[d].approved => call[d].id \in DOMAIN issued
    BY DEF PhaseInv, PhaseOf
  <2>3. \A d \in Calls, id \in Ids : Holds(d, id)' => Holds(d, id)
    BY DEF Holds
  <2> QED
    BY <2>1, <2>2, <2>3 DEF HolderInv, NothingGranted, IssuedKept
<1>6. CreatedInv'
  BY DEF CreatedInv, CreatedRecord, PhaseInv, NothingGranted
<1> QED
  BY <1>1, <1>2, <1>3, <1>4, <1>5, <1>6

\* Store.Wait of call c goes on, whatever it does, and a call that was refused returns.
LEMMA WaitIInv ==
    ASSUME IInv, NEW c \in Calls,
           \/ EnterWait(c)
           \/ InWait(c) /\ ~Store!WaitGranted(c)
           \/ LeaveWait(c) /\ wait[c].result # "granted"
    PROVE  CallInv'
<1> USE StoreParameters
<1>1. call[c].pc = "wait"
  BY DEF EnterWait, InWait, LeaveWait
<1>2. /\ call[c] \in CallState /\ call[c].id # NoId /\ ~call[c].approved /\ call[c].result = "none"
      /\ call[c].id \in DOMAIN issued /\ call[c].id \in Ids
      /\ wait[c].pc # "idle" => wait[c].id = call[c].id
      /\ wait \in [Calls -> SP!WaitState]
      /\ wait[c].pc # "returned" => wait[c].result = "none"
      /\ policy # "enforce" => c \in relaxed
      /\ codes \subseteq DOMAIN issued /\ audit \subseteq AuditRecord /\ relaxed \subseteq Calls
      /\ call[c].kind \in {"execute", "executeWait"} => CreatedRecord(c) \in audit
  BY <1>1, Waiting
<1>3. CASE EnterWait(c)
  <2>1. UNCHANGED <<policy, secrets, ctxDone, call, job, codes, audit, ran, relaxed, items, issued, grants>>
    BY <1>3 DEF EnterWait, Store!WaitSelect, Store!WaitMissing
  <2>2. NothingGranted
    BY <2>1 DEF NothingGranted, IssuedKept
  <2>3. CASE Store!WaitMissing(c, call[c].id)
    <3>1. wait' = [wait EXCEPT ![c] = [wait[c] EXCEPT !.pc = "returned", !.id = call[c].id, !.result = "notFound"]]
      BY <2>3 DEF Store!WaitMissing
    <3>2. /\ \A d \in Calls : d # c => wait'[d] = wait[d]
          /\ wait'[c].id = call[c].id /\ wait'[c].result = "notFound" /\ wait'[c].pc = "returned"
      BY <1>2, <3>1 DEF SP!WaitState
    <3> QED
      BY <1>1, <2>1, <2>2, <3>2, WaitMoves
  <2>4. CASE Store!WaitSelect(c, call[c].id)
    <3>1. /\ \A d \in Calls : d # c => wait'[d] = wait[d]
          /\ wait'[c].id = call[c].id /\ wait'[c].result = "none" /\ wait'[c].pc = "select"
      BY <1>2, <2>4 DEF Store!WaitSelect
    <3> QED
      BY <1>1, <2>1, <2>2, <3>1, WaitMoves
  <2> QED
    BY <1>3, <2>3, <2>4 DEF EnterWait
<1>4. CASE InWait(c) /\ ~Store!WaitGranted(c)
  <2>1. UNCHANGED <<policy, secrets, ctxDone, call, job, codes, audit, ran, relaxed>>
    BY <1>4 DEF InWait
  <2>2. wait[c].pc \in {"select", "woken", "timedOut"} /\ UNCHANGED <<issued, grants>>
    BY <1>4 DEF InWait, Store!WaitStep, Store!WaitWoken, Store!WaitTimer, Store!WaitExpire, Store!WaitLost,
       Store!WaitDenied, Store!WaitCancelled
  <2>3. NothingGranted
    <3>1. items' = items \/ items' = Store!Without({wait[c].id})
      BY <1>4 DEF InWait, Store!WaitStep, Store!WaitWoken, Store!WaitTimer, Store!WaitExpire, Store!WaitLost,
         Store!WaitDenied, Store!WaitCancelled
    <3>2. CASE items' = items
      BY <2>2, <3>2 DEF NothingGranted, IssuedKept
    <3>3. CASE items' = Store!Without({wait[c].id})
      BY <2>2, <3>3, Sweeping
    <3> QED
      BY <3>1, <3>2, <3>3
  <2>4. \/ \E pc \in {"woken", "timedOut"} : wait' = [wait EXCEPT ![c].pc = pc]
        \/ \E result \in {"expired", "notFound", "denied", "cancelled"} :
              wait' = [wait EXCEPT ![c].pc = "returned", ![c].result = result]
    BY <1>4 DEF InWait, Store!WaitStep, Store!WaitWoken, Store!WaitTimer, Store!WaitExpire, Store!WaitLost,
       Store!WaitDenied, Store!WaitCancelled, Store!Return
  <2>5. /\ \A d \in Calls : d # c => wait'[d] = wait[d]
        /\ wait'[c].id = call[c].id /\ wait'[c].result # "granted"
        /\ wait'[c].pc # "returned" => wait'[c].result = "none"
    BY <1>2, <2>2, <2>4 DEF SP!WaitState
  <2> QED
    BY <1>1, <2>1, <2>3, <2>5, WaitMoves
<1>5. CASE LeaveWait(c) /\ wait[c].result # "granted"
  <2>1. PICK r \in CallState :
            /\ call' = [call EXCEPT ![c] = r] /\ r.id = call[c].id /\ ~r.approved /\ r.kind = call[c].kind
            /\ r.pc = "returned" /\ r.result = "denied"
    BY <1>2, <1>5, ReturnedWith DEF LeaveWait, Results
  <2>2. /\ NothingGranted
        /\ UNCHANGED <<wait, issued, policy, secrets, ctxDone, job, codes, audit, ran, relaxed>>
    BY <1>5, StoreLeftAlone DEF LeaveWait
  <2>3. PhaseOf(r)
    BY <1>2, <2>1 DEF PhaseOf
  <2>4. r.kind \in {"execute", "executeWait"} =>
           [ event |-> "created", call |-> c, alias |-> Blank, id |-> r.id ] \in audit
    BY <1>2, <2>1 DEF CreatedRecord
  <2> QED
    BY <1>1, <1>2, <2>1, <2>2, <2>3, <2>4, MoveKeeps
<1> QED
  BY <1>3, <1>4, <1>5

\* The store hands the approval id out, to call c and to nobody else.
LEMMA HandedOut ==
    ASSUME IInv, NEW c \in Calls, NEW id \in Ids,
           id \in DOMAIN items, grants[id] = <<>>, grants'[id] # <<>>,
           \A i \in Ids : i # id => grants'[i] = grants[i],
           \A i \in DOMAIN items' : i \in DOMAIN items /\ (i # id => items'[i] = items[i]),
           UNCHANGED <<issued, codes, audit>>,
           \A d \in Calls : d # c => call'[d] = call[d] /\ wait'[d] = wait[d],
           \A i \in Ids : Holds(c, i)' => i = id,
           \A d \in Calls : call[d].pc \in {"auditCreated", "revoke"} => d # c /\ call[d].id # id,
           call'[c].pc \notin {"auditCreated", "revoke"}, call'[c].id = id,
           call'[c].approved => /\ call'[c].command = issued[id].request.command
                                /\ call'[c].targets = issued[id].request.targets,
           call'[c].kind \in {"execute", "executeWait"} => CreatedRecord(c)' \in audit'
    PROVE  HolderInv' /\ CreatedInv'
<1> USE DEF IInv, CallInv
<1>1. DOMAIN items \subseteq DOMAIN issued /\ DOMAIN issued \subseteq Ids
  BY DEF SP!IInv, SP!StoreInv
<1>2. \A d \in Calls, i \in Ids : d # c /\ Holds(d, i)' => Holds(d, i) /\ i # id
  BY DEF Holds, HolderInv
<1>3. HolderInv'
  <2>1. \A d \in Calls, i \in Ids : Holds(d, i)' => grants'[i] # <<>>
    BY <1>2 DEF HolderInv
  <2>2. \A d, e \in Calls, i \in Ids : Holds(d, i)' /\ Holds(e, i)' => d = e
    BY <1>2 DEF HolderInv
  <2>3. \A d \in Calls : call'[d].approved => /\ call'[d].command = issued'[call'[d].id].request.command
                                              /\ call'[d].targets = issued'[call'[d].id].request.targets
    BY DEF HolderInv
  <2>4. \A i \in DOMAIN items' : items'[i].state = "used" => grants'[i] # <<>>
    BY <1>1 DEF HolderInv
  <2> QED
    BY <2>1, <2>2, <2>3, <2>4 DEF HolderInv
<1>4. CreatedInv'
  <2> SUFFICES ASSUME NEW d \in Calls
               PROVE  /\ call'[d].pc \in {"auditCreated", "revoke"} =>
                            /\ grants'[call'[d].id] = <<>>
                            /\ call'[d].id \notin codes'
                            /\ \A e \in Calls : e # d => call'[e].id # call'[d].id
                      /\ call'[d].kind \in {"execute", "executeWait"} /\ call'[d].id # NoId
                         /\ call'[d].pc \notin {"auditCreated", "revoke"} =>
                            \/ CreatedRecord(d)' \in audit'
                            \/ call'[d].pc = "returned" /\ grants'[call'[d].id] = <<>> /\ call'[d].id \notin DOMAIN items'
    BY DEF CreatedInv
  <2>1. CASE d = c
    BY <2>1
  <2>2. CASE d # c
    <3>1. call'[d] = call[d] /\ CreatedRecord(d)' = CreatedRecord(d)
      BY <2>2 DEF CreatedRecord
    <3>2. call[d].id # NoId => call[d].id \in Ids
      BY <1>1 DEF PhaseInv
    <3>3. call[d].pc \in {"auditCreated", "revoke"} => call[d].id # NoId
      BY DEF PhaseInv, PhaseOf
    <3> QED
      BY <2>2, <3>1, <3>2, <3>3 DEF CreatedInv
  <2> QED
    BY <2>1, <2>2
<1> QED
  BY <1>3, <1>4

\* A call goes on with the snapshot of the approval it holds.
LEMMA GetsApproved ==
    ASSUME IInv, NEW c \in Calls, NEW r \in CallState,
           call[c].pc \in {"idle", "wait"},
           call' = [call EXCEPT ![c] = r],
           r.pc = "granted", r.approved, r.result = "none", r.id \in DOMAIN issued, r.id # NoId,
           wait[c].pc # "idle" => wait[c].id = r.id,
           UNCHANGED <<wait, issued, policy, secrets, ctxDone, job, codes, audit, ran, relaxed>>
    PROVE  CallTypes' /\ PhaseInv' /\ WaitingInv' /\ JobInv' /\ AuditInv' /\ RelaxInv' /\ ResultTruthful'
<1> USE DEF IInv, CallInv
<1>1. /\ call' \in [Calls -> CallState] /\ call'[c] = r
      /\ \A d \in Calls : d # c => call'[d] = call[d]
  BY DEF CallTypes
<1>2. \A a \in Aliases : job[c][a] = "none" /\ ran[c][a] = 0
  BY DEF JobInv
<1>3. CallTypes'
  BY <1>1 DEF CallTypes
<1>4. PhaseInv'
  <2>1. PhaseOf(r)
    BY DEF PhaseOf
  <2> QED
    BY <1>1, <2>1 DEF PhaseInv, PhaseOf
<1>5. WaitingInv'
  BY <1>1 DEF WaitingInv
<1>6. JobInv'
  BY <1>1, <1>2 DEF JobInv
<1>7. AuditInv'
  BY <1>1, <1>2 DEF AuditInv, FailClosed, Preflighted
<1>8. RelaxInv'
  BY <1>1, <1>2 DEF RelaxInv, Active, Ran
<1>9. ResultTruthful'
  BY <1>1, <1>2 DEF ResultTruthful, Ran
<1> QED
  BY <1>3, <1>4, <1>5, <1>6, <1>7, <1>8, <1>9

\* An approval that is neither used nor handed out is as it was issued, and the store
\* hands it out by writing it in the history.
LEMMA GrantStep ==
    ASSUME IInv, NEW id \in Ids, NEW how, id \in DOMAIN items, items[id].state # "used", Store!Granted(id, how)
    PROVE  /\ id \in DOMAIN issued /\ items[id].request = issued[id].request /\ issued[id].request \in Snapshots
           /\ grants[id] = <<>> /\ grants'[id] # <<>>
           /\ \A i \in Ids : i # id => grants'[i] = grants[i]
<1>1. /\ id \in DOMAIN issued /\ items[id].request = issued[id].request /\ grants[id] = <<>>
      /\ grants \in [Ids -> Seq(SP!Grant)]
      /\ issued[id] \in [ request : Snapshots, code : {Code}, expiresAt : Nat, state : {"pending"} ]
  BY DEF IInv, SP!IInv, SP!StoreInv, SP!ItemInv
<1> DEFINE g == [ via |-> how, request |-> items[id].request, at |-> now ]
<1>2. grants' = [grants EXCEPT ![id] = Append(grants[id], g)]
  BY DEF Store!Granted
<1> HIDE DEF g
<1>3. grants'[id] = Append(<<>>, g) /\ \A i \in Ids : i # id => grants'[i] = grants[i]
  BY <1>1, <1>2
<1>4. Append(<<>>, g) # <<>>
  OBVIOUS
<1>5. issued[id].request \in Snapshots
  BY <1>1
<1> QED
  BY <1>1, <1>3, <1>4, <1>5

\* Store.Wait hands the approval to its call.
LEMMA WaitGrantedIInv ==
    ASSUME IInv, NEW c \in Calls, InWait(c), Store!WaitGranted(c)
    PROVE  CallInv'
<1> USE StoreParameters
<1> DEFINE id == call[c].id
<1>1. call[c].pc = "wait" /\ UNCHANGED <<policy, secrets, ctxDone, call, job, codes, audit, ran, relaxed>>
  BY DEF InWait
<1>2. /\ call[c] \in CallState /\ call[c].id # NoId /\ ~call[c].approved /\ call[c].result = "none"
      /\ call[c].id \in DOMAIN issued /\ call[c].id \in Ids
      /\ wait[c].pc # "idle" => wait[c].id = call[c].id
      /\ wait \in [Calls -> SP!WaitState]
      /\ wait[c].pc # "returned" => wait[c].result = "none"
      /\ policy # "enforce" => c \in relaxed
      /\ codes \subseteq DOMAIN issued /\ audit \subseteq AuditRecord /\ relaxed \subseteq Calls
      /\ call[c].kind \in {"execute", "executeWait"} => CreatedRecord(c) \in audit
  BY <1>1, Waiting
<1>3. /\ wait[c].pc = "woken" /\ wait[c].id = id /\ id \in DOMAIN items /\ items[id].state = "approved"
      /\ Store!Granted(id, "wait") /\ items' = Store!Without({id}) /\ issued' = issued
      /\ wait' = [wait EXCEPT ![c].pc = "returned", ![c].result = "granted"]
  BY <1>2 DEF Store!WaitGranted, Store!Return
<1>4. /\ grants[id] = <<>> /\ grants'[id] # <<>>
      /\ \A i \in Ids : i # id => grants'[i] = grants[i]
  BY <1>2, <1>3, GrantStep
<1>5. \A i \in DOMAIN items' : i \in DOMAIN items /\ items'[i] = items[i]
  BY <1>3 DEF Store!Without, Store!Restrict
<1>6. /\ wait'[c].pc = "returned" /\ wait'[c].id = id /\ wait'[c].result = "granted"
      /\ \A d \in Calls : d # c => wait'[d] = wait[d]
  BY <1>2, <1>3 DEF SP!WaitState
<1>7. \A i \in Ids : Holds(c, i)' => i = id
  BY <1>1, <1>2, <1>6 DEF Holds
<1>8. \A d \in Calls : call[d].pc \in {"auditCreated", "revoke"} => d # c /\ call[d].id # id
  BY <1>1 DEF IInv, CallInv, CreatedInv
<1>9. CreatedRecord(c)' = CreatedRecord(c)
  BY <1>1 DEF CreatedRecord
<1>10. HolderInv' /\ CreatedInv'
  <2>1. /\ id \in Ids /\ id \in DOMAIN items /\ UNCHANGED <<issued, codes, audit>>
        /\ \A d \in Calls : d # c => call'[d] = call[d] /\ wait'[d] = wait[d]
        /\ call'[c].pc \notin {"auditCreated", "revoke"} /\ call'[c].id = id /\ ~call'[c].approved
        /\ call'[c].kind \in {"execute", "executeWait"} => CreatedRecord(c)' \in audit'
    BY <1>1, <1>2, <1>3, <1>6, <1>9
  <2> HIDE DEF id
  <2> QED
    BY <1>4, <1>5, <1>7, <1>8, <2>1, HandedOut
<1>11. WaitingInv'
  BY <1>1, <1>2, <1>3, <1>6 DEF IInv, CallInv, WaitingInv
<1>12. CallTypes' /\ PhaseInv'
  BY <1>1, <1>3 DEF IInv, CallInv, CallTypes, PhaseInv, PhaseOf
<1>13. JobInv' /\ AuditInv' /\ RelaxInv' /\ ResultTruthful'
  BY <1>1 DEF IInv, CallInv, JobInv, AuditInv, ResultTruthful, Ran, FailClosed, Preflighted, RelaxInv, Active
<1> QED
  BY <1>10, <1>11, <1>12, <1>13 DEF CallInv

\* The call that was granted its approval takes the stored snapshot.
LEMMA LeaveGrantedIInv ==
    ASSUME IInv, NEW c \in Calls, LeaveWait(c), wait[c].result = "granted"
    PROVE  CallInv'
<1> USE StoreParameters
<1> DEFINE id == call[c].id
           snapshot == grants[id][Len(grants[id])].request
           r == [call[c] EXCEPT !.pc = "granted", !.approved = TRUE,
                                !.targets = snapshot.targets, !.command = snapshot.command]
<1>1. call[c].pc = "wait" /\ wait[c].pc = "returned"
      /\ UNCHANGED <<items, wait, issued, grants, policy, secrets, ctxDone, job, codes, audit, ran, relaxed>>
  BY DEF LeaveWait
<1>2. /\ call[c] \in CallState /\ call[c].id # NoId /\ ~call[c].approved /\ call[c].result = "none"
      /\ call[c].id \in DOMAIN issued /\ call[c].id \in Ids
      /\ wait[c].pc # "idle" => wait[c].id = call[c].id
      /\ call[c].kind \in {"execute", "executeWait"} => CreatedRecord(c) \in audit
  BY <1>1, Waiting
<1>3. Holds(c, id)
  BY <1>1, <1>2 DEF Holds
<1>4. grants[id] # <<>> /\ grants[id] \in Seq(SP!Grant)
  BY <1>2, <1>3 DEF IInv, CallInv, HolderInv, SP!IInv, SP!StoreInv
<1>5. Len(grants[id]) \in 1..Len(grants[id])
  BY <1>4
<1>6. snapshot = issued[id].request
  BY <1>2, <1>5 DEF IInv, SP!IInv, SP!StoreInv, SP!GrantBoundToRequest
<1>7. issued[id].request \in Snapshots
  BY <1>2 DEF IInv, SP!IInv, SP!StoreInv
<1> HIDE DEF snapshot
<1>8. snapshot.targets \in SUBSET Aliases /\ snapshot.command \in Commands
  BY <1>6, <1>7 DEF Snapshots
<1>9. call' = [call EXCEPT ![c] = r]
  BY <1>2 DEF LeaveWait, snapshot, IInv, CallInv, CallTypes, CallState
<1>10. /\ r \in CallState /\ r.pc = "granted" /\ r.approved /\ r.result = "none" /\ r.id = id /\ r.kind = call[c].kind
       /\ r.targets = snapshot.targets /\ r.command = snapshot.command
  BY <1>2, <1>8 DEF CallState
<1> HIDE DEF r
<1>11. CallTypes' /\ PhaseInv' /\ WaitingInv' /\ JobInv' /\ AuditInv' /\ RelaxInv' /\ ResultTruthful'
  BY <1>1, <1>2, <1>9, <1>10, GetsApproved
<1>12. /\ call'[c] = r /\ \A d \in Calls : d # c => call'[d] = call[d]
  BY <1>9 DEF IInv, CallInv, CallTypes
<1>13. HolderInv'
  <2>1. \A d \in Calls, i \in Ids : Holds(d, i)' => Holds(d, i)
    BY <1>1, <1>3, <1>10, <1>12 DEF Holds
  <2> QED
    BY <1>1, <1>6, <1>10, <1>12, <2>1 DEF IInv, CallInv, HolderInv
<1>14. CreatedInv'
  BY <1>1, <1>2, <1>10, <1>12 DEF IInv, CallInv, CreatedInv, CreatedRecord
<1> QED
  BY <1>11, <1>13, <1>14 DEF CallInv

\* ExecuteApproved consumes an approval by its code, or is refused.
LEMMA ExecuteApprovedIInv ==
    ASSUME IInv, NEW c \in Calls, NEW id \in Ids, ExecuteApproved(c, id)
    PROVE  CallInv'
<1> USE StoreParameters
<1>1. /\ call[c].pc = "idle" /\ "executeApproved" \in Kinds
      /\ UNCHANGED <<policy, secrets, ctxDone, job, codes, audit, ran, relaxed>>
  BY DEF ExecuteApproved
<1>2. /\ call[c] \in CallState /\ call[c].id = NoId /\ wait[c].pc = "idle" /\ wait[c].result = "none" /\ ~call[c].approved
      /\ codes \subseteq DOMAIN issued /\ audit \subseteq AuditRecord /\ relaxed \subseteq Calls
      /\ call \in [Calls -> CallState]
  BY <1>1 DEF IInv, CallInv, CallTypes, PhaseInv, PhaseOf, WaitingInv
<1>3. CASE /\ id \in codes
           /\ Store!Consume(id, Code)
           /\ call' = [call EXCEPT ![c] = [IdleCall EXCEPT !.pc = "granted", !.kind = "executeApproved",
                          !.id = id, !.approved = TRUE, !.flagged = TRUE,
                          !.targets = items[id].request.targets, !.command = items[id].request.command]]
  <2> DEFINE r == [IdleCall EXCEPT !.pc = "granted", !.kind = "executeApproved",
                          !.id = id, !.approved = TRUE, !.flagged = TRUE,
                          !.targets = items[id].request.targets, !.command = items[id].request.command]
             tombstone == [ request |-> Erased, code |-> NoCode,
                            expiresAt |-> items[id].expiresAt, state |-> "used" ]
             swept == Store!Without(Store!Stale(id))
  <2>1. /\ id \in DOMAIN items /\ items[id].state # "used" /\ Store!Granted(id, "code")
        /\ items' = [swept EXCEPT ![id] = tombstone] /\ UNCHANGED <<wait, issued>>
    BY <1>3 DEF Store!Consume
  <2>2. /\ id \in DOMAIN issued /\ items[id].request = issued[id].request /\ issued[id].request \in Snapshots
        /\ grants[id] = <<>> /\ grants'[id] # <<>>
        /\ \A i \in Ids : i # id => grants'[i] = grants[i]
    BY <2>1, GrantStep
  <2>3. DOMAIN swept \subseteq DOMAIN items /\ \A i \in DOMAIN swept : swept[i] = items[i]
    BY DEF Store!Without, Store!Restrict
  <2>4. items[id].request.targets \in SUBSET Aliases /\ items[id].request.command \in Commands
    BY <2>2 DEF Snapshots
  <2>5. /\ r \in CallState /\ r.pc = "granted" /\ r.approved /\ r.result = "none" /\ r.id = id /\ r.kind = "executeApproved"
        /\ r.targets = items[id].request.targets /\ r.command = items[id].request.command
    BY <1>1, <2>4 DEF CallState, IdleCall, Results
  <2>6. call' = [call EXCEPT ![c] = r]
    BY <1>3
  <2> HIDE DEF r, tombstone, swept
  <2>7. \A i \in DOMAIN items' : i \in DOMAIN items /\ (i # id => items'[i] = items[i])
    BY <2>1, <2>3
  <2>8. /\ call'[c] = r /\ \A d \in Calls : d # c => call'[d] = call[d]
    BY <1>2, <2>6
  <2>9. CallTypes' /\ PhaseInv' /\ WaitingInv' /\ JobInv' /\ AuditInv' /\ RelaxInv' /\ ResultTruthful'
    BY <1>1, <1>2, <2>1, <2>2, <2>5, <2>6, GetsApproved
  <2>10. HolderInv' /\ CreatedInv'
    <3>1. \A i \in Ids : Holds(c, i)' => i = id
      BY <1>2, <2>1, <2>5, <2>8 DEF Holds
    <3>2. \A d \in Calls : call[d].pc \in {"auditCreated", "revoke"} => d # c /\ call[d].id # id
      BY <1>1, <1>3 DEF IInv, CallInv, CreatedInv
    <3>3. /\ UNCHANGED <<issued, codes, audit>>
          /\ \A d \in Calls : d # c => call'[d] = call[d] /\ wait'[d] = wait[d]
          /\ call'[c].pc = "granted" /\ call'[c].id = id /\ call'[c].kind = "executeApproved"
          /\ call'[c].command = issued[id].request.command
          /\ call'[c].targets = issued[id].request.targets
      BY <1>1, <2>1, <2>2, <2>5, <2>8
    <3> QED
      BY <2>1, <2>2, <2>7, <3>1, <3>2, <3>3, HandedOut
  <2> QED
    BY <2>9, <2>10 DEF CallInv
<1>4. CASE /\ \/ Store!ConsumeExpired(id) \/ Store!ConsumeRefused(id, NoCode)
              \/ UNCHANGED store
           /\ call' = [call EXCEPT ![c] = [IdleCall EXCEPT !.pc = "returned", !.kind = "executeApproved",
                          !.result = "errApproval"]]
  <2> DEFINE r == [IdleCall EXCEPT !.pc = "returned", !.kind = "executeApproved", !.result = "errApproval"]
  <2>1. NothingGranted /\ UNCHANGED <<wait, issued>>
    <3>1. CASE UNCHANGED store
      BY <3>1, StoreLeftAlone DEF store
    <3>2. CASE Store!ConsumeExpired(id)
      BY <3>2, Sweeping DEF Store!ConsumeExpired
    <3>3. CASE Store!ConsumeRefused(id, NoCode)
      BY <3>3, Sweeping DEF Store!ConsumeRefused
    <3> QED
      BY <1>4, <3>1, <3>2, <3>3
  <2>2. /\ r \in CallState /\ r.pc = "returned" /\ ~r.approved /\ r.result = "errApproval" /\ r.id = NoId
        /\ r.kind = "executeApproved"
    BY <1>1 DEF CallState, IdleCall, Results
  <2>3. call' = [call EXCEPT ![c] = r]
    BY <1>4
  <2> HIDE DEF r
  <2>4. PhaseOf(r)
    BY <2>2 DEF PhaseOf
  <2> QED
    BY <1>1, <1>2, <2>1, <2>2, <2>3, <2>4, MoveKeeps
<1> QED
  BY <1>3, <1>4 DEF ExecuteApproved

-----------------------------------------------------------------------------
(* The jobs. *)

\* The targets of a call become jobs: on an approval it holds, or as a call without one.
LEMMA StartKeeps ==
    ASSUME IInv, NEW c \in Calls, NEW r \in CallState, NEW state \in {"queued", "ready"},
           call[c].pc \in {"settings", "batchSettings", "granted"},
           call' = [call EXCEPT ![c] = r], StartJobs(c, call[c].targets, state),
           r.pc = "jobs", r.result = "none", r.id = call[c].id, r.kind = call[c].kind,
           r.targets = call[c].targets, r.command = call[c].command, r.approved = call[c].approved,
           r.command \in Risky /\ ~r.approved => c \in relaxed,
           UNCHANGED <<now, items, wait, issued, verdict, grants, policy, secrets, ctxDone, codes, audit, ran, relaxed>>
    PROVE  CallInv'
<1> USE DEF IInv, CallInv
<1>1. /\ call' \in [Calls -> CallState] /\ call'[c] = r
      /\ \A d \in Calls : d # c => call'[d] = call[d]
  BY DEF CallTypes
<1>2. /\ \A a \in Aliases : job'[c][a] = IF a \in call[c].targets THEN state ELSE "none"
      /\ \A d \in Calls : d # c => job'[d] = job[d]
      /\ job' \in [Calls -> [Aliases -> JobState]]
  BY DEF StartJobs, CallTypes, JobState
<1>3. \A a \in Aliases : job[c][a] = "none" /\ ran[c][a] = 0
  BY DEF JobInv
<1>4. /\ call[c].pc # "granted" => call[c].id = NoId /\ ~call[c].approved
      /\ call[c].pc = "granted" => call[c].id # NoId /\ call[c].approved
      /\ call[c].id # NoId => call[c].id \in DOMAIN issued
  BY DEF PhaseInv, PhaseOf
<1>5. CallTypes'
  BY <1>1, <1>2 DEF CallTypes
<1>6. PhaseInv'
  <2>1. PhaseOf(r)
    BY <1>4 DEF PhaseOf
  <2> QED
    BY <1>1, <1>4, <2>1 DEF PhaseInv
<1>7. WaitingInv'
  BY <1>1 DEF WaitingInv
<1>8. JobInv'
  BY <1>1, <1>2, <1>3 DEF JobInv
<1>9. AuditInv'
  BY <1>1, <1>2, <1>3 DEF AuditInv, FailClosed, Preflighted
<1>10. RelaxInv'
  BY <1>1, <1>3, <1>4 DEF RelaxInv, Active, Ran
<1>11. HolderInv'
  BY <1>1 DEF HolderInv, Holds
<1>12. CreatedInv'
  BY <1>1 DEF CreatedInv, CreatedRecord
<1>13. ResultTruthful'
  BY <1>1, <1>3 DEF ResultTruthful, Ran
<1> QED
  BY <1>5, <1>6, <1>7, <1>8, <1>9, <1>10, <1>11, <1>12, <1>13

\* A call that may run its command starts its jobs.
LEMMA StartIInv ==
    ASSUME IInv, NEW c \in Calls,
           \/ Settings(c) /\ call'[c].pc = "jobs"
           \/ BatchSettings(c) /\ call'[c].pc = "jobs"
           \/ Granted(c) /\ Goto(c, "jobs")
    PROVE  CallInv'
<1> USE StoreParameters
<1>0. call[c] \in CallState /\ call \in [Calls -> CallState]
  BY DEF IInv, CallInv, CallTypes
<1>1. UNCHANGED <<now, items, wait, issued, verdict, grants, policy, secrets, ctxDone, codes, audit, ran, relaxed>>
  BY DEF Settings, BatchSettings, Granted
<1>2. CASE Settings(c) /\ call'[c].pc = "jobs"
  <2> DEFINE flagged == policy # "off" /\ call[c].command \in Risky
             r == [call[c] EXCEPT !.pc = "jobs", !.flagged = flagged]
  <2>1. /\ call[c].pc = "settings" /\ (policy = "warn" \/ ~flagged)
        /\ call' = [call EXCEPT ![c].pc = "jobs", ![c].flagged = flagged]
        /\ StartJobs(c, call[c].targets, "ready")
    BY <1>0, <1>2 DEF Settings, Return, CallState
  <2>2. call' = [call EXCEPT ![c] = r]
    BY <1>0, <2>1 DEF CallState
  <2>3. /\ call[c].id = NoId /\ ~call[c].approved /\ call[c].result = "none"
        /\ policy # "enforce" => c \in relaxed
    BY <2>1, Early
  <2>4. /\ r \in CallState /\ r.pc = "jobs" /\ r.result = "none" /\ r.id = call[c].id /\ r.kind = call[c].kind
        /\ r.targets = call[c].targets /\ r.command = call[c].command /\ r.approved = call[c].approved
    BY <1>0, <2>3 DEF CallState
  <2>5. call[c].command \in Risky => c \in relaxed
    BY <2>1, <2>3
  <2> HIDE DEF r, flagged
  <2> QED
    BY <1>1, <2>1, <2>2, <2>3, <2>4, <2>5, StartKeeps
<1>3. CASE BatchSettings(c) /\ call'[c].pc = "jobs"
  <2>1. /\ call[c].pc = "batchSettings" /\ Goto(c, "jobs") /\ StartJobs(c, call[c].targets, "queued")
        /\ ~(policy = "enforce" /\ call[c].flagged)
    BY <1>0, <1>3 DEF BatchSettings, Goto, CallState
  <2>2. PICK r \in CallState :
              /\ call' = [call EXCEPT ![c] = r] /\ r.pc = "jobs"
              /\ r.kind = call[c].kind /\ r.targets = call[c].targets /\ r.command = call[c].command
              /\ r.id = call[c].id /\ r.approved = call[c].approved /\ r.result = call[c].result
    BY <2>1, WentTo
  <2>3. call[c].result = "none" /\ (policy # "enforce" => c \in relaxed)
    BY <2>1, Early
  <2>4. call[c].command \in Risky => c \in relaxed
    BY <2>1, <2>3 DEF IInv, CallInv, RelaxInv
  <2> QED
    BY <1>1, <2>1, <2>2, <2>3, <2>4, StartKeeps
<1>4. CASE Granted(c) /\ Goto(c, "jobs")
  <2>1. call'[c].pc = "jobs"
    BY <1>0, <1>4 DEF Goto, CallState
  <2>2. call[c].pc = "granted" /\ \E state \in {"queued", "ready"} : StartJobs(c, call[c].targets, state)
    BY <1>0, <1>4, <2>1 DEF Granted, Return, CallState
  <2>3. call[c].result = "none" /\ call[c].approved
    BY <2>2 DEF IInv, CallInv, PhaseInv, PhaseOf
  <2>4. PICK r \in CallState :
              /\ call' = [call EXCEPT ![c] = r] /\ r.pc = "jobs"
              /\ r.kind = call[c].kind /\ r.targets = call[c].targets /\ r.command = call[c].command
              /\ r.id = call[c].id /\ r.approved = call[c].approved /\ r.result = call[c].result
    BY <1>4, WentTo
  <2> QED
    BY <1>1, <2>2, <2>3, <2>4, StartKeeps
<1> QED
  BY <1>2, <1>3, <1>4

\* The job of call c on alias a gets to state s.
LEMMA JobKeeps ==
    ASSUME IInv, NEW c \in Calls, NEW a \in Aliases, NEW s \in JobState \ {"none"},
           call[c].pc = "jobs", job[c][a] # "none", SetJob(c, a, s),
           ran' \in [Calls -> [Aliases -> Nat]],
           \A d \in Calls, b \in Aliases : d # c \/ b # a => ran'[d][b] = ran[d][b],
           s \in {"queued", "ready", "cleared"} => ran'[c][a] = 0,
           s \in {"ran", "done"} => ran'[c][a] = 1,
           s = "failed" => ran'[c][a] \in {0, 1},
           audit \subseteq audit', audit' \subseteq AuditRecord,
           (s = "cleared" \/ ran'[c][a] # 0) /\ FailClosed(c) =>
              [ event |-> "preflight", call |-> c, alias |-> a, id |-> call[c].id ] \in audit',
           UNCHANGED <<now, items, wait, issued, verdict, grants, policy, secrets, ctxDone, call, codes, relaxed>>
    PROVE  CallInv'
<1> USE DEF IInv, CallInv
<1>1. /\ job' \in [Calls -> [Aliases -> JobState]] /\ job'[c][a] = s
      /\ \A d \in Calls, b \in Aliases : d # c \/ b # a => job'[d][b] = job[d][b]
  BY DEF SetJob, CallTypes
<1>2. /\ call[c].result = "none" /\ (call[c].id # NoId => call[c].approved) /\ a \in call[c].targets
  BY DEF PhaseInv, PhaseOf, JobInv
<1>3. CallTypes'
  BY <1>1 DEF CallTypes
<1>4. PhaseInv' /\ WaitingInv' /\ HolderInv'
  BY DEF PhaseInv, PhaseOf, WaitingInv, HolderInv, Holds
<1>5. CreatedInv'
  BY DEF CreatedInv, CreatedRecord
<1>6. JobInv'
  <2> SUFFICES ASSUME NEW d \in Calls
               PROVE  /\ call[d].pc \notin {"jobs", "returned"} => \A b \in Aliases : job'[d][b] = "none"
                      /\ call[d].pc = "jobs" => \A b \in Aliases : job'[d][b] = "none" <=> b \notin call[d].targets
                      /\ \A b \in Aliases :
                            /\ job'[d][b] \in {"none", "queued", "ready", "cleared"} => ran'[d][b] = 0
                            /\ job'[d][b] \in {"ran", "done"} => ran'[d][b] = 1
                            /\ job'[d][b] = "failed" => ran'[d][b] \in {0, 1}
                            /\ ran'[d][b] # 0 => b \in call[d].targets /\ (call[d].id # NoId => call[d].approved)
    BY DEF JobInv
  <2>1. CASE d # c
    <3>1. \A b \in Aliases : job'[d][b] = job[d][b] /\ ran'[d][b] = ran[d][b]
      BY <1>1, <2>1
    <3>2. /\ call[d].pc \notin {"jobs", "returned"} => \A b \in Aliases : job[d][b] = "none"
          /\ call[d].pc = "jobs" => \A b \in Aliases : job[d][b] = "none" <=> b \notin call[d].targets
          /\ \A b \in Aliases :
                /\ job[d][b] \in {"none", "queued", "ready", "cleared"} => ran[d][b] = 0
                /\ job[d][b] \in {"ran", "done"} => ran[d][b] = 1
                /\ job[d][b] = "failed" => ran[d][b] \in {0, 1}
                /\ ran[d][b] # 0 => b \in call[d].targets /\ (call[d].id # NoId => call[d].approved)
      BY DEF JobInv
    <3> QED
      BY ONLY <3>1, <3>2
  <2>2. CASE d = c
    <3>1. \A b \in Aliases : job'[c][b] = "none" <=> b \notin call[c].targets
      BY <1>1, <1>2 DEF JobInv
    <3>2. ASSUME NEW b \in Aliases
          PROVE  /\ job'[c][b] \in {"none", "queued", "ready", "cleared"} => ran'[c][b] = 0
                 /\ job'[c][b] \in {"ran", "done"} => ran'[c][b] = 1
                 /\ job'[c][b] = "failed" => ran'[c][b] \in {0, 1}
                 /\ ran'[c][b] # 0 => b \in call[c].targets /\ (call[c].id # NoId => call[c].approved)
      <4>1. CASE b = a
        BY <1>1, <1>2, <4>1
      <4>2. CASE b # a
        BY <1>1, <4>2 DEF JobInv
      <4> QED
        BY <4>1, <4>2
    <3> QED
      BY <2>2, <3>1, <3>2
  <2> QED
    BY <2>1, <2>2
<1>7. AuditInv'
  BY <1>1 DEF AuditInv, FailClosed, Preflighted
<1>8. RelaxInv'
  <2>1. \A d \in Calls : d # c => Ran(d)' = Ran(d)
    BY DEF Ran
  <2> QED
    BY <2>1 DEF RelaxInv, Active
<1>9. ResultTruthful'
  <2>1. \A d \in Calls : d # c => Ran(d)' = Ran(d)
    BY DEF Ran
  <2> QED
    BY <1>2, <2>1 DEF ResultTruthful
<1> QED
  BY <1>3, <1>4, <1>5, <1>6, <1>7, <1>8, <1>9

\* The lookup, the preflight, the run and the final record of a job.
LEMMA JobIInv ==
    ASSUME IInv, NEW c \in Calls, NEW a \in Aliases,
           JobLookup(c, a) \/ Preflight(c, a) \/ RunRemote(c, a) \/ FinalAudit(c, a)
    PROVE  CallInv'
<1>1. /\ call[c].pc = "jobs" /\ job[c][a] \in {"queued", "ready", "cleared", "ran"}
      /\ UNCHANGED <<now, items, wait, issued, verdict, grants, policy, secrets, ctxDone, call, codes, relaxed>>
  BY DEF JobLookup, Preflight, RunRemote, FinalAudit
<1>2. /\ audit \subseteq AuditRecord /\ ran \in [Calls -> [Aliases -> Nat]] /\ call[c] \in CallState
      /\ job[c][a] \in {"queued", "ready", "cleared"} => ran[c][a] = 0
      /\ job[c][a] = "ran" => ran[c][a] = 1
      /\ (job[c][a] = "cleared" \/ ran[c][a] # 0) /\ FailClosed(c) =>
            [ event |-> "preflight", call |-> c, alias |-> a, id |-> call[c].id ] \in audit
  BY DEF IInv, CallInv, CallTypes, JobInv, AuditInv, Preflighted
<1>3. CASE JobLookup(c, a)
  <2>1. PICK s \in {"ready", "failed"} : SetJob(c, a, s)
    BY <1>3 DEF JobLookup
  <2>2. job[c][a] = "queued" /\ UNCHANGED <<audit, ran>>
    BY <1>3 DEF JobLookup
  <2> QED
    BY <1>1, <1>2, <2>1, <2>2, JobKeeps DEF JobState
<1>4. CASE Preflight(c, a)
  <2> DEFINE record == [ event |-> "preflight", call |-> c, alias |-> a, id |-> call[c].id ]
  <2>1. record \in AuditRecord
    BY <1>2 DEF AuditRecord, CallState
  <2>2. PICK s \in {"cleared", "failed"} :
            /\ SetJob(c, a, s)
            /\ \/ audit' = audit \cup {record}
               \/ audit' = audit /\ (FailClosed(c) => s = "failed")
    BY <1>4 DEF Preflight
  <2>3. job[c][a] = "ready" /\ ran' = ran
    BY <1>4 DEF Preflight
  <2>4. audit \subseteq audit' /\ audit' \subseteq AuditRecord
        /\ (s = "cleared" /\ FailClosed(c) => record \in audit')
    BY <1>2, <2>1, <2>2
  <2> QED
    BY <1>1, <1>2, <2>2, <2>3, <2>4, JobKeeps DEF JobState
<1>5. CASE RunRemote(c, a)
  <2>1. job[c][a] = "cleared" /\ SetJob(c, a, "ran") /\ audit' = audit /\ ran' = [ran EXCEPT ![c][a] = ran[c][a] + 1]
    BY <1>5 DEF RunRemote
  <2>2. /\ ran' \in [Calls -> [Aliases -> Nat]] /\ ran'[c][a] = 1
        /\ \A d \in Calls, b \in Aliases : d # c \/ b # a => ran'[d][b] = ran[d][b]
    BY <1>2, <2>1
  <2> QED
    BY <1>1, <1>2, <2>1, <2>2, JobKeeps DEF JobState
<1>6. CASE FinalAudit(c, a)
  <2> DEFINE record == [ event |-> "final", call |-> c, alias |-> a, id |-> call[c].id ]
  <2>1. record \in AuditRecord
    BY <1>2 DEF AuditRecord, CallState
  <2>2. PICK s \in {"done", "failed"} : SetJob(c, a, s)
    BY <1>6 DEF FinalAudit
  <2>3. job[c][a] = "ran" /\ ran' = ran /\ (audit' = audit \cup {record} \/ audit' = audit)
    BY <1>6 DEF FinalAudit
  <2>4. audit \subseteq audit' /\ audit' \subseteq AuditRecord
    BY <1>2, <2>1, <2>3
  <2> QED
    BY <1>1, <1>2, <2>2, <2>3, <2>4, JobKeeps DEF JobState
<1> QED
  BY <1>3, <1>4, <1>5, <1>6

\* A call returns after its jobs, or holding an approval it cannot use.
LEMMA ReturnIInv ==
    ASSUME IInv, NEW c \in Calls, Finish(c) \/ (Granted(c) /\ ~Goto(c, "jobs"))
    PROVE  CallInv'
<1>1. /\ call[c].pc \in {"jobs", "granted"} /\ call[c] \in CallState /\ call \in [Calls -> CallState]
      /\ UNCHANGED <<now, items, wait, issued, verdict, grants, policy, secrets, ctxDone, job, codes, audit, ran, relaxed>>
  BY DEF Finish, Granted, IInv, CallInv, CallTypes
<1>2. \E result \in {"completed", "failed", "errValidation"} :
            /\ Return(c, result)
            /\ result = "completed" => \A a \in Aliases : ran[c][a] > 0 <=> a \in call[c].targets
            /\ result = "errValidation" => \A a \in Aliases : ran[c][a] = 0
  <2>1. CASE Finish(c)
    <3>1. CASE \E a \in Aliases : job[c][a] = "failed"
      BY <2>1, <3>1 DEF Finish
    <3>2. CASE ~\E a \in Aliases : job[c][a] = "failed"
      <4>1. Return(c, "completed") /\ call[c].pc = "jobs" /\ \A a \in Aliases : job[c][a] \in {"none", "done"}
        BY <2>1, <3>2 DEF Finish
      <4>2. \A a \in Aliases : ran[c][a] > 0 <=> a \in call[c].targets
        BY <4>1 DEF IInv, CallInv, JobInv
      <4> QED
        BY <4>1, <4>2
    <3> QED
      BY <3>1, <3>2
  <2>2. CASE Granted(c) /\ ~Goto(c, "jobs")
    <3>1. Return(c, "errValidation") /\ call[c].pc = "granted"
      BY <2>2 DEF Granted
    <3>2. \A a \in Aliases : ran[c][a] = 0
      BY <3>1 DEF IInv, CallInv, JobInv
    <3> QED
      BY <3>1, <3>2
  <2> QED
    BY <2>1, <2>2
<1>3. PICK result \in {"completed", "failed", "errValidation"} :
            /\ Return(c, result)
            /\ result = "completed" => \A a \in Aliases : ran[c][a] > 0 <=> a \in call[c].targets
            /\ result = "errValidation" => \A a \in Aliases : ran[c][a] = 0
  BY <1>2
<1>4. PICK r \in CallState :
            /\ call' = [call EXCEPT ![c] = r] /\ r.pc = "returned" /\ r.result = result
            /\ r.kind = call[c].kind /\ r.targets = call[c].targets /\ r.command = call[c].command
            /\ r.flagged = call[c].flagged /\ r.id = call[c].id /\ r.approved = call[c].approved
  BY <1>3, ReturnedWith DEF Results
<1>5. /\ call' \in [Calls -> CallState] /\ call'[c] = r
      /\ \A d \in Calls : d # c => call'[d] = call[d]
  BY <1>1, <1>4
<1> USE DEF IInv, CallInv
<1>6. CallTypes'
  BY <1>1, <1>5 DEF CallTypes
<1>7. PhaseInv' /\ WaitingInv'
  BY <1>1, <1>4, <1>5 DEF PhaseInv, PhaseOf, WaitingInv
<1>8. JobInv' /\ AuditInv'
  BY <1>1, <1>4, <1>5 DEF JobInv, AuditInv, FailClosed, Preflighted
<1>9. RelaxInv'
  BY <1>1, <1>4, <1>5 DEF RelaxInv, Active, Ran
<1>10. HolderInv'
  BY <1>1, <1>4, <1>5 DEF HolderInv, Holds
<1>11. CreatedInv'
  BY <1>1, <1>4, <1>5 DEF CreatedInv, CreatedRecord
<1>12. ResultTruthful'
  <2>1. call[c].targets \subseteq Aliases
    BY <1>1 DEF CallState
  <2>2. \A d \in Calls : Ran(d)' = Ran(d)
    BY <1>1 DEF Ran
  <2>3. result = "completed" => Ran(c) = call[c].targets
    BY <1>3, <2>1 DEF Ran
  <2>4. result = "errValidation" => Ran(c) = {}
    BY <1>3 DEF Ran
  <2> QED
    BY <1>3, <1>4, <1>5, <2>2, <2>3, <2>4 DEF ResultTruthful
<1> QED
  BY <1>6, <1>7, <1>8, <1>9, <1>10, <1>11, <1>12

-----------------------------------------------------------------------------
(* The invariant. *)

\* Every step keeps the pipeline's part.
LEMMA CallsKeep == ASSUME IInv, [Next]_vars PROVE CallInv'
<1>1. ASSUME NEW c \in Calls, BeginExecute(c) \/ BeginBatch(c) PROVE CallInv'
  BY <1>1, BeginIInv
<1>2. ASSUME NEW c \in Calls, Step(c) PROVE CallInv'
  <2>1. CASE Lookup(c) \/ Screen(c)
    BY <2>1, ScreenIInv
  <2>2. CASE Settings(c)
    <3>1. call[c] \in CallState /\ call \in [Calls -> CallState]
      BY DEF IInv, CallInv, CallTypes
    <3>2. UNCHANGED job \/ call'[c].pc = "jobs"
      BY <2>2, <3>1 DEF Settings, CallState
    <3> QED
      BY <2>2, <3>2, ScreenIInv, StartIInv
  <2>3. CASE BatchSettings(c)
    <3>1. call[c] \in CallState /\ call \in [Calls -> CallState]
      BY DEF IInv, CallInv, CallTypes
    <3>2. UNCHANGED job \/ call'[c].pc = "jobs"
      BY <2>3, <3>1 DEF BatchSettings, Goto, CallState
    <3> QED
      BY <2>3, <3>2, ScreenIInv, StartIInv
  <2>4. CASE CreateFails(c) \/ \E id \in Ids : CreateApproval(c, id)
    BY <2>4, CreateIInv
  <2>5. CASE AuditCreated(c) \/ AuditCreatedFails(c) \/ RevokeUnaudited(c)
    BY <2>5, AuditCreatedIInv
  <2>6. CASE EnterWait(c)
    BY <2>6, WaitIInv
  <2>7. CASE InWait(c)
    BY <2>7, WaitIInv, WaitGrantedIInv
  <2>8. CASE LeaveWait(c)
    BY <2>8, WaitIInv, LeaveGrantedIInv
  <2>9. CASE Granted(c)
    <3>1. CASE Goto(c, "jobs")
      BY <2>9, <3>1, StartIInv
    <3>2. CASE ~Goto(c, "jobs")
      BY <2>9, <3>2, ReturnIInv
    <3> QED
      BY <3>1, <3>2
  <2>10. CASE \E a \in Aliases : JobLookup(c, a) \/ Preflight(c, a) \/ RunRemote(c, a) \/ FinalAudit(c, a)
    BY <2>10, JobIInv
  <2>11. CASE Finish(c)
    <3>1. Finish(c) \/ (Granted(c) /\ ~Goto(c, "jobs"))
      BY <2>11
    <3> QED
      BY <3>1, ReturnIInv
  <2> QED
    BY <1>2, <2>1, <2>2, <2>3, <2>4, <2>5, <2>6, <2>7, <2>8, <2>9, <2>10, <2>11 DEF Step
<1>3. ASSUME NEW c \in Calls, NEW id \in Ids, ExecuteApproved(c, id) PROVE CallInv'
  BY <1>3, ExecuteApprovedIInv
<1>4. CASE \/ \E id \in Ids : DecideApproval(id)
           \/ ListApprovals \/ Tick \/ LockSecrets \/ UnlockSecrets \/ Stop
           \/ \E new \in Policies : UpdateSettings(new)
  BY <1>4, AroundIInv
<1>5. CASE UNCHANGED vars
  <2>1. /\ NothingGranted /\ UNCHANGED <<wait, call, job, codes, audit, ran, policy, relaxed>>
        /\ policy' \in Policies \cup {"enforce"} /\ secrets' \in {{}, Aliases} /\ ctxDone' \in BOOLEAN
    BY <1>5 DEF vars, NothingGranted, IssuedKept, IInv, CallInv, CallTypes
  <2> QED
    BY <2>1, AroundKeeps
<1> QED
  BY <1>1, <1>2, <1>3, <1>4, <1>5 DEF Next

\* Every step of the pipeline is a step of the approval store or leaves it alone.
LEMMA StoreStep == ASSUME IInv, [Next]_vars PROVE [Store!Next]_(Store!vars)
<1> USE DEF Store!vars
<1>1. ASSUME NEW c \in Calls, BeginExecute(c) \/ BeginBatch(c) PROVE UNCHANGED Store!vars
  BY <1>1 DEF BeginExecute, BeginBatch, Begin
<1>2. ASSUME NEW c \in Calls, Step(c) PROVE [Store!Next]_(Store!vars)
  <2>1. CASE CreateFails(c)
    BY <2>1 DEF CreateFails, Store!Next
  <2>2. ASSUME NEW id \in Ids, CreateApproval(c, id) PROVE Store!Next
    <3>1. [ targets |-> call[c].targets, command |-> call[c].command ] \in Snapshots
      <4>1. call[c].pc = "create"
        BY <2>2 DEF CreateApproval
      <4> QED
        BY <4>1, Early DEF Snapshots, CallState
    <3>2. Store!CreateBatch(id, [ targets |-> call[c].targets, command |-> call[c].command ], Code)
      BY <2>2 DEF CreateApproval
    <3> QED
      BY <3>1, <3>2 DEF Store!Next
  <2>3. CASE RevokeUnaudited(c)
    <3>1. call[c].pc \in {"auditCreated", "revoke"}
      BY <2>3 DEF RevokeUnaudited
    <3>2. call[c].id \in Ids
      BY <3>1, Unaudited
    <3>3. Store!Revoke(call[c].id) \/ UNCHANGED store
      BY <2>3 DEF RevokeUnaudited
    <3> QED
      BY <3>2, <3>3 DEF Store!Next, store
  <2>4. CASE EnterWait(c)
    <3>1. call[c].pc = "wait"
      BY <2>4 DEF EnterWait
    <3>2. call[c].id \in Ids
      BY <3>1, Waiting
    <3>3. Store!WaitSelect(c, call[c].id) \/ Store!WaitMissing(c, call[c].id)
      BY <2>4 DEF EnterWait
    <3> QED
      BY <3>2, <3>3 DEF Store!Next
  <2>5. CASE InWait(c)
    <3>1. Store!WaitStep(c) \/ Store!WaitCancelled(c)
      BY <2>5 DEF InWait
    <3> QED
      BY <3>1 DEF Store!Next
  <2>6. CASE \/ Lookup(c) \/ Settings(c) \/ Screen(c) \/ BatchSettings(c)
             \/ AuditCreated(c) \/ AuditCreatedFails(c) \/ LeaveWait(c) \/ Granted(c) \/ Finish(c)
    BY <2>6 DEF Lookup, Settings, Screen, BatchSettings, AuditCreated, AuditCreatedFails, LeaveWait, Granted, Finish
  <2>7. CASE \E a \in Aliases : JobLookup(c, a) \/ Preflight(c, a) \/ RunRemote(c, a) \/ FinalAudit(c, a)
    BY <2>7 DEF JobLookup, Preflight, RunRemote, FinalAudit
  <2> QED
    BY <1>2, <2>1, <2>2, <2>3, <2>4, <2>5, <2>6, <2>7 DEF Step
<1>3. ASSUME NEW c \in Calls, NEW id \in Ids, ExecuteApproved(c, id) PROVE [Store!Next]_(Store!vars)
  <2>1. CASE Store!Consume(id, Code) \/ Store!ConsumeExpired(id)
    BY <2>1 DEF Store!Next
  <2>2. CASE Store!ConsumeRefused(id, NoCode)
    <3>1. NoId \notin DOMAIN items
      BY StoreParameters DEF IInv, SP!IInv, SP!StoreInv
    <3>2. Store!Stale(id) = Store!Stale(NoId)
      BY <2>2, <3>1 DEF Store!ConsumeRefused, Store!Stale
    <3>3. Store!List
      BY <2>2, <3>2 DEF Store!ConsumeRefused, Store!List
    <3> QED
      BY <3>3 DEF Store!Next
  <2>3. CASE UNCHANGED store
    BY <2>3 DEF store
  <2> QED
    BY <1>3, <2>1, <2>2, <2>3 DEF ExecuteApproved
<1>4. ASSUME NEW id \in Ids, DecideApproval(id) PROVE Store!Next
  BY <1>4 DEF DecideApproval, Store!Next
<1>5. CASE ListApprovals
  BY <1>5 DEF ListApprovals, Store!Next
<1>6. CASE Tick
  BY <1>6 DEF Tick, Store!Next
<1>7. CASE LockSecrets \/ UnlockSecrets \/ Stop \/ \E new \in Policies : UpdateSettings(new)
  BY <1>7 DEF LockSecrets, UnlockSecrets, Stop, UpdateSettings
<1>8. CASE UNCHANGED vars
  BY <1>8 DEF vars
<1> QED
  BY <1>1, <1>2, <1>3, <1>4, <1>5, <1>6, <1>7, <1>8 DEF Next

\* It holds initially.
LEMMA InitIInv == Init => IInv
<1> SUFFICES ASSUME Init PROVE IInv
  OBVIOUS
<1> USE StoreParameters
<1>1. SP!Init
  BY DEF Init, Store!Init, SP!Init, Store!IdleWait, SP!IdleWait, Store!Undecided, SP!Undecided
<1>2. SP!IInv
  BY <1>1, SP!InitInvariant
<1>3. /\ now = 0 /\ DOMAIN items = {} /\ DOMAIN issued = {} /\ grants = [id \in Ids |-> <<>>]
      /\ \A c \in Calls : wait[c].pc = "idle" /\ wait[c].id = NoId /\ wait[c].result = "none"
  BY <1>1 DEF SP!Init, SP!IdleWait
<1>4. IdleCall \in CallState /\ PhaseOf(IdleCall) /\ IdleCall.id = NoId /\ IdleCall.pc = "idle" /\ ~IdleCall.approved
      /\ IdleCall.result = "none"
  BY DEF IdleCall, CallState, Results, PhaseOf
<1>5. /\ \A c \in Calls : call[c] = IdleCall /\ \A a \in Aliases : job[c][a] = "none" /\ ran[c][a] = 0
      /\ policy = "enforce"
  BY DEF Init
<1>6. CallTypes
  BY <1>4 DEF Init, CallTypes, JobState
<1>7. PhaseInv
  BY <1>4, <1>5 DEF PhaseInv
<1>8. WaitingInv
  BY <1>3 DEF WaitingInv
<1>9. JobInv
  BY <1>4, <1>5 DEF JobInv
<1>10. AuditInv /\ RelaxInv /\ ResultTruthful
  BY <1>4, <1>5 DEF AuditInv, RelaxInv, ResultTruthful, Active, Ran
<1>11. HolderInv
  BY <1>3, <1>4, <1>5 DEF HolderInv, Holds
<1>12. CreatedInv
  BY <1>4, <1>5 DEF CreatedInv
<1> QED
  BY <1>2, <1>6, <1>7, <1>8, <1>9, <1>10, <1>11, <1>12 DEF IInv, CallInv

\* The invariant of the approval store and of the pipeline above it.
THEOREM Invariance == Spec => []IInv
<1>1. IInv /\ [Next]_vars => IInv'
  BY CallsKeep, StoreStep, StoreKeeps DEF IInv
<1> QED
  BY <1>1, InitIInv, PTL DEF Spec

-----------------------------------------------------------------------------
(* What the invariant says. *)

\* All state of the broker, its approval store's included, keeps its type.
THEOREM TypeCorrect == Spec => []TypeOK
<1>1. IInv => TypeOK
  <2> SUFFICES ASSUME IInv PROVE TypeOK
    OBVIOUS
  <2>1. Store!TypeOK
    BY DEF IInv, SP!IInv, SP!StoreInv, SP!WaitersInv, Store!TypeOK, SP!StoredApproval, Store!StoredApproval,
       SP!WaitState, Store!WaitState, SP!Verdict, Store!Verdict, SP!Grant, Store!Grant
  <2>2. codes \subseteq Ids
    BY DEF IInv, CallInv, CallTypes, SP!IInv, SP!StoreInv
  <2> QED
    BY <2>1, <2>2 DEF IInv, CallInv, CallTypes, TypeOK
<1> QED
  BY <1>1, Invariance, PTL

\* A command that is flagged runs on a grant or under a relaxed policy, whatever
\* settings are saved while calls are in progress.
THEOREM RiskyIsGranted == Spec => []RiskyNeedsGrant
<1>1. IInv => RiskyNeedsGrant
  <2> SUFFICES ASSUME IInv, NEW c \in Calls, call[c].command \in Risky, Ran(c) # {}, c \notin relaxed
               PROVE  call[c].id # NoId /\ grants[call[c].id] # <<>>
    BY DEF RiskyNeedsGrant
  <2>1. call[c].approved
    BY DEF IInv, CallInv, RelaxInv
  <2>2. call[c].id # NoId /\ call[c].id \in DOMAIN issued /\ DOMAIN issued \subseteq Ids
    BY <2>1 DEF IInv, CallInv, PhaseInv, PhaseOf, SP!IInv, SP!StoreInv
  <2>3. Holds(c, call[c].id)
    BY <2>1 DEF Holds
  <2> QED
    BY <2>2, <2>3 DEF IInv, CallInv, HolderInv
<1> QED
  BY <1>1, Invariance, PTL

\* The command of an approval runs once on each of its targets, by one call, however
\* many calls wait for it or present its code.
THEOREM ApprovedRunsOnce == Spec => []ApprovalRunsOnce
<1>1. IInv => ApprovalRunsOnce
  <2> SUFFICES ASSUME IInv, NEW id \in DOMAIN issued
               PROVE  LET holders == { c \in Calls : call[c].id = id /\ Ran(c) # {} } IN
                      /\ Cardinality(holders) <= 1
                      /\ \A c \in holders :
                            /\ call[c].command = issued[id].request.command
                            /\ Ran(c) \subseteq issued[id].request.targets
                            /\ \A a \in Aliases : ran[c][a] <= 1
    BY DEF ApprovalRunsOnce
  <2> DEFINE holders == { c \in Calls : call[c].id = id /\ Ran(c) # {} }
  <2>1. id \in Ids /\ id # NoId
    BY StoreParameters DEF IInv, SP!IInv, SP!StoreInv
  <2>2. \A c \in Calls, a \in Aliases : ran[c][a] \in {0, 1}
    BY DEF IInv, CallInv, JobInv, CallTypes, JobState
  <2>3. \A c \in Calls : \A a \in Ran(c) : a \in Aliases /\ ran[c][a] # 0
    BY <2>2 DEF Ran
  <2>4. \A c \in holders : call[c].approved /\ Ran(c) \subseteq call[c].targets
    BY <2>1, <2>3 DEF IInv, CallInv, JobInv
  <2>5. \A c \in holders : Holds(c, id)
    BY <2>4 DEF Holds
  <2>6. \A c, d \in holders : c = d
    BY <2>1, <2>5 DEF IInv, CallInv, HolderInv
  <2>7. Cardinality(holders) <= 1
    <3> HIDE DEF holders
    <3>1. CASE holders = {}
      BY <3>1, FS_EmptySet
    <3>2. CASE holders # {}
      <4>1. PICK c \in holders : holders = {c}
        BY <2>6, <3>2
      <4>2. Cardinality({c}) = 1
        BY FS_Singleton
      <4> QED
        BY <4>1, <4>2
    <3> QED
      BY <3>1, <3>2
  <2>8. \A c \in holders : call[c].command = issued[id].request.command /\ call[c].targets = issued[id].request.targets
    BY <2>4 DEF IInv, CallInv, HolderInv
  <2> QED
    BY <2>2, <2>4, <2>7, <2>8
<1> QED
  BY <1>1, Invariance, PTL

\* What runs has its preflight record, when the call is fail-closed.
THEOREM RunsAreAudited == Spec => []RunIsAudited
<1>1. IInv => RunIsAudited
  BY DEF IInv, CallInv, AuditInv, FailClosed, Preflighted, RunIsAudited, Ran, CallTypes
<1> QED
  BY <1>1, Invariance, PTL

\* An approval whose creation could not be audited is never handed out.
THEOREM UnauditedIsDead == Spec => []UnauditedApprovalDead
<1>1. IInv => UnauditedApprovalDead
  BY DEF IInv, CallInv, CreatedInv, CreatedRecord, UnauditedApprovalDead
<1> QED
  BY <1>1, Invariance, PTL

\* The client is told what happened.
THEOREM ResultIsTruthful == Spec => []ResultTruthful
<1>1. IInv => ResultTruthful
  BY DEF IInv, CallInv
<1> QED
  BY <1>1, Invariance, PTL

=============================================================================
