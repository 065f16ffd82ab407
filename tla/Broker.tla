------------------------------- MODULE Broker -------------------------------
(***************************************************************************)
(* The broker's request pipeline (internal/broker/service.go): the five    *)
(* ways a client can have a command run, from the analysis of the command  *)
(* through the local approval to the audited remote execution, composed    *)
(* with the approval store.  Each call is a goroutine of the daemon; it is *)
(* split wherever the code takes or releases a lock, writes an audit       *)
(* record, blocks, or starts the remote command, so that calls interleave  *)
(* with each other, with decisions, with configuration changes, with lock, *)
(* unlock and stop.                                                        *)
(*                                                                         *)
(* Abstracted: the analyzer is a fixed classification of the commands; the *)
(* audit log is the set of records it accepted, and any write may fail;    *)
(* the SSH execution is one step with either outcome; execution limits are *)
(* part of the command; a batch is a set of aliases, so the order in which *)
(* its jobs start is left free.                                            *)
(***************************************************************************)
EXTENDS Naturals, Sequences, FiniteSets

CONSTANTS
    Calls,            \* handler goroutines
    Kinds,            \* broker methods the clients of this instance call
    Aliases,          \* servers of the vault
    Blank,            \* an alias that is empty after trimming
    BatchTargets,     \* alias lists clients pass, as sets of Aliases and Blank
    Safe, Risky, Malformed,   \* the commands, by what the analyzer makes of them
    Policies,         \* the risk policies administrators of this instance set
    AuditFailClosed,  \* !AllowAuditFailOpen
    Concurrency,      \* batchConcurrency
    Ids, Code, NoCode, Erased, NoId, TTL, MaxStoreEntries, Horizon  \* the approval store's

ASSUME BrokerAssumption ==
    /\ Kinds \subseteq {"execute", "executeWait", "executeApproved", "executeBatch", "executeBatchWait"}
    /\ Blank \notin Aliases
    /\ BatchTargets \subseteq SUBSET (Aliases \cup {Blank})
    /\ Policies \subseteq {"enforce", "warn", "off"}
    /\ AuditFailClosed \in BOOLEAN
    /\ Concurrency \in Nat \ {0}

Commands  == Safe \cup Risky \cup Malformed
Snapshots == [ targets : SUBSET Aliases, command : Commands ]

\* What the approval store asks of its parameters.
ASSUME StoreParameters ==
    /\ Erased \notin Snapshots
    /\ NoCode # Code
    /\ NoId \notin Ids
    /\ TTL \in Nat \ {0}
    /\ MaxStoreEntries \in Nat \ {0}
    /\ Horizon \in Nat

VARIABLES
    now, items, wait, issued, verdict, grants,   \* the approval store
    policy,    \* Service.riskPolicy
    secrets,   \* the aliases memorySecrets holds: none while the vault is locked
    ctxDone,   \* the daemon's context is cancelled (Stop)
    call,      \* the locals of each call
    job,       \* what executeRemote has done for each target of each call
    codes,     \* approvals whose code was returned to a client
    (* History. *)
    audit,     \* the audit records that were written
    ran,       \* how often each call ran its command on each alias
    relaxed    \* calls during which the policy was not enforce at some instant

store   == <<now, items, wait, issued, verdict, grants>>
history == <<audit, ran, relaxed>>
vars    == <<now, items, wait, issued, verdict, grants, policy, secrets, ctxDone,
             call, job, codes, audit, ran, relaxed>>

Store == INSTANCE ApprovalStore WITH
            Requests <- Snapshots, Codes <- {Code}, Waiters <- Calls

Results  == {"none", "completed", "failed", "requiresApproval", "denied",
             "errValidation", "errApproval", "errAudit"}

CallState ==
    [ pc       : {"idle", "lookup", "settings", "screen", "batchSettings", "create", "auditCreated",
                  "revoke", "wait", "granted", "jobs", "returned"},
      kind     : Kinds \cup {"none"},
      targets  : SUBSET Aliases,
      command  : Commands \cup {Erased},
      flagged  : BOOLEAN,           \* the analysis found risk categories
      id       : Ids \cup {NoId},   \* the approval the call created or consumed
      approved : BOOLEAN,           \* the call holds a grant
      result   : Results ]

JobState == {"none", "queued", "ready", "cleared", "ran", "done", "failed"}

IdleCall == [ pc |-> "idle", kind |-> "none", targets |-> {}, command |-> Erased, flagged |-> FALSE,
              id |-> NoId, approved |-> FALSE, result |-> "none" ]

Init ==
    /\ Store!Init
    /\ policy = "enforce"
    /\ secrets \in {{}, Aliases}
    /\ ctxDone = FALSE
    /\ call = [c \in Calls |-> IdleCall]
    /\ job = [c \in Calls |-> [a \in Aliases |-> "none"]]
    /\ codes = {}
    /\ audit = {}
    /\ ran = [c \in Calls |-> [a \in Aliases |-> 0]]
    /\ relaxed = {}

-----------------------------------------------------------------------------
Active(c) == call[c].pc \notin {"idle", "returned"}
IsBatch(c) == call[c].kind \in {"executeBatch", "executeBatchWait"}

Goto(c, pc) == call' = [call EXCEPT ![c].pc = pc]
Return(c, result) == call' = [call EXCEPT ![c].pc = "returned", ![c].result = result]

\* The targets of call c become jobs: of a batch they are queued for the worker
\* pool, of a single call the secret is already at hand.
StartJobs(c, targets, state) ==
    job' = [job EXCEPT ![c] = [a \in Aliases |-> IF a \in targets THEN state ELSE "none"]]

-----------------------------------------------------------------------------
(* A request arrives.  As in ApprovalStore, an operator Mutant_* is the      *)
(* definition after it with a plausible bug.                               *)

Begin(c, kind, pc, targets, command) ==
    /\ call[c].pc = "idle"
    /\ kind \in Kinds
    /\ IF ctxDone
       THEN Return(c, "errValidation") /\ UNCHANGED relaxed
       ELSE /\ call' = [call EXCEPT ![c] = [IdleCall EXCEPT !.pc = pc, !.kind = kind,
                                                            !.targets = targets, !.command = command]]
            /\ relaxed' = IF policy # "enforce" THEN relaxed \cup {c} ELSE relaxed
    /\ UNCHANGED <<now, items, wait, issued, verdict, grants, policy, secrets, ctxDone, job, codes, audit, ran>>

\* Execute and ExecuteWait on one alias.
BeginExecute(c) ==
    \E kind \in {"execute", "executeWait"}, a \in Aliases, command \in Commands :
        Begin(c, kind, "lookup", {a}, command)

\* ExecuteBatch and ExecuteBatchWait: blanks and duplicates are dropped after
\* the check that the list is not empty.
BeginBatch(c) ==
    \E kind \in {"executeBatch", "executeBatchWait"}, list \in BatchTargets \ {{}}, command \in Commands :
        Begin(c, kind, "screen", list \ {Blank}, command)

-----------------------------------------------------------------------------
(* Execute, up to the decision whether the command may run. *)

Lookup(c) ==
    /\ call[c].pc = "lookup"
    /\ IF call[c].targets \subseteq secrets
       THEN Goto(c, "settings")
       ELSE Return(c, "errValidation")
    /\ UNCHANGED <<now, items, wait, issued, verdict, grants, policy, secrets, ctxDone, job, codes, audit, ran, relaxed>>

\* The policy is read once; with "off" the command is not even parsed.
Settings(c) ==
    LET flagged == policy # "off" /\ call[c].command \in Risky IN
    /\ call[c].pc = "settings"
    /\ \/ /\ policy # "off" /\ call[c].command \in Malformed
          /\ Return(c, "errValidation")
          /\ UNCHANGED job
       \/ /\ ~(policy # "off" /\ call[c].command \in Malformed)
          /\ policy # "warn" /\ flagged
          /\ call' = [call EXCEPT ![c].pc = "create", ![c].flagged = TRUE]
          /\ UNCHANGED job
       \/ /\ ~(policy # "off" /\ call[c].command \in Malformed)
          /\ policy = "warn" \/ ~flagged
          /\ call' = [call EXCEPT ![c].pc = "jobs", ![c].flagged = flagged]
          /\ StartJobs(c, call[c].targets, "ready")
    /\ UNCHANGED <<now, items, wait, issued, verdict, grants, policy, secrets, ctxDone, codes, audit, ran, relaxed>>

\* ExecuteBatch reads the policy twice: without the lock before the analysis ...
Screen(c) ==
    /\ call[c].pc = "screen"
    /\ IF policy # "off" /\ call[c].command \in Malformed
       THEN Return(c, "errValidation")
       ELSE call' = [call EXCEPT ![c].pc = "batchSettings",
                                 ![c].flagged = (policy # "off" /\ call[c].command \in Risky)]
    /\ UNCHANGED <<now, items, wait, issued, verdict, grants, policy, secrets, ctxDone, job, codes, audit, ran, relaxed>>

\* ... and under it after, when it decides whether an approval is needed.
BatchSettings(c) ==
    /\ call[c].pc = "batchSettings"
    /\ IF policy = "enforce" /\ call[c].flagged
       THEN Goto(c, "create") /\ UNCHANGED job
       ELSE Goto(c, "jobs") /\ StartJobs(c, call[c].targets, "queued")
    /\ UNCHANGED <<now, items, wait, issued, verdict, grants, policy, secrets, ctxDone, codes, audit, ran, relaxed>>

-----------------------------------------------------------------------------
(* The approval. *)

\* After creation a single call writes its audit record; a batch does not, and
\* hands no code to its client either.
AfterCreate(c) ==
    IF ~IsBatch(c) THEN "auditCreated" ELSE IF call[c].kind = "executeBatchWait" THEN "wait" ELSE "returned"

CreateApproval(c, id) ==
    /\ call[c].pc = "create"
    /\ call[c].targets # {}
    /\ Store!CreateBatch(id, [ targets |-> call[c].targets, command |-> call[c].command ], Code)
    /\ call' = [call EXCEPT ![c].pc = AfterCreate(c), ![c].id = id,
                            ![c].result = IF AfterCreate(c) = "returned" THEN "requiresApproval" ELSE "none"]
    /\ UNCHANGED <<policy, secrets, ctxDone, job, codes, audit, ran, relaxed>>

CreateFails(c) ==
    /\ call[c].pc = "create"
    /\ Store!CreateRefused
    /\ Return(c, "errApproval")
    /\ UNCHANGED <<policy, secrets, ctxDone, job, codes, audit, ran, relaxed>>

\* The "created" record, which must be durable before anybody learns the code.
AuditCreated(c) ==
    /\ call[c].pc = "auditCreated"
    /\ audit' = audit \cup {[ event |-> "created", call |-> c, alias |-> Blank, id |-> call[c].id ]}
    /\ IF call[c].kind = "execute"
       THEN Return(c, "requiresApproval") /\ codes' = codes \cup {call[c].id}
       ELSE Goto(c, "wait") /\ UNCHANGED codes
    /\ UNCHANGED <<now, items, wait, issued, verdict, grants, policy, secrets, ctxDone, job, ran, relaxed>>

AuditCreatedFails(c) ==
    /\ call[c].pc = "auditCreated"
    /\ Goto(c, "revoke")
    /\ UNCHANGED <<now, items, wait, issued, verdict, grants, policy, secrets, ctxDone, job, codes, audit, ran, relaxed>>

Mutant_RevokeUnaudited(c) ==
    /\ call[c].pc = "revoke"
    /\ Return(c, "errAudit")
    /\ UNCHANGED <<now, items, wait, issued, verdict, grants, policy, secrets, ctxDone, job, codes, audit, ran, relaxed>>

\* The approval nobody could audit is revoked; a failure to revoke is ignored.
RevokeUnaudited(c) ==
    LET id == call[c].id IN
    /\ call[c].pc = "revoke"
    /\ \/ Store!Revoke(id)
       \/ /\ id \in DOMAIN items => items[id].state = "used"
          /\ UNCHANGED store
    /\ Return(c, "errAudit")
    /\ UNCHANGED <<policy, secrets, ctxDone, job, codes, audit, ran, relaxed>>

\* ExecuteWait and ExecuteBatchWait block in Store.Wait.
EnterWait(c) ==
    /\ call[c].pc = "wait"
    /\ wait[c].pc = "idle"
    /\ Store!WaitSelect(c, call[c].id) \/ Store!WaitMissing(c, call[c].id)
    /\ UNCHANGED <<policy, secrets, ctxDone, call, job, codes, audit, ran, relaxed>>

InWait(c) ==
    /\ call[c].pc = "wait"
    /\ \/ Store!WaitStep(c)
       \/ ctxDone /\ Store!WaitCancelled(c)
    /\ UNCHANGED <<policy, secrets, ctxDone, call, job, codes, audit, ran, relaxed>>

Mutant_LeaveWait(c) ==
    /\ call[c].pc = "wait"
    /\ wait[c].pc = "returned"
    /\ IF wait[c].result # "denied"
       THEN call' = [call EXCEPT ![c].pc = "granted", ![c].approved = TRUE]
       ELSE Return(c, "denied")
    /\ UNCHANGED <<now, items, wait, issued, verdict, grants, policy, secrets, ctxDone, job, codes, audit, ran, relaxed>>

\* Wait returned: with a grant the call goes on, on the stored snapshot.
LeaveWait(c) ==
    LET snapshot == grants[call[c].id][Len(grants[call[c].id])].request IN
    /\ call[c].pc = "wait"
    /\ wait[c].pc = "returned"
    /\ IF wait[c].result = "granted"
       THEN call' = [call EXCEPT ![c].pc = "granted", ![c].approved = TRUE,
                                 ![c].targets = snapshot.targets, ![c].command = snapshot.command]
       ELSE Return(c, "denied")
    /\ UNCHANGED <<now, items, wait, issued, verdict, grants, policy, secrets, ctxDone, job, codes, audit, ran, relaxed>>

Mutant_ExecuteApproved(c, id) ==
    /\ call[c].pc = "idle"
    /\ "executeApproved" \in Kinds
    /\ ~ctxDone
    /\ id \in codes \cap DOMAIN items
    /\ \/ Store!Consume(id, Code)
       \/ items[id].state = "used" /\ UNCHANGED store
    /\ call' = [call EXCEPT ![c] = [IdleCall EXCEPT !.pc = "granted", !.kind = "executeApproved",
                    !.id = id, !.approved = TRUE, !.flagged = TRUE,
                    !.targets = issued[id].request.targets, !.command = issued[id].request.command]]
    /\ UNCHANGED <<policy, secrets, ctxDone, job, codes, audit, ran, relaxed>>

\* ExecuteApproved presents the code a client was given, or (NoCode) a wrong one,
\* and goes on with the stored snapshot.
ExecuteApproved(c, id) ==
    /\ call[c].pc = "idle"
    /\ "executeApproved" \in Kinds
    /\ \/ /\ ~ctxDone
          /\ id \in codes
          /\ Store!Consume(id, Code)
          /\ call' = [call EXCEPT ![c] = [IdleCall EXCEPT !.pc = "granted", !.kind = "executeApproved",
                          !.id = id, !.approved = TRUE, !.flagged = TRUE,
                          !.targets = items[id].request.targets, !.command = items[id].request.command]]
       \/ /\ \/ ~ctxDone /\ (Store!ConsumeExpired(id) \/ Store!ConsumeRefused(id, NoCode))
             \/ ctxDone /\ UNCHANGED store
          /\ call' = [call EXCEPT ![c] = [IdleCall EXCEPT !.pc = "returned", !.kind = "executeApproved",
                          !.result = "errApproval"]]
    /\ UNCHANGED <<policy, secrets, ctxDone, job, codes, audit, ran, relaxed>>

\* A granted single call looks its secret up again (the vault may have been
\* locked while it waited); a granted batch queues its jobs.
Granted(c) ==
    /\ call[c].pc = "granted"
    /\ \/ /\ IsBatch(c)
          /\ Goto(c, "jobs")
          /\ StartJobs(c, call[c].targets, "queued")
       \/ /\ ~IsBatch(c)
          /\ call[c].targets \subseteq secrets
          /\ Goto(c, "jobs")
          /\ StartJobs(c, call[c].targets, "ready")
       \/ /\ ~IsBatch(c)
          /\ ~(call[c].targets \subseteq secrets)
          /\ Return(c, "errValidation")
          /\ UNCHANGED job
    /\ UNCHANGED <<now, items, wait, issued, verdict, grants, policy, secrets, ctxDone, codes, audit, ran, relaxed>>

-----------------------------------------------------------------------------
(* executeRemote, once per target. *)

SetJob(c, a, state) == job' = [job EXCEPT ![c][a] = state]

Mutant_JobLookup(c, a) ==
    /\ call[c].pc = "jobs"
    /\ job[c][a] = "queued"
    /\ Cardinality({ b \in Aliases : job[c][b] \in {"ready", "cleared", "ran", "failed"} }) < Concurrency
    /\ SetJob(c, a, IF a \in secrets THEN "ready" ELSE "failed")
    /\ UNCHANGED <<now, items, wait, issued, verdict, grants, policy, secrets, ctxDone, call, codes, audit, ran, relaxed>>

\* A worker of the pool takes the next job and looks its secret up.
JobLookup(c, a) ==
    /\ call[c].pc = "jobs"
    /\ job[c][a] = "queued"
    /\ Cardinality({ b \in Aliases : job[c][b] \in {"ready", "cleared", "ran"} }) < Concurrency
    /\ SetJob(c, a, IF a \in secrets THEN "ready" ELSE "failed")
    /\ UNCHANGED <<now, items, wait, issued, verdict, grants, policy, secrets, ctxDone, call, codes, audit, ran, relaxed>>

Mutant_FailClosed(c) == AuditFailClosed

FailClosed(c) == AuditFailClosed \/ call[c].approved

\* The preflight record: when it cannot be written a fail-closed call stops.
Preflight(c, a) ==
    /\ call[c].pc = "jobs"
    /\ job[c][a] = "ready"
    /\ \/ /\ audit' = audit \cup {[ event |-> "preflight", call |-> c, alias |-> a, id |-> call[c].id ]}
          /\ SetJob(c, a, "cleared")
       \/ /\ SetJob(c, a, IF FailClosed(c) THEN "failed" ELSE "cleared")
          /\ UNCHANGED audit
    /\ UNCHANGED <<now, items, wait, issued, verdict, grants, policy, secrets, ctxDone, call, codes, ran, relaxed>>

\* The remote command is started and ends, one way or the other.
RunRemote(c, a) ==
    /\ call[c].pc = "jobs"
    /\ job[c][a] = "cleared"
    /\ ran' = [ran EXCEPT ![c][a] = @ + 1]
    /\ SetJob(c, a, "ran")
    /\ UNCHANGED <<now, items, wait, issued, verdict, grants, policy, secrets, ctxDone, call, codes, audit, relaxed>>

\* The final record; its failure is only a warning in the result.
FinalAudit(c, a) ==
    /\ call[c].pc = "jobs"
    /\ job[c][a] = "ran"
    /\ \E outcome \in {"done", "failed"} : SetJob(c, a, outcome)
    /\ \/ audit' = audit \cup {[ event |-> "final", call |-> c, alias |-> a, id |-> call[c].id ]}
       \/ UNCHANGED audit
    /\ UNCHANGED <<now, items, wait, issued, verdict, grants, policy, secrets, ctxDone, call, codes, ran, relaxed>>

Mutant_Finish(c) ==
    /\ call[c].pc = "jobs"
    /\ \A a \in Aliases : job[c][a] # "queued"
    /\ Return(c, IF \E a \in Aliases : job[c][a] = "failed" THEN "failed" ELSE "completed")
    /\ UNCHANGED <<now, items, wait, issued, verdict, grants, policy, secrets, ctxDone, job, codes, audit, ran, relaxed>>

\* All workers are done: the batch is completed if every target is.
Finish(c) ==
    /\ call[c].pc = "jobs"
    /\ \A a \in Aliases : job[c][a] \in {"none", "done", "failed"}
    /\ Return(c, IF \E a \in Aliases : job[c][a] = "failed" THEN "failed" ELSE "completed")
    /\ UNCHANGED <<now, items, wait, issued, verdict, grants, policy, secrets, ctxDone, job, codes, audit, ran, relaxed>>

-----------------------------------------------------------------------------
(* What happens around the calls. *)

\* approval_decide and approval_list.
DecideApproval(id) ==
    /\ \/ \E decision \in {"approved", "denied"} : Store!Decide(id, decision)
       \/ Store!DecideExpired(id)
    /\ UNCHANGED <<policy, secrets, ctxDone, call, job, codes, audit, ran, relaxed>>

ListApprovals ==
    /\ Store!List
    /\ UNCHANGED <<policy, secrets, ctxDone, call, job, codes, audit, ran, relaxed>>

\* UpdateSettings replaces the policy under the write lock.
UpdateSettings(new) ==
    /\ policy' = new
    /\ relaxed' = IF new = "enforce" THEN relaxed ELSE relaxed \cup { c \in Calls : Active(c) }
    /\ UNCHANGED <<now, items, wait, issued, verdict, grants, secrets, ctxDone, call, job, codes, audit, ran>>

\* Lock clears the secrets, Unlock replaces them, Stop clears them and cancels
\* the context of every handler.
LockSecrets ==
    /\ secrets' = {}
    /\ UNCHANGED <<now, items, wait, issued, verdict, grants, policy, ctxDone, call, job, codes, audit, ran, relaxed>>

UnlockSecrets ==
    /\ secrets' = Aliases
    /\ UNCHANGED <<now, items, wait, issued, verdict, grants, policy, ctxDone, call, job, codes, audit, ran, relaxed>>

Stop ==
    /\ ctxDone' = TRUE
    /\ secrets' = {}
    /\ UNCHANGED <<now, items, wait, issued, verdict, grants, policy, call, job, codes, audit, ran, relaxed>>

Tick ==
    /\ Store!Tick
    /\ UNCHANGED <<policy, secrets, ctxDone, call, job, codes, audit, ran, relaxed>>

-----------------------------------------------------------------------------
\* What a call does by itself once it has begun.
Step(c) ==
    \/ Lookup(c) \/ Settings(c) \/ Screen(c) \/ BatchSettings(c)
    \/ CreateFails(c) \/ \E id \in Ids : CreateApproval(c, id)
    \/ AuditCreated(c) \/ AuditCreatedFails(c) \/ RevokeUnaudited(c)
    \/ EnterWait(c) \/ InWait(c) \/ LeaveWait(c) \/ Granted(c)
    \/ \E a \in Aliases : JobLookup(c, a) \/ Preflight(c, a) \/ RunRemote(c, a) \/ FinalAudit(c, a)
    \/ Finish(c)

Next ==
    \/ \E c \in Calls : BeginExecute(c) \/ BeginBatch(c) \/ Step(c)
    \/ \E c \in Calls, id \in Ids : ExecuteApproved(c, id)
    \/ \E id \in Ids : DecideApproval(id)
    \/ \E new \in Policies : UpdateSettings(new)
    \/ ListApprovals \/ LockSecrets \/ UnlockSecrets \/ Stop \/ Tick

Spec == Init /\ [][Next]_vars

\* Goroutines are scheduled, remote commands end (they carry a timeout), and
\* time passes; clients, users and administrators owe nothing.
FairSpec == Spec /\ WF_vars(Tick) /\ \A c \in Calls : WF_vars(Step(c))

-----------------------------------------------------------------------------
(* Correctness. *)

AuditRecord == [ event : {"created", "preflight", "final"}, call : Calls,
                 alias : Aliases \cup {Blank}, id : Ids \cup {NoId} ]

TypeOK ==
    /\ Store!TypeOK
    /\ policy \in Policies \cup {"enforce"}
    /\ secrets \in {{}, Aliases}
    /\ ctxDone \in BOOLEAN
    /\ call \in [Calls -> CallState]
    /\ job \in [Calls -> [Aliases -> JobState]]
    /\ codes \subseteq Ids
    /\ audit \subseteq AuditRecord
    /\ ran \in [Calls -> [Aliases -> Nat]]
    /\ relaxed \subseteq Calls

Ran(c) == { a \in Aliases : ran[c][a] > 0 }

\* A command the analyzer flags runs only on an approval that was granted, unless
\* the policy was warn or off at some instant of the call: an update of the
\* policy between the two reads of ExecuteBatch opens no other window.
RiskyNeedsGrant ==
    \A c \in Calls :
        call[c].command \in Risky /\ Ran(c) # {} =>
            \/ call[c].id # NoId /\ grants[call[c].id] # <<>>
            \/ c \in relaxed

\* "Approvals [...] are consumed once, and are bound to the original aliases,
\* command": whatever calls compete for an approval, its command runs on each of
\* its targets at most once in all, and nothing else runs on its strength.
ApprovalRunsOnce ==
    \A id \in DOMAIN issued :
        LET holders == { c \in Calls : call[c].id = id /\ Ran(c) # {} } IN
        /\ Cardinality(holders) <= 1
        /\ \A c \in holders :
              /\ call[c].command = issued[id].request.command
              /\ Ran(c) \subseteq issued[id].request.targets
              /\ \A a \in Aliases : ran[c][a] <= 1

\* No remote effect without a trace: an approved command, and with the default
\* settings every command, has its preflight record in the log before it runs.
RunIsAudited ==
    \A c \in Calls : \A a \in Ran(c) :
        AuditFailClosed \/ call[c].approved =>
            [ event |-> "preflight", call |-> c, alias |-> a, id |-> call[c].id ] \in audit

\* The approval of a single command whose creation could not be audited is dead:
\* nobody is granted it, even if a user approved it in the meantime, and once the
\* call has returned it is no longer listed.
UnauditedApprovalDead ==
    \A c \in Calls :
        LET id == call[c].id IN
        call[c].kind \in {"execute", "executeWait"} /\ id # NoId =>
            \/ [ event |-> "created", call |-> c, alias |-> Blank, id |-> id ] \in audit
            \/ /\ grants[id] = <<>>
               /\ call[c].pc = "returned" => id \notin DOMAIN items

\* What the client is told is what happened: a completed call ran its command on
\* every target, and a call that was refused ran it nowhere.
ResultTruthful ==
    \A c \in Calls :
        /\ call[c].result = "completed" => Ran(c) = call[c].targets
        /\ call[c].result \in {"requiresApproval", "denied", "errValidation", "errApproval", "errAudit"}
              => Ran(c) = {}

\* Every request is answered, also when its approval is never decided, when its
\* secrets disappear, and when a batch has more targets than workers.
CallReturns == \A c \in Calls : Active(c) ~> call[c].pc = "returned"

=============================================================================
