# aegis-ssh: a TLA+ verification project

aegis-ssh lets an agent run commands on SSH servers without ever seeing the
credentials. A local daemon (the *broker*) holds the decrypted vault in memory,
listens on a private Unix socket, analyses each command, asks the local user to
approve the risky ones, runs the command over SSH, redacts its output and keeps an
audit log. This directory holds TLA+ models of the parts of that program that have
state, TLC configurations that check them, and TLAPS proofs.

`PROJECT.json` lists the components, the runs, the source lines behind every
definition (`map`), the hazards the properties are aimed at, the findings and the
theorems.

## 1. Inventory

| Part | State | Operations | Works with |
|---|---|---|---|
| Approval store (`approval/store.go`) | map of pending, decided and used approvals; a done channel for each | Create, CreateBatch, List, Decide, Wait, Consume, Revoke | called by the broker from many goroutines |
| Broker service (`broker/service.go`) | policy, vault state, settings; locals of every call | Execute, ExecuteWait, ExecuteApproved, ExecuteBatch, ExecuteBatchWait, decisions, settings | approval store, audit log, secrets, SSH client |
| Audit log (`audit/logger.go`) | `audit.jsonl`, its backups, staging files of a rotation | start with recovery, Write (append or rotate) | called by the broker before and after each remote command |
| Daemon and socket server (`broker/server.go`, `app/app.go`) | socket path and its lock, listener, connections and slots, context, in-memory secrets, settings, configuration file | start, accept, handle, lock, unlock, stop, configure, shutdown | clients over the socket; broker; SSH cache |
| SSH client (`sshclient/client.go`) | cache of connections, generation | Execute, getClient, evict, Close | broker (commands), daemon (lock and stop close it) |
| Vault and configuration storage (`vault`, `config`) | encrypted vault, recovery vault, YAML configuration | Initialize, Load, Save (atomic replacement) | CLI commands, daemon |
| CLI commands (`app`) | the files above, a lifecycle lock | init, server add/edit/remove, recovery, config, start/stop/lock/unlock, exec | storage when the daemon is down, socket when it is up |
| Output limits and framing (`broker/server.go`, `sshclient/client.go`) | a shared output budget | cut, escape and frame results | server, SSH client |
| Output redactor (`policy/redactor.go`) | placeholders of a text; buffer and URL state of a stream | RedactString; Write and Close of a stream | broker |
| Policy analyzer (`policy/analyzer*.go`) | none | classify a command | broker |
| MCP server, broker client | none | translate calls | daemon |
| Operations log, agent integration, prompts, messages, installer | text files | - | - |

What is hard in this code, and therefore what the models are for:

* **Concurrency.** Every connection is a goroutine. Code holders, waiters, the
  timer and the sweep compete for one approval; two commands dial the same server;
  lock, unlock, stop and configure run beside each other and beside commands.
* **Lock released in the middle.** `Wait` blocks without the mutex, `getClient`
  dials without it, `Execute` reads secrets and settings at several instants, the
  configuration is loaded and saved in two steps.
* **Failure.** Any audit write may fail, before or after its effect; a rotation is
  up to a dozen directory operations that can each fail or be the last before a
  crash; connections break under those that share them; a killed daemon leaves its
  socket behind.
* **Time.** Approvals expire, waits time out, commands time out, connections idle
  away; each may race with the event it limits.

* **Limits.** Output is cut in three places (budget, growth by markers, frame), and a
  secret or a character may lie across each cut.

The properties that make each part correct are given with the runs below.

## 2. Modules

| Module | Models | Notes |
|---|---|---|
| `ApprovalLifecycle` | what callers may rely on: unknown, open, then granted or closed for ever | abstract specification |
| `ApprovalStore` | `approval/store.go` | one action per method; `Wait` split where it releases the mutex |
| `ApprovalStoreProofs` | | proofs |
| `Broker` | `broker/service.go` | one process per call, split at every lock, audit write, block and remote command; instantiates `ApprovalStore` |
| `BrokerProofs` | | proofs; instantiates `ApprovalStoreProofs` |
| `AuditLog` | a log that changes by whole events | abstract specification |
| `AuditRotation` | `audit/logger.go` | directory and inodes, syncs, failures at every call, crash, power loss |
| `AuditRotationProofs` | | proofs |
| `SSHCache` | `sshclient/client.go` | calls, their watcher goroutines, idle time, `Close` |
| `SSHCacheProofs` | | proofs |
| `Daemon` | `broker/server.go`, the closures of `App.daemon` | handlers, context, shutdown, lock, unlock, stop, configure |
| `DaemonProofs` | | proofs |
| `Socket` | start and end of `Server.Serve`, `App.daemon`, `start`, `app/lifecycle.go` | one step per system call; inode numbers that are reused; crashes |
| `SocketProofs` | | proofs |
| `Redactor` | `policy/redactor.go` | operators: the passes of `RedactString`, the steps of `StreamRedactor` |
| `Framing` | `marshalResult` and below in `broker/server.go` | operators |
| `Output` | `boundedWriter`, redaction in `executeRemote`, framing | state machine over the two modules above |
| `OutputProofs` | | proofs |
| `Storage` | the commands of `app/app.go` and `app/commands.go` that change files; `vault/store.go`, `config/config.go`, `app/lifecycle.go` | every save can fail, every command can be killed; two terminals |
| `StorageProofs` | | proofs |
| `MC*` | | the instances TLC checks |

An operator `Mutant_X` stands before the definition X it imitates and is that
definition with one plausible bug. No specification uses it; replacing X by it
must break the property it is listed with in `PROJECT.json`, which shows that the
property is sensitive to the code.

### How state and actions correspond to the code

**ApprovalStore.** `items` is `Store.items`. The code's pair (decision, used)
takes four values, which are the four states of a record. `wait[w]` holds the
locals of one `Wait` call; its program counter says whether it is in the `select`,
was woken by the done channel, or by the timer. Channels are not separate state: a
done channel is closed exactly when `verdict` is set. Aliases, command and limits
of an approval are one element of `Requests`. `issued`, `verdict` and `grants`
are history. Identifiers are 128-bit random numbers and are never reused.

**Broker.** `call[c]` holds the locals of a call, `job[c][a]` the progress of
`executeRemote` for one target. The analyzer is a fixed partition of the commands,
an audit write either adds its record or fails, the SSH execution is one step with
either outcome. `BeginExecute`, `Settings`, `Screen`, `CreateApproval`,
`AuditCreated`, `RevokeUnaudited`, `EnterWait`, `LeaveWait`, `Granted`, `Preflight`,
`RunRemote`, `FinalAudit` and `Finish` are the segments of the handlers in
execution order; the store's own steps are those of `ApprovalStore`.

**AuditRotation.** `dir` maps names to inodes and `data` gives each inode its lines
and how many of them are on disk. The directory operations of `prepareRotation`,
`applyRotation`, `rollbackRotation`, `recoverRotation` and
`cleanupRotationStaging` are lists (`PrepareOps`, `ApplyOps`, ...) that `DoOp` and
`Sync` go through one at a time, each with its failing alternative. `unsynced` is
the set of directories a power loss may leave: the last synced one and every later
one. Lines not synced may be lost from some line on, which may be torn. `rename` of
two links to one file leaves both, as POSIX says. Sizes are counted in events.

**SSHCache.** A call dials at most once, so a connection is named by the call that
dials it. Two goroutines are processes of their own. The one `handshake` starts closes
the connection when the connect context ends; that context also ends when `getClient`
returns, and a goroutine that is scheduled late then finds both its channels ready, of
which Go picks either: it may close a connection that is in use, or cached.
`handshaker[c]` is its state, `HandshakeCloses` and `HandshakeEnds` its two ways out. The
watcher of `Execute` may start late too and picks likewise. A connection may break at
any time: every use of it has a failing alternative.

**Daemon.** A handler is a slot of the server. Lock, unlock, stop and configure are
split at each access to shared state. `Execute` stands for all other requests,
which end at any time and are sure to end only when the context is cancelled. The
loop of `Serve` checks the context, registers the connection in a separate step,
and on leaving cancels its context before `shutdown` waits, as the order of its
deferred calls makes it do.

**Socket.** `path` is the inode the socket path names, `listener[d]` the one an open
listener is bound to, so that a connection succeeds when the two meet. A file is
known to the code only by `os.SameFile`, that is by its inode number, and a number is
free again when no path and no open listener has it. `guarded` tells daemons of the
program, which hold the lifecycle lock from before their start until after their
end, from bare `broker.Server` values, as the package's tests start them. Every check
of owner, type and mode is folded into `CallFails`. A `daemon` in the foreground
("launched") takes the lifecycle lock and then asks for the password: it stays at the
prompt as long as the user likes (`Unlock` has no fairness) or fails there. The daemon
that `start` spawns does not ask. The three seconds of `start` may pass at any moment,
`Poll`; what the command prints is the same whether a daemon is still starting or not,
and the model's `said` tells "late" from "unavailable" only for the properties. `raced`,
`leftover` and `excuse` are history.

**Redactor, Framing, Output.** A text is a sequence of byte classes, listed at the
head of `Redactor`; a URL scheme and a key such as `password=` are one byte, which no
limit cuts. Bytes carry their position in the input, so that the properties can say
which of them are shown. A regular expression is the set of intervals it matches;
`Protect` replaces them, consumes the placeholders inside and keeps the counts as the
code does. The IP category is taken as allowed. `JsonSize` gives the escaped size of a
byte, and `FieldBytes` and `FlagBytes` are the real sizes; of everything else in a
response only the total counts. `StreamRedactor` has no caller in the daemon yet; it
is checked next to the pipeline. In the pipeline the redactor gets text that the SSH
client has already cut at the same limit, so its own limit and lookahead never come
into play there, only the growth of a text by its markers: `CredentialHidden` speaks
of the text the redactor is given (see section 5). `UrlAuthorityAtBoundary` stands for
both forms of that test in the code, the regular expression over a string and the loop
over bytes; they differ only in letters that Unicode folds to ASCII ones. `Collect` is a
command that completes; the partial output of one that times out or breaks
(`sshclient/client.go:120`) goes the same way and is not modelled.

**Storage.** `config`, `vault` and `recovery` are the three files; each is replaced
atomically. `proc[p]` holds the locals of the command a terminal runs, its program
counter stands before the next load or save. The configuration is abstracted to its
aliases, the credentials of a server to the number of the change that wrote them, so
that a lost update shows. `saveConfigVerified` and `saveVaultVerified` read a file
again after an error; they fail with the file unchanged, or with the file replaced
and unreadable for the moment, and both are alternatives of the failing action.
`promised`, `failed`, `broken`, `unfinished`, `restored` and `overlap` are history: what
the user was told, and what went wrong so far. `broken` is a kill or a second failure
(of an undo, or of the second look at a file); one failure of a `reset` after its first
rename, or of an `init` after the vault was published, is not undone by the code and
sets `unfinished` (`Abandon`). A wrong password or an answer that is refused
changes nothing and is left out.

## 3. Runs

| Run | Instance | Shows |
|---|---|---|
| `approval_store` | 2 identifiers, 2 requests, 1 code, 2 waiters, capacity 1, TTL 1, clock to 2, fair | an approval is handed out once, for the request it was made for, when authorised in time; waiters are told the verdict; a used record stays until its deadline; a decision never changes; the capacity holds; every `Wait` returns; the store implements `ApprovalLifecycle` |
| `approval_denied` | as above | **finding**: a denied approval is handed out to the holder of its code |
| `broker_calls` | 3 calls on 1 server, audit fail-open | a command runs once per approval and on its snapshot; approved commands have a preflight record; an approval whose creation was not audited is dead |
| `broker_batch` | 1 call, 2 servers, 1 worker, all policies, audit fail-closed, fair | a flagged command needs a grant while `enforce` holds; results are truthful; every call returns |
| `audit_rotation` | 2 backups, files of 2 events, 3 writes on up to 2 full files | recovery is always possible and leaves nothing behind; no record is glued to a torn one; the logger implements `AuditLog` |
| `ssh_cache` | 3 calls to 1 server, 2 dials, 1 `Close`, 1 call past its timeout at a time, 1 late goroutine of a handshake | no connection leaks; a closed connection is cached only until somebody about to evict it does, or until the next use of one that a handshake's goroutine has closed; none from before `Close` is cached after it |
| `daemon` | 2 slots, 5 methods, 1 setting, fair | operations that do not overlap leave a true status and equal settings; the process ends after stop, signal or a broken listener, with no request in progress and no credentials |
| `daemon_lock` | lock and unlock | **finding**: status locked with credentials in memory |
| `socket` | 2 daemons at a time, 2 terminals, 2 inode numbers, 4 starts, fair | the socket path leads to the daemon that serves; a daemon that ends clears it; a `start` that nothing disturbs brings up a daemon, unless another waits at its prompt, and when it gives up with no daemon starting any more something has disturbed it |
| `output` | all texts of up to 4 bytes, URLs of up to 7, pairs of up to 3 bytes; limits 2 to 4, lookahead 1 | a stream redactor agrees with `RedactString` in every chunking; URL credentials are hidden at the limit; counts are those of the markers; a response fits its frame and shares it fairly; a result not marked truncated is complete |
| `storage` | 2 terminals, 2 servers, 6 commands, 3 server changes, 1 recovery key | vault and configuration list the same servers while no command is killed or fails twice, except for a vault without configuration after a `reset` or `init` that failed half-way; no server that was reported is lost, whatever fails or is killed |
| `storage_recovery` | as above, 5 commands | **finding**: a recovery code without a recovery vault |

**Why these bounds.** Races here are between two parties over one thing (two
waiters, a waiter and a code holder, two dialling calls, two handlers), and a third
that finds what they left: two or three processes reach all of them. The clock goes
past one TTL, so that every expiry happens before, at and after each other event. A
capacity of 1 makes the store full with a single live record; the theorems below
cover more approvals and longer times. Two backups are the
least with a move from one backup to another; three writes on top of two full
files make two rotations with an append between them, and the second rotation drops
the oldest file. One worker and two targets make a batch queue. One `Close`
separates two generations; two dials make two connections that compete for the place in
the cache, of which one may be closed late by its handshake, and a third call meets
what they left. Two daemons with two inode numbers let a number return
while its old owner still ends; four starts leave room for a crash, a stop and two
starts at a time. With a limit of 2 or 3 and a lookahead of 1 a text of 7 bytes has
room for a scheme, a user, a colon, a password and an `@` with the limit and the end
of the lookahead at any place; a marker of 2 bytes makes a text grow or shrink; a
command keeps up to 4 bytes of up to 6 bytes each in JSON, 24 in all, where the frame
has room for 19 (one stream) or 7 (two). Six commands are enough for `init`, `recovery enable`, two
server changes, a failing one and a `restore` or `reset` after it.

**Fairness.** Goroutines are scheduled (weak fairness of every step of a call,
waiter or handler), and the clock advances. Users need not decide, clients need
not connect, nobody need start or stop a daemon or enter its password, nothing need fail,
and the deadline of `start` is before or after anything else. A handler's read ends because of its deadline.
An `execute` request is assumed to end only when the context is cancelled.
Deadlock is checked except in `daemon`, which ends by exiting, in `ssh_cache`, whose
calls all return, in `storage` and `socket`, whose commands are bounded, and in `output`, which ends
with a response.

## 4. Proofs

Every theorem holds for every value of the constants its module's assumptions allow:
any number of identifiers, calls, servers, handlers, daemons, terminals, backups and
bytes. The bounds of the runs above play no part in them. Each proof module has one
inductive invariant `IInv` (`AuditRotationProofs` has a second one, `RInv`, for its
refinement); TLC checked it on the instance of the run before it was
proved, `Invariance` (`StoreInvariant`) proves it, and the properties follow from it.

**`ApprovalStoreProofs`** (`StoreAssumption`: the special values are distinct, the
numbers are natural). The properties speak about what was handed out; that follows
only from what the map knows about an identifier *while its record is there*
(`ItemInv`: no grant before the record is used or deleted, the deadline and request of
the record are the issued ones, state and verdict agree) and from what a `Wait` call
remembers *while the mutex is released* (`WaitInv`). `FreshInv` says that identifiers
not yet issued have no history. `TypeCorrect`, `SingleUseCorrect`, `GrantCorrect`,
`GrantInTime`, `WaitCorrect`, `ReplayDistinguishable` follow; `DecisionIsFinal` is an
action property; `CapacityCorrect` has an induction of its own over finite sets;
`StoreImplementsLifecycle` is the refinement of `ApprovalLifecycle`.

**`BrokerProofs`** (`StoreParameters`, with the store's assumption for the broker's
parameters). The invariant is that of the store, taken over by instantiating
`ApprovalStoreProofs`, and `CallInv` for the pipeline above it: where an approval may
be held and by which one call (`HolderInv`), how often each job has run (`JobInv`), that
a fail-closed job passes the preflight only with its record (`AuditInv`), that an
approval not yet audited is known to its creator alone (`CreatedInv`), and which calls
have seen a relaxed policy (`RelaxInv`). From these: `ApprovedRunsOnce`,
`RunsAreAudited`, `UnauditedIsDead`, `RiskyIsGranted`, `ResultIsTruthful`,
`TypeCorrect`.

**`AuditRotationProofs`** (`AuditAssumption`). A rotation is a list of directory
operations that depends on the directory and on the number of backups, so the proof
has two layers. The lemmas about lists (`FlattenIs` to `ApplyIs`) say of which
operations a phase's list consists and how it ends, by induction over the list: the
library's least-element theorem `WFMin` is first-order and gives `SetInduction`, and the
function behind `FlattenSeq` is constructed, not assumed. Above them: `Good` says what
recovery can deal with (nothing staged without the marker; a proof is the staged file,
or the log once that is gone), and `DirInv` that *every* directory a power loss may
leave is good; `PhaseInv` relates what is left to do to what is there, and in
particular says that a recovery still has every staged name on its list.
`RecoveryIsPossible` and `NothingIsLeft` follow. `FileInv` says that a torn line is the
last one of its file and that the file about to be written to does not end with one;
`NoRecordIsGlued` follows.

The refinement of `AuditLog` needs a second invariant, `RInv`, because what a reader of
the files sees depends on every directory that a power loss may leave, not on the one in
the cache. Its parts: `SlotInv` (each such directory is well typed, and no inode is in two
of its slots), `SyncInv` (how far the synced directory lags behind, by phase), `StageInv`
(`Mirrors`, `Shifts` and `Restores` relate the staged links to the logs and to the
operations that are left), `CommitInv` (the new file is none of the logs before the
commit), `FormInv` (a file holds events that were written, in order, and its confirmed
durable events are synced), `TurnInv` (the event in progress is the newest) and
`RotationInv` (the file meant for it holds it alone). TLC checked `RInv` with 0, 1 and 2
backups before `RotationInvariance` proved it. `LogIsImplemented` then goes through the
steps: the rename that commits is `Rotate`, the directory sync behind it `Settle`, the end
of the cleanup `Confirm`, a write to the open file `AppendEvent`, a power loss `PowerLoss`,
and every other step leaves what can be read, now or after a power loss, as it is.
`TypeCorrect` rests on `RInv` too: it gives the count of inodes in use that leaves a free
one for the next file.

**`SSHCacheProofs`**: `TypeCorrect`, `NothingLeaks`, `NothingDead`, `NothingOld`. The
strengthening: calls before the end of `getClient` use nothing and are used by nobody
(`UsingInv`), a cached connection belongs to its key and to the current generation
(`CachedInv`), whatever is being evicted is closed already (`EvictInv`: without it an
eviction could lose an open connection), a freshly dialled connection is open unless
the goroutine of its handshake has closed it (`DialledInv`, `HandshakeInv`), and a call
that could not open a session has seen its connection closed (`FailedInv`).

**`DaemonProofs`**: `TypeCorrect`, `StatusIsTrue`, `SettingsDoAgree`, `ExitsClean`. As
long as no overlap was recorded one handler at a time is on the vault state
(`VaultInv`) or on the file (`FileInv`), and it finds there what it has read or
written; `AcceptedInv` says that the loop of `Serve` holds at most one connection that is
not registered, which is what makes the exit clean.

**`SocketProofs`**: `TypeCorrect`, `PathIsServed`, `PathIsCleared`, `StartIsTruthful`. The
locks are held exactly between taking and releasing them (`StartupInv`,
`LifecycleInv`), one daemon at a time is past the check that the path is free and the
path names its socket from bind on (`SoleInv`, `FoundInv`), a path that is not left over
has a daemon that will unlink it and knows it by its inode (`ClearedInv`), and a start
that nothing has disturbed finds a daemon starting, at its prompt, or serving
(`UndisturbedInv`), whenever its deadline passes.

**`StorageProofs`** (`NoneAssumption`: `None` is no file, lock holder or key):
`TypeCorrect`, `FilesAgree`, `ServersAreKept`. Without an overlap one command runs at a
time (`SoleInv`) and what it has read is still what the files hold (`FreshInv`); the files
agree except in the middle of a command that will make them agree, or after one that was
abandoned, which leaves no configuration to disagree (`AgreeInv`, `Abandons`); and
unless a command has failed the recovery vault mirrors the vault (`MirrorInv`), without
which a `restore` could bring an older server back.

**`OutputProofs`** (the assumptions of `Redactor`, `Framing` and `Output`: sizes are
natural numbers, texts are sequences of bytes): `FramesFit`, `TruncationIsReported`,
`StreamsAgree`, `CountsAreRight`, `CredentialsAreHidden` and `SharesAreFair`, for output
of any length.

- `BufferInv` says that the two buffers hold all that was written unless the budget says
  otherwise, in every order of the writes. The cut is proved from the sizes alone: the
  sum over the characters of a text is a number (`SumIs` constructs the function behind
  `SumFunction`), a prefix fits its budget (`PrefixFits`), the two budgets and the field
  names fit what is available (`OutputFits`), and each attempt of a batch either keeps a
  result or marks it (`BatchFits`). None of this uses what the redactor hides.
- `StreamsAgree` rests on an invariant of its own, `StreamInv`: after every `Write` the
  `StreamRedactor` holds the first bytes of what was written, up to its lookahead, and
  its search has the state that one pass over the whole text up to here would have
  (`Tracks`, `Seen`). `SeenStep` and `SeenRun` say that this is kept by
  `observeURLAuthorityByte`, over a chunk of any length (`ObservesIs` constructs the
  function behind the fold), and `ClosedIs` that at `Close` the kept bytes and that
  state give the answer of `RedactString`.
- What the redactor computes is proved pass by pass with an invariant of its state,
  `Redacting`: its text is `Sound` (no character is torn, and neighbours that come from
  the input are neighbours there), every placeholder has an entry, and the counts are
  the numbers of active placeholders in the text. `ProtectKeeps` shows that a pass keeps
  it when its intervals start at different places and tear no character, which
  `UrlsMatch`, `IncompleteMatch`, `AssignmentsMatch` and `TrailingMatches` show of the
  four passes; `FlattenLays` and its corollaries say where the pieces of a concatenation
  come to lie. `RenderMarks` then gives `CountsAreRight`.
- `CredentialsAreHidden` follows the positions of a credential through the passes. A pass
  brings nothing back (`ProtectHides`), and a credential that ends before the limit is
  hidden by the first one (`UrlsHide`). Of one that the limit cuts the authority stays at
  the end of the text (`Tailed`, `UrlsKeepTail`): if its colon is before the limit,
  `incompleteURLRE` finds it (`CutHidesTail`); if not, `urlCredentialAfterBoundary` sees
  it (`AcrossSeen`), the prefix is that authority (`PrefixHolds`), and
  `protectTrailingCredentialPrefix` hides it (`TrailingHidesTail`). `BoundedHides` says
  that rendering and the final cut show nothing else.
- `SharesAreFair` needs that text to be of whole characters (`RenderIsTidy`,
  `TruncateIsTidy`), because `jsonPrefix` counts a character and not its bytes
  (`PrefixIsLongest`, for which a sum is split at any place, `SumSplit`). The rest is the
  arithmetic of `fitExecuteOutput` (`RoomIsShared`).

**Only model-checked**: all liveness (`WaitReturns`, `CallReturns`, `StopEnds`,
`StartServes`), which is out of the prover's reach. Every safety property that a passing
run checks has a theorem.

## 5. Findings

1. *A denial does not revoke the code* (`approval_denied`, `approval/store.go:254`):
   `Consume` looks at `used` and the code, never at the decision.
2. *Lock and unlock are not atomic to each other* (`daemon_lock`, `app/app.go:1077`):
   an unlock that runs between the two steps of a lock leaves credentials in memory
   and the status "locked".
3. *A recovery code that opens nothing* (`storage_recovery`, `app/commands.go:93`):
   when `recovery enable` has saved the key and fails to save the recovery vault, the
   next `recovery enable` prints the code and does not write the recovery vault.

More observations, which have no run of their own:

* The configure closure (`app/app.go:594`) loads, changes and saves the file without a
  lock: of two overlapping changes of different settings the later save writes the
  old value of the other one back, and both clients are told it was updated.
  `SettingsAgree` therefore excludes overlaps (`fileRaced`).
* A bare `broker.Server` compares the socket by its inode number and removes it in a
  second step (`broker/server.go:666`): a server that starts meanwhile can lose its
  socket. `PathServed` shows that the lifecycle lock of `App.daemon` excludes this,
  and claims nothing for servers without it once an end has overlapped with a start.

* The goroutine of `handshake` (`sshclient/client.go:284`) may close a connection after
  its handshake succeeded, when it first runs after `getClient` has returned. The
  connection may then be cached, and the next command to that server fails once and
  evicts it. `NoDeadEntry` excepts exactly such connections, until they are used.
* `stop` is answered before the daemon has ended (`broker/server.go:174`), and a `daemon`
  in the foreground holds the lifecycle lock while it asks for the password
  (`app/app.go:660`). The daemon that a `start` spawns meanwhile finds the lock held and
  exits, and `start` reports after three seconds that the daemon is unavailable.
* For commands the SSH client cuts the output at its budget (`sshclient/client.go:329`)
  and the redactor is given the rest as if it were all: a credential in a URL that the cut
  separates from its `@` is not recognised. The lookahead that `CredentialHidden` shows to
  catch this in a stream is not used there.

The properties `StatusTrue` and `SettingsAgree` say what remains true: without an
overlap the status and the settings are right. `AliasesAgree` and `ServersKept` claim
nothing after an overlap with a command that takes no lifecycle lock (`config set`
and the recovery commands), nor after a `restore` that follows a failure: the
recovery vault may then be older than the vault.

## 6. Not modelled, and why

The policy analyzer is text classification; the broker's properties hold for any
classification. Of the redactor the patterns of private keys, bearer tokens, access
keys and IP addresses are left out, with the rules for an address across the limit,
which depend on single digits; `CredentialHidden` is for ASCII text, because a
character cut by the limit changes the bytes the code compares. The MCP server and the broker client are
stateless. `config set` without a daemon and the recovery commands check for a daemon
but take no lifecycle lock, and no document says they may run beside one: `Storage`
has the overlaps and claims nothing after them. The operations log is best effort and its errors are ignored by design.
Prompts, translations and installer scripts are terminal and
file I/O without protocol. `agent configure` rewrites the files of other programs and
a Skill directory, beside everything the daemon and the vault rely on: it shares no
state with the models here. Of the audit logger the JSON encoding, the permission
checks and the removal of surplus backups at start are left out. Of the storage the
encryption, parsing, permission checks and power loss are left out. SSH and the file
system are external and modelled by what the code can observe of them.

## 7. Plan

Done, in the order of importance: approval store, broker, audit log, daemon,
connection cache, storage, socket, output. Next:

1. *Daemon with cache*: commands that read their secret before a lock.
2. *Audit log*: removal of surplus backups at start.
3. *Agent integration*: the two renames of `materializeSkill` and the second read of
   `writeFileAtomicWithBackup`, with kills, failures and a client that edits its file.
