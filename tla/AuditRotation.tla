--------------------------- MODULE AuditRotation ---------------------------
(***************************************************************************)
(* The audit logger (internal/audit/logger.go) on a file system that can   *)
(* fail at every call and lose power at every instant.                     *)
(*                                                                         *)
(* A write appends to audit.jsonl, or rotates: it stages hard links to the *)
(* files it is about to replace, a new file that holds the event, and a    *)
(* second link to it as a proof; it replaces the backups one by one; the   *)
(* rename of the new file over audit.jsonl commits; then the staging is    *)
(* removed, the marker last.  Every write and every start first recovers   *)
(* what an interrupted rotation left behind.                               *)
(*                                                                         *)
(* The directory maps names to inodes.  Each change of it is followed by a *)
(* sync of the directory; until that succeeds a power loss may leave any   *)
(* of the directories since the last sync.  One write is in progress at a  *)
(* time (Logger.mu and the flock).  An event is a number, its line and the *)
(* file size are counted in events, and Torn is an incomplete line.        *)
(***************************************************************************)
EXTENDS Naturals, Sequences, FiniteSets, SequencesExt

CONSTANTS
    Backups,     \* Options.Backups
    MaxLines,    \* Options.MaxBytes, counted in events
    MaxEvents,   \* bound of the model: the events written, those of earlier runs too
    Durable,     \* the events that ask for a sync (RequireSync)
    Torn         \* an incomplete line

ASSUME AuditAssumption ==
    /\ Backups \in Nat
    /\ MaxLines \in Nat \ {0}
    /\ MaxEvents \in Nat /\ MaxEvents >= Backups * MaxLines
    /\ Durable \subseteq 1..MaxEvents
    /\ Torn \notin Nat

Events == 1..MaxEvents
Starting == 0                     \* the "event" of initializeLocked

Log(i)     == <<"log", i>>        \* canonicalPath
Source(i)  == <<"source", i>>     \* rotationSourcePath
Missing(i) == <<"missing", i>>    \* rotationMissingPath
Work(i)    == <<"work", i>>       \* rotationWorkPath
New        == <<"new", 0>>        \* rotationNewPath
Proof      == <<"proof", 0>>      \* rotationProofPath
Marker     == <<"marker", 0>>     \* rotationMarkerPath

Names == {"log", "source", "missing", "work"} \X (0..Backups) \cup {New, Proof, Marker}

Metadata == 0                     \* the inode of an empty marker file
Inodes == 1..(Backups + 4)

VARIABLES
    dir,        \* the directory: a function from names to inodes
    data,       \* the lines of each inode and how many of them are on disk
    unsynced,   \* the directories a power loss may leave
    syncPending,\* Logger.dirSyncPending
    pc,         \* where the operation in progress is
    phase,      \* which part of it issues the directory operations
    todo,       \* the directory operations it has left
    event,      \* the event it writes, or Starting
    written,    \* the events that were handed to Write (history)
    safe        \* the durable events whose Write returned nil (history)

vars == <<dir, data, unsynced, syncPending, pc, phase, todo, event, written, safe>>
disk == <<dir, data, unsynced, syncPending>>

Empty == [ lines |-> <<>>, synced |-> 0 ]

\* The i-th of the files an earlier daemon has filled, the newest first.
Old == Backups * MaxLines
OldFile(i) == [ lines |-> [ k \in 1..MaxLines |-> Old - (i + 1) * MaxLines + k ], synced |-> MaxLines ]

\* Some of those files are there, or (a new directory) none.
Init ==
    /\ \E n \in 0..Backups :
          /\ dir = [ name \in { Log(i) : i \in 0..(n - 1) } |-> name[2] + 1 ]
          /\ data = [ i \in Inodes |-> IF i <= n THEN OldFile(i - 1) ELSE Empty ]
    /\ unsynced = {dir}
    /\ syncPending = FALSE
    /\ pc = "down"
    /\ phase = "none"
    /\ todo = <<>>
    /\ event = Starting
    /\ written = Old
    /\ safe = (UNION { Range(data[i].lines) : i \in Inodes }) \cap Durable

-----------------------------------------------------------------------------
(* Directory operations and the lists of them the phases go through. *)

Create(n)    == [ do |-> "create", from |-> n, to |-> n ]
CreateNew    == [ do |-> "new",    from |-> New, to |-> New ]
Link(m, n)   == [ do |-> "link",   from |-> m, to |-> n ]
Rename(m, n) == [ do |-> "rename", from |-> m, to |-> n ]
Unlink(n)    == [ do |-> "remove", from |-> n, to |-> n ]

Put(d, n, inode) == [ x \in DOMAIN d \cup {n} |-> IF x = n THEN inode ELSE d[x] ]
Drop(d, n)       == [ x \in DOMAIN d \ {n} |-> d[x] ]

\* An inode no directory refers to, not even one a power loss would bring back.
Fresh == CHOOSE i \in Inodes : \A d \in unsynced \cup {dir} : \A n \in DOMAIN d : d[n] # i

\* A file to which no name is left is freed.
Freed(d, files) == [ i \in Inodes |-> IF \E n \in DOMAIN d : d[n] = i THEN files[i] ELSE Empty ]

\* create and link fail on an existing name, link and rename on a missing one.
Applicable(d, op) ==
    /\ op.do \in {"create", "new", "link"} => op.to \notin DOMAIN d
    /\ op.do \in {"link", "rename"} => op.from \in DOMAIN d

\* rename between two names of one file succeeds and leaves both (POSIX).
Effect(d, op) ==
    CASE op.do = "create" -> Put(d, op.to, Metadata)
      [] op.do = "new"    -> Put(d, op.to, Fresh)
      [] op.do = "link"   -> Put(d, op.to, d[op.from])
      [] op.do = "rename" -> IF op.to \in DOMAIN d /\ d[op.to] = d[op.from] THEN d
                             ELSE Put(Drop(d, op.from), op.to, d[op.from])
      [] op.do = "remove" -> Drop(d, op.to)

PerIndex(n, ops(_)) == FlattenSeq([ k \in 1..(n + 1) |-> ops(k - 1) ])

\* The highest index the rotation touches.
Limit(d) ==
    LET present == { i \in 0..Backups : Log(i) \in DOMAIN d }
        highest == CHOOSE i \in present : \A j \in present : j <= i
    IN IF highest + 1 < Backups THEN highest + 1 ELSE Backups

\* prepareRotation
PrepareOps(d) ==
    <<Create(Marker)>>
    \o PerIndex(Limit(d), LAMBDA i : IF Log(i) \in DOMAIN d THEN <<Link(Log(i), Source(i))>>
                                                            ELSE <<Create(Missing(i))>>)
    \o <<CreateNew, Link(New, Proof)>>

\* applyRotation: the backups from the oldest to the newest, then the commit.
Publish == Rename(New, Log(0))
ApplyOps(d) ==
    LET limit == Limit(d)
        Shift(k) == LET target == limit - k IN
            IF Source(target - 1) \in DOMAIN d
            THEN <<Link(Source(target - 1), Work(target)), Rename(Work(target), Log(target))>>
            ELSE <<Unlink(Log(target))>>
    IN PerIndex(limit - 1, Shift) \o <<Publish>>

\* As elsewhere, an operator Mutant_* is the definition after it with a plausible
\* bug: here the marker removed first, and the new file removed before its proof.
Mutant_CleanupMarker ==
    <<Unlink(Marker)>>
    \o PerIndex(Backups, LAMBDA i : <<Unlink(Work(i)), Unlink(Source(i)), Unlink(Missing(i))>>)
    \o <<Unlink(Proof), Unlink(New)>>
Mutant_CleanupNew ==
    PerIndex(Backups, LAMBDA i : <<Unlink(Work(i)), Unlink(Source(i)), Unlink(Missing(i))>>)
    \o <<Unlink(New), Unlink(Proof), Unlink(Marker)>>

\* cleanupRotationStaging
CleanupOps ==
    PerIndex(Backups, LAMBDA i : <<Unlink(Work(i)), Unlink(Source(i)), Unlink(Missing(i))>>)
    \o <<Unlink(Proof), Unlink(New), Unlink(Marker)>>

\* rollbackRotation
RollbackOps(d) ==
    PerIndex(Backups, LAMBDA i :
        IF Source(i) \in DOMAIN d
        THEN <<Unlink(Work(i)), Link(Source(i), Work(i)), Rename(Work(i), Log(i))>>
        ELSE IF Missing(i) \in DOMAIN d THEN <<Unlink(Log(i))>> ELSE <<>>)
    \o CleanupOps

\* recoverRotation: without a marker there is nothing to do, with a staged new
\* file the rotation did not commit, and otherwise the proof must be the log.
Stuck(d) ==
    /\ Marker \in DOMAIN d /\ New \notin DOMAIN d /\ Proof \in DOMAIN d
    /\ ~(Log(0) \in DOMAIN d /\ d[Log(0)] = d[Proof])

RecoverOps(d) ==
    IF Marker \notin DOMAIN d THEN <<>>
    ELSE IF New \in DOMAIN d THEN RollbackOps(d)
    ELSE CleanupOps

-----------------------------------------------------------------------------
(* The end of an operation. *)

Goto(p, ph, ops) == pc' = p /\ phase' = ph /\ todo' = ops

\* A failed start leaves no logger; a failed Write returns its error.
ReplyError == Goto(IF event = Starting THEN "down" ELSE "idle", "none", <<>>) /\ UNCHANGED safe
ReplyOK ==
    /\ Goto("idle", "none", <<>>)
    /\ safe' = safe \cup ({event} \cap Durable)

Mutant_Failed(committed) ==
    /\ IF phase \in {"prepare", "apply"} /\ ~committed
       THEN Goto("ops", "abort", CleanupOps) /\ UNCHANGED safe
       ELSE ReplyError
    /\ UNCHANGED <<event, written>>

\* What an error does in each phase.  A rotation that fails before its commit is
\* undone; one whose commit is not synced is left to the next recovery.
Failed(committed) ==
    /\ IF phase = "prepare" /\ ~Stuck(dir')
       THEN Goto("ops", "abort", RecoverOps(dir')) /\ UNCHANGED safe
       ELSE IF phase = "apply" /\ ~committed
       THEN Goto("ops", "abort", RollbackOps(dir')) /\ UNCHANGED safe
       ELSE ReplyError
    /\ UNCHANGED <<event, written>>

-----------------------------------------------------------------------------
(* A call begins. *)

\* initializeLocked and Write: sync if needed, then recoverRotation.
Begin(e) ==
    /\ event' = e
    /\ IF e # Starting /\ ~syncPending
       THEN IF Stuck(dir) THEN Goto("idle", "none", <<>>) ELSE Goto("ops", "recover", RecoverOps(dir))
       ELSE Goto("sync", "begin", <<>>)
    /\ UNCHANGED <<disk, safe>>

Start ==
    /\ pc = "down"
    /\ Begin(Starting)
    /\ UNCHANGED written

Write ==
    /\ pc = "idle"
    /\ written < MaxEvents
    /\ written' = written + 1
    /\ Begin(written + 1)

-----------------------------------------------------------------------------
(* One directory operation and the sync that follows it. *)

\* removeMetadataIfExists on a missing name does nothing.
SkipOp ==
    /\ pc = "ops" /\ todo # <<>>
    /\ Head(todo).do = "remove" /\ Head(todo).to \notin DOMAIN dir
    /\ todo' = Tail(todo)
    /\ UNCHANGED <<disk, pc, phase, event, written, safe>>

DoOp ==
    LET op == Head(todo) IN
    /\ pc = "ops" /\ todo # <<>>
    /\ ~(op.do = "remove" /\ op.to \notin DOMAIN dir)
    /\ Applicable(dir, op)
    /\ dir' = Effect(dir, op)
    /\ unsynced' = unsynced \cup {dir'}
    /\ data' = IF op.do = "new"
               THEN [data EXCEPT ![Fresh] = [ lines |-> <<event>>,
                                              synced |-> IF event \in Durable THEN 1 ELSE 0 ]]
               ELSE data
    /\ pc' = "sync"
    /\ UNCHANGED <<syncPending, phase, todo, event, written, safe>>

\* The call fails and changes nothing ...
OpFails ==
    /\ pc = "ops" /\ todo # <<>>
    /\ UNCHANGED disk
    /\ Failed(FALSE)

\* ... or createRotationNewFile fails with the file created and partly written.
NewFails ==
    /\ pc = "ops" /\ todo # <<>>
    /\ Head(todo).do = "new"
    /\ Applicable(dir, Head(todo))
    /\ dir' = Effect(dir, Head(todo))
    /\ unsynced' = unsynced \cup {dir'}
    /\ \E lines \in {<<>>, <<Torn>>, <<event>>} :
          data' = [data EXCEPT ![Fresh] = [ lines |-> lines, synced |-> 0 ]]
    /\ UNCHANGED syncPending
    /\ Failed(FALSE)

\* syncMetadata; the first sync of a call is followed by the recovery.
Sync ==
    /\ pc = "sync"
    /\ unsynced' = {dir}
    /\ syncPending' = FALSE
    /\ data' = Freed(dir, data)
    /\ IF phase = "begin"
       THEN IF Stuck(dir) THEN ReplyError
            ELSE Goto("ops", "recover", RecoverOps(dir)) /\ UNCHANGED safe
       ELSE Goto("ops", phase, IF todo = <<>> THEN <<>> ELSE Tail(todo)) /\ UNCHANGED safe
    /\ UNCHANGED <<dir, event, written>>

SyncFails ==
    /\ pc = "sync"
    /\ syncPending' = TRUE
    /\ UNCHANGED <<dir, data, unsynced>>
    /\ Failed(todo # <<>> /\ Head(todo) = Publish)

\* The list of a phase is done.
PhaseDone ==
    /\ pc = "ops" /\ todo = <<>>
    /\ CASE phase = "recover" -> Goto("open", "none", <<>>) /\ UNCHANGED safe
         [] phase = "created" -> Goto("write", "none", <<>>) /\ UNCHANGED safe
         [] phase = "prepare" -> Goto("ops", "apply", ApplyOps(dir)) /\ UNCHANGED safe
         [] phase = "apply"   -> Goto("ops", "cleanup", CleanupOps) /\ UNCHANGED safe
         [] phase = "settle"  -> Goto("idle", "none", <<>>) /\ UNCHANGED safe
         [] phase = "cleanup" -> ReplyOK
         [] phase = "abort"   -> ReplyError
    /\ UNCHANGED <<disk, event, written>>

-----------------------------------------------------------------------------
(* The file itself. *)

Current == data[dir[Log(0)]]
Mutant_IsTorn(lines) == FALSE
IsTorn(lines) == lines # <<>> /\ Last(lines) = Torn

\* openAuditFile and repairTrailingPartialLine; a created file has nothing to
\* repair.  A start ends with a sync, a Write that created the file does one.
Open ==
    /\ pc = "open"
    /\ IF Log(0) \in DOMAIN dir
       THEN /\ data' = IF IsTorn(Current.lines)
                       THEN [data EXCEPT ![dir[Log(0)]] =
                               [ lines |-> Front(Current.lines), synced |-> Len(Current.lines) - 1 ]]
                       ELSE data
            /\ UNCHANGED <<dir, unsynced>>
            /\ IF event = Starting THEN Goto("sync", "settle", <<>>) ELSE Goto("write", "none", <<>>)
       ELSE /\ dir' = Put(dir, Log(0), Fresh)
            /\ data' = [data EXCEPT ![Fresh] = Empty]
            /\ unsynced' = unsynced \cup {dir'}
            /\ Goto("sync", IF event = Starting THEN "settle" ELSE "created", <<>>)
    /\ UNCHANGED <<syncPending, event, written, safe>>

\* The file cannot be opened or repaired; or it is truncated but not synced.
OpenFails ==
    /\ pc = "open"
    /\ \/ UNCHANGED data
       \/ /\ Log(0) \in DOMAIN dir /\ IsTorn(Current.lines)
          /\ data' = [data EXCEPT ![dir[Log(0)]].lines = Front(@)]
    /\ ReplyError
    /\ UNCHANGED <<dir, unsynced, syncPending, event, written>>

rotationNeeded(size) == size > 0 /\ (size > MaxLines \/ 1 > MaxLines - size)

\* The event goes to a new file ...
WriteRotates ==
    /\ pc = "write"
    /\ rotationNeeded(Len(Current.lines))
    /\ Goto("ops", "prepare", PrepareOps(dir))
    /\ UNCHANGED <<disk, event, written, safe>>

\* ... or is appended.
WriteAppends ==
    LET lines == Append(Current.lines, event) IN
    /\ pc = "write"
    /\ ~rotationNeeded(Len(Current.lines))
    /\ data' = [data EXCEPT ![dir[Log(0)]] =
                  [ lines |-> lines, synced |-> IF event \in Durable THEN Len(lines) ELSE @.synced ]]
    /\ ReplyOK
    /\ UNCHANGED <<dir, unsynced, syncPending, event, written>>

\* The write fails and is truncated away, or the truncation fails too and leaves
\* part of the line; or the sync of the complete line fails.
AppendFails ==
    /\ pc = "write"
    /\ ~rotationNeeded(Len(Current.lines))
    /\ \E rest \in {<<>>, <<Torn>>, <<event>>} :
          data' = [data EXCEPT ![dir[Log(0)]].lines = @ \o rest]
    /\ ReplyError
    /\ UNCHANGED <<dir, unsynced, syncPending, event, written>>

-----------------------------------------------------------------------------
(* The daemon dies: alone, or with the machine. *)

Crash ==
    /\ pc # "down"
    /\ Goto("down", "none", <<>>)
    /\ syncPending' = FALSE
    /\ event' = Starting
    /\ UNCHANGED <<dir, data, unsynced, written, safe>>

\* Lines that were not synced are lost from some line on, which may be torn.
Remains(file) ==
    LET kept(n) == SubSeq(file.lines, 1, n)
        whole   == IF IsTorn(file.lines) THEN Len(file.lines) - 1 ELSE Len(file.lines)
    IN { [ lines |-> kept(n), synced |-> n ] : n \in file.synced..whole }
       \cup { [ lines |-> Append(kept(n), Torn), synced |-> n ] : n \in file.synced..(Len(file.lines) - 1) }

Volatile == { i \in Inodes : data[i].synced < Len(data[i].lines) }

PowerLoss ==
    /\ \E d \in unsynced, lost \in [Volatile -> UNION { Remains(data[i]) : i \in Volatile }] :
          /\ \A i \in Volatile : lost[i] \in Remains(data[i])
          /\ dir' = d
          /\ data' = Freed(d, [ i \in Inodes |-> IF i \in Volatile THEN lost[i] ELSE data[i] ])
    /\ unsynced' = {dir'}
    /\ syncPending' = FALSE
    /\ Goto("down", "none", <<>>)
    /\ event' = Starting
    /\ UNCHANGED <<written, safe>>

Next ==
    \/ Start \/ Write
    \/ SkipOp \/ DoOp \/ OpFails \/ NewFails \/ Sync \/ SyncFails \/ PhaseDone
    \/ Open \/ OpenFails \/ WriteRotates \/ WriteAppends \/ AppendFails
    \/ Crash \/ PowerLoss

Spec == Init /\ [][Next]_vars

-----------------------------------------------------------------------------
(* Correctness. *)

TypeOK ==
    /\ dir \in [DOMAIN dir -> Inodes \cup {Metadata}] /\ DOMAIN dir \subseteq Names
    /\ \A i \in Inodes : /\ data[i].lines \in Seq(Events \cup {Torn})
                         /\ data[i].synced \in 0..Len(data[i].lines)
    /\ \A d \in unsynced : DOMAIN d \subseteq Names
    /\ pc \in {"down", "idle", "sync", "ops", "open", "write"}
    /\ event \in 0..MaxEvents /\ written \in 0..MaxEvents /\ safe \subseteq Durable

\* A rotation is never left in a state that recovery refuses (ErrUnsafePath, on
\* which every later Write and every start of the daemon would fail): not by an
\* error at any call, not by a crash, not by a power loss at any instant.
RecoveryPossible == \A d \in unsynced \cup {dir} : ~Stuck(d)

\* No record is glued to the rest of an incomplete one: a torn line is repaired
\* before anything is written behind it.
NoGluedRecord ==
    \A i \in Inodes : \A k \in 1..Len(data[i].lines) :
        data[i].lines[k] = Torn => k = Len(data[i].lines)

\* Recovery leaves nothing behind: when it has succeeded there is no staging file,
\* so the next rotation cannot trip over a link or a marker of an old one and no
\* event is appended to a file that also goes by another name.
NoLeftover ==
    pc \in {"open", "write"} => \A n \in DOMAIN dir : n[1] = "log"

\* The inode that recovery will take the i-th file from: while a rotation is not
\* committed, the one that is staged as its source.
Slot(d, i) ==
    LET uncommitted == Marker \in DOMAIN d /\ New \in DOMAIN d
    IN  IF uncommitted /\ Source(i) \in DOMAIN d THEN d[Source(i)]
        ELSE IF uncommitted /\ Missing(i) \in DOMAIN d THEN Metadata
        ELSE IF Log(i) \in DOMAIN d THEN d[Log(i)]
        ELSE Metadata

\* The log as recovery will find it and repair it.
Whole(lines) == IF IsTorn(lines) THEN Front(lines) ELSE lines
View(d) == [ i \in 0..Backups |-> IF Slot(d, i) = Metadata THEN <<>> ELSE Whole(data[Slot(d, i)].lines) ]

Abstract == INSTANCE AuditLog WITH
               files <- View(dir), possible <- { View(d) : d \in unsynced }, safe <- safe

\* The logger implements the atomic log: whatever fails and whenever the machine
\* stops, each event is in the log wholly or not at all, in order, once, no
\* backup is lost or doubled, and no confirmed durable event disappears except
\* with the oldest backup.
ImplementsLog == Abstract!Spec

=============================================================================
