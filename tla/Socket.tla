------------------------------- MODULE Socket -------------------------------
(***************************************************************************)
(* Who owns the socket path: the start and the end of broker.Server.Serve  *)
(* (internal/broker/server.go), the lifecycle lock and the reachability    *)
(* check around it in App.daemon, and the commands that rely on them       *)
(* (`start` and the commands that edit files, internal/app/app.go).        *)
(*                                                                         *)
(* A daemon unlinks what an earlier one left and binds its own socket, and *)
(* unlinks that when it ends.  It knows the file only by its inode number, *)
(* which the file system gives out again.  Every system call is a step.    *)
(* Checks of owner, type and mode are a call that may fail.                *)
(***************************************************************************)
EXTENDS Naturals

CONSTANTS
    Daemons,     \* processes (or Server values) that may run at a time
    Terminals,   \* processes of the command line
    Inodes,      \* inode numbers
    MaxStarts,   \* bound on the daemons that are launched
    None         \* no daemon, no inode, no answer

ASSUME SocketAssumption ==
    /\ MaxStarts \in Nat
    /\ Daemons \cap Terminals = {}
    /\ None \notin Daemons \cup Terminals \cup Inodes \cup {"started", "unavailable", "late"}

VARIABLES
    guarded,      \* servers run in App.daemon, which takes the lifecycle lock
    path,         \* the inode the socket path names
    listener,     \* the inode each open listener is bound to
    startupLock,  \* who holds the flock of Serve
    lifecycle,    \* who holds the flock of App.daemon and of the edit commands
    daemon,       \* the locals of each daemon: pc and the FileInfo it has taken
    terminal,     \* the locals of each command
    starts,       \* daemons launched so far
    (* History. *)
    raced,        \* an end has overlapped with a start
    leftover      \* the file at the path was left by a crash or a failed unlink

vars == <<guarded, path, listener, startupLock, lifecycle, daemon, terminal, starts, raced, leftover>>
locks == <<startupLock, lifecycle>>

StartPCs == {"spawned", "launched", "prompt", "lock", "inspect", "dial", "recheck", "remove", "bind", "verify",
             "release"}
EndPCs   == {"closed", "checked"}

DaemonState   == [ pc : {"none", "serving"} \cup StartPCs \cup EndPCs, info : Inodes \cup {None} ]
TerminalState == [ pc : {"idle", "spawn", "poll", "edit"},
                   said : {"started", "unavailable", "late", None},
                   excuse : BOOLEAN ]   \* something else has happened since this start began

Gone == [ pc |-> "none", info |-> None ]

Init ==
    /\ guarded \in BOOLEAN
    /\ path = None
    /\ listener = [d \in Daemons |-> None]
    /\ startupLock = None /\ lifecycle = None
    /\ daemon = [d \in Daemons |-> Gone]
    /\ terminal = [t \in Terminals |-> [ pc |-> "idle", said |-> None, excuse |-> FALSE ]]
    /\ starts = 0
    /\ raced = FALSE /\ leftover = FALSE

-----------------------------------------------------------------------------
At(d, pc) == daemon[d].pc = pc
Goto(d, pc) == daemon' = [daemon EXCEPT ![d].pc = pc]
Starting == { d \in Daemons : daemon[d].pc \in StartPCs }
Ending   == { d \in Daemons : daemon[d].pc \in EndPCs }

\* A process that ends, or is killed, has its files closed: the locks are free and
\* its listener refuses connections.
Release(d) ==
    /\ daemon' = [daemon EXCEPT ![d] = Gone]
    /\ listener' = [listener EXCEPT ![d] = None]
    /\ startupLock' = IF startupLock = d THEN None ELSE startupLock
    /\ lifecycle' = IF lifecycle = d THEN None ELSE lifecycle

\* The kernel completes a connection to any open listener; a status request is
\* answered by a daemon that accepts.
Connects  == \E d \in Daemons : listener[d] = path /\ path # None
Reachable == \E d \in Daemons : listener[d] = path /\ path # None /\ At(d, "serving")

\* requireDaemonStopped, of the commands that edit files.
RequireDaemonStopped == ~Reachable

\* The starts until now have an excuse not to find a daemon.
Disturb == terminal' = [t \in Terminals |-> [terminal[t] EXCEPT !.excuse = TRUE]]

\* raced as it is after a step to the daemon's new pc.
Overlap(d, pcs, other) == raced' = (raced \/ (daemon'[d].pc \in pcs /\ other \ {d} # {}))

-----------------------------------------------------------------------------
(* App.daemon and Server.Serve, up to the accept loop. *)

\* A user runs `daemon` in the foreground, or a program starts a Server.
Launch(d) ==
    /\ At(d, "none") /\ starts < MaxStarts
    /\ starts' = starts + 1
    /\ Goto(d, IF guarded THEN "launched" ELSE "spawned")
    /\ Overlap(d, StartPCs, Ending)
    /\ UNCHANGED <<guarded, path, listener, locks, terminal, leftover>>

Mutant_Lifecycle(d) ==
    /\ daemon[d].pc \in {"spawned", "launched"}
    /\ IF guarded /\ Reachable
       THEN Release(d)
       ELSE /\ Goto(d, IF At(d, "launched") THEN "prompt" ELSE "lock")
            /\ lifecycle' = IF guarded THEN d ELSE lifecycle
            /\ UNCHANGED <<listener, startupLock>>
    /\ UNCHANGED <<guarded, path, terminal, starts, raced, leftover>>

\* The lifecycle lock is taken at once or not at all, and kept until the process
\* ends; then a daemon that answers is looked for.
Lifecycle(d) ==
    /\ daemon[d].pc \in {"spawned", "launched"}
    /\ IF guarded /\ (lifecycle # None \/ Reachable)
       THEN Release(d)
       ELSE /\ Goto(d, IF At(d, "launched") THEN "prompt" ELSE "lock")
            /\ lifecycle' = IF guarded THEN d ELSE lifecycle
            /\ UNCHANGED <<listener, startupLock>>
    /\ UNCHANGED <<guarded, path, terminal, starts, raced, leftover>>

\* A `daemon` in the foreground asks for the password, and somebody enters it, sooner
\* or later or never; the lifecycle lock is held all the time.
Unlock(d) ==
    /\ At(d, "prompt")
    /\ Goto(d, "lock")
    /\ UNCHANGED <<guarded, path, listener, locks, terminal, starts, raced, leftover>>

\* acquireStartupLock: ErrSocketInUse when another server starts.
StartupLock(d) ==
    /\ At(d, "lock")
    /\ IF startupLock # None
       THEN Release(d)
       ELSE /\ Goto(d, "inspect")
            /\ startupLock' = d
            /\ UNCHANGED <<listener, lifecycle>>
    /\ UNCHANGED <<guarded, path, terminal, starts, raced, leftover>>

\* prepareSocketPath: lstat, ...
Inspect(d) ==
    /\ At(d, "inspect")
    /\ daemon' = [daemon EXCEPT ![d] = [pc |-> IF path = None THEN "bind" ELSE "dial", info |-> path]]
    /\ UNCHANGED <<guarded, path, listener, locks, terminal, starts, raced, leftover>>

Mutant_Dial(d) ==
    /\ At(d, "dial")
    /\ IF path # None
       THEN Release(d)
       ELSE Goto(d, "recheck") /\ UNCHANGED <<listener, locks>>
    /\ UNCHANGED <<guarded, path, terminal, starts, raced, leftover>>

\* ... a connection that succeeds means the socket is in use; a refused one, or
\* a path that is gone, goes on (isConnectionRefused), ...
Dial(d) ==
    /\ At(d, "dial")
    /\ IF Connects
       THEN Release(d)
       ELSE Goto(d, "recheck") /\ UNCHANGED <<listener, locks>>
    /\ UNCHANGED <<guarded, path, terminal, starts, raced, leftover>>

Mutant_Recheck(d) ==
    /\ At(d, "recheck")
    /\ Goto(d, "dial")
    /\ UNCHANGED <<guarded, path, listener, locks, terminal, starts, raced, leftover>>

\* ... the path must still name the inode that was inspected, ...
Recheck(d) ==
    /\ At(d, "recheck")
    /\ IF path # daemon[d].info
       THEN Release(d)
       ELSE Goto(d, "remove") /\ UNCHANGED <<listener, locks>>
    /\ UNCHANGED <<guarded, path, terminal, starts, raced, leftover>>

\* ... and it is unlinked.
Remove(d) ==
    /\ At(d, "remove")
    /\ IF path = None
       THEN Release(d)
       ELSE Goto(d, "bind") /\ UNCHANGED <<listener, locks>>
    /\ path' = None
    /\ UNCHANGED <<guarded, terminal, starts, raced, leftover>>

\* listenPrivateUnix: bind makes a file with an inode number nobody uses.
Bind(d) ==
    /\ At(d, "bind")
    /\ IF path # None
       THEN Release(d) /\ UNCHANGED <<path, leftover>>
       ELSE \E i \in { n \in Inodes : \A e \in Daemons : listener[e] # n } :
                /\ path' = i
                /\ listener' = [listener EXCEPT ![d] = i]
                /\ leftover' = FALSE
                /\ Goto(d, "verify")
                /\ UNCHANGED locks
    /\ UNCHANGED <<guarded, terminal, starts, raced>>

\* chmod and lstat: fileInfo is what the path names by now.
Verify(d) ==
    /\ At(d, "verify")
    /\ IF path = None
       THEN Release(d)
       ELSE /\ daemon' = [daemon EXCEPT ![d] = [pc |-> "release", info |-> path]]
            /\ UNCHANGED <<listener, locks>>
    /\ UNCHANGED <<guarded, path, terminal, starts, raced, leftover>>

\* The startup lock is released before the accept loop.
Serve(d) ==
    /\ At(d, "release")
    /\ Goto(d, "serving")
    /\ startupLock' = None
    /\ UNCHANGED <<guarded, path, listener, lifecycle, terminal, starts, raced, leftover>>

\* A call of the start fails: an unsafe file, no permission, a wrong password.  After
\* bind the listener is closed and the path unlinked, unless that fails too.
CallFails(d) ==
    /\ daemon[d].pc \in StartPCs \ {"release"}
    /\ Release(d)
    /\ \/ /\ path' = IF At(d, "verify") THEN None ELSE path
          /\ leftover' = (leftover /\ path' # None)
       \/ /\ At(d, "verify")
          /\ UNCHANGED path
          /\ leftover' = TRUE
    /\ Disturb
    /\ UNCHANGED <<guarded, starts, raced>>

-----------------------------------------------------------------------------
(* The end of a daemon. *)

\* stop, a signal or a broken listener: closeActive, and the handlers are waited for.
Stop(d) ==
    /\ At(d, "serving")
    /\ Goto(d, "closed")
    /\ listener' = [listener EXCEPT ![d] = None]
    /\ Overlap(d, EndPCs, Starting)
    /\ Disturb
    /\ UNCHANGED <<guarded, path, locks, starts, leftover>>

\* shutdown looks whether the path still names the daemon's own socket ...
ShutdownCheck(d) ==
    /\ At(d, "closed")
    /\ IF path = daemon[d].info
       THEN Goto(d, "checked") /\ UNCHANGED <<listener, locks>>
       ELSE Release(d)
    /\ UNCHANGED <<guarded, path, terminal, starts, raced, leftover>>

Mutant_ShutdownRemove(d) ==
    /\ At(d, "checked")
    /\ Release(d)
    /\ UNCHANGED <<guarded, path, terminal, starts, raced, leftover>>

\* ... and unlinks what it names then, ignoring a failure.  Serve and App.daemon
\* return.
ShutdownRemove(d) ==
    /\ At(d, "checked")
    /\ Release(d)
    /\ \/ path' = None /\ leftover' = FALSE
       \/ UNCHANGED path /\ leftover' = (path # None)
    /\ UNCHANGED <<guarded, terminal, starts, raced>>

\* The process is killed: nothing is cleaned up.
Crash(d) ==
    /\ ~At(d, "none")
    /\ Release(d)
    /\ leftover' = (leftover \/ (path # None /\ path \in {listener[d], daemon[d].info}))
    /\ Disturb
    /\ UNCHANGED <<guarded, path, starts, raced>>

-----------------------------------------------------------------------------
(* The commands. *)

\* startLocked: done when a daemon answers, else a process is spawned.
StartCommand(t) ==
    /\ guarded /\ terminal[t].pc = "idle" /\ starts < MaxStarts
    /\ \/ /\ Reachable
          /\ terminal' = [terminal EXCEPT ![t] = [pc |-> "idle", said |-> "started", excuse |-> FALSE]]
          /\ UNCHANGED starts
       \/ /\ ~Reachable
          /\ terminal' = [terminal EXCEPT ![t] =
                [ pc |-> "spawn", said |-> None,
                  excuse |-> Ending # {} \/ \E u \in Terminals : terminal[u].pc = "edit" ]]
          /\ starts' = starts + 1
    /\ UNCHANGED <<guarded, path, listener, locks, daemon, raced, leftover>>

Spawn(t, d) ==
    /\ terminal[t].pc = "spawn" /\ At(d, "none")
    /\ terminal' = [terminal EXCEPT ![t].pc = "poll"]
    /\ Goto(d, "spawned")
    /\ Overlap(d, StartPCs, Ending)
    /\ UNCHANGED <<guarded, path, listener, locks, starts, leftover>>

\* One of the polls finds a daemon, or the three seconds pass: whether because there is
\* none, or because one is still starting or at its prompt, which the command does not
\* know and only the history tells apart.
Poll(t) ==
    /\ terminal[t].pc = "poll"
    /\ terminal' = [terminal EXCEPT ![t].pc = "idle",
          ![t].said = IF Reachable THEN "started" ELSE IF Starting = {} THEN "unavailable" ELSE "late"]
    /\ UNCHANGED <<guarded, path, listener, locks, daemon, starts, raced, leftover>>

\* A server command: the lifecycle lock, and no daemon that answers, for its whole
\* duration.
EditBegin(t) ==
    /\ guarded /\ terminal[t].pc = "idle"
    /\ lifecycle = None /\ RequireDaemonStopped
    /\ lifecycle' = t
    /\ terminal' = [u \in Terminals |->
          IF u = t THEN [pc |-> "edit", said |-> None, excuse |-> TRUE]
                   ELSE [terminal[u] EXCEPT !.excuse = TRUE]]
    /\ UNCHANGED <<guarded, path, listener, startupLock, daemon, starts, raced, leftover>>

EditEnd(t) ==
    /\ terminal[t].pc = "edit"
    /\ terminal' = [terminal EXCEPT ![t].pc = "idle"]
    /\ lifecycle' = None
    /\ UNCHANGED <<guarded, path, listener, startupLock, daemon, starts, raced, leftover>>

-----------------------------------------------------------------------------
DaemonStep(d) ==
    \/ Lifecycle(d) \/ StartupLock(d) \/ Inspect(d) \/ Dial(d) \/ Recheck(d) \/ Remove(d)
    \/ Bind(d) \/ Verify(d) \/ Serve(d) \/ ShutdownCheck(d) \/ ShutdownRemove(d)

Next ==
    \/ \E d \in Daemons : DaemonStep(d) \/ Launch(d) \/ Unlock(d) \/ CallFails(d) \/ Stop(d) \/ Crash(d)
    \/ \E t \in Terminals : \/ StartCommand(t) \/ Poll(t) \/ EditBegin(t) \/ EditEnd(t)
                            \/ \E d \in Daemons : Spawn(t, d)

Spec == Init /\ [][Next]_vars

\* Processes run.  Nobody has to launch, stop or kill one, nor to enter a password, and
\* a deadline may pass before or after anything else.
FairSpec ==
    /\ Spec
    /\ \A d \in Daemons : WF_vars(DaemonStep(d))
    /\ \A t \in Terminals : WF_vars(\E d \in Daemons : Spawn(t, d))

-----------------------------------------------------------------------------
(* Correctness. *)

TypeOK ==
    /\ {guarded, raced, leftover} \subseteq BOOLEAN
    /\ path \in Inodes \cup {None}
    /\ listener \in [Daemons -> Inodes \cup {None}]
    /\ startupLock \in Daemons \cup {None}
    /\ lifecycle \in Daemons \cup Terminals \cup {None}
    /\ daemon \in [Daemons -> DaemonState]
    /\ terminal \in [Terminals -> TerminalState]
    /\ starts \in 0 .. MaxStarts

\* The socket path leads to every daemon that serves: no start takes the path from
\* a daemon and no end removes the socket of its successor.  Servers without
\* App.daemon promise this only as long as no end overlaps with a start.
PathServed ==
    guarded \/ ~raced =>
        \A d \in Daemons : At(d, "serving") => path = listener[d] /\ path # None

\* A daemon that was not killed and could unlink leaves no socket behind.
PathCleared == (\A d \in Daemons : At(d, "none")) /\ path # None => leftover

\* When `start` gives up and no daemon is starting any more, then a daemon was stopped,
\* killed, kept from running by an edit, or met a failing call since this start began:
\* neither two starts at a time nor a socket left by a crash keep it from finding a
\* daemon.  (A daemon that takes longer than the three seconds, or waits at its prompt,
\* may still come up after start has given up: StartServes.)
StartTruthful == \A t \in Terminals : terminal[t].said = "unavailable" => terminal[t].excuse

\* A start that nothing else disturbs brings up a daemon that answers, even if it is too
\* late for the command's own deadline, unless a `daemon` in the foreground holds the
\* lifecycle lock at its prompt.
StartServes ==
    \A t \in Terminals :
        terminal[t].pc = "spawn" ~> (Reachable \/ terminal[t].excuse \/ \E d \in Daemons : At(d, "prompt"))

=============================================================================
