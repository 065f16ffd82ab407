------------------------------- MODULE Daemon -------------------------------
(***************************************************************************)
(* The daemon process: the Unix-socket server (internal/broker/server.go)  *)
(* that runs one handler goroutine per connection, and the operations on   *)
(* the daemon's own state those handlers perform (daemonService and the    *)
(* closures of App.daemon in internal/app/app.go): lock, unlock, stop and  *)
(* configure, with the shutdown that stop leads to.                        *)
(*                                                                         *)
(* Each operation takes several locks in turn and none of them all the     *)
(* way, so it is split at every access to shared state.  Every other       *)
(* method is "execute": a request that is answered after some time, or     *)
(* when the context is cancelled.                                          *)
(***************************************************************************)
EXTENDS FiniteSets

CONSTANTS
    Handlers,      \* the slots for connections (maxProtocolConnections)
    Methods,       \* methods the clients of this instance call
    Keys,          \* settings `config set` changes
    Values,        \* their values
    None           \* no method, key, value or configuration

ASSUME DaemonAssumption ==
    /\ Methods \subseteq {"lock", "unlock", "stop", "configure", "execute"}
    /\ Keys # {} /\ Values # {}
    /\ None \notin Methods \cup Keys \cup Values \cup [Keys -> Values]

Unset == CHOOSE v \in Values : TRUE      \* the initial value of every setting

VARIABLES
    serve,        \* the goroutine in Server.Serve, then in App.daemon
    listening,    \* the listener is open
    ctxDone,      \* the context of Serve is cancelled
    handler,      \* the locals of each handler
    secrets,      \* memorySecrets holds credentials
    vaultLocked,  \* Service.vaultLocked, what `status` reports
    stopping,     \* daemonService.once: "no", "running" or "done"
    file,         \* the settings in the configuration file
    settings,     \* the settings of the running broker
    (* History. *)
    accepted,     \* the value last saved for each key, since a save failed
    vaultRaced,   \* two operations on the vault state have overlapped
    fileRaced     \* two operations on the file have overlapped, or one failed

vars == <<serve, listening, ctxDone, handler, secrets, vaultLocked, stopping, file, settings,
          accepted, vaultRaced, fileRaced>>
server  == <<serve, listening, ctxDone>>
vault   == <<secrets, vaultLocked, stopping>>
config  == <<file, settings, accepted>>
history == <<vaultRaced, fileRaced>>

Config == [Keys -> Values]

HandlerState ==
    [ pc     : {"free", "accepted", "read", "run", "saved", "shared", "replaced", "cleared", "loaded", "respond", "after"},
      method : Methods \cup {None},
      closed : BOOLEAN,                \* the connection was closed under it
      key    : Keys \cup {None}, value : Values \cup {None},
      latest : Config \cup {None},     \* the configuration it loaded and changed
      ok     : BOOLEAN ]

Free == [ pc |-> "free", method |-> None, closed |-> FALSE, key |-> None, value |-> None,
          latest |-> None, ok |-> FALSE ]

Init ==
    /\ serve = "accept"
    /\ listening = TRUE
    /\ ctxDone = FALSE
    /\ handler = [h \in Handlers |-> Free]
    /\ secrets \in BOOLEAN                \* locked, or unlocked at start
    /\ vaultLocked = ~secrets
    /\ stopping = "no"
    /\ file = [k \in Keys |-> Unset]
    /\ settings = file
    /\ accepted = [k \in Keys |-> None]
    /\ vaultRaced = FALSE
    /\ fileRaced = FALSE

-----------------------------------------------------------------------------
Registered == { h \in Handlers : handler[h].pc \notin {"free", "accepted"} }
Goto(h, pc) == handler' = [handler EXCEPT ![h].pc = pc]
Answer(h, ok) ==
    handler' = [handler EXCEPT ![h] = [Free EXCEPT !.pc = "respond", !.ok = ok, !.method = handler[h].method,
                                                   !.closed = handler[h].closed]]
Finish(h) == handler' = [handler EXCEPT ![h] = Free]

\* The handlers between their first and their last access to the vault state, or
\* to the configuration file.
OnVault == { h \in Handlers : \/ handler[h].method = "lock" /\ handler[h].pc = "cleared"
                              \/ handler[h].method = "unlock" /\ handler[h].pc = "replaced"
                              \/ handler[h].method = "stop" /\ handler[h].pc = "cleared" }
OnFile  == { h \in Handlers : handler[h].pc \in {"loaded", "saved"} }

-----------------------------------------------------------------------------
(* Server.Serve and the end of App.daemon. *)

\* A connection takes a slot and the context is found alive ...
Accept(h, method) ==
    /\ serve = "accept" /\ listening
    /\ handler[h].pc = "free"
    /\ ~ctxDone
    /\ handler' = [handler EXCEPT ![h] = [Free EXCEPT !.pc = "accepted", !.method = method]]
    /\ serve' = "register"
    /\ UNCHANGED <<listening, ctxDone, vault, config, history>>

\* ... and it is registered and served.
Register(h) ==
    /\ serve = "register"
    /\ handler[h].pc = "accepted"
    /\ Goto(h, "read")
    /\ serve' = "accept"
    /\ UNCHANGED <<listening, ctxDone, vault, config, history>>

Mutant_CloseActive ==
    /\ listening' = listening
    /\ handler' = [h \in Handlers |-> IF h \in Registered THEN [handler[h] EXCEPT !.closed = TRUE] ELSE handler[h]]

\* closeActive: by the goroutine that watches the context, and by shutdown.
CloseActive ==
    /\ listening' = FALSE
    /\ handler' = [h \in Handlers |-> IF h \in Registered THEN [handler[h] EXCEPT !.closed = TRUE] ELSE handler[h]]

WatchContext ==
    /\ ctxDone /\ serve # "exited"
    /\ CloseActive
    /\ UNCHANGED <<serve, ctxDone, vault, config, history>>

\* accept fails, on the closed listener or by itself: Serve returns, and cancels
\* its context before shutdown begins.
LeaveLoop(broken) ==
    /\ serve = "accept"
    /\ broken \/ ~listening
    /\ serve' = "wait"
    /\ ctxDone' = TRUE
    /\ CloseActive
    /\ UNCHANGED <<vault, config, history>>

\* SIGINT or SIGTERM.
Signal ==
    /\ serve \in {"accept", "register"} /\ ~ctxDone
    /\ ctxDone' = TRUE
    /\ UNCHANGED <<serve, listening, handler, vault, config, history>>

Mutant_Exit ==
    /\ serve = "wait"
    /\ serve' = "exited"
    /\ secrets' = FALSE
    /\ UNCHANGED <<listening, ctxDone, handler, vaultLocked, stopping, config, history>>

\* handlers.Wait, then the deferred secrets.Lock of App.daemon.
Exit ==
    /\ serve = "wait"
    /\ Registered = {}
    /\ serve' = "exited"
    /\ secrets' = FALSE
    /\ UNCHANGED <<listening, ctxDone, handler, vaultLocked, stopping, config, history>>

-----------------------------------------------------------------------------
(* Server.handle, common to all methods. *)

\* The request is read, or is not: malformed, late (the read deadline) or cut.
Read(h) ==
    /\ handler[h].pc = "read"
    /\ \/ /\ ~handler[h].closed
          /\ handler[h].method # "configure"
          /\ Goto(h, "run")
       \/ /\ ~handler[h].closed
          /\ handler[h].method = "configure"
          /\ \E k \in Keys, v \in Values :
                handler' = [handler EXCEPT ![h].pc = "run", ![h].key = k, ![h].value = v]
       \/ Answer(h, FALSE)
    /\ UNCHANGED <<server, vault, config, history>>

\* An ordinary request is answered.
Execute(h) ==
    /\ handler[h].pc = "run" /\ handler[h].method = "execute"
    /\ Answer(h, TRUE)
    /\ UNCHANGED <<server, vault, config, history>>

\* lock and stop are accepted first, and performed when the answer is written.
AcceptOrder(h) ==
    /\ handler[h].pc = "run" /\ handler[h].method \in {"lock", "stop"}
    /\ Answer(h, TRUE)
    /\ UNCHANGED <<server, vault, config, history>>

\* The answer is written, or cannot be.  The deferred function of handle gives the
\* slot back, here and wherever an operation finishes.
Respond(h) ==
    /\ handler[h].pc = "respond"
    /\ IF handler[h].ok /\ handler[h].method \in {"lock", "stop"} THEN Goto(h, "after") ELSE Finish(h)
    /\ UNCHANGED <<server, vault, config, history>>

-----------------------------------------------------------------------------
(* daemonService.Lock *)

Mutant_LockSecrets(h) ==
    /\ handler[h].pc = "after" /\ handler[h].method = "lock"
    /\ vaultRaced' = (vaultRaced \/ OnVault # {})
    /\ Goto(h, "cleared")
    /\ UNCHANGED <<server, secrets, vaultLocked, stopping, config, fileRaced>>

LockSecrets(h) ==
    /\ handler[h].pc = "after" /\ handler[h].method = "lock"
    /\ secrets' = FALSE
    /\ vaultRaced' = (vaultRaced \/ OnVault # {})
    /\ Goto(h, "cleared")
    /\ UNCHANGED <<server, vaultLocked, stopping, config, fileRaced>>

\* The connections are closed, lockedServers is read, and SetVaultState(true).
LockState(h) ==
    /\ handler[h].pc = "cleared" /\ handler[h].method = "lock"
    /\ vaultLocked' = TRUE
    /\ Finish(h)
    /\ UNCHANGED <<server, secrets, stopping, config, history>>

(* daemonService.Stop, once: clear the secrets, cancel the context. *)

StopSecrets(h) ==
    /\ handler[h].pc = "after" /\ handler[h].method = "stop"
    /\ stopping = "no"
    /\ stopping' = "running"
    /\ secrets' = FALSE
    /\ vaultRaced' = (vaultRaced \/ OnVault # {})
    /\ Goto(h, "cleared")
    /\ UNCHANGED <<server, vaultLocked, config, fileRaced>>

StopCancel(h) ==
    /\ handler[h].pc = "cleared" /\ handler[h].method = "stop"
    /\ ctxDone' = TRUE
    /\ stopping' = "done"
    /\ Finish(h)
    /\ UNCHANGED <<serve, listening, secrets, vaultLocked, config, history>>

\* A second Stop waits for the first and does nothing.
StopAgain(h) ==
    /\ handler[h].pc = "after" /\ handler[h].method = "stop"
    /\ stopping = "done"
    /\ Finish(h)
    /\ UNCHANGED <<server, vault, config, history>>

-----------------------------------------------------------------------------
(* The unlock closure of App.daemon. *)

\* The vault opens with the password, the configuration is loaded; or not.
UnlockLoad(h) ==
    /\ handler[h].pc = "run" /\ handler[h].method = "unlock"
    /\ \/ /\ handler' = [handler EXCEPT ![h].pc = "loaded", ![h].latest = file]
          /\ fileRaced' = (fileRaced \/ OnFile # {})
       \/ /\ Answer(h, FALSE)
          /\ UNCHANGED fileRaced
    /\ UNCHANGED <<server, vault, config, vaultRaced>>

\* What was loaded is normalised and saved again.
UnlockSave(h) ==
    /\ handler[h].pc = "loaded" /\ handler[h].method = "unlock"
    /\ file' = handler[h].latest
    /\ Goto(h, "saved")
    /\ UNCHANGED <<server, vault, settings, accepted, history>>

UnlockReplace(h) ==
    /\ handler[h].pc = "saved" /\ handler[h].method = "unlock"
    /\ secrets' = TRUE
    /\ vaultRaced' = (vaultRaced \/ OnVault # {})
    /\ Goto(h, "replaced")
    /\ UNCHANGED <<server, vaultLocked, stopping, config, fileRaced>>

Mutant_UnlockState(h) ==
    /\ handler[h].pc = "replaced" /\ handler[h].method = "unlock"
    /\ Answer(h, TRUE)
    /\ UNCHANGED <<server, vault, config, history>>

UnlockState(h) ==
    /\ handler[h].pc = "replaced" /\ handler[h].method = "unlock"
    /\ vaultLocked' = FALSE
    /\ Answer(h, TRUE)
    /\ UNCHANGED <<server, secrets, stopping, config, history>>

(* The configure closure of App.daemon. *)

ConfigureLoad(h) ==
    /\ handler[h].pc = "run" /\ handler[h].method = "configure"
    /\ handler' = [handler EXCEPT ![h].pc = "loaded",
                                  ![h].latest = [file EXCEPT ![handler[h].key] = handler[h].value]]
    /\ fileRaced' = (fileRaced \/ OnFile # {})
    /\ UNCHANGED <<server, vault, config, vaultRaced>>

ConfigureSave(h) ==
    /\ handler[h].pc = "loaded" /\ handler[h].method = "configure"
    /\ file' = handler[h].latest
    /\ accepted' = [accepted EXCEPT ![handler[h].key] = handler[h].value]
    /\ Goto(h, "saved")
    /\ UNCHANGED <<server, vault, settings, history>>

Mutant_ConfigureUpdate(h) ==
    /\ handler[h].pc = "saved" /\ handler[h].method = "configure"
    /\ Answer(h, TRUE)
    /\ UNCHANGED <<server, vault, config, history>>

ConfigureUpdate(h) ==
    /\ handler[h].pc = "saved" /\ handler[h].method = "configure"
    /\ settings' = handler[h].latest
    /\ Answer(h, TRUE)
    /\ UNCHANGED <<server, vault, file, accepted, history>>

\* saveConfigVerified gives up: nothing was saved, or it was and cannot be read
\* back.
SaveFails(h) ==
    /\ handler[h].pc = "loaded"
    /\ file' \in {file, handler[h].latest}
    /\ fileRaced' = TRUE
    /\ accepted' = [k \in Keys |-> None]
    /\ Answer(h, FALSE)
    /\ UNCHANGED <<server, vault, settings, vaultRaced>>

-----------------------------------------------------------------------------
Step(h) ==
    \/ Read(h) \/ Execute(h) \/ AcceptOrder(h) \/ Respond(h)
    \/ LockSecrets(h) \/ LockState(h) \/ StopSecrets(h) \/ StopCancel(h) \/ StopAgain(h)
    \/ UnlockLoad(h) \/ UnlockSave(h) \/ UnlockReplace(h) \/ UnlockState(h)
    \/ ConfigureLoad(h) \/ ConfigureSave(h) \/ ConfigureUpdate(h) \/ SaveFails(h)

Next ==
    \/ \E h \in Handlers : Step(h) \/ Register(h) \/ \E method \in Methods : Accept(h, method)
    \/ WatchContext \/ Signal \/ Exit
    \/ \E broken \in BOOLEAN : LeaveLoop(broken)

Spec == Init /\ [][Next]_vars

\* Every goroutine is scheduled, and the read deadline ends a read.  Clients connect
\* when they like, accept need not break, and an execute request is sure to be
\* answered only when the context is cancelled.
FairSpec ==
    /\ Spec
    /\ WF_vars(WatchContext) /\ WF_vars(LeaveLoop(FALSE)) /\ WF_vars(Exit)
    /\ \A h \in Handlers : /\ WF_vars(Register(h))
                           /\ WF_vars(Step(h) /\ (handler[h].pc = "run" /\ handler[h].method = "execute" => ctxDone))

-----------------------------------------------------------------------------
(* Correctness. *)

TypeOK ==
    /\ serve \in {"accept", "register", "wait", "exited"}
    /\ handler \in [Handlers -> HandlerState]
    /\ {listening, ctxDone, secrets, vaultLocked, vaultRaced, fileRaced} \subseteq BOOLEAN
    /\ stopping \in {"no", "running", "done"}
    /\ file \in Config /\ settings \in Config
    /\ accepted \in [Keys -> Values \cup {None}]

Quiet == OnVault = {}

\* Operations that do not overlap leave a true status: what `status` reports as
\* locked holds no credentials, and an unlocked vault that was not stopping does.
StatusTrue ==
    Quiet /\ ~vaultRaced /\ serve # "exited" =>
        /\ vaultLocked => ~secrets
        /\ ~vaultLocked /\ stopping = "no" => secrets

\* A status "locked" always means that no credentials are in memory, also when
\* lock and unlock come from two terminals at the same time.
LockedMeansCleared == Quiet /\ vaultLocked => ~secrets

\* "Safe settings update the running broker through its local socket and are
\* persisted for the next start": without overlapping changes the running broker and
\* the file agree, and hold what the clients were last told is set.
SettingsAgree ==
    OnFile = {} /\ ~fileRaced => /\ settings = file
                                 /\ \A k \in Keys : accepted[k] # None => file[k] = accepted[k]

\* The process that ends holds no credentials and has no request in progress:
\* an unlock that was in progress when stop came cannot bring them back.
ExitIsClean == serve = "exited" => ~secrets /\ Registered = {}

\* A cancelled daemon exits: no handler can hold it up.
StopEnds == ctxDone ~> serve = "exited"

=============================================================================
