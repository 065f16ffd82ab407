---------------------------- MODULE DaemonProofs ----------------------------
(***************************************************************************)
(* The safety of the daemon process, for any number of connections and of  *)
(* settings.                                                               *)
(***************************************************************************)
EXTENDS Daemon, TLAPS

\* Only the accept loop between the two halves of its body holds a connection that
\* is not registered, and only one.
AcceptedInv ==
    \A g, h \in Handlers : handler[h].pc = "accepted" => /\ serve = "register"
                                                         /\ handler[g].pc = "accepted" => g = h

\* A handler is inside an operation only of its own method, and one that changes a
\* setting has read which.
MethodInv ==
    \A h \in Handlers :
        /\ handler[h].pc \in {"loaded", "saved"} => handler[h].method \in {"unlock", "configure"} /\ handler[h].latest \in Config
        /\ handler[h].method = "configure" /\ handler[h].pc \in {"run", "loaded", "saved"} =>
              handler[h].key \in Keys /\ handler[h].value \in Values

\* Without overlap one handler at a time is on the vault state, and it finds there
\* what it wrote; with none there, what `status` reports is true.
VaultInv ==
    ~vaultRaced /\ serve # "exited" =>
        /\ \A g, h \in OnVault : g = h
        /\ \A h \in OnVault : secrets <=> handler[h].method = "unlock"
        /\ \A h \in OnVault : handler[h].method = "stop" => stopping # "no"
        /\ OnVault = {} => /\ vaultLocked => ~secrets
                           /\ ~vaultLocked /\ stopping = "no" => secrets

\* What a handler that is on the configuration file, alone, knows of it.
OnFileView(h) ==
    /\ handler[h].pc = "loaded" => settings = file
    /\ handler[h].pc = "loaded" /\ handler[h].method = "unlock" => handler[h].latest = file
    /\ handler[h].pc = "loaded" /\ handler[h].method = "configure" =>
          handler[h].latest = [file EXCEPT ![handler[h].key] = handler[h].value]
    /\ handler[h].pc = "saved" => handler[h].latest = file
    /\ handler[h].pc = "saved" /\ handler[h].method = "unlock" => settings = file

\* Without overlap and without a failed save one handler at a time is on the file,
\* with a current view of it, and the file holds every value that was accepted.
FileInv ==
    ~fileRaced =>
        /\ \A g, h \in OnFile : g = h
        /\ \A h \in OnFile : OnFileView(h)
        /\ OnFile = {} => settings = file
        /\ \A k \in Keys : accepted[k] # None => file[k] = accepted[k]

\* The inductive invariant.
IInv == TypeOK /\ AcceptedInv /\ MethodInv /\ VaultInv /\ FileInv /\ ExitIsClean

\* The invariant holds when Serve begins.
LEMMA InitIInv == Init => IInv
<1> SUFFICES ASSUME Init PROVE IInv
  OBVIOUS
<1> USE DaemonAssumption
<1>1. Unset \in Values
  BY DEF Unset
<1>2. TypeOK
  BY <1>1 DEF Init, TypeOK, HandlerState, Free, Config
<1>3. OnVault = {} /\ OnFile = {}
  BY DEF Init, OnVault, OnFile, Free
<1> QED
  BY <1>2, <1>3 DEF Init, IInv, AcceptedInv, MethodInv, VaultInv, FileInv, ExitIsClean, Free

\* A step of one handler, which leaves it in the state r: the other handlers are
\* where they were.
LEMMA Moved ==
    ASSUME TypeOK, NEW h \in Handlers, NEW r \in HandlerState, handler' = [handler EXCEPT ![h] = r]
    PROVE  /\ handler' \in [Handlers -> HandlerState]
           /\ handler'[h] = r
           /\ \A g \in Handlers : g # h => handler'[g] = handler[g]
           /\ \A g \in Handlers : g # h => /\ g \in OnVault' <=> g \in OnVault
                                           /\ g \in OnFile' <=> g \in OnFile
                                           /\ g \in Registered' <=> g \in Registered
BY DEF TypeOK, OnVault, OnFile, Registered

\* The fields a handler has when its operation has been answered.
LEMMA Answered ==
    ASSUME TypeOK, NEW h \in Handlers, NEW ok \in BOOLEAN, Answer(h, ok)
    PROVE  \E r \in HandlerState : /\ handler' = [handler EXCEPT ![h] = r]
                                   /\ r.pc = "respond" /\ r.method = handler[h].method
<1> DEFINE r == [Free EXCEPT !.pc = "respond", !.ok = ok, !.method = handler[h].method, !.closed = handler[h].closed]
<1>1. r \in HandlerState /\ r.pc = "respond" /\ r.method = handler[h].method
  BY DEF TypeOK, HandlerState, Free
<1>2. handler' = [handler EXCEPT ![h] = r]
  BY DEF Answer
<1> QED
  BY <1>1, <1>2

\* The fields a handler has when it has given its slot back.
LEMMA Finished ==
    ASSUME TypeOK, NEW h \in Handlers, Finish(h)
    PROVE  \E r \in HandlerState : handler' = [handler EXCEPT ![h] = r] /\ r.pc = "free"
<1>1. Free \in HandlerState /\ Free.pc = "free"
  BY DEF Free, HandlerState
<1> QED
  BY <1>1 DEF Finish

\* The fields of a handler that goes on in the same operation.
LEMMA Gone ==
    ASSUME TypeOK, NEW h \in Handlers, NEW pc \in {"saved", "read", "run", "cleared", "replaced", "after"}, Goto(h, pc)
    PROVE  \E r \in HandlerState : /\ handler' = [handler EXCEPT ![h] = r]
                                   /\ r.pc = pc
                                   /\ r.method = handler[h].method /\ r.latest = handler[h].latest
                                   /\ r.key = handler[h].key /\ r.value = handler[h].value
<1> DEFINE r == [handler[h] EXCEPT !.pc = pc]
<1>1. r \in HandlerState /\ r.pc = pc /\ r.method = handler[h].method /\ r.latest = handler[h].latest
      /\ r.key = handler[h].key /\ r.value = handler[h].value
  BY DEF TypeOK, HandlerState
<1>2. handler' = [handler EXCEPT ![h] = r]
  BY DEF Goto
<1> QED
  BY <1>1, <1>2

\* A handler that moves outside the operations, or into and out of them without an
\* access to what they share, disturbs nothing.
LEMMA AsideIInv ==
    ASSUME IInv, NEW h \in Handlers, NEW r \in HandlerState,
           handler' = [handler EXCEPT ![h] = r],
           h \notin OnVault, h \notin OnFile,
           r.pc \in {"free", "read", "run", "respond", "after"},
           r.method = "configure" /\ r.pc = "run" => r.key \in Keys /\ r.value \in Values,
           serve \notin {"wait", "exited"} \/ h \in Registered,
           serve' = serve \/ (serve = "register" /\ handler[h].pc = "accepted" /\ serve' = "accept"),
           UNCHANGED <<listening, ctxDone, vault, config, history>>
    PROVE  IInv'
<1>1. /\ handler' \in [Handlers -> HandlerState]
      /\ handler'[h] = r
      /\ \A g \in Handlers : g # h => handler'[g] = handler[g]
  BY Moved DEF IInv
<1>2. OnVault' = OnVault /\ OnFile' = OnFile
  BY <1>1, Moved DEF IInv, OnVault, OnFile
<1>3. TypeOK'
  BY <1>1 DEF IInv, TypeOK, vault, config, history
<1>4. AcceptedInv' /\ MethodInv'
  BY <1>1 DEF IInv, AcceptedInv, MethodInv
<1>7. ExitIsClean'
  BY <1>1 DEF IInv, ExitIsClean, Registered, vault
<1>5. VaultInv'
  BY <1>1, <1>2 DEF IInv, VaultInv, OnVault, vault, history
<1>6. FileInv'
  BY <1>1, <1>2 DEF IInv, FileInv, OnFileView, OnFile, config, history
<1> QED
  BY <1>3, <1>4, <1>5, <1>6, <1>7 DEF IInv

\* The steps common to all methods, and the orders that are not carried out.
LEMMA CommonIInv ==
    ASSUME IInv, NEW h \in Handlers,
           Register(h) \/ Read(h) \/ Execute(h) \/ AcceptOrder(h) \/ Respond(h) \/ StopAgain(h)
    PROVE  IInv'
<1> DEFINE Aside == \E r \in HandlerState :
                       /\ handler' = [handler EXCEPT ![h] = r]
                       /\ r.pc \in {"free", "read", "run", "respond", "after"}
                       /\ r.method = "configure" /\ r.pc = "run" => r.key \in Keys /\ r.value \in Values
<1>1. TypeOK
  BY DEF IInv
<1>2. /\ h \notin OnVault /\ h \notin OnFile
      /\ serve \notin {"wait", "exited"} \/ h \in Registered
      /\ serve' = serve \/ (serve = "register" /\ handler[h].pc = "accepted" /\ serve' = "accept")
      /\ UNCHANGED <<listening, ctxDone, vault, config, history>>
  BY DEF OnVault, OnFile, Registered, Register, Read, Execute, AcceptOrder, Respond, StopAgain, server
<1>3. Aside
  <2>1. CASE Register(h)
    BY <1>1, <2>1, Gone DEF Register
  <2>2. CASE Read(h)
    <3>1. CASE handler[h].method # "configure" /\ Goto(h, "run")
      BY <1>1, <3>1, Gone
    <3>2. ASSUME NEW k \in Keys, NEW v \in Values,
                 handler' = [handler EXCEPT ![h].pc = "run", ![h].key = k, ![h].value = v]
          PROVE  Aside
      <4> DEFINE r == [handler[h] EXCEPT !.pc = "run", !.key = k, !.value = v]
      <4>1. handler' = [handler EXCEPT ![h] = r]
        BY <1>1, <3>2 DEF TypeOK, HandlerState
      <4>2. r \in HandlerState /\ r.pc = "run" /\ r.key = k /\ r.value = v
        BY <1>1 DEF TypeOK, HandlerState
      <4> QED
        BY <4>1, <4>2
    <3>3. CASE Answer(h, FALSE)
      BY <1>1, <3>3, Answered
    <3> QED
      BY <2>2, <3>1, <3>2, <3>3 DEF Read
  <2>3. CASE Execute(h) \/ AcceptOrder(h)
    BY <1>1, <2>3, Answered DEF Execute, AcceptOrder
  <2>4. CASE Respond(h)
    BY <1>1, <2>4, Gone, Finished DEF Respond
  <2>5. CASE StopAgain(h)
    BY <1>1, <2>5, Finished DEF StopAgain
  <2> QED
    BY <2>1, <2>2, <2>3, <2>4, <2>5
<1> QED
  BY <1>2, <1>3, AsideIInv

\* lock and stop clear the credentials: the handler enters the vault state.
LEMMA EnterVaultIInv ==
    ASSUME IInv, NEW h \in Handlers, LockSecrets(h) \/ StopSecrets(h)
    PROVE  IInv'
<1>1. PICK r \in HandlerState : /\ handler' = [handler EXCEPT ![h] = r]
                                /\ r.pc = "cleared" /\ r.method = handler[h].method
  BY Gone DEF IInv, LockSecrets, StopSecrets
<1>2. /\ handler[h].pc = "after" /\ handler[h].method \in {"lock", "stop"}
      /\ handler[h].method = "stop" => stopping' = "running"
      /\ stopping' = stopping \/ stopping' = "running"
      /\ secrets' = FALSE /\ vaultRaced' = (vaultRaced \/ OnVault # {}) /\ vaultLocked' = vaultLocked
      /\ fileRaced' = fileRaced
      /\ UNCHANGED <<serve, listening, ctxDone, config>>
  BY DEF LockSecrets, StopSecrets, server
<1>3. /\ handler' \in [Handlers -> HandlerState]
      /\ handler'[h] = r
      /\ \A g \in Handlers : g # h => handler'[g] = handler[g]
  BY <1>1, Moved DEF IInv
<1>4. OnVault' = OnVault \cup {h} /\ OnFile' = OnFile
  BY <1>1, <1>2, <1>3, Moved DEF IInv, OnVault, OnFile
<1>5. TypeOK'
  BY <1>2, <1>3 DEF IInv, TypeOK, config
<1>6. AcceptedInv' /\ MethodInv'
  BY <1>1, <1>2, <1>3 DEF IInv, AcceptedInv, MethodInv
<1>7. ExitIsClean'
  BY <1>1, <1>2, <1>3 DEF IInv, ExitIsClean, Registered
<1>8. VaultInv'
  BY <1>1, <1>2, <1>3, <1>4 DEF IInv, VaultInv
<1>9. FileInv'
  BY <1>1, <1>2, <1>3, <1>4 DEF IInv, FileInv, OnFileView, OnFile, config
<1> QED
  BY <1>5, <1>6, <1>7, <1>8, <1>9 DEF IInv

\* lock, stop and unlock end: the handler leaves the vault state.
LEMMA LeaveVaultIInv ==
    ASSUME IInv, NEW h \in Handlers, LockState(h) \/ StopCancel(h) \/ UnlockState(h)
    PROVE  IInv'
<1>1. PICK r \in HandlerState : handler' = [handler EXCEPT ![h] = r] /\ r.pc \in {"free", "respond"}
  BY Finished, Answered DEF IInv, LockState, StopCancel, UnlockState
<1>2. /\ h \in OnVault /\ h \notin OnFile /\ h \in Registered
      /\ secrets' = secrets /\ vaultRaced' = vaultRaced /\ fileRaced' = fileRaced
      /\ UNCHANGED <<serve, listening, config>>
      /\ ctxDone' \in {ctxDone, TRUE} /\ vaultLocked' \in {vaultLocked, TRUE, FALSE} /\ stopping' \in {stopping, "done"}
      /\ handler[h].method = "lock" => vaultLocked' = TRUE
      /\ handler[h].method = "unlock" => vaultLocked' = FALSE
      /\ handler[h].method = "stop" => vaultLocked' = vaultLocked /\ stopping' = "done"
      /\ handler[h].method \in {"lock", "unlock", "stop"}
  BY DEF LockState, StopCancel, UnlockState, server, history, OnVault, OnFile, Registered
<1>3. /\ handler' \in [Handlers -> HandlerState]
      /\ handler'[h] = r
      /\ \A g \in Handlers : g # h => handler'[g] = handler[g]
  BY <1>1, Moved DEF IInv
<1>4. OnVault' = OnVault \ {h} /\ OnFile' = OnFile
  BY <1>1, <1>2, <1>3, Moved DEF IInv, OnVault, OnFile
<1>5. TypeOK'
  BY <1>2, <1>3 DEF IInv, TypeOK, config
<1>6. AcceptedInv' /\ MethodInv'
  BY <1>1, <1>2, <1>3 DEF IInv, AcceptedInv, MethodInv
<1>7. ExitIsClean'
  BY <1>1, <1>2, <1>3 DEF IInv, ExitIsClean, Registered
<1>8. VaultInv'
  <2>1. CASE OnVault = {h}
    BY <1>1, <1>2, <1>3, <1>4, <2>1 DEF IInv, TypeOK, VaultInv
  <2>2. CASE OnVault # {h}
    BY <1>1, <1>2, <1>3, <1>4, <2>2 DEF IInv, VaultInv
  <2> QED
    BY <2>1, <2>2
<1>9. FileInv'
  BY <1>1, <1>2, <1>3, <1>4 DEF IInv, FileInv, OnFileView, OnFile, config
<1> QED
  BY <1>5, <1>6, <1>7, <1>8, <1>9 DEF IInv

\* unlock installs the credentials: the handler leaves the file and enters the vault
\* state.
LEMMA UnlockReplaceIInv ==
    ASSUME IInv, NEW h \in Handlers, UnlockReplace(h)
    PROVE  IInv'
<1>1. PICK r \in HandlerState : handler' = [handler EXCEPT ![h] = r] /\ r.pc = "replaced" /\ r.method = "unlock"
  BY Gone DEF IInv, UnlockReplace
<1>2. /\ handler[h].pc = "saved" /\ handler[h].method = "unlock"
      /\ secrets' = TRUE /\ vaultRaced' = (vaultRaced \/ OnVault # {}) /\ vaultLocked' = vaultLocked
      /\ stopping' = stopping /\ fileRaced' = fileRaced
      /\ UNCHANGED <<serve, listening, ctxDone, config>>
  BY DEF UnlockReplace, server
<1>3. /\ handler' \in [Handlers -> HandlerState]
      /\ handler'[h] = r
      /\ \A g \in Handlers : g # h => handler'[g] = handler[g]
  BY <1>1, Moved DEF IInv
<1>4. OnVault' = OnVault \cup {h} /\ OnFile' = OnFile \ {h} /\ h \in OnFile
  BY <1>1, <1>2, <1>3, Moved DEF IInv, OnVault, OnFile
<1>5. TypeOK'
  BY <1>2, <1>3 DEF IInv, TypeOK, config
<1>6. AcceptedInv' /\ MethodInv'
  BY <1>1, <1>2, <1>3 DEF IInv, AcceptedInv, MethodInv
<1>7. ExitIsClean'
  BY <1>1, <1>2, <1>3 DEF IInv, ExitIsClean, Registered
<1>8. VaultInv'
  BY <1>1, <1>2, <1>3, <1>4 DEF IInv, VaultInv
<1>9. FileInv'
  BY <1>1, <1>2, <1>3, <1>4 DEF IInv, FileInv, OnFileView, OnFile, config
<1> QED
  BY <1>5, <1>6, <1>7, <1>8, <1>9 DEF IInv

\* unlock and configure load the file, or the unlock is refused.
LEMMA LoadIInv ==
    ASSUME IInv, NEW h \in Handlers, UnlockLoad(h) \/ ConfigureLoad(h)
    PROVE  IInv'
<1>1. /\ handler[h].pc = "run" /\ handler[h].method \in {"unlock", "configure"}
      /\ h \notin OnVault /\ h \notin OnFile /\ h \in Registered
      /\ UNCHANGED <<serve, listening, ctxDone, vault, config, vaultRaced>>
  BY DEF UnlockLoad, ConfigureLoad, server, OnVault, OnFile, Registered
<1>2. CASE Answer(h, FALSE) /\ fileRaced' = fileRaced
  <2>1. PICK r \in HandlerState : handler' = [handler EXCEPT ![h] = r] /\ r.pc = "respond"
    BY <1>2, Answered DEF IInv
  <2> QED
    BY <1>1, <1>2, <2>1, AsideIInv DEF history
<1>3. ASSUME NEW latest \in Config,
             handler' = [handler EXCEPT ![h].pc = "loaded", ![h].latest = latest],
             handler[h].method = "unlock" => latest = file,
             handler[h].method = "configure" => latest = [file EXCEPT ![handler[h].key] = handler[h].value],
             fileRaced' = (fileRaced \/ OnFile # {})
      PROVE  IInv'
  <2> DEFINE r == [handler[h] EXCEPT !.pc = "loaded", !.latest = latest]
  <2>1. /\ r \in HandlerState /\ r.pc = "loaded" /\ r.latest = latest
        /\ r.method = handler[h].method /\ r.key = handler[h].key /\ r.value = handler[h].value
    BY DEF IInv, TypeOK, HandlerState
  <2>2. handler' = [handler EXCEPT ![h] = r]
    BY <1>3 DEF IInv, TypeOK, HandlerState
  <2> HIDE DEF r
  <2>3. /\ handler' \in [Handlers -> HandlerState]
        /\ handler'[h] = r
        /\ \A g \in Handlers : g # h => handler'[g] = handler[g]
    BY <2>1, <2>2, Moved DEF IInv
  <2>4. OnVault' = OnVault /\ OnFile' = OnFile \cup {h}
    BY <1>1, <2>1, <2>2, <2>3, Moved DEF IInv, OnVault, OnFile
  <2>5. TypeOK'
    BY <1>1, <1>3, <2>3 DEF IInv, TypeOK, vault, config
  <2>6. AcceptedInv' /\ MethodInv'
    BY <1>1, <2>1, <2>3 DEF IInv, AcceptedInv, MethodInv
  <2>7. ExitIsClean'
    BY <1>1, <2>1, <2>3 DEF IInv, ExitIsClean, Registered, vault
  <2>8. VaultInv'
    BY <1>1, <2>3, <2>4 DEF IInv, VaultInv, OnVault, vault
  <2>9. FileInv'
    <3> SUFFICES ASSUME ~fileRaced'
                 PROVE  FileInv'
      BY DEF FileInv
    <3>1. /\ OnFile = {} /\ OnFile' = {h} /\ settings = file
          /\ \A k \in Keys : accepted[k] # None => file[k] = accepted[k]
          /\ settings' = settings /\ file' = file /\ accepted' = accepted
      BY <1>1, <1>3, <2>4 DEF IInv, FileInv, config
    <3>2. OnFileView(h)'
      BY <1>3, <2>1, <2>3, <3>1 DEF OnFileView
    <3> QED
      BY <3>1, <3>2 DEF FileInv
  <2> QED
    BY <2>5, <2>6, <2>7, <2>8, <2>9 DEF IInv
<1>4. CASE ConfigureLoad(h)
  <2>1. [file EXCEPT ![handler[h].key] = handler[h].value] \in Config
    BY <1>1, <1>4 DEF IInv, TypeOK, MethodInv, ConfigureLoad, Config
  <2> QED
    BY <1>3, <1>4, <2>1 DEF ConfigureLoad
<1>5. CASE UnlockLoad(h)
  BY <1>2, <1>3, <1>5 DEF UnlockLoad, IInv, TypeOK
<1> QED
  BY <1>4, <1>5

\* unlock and configure save what they loaded and changed.
LEMMA SaveIInv ==
    ASSUME IInv, NEW h \in Handlers, UnlockSave(h) \/ ConfigureSave(h)
    PROVE  IInv'
<1>1. PICK r \in HandlerState : /\ handler' = [handler EXCEPT ![h] = r]
                                /\ r.pc = "saved" /\ r.method = handler[h].method /\ r.latest = handler[h].latest
                                /\ r.key = handler[h].key /\ r.value = handler[h].value
  BY Gone DEF IInv, UnlockSave, ConfigureSave
<1>2. /\ handler[h].pc = "loaded" /\ handler[h].method \in {"unlock", "configure"}
      /\ handler[h].latest \in Config
      /\ handler[h].method = "configure" => handler[h].key \in Keys /\ handler[h].value \in Values
      /\ file' = handler[h].latest /\ settings' = settings
      /\ handler[h].method = "unlock" => accepted' = accepted
      /\ handler[h].method = "configure" => accepted' = [accepted EXCEPT ![handler[h].key] = handler[h].value]
      /\ UNCHANGED <<serve, listening, ctxDone, vault, history>>
  BY DEF IInv, MethodInv, UnlockSave, ConfigureSave, server
<1>3. /\ handler' \in [Handlers -> HandlerState]
      /\ handler'[h] = r
      /\ \A g \in Handlers : g # h => handler'[g] = handler[g]
  BY <1>1, Moved DEF IInv
<1>4. OnVault' = OnVault /\ OnFile' = OnFile /\ h \in OnFile
  BY <1>1, <1>2, <1>3, Moved DEF IInv, OnVault, OnFile
<1>5. TypeOK'
  BY <1>2, <1>3 DEF IInv, TypeOK, vault, history
<1>6. AcceptedInv' /\ MethodInv'
  BY <1>1, <1>2, <1>3 DEF IInv, AcceptedInv, MethodInv
<1>7. ExitIsClean'
  BY <1>1, <1>2, <1>3 DEF IInv, ExitIsClean, Registered, vault
<1>8. VaultInv'
  BY <1>2, <1>3, <1>4 DEF IInv, VaultInv, OnVault, vault, history
<1>9. FileInv'
  <2> SUFFICES ASSUME ~fileRaced'
               PROVE  FileInv'
    BY DEF FileInv
  <2>1. /\ OnFile = {h} /\ OnFileView(h) /\ OnFile' = {h}
        /\ \A k \in Keys : accepted[k] # None => file[k] = accepted[k]
    BY <1>2, <1>4 DEF IInv, FileInv, history
  <2>2. OnFileView(h)'
    BY <1>1, <1>2, <1>3, <2>1 DEF OnFileView
  <2>3. \A k \in Keys : accepted'[k] # None => file'[k] = accepted'[k]
    BY <1>2, <2>1 DEF OnFileView, IInv, TypeOK, Config
  <2> QED
    BY <2>1, <2>2, <2>3 DEF FileInv
<1> QED
  BY <1>5, <1>6, <1>7, <1>8, <1>9 DEF IInv

\* configure hands the settings to the running broker, or a save fails.
LEMMA LeaveFileIInv ==
    ASSUME IInv, NEW h \in Handlers, ConfigureUpdate(h) \/ SaveFails(h)
    PROVE  IInv'
<1>1. PICK r \in HandlerState : handler' = [handler EXCEPT ![h] = r] /\ r.pc = "respond"
  BY Answered DEF IInv, ConfigureUpdate, SaveFails
<1>2. /\ handler[h].pc \in {"loaded", "saved"} /\ handler[h].latest \in Config
      /\ UNCHANGED <<serve, listening, ctxDone, vault, vaultRaced>>
      /\ file' \in Config /\ settings' \in Config /\ accepted' \in [Keys -> Values \cup {None}] /\ fileRaced' \in BOOLEAN
      /\ \/ fileRaced'
         \/ /\ handler[h].pc = "saved" /\ settings' = handler[h].latest
            /\ UNCHANGED <<file, accepted, fileRaced>>
  BY DEF IInv, TypeOK, MethodInv, ConfigureUpdate, SaveFails, server, history
<1>3. /\ handler' \in [Handlers -> HandlerState]
      /\ handler'[h] = r
      /\ \A g \in Handlers : g # h => handler'[g] = handler[g]
  BY <1>1, Moved DEF IInv
<1>4. OnVault' = OnVault /\ OnFile' = OnFile \ {h} /\ h \in OnFile
  BY <1>1, <1>2, <1>3, Moved DEF IInv, OnVault, OnFile
<1>5. TypeOK'
  BY <1>2, <1>3 DEF IInv, TypeOK, vault
<1>6. AcceptedInv' /\ MethodInv'
  BY <1>1, <1>2, <1>3 DEF IInv, AcceptedInv, MethodInv
<1>7. ExitIsClean'
  BY <1>1, <1>2, <1>3 DEF IInv, ExitIsClean, Registered, vault
<1>8. VaultInv'
  BY <1>1, <1>2, <1>3, <1>4 DEF IInv, VaultInv, OnVault, vault
<1>9. FileInv'
  <2> SUFFICES ASSUME ~fileRaced'
               PROVE  FileInv'
    BY DEF FileInv
  <2>1. /\ OnFile = {h} /\ OnFileView(h) /\ OnFile' = {}
        /\ \A k \in Keys : accepted[k] # None => file[k] = accepted[k]
    BY <1>2, <1>4 DEF IInv, FileInv
  <2>2. settings' = file' /\ file' = file /\ accepted' = accepted
    BY <1>2, <2>1 DEF OnFileView
  <2> QED
    BY <2>1, <2>2 DEF FileInv
<1> QED
  BY <1>5, <1>6, <1>7, <1>8, <1>9 DEF IInv

\* The accept loop takes a connection.
LEMMA AcceptIInv ==
    ASSUME IInv, NEW h \in Handlers, NEW method \in Methods, Accept(h, method)
    PROVE  IInv'
<1> DEFINE r == [Free EXCEPT !.pc = "accepted", !.method = method]
<1>1. r \in HandlerState /\ r.pc = "accepted"
  BY DEF HandlerState, Free
<1>2. /\ serve = "accept" /\ serve' = "register" /\ handler[h].pc = "free"
      /\ handler' = [handler EXCEPT ![h] = r]
      /\ UNCHANGED <<listening, ctxDone, vault, config, history>>
  BY DEF Accept
<1> HIDE DEF r
<1>3. /\ handler' \in [Handlers -> HandlerState]
      /\ handler'[h] = r
      /\ \A g \in Handlers : g # h => handler'[g] = handler[g]
  BY <1>1, <1>2, Moved DEF IInv
<1>4. OnVault' = OnVault /\ OnFile' = OnFile
  BY <1>1, <1>2, <1>3, Moved DEF IInv, OnVault, OnFile
<1>5. TypeOK'
  BY <1>2, <1>3 DEF IInv, TypeOK, vault, config, history
<1>6. AcceptedInv' /\ MethodInv' /\ ExitIsClean'
  BY <1>1, <1>2, <1>3 DEF IInv, AcceptedInv, MethodInv, ExitIsClean
<1>7. VaultInv'
  BY <1>2, <1>3, <1>4 DEF IInv, VaultInv, OnVault, vault, history
<1>8. FileInv'
  BY <1>2, <1>3, <1>4 DEF IInv, FileInv, OnFileView, OnFile, config, history
<1> QED
  BY <1>5, <1>6, <1>7, <1>8 DEF IInv

\* The context is cancelled, the listener and the connections are closed, the accept
\* loop ends and, when the last handler has ended, the process.
LEMMA ServeIInv ==
    ASSUME IInv, WatchContext \/ Signal \/ Exit \/ (\E broken \in BOOLEAN : LeaveLoop(broken))
    PROVE  IInv'
<1>1. /\ listening' \in BOOLEAN /\ ctxDone' \in BOOLEAN
      /\ UNCHANGED <<vaultLocked, stopping, config, history>>
      /\ \/ serve' = serve /\ secrets' = secrets
         \/ serve = "accept" /\ serve' = "wait" /\ secrets' = secrets
         \/ serve = "wait" /\ Registered = {} /\ serve' = "exited" /\ secrets' = FALSE
  BY DEF IInv, TypeOK, WatchContext, Signal, Exit, LeaveLoop, CloseActive, vault
<1>2. /\ handler' \in [Handlers -> HandlerState]
      /\ \A h \in Handlers : /\ handler'[h].pc = handler[h].pc /\ handler'[h].method = handler[h].method
                             /\ handler'[h].key = handler[h].key /\ handler'[h].value = handler[h].value
                             /\ handler'[h].latest = handler[h].latest
  <2>1. CASE handler' = handler
    BY <2>1 DEF IInv, TypeOK
  <2>2. CASE CloseActive
    <3>1. \A h \in Handlers : [handler[h] EXCEPT !.closed = TRUE] \in HandlerState
      BY DEF IInv, TypeOK, HandlerState
    <3> QED
      BY <2>2, <3>1 DEF CloseActive, IInv, TypeOK, HandlerState
  <2> QED
    BY <2>1, <2>2 DEF WatchContext, Signal, Exit, LeaveLoop
<1>3. OnVault' = OnVault /\ OnFile' = OnFile /\ Registered' = Registered
  BY <1>2 DEF OnVault, OnFile, Registered
<1>4. TypeOK'
  BY <1>1, <1>2 DEF IInv, TypeOK, config, history
<1>5. AcceptedInv' /\ MethodInv'
  BY <1>1, <1>2 DEF IInv, AcceptedInv, MethodInv
<1>6. ExitIsClean'
  BY <1>1, <1>3 DEF IInv, ExitIsClean
<1>7. VaultInv'
  BY <1>1, <1>2, <1>3 DEF IInv, VaultInv, OnVault, history
<1>8. FileInv'
  BY <1>1, <1>2, <1>3 DEF IInv, FileInv, OnFileView, OnFile, config, history
<1> QED
  BY <1>4, <1>5, <1>6, <1>7, <1>8 DEF IInv

\* Every step of the daemon preserves the inductive invariant.
THEOREM Invariance == Spec => []IInv
<1>1. IInv /\ [Next]_vars => IInv'
  <2> SUFFICES ASSUME IInv, [Next]_vars PROVE IInv'
    OBVIOUS
  <2>1. CASE \E h \in Handlers : Step(h) \/ Register(h) \/ \E method \in Methods : Accept(h, method)
    BY <2>1, CommonIInv, EnterVaultIInv, LeaveVaultIInv, UnlockReplaceIInv, LoadIInv, SaveIInv, LeaveFileIInv, AcceptIInv
       DEF Step
  <2>2. CASE WatchContext \/ Signal \/ Exit \/ (\E broken \in BOOLEAN : LeaveLoop(broken))
    BY <2>2, ServeIInv
  <2>3. CASE UNCHANGED vars
    BY <2>3 DEF vars, IInv, TypeOK, AcceptedInv, MethodInv, VaultInv, FileInv, OnFileView, ExitIsClean,
                OnVault, OnFile, Registered
  <2> QED
    BY <2>1, <2>2, <2>3 DEF Next
<1> QED
  BY <1>1, InitIInv, PTL DEF Spec

\* The state of the daemon is always well formed.
THEOREM TypeCorrect == Spec => []TypeOK
<1>1. IInv => TypeOK
  BY DEF IInv
<1> QED
  BY <1>1, Invariance, PTL

\* lock, unlock and stop that do not overlap leave a true status, whatever else the
\* daemon does in between.
THEOREM StatusIsTrue == Spec => []StatusTrue
<1>1. IInv => StatusTrue
  BY DEF IInv, VaultInv, StatusTrue, Quiet
<1> QED
  BY <1>1, Invariance, PTL

\* unlock and configure that do not overlap leave the file and the running broker in
\* agreement, with every value that a client was told is set.
THEOREM SettingsDoAgree == Spec => []SettingsAgree
<1>1. IInv => SettingsAgree
  BY DEF IInv, FileInv, SettingsAgree
<1> QED
  BY <1>1, Invariance, PTL

\* The daemon that has exited holds no credentials and has no request in progress.
THEOREM ExitsClean == Spec => []ExitIsClean
<1>1. IInv => ExitIsClean
  BY DEF IInv
<1> QED
  BY <1>1, Invariance, PTL

=============================================================================
