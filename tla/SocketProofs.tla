---------------------------- MODULE SocketProofs ----------------------------
(***************************************************************************)
(* The safety of the socket path, for any number of processes, commands    *)
(* and inode numbers.                                                      *)
(***************************************************************************)
EXTENDS Socket, TLAPS

LockedPCs   == {"inspect", "dial", "recheck", "remove", "bind", "verify", "release"}
BoundPCs    == {"verify", "release", "serving"}
OwnerPCs    == {"recheck", "remove", "bind"} \cup BoundPCs \cup EndPCs

\* The locks are held by exactly those that are between taking and releasing them:
\* the startup lock by a daemon from the inspection of the path to the accept loop,
\* the lifecycle lock by a daemon of App.daemon from then to its end, or by an edit.
StartupInv == \A d \in Daemons : daemon[d].pc \in LockedPCs <=> startupLock = d
LifecycleInv ==
    guarded => /\ \A d \in Daemons : daemon[d].pc \notin {"none", "spawned", "launched"} <=> lifecycle = d
               /\ \A t \in Terminals : terminal[t].pc = "edit" <=> lifecycle = t

\* No end has overlapped with a start as long as raced is false.
RacedInv == ~raced => Starting = {} \/ Ending = {}

\* A listener is open from bind to closeActive.
ListenerInv == \A d \in Daemons : listener[d] # None => daemon[d].pc \in BoundPCs

\* One daemon at a time is past the check that the path is free, and the path names
\* its socket from bind on.
SoleInv ==
    guarded \/ ~raced =>
        /\ \A d, e \in Daemons : daemon[d].pc \in OwnerPCs /\ daemon[e].pc \in OwnerPCs => d = e
        /\ \A d \in Daemons : daemon[d].pc \in BoundPCs => path = listener[d] /\ path # None

\* Under the lifecycle lock the path is as the daemon found it.
FoundInv ==
    guarded => \A d \in Daemons : /\ daemon[d].pc \in {"dial", "recheck", "remove"} => path = daemon[d].info /\ path # None
                                  /\ daemon[d].pc = "bind" => path = None

\* The daemon will unlink the path when it ends.
Unlinks(d) ==
    \/ daemon[d].pc \in BoundPCs /\ listener[d] = path
    \/ daemon[d].pc \in EndPCs /\ daemon[d].info = path

\* A path that was not left over has a daemon that will unlink it, which knows it by
\* its inode.
ClearedInv ==
    /\ path # None /\ ~leftover => \E d \in Daemons : Unlinks(d)
    /\ \A d \in Daemons : daemon[d].pc \in {"release", "serving"} /\ path = listener[d] /\ path # None =>
          daemon[d].info = path

\* A start that nothing has disturbed: no daemon ends, nothing is edited, and once
\* the process is spawned a daemon is starting or serves.
UndisturbedInv ==
    \A t \in Terminals :
        /\ terminal[t].pc # "idle" => guarded
        /\ terminal[t].pc \in {"spawn", "poll"} /\ ~terminal[t].excuse =>
              /\ Ending = {}
              /\ \A u \in Terminals : terminal[u].pc # "edit"
        /\ terminal[t].pc = "poll" /\ ~terminal[t].excuse => Starting # {} \/ Reachable

\* The inductive invariant.
IInv ==
    /\ TypeOK /\ StartupInv /\ LifecycleInv /\ RacedInv /\ ListenerInv /\ SoleInv /\ FoundInv
    /\ ClearedInv /\ UndisturbedInv /\ StartTruthful

\* The invariant holds before the first process starts.
LEMMA InitIInv == Init => IInv
<1> SUFFICES ASSUME Init PROVE IInv
  OBVIOUS
<1> USE SocketAssumption
<1>1. TypeOK
  <2>1. Gone \in DaemonState /\ [ pc |-> "idle", said |-> None, excuse |-> FALSE ] \in TerminalState
    BY DEF DaemonState, TerminalState, Gone
  <2>2. daemon \in [Daemons -> DaemonState] /\ terminal \in [Terminals -> TerminalState]
    BY <2>1 DEF Init
  <2> QED
    <3>1. {guarded, raced, leftover} \subseteq BOOLEAN
      BY DEF Init
    <3>2. starts \in 0 .. MaxStarts
      BY DEF Init
    <3> QED
      BY <2>2, <3>1, <3>2 DEF Init, TypeOK
<1>2. StartupInv /\ LifecycleInv /\ ListenerInv /\ SoleInv /\ FoundInv
  BY DEF Init, Gone, StartupInv, LifecycleInv, ListenerInv, SoleInv, FoundInv, LockedPCs, BoundPCs, OwnerPCs, EndPCs
<1>3. RacedInv
  BY DEF Init, Gone, RacedInv, Starting, StartPCs
<1>4. ClearedInv /\ UndisturbedInv /\ StartTruthful
  BY DEF Init, Gone, ClearedInv, UndisturbedInv, StartTruthful
<1> QED
  BY <1>1, <1>2, <1>3, <1>4 DEF IInv

\* The starts that are told of a disturbance have an excuse, and nothing else about
\* the commands changes.
LEMMA Disturbed ==
    ASSUME TypeOK, Disturb
    PROVE  /\ terminal' \in [Terminals -> TerminalState]
           /\ \A t \in Terminals : /\ terminal'[t].pc = terminal[t].pc
                                   /\ terminal'[t].said = terminal[t].said
                                   /\ terminal[t].excuse => terminal'[t].excuse
                                   /\ terminal[t].pc \in {"spawn", "poll"} => terminal'[t].excuse
<1>1. \A t \in Terminals : /\ [terminal[t] EXCEPT !.excuse = TRUE] \in TerminalState
                           /\ [terminal[t] EXCEPT !.excuse = TRUE].pc = terminal[t].pc
                           /\ [terminal[t] EXCEPT !.excuse = TRUE].said = terminal[t].said
                           /\ [terminal[t] EXCEPT !.excuse = TRUE].excuse
  BY DEF TypeOK, TerminalState
<1> QED
  BY <1>1 DEF Disturb, TypeOK

\* What Release leaves of a daemon.
LEMMA Released ==
    ASSUME TypeOK, NEW d \in Daemons, Release(d)
    PROVE  /\ daemon' \in [Daemons -> DaemonState] /\ listener' \in [Daemons -> Inodes \cup {None}]
           /\ daemon'[d].pc = "none" /\ listener'[d] = None
           /\ \A e \in Daemons : e # d => daemon'[e] = daemon[e] /\ listener'[e] = listener[e]
           /\ startupLock' \in Daemons \cup {None} /\ lifecycle' \in Daemons \cup Terminals \cup {None}
           /\ startupLock' # d
           /\ startupLock # d => startupLock' = startupLock
           /\ startupLock = d => startupLock' = None
           /\ lifecycle # d => lifecycle' = lifecycle
           /\ lifecycle = d => lifecycle' = None
<1>1. Gone \in DaemonState /\ Gone.pc = "none"
  BY DEF Gone, DaemonState
<1> QED
  BY <1>1, SocketAssumption DEF Release, TypeOK

\* A daemon ends, for whatever reason.  The path may go with it if the daemon owns
\* it; if the path stays the daemon was not to unlink it, or the path is left over;
\* and the starts that wait either have an excuse by now or another daemon to find.
LEMMA LeaveIInv ==
    ASSUME IInv, NEW d \in Daemons, Release(d),
           UNCHANGED <<guarded, starts, raced>>,
           path' \in {path, None}, leftover' \in BOOLEAN,
           path' # path => daemon[d].pc \in OwnerPCs,
           path' # None /\ ~leftover' => ~leftover /\ ~Unlinks(d),
           \/ Disturb
           \/ /\ terminal' = terminal
              /\ (path' = path /\ (Starting \ {d} # {} \/ Reachable) /\ daemon[d].pc # "serving")
                 \/ Ending # {} \/ (\A t \in Terminals : terminal[t].pc = "poll" => terminal[t].excuse)
    PROVE  IInv'
<1> USE SocketAssumption
<1>1. /\ daemon' \in [Daemons -> DaemonState] /\ listener' \in [Daemons -> Inodes \cup {None}]
      /\ daemon'[d].pc = "none" /\ listener'[d] = None
      /\ \A e \in Daemons : e # d => daemon'[e] = daemon[e] /\ listener'[e] = listener[e]
      /\ startupLock' \in Daemons \cup {None} /\ lifecycle' \in Daemons \cup Terminals \cup {None}
      /\ startupLock' # d
      /\ startupLock # d => startupLock' = startupLock
      /\ startupLock = d => startupLock' = None
      /\ lifecycle # d => lifecycle' = lifecycle
      /\ lifecycle = d => lifecycle' = None
  BY Released DEF IInv
<1>2. /\ terminal' \in [Terminals -> TerminalState]
      /\ \A t \in Terminals : /\ terminal'[t].pc = terminal[t].pc
                              /\ terminal'[t].said = terminal[t].said
                              /\ terminal[t].excuse => terminal'[t].excuse
  BY Disturbed DEF IInv, TypeOK
<1>3. TypeOK'
  BY <1>1, <1>2 DEF IInv, TypeOK
<1>4. StartupInv'
  BY <1>1 DEF IInv, StartupInv, LockedPCs
<1>5. LifecycleInv'
  BY <1>1, <1>2 DEF IInv, LifecycleInv
<1>6. Starting' = Starting \ {d} /\ Ending' = Ending \ {d}
  BY <1>1 DEF Starting, Ending, StartPCs, EndPCs
<1>7. RacedInv'
  BY <1>6 DEF IInv, RacedInv
<1>8. ListenerInv'
  BY <1>1 DEF IInv, ListenerInv
<1>9. SoleInv'
  BY <1>1 DEF IInv, SoleInv, OwnerPCs, BoundPCs, EndPCs
<1>10. FoundInv'
  BY <1>1 DEF IInv, FoundInv, LifecycleInv, OwnerPCs, BoundPCs, EndPCs
<1>11. ClearedInv'
  BY <1>1 DEF IInv, ClearedInv, Unlinks, BoundPCs, EndPCs
<1>12. UndisturbedInv'
  <2>1. CASE Disturb
    BY <1>2, <1>6, <2>1, Disturbed DEF IInv, UndisturbedInv
  <2>2. CASE terminal' = terminal /\ Ending # {}
    BY <1>2, <1>6, <2>2 DEF IInv, UndisturbedInv
  <2>3. CASE terminal' = terminal /\ (\A t \in Terminals : terminal[t].pc = "poll" => terminal[t].excuse)
    BY <1>2, <1>6, <2>3 DEF IInv, UndisturbedInv
  <2>4. CASE terminal' = terminal /\ path' = path /\ (Starting \ {d} # {} \/ Reachable) /\ daemon[d].pc # "serving"
    <3>1. Reachable => Reachable'
      BY <1>1, <2>4 DEF Reachable, At
    <3> QED
      BY <1>2, <1>6, <2>4, <3>1 DEF IInv, UndisturbedInv
  <2> QED
    BY <2>1, <2>2, <2>3, <2>4
<1>13. StartTruthful'
  BY <1>2 DEF IInv, StartTruthful
<1> QED
  BY <1>3, <1>4, <1>5, <1>7, <1>8, <1>9, <1>10, <1>11, <1>12, <1>13 DEF IInv

\* A step within the start of a daemon, within its end, and from one to serving.
StartStep(d, r) == daemon[d].pc \in StartPCs /\ r.pc \in StartPCs
EndStep(d, r)   == daemon[d].pc \in EndPCs /\ r.pc \in EndPCs
ServeStep(d, r) == daemon[d].pc = "release" /\ r.pc = "serving"

\* A daemon goes on to the state r without touching the path.  If it passes the check
\* that the path is free, no other daemon has.
LEMMA AdvanceIInv ==
    ASSUME IInv, NEW d \in Daemons, NEW r \in DaemonState,
           daemon' = [daemon EXCEPT ![d] = r],
           UNCHANGED <<guarded, path, listener, terminal, starts, raced, leftover>>,
           startupLock' \in Daemons \cup {None}, lifecycle' \in Daemons \cup Terminals \cup {None},
           StartupInv', LifecycleInv',
           StartStep(d, r) \/ EndStep(d, r) \/ ServeStep(d, r),
           daemon[d].pc \in BoundPCs <=> r.pc \in BoundPCs,
           r.pc \in OwnerPCs /\ daemon[d].pc \notin OwnerPCs /\ (guarded \/ ~raced) =>
              \A e \in Daemons \ {d} : daemon[e].pc \notin OwnerPCs,
           guarded => /\ r.pc \in {"dial", "recheck", "remove"} => path = r.info /\ path # None
                      /\ r.pc = "bind" => path = None,
           r.pc \in EndPCs => r.info = daemon[d].info,
           r.pc \in {"release", "serving"} /\ path = listener[d] /\ path # None => r.info = path
    PROVE  IInv'
<1> USE SocketAssumption
<1>1. /\ daemon' \in [Daemons -> DaemonState] /\ daemon'[d] = r
      /\ \A e \in Daemons : e # d => daemon'[e] = daemon[e]
  BY DEF IInv, TypeOK
<1>2. TypeOK'
  BY <1>1 DEF IInv, TypeOK
<1>3. /\ Ending' = Ending
      /\ StartStep(d, r) => Starting' = Starting
      /\ ~StartStep(d, r) => Starting' = Starting \ {d}
  BY <1>1 DEF Starting, Ending, StartPCs, EndPCs, StartStep, EndStep, ServeStep
<1>4. RacedInv'
  BY <1>3 DEF IInv, RacedInv
<1>5. ListenerInv'
  BY <1>1 DEF IInv, ListenerInv
<1>6. SoleInv'
  BY <1>1 DEF IInv, SoleInv, OwnerPCs
<1>7. FoundInv'
  BY <1>1 DEF IInv, FoundInv
<1>8. ClearedInv'
  BY <1>1 DEF IInv, ClearedInv, Unlinks, EndStep, StartStep, ServeStep, BoundPCs, EndPCs, StartPCs
<1>9. UndisturbedInv'
  <2>1. Reachable => Reachable'
    BY <1>1 DEF Reachable, At, EndStep, StartStep, ServeStep, EndPCs, StartPCs
  <2>2. CASE StartStep(d, r)
    BY <1>3, <2>1, <2>2 DEF IInv, UndisturbedInv
  <2>3. CASE ServeStep(d, r)
    <3>1. guarded => Reachable'
      BY <1>1, <2>3 DEF IInv, SoleInv, Reachable, At, ServeStep, BoundPCs
    <3> QED
      BY <1>3, <3>1 DEF IInv, UndisturbedInv
  <2>4. CASE EndStep(d, r)
    <3>1. Ending # {}
      BY <2>4 DEF EndStep, Ending
    <3> QED
      BY <1>3, <3>1 DEF IInv, UndisturbedInv
  <2> QED
    BY <2>2, <2>3, <2>4
<1>10. StartTruthful'
  BY DEF IInv, StartTruthful
<1> QED
  BY <1>2, <1>4, <1>5, <1>6, <1>7, <1>8, <1>9, <1>10 DEF IInv

\* Under the lifecycle lock there is one daemon past it.
LEMMA Alone ==
    ASSUME IInv, guarded, NEW d \in Daemons, daemon[d].pc \notin {"none", "spawned", "launched"}
    PROVE  \A e \in Daemons : e # d => daemon[e].pc \in {"none", "spawned", "launched"}
BY DEF IInv, LifecycleInv

\* A daemon goes to a new pc and keeps what it knows.
LEMMA Went ==
    ASSUME TypeOK, NEW d \in Daemons, NEW pc \in {"serving"} \cup StartPCs \cup EndPCs, Goto(d, pc)
    PROVE  \E r \in DaemonState : daemon' = [daemon EXCEPT ![d] = r] /\ r.pc = pc /\ r.info = daemon[d].info
<1> DEFINE r == [daemon[d] EXCEPT !.pc = pc]
<1>1. r \in DaemonState /\ r.pc = pc /\ r.info = daemon[d].info
  BY DEF TypeOK, DaemonState
<1>2. daemon' = [daemon EXCEPT ![d] = r]
  BY DEF Goto
<1> QED
  BY <1>1, <1>2

\* App.daemon takes the lifecycle lock, or gives up.
LEMMA LifecycleIInv == ASSUME IInv, NEW d \in Daemons, Lifecycle(d) PROVE IInv'
<1> USE SocketAssumption
<1>1. /\ daemon[d].pc \in {"spawned", "launched"} /\ TypeOK
      /\ UNCHANGED <<guarded, path, terminal, starts, raced, leftover>>
  BY DEF Lifecycle, At, IInv
<1>2. CASE guarded /\ (lifecycle # None \/ Reachable)
  <2>1. Release(d)
    BY <1>2 DEF Lifecycle
  <2>2. \/ Starting \ {d} # {} \/ Reachable \/ Ending # {}
        \/ \E t \in Terminals : terminal[t].pc = "edit"
    <3> SUFFICES ASSUME ~Reachable, Ending = {}, \A t \in Terminals : terminal[t].pc # "edit"
                 PROVE  Starting \ {d} # {}
      OBVIOUS
    <3>1. PICK e \in Daemons : e # d /\ lifecycle = e /\ daemon[e].pc \notin {"none", "spawned", "launched"}
      BY <1>1, <1>2 DEF IInv, TypeOK, LifecycleInv
    <3>2. daemon[e].pc # "serving"
      BY <1>2, <3>1 DEF IInv, SoleInv, Reachable, At, BoundPCs
    <3>3. daemon[e].pc \in StartPCs
      BY <3>1, <3>2 DEF IInv, TypeOK, DaemonState, Ending, EndPCs
    <3> QED
      BY <3>1, <3>3 DEF Starting
  <2>3. /\ Starting \ {d} # {} \/ Reachable \/ Ending # {}
           \/ \A t \in Terminals : terminal[t].pc = "poll" => terminal[t].excuse
        /\ daemon[d].pc # "serving" /\ ~Unlinks(d) /\ leftover' \in BOOLEAN
    BY <1>1, <2>2 DEF IInv, UndisturbedInv, TypeOK, Unlinks, BoundPCs, EndPCs
  <2> QED
    BY <1>1, <2>1, <2>3, LeaveIInv
<1>3. CASE ~(guarded /\ (lifecycle # None \/ Reachable))
  <2>1. PICK r \in DaemonState :
           daemon' = [daemon EXCEPT ![d] = r] /\ r.pc \in {"prompt", "lock"} /\ r.info = daemon[d].info
    <3>1. PICK pc \in {"prompt", "lock"} : Goto(d, pc)
      BY <1>1, <1>3 DEF Lifecycle
    <3> QED
      BY <1>1, <3>1, Went DEF StartPCs
  <2>2. /\ lifecycle' = IF guarded THEN d ELSE lifecycle
        /\ UNCHANGED <<listener, startupLock>>
        /\ guarded => lifecycle = None
    BY <1>3 DEF Lifecycle
  <2>3. StartupInv'
    BY <1>1, <2>1, <2>2 DEF IInv, TypeOK, StartupInv, LockedPCs
  <2>4. LifecycleInv'
    BY <1>1, <2>1, <2>2 DEF IInv, TypeOK, LifecycleInv
  <2> QED
    BY <1>1, <2>1, <2>2, <2>3, <2>4, AdvanceIInv DEF StartStep, TypeOK, BoundPCs, OwnerPCs, StartPCs, EndPCs
<1> QED
  BY <1>2, <1>3

\* The password is entered.
LEMMA UnlockIInv == ASSUME IInv, NEW d \in Daemons, Unlock(d) PROVE IInv'
<1> USE SocketAssumption
<1>1. /\ daemon[d].pc = "prompt" /\ TypeOK
      /\ UNCHANGED <<guarded, path, listener, startupLock, lifecycle, terminal, starts, raced, leftover>>
  BY DEF Unlock, At, IInv, locks
<1>2. PICK r \in DaemonState : daemon' = [daemon EXCEPT ![d] = r] /\ r.pc = "lock" /\ r.info = daemon[d].info
  BY <1>1, Went DEF Unlock, StartPCs
<1>3. StartupInv' /\ LifecycleInv'
  BY <1>1, <1>2 DEF IInv, TypeOK, StartupInv, LifecycleInv, LockedPCs
<1> QED
  BY <1>1, <1>2, <1>3, AdvanceIInv DEF StartStep, TypeOK, BoundPCs, OwnerPCs, StartPCs, EndPCs

\* A server gives up and touches nothing: outside App.daemon, where no start waits for
\* it, or at its end.
LEMMA GiveUpIInv ==
    ASSUME IInv, NEW d \in Daemons, Release(d), path # None => ~Unlinks(d),
           UNCHANGED <<guarded, path, terminal, starts, raced, leftover>>,
           ~guarded \/ daemon[d].pc \in EndPCs
    PROVE  IInv'
<1>1. Ending # {} \/ \A t \in Terminals : terminal[t].pc = "poll" => terminal[t].excuse
  BY DEF IInv, UndisturbedInv, Ending
<1>2. leftover' \in BOOLEAN
  BY DEF IInv, TypeOK
<1> QED
  BY <1>1, <1>2, LeaveIInv

\* acquireStartupLock.
LEMMA StartupLockIInv == ASSUME IInv, NEW d \in Daemons, StartupLock(d) PROVE IInv'
<1> USE SocketAssumption
<1>1. daemon[d].pc = "lock" /\ UNCHANGED <<guarded, path, terminal, starts, raced, leftover>> /\ TypeOK
  BY DEF StartupLock, At, IInv
<1>2. CASE startupLock # None
  <2>1. ~guarded
    <3>1. PICK e \in Daemons : startupLock = e /\ daemon[e].pc \in LockedPCs
      BY <1>1, <1>2 DEF TypeOK, IInv, StartupInv
    <3> QED
      BY <1>1, <3>1, Alone DEF LockedPCs
  <2> QED
    BY <1>1, <1>2, <2>1, GiveUpIInv DEF StartupLock, Unlinks, BoundPCs, EndPCs
<1>3. CASE startupLock = None
  <2>1. PICK r \in DaemonState : daemon' = [daemon EXCEPT ![d] = r] /\ r.pc = "inspect" /\ r.info = daemon[d].info
    BY <1>1, <1>3, Went DEF StartupLock, StartPCs
  <2>2. startupLock' = d /\ UNCHANGED <<listener, lifecycle>>
    BY <1>3 DEF StartupLock
  <2>3. StartupInv'
    BY <1>1, <1>3, <2>1, <2>2 DEF IInv, TypeOK, StartupInv, LockedPCs
  <2>4. LifecycleInv'
    BY <1>1, <2>1, <2>2 DEF IInv, TypeOK, LifecycleInv
  <2> QED
    BY <1>1, <2>1, <2>2, <2>3, <2>4, AdvanceIInv DEF StartStep, TypeOK, BoundPCs, OwnerPCs, StartPCs, EndPCs
<1> QED
  BY <1>2, <1>3

\* A daemon that holds the startup lock, and that finds the path free or refusing, is
\* the only one that owns it.
LEMMA FreePath ==
    ASSUME IInv, guarded \/ ~raced, NEW d \in Daemons, daemon[d].pc \in {"inspect", "dial"},
           path = None \/ ~Connects
    PROVE  \A e \in Daemons \ {d} : daemon[e].pc \notin OwnerPCs
<1> SUFFICES ASSUME NEW e \in Daemons, e # d, daemon[e].pc \in OwnerPCs PROVE FALSE
  OBVIOUS
<1>1. ~guarded
  BY Alone DEF OwnerPCs, BoundPCs, EndPCs
<1>2. daemon[e].pc \notin LockedPCs
  BY DEF IInv, StartupInv, LockedPCs
<1>3. daemon[e].pc \notin EndPCs
  BY <1>1 DEF IInv, RacedInv, Starting, Ending, StartPCs
<1>4. daemon[e].pc = "serving"
  BY <1>2, <1>3 DEF OwnerPCs, BoundPCs, LockedPCs
<1>5. path = listener[e] /\ path # None
  BY <1>4 DEF IInv, SoleInv, BoundPCs
<1> QED
  BY <1>5 DEF Connects

\* The first lstat of prepareSocketPath.
LEMMA InspectIInv == ASSUME IInv, NEW d \in Daemons, Inspect(d) PROVE IInv'
<1> USE SocketAssumption
<1>1. daemon[d].pc = "inspect" /\ UNCHANGED <<guarded, path, listener, startupLock, lifecycle, terminal, starts, raced, leftover>> /\ TypeOK
  BY DEF Inspect, At, IInv, locks
<1> DEFINE r == [pc |-> IF path = None THEN "bind" ELSE "dial", info |-> path]
<1>2. /\ daemon' = [daemon EXCEPT ![d] = r] /\ r \in DaemonState /\ r.info = path
      /\ path = None => r.pc = "bind"
      /\ path # None => r.pc = "dial"
      /\ r.pc \in {"dial", "bind"}
  BY <1>1 DEF Inspect, TypeOK, DaemonState, StartPCs
<1> HIDE DEF r
<1>3. StartupInv'
  BY <1>1, <1>2 DEF IInv, TypeOK, StartupInv, LockedPCs
<1>4. LifecycleInv'
  BY <1>1, <1>2 DEF IInv, TypeOK, LifecycleInv
<1>5. r.pc \in OwnerPCs /\ (guarded \/ ~raced) => \A e \in Daemons \ {d} : daemon[e].pc \notin OwnerPCs
  BY <1>1, <1>2, FreePath DEF OwnerPCs, BoundPCs, EndPCs
<1> QED
  BY <1>1, <1>2, <1>3, <1>4, <1>5, AdvanceIInv DEF StartStep, TypeOK, BoundPCs, StartPCs, EndPCs

\* The connection attempt of prepareSocketPath.
LEMMA DialIInv == ASSUME IInv, NEW d \in Daemons, Dial(d) PROVE IInv'
<1> USE SocketAssumption
<1>1. daemon[d].pc = "dial" /\ UNCHANGED <<guarded, path, terminal, starts, raced, leftover>> /\ TypeOK
  BY DEF Dial, At, IInv
<1>2. CASE Connects
  <2>1. ~guarded
    BY <1>1, <1>2, Alone DEF Connects, IInv, ListenerInv, BoundPCs
  <2> QED
    BY <1>1, <1>2, <2>1, GiveUpIInv DEF Dial, Unlinks, BoundPCs, EndPCs
<1>3. CASE ~Connects
  <2>1. PICK r \in DaemonState : daemon' = [daemon EXCEPT ![d] = r] /\ r.pc = "recheck" /\ r.info = daemon[d].info
    BY <1>1, <1>3, Went DEF Dial, StartPCs
  <2>2. UNCHANGED <<listener, startupLock, lifecycle>>
    BY <1>3 DEF Dial, locks
  <2>3. StartupInv'
    BY <1>1, <2>1, <2>2 DEF IInv, TypeOK, StartupInv, LockedPCs
  <2>4. LifecycleInv'
    BY <1>1, <2>1, <2>2 DEF IInv, TypeOK, LifecycleInv
  <2>5. guarded \/ ~raced => \A e \in Daemons \ {d} : daemon[e].pc \notin OwnerPCs
    BY <1>1, <1>3, FreePath
  <2>6. guarded => path = r.info /\ path # None
    BY <1>1, <2>1 DEF IInv, FoundInv
  <2> QED
    BY <1>1, <2>1, <2>2, <2>3, <2>4, <2>5, <2>6, AdvanceIInv DEF StartStep, TypeOK, BoundPCs, OwnerPCs, StartPCs, EndPCs
<1> QED
  BY <1>2, <1>3

\* The second lstat of prepareSocketPath.
LEMMA RecheckIInv == ASSUME IInv, NEW d \in Daemons, Recheck(d) PROVE IInv'
<1> USE SocketAssumption
<1>1. daemon[d].pc = "recheck" /\ UNCHANGED <<guarded, path, terminal, starts, raced, leftover>> /\ TypeOK
  BY DEF Recheck, At, IInv
<1>2. CASE path # daemon[d].info
  <2>1. ~guarded
    BY <1>1, <1>2 DEF IInv, FoundInv
  <2> QED
    BY <1>1, <1>2, <2>1, GiveUpIInv DEF Recheck, Unlinks, BoundPCs, EndPCs
<1>3. CASE path = daemon[d].info
  <2>1. PICK r \in DaemonState : daemon' = [daemon EXCEPT ![d] = r] /\ r.pc = "remove" /\ r.info = daemon[d].info
    BY <1>1, <1>3, Went DEF Recheck, StartPCs
  <2>2. UNCHANGED <<listener, startupLock, lifecycle>>
    BY <1>3 DEF Recheck, locks
  <2>3. StartupInv'
    BY <1>1, <2>1, <2>2 DEF IInv, TypeOK, StartupInv, LockedPCs
  <2>4. LifecycleInv'
    BY <1>1, <2>1, <2>2 DEF IInv, TypeOK, LifecycleInv
  <2>5. guarded => path = r.info /\ path # None
    BY <1>1, <2>1 DEF IInv, FoundInv
  <2> QED
    BY <1>1, <2>1, <2>2, <2>3, <2>4, <2>5, AdvanceIInv DEF StartStep, TypeOK, BoundPCs, OwnerPCs, StartPCs, EndPCs
<1> QED
  BY <1>2, <1>3

\* The socket that an earlier daemon left is unlinked.
LEMMA RemoveIInv == ASSUME IInv, NEW d \in Daemons, Remove(d) PROVE IInv'
<1> USE SocketAssumption
<1>1. daemon[d].pc = "remove" /\ path' = None /\ UNCHANGED <<guarded, terminal, starts, raced, leftover>> /\ TypeOK
  BY DEF Remove, At, IInv
<1>2. CASE path = None
  <2>1. ~guarded
    BY <1>1, <1>2 DEF IInv, FoundInv
  <2> QED
    BY <1>1, <1>2, <2>1, GiveUpIInv DEF Remove
<1>3. CASE path # None
  <2>1. PICK r \in DaemonState : daemon' = [daemon EXCEPT ![d] = r] /\ r.pc = "bind" /\ r.info = daemon[d].info
    BY <1>1, <1>3, Went DEF Remove, StartPCs
  <2>2. UNCHANGED <<listener, startupLock, lifecycle>>
    BY <1>3 DEF Remove, locks
  <2>3. /\ daemon' \in [Daemons -> DaemonState] /\ daemon'[d] = r
        /\ \A e \in Daemons : e # d => daemon'[e] = daemon[e]
    BY <2>1 DEF IInv, TypeOK
  <2>4. TypeOK'
    BY <1>1, <2>2, <2>3 DEF TypeOK
  <2>5. StartupInv' /\ LifecycleInv' /\ ListenerInv'
    BY <1>1, <2>1, <2>2, <2>3 DEF IInv, StartupInv, LifecycleInv, ListenerInv, LockedPCs, BoundPCs
  <2>6. Starting' = Starting /\ Ending' = Ending /\ d \in Starting
    BY <1>1, <2>1, <2>3 DEF Starting, Ending, StartPCs, EndPCs
  <2>7. RacedInv'
    BY <1>1, <2>6 DEF IInv, RacedInv
  <2>8. SoleInv'
    BY <1>1, <2>1, <2>2, <2>3 DEF IInv, SoleInv, OwnerPCs, BoundPCs, EndPCs
  <2>9. FoundInv'
    BY <1>1, <2>1, <2>3, Alone DEF IInv, FoundInv
  <2>10. ClearedInv'
    BY <1>1 DEF ClearedInv
  <2>11. UndisturbedInv' /\ StartTruthful'
    BY <1>1, <2>6 DEF IInv, UndisturbedInv, StartTruthful
  <2> QED
    BY <2>4, <2>5, <2>7, <2>8, <2>9, <2>10, <2>11 DEF IInv
<1> QED
  BY <1>2, <1>3

\* bind and listen.
LEMMA BindIInv == ASSUME IInv, NEW d \in Daemons, Bind(d) PROVE IInv'
<1> USE SocketAssumption
<1>1. daemon[d].pc = "bind" /\ UNCHANGED <<guarded, terminal, starts, raced>> /\ TypeOK
  BY DEF Bind, At, IInv
<1>2. CASE path # None
  <2>1. ~guarded
    BY <1>1, <1>2 DEF IInv, FoundInv
  <2> QED
    BY <1>1, <1>2, <2>1, GiveUpIInv DEF Bind, Unlinks, BoundPCs, EndPCs
<1>3. CASE path = None
  <2>1. PICK i \in Inodes : /\ \A e \in Daemons : listener[e] # i
                            /\ path' = i /\ listener' = [listener EXCEPT ![d] = i] /\ leftover' = FALSE
                            /\ Goto(d, "verify") /\ UNCHANGED locks
    BY <1>3 DEF Bind
  <2>2. PICK r \in DaemonState : daemon' = [daemon EXCEPT ![d] = r] /\ r.pc = "verify" /\ r.info = daemon[d].info
    BY <1>1, <2>1, Went DEF StartPCs
  <2>3. /\ daemon' \in [Daemons -> DaemonState] /\ daemon'[d] = r
        /\ \A e \in Daemons : e # d => daemon'[e] = daemon[e] /\ listener'[e] = listener[e]
        /\ listener' \in [Daemons -> Inodes \cup {None}] /\ listener'[d] = i
        /\ UNCHANGED <<startupLock, lifecycle>>
    BY <2>1, <2>2 DEF IInv, TypeOK, locks
  <2>4. TypeOK'
    BY <1>1, <2>1, <2>3 DEF TypeOK
  <2>5. StartupInv' /\ LifecycleInv' /\ ListenerInv'
    BY <1>1, <2>2, <2>3 DEF IInv, StartupInv, LifecycleInv, ListenerInv, LockedPCs, BoundPCs
  <2>6. Starting' = Starting /\ Ending' = Ending /\ d \in Starting
    BY <1>1, <2>2, <2>3 DEF Starting, Ending, StartPCs, EndPCs
  <2>7. RacedInv'
    BY <1>1, <2>6 DEF IInv, RacedInv
  <2>8. SoleInv'
    BY <1>1, <2>1, <2>2, <2>3 DEF IInv, SoleInv, OwnerPCs, BoundPCs, EndPCs
  <2>9. FoundInv'
    BY <1>1, <2>2, <2>3, Alone DEF IInv, FoundInv
  <2>10. ClearedInv'
    <3>1. Unlinks(d)'
      BY <2>1, <2>2, <2>3 DEF Unlinks, BoundPCs
    <3> QED
      BY <2>1, <2>2, <2>3, <3>1 DEF ClearedInv
  <2>11. UndisturbedInv' /\ StartTruthful'
    BY <1>1, <2>6 DEF IInv, UndisturbedInv, StartTruthful
  <2> QED
    BY <2>4, <2>5, <2>7, <2>8, <2>9, <2>10, <2>11 DEF IInv
<1> QED
  BY <1>2, <1>3

\* chmod and lstat of the new socket.
LEMMA VerifyIInv == ASSUME IInv, NEW d \in Daemons, Verify(d) PROVE IInv'
<1> USE SocketAssumption
<1>1. daemon[d].pc = "verify" /\ UNCHANGED <<guarded, path, terminal, starts, raced, leftover>> /\ TypeOK
  BY DEF Verify, At, IInv
<1>2. CASE path = None
  <2>1. ~guarded
    BY <1>1, <1>2 DEF IInv, SoleInv, BoundPCs
  <2> QED
    BY <1>1, <1>2, <2>1, GiveUpIInv DEF Verify
<1>3. CASE path # None
  <2> DEFINE r == [pc |-> "release", info |-> path]
  <2>1. daemon' = [daemon EXCEPT ![d] = r] /\ r.pc = "release" /\ r.info = path /\ r \in DaemonState
    BY <1>1, <1>3 DEF Verify, TypeOK, DaemonState, StartPCs
  <2>2. UNCHANGED <<listener, startupLock, lifecycle>>
    BY <1>3 DEF Verify, locks
  <2> HIDE DEF r
  <2>3. StartupInv'
    BY <1>1, <2>1, <2>2 DEF IInv, TypeOK, StartupInv, LockedPCs
  <2>4. LifecycleInv'
    BY <1>1, <2>1, <2>2 DEF IInv, TypeOK, LifecycleInv
  <2> QED
    BY <1>1, <2>1, <2>2, <2>3, <2>4, AdvanceIInv DEF StartStep, TypeOK, BoundPCs, OwnerPCs, StartPCs, EndPCs
<1> QED
  BY <1>2, <1>3

\* The startup lock is released and the accept loop begins.
LEMMA ServeIInv == ASSUME IInv, NEW d \in Daemons, Serve(d) PROVE IInv'
<1> USE SocketAssumption
<1>1. /\ daemon[d].pc = "release" /\ startupLock' = None /\ TypeOK
      /\ UNCHANGED <<guarded, path, listener, lifecycle, terminal, starts, raced, leftover>>
  BY DEF Serve, At, IInv
<1>2. PICK r \in DaemonState : daemon' = [daemon EXCEPT ![d] = r] /\ r.pc = "serving" /\ r.info = daemon[d].info
  BY <1>1, Went DEF Serve
<1>3. StartupInv'
  BY <1>1, <1>2 DEF IInv, TypeOK, StartupInv, LockedPCs
<1>4. LifecycleInv'
  BY <1>1, <1>2 DEF IInv, TypeOK, LifecycleInv
<1>5. path = listener[d] /\ path # None => r.info = path
  BY <1>1, <1>2 DEF IInv, ClearedInv
<1> QED
  BY <1>1, <1>2, <1>3, <1>4, <1>5, AdvanceIInv DEF ServeStep, TypeOK, BoundPCs, OwnerPCs, EndPCs

\* shutdown compares the path with the daemon's own socket.
LEMMA ShutdownCheckIInv == ASSUME IInv, NEW d \in Daemons, ShutdownCheck(d) PROVE IInv'
<1> USE SocketAssumption
<1>1. daemon[d].pc = "closed" /\ UNCHANGED <<guarded, path, terminal, starts, raced, leftover>> /\ TypeOK
  BY DEF ShutdownCheck, At, IInv
<1>2. CASE path # daemon[d].info
  BY <1>1, <1>2, GiveUpIInv DEF ShutdownCheck, Unlinks, BoundPCs, EndPCs
<1>3. CASE path = daemon[d].info
  <2>1. PICK r \in DaemonState : daemon' = [daemon EXCEPT ![d] = r] /\ r.pc = "checked" /\ r.info = daemon[d].info
    BY <1>1, <1>3, Went DEF ShutdownCheck, EndPCs
  <2>2. UNCHANGED <<listener, startupLock, lifecycle>>
    BY <1>3 DEF ShutdownCheck, locks
  <2>3. StartupInv'
    BY <1>1, <2>1, <2>2 DEF IInv, TypeOK, StartupInv, LockedPCs
  <2>4. LifecycleInv'
    BY <1>1, <2>1, <2>2 DEF IInv, TypeOK, LifecycleInv
  <2> QED
    BY <1>1, <2>1, <2>2, <2>3, <2>4, AdvanceIInv DEF EndStep, TypeOK, BoundPCs, OwnerPCs, EndPCs
<1> QED
  BY <1>2, <1>3

\* shutdown unlinks the path, a call of the start fails, or the process is killed.
LEMMA EndIInv ==
    ASSUME IInv, NEW d \in Daemons, ShutdownRemove(d) \/ CallFails(d) \/ Crash(d)
    PROVE  IInv'
<1> USE SocketAssumption
<1>1. TypeOK
  BY DEF IInv
<1>2. CASE ShutdownRemove(d)
  <2>1. daemon[d].pc = "checked" /\ Release(d) /\ UNCHANGED <<guarded, terminal, starts, raced>>
    BY <1>2 DEF ShutdownRemove, At
  <2>2. (path' = None /\ leftover' = FALSE) \/ (path' = path /\ leftover' = (path # None))
    BY <1>2 DEF ShutdownRemove
  <2>3. Ending # {} /\ daemon[d].pc \in OwnerPCs
    BY <2>1 DEF Ending, EndPCs, OwnerPCs
  <2> QED
    BY <2>1, <2>2, <2>3, LeaveIInv
<1>3. CASE CallFails(d)
  <2>1. daemon[d].pc \in StartPCs \ {"release"} /\ Release(d) /\ Disturb /\ UNCHANGED <<guarded, starts, raced>>
    BY <1>3 DEF CallFails
  <2>2. /\ path' \in {path, None} /\ leftover' \in BOOLEAN
        /\ path' # path => daemon[d].pc = "verify"
        /\ path' # None /\ ~leftover' => ~leftover /\ daemon[d].pc # "verify"
    BY <1>1, <1>3 DEF CallFails, At, TypeOK
  <2>3. daemon[d].pc # "verify" => ~Unlinks(d)
    BY <2>1 DEF Unlinks, BoundPCs, StartPCs, EndPCs
  <2> QED
    BY <2>1, <2>2, <2>3, LeaveIInv DEF OwnerPCs, BoundPCs
<1>4. CASE Crash(d)
  <2>1. Release(d) /\ Disturb /\ UNCHANGED <<guarded, path, starts, raced>>
    BY <1>4 DEF Crash
  <2>2. leftover' \in BOOLEAN /\ (path' # None /\ ~leftover' => ~leftover /\ ~Unlinks(d))
    BY <1>1, <1>4, <2>1 DEF Crash, TypeOK, Unlinks
  <2> QED
    BY <2>1, <2>2, LeaveIInv
<1> QED
  BY <1>2, <1>3, <1>4

\* A daemon stops serving.
LEMMA StopIInv == ASSUME IInv, NEW d \in Daemons, Stop(d) PROVE IInv'
<1> USE SocketAssumption
<1>1. /\ daemon[d].pc = "serving" /\ TypeOK
      /\ listener' = [listener EXCEPT ![d] = None]
      /\ Disturb /\ UNCHANGED <<guarded, path, startupLock, lifecycle, starts, leftover>>
  BY DEF Stop, At, IInv, locks
<1>2. PICK r \in DaemonState : daemon' = [daemon EXCEPT ![d] = r] /\ r.pc = "closed" /\ r.info = daemon[d].info
  BY <1>1, Went DEF Stop, EndPCs
<1>3. /\ daemon' \in [Daemons -> DaemonState] /\ daemon'[d] = r
      /\ \A e \in Daemons : e # d => daemon'[e] = daemon[e] /\ listener'[e] = listener[e]
      /\ listener' \in [Daemons -> Inodes \cup {None}] /\ listener'[d] = None
  BY <1>1, <1>2 DEF TypeOK
<1>4. /\ terminal' \in [Terminals -> TerminalState]
      /\ \A t \in Terminals : /\ terminal'[t].pc = terminal[t].pc
                              /\ terminal'[t].said = terminal[t].said
                              /\ terminal[t].excuse => terminal'[t].excuse
                              /\ terminal[t].pc \in {"spawn", "poll"} => terminal'[t].excuse
  BY <1>1, Disturbed
<1>5. raced' = (raced \/ Starting \ {d} # {})
  BY <1>2, <1>3 DEF Stop, Overlap, EndPCs
<1>6. TypeOK'
  BY <1>1, <1>3, <1>4, <1>5 DEF TypeOK
<1>7. StartupInv' /\ LifecycleInv' /\ ListenerInv'
  BY <1>1, <1>2, <1>3, <1>4 DEF IInv, StartupInv, LifecycleInv, ListenerInv, LockedPCs, BoundPCs
<1>8. Starting' = Starting /\ d \notin Starting
  BY <1>1, <1>2, <1>3 DEF Starting, StartPCs
<1>9. RacedInv'
  BY <1>5, <1>8 DEF RacedInv
<1>10. SoleInv'
  <2>1. \A e \in Daemons : daemon'[e].pc \in OwnerPCs => daemon[e].pc \in OwnerPCs
    BY <1>1, <1>3 DEF OwnerPCs, BoundPCs
  <2>2. \A e \in Daemons : daemon'[e].pc \in BoundPCs => e # d /\ daemon[e].pc \in BoundPCs /\ listener'[e] = listener[e]
    BY <1>2, <1>3 DEF BoundPCs
  <2>3. guarded' = guarded /\ path' = path /\ (~raced' => ~raced)
    BY <1>1, <1>5
  <2>4. SoleInv
    BY DEF IInv
  <2> QED
    BY <2>1, <2>2, <2>3, <2>4 DEF SoleInv
<1>11. FoundInv'
  BY <1>1, <1>2, <1>3 DEF IInv, FoundInv
<1>12. ClearedInv'
  BY <1>1, <1>2, <1>3 DEF IInv, ClearedInv, Unlinks, BoundPCs, EndPCs
<1>13. UndisturbedInv' /\ StartTruthful'
  BY <1>1, <1>4 DEF IInv, UndisturbedInv, StartTruthful
<1> QED
  BY <1>6, <1>7, <1>9, <1>10, <1>11, <1>12, <1>13 DEF IInv

\* A process is launched, by a user or by `start`.
LEMMA SpawnedIInv ==
    ASSUME IInv, NEW d \in Daemons, NEW pc \in {"spawned", "launched"}, daemon[d].pc = "none", Goto(d, pc),
           Overlap(d, StartPCs, Ending), starts' \in 0 .. MaxStarts,
           UNCHANGED <<guarded, path, listener, startupLock, lifecycle, leftover>>,
           \/ terminal' = terminal
           \/ \E t \in Terminals : terminal[t].pc = "spawn" /\ terminal' = [terminal EXCEPT ![t].pc = "poll"]
    PROVE  IInv'
<1> USE SocketAssumption
<1>1. PICK r \in DaemonState : daemon' = [daemon EXCEPT ![d] = r] /\ r.pc = pc /\ r.info = daemon[d].info
  BY Went DEF IInv, StartPCs
<1>2. /\ daemon' \in [Daemons -> DaemonState] /\ daemon'[d] = r
      /\ \A e \in Daemons : e # d => daemon'[e] = daemon[e]
  BY <1>1 DEF IInv, TypeOK
<1>3. raced' = (raced \/ Ending \ {d} # {})
  BY <1>1, <1>2 DEF Overlap, StartPCs
<1>4. /\ terminal' \in [Terminals -> TerminalState]
      /\ \A t \in Terminals : /\ terminal'[t].pc = terminal[t].pc \/ (terminal[t].pc = "spawn" /\ terminal'[t].pc = "poll")
                              /\ terminal'[t].said = terminal[t].said
                              /\ terminal[t].excuse = terminal'[t].excuse
  <2>1. CASE terminal' = terminal
    BY <2>1 DEF IInv, TypeOK
  <2>2. ASSUME NEW t \in Terminals, terminal[t].pc = "spawn", terminal' = [terminal EXCEPT ![t].pc = "poll"]
        PROVE  <1>4!:
    <3>1. [terminal[t] EXCEPT !.pc = "poll"] \in TerminalState
      BY DEF IInv, TypeOK, TerminalState
    <3> QED
      BY <2>2, <3>1 DEF IInv, TypeOK, TerminalState
  <2> QED
    BY <2>1, <2>2
<1>5. TypeOK'
  BY <1>2, <1>3, <1>4 DEF IInv, TypeOK
<1>6. StartupInv' /\ LifecycleInv' /\ ListenerInv'
  BY <1>1, <1>2, <1>4 DEF IInv, StartupInv, LifecycleInv, ListenerInv, LockedPCs, BoundPCs
<1>7. Starting' = Starting \cup {d} /\ Ending' = Ending /\ d \notin Ending
  BY <1>1, <1>2 DEF Starting, Ending, StartPCs, EndPCs
<1>8. RacedInv'
  BY <1>3, <1>7 DEF RacedInv
<1>9. SoleInv'
  BY <1>1, <1>2, <1>3 DEF IInv, SoleInv, OwnerPCs, BoundPCs, EndPCs
<1>10. FoundInv'
  BY <1>1, <1>2 DEF IInv, FoundInv
<1>11. ClearedInv'
  BY <1>1, <1>2 DEF IInv, ClearedInv, Unlinks, BoundPCs, EndPCs
<1>12. UndisturbedInv' /\ StartTruthful'
  BY <1>4, <1>7 DEF IInv, UndisturbedInv, StartTruthful
<1> QED
  BY <1>5, <1>6, <1>8, <1>9, <1>10, <1>11, <1>12 DEF IInv

\* `start` finds a daemon, before or after it has spawned one, or does not.
LEMMA CommandIInv == ASSUME IInv, NEW t \in Terminals, StartCommand(t) \/ Poll(t) PROVE IInv'
<1> USE SocketAssumption
<1>1. /\ UNCHANGED <<guarded, path, listener, startupLock, lifecycle, daemon, raced, leftover>>
      /\ starts' \in 0 .. MaxStarts
  BY DEF StartCommand, Poll, IInv, TypeOK, locks
<1>2. PICK r \in TerminalState :
         /\ terminal' = [terminal EXCEPT ![t] = r]
         /\ terminal[t].pc # "edit" /\ r.pc \in {"idle", "spawn"}
         /\ r.pc = "spawn" => guarded
         /\ r.pc = "spawn" /\ ~r.excuse => Ending = {} /\ \A u \in Terminals : terminal[u].pc # "edit"
         /\ r.said = "unavailable" => r.excuse
  <2>1. CASE StartCommand(t) /\ Reachable
    <3>1. [pc |-> "idle", said |-> "started", excuse |-> FALSE] \in TerminalState
      BY DEF TerminalState
    <3> QED
      BY <2>1, <3>1 DEF StartCommand
  <2>2. CASE StartCommand(t) /\ ~Reachable
    <3> DEFINE ex == Ending # {} \/ \E u \in Terminals : terminal[u].pc = "edit"
               r == [pc |-> "spawn", said |-> None, excuse |-> ex]
    <3>1. r \in TerminalState /\ r.pc = "spawn" /\ r.said # "unavailable" /\ r.excuse = ex
      BY DEF TerminalState
    <3> QED
      BY <2>2, <3>1 DEF StartCommand
  <2>3. CASE Poll(t)
    <3>1. PICK said \in {"started", "unavailable", "late"} :
             /\ terminal[t].pc = "poll"
             /\ terminal' = [terminal EXCEPT ![t].pc = "idle", ![t].said = said]
             /\ said = "unavailable" => ~Reachable /\ Starting = {}
      BY <2>3 DEF Poll
    <3> DEFINE r == [terminal[t] EXCEPT !.pc = "idle", !.said = said]
    <3>2. r \in TerminalState /\ r.pc = "idle" /\ r.said = said /\ r.excuse = terminal[t].excuse
      BY DEF IInv, TypeOK, TerminalState
    <3>3. terminal' = [terminal EXCEPT ![t] = r]
      BY <3>1 DEF IInv, TypeOK, TerminalState
    <3>4. said = "unavailable" => terminal[t].excuse
      BY <3>1 DEF IInv, UndisturbedInv
    <3> QED
      BY <3>1, <3>2, <3>3, <3>4
  <2> QED
    BY <2>1, <2>2, <2>3
<1>3. /\ terminal' \in [Terminals -> TerminalState] /\ terminal'[t] = r
      /\ \A u \in Terminals : u # t => terminal'[u] = terminal[u]
  BY <1>2 DEF IInv, TypeOK
<1>4. TypeOK'
  BY <1>1, <1>3 DEF IInv, TypeOK
<1>5. StartupInv' /\ RacedInv' /\ ListenerInv' /\ SoleInv' /\ FoundInv' /\ ClearedInv'
  BY <1>1 DEF IInv, StartupInv, RacedInv, ListenerInv, SoleInv, FoundInv, ClearedInv, Unlinks, Starting, Ending
<1>6. LifecycleInv'
  BY <1>1, <1>2, <1>3 DEF IInv, LifecycleInv
<1>7. Ending' = Ending /\ Starting' = Starting /\ (Reachable' <=> Reachable)
  BY <1>1 DEF Starting, Ending, Reachable, At
<1>8. UndisturbedInv' /\ StartTruthful'
  BY <1>1, <1>2, <1>3, <1>7 DEF IInv, UndisturbedInv, StartTruthful
<1> QED
  BY <1>4, <1>5, <1>6, <1>8 DEF IInv

\* An edit takes the lifecycle lock, and releases it.
LEMMA EditIInv == ASSUME IInv, NEW t \in Terminals, EditBegin(t) \/ EditEnd(t) PROVE IInv'
<1> USE SocketAssumption
<1>1. UNCHANGED <<guarded, path, listener, startupLock, daemon, starts, raced, leftover>> /\ TypeOK
  BY DEF EditBegin, EditEnd, IInv
<1>2. StartupInv' /\ RacedInv' /\ ListenerInv' /\ SoleInv' /\ FoundInv' /\ ClearedInv'
  BY <1>1 DEF IInv, StartupInv, RacedInv, ListenerInv, SoleInv, FoundInv, ClearedInv, Unlinks, Starting, Ending
<1>3. Ending' = Ending /\ Starting' = Starting /\ (Reachable' <=> Reachable)
  BY <1>1 DEF Starting, Ending, Reachable, At
<1>4. CASE EditBegin(t)
  <2>1. /\ guarded /\ terminal[t].pc = "idle" /\ lifecycle = None /\ lifecycle' = t
        /\ terminal' = [u \in Terminals |->
              IF u = t THEN [pc |-> "edit", said |-> None, excuse |-> TRUE]
                       ELSE [terminal[u] EXCEPT !.excuse = TRUE]]
    BY <1>4 DEF EditBegin
  <2>2. [pc |-> "edit", said |-> None, excuse |-> TRUE] \in TerminalState
    BY DEF TerminalState
  <2>3. \A u \in Terminals : [terminal[u] EXCEPT !.excuse = TRUE] \in TerminalState
    BY <1>1 DEF TypeOK, TerminalState
  <2>4. /\ terminal' \in [Terminals -> TerminalState]
        /\ terminal'[t].pc = "edit" /\ terminal'[t].said = None
        /\ \A u \in Terminals : u # t => /\ terminal'[u].pc = terminal[u].pc
                                         /\ terminal'[u].said = terminal[u].said
                                         /\ terminal[u].excuse => terminal'[u].excuse
                                         /\ terminal[u].pc \in {"spawn", "poll"} => terminal'[u].excuse
    BY <1>1, <2>1, <2>2, <2>3 DEF TypeOK, TerminalState
  <2>5. TypeOK'
    BY <1>1, <2>1, <2>4 DEF TypeOK
  <2>6. LifecycleInv'
    BY <1>1, <2>1, <2>4 DEF IInv, LifecycleInv
  <2>7. UndisturbedInv' /\ StartTruthful'
    BY <1>1, <2>1, <2>4 DEF IInv, UndisturbedInv, StartTruthful
  <2> QED
    BY <1>2, <2>5, <2>6, <2>7 DEF IInv
<1>5. CASE EditEnd(t)
  <2>1. terminal[t].pc = "edit" /\ lifecycle' = None /\ terminal' = [terminal EXCEPT ![t].pc = "idle"]
    BY <1>5 DEF EditEnd
  <2>2. [terminal[t] EXCEPT !.pc = "idle"] \in TerminalState
    BY <1>1 DEF TypeOK, TerminalState
  <2>3. /\ terminal' \in [Terminals -> TerminalState]
        /\ terminal'[t].pc = "idle" /\ terminal'[t].said = terminal[t].said /\ terminal'[t].excuse = terminal[t].excuse
        /\ \A u \in Terminals : u # t => terminal'[u] = terminal[u]
    BY <1>1, <2>1, <2>2 DEF TypeOK, TerminalState
  <2>4. TypeOK'
    BY <1>1, <2>1, <2>3 DEF TypeOK
  <2>5. LifecycleInv'
    BY <1>1, <2>1, <2>3 DEF IInv, LifecycleInv
  <2>6. UndisturbedInv' /\ StartTruthful'
    BY <1>1, <1>3, <2>1, <2>3 DEF IInv, UndisturbedInv, StartTruthful
  <2> QED
    BY <1>2, <2>4, <2>5, <2>6 DEF IInv
<1> QED
  BY <1>4, <1>5

\* Every step of every process preserves the inductive invariant.
THEOREM Invariance == Spec => []IInv
<1>1. IInv /\ [Next]_vars => IInv'
  <2> SUFFICES ASSUME IInv, [Next]_vars PROVE IInv'
    OBVIOUS
  <2>1. ASSUME NEW d \in Daemons, DaemonStep(d) PROVE IInv'
    BY <2>1, LifecycleIInv, StartupLockIInv, InspectIInv, DialIInv, RecheckIInv, RemoveIInv, BindIInv, VerifyIInv,
       ServeIInv, ShutdownCheckIInv, EndIInv DEF DaemonStep
  <2>2. ASSUME NEW d \in Daemons, Launch(d) PROVE IInv'
    <3>1. starts' \in 0 .. MaxStarts
      BY <2>2, SocketAssumption DEF Launch, IInv, TypeOK
    <3>2. PICK pc \in {"spawned", "launched"} : Goto(d, pc)
      BY <2>2 DEF Launch
    <3> QED
      BY <2>2, <3>1, <3>2, SpawnedIInv DEF Launch, At, locks
  <2>3. ASSUME NEW t \in Terminals, NEW d \in Daemons, Spawn(t, d) PROVE IInv'
    <3>1. starts' \in 0 .. MaxStarts
      BY <2>3 DEF Spawn, IInv, TypeOK
    <3> QED
      BY <2>3, <3>1, SpawnedIInv DEF Spawn, At, locks
  <2>4. CASE UNCHANGED vars
    BY <2>4 DEF vars, IInv, TypeOK, StartupInv, LifecycleInv, RacedInv, ListenerInv, SoleInv, FoundInv, ClearedInv,
                Unlinks, UndisturbedInv, StartTruthful, Starting, Ending, Reachable, At
  <2> QED
    BY <2>1, <2>2, <2>3, <2>4, UnlockIInv, EndIInv, StopIInv, CommandIInv, EditIInv DEF Next
<1> QED
  BY <1>1, InitIInv, PTL DEF Spec

\* The state of the path, the locks and the processes is always well formed.
THEOREM TypeCorrect == Spec => []TypeOK
<1>1. IInv => TypeOK
  BY DEF IInv
<1> QED
  BY <1>1, Invariance, PTL

\* The path leads to every daemon that serves: always under the lifecycle lock, and
\* without it as long as no end overlaps with a start.
THEOREM PathIsServed == Spec => []PathServed
<1>1. IInv => PathServed
  BY DEF IInv, SoleInv, PathServed, At, BoundPCs
<1> QED
  BY <1>1, Invariance, PTL

\* Daemons that were not killed and could unlink leave no socket behind.
THEOREM PathIsCleared == Spec => []PathCleared
<1>1. IInv => PathCleared
  BY DEF IInv, TypeOK, ClearedInv, Unlinks, PathCleared, At, BoundPCs, EndPCs
<1> QED
  BY <1>1, Invariance, PTL

\* When `start` gives up and no daemon is starting any more, something disturbed it.
THEOREM StartIsTruthful == Spec => []StartTruthful
<1>1. IInv => StartTruthful
  BY DEF IInv
<1> QED
  BY <1>1, Invariance, PTL

=============================================================================
