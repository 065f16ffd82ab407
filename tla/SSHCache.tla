------------------------------ MODULE SSHCache ------------------------------
(***************************************************************************)
(* The SSH client's cache of connections (internal/sshclient/client.go):   *)
(* Execute looks a connection up or dials one, shares it with the other    *)
(* commands to the same server, and closes and evicts it when it fails.    *)
(* Close, called by lock and stop, empties the cache and starts a new      *)
(* generation.                                                             *)
(*                                                                         *)
(* Each call of Execute dials at most once, so the connection it dials is  *)
(* known by the call.  The goroutine that watches the context of a call,   *)
(* and the one that watches the context of its handshake, are processes of *)
(* their own: they may run late, and when both channels of one are ready   *)
(* Go chooses either.                                                      *)
(***************************************************************************)
EXTENDS Naturals, FiniteSets

CONSTANTS
    Calls,        \* calls of Execute, and the connections they dial
    Keys,         \* connectionKey values: servers with their credentials
    key,          \* the key of each call
    MaxCloses,    \* bound of the model: calls of Close
    MaxDials,     \* bound of the model: connections dialled
    MaxLate,      \* bound of the model: handshakes whose goroutine runs late
    MaxTimeouts,  \* bound of the model: calls past their timeout at one time
    None

ASSUME CacheAssumption ==
    /\ key \in [Calls -> Keys]
    /\ {MaxCloses, MaxDials, MaxLate, MaxTimeouts} \subseteq Nat
    /\ None \notin Calls

VARIABLES
    connections,  \* Client.connections: the connection cached for each key
    idle,         \* the keys whose lastUsed is longer ago than the idle timeout
    generation,   \* Client.generation
    conn,         \* each connection: not dialled, open or closed
    handshaker,   \* handshake's goroutine of each call: none, watching, or it has closed the connection
    pc,           \* where each call is
    using,        \* the connection each call uses
    opDone,       \* the calls whose opCtx is done
    stopped,      \* the calls that have closed stopContextWatch
    watcher,      \* the watching goroutine of each call
    lookedUp      \* the generation each call that dials has read

cache == <<connections, idle, generation>>
vars == <<cache, conn, handshaker, pc, using, opDone, stopped, watcher, lookedUp>>

Init ==
    /\ connections = [k \in Keys |-> None]
    /\ idle = {}
    /\ generation = 0
    /\ conn = [c \in Calls |-> "none"]
    /\ handshaker = [c \in Calls |-> "none"]
    /\ pc = [c \in Calls |-> "start"]
    /\ using = [c \in Calls |-> None]
    /\ opDone = {}
    /\ stopped = {}
    /\ watcher = [c \in Calls |-> "none"]
    /\ lookedUp = [c \in Calls |-> 0]

-----------------------------------------------------------------------------
CloseAll(closing) == [ x \in Calls |-> IF x \in closing THEN "closed" ELSE conn[x] ]
Goto(c, label) == pc' = [pc EXCEPT ![c] = label]
Wake(c, label) == watcher' = [watcher EXCEPT ![c] = label]

\* getClient returned x: Execute starts the watcher and opens a session.
Use(c, x) ==
    /\ Goto(c, "session")
    /\ using' = [using EXCEPT ![c] = x]
    /\ Wake(c, "starting")
Refuse(c) == Goto(c, "done") /\ UNCHANGED <<using, watcher>>

-----------------------------------------------------------------------------
(* getClient *)

\* Under the lock: idle connections, of any server, are closed and dropped.
Lookup(c) ==
    LET kept == [ k \in Keys |-> IF k \in idle THEN None ELSE connections[k] ] IN
    /\ pc[c] = "start"
    /\ connections' = kept
    /\ idle' = {}
    /\ conn' = CloseAll({ connections[k] : k \in idle })
    /\ IF kept[key[c]] # None
       THEN Use(c, kept[key[c]]) /\ UNCHANGED lookedUp
       ELSE /\ lookedUp' = [lookedUp EXCEPT ![c] = generation]
            /\ Goto(c, "dial")
            /\ UNCHANGED <<using, watcher>>
    /\ UNCHANGED <<generation, handshaker, opDone, stopped>>

\* Connecting, the host key check or the authentication fails, or times out: the
\* goroutine of handshake closes the connection under it, or getClient does.
DialFails(c) ==
    /\ pc[c] = "dial"
    /\ Refuse(c)
    /\ UNCHANGED <<cache, conn, handshaker, opDone, stopped, lookedUp>>

\* The handshake succeeds, and its goroutine may not have noticed yet.
Dial(c) ==
    /\ pc[c] = "dial"
    /\ Cardinality({ x \in Calls : conn[x] # "none" }) < MaxDials
    /\ conn' = [conn EXCEPT ![c] = "open"]
    /\ handshaker' = IF Cardinality({ x \in Calls : handshaker[x] # "none" }) < MaxLate
                     THEN [handshaker EXCEPT ![c] = "watching"] ELSE handshaker
    /\ Goto(c, "dialled")
    /\ UNCHANGED <<cache, using, opDone, stopped, watcher, lookedUp>>

Mutant_PublishGeneration(c) ==
    /\ pc[c] = "dialled"
    /\ \/ /\ connections[key[c]] # None
          /\ conn' = CloseAll({c}) /\ Use(c, connections[key[c]]) /\ UNCHANGED <<connections, idle>>
       \/ /\ connections[key[c]] = None
          /\ connections' = [connections EXCEPT ![key[c]] = c] /\ idle' = idle \ {key[c]}
          /\ Use(c, c)
          /\ UNCHANGED conn
    /\ UNCHANGED <<generation, handshaker, opDone, stopped, lookedUp>>

Mutant_PublishLoser(c) ==
    /\ pc[c] = "dialled"
    /\ \/ /\ lookedUp[c] # generation
          /\ conn' = CloseAll({c}) /\ Refuse(c) /\ UNCHANGED <<connections, idle>>
       \/ /\ lookedUp[c] = generation /\ connections[key[c]] # None
          /\ Use(c, connections[key[c]]) /\ UNCHANGED <<conn, connections, idle>>
       \/ /\ lookedUp[c] = generation /\ connections[key[c]] = None
          /\ connections' = [connections EXCEPT ![key[c]] = c] /\ idle' = idle \ {key[c]}
          /\ Use(c, c)
          /\ UNCHANGED conn
    /\ UNCHANGED <<generation, handshaker, opDone, stopped, lookedUp>>

\* Under the lock again: Close came in between, or another call was faster, and the
\* new connection is closed; or it is cached.
Publish(c) ==
    /\ pc[c] = "dialled"
    /\ \/ /\ lookedUp[c] # generation
          /\ conn' = CloseAll({c}) /\ Refuse(c) /\ UNCHANGED <<connections, idle>>
       \/ /\ lookedUp[c] = generation /\ connections[key[c]] # None
          /\ conn' = CloseAll({c}) /\ Use(c, connections[key[c]]) /\ UNCHANGED <<connections, idle>>
       \/ /\ lookedUp[c] = generation /\ connections[key[c]] = None
          /\ connections' = [connections EXCEPT ![key[c]] = c] /\ idle' = idle \ {key[c]}
          /\ Use(c, c)
          /\ UNCHANGED conn
    /\ UNCHANGED <<generation, handshaker, opDone, stopped, lookedUp>>

\* The goroutine of handshake finds the context of the connect done and closes the
\* connection, although the handshake has succeeded: the deadline has passed before
\* done was closed, or the goroutine runs so late that getClient's cancel has come
\* too and Go chooses between two ready channels.
HandshakeCloses(c) ==
    /\ handshaker[c] = "watching"
    /\ conn' = CloseAll({c})
    /\ handshaker' = [handshaker EXCEPT ![c] = "closed"]
    /\ UNCHANGED <<cache, pc, using, opDone, stopped, watcher, lookedUp>>

\* It finds done closed.
HandshakeEnds(c) ==
    /\ handshaker[c] = "watching"
    /\ handshaker' = [handshaker EXCEPT ![c] = "none"]
    /\ UNCHANGED <<cache, conn, pc, using, opDone, stopped, watcher, lookedUp>>

-----------------------------------------------------------------------------
(* Execute, once it has a connection. *)

NewSession(c) ==
    /\ pc[c] = "session"
    /\ conn[using[c]] = "open"
    /\ Goto(c, "run")
    /\ UNCHANGED <<cache, conn, handshaker, using, opDone, stopped, watcher, lookedUp>>

\* The connection is closed, or breaks now.
NewSessionFails(c) ==
    /\ pc[c] = "session"
    /\ Goto(c, "close")
    /\ UNCHANGED <<cache, conn, handshaker, using, opDone, stopped, watcher, lookedUp>>

\* stopWatch ends a watcher that waits; one that has not started will find its
\* channel closed.
StopWatch(c) ==
    /\ stopped' = stopped \cup {c}
    /\ Wake(c, IF watcher[c] = "parked" THEN "done" ELSE watcher[c])

\* Execute returns, with the output of the command or having failed: the deferred
\* cancel makes opCtx done as well.
Leave(c, label) ==
    /\ Goto(c, label)
    /\ StopWatch(c)
    /\ opDone' = opDone \cup {c}

\* The command ends, with whatever exit status.
RunEnds(c) ==
    /\ pc[c] = "run"
    /\ conn[using[c]] = "open"
    /\ Leave(c, "done")
    /\ UNCHANGED <<cache, conn, handshaker, using, lookedUp>>

\* The connection breaks, or was closed by someone else.
RunFails(c) ==
    /\ pc[c] = "run"
    /\ Goto(c, "close")
    /\ StopWatch(c)
    /\ UNCHANGED <<cache, conn, handshaker, using, opDone, lookedUp>>

RunTimesOut(c) ==
    /\ pc[c] = "run"
    /\ c \in opDone
    /\ Goto(c, "close")
    /\ UNCHANGED <<cache, conn, handshaker, using, opDone, stopped, watcher, lookedUp>>

CloseConn(c) ==
    /\ pc[c] = "close"
    /\ conn' = CloseAll({using[c]})
    /\ Goto(c, "evict")
    /\ UNCHANGED <<cache, handshaker, using, opDone, stopped, watcher, lookedUp>>

\* evict, by a call or its watcher: only if the connection is still the cached one.
Evicted(k, x) == IF connections[k] = x THEN [connections EXCEPT ![k] = None] ELSE connections

Evict(c) ==
    /\ pc[c] = "evict"
    /\ connections' = Evicted(key[c], using[c])
    /\ idle' = { k \in idle : connections'[k] # None }
    /\ Leave(c, "failed")
    /\ UNCHANGED <<generation, conn, handshaker, using, lookedUp>>

-----------------------------------------------------------------------------
(* The watcher of a call. *)

Watch(c) ==
    /\ watcher[c] = "starting"
    /\ \/ c \notin opDone /\ c \notin stopped /\ Wake(c, "parked")
       \/ c \in opDone /\ Wake(c, "close")
       \/ c \in stopped /\ Wake(c, "done")
    /\ UNCHANGED <<cache, conn, handshaker, pc, using, opDone, stopped, lookedUp>>

WatcherCloses(c) ==
    /\ watcher[c] = "close"
    /\ conn' = CloseAll({using[c]})
    /\ Wake(c, "evict")
    /\ UNCHANGED <<cache, handshaker, pc, using, opDone, stopped, lookedUp>>

Mutant_WatcherEvicts(c) ==
    /\ watcher[c] = "evict"
    /\ Wake(c, "done")
    /\ UNCHANGED <<cache, conn, handshaker, pc, using, opDone, stopped, lookedUp>>

WatcherEvicts(c) ==
    /\ watcher[c] = "evict"
    /\ connections' = Evicted(key[c], using[c])
    /\ idle' = { k \in idle : connections'[k] # None }
    /\ Wake(c, "done")
    /\ UNCHANGED <<generation, conn, handshaker, pc, using, opDone, stopped, lookedUp>>

-----------------------------------------------------------------------------
(* Time, and Close. *)

\* The timeout of the command passes, or its context is cancelled.
Expire(c) ==
    /\ pc[c] \in {"session", "run", "close", "evict"}
    /\ c \notin opDone
    /\ Cardinality({ x \in opDone : pc[x] \notin {"done", "failed"} }) < MaxTimeouts
    /\ opDone' = opDone \cup {c}
    /\ Wake(c, IF watcher[c] = "parked" THEN "close" ELSE watcher[c])
    /\ UNCHANGED <<cache, conn, handshaker, pc, using, stopped, lookedUp>>

BecomeIdle(k) ==
    /\ connections[k] # None /\ k \notin idle
    /\ idle' = idle \cup {k}
    /\ UNCHANGED <<connections, generation, conn, handshaker, pc, using, opDone, stopped, watcher, lookedUp>>

Close ==
    /\ generation < MaxCloses
    /\ generation' = generation + 1
    /\ conn' = CloseAll({ connections[k] : k \in Keys })
    /\ connections' = [k \in Keys |-> None]
    /\ idle' = {}
    /\ UNCHANGED <<handshaker, pc, using, opDone, stopped, watcher, lookedUp>>

Step(c) ==
    \/ Lookup(c) \/ DialFails(c) \/ Dial(c) \/ Publish(c)
    \/ NewSession(c) \/ NewSessionFails(c) \/ RunEnds(c) \/ RunFails(c) \/ RunTimesOut(c)
    \/ CloseConn(c) \/ Evict(c)

HandshakeStep(c) == HandshakeCloses(c) \/ HandshakeEnds(c)
WatcherStep(c) == Watch(c) \/ WatcherCloses(c) \/ WatcherEvicts(c)

Next ==
    \/ \E c \in Calls : Step(c) \/ HandshakeStep(c) \/ WatcherStep(c) \/ Expire(c)
    \/ \E k \in Keys : BecomeIdle(k)
    \/ Close

Spec == Init /\ [][Next]_vars

-----------------------------------------------------------------------------
(* Correctness. *)

TypeOK ==
    /\ connections \in [Keys -> Calls \cup {None}]
    /\ idle \subseteq { k \in Keys : connections[k] # None }
    /\ generation \in Nat
    /\ conn \in [Calls -> {"none", "open", "closed"}]
    /\ handshaker \in [Calls -> {"none", "watching", "closed"}]
    /\ pc \in [Calls -> {"start", "dial", "dialled", "session", "run", "close", "evict", "done", "failed"}]
    /\ using \in [Calls -> Calls \cup {None}]
    /\ opDone \subseteq Calls /\ stopped \subseteq Calls
    /\ watcher \in [Calls -> {"none", "starting", "parked", "close", "evict", "done"}]
    /\ lookedUp \in [Calls -> Nat]

\* No connection leaks: one that is open is in the cache, where the idle sweep and
\* Close find it, or has just been dialled by a call that will cache or close it.
NoLeak ==
    \A c \in Calls : conn[c] = "open" => pc[c] = "dialled" \/ connections[key[c]] = c

\* Somebody is about to evict x.
EvictionPending(x) ==
    \E c \in Calls : using[c] = x /\ (pc[c] = "evict" \/ watcher[c] = "evict")

\* The goroutine of its handshake has closed x, and no command has failed on x yet.
ClosedUnnoticed(x) ==
    /\ handshaker[x] = "closed"
    /\ \A c \in Calls : using[c] = x => pc[c] # "failed"

\* A connection the client has closed does not stay in the cache, where every later
\* command to the server would get it and fail: the one who closed it is about to evict
\* it.  Only the goroutine of its handshake closes a connection and evicts nothing; the
\* first command that fails on that one takes it out, so that no retry gets it again.
NoDeadEntry ==
    \A k \in Keys : connections[k] # None =>
        LET x == connections[k] IN conn[x] = "open" \/ EvictionPending(x) \/ ClosedUnnoticed(x)

\* A connection dialled by a call that looked up before Close (lock, stop) is not in
\* the cache after it, however late its handshake ends.
NoOldGeneration == \A k \in Keys : connections[k] # None => lookedUp[connections[k]] = generation

=============================================================================
