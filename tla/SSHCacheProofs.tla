--------------------------- MODULE SSHCacheProofs ---------------------------
(***************************************************************************)
(* The safety of the connection cache, for any number of calls, servers    *)
(* and Close calls.                                                        *)
(***************************************************************************)
EXTENDS SSHCache, TLAPS

\* The call has not got a connection from getClient yet.
Before(c) == pc[c] \in {"start", "dial", "dialled"}

\* A call that has no connection uses none and has no watcher; from then on it uses
\* one, to its own server, that some call has dialled and got past getClient with.
UsingInv ==
    \A c \in Calls :
        /\ Before(c) => using[c] = None /\ watcher[c] = "none"
        /\ pc[c] \in {"session", "run", "close", "evict", "failed"} \/ watcher[c] # "none" => using[c] # None
        /\ using[c] # None => /\ key[using[c]] = key[c]
                              /\ ~Before(using[c])
                              /\ conn[using[c]] # "none"

\* What is cached was dialled for that server, in this generation, by a call that is
\* past getClient.
CachedInv ==
    \A k \in Keys : connections[k] # None =>
        /\ key[connections[k]] = k
        /\ ~Before(connections[k])
        /\ conn[connections[k]] # "none"
        /\ lookedUp[connections[k]] = generation

\* Nothing is evicted before it is closed.
EvictInv == \A c \in Calls : pc[c] = "evict" \/ watcher[c] = "evict" => conn[using[c]] = "closed"

\* A connection that is dialled and not yet cached or closed is open, unless the
\* goroutine of its handshake has closed it.
DialledInv == \A c \in Calls : pc[c] = "dialled" => conn[c] = "open" \/ handshaker[c] = "closed"

\* The goroutine of a handshake watches from the dial on; what it has closed stays
\* closed.
HandshakeInv ==
    \A c \in Calls :
        /\ pc[c] \in {"start", "dial"} => handshaker[c] = "none"
        /\ handshaker[c] # "none" => conn[c] # "none"
        /\ handshaker[c] = "closed" => conn[c] = "closed"

\* The connection a command has failed on is out of the cache, and stays out.
FailedInv == \A c \in Calls : pc[c] = "failed" => connections[key[c]] # using[c]

\* The inductive invariant.
IInv ==
    /\ TypeOK /\ UsingInv /\ CachedInv /\ EvictInv /\ DialledInv /\ HandshakeInv /\ FailedInv
    /\ NoLeak /\ NoDeadEntry

\* The invariant holds when the client is created.
LEMMA InitIInv == Init => IInv
BY CacheAssumption
   DEF Init, IInv, TypeOK, UsingInv, CachedInv, EvictInv, DialledInv, HandshakeInv, FailedInv,
       NoLeak, NoDeadEntry, Before

\* getClient's first critical section: the sweep and the lookup.
LEMMA LookupIInv == ASSUME IInv, NEW c \in Calls, Lookup(c) PROVE IInv'
<1> DEFINE kept == [ k \in Keys |-> IF k \in idle THEN None ELSE connections[k] ]
<1> USE CacheAssumption
<1>1. /\ pc[c] = "start" /\ using[c] = None /\ watcher[c] = "none" /\ key[c] \in Keys
      /\ connections' = kept /\ generation' = generation /\ handshaker' = handshaker
      /\ conn' = [ x \in Calls |-> IF x \in { connections[k] : k \in idle } THEN "closed" ELSE conn[x] ]
  BY DEF Lookup, CloseAll, IInv, TypeOK, UsingInv, Before
<1>2. /\ \A x \in Calls : x # c => pc'[x] = pc[x] /\ using'[x] = using[x] /\ watcher'[x] = watcher[x]
                                   /\ lookedUp'[x] = lookedUp[x]
      /\ \/ pc'[c] = "dial" /\ using'[c] = None /\ watcher'[c] = "none"
         \/ pc'[c] = "session" /\ using'[c] = kept[key[c]] /\ kept[key[c]] # None /\ watcher'[c] = "starting"
  BY <1>1 DEF Lookup, Use, Goto, Wake, IInv, TypeOK
<1>3. TypeOK'
  <2>1. /\ connections' \in [Keys -> Calls \cup {None}] /\ idle' = {} /\ generation' \in Nat
        /\ conn' \in [Calls -> {"none", "open", "closed"}]
        /\ opDone' \subseteq Calls /\ stopped' \subseteq Calls
    BY <1>1 DEF Lookup, IInv, TypeOK
  <2>2. CASE kept[key[c]] # None
    BY <1>1, <2>1, <2>2 DEF Lookup, Use, Goto, Wake, IInv, TypeOK
  <2>3. CASE kept[key[c]] = None
    BY <1>1, <2>1, <2>3 DEF Lookup, Use, Goto, Wake, IInv, TypeOK
  <2> QED
    BY <2>2, <2>3
<1>4. \A x \in Calls : /\ conn'[x] = "none" <=> conn[x] = "none"
                       /\ conn[x] = "closed" => conn'[x] = "closed"
                       /\ conn'[x] = "open" => conn[x] = "open"
                       /\ Before(x) => conn'[x] = conn[x]
  BY <1>1 DEF IInv, TypeOK, CachedInv
<1>5. UsingInv'
  <2>1. kept[key[c]] # None => /\ kept[key[c]] \in Calls /\ kept[key[c]] # c
                               /\ key[kept[key[c]]] = key[c] /\ ~Before(kept[key[c]]) /\ conn[kept[key[c]]] # "none"
    BY <1>1 DEF IInv, TypeOK, CachedInv, Before
  <2> QED
    BY <1>1, <1>2, <1>4, <2>1 DEF IInv, TypeOK, UsingInv, Before
<1>6. CachedInv'
  BY <1>1, <1>2, <1>4 DEF IInv, TypeOK, CachedInv, Before
<1>7. EvictInv' /\ DialledInv' /\ HandshakeInv'
  BY <1>1, <1>2, <1>4 DEF IInv, TypeOK, EvictInv, DialledInv, HandshakeInv, UsingInv, Before
<1>10. FailedInv'
  BY <1>1, <1>2 DEF IInv, TypeOK, UsingInv, FailedInv
<1>8. NoLeak'
  BY <1>1, <1>2, <1>4 DEF IInv, TypeOK, NoLeak
<1>9. NoDeadEntry'
  <2> SUFFICES ASSUME NEW k \in Keys, NEW x, x = connections'[k], x # None, conn'[x] # "open"
               PROVE  EvictionPending(x)' \/ ClosedUnnoticed(x)'
    BY DEF NoDeadEntry, EvictionPending, ClosedUnnoticed
  <2>1. k \notin idle /\ x = connections[k] /\ x \in Calls
    BY <1>1 DEF IInv, TypeOK
  <2>2. x \notin { connections[j] : j \in idle }
    BY <2>1 DEF IInv, TypeOK, CachedInv
  <2>3. EvictionPending(x) \/ ClosedUnnoticed(x)
    BY <1>1, <2>1, <2>2 DEF IInv, NoDeadEntry
  <2>4. CASE EvictionPending(x)
    BY <1>1, <1>2, <2>4 DEF EvictionPending
  <2>5. CASE ClosedUnnoticed(x)
    BY <1>1, <1>2, <2>5 DEF ClosedUnnoticed
  <2> QED
    BY <2>3, <2>4, <2>5
<1> QED
  BY <1>3, <1>5, <1>6, <1>7, <1>8, <1>9, <1>10 DEF IInv

\* getClient's second critical section: the new connection is closed or cached.
LEMMA PublishIInv == ASSUME IInv, NEW c \in Calls, Publish(c) PROVE IInv'
<1> DEFINE k == key[c]
<1> USE CacheAssumption
<1>1. /\ pc[c] = "dialled" /\ k \in Keys /\ using[c] = None /\ watcher[c] = "none"
      /\ conn[c] = "open" \/ (handshaker[c] = "closed" /\ conn[c] = "closed")
      /\ generation' = generation /\ lookedUp' = lookedUp /\ handshaker' = handshaker
      /\ \A j \in Keys : connections[j] # c
      /\ \A x \in Calls : using[x] # c
  BY DEF Publish, IInv, TypeOK, UsingInv, CachedInv, DialledInv, HandshakeInv, Before
<1>2. \A x \in Calls : x # c => pc'[x] = pc[x] /\ using'[x] = using[x] /\ watcher'[x] = watcher[x] /\ conn'[x] = conn[x]
  BY DEF Publish, CloseAll, Use, Refuse, Goto, Wake, IInv, TypeOK
<1>3. CASE lookedUp[c] # generation \/ connections[k] # None
  <2>1. /\ conn'[c] = "closed" /\ connections' = connections /\ idle' = idle
        /\ \/ pc'[c] = "done" /\ using'[c] = None /\ watcher'[c] = "none"
           \/ pc'[c] = "session" /\ using'[c] = connections[k] /\ connections[k] # None /\ watcher'[c] = "starting"
    BY <1>1, <1>3 DEF Publish, CloseAll, Use, Refuse, Goto, Wake, IInv, TypeOK
  <2>2. TypeOK'
    BY <1>1, <1>3 DEF Publish, CloseAll, Use, Refuse, Goto, Wake, IInv, TypeOK
  <2>3. UsingInv'
    BY <1>1, <1>2, <2>1 DEF IInv, TypeOK, UsingInv, CachedInv, Before
  <2>4. CachedInv' /\ EvictInv' /\ DialledInv'
    BY <1>1, <1>2, <2>1 DEF IInv, TypeOK, UsingInv, CachedInv, EvictInv, DialledInv, Before
  <2>7. HandshakeInv' /\ FailedInv'
    BY <1>1, <1>2, <2>1 DEF IInv, TypeOK, HandshakeInv, FailedInv
  <2>5. NoLeak'
    BY <1>1, <1>2, <2>1 DEF IInv, TypeOK, NoLeak
  <2>6. NoDeadEntry'
    BY <1>1, <1>2, <2>1 DEF IInv, TypeOK, NoDeadEntry, EvictionPending, ClosedUnnoticed
  <2> QED
    BY <2>2, <2>3, <2>4, <2>5, <2>6, <2>7 DEF IInv
<1>4. CASE lookedUp[c] = generation /\ connections[k] = None
  <2>1. /\ conn' = conn /\ connections' = [connections EXCEPT ![k] = c] /\ idle' = idle \ {k}
        /\ pc'[c] = "session" /\ using'[c] = c /\ watcher'[c] = "starting"
    BY <1>1, <1>4 DEF Publish, CloseAll, Use, Refuse, Goto, Wake, IInv, TypeOK
  <2>2. TypeOK'
    <3>1. pc' = [pc EXCEPT ![c] = "session"] /\ using' = [using EXCEPT ![c] = c]
          /\ watcher' = [watcher EXCEPT ![c] = "starting"] /\ opDone' = opDone /\ stopped' = stopped
      BY <1>1, <1>4 DEF Publish, Use, Refuse, Goto, Wake
    <3> QED
      BY <1>1, <2>1, <3>1 DEF IInv, TypeOK
  <2>3. UsingInv'
    BY <1>1, <1>2, <2>1 DEF IInv, TypeOK, UsingInv, Before
  <2>4. CachedInv'
    BY <1>1, <1>2, <1>4, <2>1 DEF IInv, TypeOK, CachedInv, Before
  <2>5. EvictInv' /\ DialledInv'
    BY <1>1, <1>2, <2>1 DEF IInv, TypeOK, UsingInv, EvictInv, DialledInv, Before
  <2>6. NoLeak'
    BY <1>1, <1>2, <1>4, <2>1 DEF IInv, TypeOK, NoLeak
  <2>7. NoDeadEntry'
    BY <1>1, <1>2, <2>1 DEF IInv, TypeOK, NoDeadEntry, EvictionPending, ClosedUnnoticed
  <2>8. HandshakeInv' /\ FailedInv'
    BY <1>1, <1>2, <2>1 DEF IInv, TypeOK, HandshakeInv, FailedInv
  <2> QED
    BY <2>2, <2>3, <2>4, <2>5, <2>6, <2>7, <2>8 DEF IInv
<1> QED
  BY <1>3, <1>4

\* The steps of a call that leave the cache and the connections alone.
LEMMA LocalIInv ==
    ASSUME IInv, NEW c \in Calls,
           \/ DialFails(c) \/ NewSession(c) \/ NewSessionFails(c) \/ RunEnds(c) \/ RunFails(c)
           \/ RunTimesOut(c) \/ Watch(c) \/ Expire(c)
    PROVE  IInv'
<1> USE CacheAssumption
<1>1. /\ connections' = connections /\ idle' = idle /\ generation' = generation /\ lookedUp' = lookedUp
      /\ conn' = conn /\ using' = using /\ handshaker' = handshaker
      /\ opDone' \in {opDone, opDone \cup {c}} /\ stopped' \in {stopped, stopped \cup {c}}
  BY DEF DialFails, NewSession, NewSessionFails, RunEnds, RunFails, RunTimesOut, Watch, Expire,
         Refuse, Leave, StopWatch, cache
<1>2. /\ \/ pc' = pc
         \/ pc[c] = "dial" /\ pc' = [pc EXCEPT ![c] = "done"]
         \/ /\ pc[c] \in {"session", "run"}
            /\ \E label \in {"run", "close", "done"} : pc' = [pc EXCEPT ![c] = label]
      /\ \/ watcher' = watcher
         \/ /\ watcher[c] \in {"starting", "parked"}
            /\ \E label \in {"parked", "close", "done"} : watcher' = [watcher EXCEPT ![c] = label]
  BY DEF DialFails, NewSession, NewSessionFails, RunEnds, RunFails, RunTimesOut, Watch, Expire,
         Refuse, Goto, Wake, Leave, StopWatch, IInv, TypeOK
<1>3. TypeOK'
  BY <1>1, <1>2 DEF IInv, TypeOK
<1>4. UsingInv'
  BY <1>1, <1>2 DEF IInv, TypeOK, UsingInv, Before
<1>5. CachedInv' /\ EvictInv' /\ DialledInv' /\ HandshakeInv' /\ FailedInv'
  BY <1>1, <1>2 DEF IInv, TypeOK, CachedInv, EvictInv, DialledInv, HandshakeInv, FailedInv, Before
<1>6. NoLeak' /\ NoDeadEntry'
  BY <1>1, <1>2 DEF IInv, TypeOK, NoLeak, NoDeadEntry, EvictionPending, ClosedUnnoticed
<1> QED
  BY <1>3, <1>4, <1>5, <1>6 DEF IInv

\* The handshake succeeds.
LEMMA DialIInv == ASSUME IInv, NEW c \in Calls, Dial(c) PROVE IInv'
<1> USE CacheAssumption
<1>1. /\ pc[c] = "dial" /\ pc' = [pc EXCEPT ![c] = "dialled"] /\ conn' = [conn EXCEPT ![c] = "open"]
      /\ connections' = connections /\ idle' = idle /\ generation' = generation /\ lookedUp' = lookedUp
      /\ using' = using /\ watcher' = watcher /\ opDone' = opDone /\ stopped' = stopped
      /\ handshaker' \in {handshaker, [handshaker EXCEPT ![c] = "watching"]} /\ handshaker[c] = "none"
  BY DEF Dial, Goto, cache, IInv, HandshakeInv
<1>2. (\A k \in Keys : connections[k] # c) /\ (\A x \in Calls : using[x] # c)
  BY <1>1 DEF IInv, TypeOK, UsingInv, CachedInv, Before
<1>3. TypeOK' /\ UsingInv'
  BY <1>1, <1>2 DEF IInv, TypeOK, UsingInv, Before
<1>4. CachedInv' /\ EvictInv' /\ DialledInv'
  BY <1>1, <1>2 DEF IInv, TypeOK, UsingInv, CachedInv, EvictInv, DialledInv, Before
<1>5. HandshakeInv' /\ FailedInv'
  BY <1>1 DEF IInv, TypeOK, HandshakeInv, FailedInv
<1>6. NoLeak' /\ NoDeadEntry'
  BY <1>1, <1>2 DEF IInv, TypeOK, NoLeak, NoDeadEntry, EvictionPending, ClosedUnnoticed
<1> QED
  BY <1>3, <1>4, <1>5, <1>6 DEF IInv

\* The goroutine of the handshake ends, or closes a connection that may be cached: no
\* command has failed on that one, or it would not be cached.
LEMMA HandshakeIInv == ASSUME IInv, NEW c \in Calls, HandshakeStep(c) PROVE IInv'
<1> USE CacheAssumption
<1>1. /\ connections' = connections /\ idle' = idle /\ generation' = generation /\ lookedUp' = lookedUp
      /\ pc' = pc /\ using' = using /\ watcher' = watcher /\ opDone' = opDone /\ stopped' = stopped
      /\ handshaker[c] = "watching" /\ conn[c] # "none"
      /\ \/ handshaker' = [handshaker EXCEPT ![c] = "none"] /\ conn' = conn
         \/ handshaker' = [handshaker EXCEPT ![c] = "closed"] /\ conn' = [conn EXCEPT ![c] = "closed"]
  BY DEF HandshakeStep, HandshakeCloses, HandshakeEnds, CloseAll, cache, IInv, TypeOK, HandshakeInv
<1>2. TypeOK' /\ UsingInv'
  <2>1. TypeOK'
    BY <1>1 DEF IInv, TypeOK
  <2>2. \A x \in Calls : conn[x] # "none" => conn'[x] # "none"
    BY <1>1 DEF IInv, TypeOK
  <2>3. UsingInv'
    BY <1>1, <2>2 DEF IInv, TypeOK, UsingInv, Before
  <2> QED
    BY <2>1, <2>3
<1>3. CachedInv' /\ DialledInv'
  BY <1>1 DEF IInv, TypeOK, CachedInv, DialledInv, Before
<1>6. EvictInv'
  <2>1. \A x \in Calls : conn[x] = "closed" => conn'[x] = "closed"
    BY <1>1 DEF IInv, TypeOK
  <2>2. \A d \in Calls : pc[d] = "evict" \/ watcher[d] = "evict" => using[d] \in Calls
    BY DEF IInv, TypeOK, UsingInv
  <2> QED
    BY <1>1, <2>1, <2>2 DEF IInv, EvictInv
<1>4. HandshakeInv' /\ FailedInv' /\ NoLeak'
  BY <1>1 DEF IInv, TypeOK, HandshakeInv, FailedInv, NoLeak
<1>5. NoDeadEntry'
  <2> SUFFICES ASSUME NEW k \in Keys, NEW x, x = connections[k], x # None, conn'[x] # "open"
               PROVE  EvictionPending(x)' \/ ClosedUnnoticed(x)'
    BY <1>1 DEF NoDeadEntry, EvictionPending, ClosedUnnoticed
  <2>1. CASE x = c /\ handshaker'[c] = "closed"
    <3>1. ASSUME NEW d \in Calls, using[d] = x PROVE pc[d] # "failed"
      <4>1. key[x] = k
        BY DEF IInv, CachedInv
      <4>2. key[x] = key[d]
        BY <3>1 DEF IInv, UsingInv
      <4> QED
        BY <3>1, <4>1, <4>2 DEF IInv, FailedInv
    <3> QED
      BY <1>1, <2>1, <3>1 DEF ClosedUnnoticed
  <2>2. CASE ~(x = c /\ handshaker'[c] = "closed")
    <3>1. conn'[x] = conn[x] /\ x \in Calls
      BY <1>1, <2>2 DEF IInv, TypeOK
    <3>2. EvictionPending(x) \/ ClosedUnnoticed(x)
      BY <3>1 DEF IInv, NoDeadEntry
    <3> QED
      BY <1>1, <2>2, <3>1, <3>2 DEF EvictionPending, ClosedUnnoticed, IInv, TypeOK
  <2> QED
    BY <2>1, <2>2
<1> QED
  BY <1>2, <1>3, <1>4, <1>5, <1>6 DEF IInv

\* A connection is closed by the call or the watcher that is about to evict it.
LEMMA CloseConnIInv ==
    ASSUME IInv, NEW c \in Calls, CloseConn(c) \/ WatcherCloses(c) PROVE IInv'
<1> DEFINE x == using[c]
<1> USE CacheAssumption
<1>1. x \in Calls /\ ~Before(x)
  BY DEF CloseConn, WatcherCloses, IInv, TypeOK, UsingInv
<1>2. /\ conn' = [conn EXCEPT ![x] = "closed"]
      /\ connections' = connections /\ idle' = idle /\ generation' = generation /\ lookedUp' = lookedUp
      /\ using' = using /\ opDone' = opDone /\ stopped' = stopped /\ handshaker' = handshaker
      /\ \/ pc[c] = "close" /\ pc' = [pc EXCEPT ![c] = "evict"] /\ watcher' = watcher
         \/ watcher[c] = "close" /\ watcher' = [watcher EXCEPT ![c] = "evict"] /\ pc' = pc
  BY <1>1 DEF CloseConn, WatcherCloses, CloseAll, Goto, Wake, cache, IInv, TypeOK
<1>3. TypeOK' /\ UsingInv'
  BY <1>1, <1>2 DEF IInv, TypeOK, UsingInv, Before
<1>4. CachedInv' /\ EvictInv' /\ DialledInv'
  BY <1>1, <1>2 DEF IInv, TypeOK, CachedInv, EvictInv, DialledInv, Before
<1>5. NoLeak' /\ HandshakeInv' /\ FailedInv'
  BY <1>1, <1>2 DEF IInv, TypeOK, NoLeak, HandshakeInv, FailedInv, Before
<1>6. NoDeadEntry'
  BY <1>1, <1>2 DEF IInv, TypeOK, NoDeadEntry, EvictionPending, ClosedUnnoticed
<1> QED
  BY <1>3, <1>4, <1>5, <1>6 DEF IInv

\* The eviction: the connection is not cached any more, or was not.
LEMMA EvictIInv ==
    ASSUME IInv, NEW c \in Calls, Evict(c) \/ WatcherEvicts(c) PROVE IInv'
<1> DEFINE k == key[c]
           x == using[c]
<1> USE CacheAssumption
<1>1. x \in Calls /\ k \in Keys /\ key[x] = k /\ conn[x] = "closed"
  BY DEF Evict, WatcherEvicts, IInv, TypeOK, UsingInv, EvictInv
<1>2. /\ generation' = generation /\ lookedUp' = lookedUp /\ conn' = conn /\ using' = using
      /\ handshaker' = handshaker
      /\ connections' = IF connections[k] = x THEN [connections EXCEPT ![k] = None] ELSE connections
      /\ idle' = { j \in idle : connections'[j] # None }
      /\ opDone' \in {opDone, opDone \cup {c}} /\ stopped' \in {stopped, stopped \cup {c}}
      /\ \/ pc' = pc
         \/ pc[c] = "evict" /\ pc' = [pc EXCEPT ![c] = "failed"]
      /\ \/ watcher' = watcher
         \/ watcher[c] \in {"parked", "evict"} /\ watcher' = [watcher EXCEPT ![c] = "done"]
  BY DEF Evict, WatcherEvicts, Evicted, Leave, StopWatch, Goto, Wake, IInv, TypeOK
<1>3. TypeOK' /\ UsingInv'
  BY <1>1, <1>2 DEF IInv, TypeOK, UsingInv, Before
<1>4. CachedInv' /\ EvictInv' /\ DialledInv'
  BY <1>1, <1>2 DEF IInv, TypeOK, CachedInv, EvictInv, DialledInv, Before
<1>5. NoLeak' /\ HandshakeInv' /\ FailedInv'
  BY <1>1, <1>2 DEF IInv, TypeOK, NoLeak, UsingInv, HandshakeInv, FailedInv
<1>6. NoDeadEntry'
  <2> SUFFICES ASSUME NEW j \in Keys, NEW y, y = connections'[j], y # None, conn'[y] # "open"
               PROVE  EvictionPending(y)' \/ ClosedUnnoticed(y)'
    BY DEF NoDeadEntry, EvictionPending, ClosedUnnoticed
  <2>1. y = connections[j] /\ y # x
    BY <1>1, <1>2 DEF IInv, TypeOK, CachedInv
  <2>2. EvictionPending(y) \/ ClosedUnnoticed(y)
    BY <1>2, <2>1 DEF IInv, NoDeadEntry
  <2>3. CASE EvictionPending(y)
    <3>1. PICK d \in Calls : using[d] = y /\ (pc[d] = "evict" \/ watcher[d] = "evict")
      BY <2>3 DEF EvictionPending
    <3>2. d # c
      BY <2>1, <3>1
    <3> QED
      BY <1>2, <3>1, <3>2 DEF EvictionPending, IInv, TypeOK
  <2>4. CASE ClosedUnnoticed(y)
    BY <1>2, <2>1, <2>4 DEF ClosedUnnoticed, IInv, TypeOK
  <2> QED
    BY <2>2, <2>3, <2>4
<1> QED
  BY <1>3, <1>4, <1>5, <1>6 DEF IInv

\* Close empties the cache, and closes what was in it.
LEMMA CloseIInv == ASSUME IInv, Close PROVE IInv'
<1> USE CacheAssumption
<1>1. /\ connections' = [k \in Keys |-> None] /\ idle' = {} /\ generation' = generation + 1
      /\ conn' = [ x \in Calls |-> IF x \in { connections[k] : k \in Keys } THEN "closed" ELSE conn[x] ]
      /\ pc' = pc /\ using' = using /\ opDone' = opDone /\ stopped' = stopped /\ watcher' = watcher
      /\ lookedUp' = lookedUp /\ handshaker' = handshaker
  BY DEF Close, CloseAll
<1>2. TypeOK'
  BY <1>1 DEF IInv, TypeOK
<1>3. UsingInv' /\ CachedInv' /\ EvictInv'
  BY <1>1 DEF IInv, TypeOK, UsingInv, CachedInv, EvictInv, Before
<1>4. DialledInv' /\ NoLeak' /\ NoDeadEntry'
  BY <1>1 DEF IInv, TypeOK, CachedInv, DialledInv, NoLeak, NoDeadEntry, Before
<1>5. HandshakeInv' /\ FailedInv'
  BY <1>1 DEF IInv, TypeOK, UsingInv, HandshakeInv, FailedInv
<1> QED
  BY <1>2, <1>3, <1>4, <1>5 DEF IInv

\* Time passes for a cached connection.
LEMMA IdleIInv == ASSUME IInv, NEW k \in Keys, BecomeIdle(k) PROVE IInv'
BY DEF BecomeIdle, IInv, TypeOK, UsingInv, CachedInv, EvictInv, DialledInv, HandshakeInv, FailedInv,
       NoLeak, NoDeadEntry, EvictionPending, ClosedUnnoticed, Before

\* Every step of the client preserves the invariant.
LEMMA NextIInv == IInv /\ [Next]_vars => IInv'
<1> SUFFICES ASSUME IInv, [Next]_vars PROVE IInv'
  OBVIOUS
<1>1. CASE UNCHANGED vars
  BY <1>1 DEF vars, cache, IInv, TypeOK, UsingInv, CachedInv, EvictInv, DialledInv, HandshakeInv,
              FailedInv, NoLeak, NoDeadEntry, EvictionPending, ClosedUnnoticed, Before
<1>2. CASE \E c \in Calls : Step(c)
  BY <1>2, LookupIInv, LocalIInv, DialIInv, PublishIInv, CloseConnIInv, EvictIInv DEF Step
<1>3. CASE \E c \in Calls : WatcherStep(c) \/ Expire(c)
  BY <1>3, LocalIInv, CloseConnIInv, EvictIInv DEF WatcherStep
<1>6. CASE \E c \in Calls : HandshakeStep(c)
  BY <1>6, HandshakeIInv
<1>4. CASE \E k \in Keys : BecomeIdle(k)
  BY <1>4, IdleIInv
<1>5. CASE Close
  BY <1>5, CloseIInv
<1> QED
  BY <1>1, <1>2, <1>3, <1>4, <1>5, <1>6 DEF Next

\* The inductive invariant holds in every state the client reaches.
THEOREM Invariance == Spec => []IInv
BY InitIInv, NextIInv, PTL DEF Spec

\* The variables keep their types.
THEOREM TypeCorrect == Spec => []TypeOK
BY Invariance, PTL DEF IInv

\* No connection leaks (NoLeak), whatever fails, times out or is dialled twice.
THEOREM NothingLeaks == Spec => []NoLeak
BY Invariance, PTL DEF IInv

\* A closed connection in the cache is about to be evicted, or was closed by the
\* goroutine of its handshake and no command has failed on it yet (NoDeadEntry).
THEOREM NothingDead == Spec => []NoDeadEntry
BY Invariance, PTL DEF IInv

\* Nothing dialled before Close is cached after it (NoOldGeneration).
THEOREM NothingOld == Spec => []NoOldGeneration
<1>1. IInv => NoOldGeneration
  BY DEF IInv, CachedInv, NoOldGeneration
<1> QED
  BY <1>1, Invariance, PTL

=============================================================================
