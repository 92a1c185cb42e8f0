------------------------------ MODULE Transport ------------------------------
(***************************************************************************)
(* The transfers between nodes (pkg/peer): the connection pool of one node *)
(* (client.go), its download goroutines, and the peers they download from, *)
(* each with a server that bounds its uploads (server.go).  A goroutine    *)
(* takes a connection from the pool or dials one, and opens a stream; the  *)
(* handler of the stream, which may outlive it, takes one of the slots of  *)
(* the server, waits in its queue or is refused.                           *)
(*                                                                         *)
(* The entries of the pool are kept in the order of lastUsed, so that the  *)
(* oldest is the first; the clock itself is left out.  What a stream       *)
(* carries is the subject of ChunkStore.                                   *)
(***************************************************************************)
EXTENDS Integers, FiniteSets, Sequences, Functions

CONSTANTS
    Thread,          \* the goroutines that download
    Addr,            \* the addresses of the peers
    Conn,            \* identifiers of connections
    MaxConns,        \* peerClient.maxConnections
    MaxConcurrency,  \* upload.maxConcurrency: the capacity of slots
    MaxQueueSize,    \* upload.maxQueueSize
    Unstable,        \* the peers that may stop, crash or be out of reach
    Nobody

ASSUME TransportAssumption ==
    /\ IsFiniteSet(Thread)
    /\ IsFiniteSet(Conn) => Cardinality(Conn) >= MaxConns + Cardinality(Thread)
    /\ MaxConns \in Nat \ {0}
    /\ MaxConcurrency \in Nat \ {0}
    /\ MaxQueueSize \in Nat
    /\ Unstable \subseteq Addr
    /\ Nobody \notin Addr \cup Conn

VARIABLES
    pool,      \* ClientPool.conns: the entries, oldest lastUsed first
    open,      \* the connections that are not closed
    stopped,   \* ClientPool.stopped
    thread,    \* thread[t]: where DownloadChunkTo of t stands
    handler,   \* handler[t]: where GetChunk of the last stream of t stands
    slots,     \* slots[a]: the length of the channel of server a
    waiting,   \* waiting[a]: the handlers blocked on that channel
    queued,    \* queued[a]: the atomic counter
    serving    \* serving[a]: the gRPC server of a

client == <<pool, open, stopped, thread>>
server == <<handler, slots, waiting, queued>>
netVars == <<client, server, serving>>

Resting == [pc |-> "idle", addr |-> Nobody, conn |-> Nobody]
NoCall == [at |-> Nobody, phase |-> "none"]

NetInit ==
    /\ pool = <<>> /\ open = {} /\ stopped = FALSE
    /\ thread = [t \in Thread |-> Resting]
    /\ handler = [t \in Thread |-> NoCall]
    /\ slots = [a \in Addr |-> 0]
    /\ waiting = [a \in Addr |-> <<>>]
    /\ queued = [a \in Addr |-> 0]
    /\ serving = [a \in Addr |-> "up"]

-----------------------------------------------------------------------------
(* The connection pool.                                                    *)

RemoveAt(s, i) == SubSeq(s, 1, i - 1) \o SubSeq(s, i + 1, Len(s))

Entry(a, c)   == [addr |-> a, conn |-> c]
Pooled        == {pool[i].addr : i \in DOMAIN pool}
Place(a)      == CHOOSE i \in DOMAIN pool : pool[i].addr = a
ConnOf(a)     == pool[Place(a)].conn
ConnsIn(p)    == {p[i].conn : i \in DOMAIN p}
Without(a)    == IF a \in Pooled THEN RemoveAt(pool, Place(a)) ELSE pool

(* A connection nobody refers to any more.                                 *)
Unused   == Conn \ (open \cup {thread[t].conn : t \in Thread})
FreeConn == CHOOSE c \in Unused : TRUE

(* The entries of the pool become those of p; what is left out is closed.  *)
Keep(p, new) ==
    /\ pool' = p \o new
    /\ open' = open \ (ConnsIn(pool) \ ConnsIn(p \o new))

(* evictOldestLocked, if the pool is full.                                 *)
MakeRoom(p) == IF Len(p) >= MaxConns THEN Tail(p) ELSE p

(* The context of every sync is done before the pool is closed (spiderd's  *)
(* shutdown), so that calls fail at once from then on.                     *)
Calls(t) == thread[t] = Resting /\ ~stopped

(* The first lock of GetClient: the entry becomes the newest.              *)
Hit(t, a) ==
    /\ Calls(t)
    /\ a \in Pooled
    /\ thread' = [thread EXCEPT ![t] = [pc |-> "ready", addr |-> a, conn |-> ConnOf(a)]]
    /\ Keep(Without(a), <<Entry(a, ConnOf(a))>>)
    /\ UNCHANGED <<stopped, server, serving>>

Miss(t, a) ==
    /\ Calls(t)
    /\ a \notin Pooled
    /\ Keep(MakeRoom(pool), <<>>)
    /\ thread' = [thread EXCEPT ![t] = [Resting EXCEPT !.pc = "dialing", !.addr = a]]
    /\ UNCHANGED <<stopped, server, serving>>

DialFails(t) ==
    /\ thread[t].pc = "dialing"
    /\ thread[t].addr \in Unstable \/ serving[thread[t].addr] # "up"
    /\ thread' = [thread EXCEPT ![t].pc = "failed"]
    /\ UNCHANGED <<pool, open, stopped, server, serving>>

DialSucceeds(t) ==
    /\ thread[t].pc = "dialing"
    /\ serving[thread[t].addr] = "up"
    /\ thread' = [thread EXCEPT ![t].pc = "dialed", ![t].conn = FreeConn]
    /\ open' = open \cup {FreeConn}
    /\ UNCHANGED <<pool, stopped, server, serving>>

(* Variant: the second look at the pool is left out, and the connection    *)
(* another goroutine has stored is overwritten.                            *)
StoreBlindly(t) ==
    LET a == thread[t].addr IN
    /\ thread[t].pc = "dialed"
    /\ pool' = Append(MakeRoom(Without(a)), Entry(a, thread[t].conn))
    /\ thread' = [thread EXCEPT ![t].pc = "ready"]
    /\ UNCHANGED <<open, stopped, server, serving>>

(* The second lock of GetClient: if another goroutine was faster, its      *)
(* connection is used and the own one closed.                              *)
Store(t) ==
    LET a == thread[t].addr
        c == thread[t].conn
    IN
    /\ thread[t].pc = "dialed"
    /\ IF a \in Pooled
       THEN /\ pool' = Append(Without(a), Entry(a, ConnOf(a)))
            /\ open' = open \ {c}
            /\ thread' = [thread EXCEPT ![t].pc = "ready", ![t].conn = ConnOf(a)]
       ELSE /\ Keep(MakeRoom(pool), <<Entry(a, c)>>)
            /\ thread' = [thread EXCEPT ![t].pc = "ready"]
    /\ UNCHANGED <<stopped, server, serving>>

(* evictIdle: the entries that were last used long enough ago.             *)
EvictIdle ==
    /\ ~stopped
    /\ \E k \in 1..Len(pool) : Keep(SubSeq(pool, k + 1, Len(pool)), <<>>)
    /\ UNCHANGED <<stopped, thread, server, serving>>

(* Close; a goroutine that is dialing is not told.                         *)
Close ==
    /\ ~stopped
    /\ stopped' = TRUE
    /\ Keep(<<>>, <<>>)
    /\ UNCHANGED <<thread, server, serving>>

-----------------------------------------------------------------------------
(* The client side of a stream.                                            *)

(* client.GetChunk: the request reaches the server.  The bound: not before *)
(* the handler of the last stream of the goroutine has returned.           *)
Request(t) ==
    /\ thread[t].pc = "ready"
    /\ thread[t].conn \in open /\ serving[thread[t].addr] = "up"
    /\ handler[t] = NoCall
    /\ thread' = [thread EXCEPT ![t].pc = "streaming"]
    /\ handler' = [handler EXCEPT ![t] = [at |-> thread[t].addr, phase |-> "arrived"]]
    /\ UNCHANGED <<pool, open, stopped, slots, waiting, queued, serving>>

(* The context of a handler: its client waits for it, on a connection that *)
(* is open.                                                                *)
Live(t) == thread[t].pc = "streaming" /\ thread[t].conn \in open

(* Variant: a call on a closed connection waits for it to come back.       *)
FailLate(t) ==
    /\ thread[t].pc = "streaming"
    /\ \/ thread[t].conn \notin open
       \/ handler[t].phase \in {"none", "closing"}
       \/ thread[t].addr \in Unstable
    /\ thread' = [thread EXCEPT ![t].pc = "failed", ![t].conn = Nobody]
    /\ UNCHANGED <<pool, open, stopped, server, serving>>

(* The pool or the server has closed the connection, the handler has       *)
(* returned an error, or the 30 s deadline is over.                        *)
Fail(t) ==
    /\ \/ /\ thread[t].pc = "ready"
          /\ thread[t].conn \notin open \/ serving[thread[t].addr] # "up"
       \/ /\ thread[t].pc = "streaming"
          /\ \/ thread[t].conn \notin open
             \/ handler[t].phase \in {"none", "closing"}
             \/ thread[t].addr \in Unstable
    /\ thread' = [thread EXCEPT ![t].pc = "failed", ![t].conn = Nobody]
    /\ UNCHANGED <<pool, open, stopped, server, serving>>

(* fetchChunk after a failure: if the breaker of the peer is open by now,  *)
(* RemovePeer closes the connection the pool has for the address.          *)
AfterFailure(t) ==
    /\ thread[t].pc = "failed"
    /\ \/ Keep(Without(thread[t].addr), <<>>)
       \/ UNCHANGED <<pool, open>>
    /\ thread' = [thread EXCEPT ![t] = Resting]
    /\ UNCHANGED <<stopped, server, serving>>

-----------------------------------------------------------------------------
(* The server side: acquireUpload.                                         *)

Phase(t, p) == handler' = [handler EXCEPT ![t].phase = p]
Return(t)   == handler' = [handler EXCEPT ![t] = NoCall]

(* The first select takes a free slot.                                     *)
TryAcquire(t) ==
    LET a == handler[t].at IN
    /\ handler[t].phase = "arrived"
    /\ IF slots[a] < MaxConcurrency
       THEN slots' = [slots EXCEPT ![a] = @ + 1] /\ Phase(t, "streaming")
       ELSE /\ UNCHANGED slots
            /\ IF MaxQueueSize = 0 THEN Return(t) ELSE Phase(t, "full")
    /\ UNCHANGED <<client, waiting, queued, serving>>

Count(t) ==
    LET a == handler[t].at IN
    /\ handler[t].phase = "full"
    /\ queued' = [queued EXCEPT ![a] = @ + 1]
    /\ Phase(t, IF queued'[a] > MaxQueueSize THEN "refused" ELSE "counted")
    /\ UNCHANGED <<client, slots, waiting, serving>>

(* The second select: a slot that has become free, or else the handler     *)
(* blocks as the last of the senders of the channel.                       *)
Wait(t) ==
    LET a == handler[t].at IN
    /\ handler[t].phase = "counted"
    /\ IF slots[a] < MaxConcurrency
       THEN slots' = [slots EXCEPT ![a] = @ + 1] /\ Phase(t, "taken") /\ UNCHANGED waiting
       ELSE waiting' = [waiting EXCEPT ![a] = Append(@, t)] /\ Phase(t, "waiting") /\ UNCHANGED slots
    /\ UNCHANGED <<client, queued, serving>>

LeaveQueue(q, t) ==
    IF t \in Range(q) THEN RemoveAt(q, CHOOSE i \in DOMAIN q : q[i] = t) ELSE q

(* ctx.Done is ready in the second select.                                 *)
GiveUp(t) ==
    LET a == handler[t].at IN
    /\ handler[t].phase \in {"counted", "waiting"}
    /\ ~Live(t)
    /\ waiting' = [waiting EXCEPT ![a] = LeaveQueue(@, t)]
    /\ Phase(t, "refused")
    /\ UNCHANGED <<client, slots, queued, serving>>

(* Variant: the counter is not decremented on the way of success.          *)
UncountRefused(t) ==
    LET a == handler[t].at IN
    /\ handler[t].phase \in {"taken", "refused"}
    /\ queued' = [queued EXCEPT ![a] = IF handler[t].phase = "refused" THEN @ - 1 ELSE @]
    /\ IF handler[t].phase = "taken" THEN Phase(t, "streaming") ELSE Return(t)
    /\ UNCHANGED <<client, slots, waiting, serving>>

(* The deferred decrement, and acquireUpload returns.                      *)
Uncount(t) ==
    LET a == handler[t].at IN
    /\ handler[t].phase \in {"taken", "refused"}
    /\ queued' = [queued EXCEPT ![a] = @ - 1]
    /\ IF handler[t].phase = "taken" THEN Phase(t, "streaming") ELSE Return(t)
    /\ UNCHANGED <<client, slots, waiting, serving>>

-----------------------------------------------------------------------------
(* The rest of GetChunk.                                                   *)

(* Variant: a handler whose client has left does not notice.               *)
EndStreamLive(t) ==
    /\ handler[t].phase = "streaming"
    /\ Live(t)
    /\ Phase(t, "closing")
    /\ UNCHANGED thread \/ thread' = [thread EXCEPT ![t] = Resting]
    /\ UNCHANGED <<pool, open, stopped, slots, waiting, queued, serving>>

(* The last slice is sent, or an error ends the stream.  In the first case *)
(* the client, if it is still there, leaves when it reads the slice.       *)
EndStream(t) ==
    /\ handler[t].phase = "streaming"
    /\ Phase(t, "closing")
    /\ \/ UNCHANGED thread
       \/ Live(t) /\ thread' = [thread EXCEPT ![t] = Resting]
    /\ UNCHANGED <<pool, open, stopped, slots, waiting, queued, serving>>

(* releaseUpload: the receive from a full channel lets the first of the    *)
(* blocked senders in.                                                     *)
Release(t) ==
    LET a == handler[t].at IN
    /\ handler[t].phase = "closing"
    /\ IF waiting[a] = <<>>
       THEN /\ slots' = [slots EXCEPT ![a] = IF @ > 0 THEN @ - 1 ELSE @]
            /\ Return(t)
            /\ UNCHANGED waiting
       ELSE /\ waiting' = [waiting EXCEPT ![a] = Tail(@)]
            /\ handler' = [handler EXCEPT ![t] = NoCall, ![Head(waiting[a])].phase = "taken"]
            /\ UNCHANGED slots
    /\ UNCHANGED <<client, queued, serving>>

-----------------------------------------------------------------------------
(* The servers.                                                            *)

At(a) == {t \in Thread : handler[t].at = a}

(* GracefulStop accepts no request any more and waits for the handlers.    *)
StopBegins(a) ==
    /\ a \in Unstable
    /\ serving[a] = "up"
    /\ serving' = [serving EXCEPT ![a] = "draining"]
    /\ UNCHANGED <<client, server>>

StopEnds(a) ==
    /\ serving[a] = "draining"
    /\ At(a) = {}
    /\ serving' = [serving EXCEPT ![a] = "gone"]
    /\ UNCHANGED <<client, server>>

Crash(a) ==
    /\ a \in Unstable
    /\ serving[a] # "gone"
    /\ serving' = [serving EXCEPT ![a] = "gone"]
    /\ handler' = [t \in Thread |-> IF t \in At(a) THEN NoCall ELSE handler[t]]
    /\ slots' = [slots EXCEPT ![a] = 0]
    /\ waiting' = [waiting EXCEPT ![a] = <<>>]
    /\ queued' = [queued EXCEPT ![a] = 0]
    /\ UNCHANGED client

(* NewServerWithLimits and Start.                                          *)
Start(a) ==
    /\ serving[a] = "gone"
    /\ serving' = [serving EXCEPT ![a] = "up"]
    /\ UNCHANGED <<client, server>>

-----------------------------------------------------------------------------
Download(t) ==
    \/ DialFails(t) \/ DialSucceeds(t) \/ Store(t) \/ Request(t) \/ Fail(t) \/ AfterFailure(t)

Serve(t) ==
    \/ TryAcquire(t) \/ Count(t) \/ Wait(t) \/ GiveUp(t) \/ Uncount(t)
    \/ EndStream(t) \/ Release(t)

NetNext ==
    \/ \E t \in Thread : Download(t) \/ Serve(t) \/ \E a \in Addr : Hit(t, a) \/ Miss(t, a)
    \/ \E a \in Addr : StopBegins(a) \/ StopEnds(a) \/ Crash(a) \/ Start(a)
    \/ EvictIdle \/ Close

NetSpec == NetInit /\ [][NetNext]_netVars

(* Goroutines are scheduled; dials and streams have deadlines.             *)
NetFairSpec ==
    /\ NetSpec
    /\ \A t \in Thread : WF_netVars(Download(t)) /\ WF_netVars(Serve(t))
    /\ \A a \in Addr : WF_netVars(StopEnds(a))

-----------------------------------------------------------------------------
(* The pool has at most maxConns connections, one per address, and the     *)
(* open connections are those in the pool and those a goroutine has dialed *)
(* and not stored yet.  GetClient unlocks the pool while it dials, and     *)
(* another goroutine may store a connection to the same or to another      *)
(* address meanwhile, or remove or evict one: none of this leaves an open  *)
(* connection outside of the pool or hands out a closed one.  Close is no  *)
(* exception, and no end either: a connection that was dialed before it is *)
(* stored after it (client.go:131), and stays in the pool, where nobody    *)
(* closes it any more.                                                     *)
PoolSound ==
    /\ Len(pool) <= MaxConns
    /\ \A i, j \in DOMAIN pool : pool[i].addr = pool[j].addr => i = j
    /\ open = ConnsIn(pool) \cup {thread[t].conn : t \in {u \in Thread : thread[u].pc = "dialed"}}

In(a, phases) == {t \in At(a) : handler[t].phase \in phases}

(* A slot of the server is taken exactly for each handler between a        *)
(* successful acquireUpload and its releaseUpload, and no handler blocks   *)
(* while a slot is free: whoever gives a slot back while others wait hands *)
(* it on.  The queue never holds more than maxQueueSize handlers, and its  *)
(* counter is given back on every way out of acquireUpload: also those     *)
(* that are refused are counted, but only until they return.               *)
UploadsExact ==
    \A a \in Addr :
        /\ slots[a] = Cardinality(In(a, {"taken", "streaming", "closing"}))
        /\ Range(waiting[a]) = In(a, {"waiting"})
        /\ waiting[a] # <<>> => slots[a] = MaxConcurrency
        /\ queued[a] = Cardinality(In(a, {"counted", "waiting", "taken", "refused"}))
        /\ Cardinality(In(a, {"counted", "waiting"})) <= MaxQueueSize

(* GracefulStop does not wait for ever: whoever holds a slot of a server   *)
(* that stops gives it back, and those who wait for one get one or leave.  *)
StopReturns == \A a \in Unstable : serving[a] = "draining" ~> serving[a] = "gone"

(* A download comes to its end, with the chunk or with an error, whatever  *)
(* evictions, restarts of peers and refusals it meets; where nothing but   *)
(* the queue of the peer delays it, without the help of its deadline.      *)
DownloadsReturn == \A t \in Thread : thread[t].pc # "idle" ~> thread[t].pc = "idle"

=============================================================================
