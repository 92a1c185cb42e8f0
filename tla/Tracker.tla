------------------------------ MODULE Tracker ------------------------------
(***************************************************************************)
(* The tracker's registry over the cached store: the inner store (peers    *)
(* and location rows, pkg/store/memory.go), the read-through decorator     *)
(* (pkg/store/cached.go), the metadata cache with its TTL (pkg/metacache)  *)
(* and the daemons that register, beat, report and deregister              *)
(* (cmd/spiderd).  gRPC handlers run concurrently, and every access to the *)
(* inner store or to the cache is a step of its own.                       *)
(*                                                                         *)
(* A peer is its address: a daemon that restarts comes back with another   *)
(* one.  Rows are the nodes reported for a chunk or as seeds of an         *)
(* artifact.  Time is two bits: whether the LastHeartbeat in the store is  *)
(* within peerExpiry, and whether a cache entry has reached its TTL.       *)
(* Whether a heartbeat comes within hbEvery of the last one flushed is     *)
(* left open.  Of an answer only what was looked up matters: its order,    *)
(* the requester, which is left out of it, and the filter by the cached    *)
(* LastHeartbeat are abstracted.                                           *)
(***************************************************************************)
EXTENDS Integers

CONSTANTS
    Node,       \* the daemons
    Chunk,      \* hashes with rows in chunks
    Artifact,   \* artifact IDs with rows in seeds
    Call,       \* handlers at work at the same time
    Asked,      \* the kinds of keys that are looked up: "peer", "list", "rows"
    MaxAddr     \* bound: addresses, and so lives, of a daemon

ASSUME BoundAssumption == MaxAddr \in Nat \ {0}

VARIABLES
    peers,    \* inner store: peers[n] is the address of n, 0 if it has no row
    live,     \* the registered nodes whose LastHeartbeat has not expired
    rows,     \* inner store: rows[k] are the nodes reported for k
    cache,    \* cache[key]: an entry or None
    run,      \* run[n]: the address of the running daemon, 0 if it is down
    life,     \* life[n]: the last address it had
    call,     \* the handlers
    overtaken \* the handlers that hold an answer a write has made out of date

store == <<peers, live, rows>>
vars  == <<store, cache, run, life, call, overtaken>>

Key        == Chunk \cup Artifact
PeerKey(n) == <<"peer", n>>
ListKey    == <<"list", "peers">>
RowsKey(k) == <<"rows", k>>
PeerKeys   == {PeerKey(n) : n \in Node}
RowsKeys   == {RowsKey(k) : k \in Key}
CacheKey   == PeerKeys \cup {ListKey} \cup RowsKeys

None == [none |-> TRUE]
Idle == [op |-> "idle"]

(* What the inner store answers for a key.                                 *)
Answer(p, r, key) ==
    IF key \in PeerKeys THEN p[key[2]] ELSE IF key = ListKey THEN p ELSE r[key[2]]

Inner(key) == Answer(peers, rows, key)

Init ==
    /\ peers = [n \in Node |-> 0] /\ live = {}
    /\ rows = [k \in Key |-> {}]
    /\ cache = [key \in CacheKey |-> None]
    /\ run = [n \in Node |-> 0] /\ life = [n \in Node |-> 0]
    /\ call = [c \in Call |-> Idle] /\ overtaken = {}

-----------------------------------------------------------------------------
(* The cache.  An entry remembers whether it was right when it was set, or *)
(* a write had overtaken the handler that set it.                          *)
Entry(val, old, set) == [val |-> val, old |-> old, set |-> set]

Set(c) ==
    /\ cache' = [cache EXCEPT ![call[c].key] =
                    Entry(call[c].val, FALSE, IF c \in overtaken THEN "raced" ELSE "right")]
    /\ overtaken' = overtaken \ {c}

Ages(key) ==
    /\ cache[key] # None /\ ~cache[key].old
    /\ cache' = [cache EXCEPT ![key] = Entry(@.val, TRUE, @.set)]
    /\ UNCHANGED <<store, run, life, call, overtaken>>

(* Variant: lists of locations are kept without a TTL.                     *)
ExpireButRows(key) ==
    /\ cache[key] # None /\ cache[key].old /\ key \notin RowsKeys
    /\ cache' = [cache EXCEPT ![key] = None]
    /\ UNCHANGED <<store, run, life, call, overtaken>>

Expire(key) ==
    /\ cache[key] # None /\ cache[key].old
    /\ cache' = [cache EXCEPT ![key] = None]
    /\ UNCHANGED <<store, run, life, call, overtaken>>

-----------------------------------------------------------------------------
(* The daemons and their requests.  A request holds its handler from when  *)
(* it is sent: it may be applied long after its sender gave up or died.    *)
Send(c, req) == call[c] = Idle /\ call' = [call EXCEPT ![c] = req]

Start(c, n) ==
    /\ run[n] = 0 /\ life[n] < MaxAddr
    /\ run' = [run EXCEPT ![n] = life[n] + 1]
    /\ life' = [life EXCEPT ![n] = @ + 1]
    /\ Send(c, [op |-> "register", n |-> n, addr |-> life[n] + 1])
    /\ UNCHANGED <<store, cache, overtaken>>

Beat(c, n) ==
    /\ run[n] # 0
    /\ Send(c, [op |-> "beat", n |-> n])
    /\ UNCHANGED <<store, cache, run, life, overtaken>>

Advertise(c, n, k) ==
    /\ run[n] # 0
    /\ Send(c, [op |-> "report", n |-> n, k |-> k])
    /\ UNCHANGED <<store, cache, run, life, overtaken>>

StopDaemon(c, n) ==
    /\ run[n] # 0
    /\ run' = [run EXCEPT ![n] = 0]
    /\ Send(c, [op |-> "deregister", n |-> n])
    /\ UNCHANGED <<store, cache, life, overtaken>>

Crash(n) ==
    /\ run[n] # 0
    /\ run' = [run EXCEPT ![n] = 0]
    /\ UNCHANGED <<store, cache, life, call, overtaken>>

(* LocateChunks and LocateArtifact look up the rows and then the peers in  *)
(* them, requesterLoc one peer, ListActivePeers the list.                  *)
Ask(c, key) ==
    /\ key[1] \in Asked
    /\ Send(c, [op |-> "get", todo |-> {key}])
    /\ UNCHANGED <<store, cache, run, life, overtaken>>

Sweep(c) ==
    /\ Send(c, [op |-> "prune"])
    /\ UNCHANGED <<store, cache, run, life, overtaken>>

(* A request that never arrives, or an error of the inner store.           *)
Lost(c) ==
    /\ call[c].op \in {"register", "beat", "report", "deregister", "prune", "flush", "read"}
    /\ call' = [call EXCEPT ![c] = Idle]
    /\ UNCHANGED <<store, cache, run, life, overtaken>>

(* peerExpiry has passed since the LastHeartbeat: the daemon is down, or   *)
(* its heartbeats are late.                                                *)
Expired(n) ==
    /\ n \in live
    /\ live' = live \ {n}
    /\ UNCHANGED <<peers, rows, cache, run, life, call, overtaken>>

-----------------------------------------------------------------------------
(* The handlers that write: first the inner store, then the invalidations. *)
(* CacheCoherent is about one entry and the store, and the others are      *)
(* about the long run, so the deletions of one handler are one step.       *)
Goto(c, next) == call' = [call EXCEPT ![c] = next]

Holds(c) == call[c].op \in {"fill", "renewset"}

Overtakes ==
    overtaken' = overtaken \cup
        {c \in Call : Holds(c) /\ Answer(peers', rows', call[c].key) # Inner(call[c].key)}

Invalidating(doomed) == [op |-> "invalidate", doomed |-> doomed]

Upserted(n, a) == peers' = [peers EXCEPT ![n] = a] /\ live' = live \cup {n}

Register(c) ==
    /\ call[c].op = "register"
    /\ Upserted(call[c].n, call[c].addr)
    /\ Goto(c, Invalidating({PeerKey(call[c].n), ListKey}))
    /\ UNCHANGED <<rows, cache, run, life>>
    /\ Overtakes

Removed(S) ==
    /\ peers' = [n \in Node |-> IF n \in S THEN 0 ELSE peers[n]]
    /\ live' = live \ S
    /\ rows' = [k \in Key |-> rows[k] \ S]

(* Variant: only the entries of the peer itself are invalidated.           *)
DeregisterPeerOnly(c) ==
    /\ call[c].op = "deregister"
    /\ Removed({call[c].n})
    /\ Goto(c, Invalidating({PeerKey(call[c].n), ListKey}))
    /\ UNCHANGED <<cache, run, life>>
    /\ Overtakes

Deregister(c) ==
    /\ call[c].op = "deregister"
    /\ Removed({call[c].n})
    /\ Goto(c, Invalidating({PeerKey(call[c].n), ListKey} \cup RowsKeys))
    /\ UNCHANGED <<cache, run, life>>
    /\ Overtakes

(* Variant: nodes with rows are not pruned.                                *)
PruneIdle(c) ==
    LET dead == {n \in Node : peers[n] # 0 /\ n \notin live /\ \A k \in Key : n \notin rows[k]}
    IN  /\ call[c].op = "prune"
        /\ Removed(dead)
        /\ Goto(c, IF dead = {} THEN Idle ELSE Invalidating(CacheKey))
        /\ UNCHANGED <<cache, run, life>>
        /\ Overtakes

Prune(c) ==
    LET dead == {n \in Node : peers[n] # 0 /\ n \notin live}
    IN  /\ call[c].op = "prune"
        /\ Removed(dead)
        /\ Goto(c, IF dead = {} THEN Idle ELSE Invalidating(CacheKey))
        /\ UNCHANGED <<cache, run, life>>
        /\ Overtakes

(* The row is written whether or not the node is registered; a report of   *)
(* chunks is a sign of life, too.                                          *)
Recorded(n, k) ==
    /\ rows' = [rows EXCEPT ![k] = @ \cup {n}]
    /\ live' = IF k \in Chunk /\ peers[n] # 0 THEN live \cup {n} ELSE live

Report(c) ==
    /\ call[c].op = "report"
    /\ Recorded(call[c].n, call[c].k)
    /\ Goto(c, Invalidating({RowsKey(call[c].k)}))
    /\ UNCHANGED <<peers, cache, run, life>>
    /\ Overtakes

Invalidate(c) ==
    /\ call[c].op = "invalidate"
    /\ cache' = [key \in CacheKey |-> IF key \in call[c].doomed THEN None ELSE cache[key]]
    /\ Goto(c, Idle)
    /\ UNCHANGED <<store, run, life, overtaken>>

-----------------------------------------------------------------------------
(* Heartbeats: within hbEvery of the last flush only the cached entry is   *)
(* renewed; otherwise, or if there is none, the inner store first.         *)
Heartbeat(c) ==
    /\ call[c].op = "beat"
    /\ \/ Goto(c, [op |-> "flush", n |-> call[c].n])
       \/ Goto(c, [op |-> "renew", n |-> call[c].n, inner |-> FALSE])
    /\ UNCHANGED <<store, cache, run, life, overtaken>>

Flush(c) ==
    /\ call[c].op = "flush"
    /\ LET n == call[c].n
       IN  IF peers[n] = 0
           THEN Goto(c, Idle) /\ UNCHANGED live
           ELSE live' = live \cup {n} /\ Goto(c, [op |-> "renew", n |-> n, inner |-> TRUE])
    /\ UNCHANGED <<peers, rows, cache, run, life, overtaken>>

RenewGet(c) ==
    /\ call[c].op = "renew"
    /\ LET n == call[c].n  e == cache[PeerKey(n)]
       IN  /\ Goto(c, IF e # None
                      THEN [op |-> "renewset", key |-> PeerKey(n), val |-> e.val]
                      ELSE IF call[c].inner THEN Idle ELSE [op |-> "flush", n |-> n])
           /\ overtaken' = IF e # None /\ e.val # Inner(PeerKey(n))
                           THEN overtaken \cup {c} ELSE overtaken
    /\ UNCHANGED <<store, cache, run, life>>

RenewSet(c) ==
    /\ call[c].op = "renewset"
    /\ Set(c)
    /\ Goto(c, Idle)
    /\ UNCHANGED <<store, run, life>>

-----------------------------------------------------------------------------
(* The read-through lookups.  What an answer names is looked up next.      *)
Answered(todo, key, val) ==
    LET more == (todo \ {key}) \cup IF key \in RowsKeys THEN {PeerKey(n) : n \in val} ELSE {}
    IN  IF more = {} THEN Idle ELSE [op |-> "get", todo |-> more]

Hit(c, key) ==
    /\ call[c].op = "get" /\ key \in call[c].todo
    /\ cache[key] # None
    /\ Goto(c, Answered(call[c].todo, key, cache[key].val))
    /\ UNCHANGED <<store, cache, run, life, overtaken>>

Miss(c, key) ==
    /\ call[c].op = "get" /\ key \in call[c].todo
    /\ cache[key] = None
    /\ Goto(c, [op |-> "read", todo |-> call[c].todo, key |-> key])
    /\ UNCHANGED <<store, cache, run, life, overtaken>>

(* A peer without a row is not cached, an empty list of rows is.           *)
Read(c) ==
    /\ call[c].op = "read"
    /\ LET key == call[c].key
       IN  Goto(c, IF key \in PeerKeys /\ Inner(key) = 0
                   THEN Answered(call[c].todo, key, 0)
                   ELSE [op |-> "fill", todo |-> call[c].todo, key |-> key, val |-> Inner(key)])
    /\ UNCHANGED <<store, cache, run, life, overtaken>>

Fill(c) ==
    /\ call[c].op = "fill"
    /\ Set(c)
    /\ Goto(c, Answered(call[c].todo, call[c].key, call[c].val))
    /\ UNCHANGED <<store, run, life>>

-----------------------------------------------------------------------------
Step(c) ==
    \/ Register(c) \/ Deregister(c) \/ Prune(c) \/ Report(c) \/ Invalidate(c)
    \/ Heartbeat(c) \/ Flush(c) \/ RenewGet(c) \/ RenewSet(c)
    \/ \E key \in CacheKey : Hit(c, key) \/ Miss(c, key)
    \/ Read(c) \/ Fill(c)

Next ==
    \/ \E c \in Call :
          \/ Step(c) \/ Lost(c) \/ Sweep(c)
          \/ \E n \in Node : Start(c, n) \/ Beat(c, n) \/ StopDaemon(c, n)
          \/ \E n \in Node, k \in Key : Advertise(c, n, k)
          \/ \E key \in CacheKey : Ask(c, key)
    \/ \E n \in Node : Crash(n) \/ Expired(n)
    \/ \E key \in CacheKey : Ages(key) \/ Expire(key)

Spec == Init /\ [][Next]_vars

(* Handlers go on, time passes, daemons beat and the tracker sweeps on     *)
(* their tickers, and not every sweep fails.  The two tickers are strongly *)
(* fair because the bound on handlers is the model's.                      *)
FairSpec ==
    /\ Spec
    /\ \A c \in Call : WF_vars(Step(c))
    /\ \A key \in CacheKey : WF_vars(Ages(key)) /\ WF_vars(Expire(key))
    /\ \A n \in Node : WF_vars(run[n] = 0 /\ Expired(n)) /\ SF_vars(\E c \in Call : Beat(c, n))
    /\ SF_vars(\E c \in Call : Sweep(c)) /\ SF_vars(\E c \in Call : Prune(c))

-----------------------------------------------------------------------------
(* What a request that runs alone now would see.                           *)
Lookup(key) == IF cache[key] = None THEN Inner(key) ELSE cache[key].val

Located(k) == {n \in Lookup(RowsKey(k)) : Lookup(PeerKey(n)) # 0}

RequestOK(req) ==
    /\ req.op \in {"register", "deregister", "report", "beat", "flush", "renew"} => req.n \in Node
    /\ req.op = "register" => req.addr \in 1..MaxAddr
    /\ req.op = "report" => req.k \in Key

CallsOK ==
    /\ call = [c \in Call |-> call[c]]
    /\ \A c \in Call : RequestOK(call[c])
    /\ overtaken \subseteq {c \in Call : Holds(c)}

TypeOK ==
    /\ peers \in [Node -> 0..MaxAddr] /\ live \subseteq {n \in Node : peers[n] # 0}
    /\ rows \in [Key -> SUBSET Node]
    /\ cache = [key \in CacheKey |-> cache[key]]
    /\ run \in [Node -> 0..MaxAddr] /\ life \in [Node -> 0..MaxAddr]
    /\ CallsOK

(* CachedStore: "Writes hit inner Store first, then invalidate."  A cached *)
(* answer differs from the inner store only while a write that changed it  *)
(* has yet to invalidate it, or if the handler that set the entry held an  *)
(* answer that such a write had made out of date before the Set.           *)
CacheCoherent ==
    \A key \in CacheKey :
        \/ cache[key] = None \/ cache[key].set = "raced" \/ cache[key].val = Inner(key)
        \/ \E c \in Call : /\ call[c].op = "invalidate"
                           /\ key \in call[c].doomed

(* A daemon that is down for good is forgotten by the store and the cache, *)
(* whether it deregistered or not and whatever requests of it come late.   *)
DeadPeerForgotten ==
    \A n \in Node : <>[](run[n] = 0) => <>[](Lookup(PeerKey(n)) = 0)

(* What a registered daemon has reported is located in the end, although a *)
(* lookup that raced with the report may have cached the list without it;  *)
(* or the daemon goes down or is pruned.                                   *)
AdvertisedIsLocated ==
    \A n \in Node, k \in Key :
        (peers[n] # 0 /\ n \in rows[k]) ~> (n \in Located(k) \/ run[n] = 0 \/ peers[n] = 0)

=============================================================================
