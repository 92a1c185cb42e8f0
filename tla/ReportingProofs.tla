-------------------------- MODULE ReportingProofs --------------------------
(***************************************************************************)
(* Proofs about the two ends of the reports of chunks.                     *)
(*                                                                         *)
(* The tracker's cached store, for any sets of daemons, keys and           *)
(* concurrent handlers and any kinds of lookups: the type invariant and    *)
(* the coherence of the cache with the inner store.  Coherence alone is    *)
(* not inductive: what a handler is about to cache must be right, too,     *)
(* unless a write has overtaken it (HeldRight).                            *)
(*                                                                         *)
(* The advertiser, for any number of hashes, any capacities and any number *)
(* of attempts: no hash is lost or duplicated on its way, each is given up *)
(* after the same number of failed calls, and Stop leaves none untried.    *)
(***************************************************************************)
EXTENDS Tracker, Advertiser, FiniteSetTheorems, TLAPS

-----------------------------------------------------------------------------
(* The cached store of the tracker.                                        *)

(* What a handler holds between its read and its Set is what the inner     *)
(* store answers, unless a write has overtaken it.                         *)
HeldRight ==
    \A c \in Call : Holds(c) /\ c \notin overtaken => call[c].val = Inner(call[c].key)

CoherenceInv == TypeOK /\ HeldRight /\ CacheCoherent

(* The inner store answers from the peers and the rows alone.              *)
LEMMA InnerSame ==
    ASSUME UNCHANGED <<peers, rows>>
    PROVE  \A key : Answer(peers', rows', key) = Inner(key)
BY Zenon DEF Inner

(* A step without a write keeps every other handler's answer right.        *)
LEMMA HeldStep ==
    ASSUME HeldRight, UNCHANGED <<peers, rows>>, NEW c \in Call,
           \A d \in Call \ {c} : call'[d] = call[d] /\ (d \in overtaken' <=> d \in overtaken),
           Holds(c)' /\ c \notin overtaken' => call'[c].val = Inner(call'[c].key)
    PROVE  HeldRight'
<1> SUFFICES ASSUME NEW d \in Call, Holds(d)', d \notin overtaken'
             PROVE  call'[d].val = Answer(peers', rows', call'[d].key)
  BY Zenon DEF HeldRight, Inner
<1>1. CASE d = c
  BY <1>1, InnerSame, Zenon
<1>2. CASE d # c
  BY <1>2, InnerSame, ZenonT(30) DEF HeldRight, Holds
<1> QED BY <1>1, <1>2, Zenon

(* A write overtakes the handlers that hold an answer it changes.          *)
LEMMA HeldWrite ==
    ASSUME HeldRight, Overtakes, NEW c \in Call, ~Holds(c)',
           \A d \in Call \ {c} : call'[d] = call[d]
    PROVE  HeldRight'
<1> SUFFICES ASSUME NEW d \in Call, Holds(d)', d \notin overtaken'
             PROVE  call'[d].val = Answer(peers', rows', call'[d].key)
  BY Zenon DEF HeldRight, Inner
<1>1. d # c /\ call'[d] = call[d] /\ Holds(d) /\ d \notin overtaken
  BY Zenon DEF Holds, Overtakes
<1>2. Answer(peers', rows', call[d].key) = Inner(call[d].key)
  BY <1>1, Zenon DEF Overtakes
<1> QED BY <1>1, <1>2, Zenon DEF HeldRight

(* A handler that only moves on does not disturb the cache.                *)
LEMMA Quiet ==
    ASSUME CacheCoherent, UNCHANGED <<peers, rows, cache>>,
           NEW c \in Call, call[c].op # "invalidate",
           \A d \in Call \ {c} : call'[d] = call[d]
    PROVE  CacheCoherent'
<1> SUFFICES ASSUME NEW key \in CacheKey
             PROVE  \/ cache'[key] = None \/ cache'[key].set = "raced"
                    \/ cache'[key].val = Answer(peers', rows', key)
                    \/ \E d \in Call : call'[d].op = "invalidate" /\ key \in call'[d].doomed
  BY Zenon DEF CacheCoherent, Inner
<1>1. CASE \E d \in Call : call[d].op = "invalidate" /\ key \in call[d].doomed
  BY <1>1, Zenon
<1>2. CASE cache[key] = None \/ cache[key].set = "raced" \/ cache[key].val = Inner(key)
  BY <1>2, InnerSame, Zenon
<1> QED BY <1>1, <1>2, Zenon DEF CacheCoherent

(* A write followed by the invalidation of all it changed keeps the cache  *)
(* coherent.                                                               *)
LEMMA WriteStep ==
    ASSUME CoherenceInv, UNCHANGED cache, Overtakes,
           NEW c \in Call, call[c].op # "invalidate", NEW doomed,
           Goto(c, Invalidating(doomed)),
           \A key \in CacheKey \ doomed : Answer(peers', rows', key) = Inner(key)
    PROVE  HeldRight' /\ CacheCoherent'
<1>1. call'[c] = Invalidating(doomed) /\ \A d \in Call \ {c} : call'[d] = call[d]
  BY Zenon DEF Goto, CoherenceInv, TypeOK, CallsOK
<1>2. HeldRight'
  BY <1>1, HeldWrite DEF CoherenceInv, Holds, Invalidating
<1>3. CacheCoherent'
  <2> SUFFICES ASSUME NEW key \in CacheKey
               PROVE  \/ cache'[key] = None \/ cache'[key].set = "raced"
                      \/ cache'[key].val = Answer(peers', rows', key)
                      \/ \E d \in Call : call'[d].op = "invalidate" /\ key \in call'[d].doomed
    BY Zenon DEF CacheCoherent, Inner
  <2>1. CASE key \in doomed
    <3>1. call'[c].op = "invalidate" /\ key \in call'[c].doomed
      BY <1>1, <2>1 DEF Invalidating
    <3> QED BY <3>1, Zenon
  <2>2. CASE key \notin doomed
    <3>1. CASE \E d \in Call : call[d].op = "invalidate" /\ key \in call[d].doomed
      BY <1>1, <3>1, Zenon
    <3>2. CASE cache[key] = None \/ cache[key].set = "raced" \/ cache[key].val = Inner(key)
      BY <2>2, <3>2, Zenon
    <3> QED BY <3>1, <3>2, Zenon DEF CoherenceInv, CacheCoherent
  <2> QED BY <2>1, <2>2, Zenon
<1> QED BY <1>2, <1>3, Zenon

(* What a handler caches is right, or the entry says that it was           *)
(* overtaken.                                                              *)
LEMMA SetStep ==
    ASSUME CoherenceInv, UNCHANGED <<peers, rows>>,
           NEW c \in Call, Holds(c), Set(c), ~Holds(c)',
           \A d \in Call \ {c} : call'[d] = call[d]
    PROVE  HeldRight' /\ CacheCoherent'
<1>1. HeldRight'
  BY HeldStep, Zenon DEF CoherenceInv, Set
<1>2. CacheCoherent'
  <2> SUFFICES ASSUME NEW key \in CacheKey
               PROVE  \/ cache'[key] = None \/ cache'[key].set = "raced"
                      \/ cache'[key].val = Answer(peers', rows', key)
                      \/ \E d \in Call : call'[d].op = "invalidate" /\ key \in call'[d].doomed
    BY Zenon DEF CacheCoherent, Inner
  <2>1. CASE key = call[c].key
    <3>1. cache'[key] = Entry(call[c].val, FALSE, IF c \in overtaken THEN "raced" ELSE "right")
      BY <2>1, Zenon DEF Set, CoherenceInv, TypeOK
    <3>2. cache'[key].val = call[c].val /\ (c \in overtaken => cache'[key].set = "raced")
      BY <3>1 DEF Entry
    <3>3. c \notin overtaken => call[c].val = Inner(key)
      BY <2>1, Zenon DEF CoherenceInv, HeldRight
    <3> QED BY <3>2, <3>3, InnerSame, Zenon
  <2>2. CASE key # call[c].key
    <3>1. cache'[key] = cache[key]
      BY <2>2, Zenon DEF Set, CoherenceInv, TypeOK
    <3>2. CASE \E d \in Call : call[d].op = "invalidate" /\ key \in call[d].doomed
      BY <3>2, Zenon DEF Holds
    <3>3. CASE cache[key] = None \/ cache[key].set = "raced" \/ cache[key].val = Inner(key)
      BY <3>1, <3>3, InnerSame, Zenon
    <3> QED BY <3>2, <3>3, Zenon DEF CoherenceInv, CacheCoherent
  <2> QED BY <2>1, <2>2, Zenon
<1> QED BY <1>1, <1>2, Zenon

-----------------------------------------------------------------------------
(* A handler that holds no answer moves on to a well-formed request.       *)
LEMMA Moves ==
    ASSUME CallsOK, NEW c \in Call, ~Holds(c), NEW req, RequestOK(req),
           call' = [call EXCEPT ![c] = req], UNCHANGED overtaken
    PROVE  CallsOK'
<1>1. call'[c] = req /\ \A d \in Call \ {c} : call'[d] = call[d]
  BY Zenon DEF CallsOK
<1>2. call' = [d \in Call |-> call'[d]]
  BY Zenon DEF CallsOK
<1>3. \A d \in Call : RequestOK(call'[d])
  BY <1>1, Zenon DEF CallsOK
<1>4. overtaken' \subseteq {d \in Call : Holds(d)'}
  BY <1>1, Zenon DEF CallsOK, Holds
<1> QED BY <1>2, <1>3, <1>4, Zenon DEF CallsOK

(* So does one that takes up a request.                                    *)
LEMMA Sends ==
    ASSUME TypeOK, NEW c \in Call, NEW req, RequestOK(req), Send(c, req), UNCHANGED overtaken
    PROVE  CallsOK'
<1>1. ~Holds(c)
  BY DEF Send, Holds, Idle
<1> QED BY <1>1, Moves, Zenon DEF Send, TypeOK

(* Handlers find well-formed requests, and the store keeps its types.      *)
THEOREM TypeCorrect == Spec => []TypeOK
<1>1. Init => TypeOK
  BY BoundAssumption DEF Init, TypeOK, CallsOK, RequestOK, Holds, Idle
<1>2. TypeOK /\ [Next]_vars => TypeOK'
  <2> SUFFICES ASSUME TypeOK, [Next]_vars PROVE TypeOK'
    BY Zenon
  <2> USE BoundAssumption
  <2>1. ASSUME NEW c \in Call, Register(c) PROVE TypeOK'
    <3>1. call[c].n \in Node /\ call[c].addr \in 1..MaxAddr
      BY <2>1, Zenon DEF Register, TypeOK, CallsOK, RequestOK
    <3>2. peers' \in [Node -> 0..MaxAddr]
      BY <2>1, <3>1 DEF Register, Upserted, TypeOK
    <3>3. live' \subseteq {n \in Node : peers'[n] # 0}
      BY <2>1, <3>1 DEF Register, Upserted, TypeOK
    <3>4. /\ call' = [d \in Call |-> call'[d]]
          /\ call[c].op = "register" /\ call'[c].op = "invalidate"
          /\ \A d \in Call \ {c} : call'[d] = call[d]
      BY <2>1, Zenon DEF Register, Goto, Invalidating, TypeOK, CallsOK
    <3>5. overtaken' \subseteq {d \in Call : Holds(d)'}
      BY <2>1, <3>4, Zenon DEF Register, Overtakes, Holds, TypeOK, CallsOK
    <3>6. CallsOK'
      BY <3>4, <3>5, Zenon DEF TypeOK, CallsOK, RequestOK
    <3> QED BY <2>1, <3>2, <3>3, <3>6, Zenon DEF Register, TypeOK
  <2>2. ASSUME NEW c \in Call, Deregister(c) PROVE TypeOK'
    <3>1. peers' \in [Node -> 0..MaxAddr] /\ live' \subseteq {n \in Node : peers'[n] # 0}
      BY <2>2 DEF Deregister, Removed, TypeOK
    <3>2. rows' \in [Key -> SUBSET Node]
      BY <2>2, Zenon DEF Deregister, Removed, TypeOK
    <3>3. /\ call' = [d \in Call |-> call'[d]]
          /\ call[c].op = "deregister" /\ call'[c].op = "invalidate"
          /\ \A d \in Call \ {c} : call'[d] = call[d]
      BY <2>2, Zenon DEF Deregister, Goto, Invalidating, TypeOK, CallsOK
    <3>4. overtaken' \subseteq {d \in Call : Holds(d)'}
      BY <2>2, <3>3, Zenon DEF Deregister, Overtakes, Holds, TypeOK, CallsOK
    <3>5. CallsOK'
      BY <3>3, <3>4, Zenon DEF TypeOK, CallsOK, RequestOK
    <3> QED BY <2>2, <3>1, <3>2, <3>5, Zenon DEF Deregister, TypeOK
  <2>3. ASSUME NEW c \in Call, Prune(c) PROVE TypeOK'
    <3>1. peers' \in [Node -> 0..MaxAddr] /\ live' \subseteq {n \in Node : peers'[n] # 0}
      BY <2>3 DEF Prune, Removed, TypeOK
    <3>2. rows' \in [Key -> SUBSET Node]
      BY <2>3, Zenon DEF Prune, Removed, TypeOK
    <3>3. /\ call' = [d \in Call |-> call'[d]]
          /\ call[c].op = "prune" /\ call'[c].op \in {"idle", "invalidate"}
          /\ \A d \in Call \ {c} : call'[d] = call[d]
      BY <2>3, Zenon DEF Prune, Goto, Invalidating, Idle, TypeOK, CallsOK
    <3>4. overtaken' \subseteq {d \in Call : Holds(d)'}
      BY <2>3, <3>3, Zenon DEF Prune, Overtakes, Holds, TypeOK, CallsOK
    <3>5. CallsOK'
      BY <3>3, <3>4, Zenon DEF TypeOK, CallsOK, RequestOK
    <3> QED BY <2>3, <3>1, <3>2, <3>5, Zenon DEF Prune, TypeOK
  <2>4. ASSUME NEW c \in Call, Report(c) PROVE TypeOK'
    <3>1. call[c].n \in Node /\ call[c].k \in Key
      BY <2>4, Zenon DEF Report, TypeOK, CallsOK, RequestOK
    <3>2. rows' \in [Key -> SUBSET Node]
      BY <2>4, <3>1, Zenon DEF Report, Recorded, TypeOK
    <3>3. live' \subseteq {n \in Node : peers'[n] # 0}
      BY <2>4, <3>1, Zenon DEF Report, Recorded, TypeOK
    <3>4. /\ call' = [d \in Call |-> call'[d]]
          /\ call[c].op = "report" /\ call'[c].op = "invalidate"
          /\ \A d \in Call \ {c} : call'[d] = call[d]
      BY <2>4, Zenon DEF Report, Goto, Invalidating, TypeOK, CallsOK
    <3>5. overtaken' \subseteq {d \in Call : Holds(d)'}
      BY <2>4, <3>4, Zenon DEF Report, Overtakes, Holds, TypeOK, CallsOK
    <3>6. CallsOK'
      BY <3>4, <3>5, Zenon DEF TypeOK, CallsOK, RequestOK
    <3> QED BY <2>4, <3>2, <3>3, <3>6, Zenon DEF Report, TypeOK
  <2>5. ASSUME NEW c \in Call, Invalidate(c) PROVE TypeOK'
    <3>1. CallsOK'
      BY <2>5, Moves, Zenon DEF Invalidate, Idle, Goto, RequestOK, CallsOK, TypeOK, Holds
    <3> QED BY <2>5, <3>1, Zenon DEF Invalidate, TypeOK, store
  <2>6. ASSUME NEW c \in Call, Heartbeat(c) PROVE TypeOK'
    <3>1. CallsOK'
      BY <2>6, Moves, Zenon DEF Heartbeat, Goto, RequestOK, CallsOK, TypeOK, Holds
    <3> QED BY <2>6, <3>1, Zenon DEF Heartbeat, TypeOK, store
  <2>7. ASSUME NEW c \in Call, Flush(c) PROVE TypeOK'
    <3>1. CallsOK'
      BY <2>7, Moves, Zenon DEF Flush, Idle, Goto, RequestOK, CallsOK, TypeOK, Holds
    <3>2. call[c].n \in Node
      BY <2>7, Zenon DEF Flush, TypeOK, CallsOK, RequestOK
    <3>3. live' \subseteq {n \in Node : peers'[n] # 0}
      BY <2>7, <3>2, Zenon DEF Flush, TypeOK
    <3> QED BY <2>7, <3>1, <3>3, Zenon DEF Flush, TypeOK
  <2>8. ASSUME NEW c \in Call, RenewGet(c) PROVE TypeOK'
    BY <2>8, Zenon DEF RenewGet, Idle, TypeOK, CallsOK, store, Goto, Holds, CallsOK, RequestOK
  <2>9. ASSUME NEW c \in Call, RenewSet(c) PROVE TypeOK'
    BY <2>9, Zenon DEF RenewSet, Set, Idle, TypeOK, CallsOK, store, Goto, Holds, CallsOK, RequestOK
  <2>10. ASSUME NEW c \in Call, NEW key \in CacheKey, Hit(c, key) PROVE TypeOK'
    <3>1. CallsOK'
      BY <2>10, Moves, Zenon DEF Hit, Answered, Idle, Goto, RequestOK, CallsOK, TypeOK, Holds
    <3> QED BY <2>10, <3>1, Zenon DEF Hit, TypeOK, store
  <2>11. ASSUME NEW c \in Call, NEW key \in CacheKey, Miss(c, key) PROVE TypeOK'
    <3>1. RequestOK([op |-> "read", todo |-> call[c].todo, key |-> key]) /\ ~Holds(c)
      BY <2>11, Zenon DEF Miss, RequestOK, Holds
    <3>2. CallsOK'
      BY <2>11, <3>1, Moves, Zenon DEF Miss, Goto, TypeOK
    <3> QED BY <2>11, <3>2, Zenon DEF Miss, TypeOK, store
  <2>12. ASSUME NEW c \in Call, Read(c) PROVE TypeOK'
    <3>1. CallsOK'
      BY <2>12, Moves, Zenon DEF Read, Answered, Idle, Goto, RequestOK, CallsOK, TypeOK, Holds
    <3> QED BY <2>12, <3>1, Zenon DEF Read, TypeOK, store
  <2>13. ASSUME NEW c \in Call, Fill(c) PROVE TypeOK'
    BY <2>13, Zenon DEF Fill, Set, Answered, Idle, TypeOK, CallsOK, store, Goto, Holds, CallsOK, RequestOK
  <2>14. ASSUME NEW c \in Call, Lost(c) PROVE TypeOK'
    <3>1. CallsOK'
      BY <2>14, Moves, Zenon DEF Lost, Idle, RequestOK, CallsOK, TypeOK, Holds
    <3> QED BY <2>14, <3>1, Zenon DEF Lost, TypeOK, store
  <2>15. ASSUME NEW c \in Call, Sweep(c) PROVE TypeOK'
    <3>1. RequestOK([op |-> "prune"])
      BY Zenon DEF RequestOK
    <3>2. CallsOK'
      BY <2>15, <3>1, Sends, Zenon DEF Sweep
    <3> QED BY <2>15, <3>2, Zenon DEF Sweep, TypeOK, store
  <2>16. ASSUME NEW c \in Call, NEW n \in Node, Start(c, n) PROVE TypeOK'
    <3>1. RequestOK([op |-> "register", n |-> n, addr |-> life[n] + 1])
      BY <2>16, BoundAssumption DEF Start, RequestOK, TypeOK
    <3>2. CallsOK'
      BY <2>16, <3>1, Sends, Zenon DEF Start
    <3> QED BY <2>16, <3>2 DEF Start, TypeOK, store
  <2>17. ASSUME NEW c \in Call, NEW n \in Node, Beat(c, n) PROVE TypeOK'
    <3>1. RequestOK([op |-> "beat", n |-> n])
      BY Zenon DEF RequestOK
    <3>2. CallsOK'
      BY <2>17, <3>1, Sends, Zenon DEF Beat
    <3> QED BY <2>17, <3>2, Zenon DEF Beat, TypeOK, store
  <2>18. ASSUME NEW c \in Call, NEW n \in Node, StopDaemon(c, n) PROVE TypeOK'
    <3>1. RequestOK([op |-> "deregister", n |-> n])
      BY Zenon DEF RequestOK
    <3>2. CallsOK'
      BY <2>18, <3>1, Sends, Zenon DEF StopDaemon
    <3> QED BY <2>18, <3>2 DEF StopDaemon, TypeOK, store
  <2>19. ASSUME NEW c \in Call, NEW n \in Node, NEW k \in Key, Advertise(c, n, k) PROVE TypeOK'
    <3>1. RequestOK([op |-> "report", n |-> n, k |-> k])
      BY Zenon DEF RequestOK
    <3>2. CallsOK'
      BY <2>19, <3>1, Sends, Zenon DEF Advertise
    <3> QED BY <2>19, <3>2, Zenon DEF Advertise, TypeOK, store
  <2>20. ASSUME NEW c \in Call, NEW key \in CacheKey, Ask(c, key) PROVE TypeOK'
    <3>1. RequestOK([op |-> "get", todo |-> {key}])
      BY Zenon DEF RequestOK
    <3>2. CallsOK'
      BY <2>20, <3>1, Sends, Zenon DEF Ask
    <3> QED BY <2>20, <3>2, Zenon DEF Ask, TypeOK, store
  <2>21. ASSUME NEW n \in Node, Crash(n) PROVE TypeOK'
    BY <2>21 DEF Crash, TypeOK, CallsOK, store, Holds, CallsOK, RequestOK
  <2>22. ASSUME NEW n \in Node, Expired(n) PROVE TypeOK'
    BY <2>22, Zenon DEF Expired, TypeOK, CallsOK, Holds, CallsOK, RequestOK
  <2>23. ASSUME NEW key \in CacheKey, Ages(key) PROVE TypeOK'
    BY <2>23, Zenon DEF Ages, TypeOK, CallsOK, store, Holds, CallsOK, RequestOK
  <2>24. ASSUME NEW key \in CacheKey, Expire(key) PROVE TypeOK'
    BY <2>24, Zenon DEF Expire, TypeOK, CallsOK, store, Holds, CallsOK, RequestOK
  <2>25. CASE UNCHANGED vars
    BY <2>25, Zenon DEF vars, store, TypeOK, CallsOK, Holds
  <2> QED
    BY <2>1, <2>2, <2>3, <2>4, <2>5, <2>6, <2>7, <2>8, <2>9, <2>10, <2>11,
       <2>12, <2>13, <2>14, <2>15, <2>16, <2>17, <2>18, <2>19, <2>20,
       <2>21, <2>22, <2>23, <2>24, <2>25, Zenon
    DEF Next, Step
<1> QED BY <1>1, <1>2, PTL DEF Spec

(* The coherence invariant is inductive.                                   *)
THEOREM CoherenceInvariant == Spec => []CoherenceInv
<1>1. Init => HeldRight /\ CacheCoherent
  BY DEF Init, CacheCoherent, HeldRight, Holds, Idle
<1>2. CoherenceInv /\ [Next]_vars => HeldRight' /\ CacheCoherent'
  <2> SUFFICES ASSUME CoherenceInv, [Next]_vars PROVE HeldRight' /\ CacheCoherent'
    BY Zenon
  <2> USE DEF CoherenceInv
  <2>1. ASSUME NEW c \in Call, Heartbeat(c) PROVE HeldRight' /\ CacheCoherent'
    <3>1. /\ UNCHANGED <<peers, rows, cache, overtaken>> /\ ~Holds(c)'
          /\ call[c].op # "invalidate" /\ \A d \in Call \ {c} : call'[d] = call[d]
      BY <2>1 DEF Heartbeat, Goto, TypeOK, CallsOK, store, Holds
    <3> QED BY <3>1, Quiet, HeldStep, Zenon
  <2>2. ASSUME NEW c \in Call, Flush(c) PROVE HeldRight' /\ CacheCoherent'
    <3>1. /\ UNCHANGED <<peers, rows, cache, overtaken>> /\ ~Holds(c)'
          /\ call[c].op # "invalidate" /\ \A d \in Call \ {c} : call'[d] = call[d]
      BY <2>2 DEF Flush, Idle, Goto, TypeOK, CallsOK, store, Holds
    <3> QED BY <3>1, Quiet, HeldStep, Zenon
  <2>3. ASSUME NEW c \in Call, NEW key \in CacheKey, Hit(c, key) PROVE HeldRight' /\ CacheCoherent'
    <3>1. /\ UNCHANGED <<peers, rows, cache, overtaken>> /\ ~Holds(c)'
          /\ call[c].op # "invalidate" /\ \A d \in Call \ {c} : call'[d] = call[d]
      BY <2>3, Zenon DEF Hit, Answered, Idle, Goto, TypeOK, CallsOK, store, Holds
    <3> QED BY <3>1, Quiet, HeldStep, Zenon
  <2>4. ASSUME NEW c \in Call, NEW key \in CacheKey, Miss(c, key) PROVE HeldRight' /\ CacheCoherent'
    <3>1. /\ UNCHANGED <<peers, rows, cache, overtaken>> /\ ~Holds(c)'
          /\ call[c].op # "invalidate" /\ \A d \in Call \ {c} : call'[d] = call[d]
      BY <2>4, Zenon DEF Miss, Goto, TypeOK, CallsOK, store, Holds
    <3> QED BY <3>1, Quiet, HeldStep, Zenon
  <2>5. ASSUME NEW c \in Call, Lost(c) PROVE HeldRight' /\ CacheCoherent'
    <3>1. /\ UNCHANGED <<peers, rows, cache, overtaken>> /\ ~Holds(c)'
          /\ call[c].op # "invalidate" /\ \A d \in Call \ {c} : call'[d] = call[d]
      BY <2>5, Zenon DEF Lost, Idle, TypeOK, CallsOK, store, Holds
    <3> QED BY <3>1, Quiet, HeldStep, Zenon
  <2>6. ASSUME NEW c \in Call, Sweep(c) PROVE HeldRight' /\ CacheCoherent'
    <3>1. /\ UNCHANGED <<peers, rows, cache, overtaken>> /\ ~Holds(c)'
          /\ call[c].op # "invalidate" /\ \A d \in Call \ {c} : call'[d] = call[d]
      BY <2>6 DEF Sweep, Send, Idle, TypeOK, CallsOK, store, Holds
    <3> QED BY <3>1, Quiet, HeldStep, Zenon
  <2>7. ASSUME NEW c \in Call, NEW n \in Node, Start(c, n) PROVE HeldRight' /\ CacheCoherent'
    <3>1. /\ UNCHANGED <<peers, rows, cache, overtaken>> /\ ~Holds(c)'
          /\ call[c].op # "invalidate" /\ \A d \in Call \ {c} : call'[d] = call[d]
      BY <2>7 DEF Start, Send, Idle, TypeOK, CallsOK, store, Holds
    <3> QED BY <3>1, Quiet, HeldStep, Zenon
  <2>8. ASSUME NEW c \in Call, NEW n \in Node, Beat(c, n) PROVE HeldRight' /\ CacheCoherent'
    <3>1. /\ UNCHANGED <<peers, rows, cache, overtaken>> /\ ~Holds(c)'
          /\ call[c].op # "invalidate" /\ \A d \in Call \ {c} : call'[d] = call[d]
      BY <2>8 DEF Beat, Send, Idle, TypeOK, CallsOK, store, Holds
    <3> QED BY <3>1, Quiet, HeldStep, Zenon
  <2>9. ASSUME NEW c \in Call, NEW n \in Node, StopDaemon(c, n) PROVE HeldRight' /\ CacheCoherent'
    <3>1. /\ UNCHANGED <<peers, rows, cache, overtaken>> /\ ~Holds(c)'
          /\ call[c].op # "invalidate" /\ \A d \in Call \ {c} : call'[d] = call[d]
      BY <2>9 DEF StopDaemon, Send, Idle, TypeOK, CallsOK, store, Holds
    <3> QED BY <3>1, Quiet, HeldStep, Zenon
  <2>10. ASSUME NEW c \in Call, NEW n \in Node, NEW k \in Key, Advertise(c, n, k)
        PROVE HeldRight' /\ CacheCoherent'
    <3>1. /\ UNCHANGED <<peers, rows, cache, overtaken>> /\ ~Holds(c)'
          /\ call[c].op # "invalidate" /\ \A d \in Call \ {c} : call'[d] = call[d]
      BY <2>10 DEF Advertise, Send, Idle, TypeOK, CallsOK, store, Holds
    <3> QED BY <3>1, Quiet, HeldStep, Zenon
  <2>11. ASSUME NEW c \in Call, NEW key \in CacheKey, Ask(c, key) PROVE HeldRight' /\ CacheCoherent'
    <3>1. /\ UNCHANGED <<peers, rows, cache, overtaken>> /\ ~Holds(c)'
          /\ call[c].op # "invalidate" /\ \A d \in Call \ {c} : call'[d] = call[d]
      BY <2>11 DEF Ask, Send, Idle, TypeOK, CallsOK, store, Holds
    <3> QED BY <3>1, Quiet, HeldStep, Zenon
  <2>12. ASSUME NEW c \in Call, RenewGet(c) PROVE HeldRight' /\ CacheCoherent'
    <3>1. /\ UNCHANGED <<peers, rows, cache>> /\ call[c].op # "invalidate" /\ ~Holds(c)
          /\ \A d \in Call \ {c} : call'[d] = call[d] /\ (d \in overtaken' <=> d \in overtaken)
      BY <2>12, Zenon DEF RenewGet, Goto, TypeOK, CallsOK, store, Holds
    <3>2. ASSUME Holds(c)', c \notin overtaken' PROVE call'[c].val = Inner(call'[c].key)
      <4> DEFINE key == PeerKey(call[c].n)
      <4>1. cache[key] # None
        BY <2>12, <3>2, Zenon DEF RenewGet, Goto, TypeOK, CallsOK, Holds, Idle
      <4>2. call'[c] = [op |-> "renewset", key |-> key, val |-> cache[key].val]
        BY <2>12, <4>1, Zenon DEF RenewGet, Goto, TypeOK, CallsOK
      <4>3. cache[key].val = Inner(key)
        BY <2>12, <3>2, <4>1, Zenon DEF RenewGet
      <4> QED BY <4>2, <4>3
    <3> QED BY <3>1, <3>2, Quiet, HeldStep, Zenon
  <2>13. ASSUME NEW c \in Call, Read(c) PROVE HeldRight' /\ CacheCoherent'
    <3>1. /\ UNCHANGED <<peers, rows, cache, overtaken>> /\ call[c].op # "invalidate"
          /\ \A d \in Call \ {c} : call'[d] = call[d]
      BY <2>13, Zenon DEF Read, Goto, TypeOK, CallsOK, store
    <3>2. ASSUME Holds(c)' PROVE call'[c].val = Inner(call'[c].key)
      <4> DEFINE key == call[c].key
      <4>1. \/ call'[c] = Answered(call[c].todo, key, 0)
            \/ call'[c] = [op |-> "fill", todo |-> call[c].todo, key |-> key, val |-> Inner(key)]
        BY <2>13, Zenon DEF Read, Goto, TypeOK, CallsOK
      <4>2. call'[c] # Answered(call[c].todo, key, 0)
        BY <3>2 DEF Holds, Answered, Idle
      <4> QED BY <4>1, <4>2
    <3> QED BY <3>1, <3>2, Quiet, HeldStep, Zenon
  <2>14. ASSUME NEW c \in Call, Register(c) PROVE HeldRight' /\ CacheCoherent'
    <3> DEFINE doomed == {PeerKey(call[c].n), ListKey}
    <3>1. /\ UNCHANGED <<rows, cache>> /\ Overtakes /\ call[c].op # "invalidate"
          /\ Goto(c, Invalidating(doomed))
      BY <2>14, Zenon DEF Register
    <3>2. \A n \in Node : n # call[c].n => peers'[n] = peers[n]
      BY <2>14, Zenon DEF Register, Upserted, TypeOK
    <3>3. ASSUME NEW key \in CacheKey \ doomed PROVE Answer(peers', rows', key) = Inner(key)
      <4>1. CASE key \in PeerKeys
        <5>1. PICK n \in Node : key = PeerKey(n)
          BY <4>1, Zenon DEF PeerKeys
        <5>2. n # call[c].n /\ key[2] = n
          BY <3>3, <5>1, Zenon DEF PeerKey
        <5> QED BY <3>2, <4>1, <5>2, Zenon DEF Inner, Answer
      <4>2. CASE key \notin PeerKeys
        BY <3>1, <3>3, <4>2, Zenon DEF Inner, Answer
      <4> QED BY <4>1, <4>2, Zenon
    <3> HIDE DEF doomed
    <3> QED BY <3>1, <3>3, WriteStep, Zenon
  <2>15. ASSUME NEW c \in Call, Report(c) PROVE HeldRight' /\ CacheCoherent'
    <3> DEFINE doomed == {RowsKey(call[c].k)}
    <3>1. /\ UNCHANGED <<peers, cache>> /\ Overtakes /\ call[c].op # "invalidate"
          /\ Goto(c, Invalidating(doomed))
      BY <2>15, Zenon DEF Report
    <3>2. \A k \in Key : k # call[c].k => rows'[k] = rows[k]
      BY <2>15, Zenon DEF Report, Recorded, TypeOK
    <3>3. ASSUME NEW key \in CacheKey \ doomed PROVE Answer(peers', rows', key) = Inner(key)
      <4>1. CASE key \in RowsKeys
        <5>1. PICK k \in Key : key = RowsKey(k)
          BY <4>1, Zenon DEF RowsKeys
        <5>2. k # call[c].k /\ key[2] = k
          BY <3>3, <5>1, Zenon DEF RowsKey
        <5> QED BY <3>1, <3>2, <5>2, Zenon DEF Inner, Answer
      <4>2. CASE key \in PeerKeys \cup {ListKey}
        BY <3>1, <4>2, Zenon DEF Inner, Answer
      <4> QED BY <4>1, <4>2, Zenon DEF CacheKey
    <3> HIDE DEF doomed
    <3> QED BY <3>1, <3>3, WriteStep, Zenon
  <2>16. ASSUME NEW c \in Call, Deregister(c) PROVE HeldRight' /\ CacheCoherent'
    <3> DEFINE doomed == {PeerKey(call[c].n), ListKey} \cup RowsKeys
    <3>1. /\ UNCHANGED cache /\ Overtakes /\ call[c].op # "invalidate"
          /\ Goto(c, Invalidating(doomed))
      BY <2>16, Zenon DEF Deregister
    <3>2. \A n \in Node : n # call[c].n => peers'[n] = peers[n]
      BY <2>16, Zenon DEF Deregister, Removed, TypeOK
    <3>3. ASSUME NEW key \in CacheKey \ doomed PROVE Answer(peers', rows', key) = Inner(key)
      <4>1. key \in PeerKeys
        BY <3>3, Zenon DEF CacheKey
      <4>2. PICK n \in Node : key = PeerKey(n)
        BY <4>1, Zenon DEF PeerKeys
      <4>3. n # call[c].n /\ key[2] = n
        BY <3>3, <4>2, Zenon DEF PeerKey
      <4> QED BY <3>2, <4>1, <4>3, Zenon DEF Inner, Answer
    <3> HIDE DEF doomed
    <3> QED BY <3>1, <3>3, WriteStep, Zenon
  <2>17. ASSUME NEW c \in Call, Prune(c) PROVE HeldRight' /\ CacheCoherent'
    <3> DEFINE dead == {n \in Node : peers[n] # 0 /\ n \notin live}
    <3>1. UNCHANGED cache /\ Overtakes /\ call[c].op # "invalidate"
      BY <2>17, Zenon DEF Prune
    <3>2. CASE dead = {}
      <4>1. peers' = peers /\ rows' = rows
        BY <2>17, <3>2, Zenon DEF Prune, Removed, TypeOK
      <4>2. ~Holds(c)' /\ \A d \in Call \ {c} : call'[d] = call[d]
        BY <2>17, <3>2, Zenon DEF Prune, Goto, TypeOK, CallsOK, Holds, Idle
      <4> QED BY <3>1, <4>1, <4>2, Quiet, HeldWrite, Zenon
    <3>3. CASE dead # {}
      <4>1. Goto(c, Invalidating(CacheKey))
        BY <2>17, <3>3, Zenon DEF Prune
      <4> QED BY <3>1, <4>1, WriteStep, Zenon
    <3> QED BY <3>2, <3>3, Zenon
  <2>18. ASSUME NEW c \in Call, Invalidate(c) PROVE HeldRight' /\ CacheCoherent'
    <3>1. /\ UNCHANGED <<peers, rows, overtaken>> /\ ~Holds(c)'
          /\ \A d \in Call \ {c} : call'[d] = call[d]
      BY <2>18, Zenon DEF Invalidate, Goto, TypeOK, CallsOK, store, Holds, Idle
    <3>2. HeldRight'
      BY <3>1, HeldStep, Zenon
    <3>3. CacheCoherent'
      <4> SUFFICES ASSUME NEW key \in CacheKey, cache'[key] # None, cache'[key].set # "raced",
                          cache'[key].val # Answer(peers', rows', key)
                   PROVE  \E d \in Call : call'[d].op = "invalidate" /\ key \in call'[d].doomed
        BY Zenon DEF CacheCoherent, Inner
      <4>1. key \notin call[c].doomed /\ cache'[key] = cache[key]
        BY <2>18, Zenon DEF Invalidate
      <4>2. PICK d \in Call : call[d].op = "invalidate" /\ key \in call[d].doomed
        BY <3>1, <4>1, InnerSame, Zenon DEF CacheCoherent
      <4> QED BY <3>1, <4>1, <4>2, Zenon
    <3> QED BY <3>2, <3>3, Zenon
  <2>19. ASSUME NEW c \in Call, RenewSet(c) PROVE HeldRight' /\ CacheCoherent'
    <3>1. /\ UNCHANGED <<peers, rows>> /\ Holds(c) /\ Set(c) /\ ~Holds(c)'
          /\ \A d \in Call \ {c} : call'[d] = call[d]
      BY <2>19, Zenon DEF RenewSet, Goto, Idle, TypeOK, CallsOK, store, Holds
    <3> QED BY <3>1, SetStep, Zenon
  <2>20. ASSUME NEW c \in Call, Fill(c) PROVE HeldRight' /\ CacheCoherent'
    <3>1. /\ UNCHANGED <<peers, rows>> /\ Holds(c) /\ Set(c) /\ ~Holds(c)'
          /\ \A d \in Call \ {c} : call'[d] = call[d]
      BY <2>20, Zenon DEF Fill, Goto, Answered, Idle, TypeOK, CallsOK, store, Holds
    <3> QED BY <3>1, SetStep, Zenon
  <2>21. ASSUME NEW key \in CacheKey, Expire(key) PROVE HeldRight' /\ CacheCoherent'
    <3>1. UNCHANGED <<peers, rows, call, overtaken>>
      BY <2>21, Zenon DEF Expire, store
    <3>2. \A l \in CacheKey : cache'[l] = None \/ cache'[l] = cache[l]
      BY <2>21, Zenon DEF Expire, TypeOK, CallsOK
    <3> QED BY <3>1, <3>2, Zenon DEF CacheCoherent, HeldRight, Holds, Inner
  <2>22. ASSUME NEW key \in CacheKey, Ages(key) PROVE HeldRight' /\ CacheCoherent'
    <3>1. UNCHANGED <<peers, rows, call, overtaken>>
      BY <2>22, Zenon DEF Ages, store
    <3>2. \A l \in CacheKey \ {key} : cache'[l] = cache[l]
      BY <2>22, Zenon DEF Ages, TypeOK, CallsOK
    <3>3. cache[key] # None /\ cache'[key] = Entry(cache[key].val, TRUE, cache[key].set)
      BY <2>22, Zenon DEF Ages, TypeOK, CallsOK
    <3>4. cache'[key].val = cache[key].val /\ cache'[key].set = cache[key].set
      BY <3>3 DEF Entry
    <3> QED BY <3>1, <3>2, <3>3, <3>4, Zenon DEF CacheCoherent, HeldRight, Holds, Inner
  <2>23. ASSUME NEW n \in Node, Crash(n) PROVE HeldRight' /\ CacheCoherent'
    <3>1. UNCHANGED <<peers, rows, call, overtaken>>
      BY <2>23, Zenon DEF Crash, store
    <3>2. \A l \in CacheKey : cache'[l] = cache[l]
      BY <2>23, Zenon DEF Crash, TypeOK, CallsOK
    <3> QED BY <3>1, <3>2, Zenon DEF CacheCoherent, HeldRight, Holds, Inner
  <2>24. ASSUME NEW n \in Node, Expired(n) PROVE HeldRight' /\ CacheCoherent'
    <3>1. UNCHANGED <<peers, rows, call, overtaken>>
      BY <2>24, Zenon DEF Expired, store
    <3>2. \A l \in CacheKey : cache'[l] = cache[l]
      BY <2>24, Zenon DEF Expired, TypeOK, CallsOK
    <3> QED BY <3>1, <3>2, Zenon DEF CacheCoherent, HeldRight, Holds, Inner
  <2>25. CASE UNCHANGED vars
    BY <2>25, Zenon DEF vars, store, CacheCoherent, HeldRight, Holds, Inner
  <2> QED
    BY <2>1, <2>2, <2>3, <2>4, <2>5, <2>6, <2>7, <2>8, <2>9, <2>10, <2>11,
       <2>12, <2>13, <2>14, <2>15, <2>16, <2>17, <2>18, <2>19, <2>20,
       <2>21, <2>22, <2>23, <2>24, <2>25, Zenon
    DEF Next, Step
<1> QED BY <1>1, <1>2, TypeCorrect, PTL DEF Spec, CoherenceInv

(* "Writes hit inner Store first, then invalidate": a cached answer that   *)
(* differs from the inner store has an invalidation ahead of it, or was    *)
(* cached by a handler that a write had overtaken.                         *)
THEOREM Coherence == Spec => []CacheCoherent
<1>1. CoherenceInv => CacheCoherent
  BY Zenon DEF CoherenceInv
<1> QED BY <1>1, CoherenceInvariant, PTL

-----------------------------------------------------------------------------
(* The advertiser.                                                         *)

(* The inductive invariant.                                                *)
Typed ==
    /\ ch \subseteq Item /\ buf \subseteq Item /\ retry \subseteq Item
    /\ ready \subseteq Item /\ report \subseteq Item /\ fresh \subseteq Item
    /\ reported \subseteq Item /\ failed \subseteq Item /\ dropped \subseteq Item
    /\ before \subseteq Item /\ tried \subseteq Item
    /\ due \subseteq retry
    /\ attempt \in [Item -> Nat] /\ tries \in [Item -> Nat]
    /\ pc \in PC /\ stopped \in BOOLEAN

Bounded == Cardinality(ch) <= ChanCap /\ Cardinality(retry) <= RetryCap

(* i is in one of the places, and not in a later one as well.              *)
Placed(i) ==
    /\ i \in fresh \cup ch \cup buf \cup report \cup ready \cup retry \cup reported \cup failed \cup dropped
    /\ i \in fresh => i \notin ch \cup buf \cup report \cup ready \cup retry \cup reported \cup failed \cup dropped
    /\ i \in ch => i \notin buf \cup report \cup ready \cup retry \cup reported \cup failed \cup dropped
    /\ i \in buf => i \notin report \cup ready \cup retry \cup reported \cup failed \cup dropped
    /\ i \in report => i \notin ready \cup retry \cup reported \cup failed \cup dropped
    /\ i \in ready => i \notin retry \cup reported \cup failed \cup dropped
    /\ i \in retry => i \notin reported \cup failed \cup dropped
    /\ i \in reported => i \notin failed \cup dropped
    /\ i \in failed => i \notin dropped

AllPlaced == \A i \in Item : Placed(i)

(* flushRetries takes entries out only to report them at once.             *)
ReadyInTurn == pc \notin {"retries", "last"} => ready = {}

(* The attempt an entry carries is the number of calls that failed it, and *)
(* the hashes of one call are all on the same attempt.                     *)
Counted(i) ==
    /\ i \notin failed \cup dropped => tries[i] = attempt[i]
    /\ i \notin failed => tries[i] < MaxRetries
    /\ i \in failed => tries[i] = MaxRetries
    /\ i \in fresh \cup ch \cup buf => attempt[i] = 0

AllCounted == (\A i \in Item : Counted(i)) /\ \A i, j \in report : attempt[i] = attempt[j]

(* What Stop's drain and last flush have left behind of what was enqueued  *)
(* before.                                                                 *)
Stopping ==
    /\ before \cap fresh = {}
    /\ pc \in {"drain", "final", "last", "finished"} => stopped
    /\ pc \in {"final", "last", "finished"} => before \cap (ch \cup buf) = {}
    /\ pc \in {"last", "finished"} => before \cap retry \subseteq tried
    /\ pc = "finished" => report = {}

IInv == Typed /\ Bounded /\ AllPlaced /\ ReadyInTurn /\ AllCounted /\ Stopping

-----------------------------------------------------------------------------
(* A part of a queue is no longer than the queue.                          *)
LEMMA Fewer ==
    ASSUME NEW S \in SUBSET Item, NEW T \in SUBSET S
    PROVE  Cardinality(T) <= Cardinality(S) /\ Cardinality(T) \in Nat /\ Cardinality(S) \in Nat
<1>1. IsFiniteSet(S)
  BY FS_Subset, CapacityAssumption, Zenon
<1> QED BY <1>1, FS_Subset, FS_CardinalityType, Zenon

(* What scheduleRetry does with the entries it is given.                   *)
LEMMA Scheduled ==
    ASSUME NEW S, NEW n, ScheduleRetry(S, n)
    PROVE  \E kept \in SUBSET S :
              /\ Cardinality(retry') <= RetryCap
              /\ retry' = retry \cup kept
              /\ attempt' = [i \in Item |-> IF i \in kept THEN n ELSE attempt[i]]
              /\ dropped' = dropped \cup (S \ kept)
BY Zenon DEF ScheduleRetry

(* A hash goes into the channel, or past a full one to the retry queue.    *)
LEMMA EnqueueInv ==
    ASSUME IInv, NEW i \in Item, Enqueue(i)
    PROVE  IInv'
<1> DEFINE Rest == UNCHANGED <<buf, due, ready, report, pc, stopped, reported, failed, tries, tried>>
<1>1. /\ i \in fresh /\ fresh' = fresh \ {i}
      /\ before' = (IF stopped THEN before ELSE before \cup {i}) /\ Rest
  BY Zenon DEF Enqueue
<1>2. Placed(i) /\ Counted(i)
  BY Zenon DEF IInv, AllPlaced, AllCounted
<1>3. attempt[i] = 0 /\ tries[i] = 0
  BY <1>1, <1>2, Zenon DEF Placed, Counted
<1>4. CASE Cardinality(ch) < ChanCap
  <2>1. ch' = ch \cup {i} /\ UNCHANGED <<retry, attempt, dropped>>
    BY <1>4, Zenon DEF Enqueue
  <2>2. Typed'
    BY <1>1, <2>1, Zenon DEF IInv, Typed
  <2>3. Bounded'
    <3>1. IsFiniteSet(ch) /\ Cardinality(ch) \in Nat
      BY FS_Subset, FS_CardinalityType, CapacityAssumption, Zenon DEF IInv, Typed
    <3>2. Cardinality(ch \cup {i}) = IF i \in ch THEN Cardinality(ch) ELSE Cardinality(ch) + 1
      BY <3>1, FS_AddElement, Zenon
    <3> QED BY <1>4, <2>1, <3>1, <3>2, CapacityAssumption DEF IInv, Bounded
  <2>4. AllPlaced'
    BY <1>1, <2>1, Zenon DEF IInv, Typed, AllPlaced, Placed
  <2>5. ReadyInTurn' /\ AllCounted'
    BY <1>1, <1>3, <2>1, Zenon DEF IInv, Typed, ReadyInTurn, AllCounted, Counted
  <2>6. Stopping'
    BY <1>1, <1>2, <2>1, Zenon DEF IInv, Typed, Stopping
  <2> QED BY <2>2, <2>3, <2>4, <2>5, <2>6, Zenon DEF IInv
<1>5. CASE ~(Cardinality(ch) < ChanCap)
  <2>1. ScheduleRetry({i}, 0) /\ ch' = ch
    BY <1>5, Zenon DEF Enqueue
  <2>2. PICK kept \in SUBSET {i} :
            /\ Cardinality(retry') <= RetryCap
            /\ retry' = retry \cup kept
            /\ attempt' = [j \in Item |-> IF j \in kept THEN 0 ELSE attempt[j]]
            /\ dropped' = dropped \cup ({i} \ kept)
    BY <2>1, Scheduled
  <2>3. attempt' = attempt
    BY <1>3, <2>2, Zenon DEF IInv, Typed
  <2>4. Typed'
    BY <1>1, <2>1, <2>2, <2>3, Zenon DEF IInv, Typed
  <2>5. Bounded'
    BY <2>1, <2>2, Zenon DEF IInv, Bounded
  <2>6. AllPlaced'
    BY <1>1, <2>1, <2>2, ZenonT(30) DEF IInv, Typed, AllPlaced, Placed
  <2>7. ReadyInTurn' /\ AllCounted'
    BY <1>1, <1>3, <2>1, <2>2, <2>3 DEF IInv, Typed, ReadyInTurn, AllCounted, Counted
  <2>8. Stopping'
    BY <1>1, <1>2, <2>1, <2>2, Zenon DEF IInv, Typed, Stopping
  <2> QED BY <2>4, <2>5, <2>6, <2>7, <2>8, Zenon DEF IInv
<1> QED BY <1>4, <1>5, Zenon

(* A backoff ends.                                                         *)
LEMMA DueInv ==
    ASSUME IInv, NEW i \in Item, Due(i)
    PROVE  IInv'
<1>1. Typed'
  BY Zenon DEF IInv, Typed, PC, Due, outcome, history
<1>2. Bounded'
  BY Zenon DEF IInv, Typed, Bounded, Due, outcome, history
<1>3. AllPlaced'
  BY Zenon DEF IInv, Typed, AllPlaced, Placed, ReadyInTurn, Due, outcome, history
<1>4. ReadyInTurn'
  BY Zenon DEF IInv, ReadyInTurn, Due, outcome, history
<1>5. AllCounted'
  BY Zenon DEF IInv, Typed, AllPlaced, Placed, AllCounted, Counted, Due, outcome, history
<1>6. Stopping'
  BY Zenon DEF IInv, Typed, Stopping, Due, outcome, history
<1> QED BY <1>1, <1>2, <1>3, <1>4, <1>5, <1>6, Zenon DEF IInv

(* Stop closes done.                                                       *)
LEMMA StopInv ==
    ASSUME IInv, Stop
    PROVE  IInv'
<1>1. Typed'
  BY Zenon DEF IInv, Typed, PC, Stop, queues, outcome, history
<1>2. Bounded'
  BY Zenon DEF IInv, Typed, Bounded, Stop, queues, outcome, history
<1>3. AllPlaced'
  BY Zenon DEF IInv, Typed, AllPlaced, Placed, ReadyInTurn, Stop, queues, outcome, history
<1>4. ReadyInTurn'
  BY Zenon DEF IInv, ReadyInTurn, Stop, queues, outcome, history
<1>5. AllCounted'
  BY Zenon DEF IInv, Typed, AllPlaced, Placed, AllCounted, Counted, Stop, queues, outcome, history
<1>6. Stopping'
  BY Zenon DEF IInv, Typed, Stopping, Stop, queues, outcome, history
<1> QED BY <1>1, <1>2, <1>3, <1>4, <1>5, <1>6, Zenon DEF IInv

(* The loop takes a hash from the channel.                                 *)
LEMMA TakeInv ==
    ASSUME IInv, NEW i \in Item, Take(i)
    PROVE  IInv'
<1>1. Typed'
  BY Zenon DEF IInv, Typed, PC, Take, At, outcome, history
<1>2. Bounded'
  <2>1. ch' \subseteq ch /\ retry' = retry
    BY Zenon DEF Take, At, outcome, history
  <2>2. Cardinality(ch') <= Cardinality(ch) /\ Cardinality(retry') <= Cardinality(retry)
        /\ Cardinality(ch') \in Nat /\ Cardinality(retry') \in Nat
        /\ Cardinality(ch) \in Nat /\ Cardinality(retry) \in Nat
    BY <2>1, Fewer, Zenon DEF IInv, Typed
  <2> QED BY <2>2, CapacityAssumption DEF IInv, Bounded
<1>3. AllPlaced'
  BY DEF IInv, Typed, AllPlaced, Placed, ReadyInTurn, Take, At, outcome, history
<1>4. ReadyInTurn'
  BY Zenon DEF IInv, ReadyInTurn, Take, At, outcome, history
<1>5. AllCounted'
  BY ZenonT(30) DEF IInv, Typed, AllPlaced, Placed, AllCounted, Counted, Take, At, outcome, history
<1>6. Stopping'
  BY Zenon DEF IInv, Typed, Stopping, Take, At, outcome, history
<1> QED BY <1>1, <1>2, <1>3, <1>4, <1>5, <1>6, Zenon DEF IInv

(* The drain takes a hash from the channel.                                *)
LEMMA DrainInv ==
    ASSUME IInv, NEW i \in Item, Drain(i)
    PROVE  IInv'
<1>1. Typed'
  BY Zenon DEF IInv, Typed, PC, Drain, At, outcome, history
<1>2. Bounded'
  <2>1. ch' \subseteq ch /\ retry' = retry
    BY Zenon DEF Drain, At, outcome, history
  <2>2. Cardinality(ch') <= Cardinality(ch) /\ Cardinality(retry') <= Cardinality(retry)
        /\ Cardinality(ch') \in Nat /\ Cardinality(retry') \in Nat
        /\ Cardinality(ch) \in Nat /\ Cardinality(retry) \in Nat
    BY <2>1, Fewer, Zenon DEF IInv, Typed
  <2> QED BY <2>2, CapacityAssumption DEF IInv, Bounded
<1>3. AllPlaced'
  BY Zenon DEF IInv, Typed, AllPlaced, Placed, ReadyInTurn, Drain, At, outcome, history
<1>4. ReadyInTurn'
  BY Zenon DEF IInv, ReadyInTurn, Drain, At, outcome, history
<1>5. AllCounted'
  BY Zenon DEF IInv, Typed, AllPlaced, Placed, AllCounted, Counted, Drain, At, outcome, history
<1>6. Stopping'
  BY Zenon DEF IInv, Typed, Stopping, Drain, At, outcome, history
<1> QED BY <1>1, <1>2, <1>3, <1>4, <1>5, <1>6, Zenon DEF IInv

(* An entry of the retry queue is reported by itself.                      *)
LEMMA RetryInv ==
    ASSUME IInv, NEW i \in Item, Retry(i)
    PROVE  IInv'
<1>1. Typed'
  BY Zenon DEF IInv, Typed, PC, Retry, At, outcome, history
<1>2. Bounded'
  BY Zenon DEF IInv, Typed, Bounded, Retry, At, outcome, history
<1>3. AllPlaced'
  BY Zenon DEF IInv, Typed, AllPlaced, Placed, ReadyInTurn, Retry, At, outcome, history
<1>4. ReadyInTurn'
  BY Zenon DEF IInv, ReadyInTurn, Retry, At, outcome, history
<1>5. AllCounted'
  BY Zenon DEF IInv, Typed, AllPlaced, Placed, AllCounted, Counted, Retry, At, outcome, history
<1>6. Stopping'
  BY Zenon DEF IInv, Typed, Stopping, Retry, At, outcome, history
<1> QED BY <1>1, <1>2, <1>3, <1>4, <1>5, <1>6, Zenon DEF IInv

(* The ticker flushes the batch.                                           *)
LEMMA TickInv ==
    ASSUME IInv, Tick
    PROVE  IInv'
<1>1. Typed'
  BY Zenon DEF IInv, Typed, PC, Tick, At, FlushBatch, outcome, history
<1>2. Bounded'
  BY Zenon DEF IInv, Typed, Bounded, Tick, At, FlushBatch, outcome, history
<1>3. AllPlaced'
  BY Zenon DEF IInv, Typed, AllPlaced, Placed, ReadyInTurn, Tick, At, FlushBatch, outcome, history
<1>4. ReadyInTurn'
  BY Zenon DEF IInv, ReadyInTurn, Tick, At, FlushBatch, outcome, history
<1>5. AllCounted'
  BY Zenon DEF IInv, Typed, AllPlaced, Placed, AllCounted, Counted, Tick, At, FlushBatch, outcome, history
<1>6. Stopping'
  BY Zenon DEF IInv, Typed, Stopping, Tick, At, FlushBatch, outcome, history
<1> QED BY <1>1, <1>2, <1>3, <1>4, <1>5, <1>6, Zenon DEF IInv

(* The end of the drain flushes the batch.                                 *)
LEMMA DrainedInv ==
    ASSUME IInv, Drained
    PROVE  IInv'
<1>1. Typed'
  BY Zenon DEF IInv, Typed, PC, Drained, At, FlushBatch, outcome, history
<1>2. Bounded'
  BY Zenon DEF IInv, Typed, Bounded, Drained, At, FlushBatch, outcome, history
<1>3. AllPlaced'
  BY Zenon DEF IInv, Typed, AllPlaced, Placed, ReadyInTurn, Drained, At, FlushBatch, outcome, history
<1>4. ReadyInTurn'
  BY Zenon DEF IInv, ReadyInTurn, Drained, At, FlushBatch, outcome, history
<1>5. AllCounted'
  BY Zenon DEF IInv, Typed, AllPlaced, Placed, AllCounted, Counted, Drained, At, FlushBatch, outcome, history
<1>6. Stopping'
  BY Zenon DEF IInv, Typed, Stopping, Drained, At, FlushBatch, outcome, history
<1> QED BY <1>1, <1>2, <1>3, <1>4, <1>5, <1>6, Zenon DEF IInv

(* The entries that are due, or all in the end, leave the queue.           *)
LEMMA FlushRetriesInv ==
    ASSUME IInv, FlushRetries
    PROVE  IInv'
<1>1. Typed'
  BY Zenon DEF IInv, Typed, PC, FlushRetries, At, outcome, history
<1>2. Bounded'
  <2>1. retry' \subseteq retry /\ ch' = ch
    BY Zenon DEF FlushRetries, At, outcome, history
  <2>2. Cardinality(ch') <= Cardinality(ch) /\ Cardinality(retry') <= Cardinality(retry)
        /\ Cardinality(ch') \in Nat /\ Cardinality(retry') \in Nat
        /\ Cardinality(ch) \in Nat /\ Cardinality(retry) \in Nat
    BY <2>1, Fewer, Zenon DEF IInv, Typed
  <2> QED BY <2>2, CapacityAssumption DEF IInv, Bounded
<1>3. AllPlaced'
  BY Zenon DEF IInv, Typed, AllPlaced, Placed, ReadyInTurn, FlushRetries, At, outcome, history
<1>4. ReadyInTurn'
  BY Zenon DEF IInv, ReadyInTurn, FlushRetries, At, outcome, history
<1>5. AllCounted'
  BY Zenon DEF IInv, Typed, AllPlaced, Placed, AllCounted, Counted, FlushRetries, At, outcome, history
<1>6. Stopping'
  BY Zenon DEF IInv, Typed, Stopping, FlushRetries, At, outcome, history
<1> QED BY <1>1, <1>2, <1>3, <1>4, <1>5, <1>6, Zenon DEF IInv

(* The loop goes on, or ends.                                              *)
LEMMA RetriesDoneInv ==
    ASSUME IInv, RetriesDone
    PROVE  IInv'
<1>1. Typed'
  BY Zenon DEF IInv, Typed, PC, RetriesDone, At, queues, outcome, history
<1>2. Bounded'
  BY Zenon DEF IInv, Typed, Bounded, RetriesDone, At, queues, outcome, history
<1>3. AllPlaced'
  BY Zenon DEF IInv, Typed, AllPlaced, Placed, ReadyInTurn, RetriesDone, At, queues, outcome, history
<1>4. ReadyInTurn'
  BY Zenon DEF IInv, ReadyInTurn, RetriesDone, At, queues, outcome, history
<1>5. AllCounted'
  BY Zenon DEF IInv, Typed, AllPlaced, Placed, AllCounted, Counted, RetriesDone, At, queues, outcome, history
<1>6. Stopping'
  BY Zenon DEF IInv, Typed, Stopping, RetriesDone, At, queues, outcome, history
<1> QED BY <1>1, <1>2, <1>3, <1>4, <1>5, <1>6, Zenon DEF IInv

(* The loop sees that done is closed.                                      *)
LEMMA DoneClosedInv ==
    ASSUME IInv, DoneClosed
    PROVE  IInv'
<1>1. Typed'
  BY Zenon DEF IInv, Typed, PC, DoneClosed, At, queues, outcome, history
<1>2. Bounded'
  BY Zenon DEF IInv, Typed, Bounded, DoneClosed, At, queues, outcome, history
<1>3. AllPlaced'
  BY Zenon DEF IInv, Typed, AllPlaced, Placed, ReadyInTurn, DoneClosed, At, queues, outcome, history
<1>4. ReadyInTurn'
  BY Zenon DEF IInv, ReadyInTurn, DoneClosed, At, queues, outcome, history
<1>5. AllCounted'
  BY Zenon DEF IInv, Typed, AllPlaced, Placed, AllCounted, Counted, DoneClosed, At, queues, outcome, history
<1>6. Stopping'
  BY Zenon DEF IInv, Typed, Stopping, DoneClosed, At, queues, outcome, history
<1> QED BY <1>1, <1>2, <1>3, <1>4, <1>5, <1>6, Zenon DEF IInv

(* The tracker has the hashes of the call.                                 *)
LEMMA AcknowledgedInv ==
    ASSUME IInv, Acknowledged
    PROVE  IInv'
<1>1. Typed'
  BY Zenon DEF IInv, Typed, PC, Acknowledged, history
<1>2. Bounded'
  BY Zenon DEF IInv, Typed, Bounded, Acknowledged, history
<1>3. AllPlaced'
  BY Zenon DEF IInv, Typed, AllPlaced, Placed, ReadyInTurn, Acknowledged, history
<1>4. ReadyInTurn'
  BY Zenon DEF IInv, ReadyInTurn, Acknowledged, history
<1>5. AllCounted'
  BY Zenon DEF IInv, Typed, AllPlaced, Placed, AllCounted, Counted, Acknowledged, history
<1>6. Stopping'
  BY Zenon DEF IInv, Typed, Stopping, Acknowledged, history
<1> QED BY <1>1, <1>2, <1>3, <1>4, <1>5, <1>6, Zenon DEF IInv

(* A failed call: its hashes are given up together, or scheduled again.    *)
LEMMA ReportFailsInv ==
    ASSUME IInv, ReportFails
    PROVE  IInv'
<1>1. /\ report # {} /\ report' = {}
      /\ tries' = [i \in Item |-> IF i \in report THEN tries[i] + 1 ELSE tries[i]]
      /\ tried' = (IF stopped THEN tried \cup report ELSE tried)
      /\ UNCHANGED <<ch, buf, due, ready, pc, stopped, fresh, reported, before>>
  BY Zenon DEF ReportFails
<1>2. PICK k \in report :
          IF LastAttempt(attempt[k])
          THEN failed' = failed \cup report /\ UNCHANGED <<retry, attempt, dropped>>
          ELSE ScheduleRetry(report, attempt[k] + 1) /\ UNCHANGED failed
  BY Zenon DEF ReportFails
<1>3. k \in Item /\ attempt[k] \in Nat /\ \A i \in report : attempt[i] = attempt[k]
  BY Zenon DEF IInv, Typed, AllCounted
<1>4. \A i \in report : /\ i \in Item /\ tries[i] = attempt[k] /\ tries[i] < MaxRetries
                       /\ tries'[i] = attempt[k] + 1
                       /\ i \notin fresh \cup ch \cup buf \cup failed \cup dropped
  <2> SUFFICES ASSUME NEW i \in report
               PROVE  /\ i \in Item /\ tries[i] = attempt[k] /\ tries[i] < MaxRetries
                      /\ tries'[i] = attempt[k] + 1
                      /\ i \notin fresh \cup ch \cup buf \cup failed \cup dropped
    BY Zenon
  <2>1. i \in Item
    BY Zenon DEF IInv, Typed
  <2>2. i \notin fresh \cup ch \cup buf \cup failed \cup dropped
    BY <2>1, Zenon DEF IInv, AllPlaced, Placed
  <2>3. tries[i] = attempt[i] /\ tries[i] < MaxRetries
    BY <2>1, <2>2, Zenon DEF IInv, AllCounted, Counted
  <2> QED BY <1>1, <1>3, <2>1, <2>2, <2>3, Zenon
<1>5. \A i \in Item \ report : tries'[i] = tries[i]
  BY <1>1, Zenon
<1>6. tries' \in [Item -> Nat]
  BY <1>1 DEF IInv, Typed
<1>7. ReadyInTurn'
  BY <1>1, Zenon DEF IInv, ReadyInTurn
<1>8. CASE LastAttempt(attempt[k])
  <2>1. failed' = failed \cup report /\ UNCHANGED <<retry, attempt, dropped>>
    BY <1>2, <1>8, Zenon
  <2>2. Typed'
    BY <1>1, <1>6, <2>1, Zenon DEF IInv, Typed
  <2>3. Bounded'
    BY <1>1, <2>1, Zenon DEF IInv, Bounded
  <2>4. AllPlaced'
    BY <1>1, <2>1, Zenon DEF IInv, Typed, AllPlaced, Placed
  <2>5. \A i \in report : tries'[i] = MaxRetries
    BY <1>3, <1>4, <1>8, CapacityAssumption DEF LastAttempt
  <2>6. AllCounted'
    BY <1>1, <1>4, <1>5, <2>1, <2>5, Zenon DEF IInv, AllCounted, Counted
  <2>7. Stopping'
    BY <1>1, <2>1, Zenon DEF IInv, Typed, Stopping
  <2> QED BY <1>7, <2>2, <2>3, <2>4, <2>6, <2>7, Zenon DEF IInv
<1>9. CASE ~LastAttempt(attempt[k])
  <2>1. ScheduleRetry(report, attempt[k] + 1) /\ failed' = failed
    BY <1>2, <1>9, Zenon
  <2>2. PICK n : n = attempt[k] + 1
    BY Zenon
  <2>3. PICK kept \in SUBSET report :
            /\ Cardinality(retry') <= RetryCap
            /\ retry' = retry \cup kept
            /\ attempt' = [i \in Item |-> IF i \in kept THEN n ELSE attempt[i]]
            /\ dropped' = dropped \cup (report \ kept)
    BY <2>1, <2>2, Zenon DEF ScheduleRetry
  <2>4. n \in Nat /\ n < MaxRetries
    BY <1>3, <1>9, <2>2, CapacityAssumption DEF LastAttempt
  <2>5. Typed'
    BY <1>1, <1>6, <2>1, <2>3, <2>4, Zenon DEF IInv, Typed
  <2>6. Bounded'
    BY <1>1, <2>3, ZenonT(30) DEF IInv, Bounded
  <2>7. AllPlaced'
    BY <1>1, <2>1, <2>3, Zenon DEF IInv, Typed, AllPlaced, Placed
  <2>8. \A i \in Item : attempt'[i] = IF i \in kept THEN n ELSE attempt[i]
    BY <2>3, Zenon
  <2>9. AllCounted'
    <3> SUFFICES ASSUME NEW i \in Item PROVE Counted(i)'
      BY <1>1, Zenon DEF AllCounted
    <3>1. CASE i \in report
      BY <3>1, <1>1, <1>4, <2>1, <2>2, <2>3, <2>4, <2>8, Zenon DEF Counted
    <3>2. CASE i \notin report
      BY <3>2, <1>1, <1>5, <2>1, <2>3, <2>8, Zenon DEF IInv, AllCounted, Counted
    <3> QED BY <3>1, <3>2, Zenon
  <2>10. Stopping'
    BY <1>1, <2>1, <2>3, Zenon DEF IInv, Typed, Stopping
  <2> QED BY <1>7, <2>5, <2>6, <2>7, <2>9, <2>10, Zenon DEF IInv
<1> QED BY <1>8, <1>9, Zenon

(* Nothing happens.                                                        *)
LEMMA IdleInv ==
    ASSUME IInv, UNCHANGED advVars
    PROVE  IInv'
<1>1. Typed'
  BY Zenon DEF IInv, Typed, PC, advVars, queues, outcome, history
<1>2. Bounded'
  BY Zenon DEF IInv, Typed, Bounded, advVars, queues, outcome, history
<1>3. AllPlaced'
  BY Zenon DEF IInv, Typed, AllPlaced, Placed, ReadyInTurn, advVars, queues, outcome, history
<1>4. ReadyInTurn'
  BY Zenon DEF IInv, ReadyInTurn, advVars, queues, outcome, history
<1>5. AllCounted'
  BY Zenon DEF IInv, Typed, AllPlaced, Placed, AllCounted, Counted, advVars, queues, outcome, history
<1>6. Stopping'
  BY Zenon DEF IInv, Typed, Stopping, advVars, queues, outcome, history
<1> QED BY <1>1, <1>2, <1>3, <1>4, <1>5, <1>6, Zenon DEF IInv

-----------------------------------------------------------------------------
(* The invariant holds at the start.                                       *)
LEMMA InitInv == AdvInit => IInv
<1> SUFFICES ASSUME AdvInit PROVE IInv
  BY Zenon
<1>1. Typed /\ ReadyInTurn /\ Stopping
  BY Zenon DEF AdvInit, Typed, PC, ReadyInTurn, Stopping
<1>2. Bounded
  BY FS_EmptySet, CapacityAssumption DEF AdvInit, Bounded
<1>3. AllPlaced
  BY Zenon DEF AdvInit, AllPlaced, Placed
<1>4. AllCounted
  BY CapacityAssumption DEF AdvInit, AllCounted, Counted
<1> QED BY <1>1, <1>2, <1>3, <1>4, Zenon DEF IInv

(* Every step keeps the invariant.                                         *)
LEMMA NextInv == IInv /\ [AdvNext]_advVars => IInv'
<1> SUFFICES ASSUME IInv, [AdvNext]_advVars PROVE IInv'
  BY Zenon
<1>1. CASE UNCHANGED advVars
  BY <1>1, IdleInv, Zenon
<1>2. ASSUME NEW i \in Item, Enqueue(i) \/ Due(i) \/ Take(i) \/ Drain(i) \/ Retry(i) PROVE IInv'
  BY <1>2, EnqueueInv, DueInv, TakeInv, DrainInv, RetryInv, Zenon
<1>3. CASE Stop \/ Tick \/ Drained \/ FlushRetries \/ RetriesDone
  BY <1>3, StopInv, TickInv, DrainedInv, FlushRetriesInv, RetriesDoneInv, Zenon
<1>4. CASE DoneClosed \/ Acknowledged \/ ReportFails
  BY <1>4, DoneClosedInv, AcknowledgedInv, ReportFailsInv, Zenon
<1> QED BY <1>1, <1>2, <1>3, <1>4, Zenon DEF AdvNext, Loop, Finished

(* The inductive invariant holds throughout.                               *)
LEMMA Invariance == AdvSpec => []IInv
BY InitInv, NextInv, PTL DEF AdvSpec

-----------------------------------------------------------------------------
(* The queues hold items within their capacities: a full channel or retry  *)
(* queue never grows further.                                              *)
THEOREM AdvTypeCorrect == AdvSpec => []AdvTypeOK
<1>1. IInv => AdvTypeOK
  BY Zenon DEF IInv, Typed, Bounded, AdvTypeOK
<1> QED BY <1>1, Invariance, PTL

(* An item in the p-th place alone has one place.                          *)
LEMMA OnePlace ==
    ASSUME NEW i \in Item, NEW p \in DOMAIN Places, i \in Places[p],
           \A q \in DOMAIN Places : i \in Places[q] => q = p
    PROVE  Cardinality({q \in DOMAIN Places : i \in Places[q]}) = 1
<1>1. {q \in DOMAIN Places : i \in Places[q]} = {p}
  BY Zenon
<1> QED BY <1>1, FS_Singleton, Zenon

(* No hash is lost or duplicated between channel, batch, call and retry    *)
(* queue.                                                                  *)
THEOREM Conservation == AdvSpec => []ItemConserved
<1>1. IInv => ItemConserved
  <2> SUFFICES ASSUME IInv, NEW i \in Item
               PROVE  Cardinality({p \in DOMAIN Places : i \in Places[p]}) = 1
    BY Zenon DEF ItemConserved
  <2>1. Placed(i)
    BY Zenon DEF IInv, AllPlaced
  <2>2. /\ DOMAIN Places = 1..9
        /\ Places[1] = fresh /\ Places[2] = ch /\ Places[3] = buf /\ Places[4] = report
        /\ Places[5] = ready /\ Places[6] = retry /\ Places[7] = reported
        /\ Places[8] = failed /\ Places[9] = dropped
    BY DEF Places
  <2>3. \A q \in 1..9 : q \in {1, 2, 3, 4, 5, 6, 7, 8, 9}
    OBVIOUS
  <2>4. \E p \in DOMAIN Places : i \in Places[p] /\ \A q \in DOMAIN Places : i \in Places[q] => q = p
    BY <2>1, <2>2, <2>3 DEF Placed
  <2> QED BY <2>4, OnePlace, Zenon
<1> QED BY <1>1, Invariance, PTL

(* Hashes are given up after the same number of failed calls, MaxRetries,  *)
(* whether they went through the channel or past it, in a batch or alone,  *)
(* and a hash that is not given up has been tried less often.              *)
THEOREM Persistence == AdvSpec => []GivenUpAlike
<1>1. IInv => GivenUpAlike
  <2> SUFFICES ASSUME IInv, NEW i \in failed
               PROVE  /\ tries[i] >= MaxRetries
                      /\ \A j \in Item : /\ tries[j] <= tries[i]
                                         /\ tries[j] = tries[i] => j \in failed
    BY Zenon DEF GivenUpAlike
  <2>1. \A j \in Item : tries[j] \in Nat /\ Counted(j)
    BY Zenon DEF IInv, Typed, AllCounted
  <2>2. i \in Item
    BY Zenon DEF IInv, Typed
  <2>3. tries[i] = MaxRetries
    BY <2>1, <2>2 DEF Counted
  <2>4. \A j \in Item : j \in failed \/ tries[j] < MaxRetries
    BY <2>1, Zenon DEF Counted
  <2>5. \A j \in failed : j \in Item => tries[j] = MaxRetries
    BY <2>1, Zenon DEF Counted
  <2> QED BY <2>1, <2>3, <2>4, <2>5, CapacityAssumption
<1> QED BY <1>1, Invariance, PTL

(* When the loop has finished, nothing that was enqueued before Stop is    *)
(* left untried.                                                           *)
THEOREM LastAttempts == AdvSpec => []StopTriesAll
<1>1. IInv => StopTriesAll
  BY Zenon DEF IInv, Typed, AllPlaced, Placed, ReadyInTurn, Stopping, StopTriesAll
<1> QED BY <1>1, Invariance, PTL

=============================================================================
