----------------------------- MODULE SyncEngine -----------------------------
(***************************************************************************)
(* One call of Engine.Sync (pkg/engine/engine.go) with the scheduler of    *)
(* pkg/scheduler: workers take the missing chunks from a shared queue, try *)
(* peers round by round with a cap on transfers per peer and a circuit     *)
(* breaker, and fall back to the origin; the sync then materializes.       *)
(*                                                                         *)
(* A transfer is one step that ends in one of the ways ChunkStore lets it  *)
(* end.  Of the partial file only one bit matters here: whether it holds   *)
(* bytes that are not those of the chunk (poisoned).  The order in which   *)
(* RankPeers and sortByAssigned put the candidates is left open.           *)
(***************************************************************************)
EXTENDS Integers, FiniteSets

CONSTANTS
    Chunk,           \* the chunks of the manifest
    Worker,          \* download.maxConcurrency goroutines
    Peer,            \* addresses
    BadPeers,        \* peers whose copies are corrupt
    MaxInflight,     \* download.maxConcurrencyPerPeer
    RetryAttempts,   \* retry.maxAttempts
    UntrustedAfter,  \* failures that open the circuit breaker
    Origins,         \* whether an origin is configured: a subset of BOOLEAN
    Faults,          \* subset of {"refuse", "cut", "origin", "cancel", "evict"}
    None

ASSUME EngineAssumption ==
    /\ IsFiniteSet(Worker) /\ Worker # {} /\ IsFiniteSet(Chunk)
    /\ BadPeers \subseteq Peer
    /\ MaxInflight \in Nat \ {0}
    /\ RetryAttempts \in Nat \ {0}
    /\ UntrustedAfter \in Nat \ {0}
    /\ Origins \subseteq BOOLEAN
    /\ None \notin Chunk \cup Peer \cup {"plain", "wrap"}

VARIABLES
    disk,         \* the committed chunks
    poisoned,     \* the chunks whose partial holds wrong bytes
    locs,         \* locs[h]: the peers the tracker named for h
    pending,      \* the queue of missing chunks
    got,          \* the chunks the workers have fetched
    skipped,      \* the chunks the inventory found committed
    pc, item, attempt, candidates, source,  \* the workers' locals
    inflight,     \* inflight[p]: Stats.Inflight
    failures,     \* failures[p]: Stats.Failures, up to UntrustedAfter
    trust,        \* trust[p]: UntrustedAt is zero, recent or 15 min old
    downloadErr,  \* the type of the error in the atomic.Value
    cancelled,    \* the context of the sync is done
    written,      \* the chunks Materialize has written
    status,       \* SyncJob.Status, or "PANIC"
    hasOrigin     \* the sync has an origin to fall back to

work  == <<pending, got, skipped>>
local == <<pc, item, attempt, candidates, source>>
stats == <<inflight, failures, trust>>
job   == <<cancelled, written, status, hasOrigin>>
vars  == <<disk, poisoned, locs, work, local, stats, downloadErr, job>>

PC == {"loop", "rank", "try", "peer", "backoff", "origin", "done"}

(* The inventory: what is committed already is skipped.                    *)
Init ==
    /\ disk \in SUBSET Chunk
    /\ poisoned = {}
    /\ locs \in [Chunk -> SUBSET Peer]
    /\ \A h \in disk : locs[h] = {}
    /\ pending = Chunk \ disk
    /\ got = {} /\ skipped = disk
    /\ pc = [w \in Worker |-> IF disk = Chunk THEN "done" ELSE "loop"]
    /\ item = [w \in Worker |-> None]
    /\ attempt = [w \in Worker |-> 0]
    /\ candidates = [w \in Worker |-> {}]
    /\ source = [w \in Worker |-> None]
    /\ inflight = [p \in Peer |-> 0]
    /\ failures = [p \in Peer |-> 0]
    /\ trust = [p \in Peer |-> "trusted"]
    /\ downloadErr = None
    /\ cancelled = FALSE
    /\ written = {}
    /\ status = "RUNNING"
    /\ hasOrigin \in Origins

Goto(w, l) == pc' = [pc EXCEPT ![w] = l]
Running == status = "RUNNING"

-----------------------------------------------------------------------------
(* The worker loop.                                                        *)

(* downloadErr.Store: an atomic.Value panics if it is given a value of     *)
(* another concrete type than the first.  ctx.Err() and the error for a    *)
(* missing origin are plain errors; those of the origin wrap another one.  *)
StoreError(w, type) ==
    /\ IF downloadErr \in {None, type}
       THEN downloadErr' = type /\ UNCHANGED status
       ELSE status' = "PANIC" /\ UNCHANGED downloadErr
    /\ Goto(w, "done")
    /\ item' = [item EXCEPT ![w] = None]
    /\ attempt' = [attempt EXCEPT ![w] = 0]
    /\ UNCHANGED <<candidates, source, cancelled, written, hasOrigin>>

LoopCancelled(w) ==
    /\ Running /\ pc[w] = "loop"
    /\ cancelled
    /\ StoreError(w, "plain")
    /\ UNCHANGED <<disk, poisoned, locs, work, stats>>

LoopEnds(w) ==
    /\ Running /\ pc[w] = "loop"
    /\ ~cancelled
    /\ downloadErr # None \/ pending = {}
    /\ Goto(w, "done")
    /\ UNCHANGED <<disk, poisoned, locs, work, item, attempt, candidates, source,
                   stats, downloadErr, job>>

(* RarestFirst: the fewest known peers first, none at all last.            *)
Rarest(h) ==
    \A g \in pending : /\ locs[h] = {} => locs[g] = {}
                       /\ locs[g] # {} => Cardinality(locs[h]) <= Cardinality(locs[g])

(* Variant: the chunk stays in the queue until it is fetched.              *)
TakeLater(w) ==
    /\ Running /\ pc[w] = "loop"
    /\ ~cancelled /\ downloadErr = None
    /\ \E h \in pending : Rarest(h) /\ item' = [item EXCEPT ![w] = h]
    /\ pending' = IF Cardinality(pending) > 1 THEN pending ELSE {}
    /\ Goto(w, "rank")
    /\ UNCHANGED <<disk, poisoned, locs, got, skipped, attempt, candidates, source, stats,
                   downloadErr, job>>

(* pendingQueue.next.                                                      *)
Take(w) ==
    /\ Running /\ pc[w] = "loop"
    /\ ~cancelled /\ downloadErr = None
    /\ \E h \in pending : /\ Rarest(h)
                          /\ item' = [item EXCEPT ![w] = h]
                          /\ pending' = pending \ {h}
    /\ Goto(w, "rank")
    /\ UNCHANGED <<disk, poisoned, locs, got, skipped, attempt, candidates, source, stats,
                   downloadErr, job>>

-----------------------------------------------------------------------------
(* fetchChunk: the rounds of peers.                                        *)

(* RankPeers closes the breakers whose 15 minutes are over, and leaves out *)
(* the untrusted peers unless there are no others.                         *)
RankPeers(w) ==
    LET known     == locs[item[w]]
        expired   == {p \in known : trust[p] = "expired"}
        untrusted == {p \in known : trust[p] = "untrusted"}
    IN
    /\ Running /\ pc[w] = "rank"
    /\ candidates' = [candidates EXCEPT ![w] =
                         IF known \subseteq untrusted THEN untrusted ELSE known \ untrusted]
    /\ trust' = [p \in Peer |-> IF p \in expired THEN "trusted" ELSE trust[p]]
    /\ failures' = [p \in Peer |-> IF p \in expired THEN 0 ELSE failures[p]]
    /\ Goto(w, "try")
    /\ UNCHANGED <<disk, poisoned, locs, work, item, attempt, source, inflight,
                   downloadErr, job>>

(* An untrusted or saturated peer is passed over.                          *)
Skip(w) ==
    /\ Running /\ pc[w] = "try"
    /\ \E p \in candidates[w] :
          /\ trust[p] = "untrusted" \/ inflight[p] >= MaxInflight
          /\ candidates' = [candidates EXCEPT ![w] = @ \ {p}]
    /\ UNCHANGED <<disk, poisoned, locs, work, pc, item, attempt, source, stats,
                   downloadErr, job>>

(* Variant: the cap is checked before the trust, and not again.            *)
BeginUnchecked(w) ==
    /\ Running /\ pc[w] = "try"
    /\ \E p \in candidates[w] :
          /\ trust[p] # "untrusted"
          /\ candidates' = [candidates EXCEPT ![w] = @ \ {p}]
          /\ source' = [source EXCEPT ![w] = p]
          /\ inflight' = [inflight EXCEPT ![p] = @ + 1]
    /\ Goto(w, "peer")
    /\ UNCHANGED <<disk, poisoned, locs, work, item, attempt, failures, trust,
                   downloadErr, job>>

(* IsUntrusted and Begin lock the scheduler one after the other; a breaker *)
(* that opens in between lets one more transfer start, as if before it.    *)
Begin(w) ==
    /\ Running /\ pc[w] = "try"
    /\ \E p \in candidates[w] :
          /\ trust[p] # "untrusted" /\ inflight[p] < MaxInflight
          /\ candidates' = [candidates EXCEPT ![w] = @ \ {p}]
          /\ source' = [source EXCEPT ![w] = p]
          /\ inflight' = [inflight EXCEPT ![p] = @ + 1]
    /\ Goto(w, "peer")
    /\ UNCHANGED <<disk, poisoned, locs, work, item, attempt, failures, trust,
                   downloadErr, job>>

(* End(ok = false): any failure counts, and opens the breaker in the end.  *)
EndFailed(w) ==
    LET p == source[w]
        n == IF failures[p] < UntrustedAfter THEN failures[p] + 1 ELSE failures[p]
    IN
    /\ inflight' = [inflight EXCEPT ![p] = IF @ > 0 THEN @ - 1 ELSE @]
    /\ failures' = [failures EXCEPT ![p] = n]
    /\ trust' = [trust EXCEPT ![p] = IF n >= UntrustedAfter THEN "untrusted" ELSE @]
    /\ source' = [source EXCEPT ![w] = None]
    /\ Goto(w, "try")
    /\ UNCHANGED <<locs, work, item, attempt, candidates, downloadErr, job>>

(* fetchChunk returns nil: the counters of the job, then the next chunk.   *)
Fetched(w) ==
    /\ disk' = disk \cup {item[w]}
    /\ got' = got \cup {item[w]}
    /\ item' = [item EXCEPT ![w] = None]
    /\ attempt' = [attempt EXCEPT ![w] = 0]
    /\ candidates' = [candidates EXCEPT ![w] = {}]
    /\ source' = [source EXCEPT ![w] = None]
    /\ Goto(w, "loop")
    /\ UNCHANGED <<poisoned, locs, pending, skipped, downloadErr, job>>

(* downloadFromPeer commits; End(ok = true) forgets the failures.          *)
PeerServes(w) ==
    LET p == source[w] IN
    /\ Running /\ pc[w] = "peer"
    /\ p \notin BadPeers /\ item[w] \notin poisoned
    /\ inflight' = [inflight EXCEPT ![p] = IF @ > 0 THEN @ - 1 ELSE @]
    /\ failures' = [failures EXCEPT ![p] = 0]
    /\ Fetched(w)
    /\ UNCHANGED trust

(* The peer does not have the chunk any more, is saturated or unreachable. *)
PeerRefuses(w) ==
    /\ "refuse" \in Faults
    /\ Running /\ pc[w] = "peer"
    /\ EndFailed(w)
    /\ UNCHANGED <<disk, poisoned>>

(* The 30 s deadline or the cancellation cuts the transfer: the bytes that *)
(* have arrived stay in the partial.                                       *)
PeerCut(w) ==
    /\ "cut" \in Faults \/ cancelled
    /\ Running /\ pc[w] = "peer"
    /\ poisoned' = IF source[w] \in BadPeers THEN poisoned \cup {item[w]} ELSE poisoned
    /\ EndFailed(w)
    /\ UNCHANGED disk

(* Variant: a rejected partial is kept.                                    *)
PeerMismatchKept(w) ==
    /\ Running /\ pc[w] = "peer"
    /\ source[w] \in BadPeers \/ item[w] \in poisoned
    /\ poisoned' = poisoned \cup {item[w]}
    /\ EndFailed(w)
    /\ UNCHANGED disk

(* CommitPartial finds another digest and discards the partial.            *)
PeerMismatch(w) ==
    /\ Running /\ pc[w] = "peer"
    /\ source[w] \in BadPeers \/ item[w] \in poisoned
    /\ poisoned' = poisoned \ {item[w]}
    /\ EndFailed(w)
    /\ UNCHANGED disk

(* The candidates of a round are used up.                                  *)
RoundEnds(w) ==
    /\ Running /\ pc[w] = "try"
    /\ candidates[w] = {}
    /\ Goto(w, IF attempt[w] + 1 < RetryAttempts THEN "backoff" ELSE "origin")
    /\ UNCHANGED <<disk, poisoned, locs, work, item, attempt, candidates, source,
                   stats, downloadErr, job>>

(* Variant: the rounds are not counted.                                    *)
BackoffForgets(w) ==
    /\ Running /\ pc[w] = "backoff"
    /\ Goto(w, "rank")
    /\ UNCHANGED <<disk, poisoned, locs, work, item, attempt, candidates, source,
                   stats, downloadErr, job>>

BackoffEnds(w) ==
    /\ Running /\ pc[w] = "backoff"
    /\ attempt' = [attempt EXCEPT ![w] = @ + 1]
    /\ Goto(w, "rank")
    /\ UNCHANGED <<disk, poisoned, locs, work, item, candidates, source, stats,
                   downloadErr, job>>

(* The context is done during the backoff or the wait for an origin slot.  *)
WaitCancelled(w) ==
    /\ Running
    /\ pc[w] = "backoff" \/ (pc[w] = "origin" /\ hasOrigin)
    /\ cancelled
    /\ StoreError(w, "plain")
    /\ UNCHANGED <<disk, poisoned, locs, work, stats>>

-----------------------------------------------------------------------------
(* The origin.                                                             *)

NoOrigin(w) ==
    /\ Running /\ pc[w] = "origin"
    /\ ~hasOrigin
    /\ StoreError(w, "plain")
    /\ UNCHANGED <<disk, poisoned, locs, work, stats>>

OriginServes(w) ==
    /\ Running /\ pc[w] = "origin" /\ hasOrigin
    /\ item[w] \notin poisoned
    /\ Fetched(w)
    /\ UNCHANGED stats

OriginFails(w) ==
    /\ "origin" \in Faults \/ cancelled
    /\ Running /\ pc[w] = "origin" /\ hasOrigin
    /\ StoreError(w, "wrap")
    /\ UNCHANGED <<disk, poisoned, locs, work, stats>>

(* The origin completed a partial that held wrong bytes.                   *)
OriginMismatch(w) ==
    /\ Running /\ pc[w] = "origin" /\ hasOrigin
    /\ item[w] \in poisoned
    /\ poisoned' = poisoned \ {item[w]}
    /\ StoreError(w, "wrap")
    /\ UNCHANGED <<disk, locs, work, stats>>

-----------------------------------------------------------------------------
(* The end of the sync.                                                    *)

AllDone == \A w \in Worker : pc[w] = "done"

DownloadFailed ==
    /\ Running /\ AllDone
    /\ downloadErr # None
    /\ status' = "FAILED"
    /\ UNCHANGED <<disk, poisoned, locs, work, local, stats, downloadErr, cancelled,
                   written, hasOrigin>>

(* Materialize reads and re-verifies one chunk after the other.            *)
MaterializeChunk ==
    /\ Running /\ AllDone /\ downloadErr = None
    /\ \E h \in disk \ written : written' = written \cup {h}
    /\ UNCHANGED <<disk, poisoned, locs, work, local, stats, downloadErr, cancelled,
                   status, hasOrigin>>

MaterializeFails ==
    /\ Running /\ AllDone /\ downloadErr = None
    /\ written # Chunk
    /\ cancelled \/ \E h \in Chunk \ written : h \notin disk
    /\ status' = "FAILED"
    /\ UNCHANGED <<disk, poisoned, locs, work, local, stats, downloadErr, cancelled,
                   written, hasOrigin>>

Complete ==
    /\ Running /\ AllDone /\ downloadErr = None
    /\ written = Chunk
    /\ status' = "COMPLETED"
    /\ UNCHANGED <<disk, poisoned, locs, work, local, stats, downloadErr, cancelled,
                   written, hasOrigin>>

-----------------------------------------------------------------------------
(* What happens around the sync.                                           *)

(* refreshLocations replaces what is known of a chunk that is missing.     *)
Refresh(h) ==
    /\ Running /\ ~AllDone
    /\ h \notin disk
    /\ \E P \in SUBSET Peer : locs' = [locs EXCEPT ![h] = P]
    /\ UNCHANGED <<disk, poisoned, work, local, stats, downloadErr, job>>

Expire(p) ==
    /\ Running
    /\ trust[p] = "untrusted"
    /\ trust' = [trust EXCEPT ![p] = "expired"]
    /\ UNCHANGED <<disk, poisoned, locs, work, local, inflight, failures,
                   downloadErr, job>>

Evict(h) ==
    /\ "evict" \in Faults
    /\ Running
    /\ h \in disk
    /\ disk' = disk \ {h}
    /\ UNCHANGED <<poisoned, locs, work, local, stats, downloadErr, job>>

Cancel ==
    /\ "cancel" \in Faults
    /\ Running /\ ~cancelled
    /\ cancelled' = TRUE
    /\ UNCHANGED <<disk, poisoned, locs, work, local, stats, downloadErr, written,
                   status, hasOrigin>>

Returned == ~Running /\ UNCHANGED vars

Step(w) ==
    \/ LoopCancelled(w) \/ LoopEnds(w) \/ Take(w)
    \/ RankPeers(w) \/ Skip(w) \/ Begin(w)
    \/ PeerServes(w) \/ PeerRefuses(w) \/ PeerCut(w) \/ PeerMismatch(w)
    \/ RoundEnds(w) \/ BackoffEnds(w) \/ WaitCancelled(w)
    \/ NoOrigin(w) \/ OriginServes(w) \/ OriginFails(w) \/ OriginMismatch(w)

Finish == DownloadFailed \/ MaterializeChunk \/ MaterializeFails \/ Complete

Next ==
    \/ \E w \in Worker : Step(w)
    \/ Finish
    \/ \E h \in Chunk : Refresh(h) \/ Evict(h)
    \/ \E p \in Peer : Expire(p)
    \/ Cancel \/ Returned

Spec == Init /\ [][Next]_vars

(* Goroutines are scheduled; a transfer ends by its deadline at the latest.*)
FairSpec == Spec /\ WF_vars(Finish) /\ \A w \in Worker : WF_vars(Step(w))

-----------------------------------------------------------------------------
TypeOK ==
    /\ disk \subseteq Chunk /\ poisoned \subseteq Chunk
    /\ locs \in [Chunk -> SUBSET Peer]
    /\ pending \subseteq Chunk /\ got \subseteq Chunk /\ skipped \subseteq Chunk
    /\ pc \in [Worker -> PC]
    /\ item \in [Worker -> Chunk \cup {None}]
    /\ attempt \in [Worker -> 0..(RetryAttempts - 1)]
    /\ candidates \in [Worker -> SUBSET Peer]
    /\ source \in [Worker -> Peer \cup {None}]
    /\ inflight \in [Peer -> Nat]
    /\ failures \in [Peer -> 0..UntrustedAfter]
    /\ trust \in [Peer -> {"trusted", "untrusted", "expired"}]
    /\ downloadErr \in {None, "plain", "wrap"}
    /\ cancelled \in BOOLEAN
    /\ written \subseteq Chunk
    /\ status \in {"RUNNING", "FAILED", "COMPLETED", "PANIC"}
    /\ hasOrigin \in BOOLEAN

(* Every Begin is matched by one End on every path out of a transfer: the  *)
(* count of a peer is the number of transfers from it, and stays within    *)
(* the cap.                                                                *)
InflightExact ==
    \A p \in Peer :
        /\ inflight[p] = Cardinality({w \in Worker : source[w] = p})
        /\ inflight[p] <= MaxInflight

(* Until the sync gives up, every chunk is in exactly one place: skipped,  *)
(* in the queue, with one worker, or fetched.  Chunks are not lost, and    *)
(* none is fetched twice.                                                  *)
Held == {item[w] : w \in Worker} \ {None}
WorkConserved ==
    /\ pending \cap got = {} /\ Held \cap (pending \cup got) = {}
    /\ skipped \cap (pending \cup got \cup Held) = {}
    /\ \A v, w \in Worker : v # w /\ item[v] # None => item[v] # item[w]
    /\ downloadErr = None => Chunk = skipped \cup pending \cup got \cup Held

(* Whatever peers do, a sync with an origin that serves the right bytes    *)
(* does not fail (fetchChunk falls back to downloadFromOrigin).            *)
FallbackSucceeds == hasOrigin => status # "FAILED"

(* The sync returns, however peers fail and the breakers open and close.   *)
SyncReturns == <>(status \in {"COMPLETED", "FAILED"})

=============================================================================
