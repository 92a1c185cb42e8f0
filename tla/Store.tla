------------------------------- MODULE Store -------------------------------
(***************************************************************************)
(* What a driver of the tracker's store promises (the interface Store of   *)
(* pkg/store/store.go): every operation takes effect at one instant, on    *)
(* all its tables at once.  The memory driver (pkg/store/memory.go) keeps  *)
(* its mutex for the whole of an operation and is this specification with  *)
(* Slack = 0.  A driver that stamps rows with a time it read earlier, or   *)
(* in whole seconds, may be off by Slack.                                  *)
(***************************************************************************)
EXTENDS Integers, FiniteSets

CONSTANTS
    Node, Chunk, Artifact,
    Expiry,    \* peerExpiry, in units of the clock
    Slack,     \* how far a stamp may lie behind the clock
    MaxNow     \* bound on the clock

ASSUME StoreAssumption == Expiry \in Nat /\ Slack \in Nat /\ MaxNow \in Nat

VARIABLES
    now,       \* the clock
    hb,        \* hb[n]: LastHeartbeat of n, Absent if n has no row in peers
    seeds,     \* rows <<artifact, node>>
    chunks,    \* rows <<hash, node>>
    arts       \* the artifacts that have a record

storeVars == <<now, hb, seeds, chunks, arts>>

Absent == -1

StoreInit ==
    /\ now = 0
    /\ hb = [n \in Node |-> Absent]
    /\ seeds = {} /\ chunks = {} /\ arts = {}

Registered == {n \in Node : hb[n] # Absent}

(* The stamps an operation that takes effect now may write.                *)
Recent == {t \in 0..now : now - t <= Slack}

OfOthers(rows, S) == {r \in rows : r[2] \notin S}

Forget(S) ==
    /\ hb' = [n \in Node |-> IF n \in S THEN Absent ELSE hb[n]]
    /\ seeds' = OfOthers(seeds, S) /\ chunks' = OfOthers(chunks, S)

UpsertPeer(n) ==
    /\ \E t \in Recent : hb' = [hb EXCEPT ![n] = t]
    /\ UNCHANGED <<now, seeds, chunks, arts>>

Heartbeat(n) ==
    /\ n \in Registered
    /\ \E t \in Recent : hb' = [hb EXCEPT ![n] = t]
    /\ UNCHANGED <<now, seeds, chunks, arts>>

DeregisterPeer(n) ==
    /\ Forget({n})
    /\ UNCHANGED <<now, arts>>

(* Nobody is pruned before Expiry has passed since the stamp, and who has  *)
(* been silent for longer than Slack beyond that is.                       *)
Expired == {n \in Registered : now - hb[n] > Expiry}
Overdue == {n \in Registered : now - hb[n] > Expiry + Slack}

PruneExpiredPeers ==
    /\ \E S \in SUBSET Expired : Overdue \subseteq S /\ Forget(S)
    /\ UNCHANGED <<now, arts>>

(* A report touches the peer if it is registered, and is recorded in any   *)
(* case.                                                                   *)
ReportChunks(n, H) ==
    /\ chunks' = chunks \cup (H \X {n})
    /\ IF n \in Registered THEN \E t \in Recent : hb' = [hb EXCEPT ![n] = t] ELSE UNCHANGED hb
    /\ UNCHANGED <<now, seeds, arts>>

ReportSeed(a, n) ==
    /\ seeds' = seeds \cup {<<a, n>>}
    /\ UNCHANGED <<now, hb, chunks, arts>>

PutArtifact(a) ==
    /\ arts' = arts \cup {a}
    /\ UNCHANGED <<now, hb, seeds, chunks>>

Passes ==
    /\ now < MaxNow
    /\ now' = now + 1
    /\ UNCHANGED <<hb, seeds, chunks, arts>>

StoreNext ==
    \/ \E n \in Node : UpsertPeer(n) \/ Heartbeat(n) \/ DeregisterPeer(n)
    \/ PruneExpiredPeers
    \/ \E n \in Node, H \in SUBSET Chunk : ReportChunks(n, H)
    \/ \E a \in Artifact, n \in Node : ReportSeed(a, n)
    \/ \E a \in Artifact : PutArtifact(a)
    \/ Passes

StoreSpec == StoreInit /\ [][StoreNext]_storeVars

=============================================================================
