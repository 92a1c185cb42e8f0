------------------------------ MODULE Registry ------------------------------
(***************************************************************************)
(* The tracker's handlers that take several steps on the store             *)
(* (pkg/tracker/registry.go), over the contract that every driver keeps    *)
(* (Store): publication of an artifact, which starts the fleet watch       *)
(* (pkg/tracker/fleet.go), reports of complete nodes, which it counts, and *)
(* the lookups by which the engine of one daemon, Self, refreshes its      *)
(* locations (pkg/engine/engine.go, refreshLocations).  Between the steps  *)
(* others register, beat, report, leave or expire, and the tracker may     *)
(* restart, which ends its fleet watch.                                    *)
(*                                                                         *)
(* Nodes are numbered in the order of their IDs.  requesterLoc is read     *)
(* together with the read of the store next to it.  Publications and       *)
(* lookups meet in the store only, and a behaviour has one or the other    *)
(* next to everything else.                                                *)
(***************************************************************************)
EXTENDS Store, Topology, Sequences, Functions

CONSTANTS
    Call,       \* publications and reports at work at the same time
    Seeder,     \* the nodes that complete artifacts
    Self,       \* the node whose engine looks up locations
    Wanted,     \* the artifact it syncs
    Loc         \* Loc[n]: the locality n registers with

ASSUME RegistryAssumption ==
    /\ Node \subseteq Nat /\ IsFiniteSet(Node)
    /\ Seeder \subseteq Node /\ Self \in Node /\ Wanted \in Artifact
    /\ Slack <= Expiry   \* a stamp is not expired when it is written

VARIABLES
    call,       \* the handlers
    fleet,      \* fleet[a]: the distribution under watch, or None
    part,       \* bound: whether there are publications or lookups
    look,       \* Self's refreshLocations
    locs        \* locs[h]: the peers its engine knows for h, in order

registryVars == <<call, fleet, look, locs>>
vars == <<storeVars, registryVars, part>>

None == [expected |-> 0]
Idle == [op |-> "idle"]

(* The labels "first", "50", "90", "99" and "100".                         *)
Thresholds == {0, 50, 90, 99, 100}

Init ==
    /\ StoreInit /\ part \in {"publications", "lookups"}
    /\ call = [c \in Call |-> Idle]
    /\ fleet = [a \in Artifact |-> None]
    /\ look = Idle
    /\ locs = [h \in Chunk |-> <<>>]

FreshAt(t) == {n \in Registered : t - hb[n] <= Expiry}
Fresh == FreshAt(now)

(* History: who has been registered and fresh since the refresh began.     *)
Watch == look' = IF look.op \in {"idle", "answered"} THEN look ELSE [look EXCEPT !.alive = @ \cup Fresh']

Elsewhere ==
    /\ \/ \E n \in Node : UpsertPeer(n) \/ Heartbeat(n) \/ DeregisterPeer(n)
       \/ PruneExpiredPeers \/ Passes
       \/ /\ part = "lookups"
          /\ \/ \E n \in Node, H \in (SUBSET Chunk) \ {{}} : ReportChunks(n, H)
             \/ \E n \in Seeder, a \in Artifact : ReportSeed(a, n)
    /\ Watch
    /\ UNCHANGED <<call, fleet, locs>>

-----------------------------------------------------------------------------
(* Publication: the record, then the number of active peers, then the      *)
(* watch.  An error of the second read counts as no peers.                 *)
Goto(c, next) == call' = [call EXCEPT ![c] = next]

Publish(c, a) ==
    /\ call[c] = Idle /\ part = "publications"
    /\ PutArtifact(a)
    /\ Goto(c, [op |-> "count", a |-> a])
    /\ UNCHANGED <<fleet, look, locs>>

CountActive(c) ==
    /\ call[c].op = "count"
    /\ \E m \in {Cardinality(Fresh), 0} :
          Goto(c, [op |-> "begin", a |-> call[c].a, expected |-> IF m <= 0 THEN 1 ELSE m])
    /\ UNCHANGED <<storeVars, fleet, look, locs>>

(* Variant: the milestones of the last distribution are kept.              *)
BeginDistributionAgain(c) ==
    LET a == call[c].a
    IN  /\ call[c].op = "begin"
        /\ fleet' = [fleet EXCEPT ![a] =
                        [expected |-> call[c].expected, ready |-> {},
                         recorded |-> IF @ = None THEN {} ELSE @.recorded,
                         before |-> {n \in Node : <<a, n>> \in seeds}]]
        /\ Goto(c, Idle)
        /\ UNCHANGED <<storeVars, look, locs>>

(* "before" is history: the nodes that had been recorded as seeds when the *)
(* watch began.                                                            *)
BeginDistribution(c) ==
    LET a == call[c].a
    IN  /\ call[c].op = "begin"
        /\ fleet' = [fleet EXCEPT ![a] =
                        [expected |-> call[c].expected, ready |-> {}, recorded |-> {},
                         before |-> {n \in Node : <<a, n>> \in seeds}]]
        /\ Goto(c, Idle)
        /\ UNCHANGED <<storeVars, look, locs>>

(* A complete node is recorded as a seed and then counted.  If the record  *)
(* fails the handler answers without either.                               *)
ReportArtifact(c, n, a) ==
    /\ call[c] = Idle /\ part = "publications"
    /\ ReportSeed(a, n)
    /\ Goto(c, [op |-> "ready", a |-> a, n |-> n])
    /\ UNCHANGED <<fleet, look, locs>>

(* Variant: once as many as expected are ready nobody is counted.          *)
NodeReadyCapped(c) ==
    LET f == fleet[call[c].a]  ready == f.ready \cup {call[c].n}
    IN  /\ call[c].op = "ready"
        /\ IF f = None \/ call[c].n \in f.ready \/ Cardinality(f.ready) >= f.expected
           THEN UNCHANGED fleet
           ELSE fleet' = [fleet EXCEPT ![call[c].a] =
                    [f EXCEPT !.ready = ready,
                              !.recorded = @ \cup {t \in Thresholds :
                                  Cardinality(ready) * 100 >= t * f.expected}]]
        /\ Goto(c, Idle)
        /\ UNCHANGED <<storeVars, look, locs>>

NodeReady(c) ==
    LET f == fleet[call[c].a]  ready == f.ready \cup {call[c].n}
    IN  /\ call[c].op = "ready"
        /\ IF f = None \/ call[c].n \in f.ready
           THEN UNCHANGED fleet
           ELSE fleet' = [fleet EXCEPT ![call[c].a] =
                    [f EXCEPT !.ready = ready,
                              !.recorded = @ \cup {t \in Thresholds :
                                  Cardinality(ready) * 100 >= t * f.expected}]]
        /\ Goto(c, Idle)
        /\ UNCHANGED <<storeVars, look, locs>>

-----------------------------------------------------------------------------
(* The refresh: LocateArtifact, whose peers replace the list of every hash *)
(* unless there are none, and LocateChunks, whose lists replace it always. *)
Sorted(self, S) ==
    CHOOSE s \in [1..Cardinality(S) -> S] :
        \A i, j \in 1..Cardinality(S) : i < j => Before(self, Loc, s[i], s[j])

Where == IF Self \in Registered THEN Loc[Self] ELSE Nowhere

(* The peers of an answer: registered, fresh at t, when the handler read   *)
(* the clock, and not the requester.                                       *)
PeersOf(ids, t) == {n \in ids \ {Self} : n \in FreshAt(t)}

Refresh ==
    /\ look.op \in {"idle", "answered"} /\ part = "lookups"
    /\ look' = [op |-> "seeds", alive |-> Fresh]
    /\ UNCHANGED <<storeVars, call, fleet, locs>>

ListSeeds ==
    /\ look.op = "seeds"
    /\ look' = [op |-> "seedpeers", alive |-> look.alive,
                ids |-> {n \in Node : <<Wanted, n>> \in seeds}]
    /\ UNCHANGED <<storeVars, call, fleet, locs>>

LocateArtifact ==
    LET peers == Sorted(Where, PeersOf(look.ids, now))
    IN  /\ look.op = "seedpeers"
        /\ locs' = IF peers = <<>> THEN locs ELSE [h \in Chunk |-> peers]
        /\ look' = [op |-> "rows", alive |-> look.alive]
        /\ UNCHANGED <<storeVars, call, fleet>>

(* Either read failed, or the call did: no seeds.                          *)
LocateArtifactFails ==
    /\ look.op \in {"seeds", "seedpeers"}
    /\ look' = [op |-> "rows", alive |-> look.alive]
    /\ UNCHANGED <<storeVars, call, fleet, locs>>

(* The clock is read before the rows, and used after the peers are read.   *)
LocateRows ==
    /\ look.op = "rows"
    /\ look' = [op |-> "rowpeers", alive |-> look.alive, self |-> Where, at |-> now, rows |-> chunks]
    /\ UNCHANGED <<storeVars, call, fleet, locs>>

(* Variant: an answer without peers leaves the list as it is.              *)
LocateChunksKeeping ==
    /\ look.op = "rowpeers"
    /\ locs' = [h \in Chunk |->
                    LET s == Sorted(look.self, PeersOf({n \in Node : <<h, n>> \in look.rows}, look.at))
                    IN  IF s = <<>> THEN locs[h] ELSE s]
    /\ look' = [op |-> "answered", alive |-> look.alive, self |-> look.self]
    /\ UNCHANGED <<storeVars, call, fleet>>

LocateChunks ==
    /\ look.op = "rowpeers"
    /\ locs' = [h \in Chunk |->
                    Sorted(look.self, PeersOf({n \in Node : <<h, n>> \in look.rows}, look.at))]
    /\ look' = [op |-> "answered", alive |-> look.alive, self |-> look.self]
    /\ UNCHANGED <<storeVars, call, fleet>>

(* An error of the store is answered with empty lists.                     *)
LocateChunksEmpty ==
    /\ look.op \in {"rows", "rowpeers"}
    /\ locs' = [h \in Chunk |-> <<>>]
    /\ look' = [op |-> "answered", alive |-> look.alive, self |-> Nowhere]
    /\ UNCHANGED <<storeVars, call, fleet>>

(* The call itself fails or its 5 s pass: the lists stay.                  *)
LocateChunksFails ==
    /\ look.op \in {"rows", "rowpeers"}
    /\ look' = Idle
    /\ UNCHANGED <<storeVars, call, fleet, locs>>

-----------------------------------------------------------------------------
(* The tracker starts afresh on the same database: handlers and fleet      *)
(* watch are gone, and a lookup under way fails.                           *)
Restart ==
    /\ call' = [c \in Call |-> Idle]
    /\ fleet' = [a \in Artifact |-> None]
    /\ look' = Idle
    /\ UNCHANGED <<storeVars, locs>>

Handle(c) ==
    \/ \E a \in Artifact : Publish(c, a)
    \/ CountActive(c) \/ BeginDistribution(c)
    \/ \E n \in Seeder, a \in Artifact : ReportArtifact(c, n, a)
    \/ NodeReady(c)

LookUp ==
    \/ Refresh \/ ListSeeds \/ LocateArtifact \/ LocateArtifactFails
    \/ LocateRows \/ LocateChunks \/ LocateChunksEmpty \/ LocateChunksFails

Next ==
    /\ Elsewhere \/ LookUp \/ Restart \/ \E c \in Call : Handle(c)
    /\ UNCHANGED part

Spec == Init /\ [][Next]_vars

-----------------------------------------------------------------------------
(* docs/configuration.md: time to readiness is recorded for "first", 50,   *)
(* 90, 99 and 100 per cent.  The milestones on record are those that the   *)
(* nodes ready since the last publication reach, however publications,     *)
(* reports and restarts interleave.                                        *)
MilestonesExact ==
    \A a \in Artifact : fleet[a] # None =>
        LET ready == Cardinality(fleet[a].ready)
        IN  fleet[a].recorded = {t \in Thresholds : ready > 0 /\ ready * 100 >= t * fleet[a].expected}

(* A node the store lists as a seed of an artifact under distribution is   *)
(* counted as ready, unless its report is still under way or was recorded  *)
(* before the watch began (the gap between PutArtifact's write and         *)
(* BeginDistribution).                                                     *)
SeededIsReady ==
    \A a \in Artifact, n \in Node :
        (/\ fleet[a] # None
         /\ <<a, n>> \in seeds /\ n \notin fleet[a].before) =>
            \/ n \in fleet[a].ready
            \/ \E c \in Call : call[c] = [op |-> "ready", a |-> a, n |-> n]

(* README.md: peers are "ranked by network distance (Host > Rack > Zone >  *)
(* Region > Remote)".  In every list of an answered refresh, no peer that  *)
(* shares one of the k nearest levels with the requester comes after one   *)
(* that shares none of them, and equals come in the order of their IDs; to *)
(* a requester that was not registered all are remote.                     *)
Levels == <<"host", "rack", "zone", "region">>

Within(n, k) == \E j \in 1..k : Shares(look.self, Loc[n], Levels[j])

NearestFirst ==
    look.op = "answered" =>
        \A h \in Chunk : \A i, j \in 1..Len(locs[h]) : i < j =>
            LET m == locs[h][i]  n == locs[h][j]
            IN  /\ \A k \in 1..4 : Within(n, k) => Within(m, k)
                /\ (\A k \in 1..4 : Within(m, k) => Within(n, k)) => m < n

(* docs/architecture.md: "periodic refresh replaces stale peer lists       *)
(* mid-sync".  A refresh whose LocateChunks was answered leaves only peers *)
(* that were registered and fresh while it ran, and not the daemon itself. *)
RefreshDropsStale ==
    look.op = "answered" => \A h \in Chunk : Range(locs[h]) \subseteq look.alive \ {Self}

=============================================================================
