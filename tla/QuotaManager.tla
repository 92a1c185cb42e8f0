---------------------------- MODULE QuotaManager ----------------------------
(***************************************************************************)
(* The quota manager of a node (pkg/cache/manager.go): an index of the     *)
(* committed chunks with sizes, access times and reference counts, the     *)
(* pins of artifacts, and LRU eviction between two watermarks.  The daemon *)
(* (cmd/spiderd) calls it when a chunk commits, after a successful sync,   *)
(* on every heartbeat and at start-up.  spiderctl pin and unpin open a     *)
(* manager of their own on the same directory, so the two processes share  *)
(* index.json but neither the index in memory nor the mutex.               *)
(***************************************************************************)
EXTENDS Integers, FiniteSets, FiniteSetsExt

CONSTANTS
    Hash,            \* chunk hashes of all setups
    Size,            \* Size[h]: the length of chunk h
    Artifact,        \* artifact ids
    Manifests,       \* Manifests[a]: the chunks of the manifest of a
    Configured,      \* chunkCache.pinnedArtifacts
    Low,             \* the low watermark, in bytes
    Setups           \* the nodes that are looked at: which chunks exist, the high
                     \* watermark, a bound on the clock, what spiderctl is used
                     \* for ("pin", "unpin"), what goes wrong ("disk", "crash")

ASSUME SizeAssumption == Size \in [Hash -> Nat]
ASSUME ManifestAssumption ==
    /\ IsFiniteSet(Hash) /\ IsFiniteSet(Artifact)
    /\ Manifests \in [Artifact -> SUBSET Hash]
    /\ Configured \subseteq Artifact
ASSUME QuotaAssumption ==
    /\ Setups \subseteq [hashes: SUBSET Hash, high: Nat, maxTime: Nat,
                         tools: SUBSET {"pin", "unpin"}, faults: SUBSET {"disk", "crash"}]
    /\ Low \in Nat /\ \A w \in Setups : Low <= w.high

VARIABLES
    setup,      \* the setup of this node; it never changes
    disk,       \* the chunks in chunks/sha256
    manifests,  \* the artifacts whose manifest is saved
    idx,        \* the index of the daemon, in memory
    saved,      \* index.json
    dirty,      \* idx was touched since it was saved
    commit,     \* commit[h]: where CommitPartial of h stands after its rename
    stat,       \* stat[h]: the size os.Stat returned to CommitPartial
    evict,      \* the pass of MaybeEvict that holds the mutex, if any
    after,      \* after[a]: what afterSuccessfulSync of a has still to do
    cli,        \* the spiderctl process, if any
    now,        \* the clock
    acked       \* the artifacts whose pin was reported as successful

store  == <<disk, manifests>>
index  == <<idx, saved, dirty>>
vars   == <<setup, store, index, commit, stat, evict, after, cli, now, acked>>

High   == setup.high
Tools  == setup.tools
Faults == setup.faults
AllChunkHashes == [a \in Artifact |-> Manifests[a] \cap setup.hashes]

Meta  == [size: Nat, last: Nat, ref: Nat]
Index == [known: SUBSET Hash, meta: [Hash -> Meta], pins: SUBSET Artifact]

(* The entry a Go map returns for a missing key.                           *)
ZeroMeta   == [size |-> 0, last |-> 0, ref |-> 0]
EmptyIndex == [known |-> {}, meta |-> [h \in Hash |-> ZeroMeta], pins |-> {}]
NoPass     == [on |-> FALSE, used |-> 0, list |-> {}, failed |-> FALSE]
NoTool     == [op |-> "none", artifacts |-> {}, idx |-> EmptyIndex]

Init ==
    /\ setup \in Setups
    /\ disk = {} /\ manifests = {}
    /\ idx = EmptyIndex /\ saved = EmptyIndex /\ dirty = FALSE
    /\ commit = [h \in Hash |-> "none"]
    /\ stat = [h \in Hash |-> 0]
    /\ evict = NoPass
    /\ after = [a \in Artifact |-> "none"]
    /\ cli = NoTool
    /\ now = 0
    /\ acked = {}

-----------------------------------------------------------------------------
(* Operations on an index.                                                 *)

UsedBytes(i) == MapThenSumSet(LAMBDA h : i.meta[h].size, i.known)

Touched(i, h, s) ==
    [i EXCEPT !.known = @ \cup {h},
              !.meta[h] = [size |-> IF s > 0 THEN s ELSE @.size,
                           last |-> now, ref |-> @.ref]]

(* CommittedChunkSize looks at the disk.                                   *)
FilledSize(i, h) ==
    IF i.meta[h].size = 0 /\ h \in disk THEN Size[h] ELSE i.meta[h].size

(* Variant: pinning an artifact again counts its chunks again.             *)
PinnedAgain(i, A) ==
    LET hs == UNION {AllChunkHashes[a] : a \in A}
    IN  [known |-> i.known \cup hs,
         meta  |-> [h \in Hash |-> IF h \notin hs THEN i.meta[h] ELSE
                      [i.meta[h] EXCEPT !.size = FilledSize(i, h),
                          !.ref = @ + Cardinality({a \in A : h \in AllChunkHashes[a]})]],
         pins  |-> i.pins \cup A]

(* Pin, for each artifact of a set: those that are pinned already are left *)
(* alone, a chunk the index does not know gets an entry.                   *)
PinnedIndex(i, A) ==
    LET new == A \ i.pins
        hs  == UNION {AllChunkHashes[a] : a \in new}
    IN  [known |-> i.known \cup hs,
         meta  |-> [h \in Hash |-> IF h \notin hs THEN i.meta[h] ELSE
                      [size |-> FilledSize(i, h), last |-> i.meta[h].last,
                       ref  |-> i.meta[h].ref + Cardinality({a \in new : h \in AllChunkHashes[a]})]],
         pins  |-> i.pins \cup new]

(* Unpin: the hashes of an artifact that is not pinned are an empty list.  *)
UnpinnedIndex(i, a) ==
    LET hs == IF a \in i.pins THEN AllChunkHashes[a] ELSE {}
    IN  [known |-> i.known \cup hs,
         meta  |-> [h \in Hash |-> IF h \in hs /\ i.meta[h].ref > 0
                                   THEN [i.meta[h] EXCEPT !.ref = @ - 1]
                                   ELSE i.meta[h]],
         pins  |-> i.pins \ {a}]

(* Variant: the index is taken as it was saved.                            *)
NotReconciled(i) == i

(* reconcileFromDisk: chunks the index does not know get an entry.         *)
Reconciled(i) ==
    LET new == disk \ i.known
    IN  [known |-> i.known \cup new,
         meta  |-> [h \in Hash |-> IF h \notin new THEN i.meta[h] ELSE
                      [size |-> Size[h], last |-> now, ref |-> 0]],
         pins  |-> i.pins]

(* save writes a temporary file and renames it; nobody retries an error.   *)
(* It is one step: that the saves of daemon and spiderctl use the same     *)
(* index.json.tmp and may overlap is left out.                             *)
Save(i, d) ==
    \/ saved' = i /\ dirty' = FALSE
    \/ "disk" \in Faults /\ saved' = saved /\ dirty' = d

-----------------------------------------------------------------------------
(* CommitPartial, from its rename on: os.Stat, then the onCommit hook,     *)
(* which is Touch.  The mutex of the hash is held, so that there is one    *)
(* commit per hash at a time; a chunk that is there may be committed again.*)

CommitRename(h) ==
    /\ h \in setup.hashes
    /\ commit[h] = "none"
    /\ disk' = disk \cup {h}
    /\ commit' = [commit EXCEPT ![h] = "renamed"]
    /\ UNCHANGED <<manifests, index, stat, evict, after, cli, now, acked>>

CommitStat(h) ==
    /\ commit[h] = "renamed"
    /\ stat' = [stat EXCEPT ![h] = IF h \in disk THEN Size[h] ELSE 0]
    /\ commit' = [commit EXCEPT ![h] = "stat"]
    /\ UNCHANGED <<store, index, evict, after, cli, now, acked>>

(* Variant: the hook runs only if the chunk is new to the index.           *)
TouchNew(h) ==
    /\ commit[h] = "stat"
    /\ ~evict.on
    /\ IF h \in idx.known THEN UNCHANGED <<idx, dirty>>
       ELSE idx' = Touched(idx, h, stat[h]) /\ dirty' = TRUE
    /\ commit' = [commit EXCEPT ![h] = "none"]
    /\ stat' = [stat EXCEPT ![h] = 0]
    /\ UNCHANGED <<store, saved, evict, after, cli, now, acked>>

Touch(h) ==
    /\ commit[h] = "stat"
    /\ ~evict.on
    /\ idx' = Touched(idx, h, stat[h])
    /\ dirty' = TRUE
    /\ commit' = [commit EXCEPT ![h] = "none"]
    /\ stat' = [stat EXCEPT ![h] = 0]
    /\ UNCHANGED <<store, saved, evict, after, cli, now, acked>>

(* The flusher, once a second.                                             *)
Flush ==
    /\ dirty /\ ~evict.on
    /\ Save(idx, dirty)
    /\ UNCHANGED <<store, idx, commit, stat, evict, after, cli, now, acked>>

-----------------------------------------------------------------------------
(* A sync of the daemon, from the point where every chunk was fetched: an  *)
(* eviction may have deleted any of them since.                            *)

SaveManifest(a) ==
    /\ after[a] = "none"
    /\ manifests' = manifests \cup {a}
    /\ after' = [after EXCEPT ![a] = "materialize"]
    /\ UNCHANGED <<disk, index, commit, stat, evict, cli, now, acked>>

(* Materialize reads every chunk; a chunk that is gone fails the sync.     *)
Materialize(a) ==
    /\ after[a] = "materialize"
    /\ after' = [after EXCEPT ![a] =
                    IF AllChunkHashes[a] \subseteq disk THEN "pin" ELSE "none"]
    /\ UNCHANGED <<store, index, commit, stat, evict, cli, now, acked>>

(* Variant: the pin is left to the flusher.                                *)
AfterSyncUnsaved(a) ==
    /\ after[a] = "pin"
    /\ IF a \in Configured
       THEN /\ ~evict.on
            /\ idx' = PinnedIndex(idx, {a})
            /\ dirty' = TRUE
            /\ acked' = acked \cup {a}
       ELSE UNCHANGED <<idx, dirty, acked>>
    /\ after' = [after EXCEPT ![a] = "evict"]
    /\ UNCHANGED <<store, saved, commit, stat, evict, cli, now>>

(* afterSuccessfulSync pins a configured artifact, and then calls          *)
(* MaybeEvict.                                                             *)
AfterSync(a) ==
    /\ after[a] = "pin"
    /\ IF a \in Configured
       THEN /\ ~evict.on
            /\ idx' = PinnedIndex(idx, {a})
            /\ Save(idx', dirty)
            /\ acked' = IF saved' = idx' THEN acked \cup {a} ELSE acked
       ELSE UNCHANGED <<index, acked>>
    /\ after' = [after EXCEPT ![a] = "evict"]
    /\ UNCHANGED <<store, commit, stat, evict, cli, now>>

-----------------------------------------------------------------------------
(* MaybeEvict holds the mutex from its first step to its last.             *)

(* The caller is the heartbeat, or a sync that has succeeded.              *)
Caller ==
    \/ UNCHANGED after
    \/ \E a \in Artifact : /\ after[a] = "evict"
                           /\ after' = [after EXCEPT ![a] = "none"]

(* Variant: eviction starts above the high watermark.                      *)
EvictBeginAbove ==
    /\ ~evict.on
    /\ UsedBytes(idx) > High
    /\ evict' = [on |-> TRUE, used |-> UsedBytes(idx), failed |-> FALSE,
                 list |-> {h \in idx.known : idx.meta[h].ref = 0}]
    /\ Caller
    /\ UNCHANGED <<store, index, commit, stat, cli, now, acked>>

(* Variant: the reference counts are not looked at.                        *)
EvictBeginAll ==
    /\ ~evict.on
    /\ UsedBytes(idx) >= High
    /\ evict' = [on |-> TRUE, used |-> UsedBytes(idx), failed |-> FALSE,
                 list |-> idx.known]
    /\ Caller
    /\ UNCHANGED <<store, index, commit, stat, cli, now, acked>>

EvictBegin ==
    /\ ~evict.on
    /\ UsedBytes(idx) >= High
    /\ evict' = [on |-> TRUE, used |-> UsedBytes(idx), failed |-> FALSE,
                 list |-> {h \in idx.known : idx.meta[h].ref = 0}]
    /\ Caller
    /\ UNCHANGED <<store, index, commit, stat, cli, now, acked>>

(* Below the high watermark the call returns at once.                      *)
EvictNothing(a) ==
    /\ ~evict.on
    /\ UsedBytes(idx) < High
    /\ after[a] = "evict"
    /\ after' = [after EXCEPT ![a] = "none"]
    /\ UNCHANGED <<store, index, commit, stat, evict, cli, now, acked>>

(* The least recently touched candidate, while the target is not reached.  *)
(* A file that is not there counts as deleted.                             *)
Oldest(h) ==
    /\ evict.on /\ evict.used > Low
    /\ h \in evict.list
    /\ \A g \in evict.list : idx.meta[h].last <= idx.meta[g].last

EvictOne(h) ==
    /\ Oldest(h)
    /\ disk' = disk \ {h}
    /\ idx' = [idx EXCEPT !.known = @ \ {h}, !.meta[h] = ZeroMeta]
    /\ evict' = [evict EXCEPT !.used = @ - idx.meta[h].size, !.list = @ \ {h}]
    /\ UNCHANGED <<manifests, saved, dirty, commit, stat, after, cli, now, acked>>

(* os.Remove fails: the chunk is passed over.                              *)
EvictError(h) ==
    /\ "disk" \in Faults
    /\ Oldest(h)
    /\ h \in disk
    /\ evict' = [evict EXCEPT !.list = @ \ {h}, !.failed = TRUE]
    /\ UNCHANGED <<store, index, commit, stat, after, cli, now, acked>>

(* Variant: the pass is over once it is below the high watermark.          *)
EvictStopsAtHigh == evict.on /\ (evict.list = {} \/ evict.used < High)

EvictStops == evict.on /\ (evict.list = {} \/ evict.used <= Low)

EvictEnd ==
    /\ EvictStops
    /\ Save(idx, dirty)
    /\ evict' = NoPass
    /\ UNCHANGED <<store, idx, commit, stat, after, cli, now, acked>>

-----------------------------------------------------------------------------
(* spiderctl pin and unpin: NewManager, then Pin or Unpin.                 *)

ToolOpens(op, a) ==
    /\ cli = NoTool
    /\ op \in Tools
    /\ cli' = [op |-> op, artifacts |-> {a}, idx |-> Reconciled(saved)]
    /\ saved' \in {Reconciled(saved)} \cup (IF "disk" \in Faults THEN {saved} ELSE {})
    /\ UNCHANGED <<store, idx, dirty, commit, stat, evict, after, now, acked>>

ToolPins ==
    /\ cli.op = "pin"
    /\ saved' = PinnedIndex(cli.idx, cli.artifacts)
    /\ acked' = acked \cup cli.artifacts
    /\ cli' = NoTool
    /\ UNCHANGED <<store, idx, dirty, commit, stat, evict, after, now>>

ToolUnpins ==
    /\ cli.op = "unpin"
    /\ \E a \in cli.artifacts : saved' = UnpinnedIndex(cli.idx, a)
    /\ acked' = acked \ cli.artifacts
    /\ cli' = NoTool
    /\ UNCHANGED <<store, idx, dirty, commit, stat, evict, after, now>>

(* The save fails, and the tool reports the error.                         *)
ToolFails ==
    /\ "disk" \in Faults
    /\ cli # NoTool
    /\ cli' = NoTool
    /\ UNCHANGED <<store, index, commit, stat, evict, after, now, acked>>

-----------------------------------------------------------------------------
Tick ==
    /\ now < setup.maxTime
    /\ now' = now + 1
    /\ UNCHANGED <<store, index, commit, stat, evict, after, cli, acked>>

(* The daemon dies and starts again: it loads index.json, adds what it     *)
(* finds on disk, and pins the configured artifacts whose manifest it has. *)
Restart ==
    /\ "crash" \in Faults
    /\ idx' = PinnedIndex(Reconciled(saved), Configured \cap manifests)
    /\ saved' \in {idx'} \cup (IF "disk" \in Faults THEN {saved} ELSE {})
    /\ dirty' = FALSE
    /\ commit' = [h \in Hash |-> "none"]
    /\ stat' = [h \in Hash |-> 0]
    /\ evict' = NoPass
    /\ after' = [a \in Artifact |-> "none"]
    /\ UNCHANGED <<store, cli, now, acked>>

Step ==
    \/ \E h \in Hash : \/ CommitRename(h) \/ CommitStat(h) \/ Touch(h)
                       \/ EvictOne(h) \/ EvictError(h)
    \/ \E a \in Artifact : \/ SaveManifest(a) \/ Materialize(a) \/ AfterSync(a)
                           \/ EvictNothing(a)
                           \/ \E op \in {"pin", "unpin"} : ToolOpens(op, a)
    \/ EvictBegin \/ EvictEnd \/ Flush
    \/ ToolPins \/ ToolUnpins \/ ToolFails
    \/ Tick \/ Restart

Next == Step /\ UNCHANGED setup

Spec == Init /\ [][Next]_vars

(* The heartbeat ticks for ever, and whoever holds the mutex goes on.      *)
FairSpec ==
    /\ Spec
    /\ WF_vars(EvictBegin /\ UNCHANGED setup)
    /\ WF_vars(EvictEnd /\ UNCHANGED setup)
    /\ WF_vars((\E h \in Hash : EvictOne(h) \/ EvictError(h)) /\ UNCHANGED setup)

-----------------------------------------------------------------------------
(* The reference count of a chunk is the number of pinned artifacts that   *)
(* contain it, and a chunk the index does not know is in none: in memory,  *)
(* in index.json and in the tool, through pins that are repeated by a      *)
(* restart or a sync and unpins that are repeated by the user.             *)
RefsExact(i) ==
    \A h \in Hash :
        /\ i.meta[h].ref = Cardinality({a \in i.pins : h \in AllChunkHashes[a]})
        /\ h \notin i.known => i.meta[h] = ZeroMeta
RefCountExact == RefsExact(idx) /\ RefsExact(saved) /\ RefsExact(cli.idx)

(* No chunk of an artifact the daemon has pinned is ever deleted           *)
(* (MaybeEvict looks only at reference counts).                            *)
PinnedKept ==
    [][\A h \in disk \ disk', a \in idx.pins : h \notin AllChunkHashes[a]]_vars

(* The node is left to its daemon, and the daemon does not die.            *)
Undisturbed == Tools = {} /\ "crash" \notin Faults

(* On a node without spiderctl, a pin that was reported as successful is   *)
(* in index.json, from which the next start of the daemon takes it.        *)
PinDurable == Tools = {} => acked \subseteq saved.pins

(* The chunks on disk whose commit is over.                                *)
Settled == {h \in disk : commit[h] = "none"}

(* Every chunk the daemon has committed and settled on disk is in its      *)
(* index, however the commit, an eviction of the same chunk, failed saves  *)
(* and restarts interleave: it is within reach of MaybeEvict.  Chunks that *)
(* spiderctl publish commits into the same directory, without the hook,    *)
(* are not meant: the index has them when the daemon restarts.             *)
DiskCovered == Settled \subseteq idx.known

(* ... and, while it is undisturbed, with its size: UsedBytes is at least  *)
(* what the chunks occupy, so that MaybeEvict acts when the disk reaches   *)
(* the high watermark.                                                     *)
DiskAccounted ==
    Undisturbed => \A h \in Settled : h \in idx.known /\ idx.meta[h].size = Size[h]

(* A pass of MaybeEvict that could delete what it tried to delete ends     *)
(* with the disk at the low watermark, or with nothing but pinned chunks.  *)
EvictionReachesTarget ==
    Undisturbed /\ EvictStops /\ ~evict.failed =>
        \/ MapThenSumSet(LAMBDA h : Size[h], Settled) <= Low
        \/ \A h \in Settled : idx.meta[h].ref > 0

(* When the disk has reached the high watermark it is brought below it, or *)
(* to pinned chunks only, or a delete fails: a heartbeat calls MaybeEvict  *)
(* again and again.                                                        *)
EvictionCatchesUp ==
    (Undisturbed /\ MapThenSumSet(LAMBDA h : Size[h], Settled) >= High) ~>
        (\/ MapThenSumSet(LAMBDA h : Size[h], Settled) < High
         \/ \A h \in Settled : idx.meta[h].ref > 0
         \/ evict.failed)

=============================================================================
