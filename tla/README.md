# TLA+ models of spider

Spider distributes artifacts (directories cut into chunks that are named by their
SHA-256) between nodes. A node fetches the chunks it lacks from peers, falls back to
an origin, verifies everything it receives, and materializes the files. A tracker
tells nodes who has which chunk. This directory models the parts of that system in
which the order of events decides whether it is right.

`PROJECT.json` lists components, runs, the correspondence between definitions and
source lines (`map`), mutants, findings, hazards and theorems.

## 1. Inventory

| Component | State | Operations | Hard behaviour | What makes it correct |
|---|---|---|---|---|
| Chunk store (`pkg/cache/cache.go`) | partial files, committed files, a mutex per hash | LockHash, PartialSize, DiscardPartial, AppendPartial, CommitPartial, PutChunk, DeleteChunk | resumed and cut transfers, crashes and power loss between append, fsync and rename, eviction without the mutex | only verified, durable bytes are committed; one writer per partial; resumption is exact |
| Transfers (`pkg/engine`: downloadFromPeer, downloadFromOrigin) | pipe, origin slots | as named | two goroutines per transfer, deadlines, failing writes | transfers end and give back slot and mutex; a clean origin succeeds |
| Quota manager (`pkg/cache/manager.go`) | index in memory, `index.json`, dirty flag, pins | Touch, Pin, Unpin, Flush, MaybeEvict, reconcileFromDisk | eviction racing commits, restart with an old index, a second process on the same file | exact reference counts, pinned chunks kept, the index covers the disk, eviction reaches its target |
| Sync engine (`pkg/engine/engine.go`) | queue, location map, job, error | Sync, fetchChunk, refreshLocations | workers, retries, cancellation, eviction during a sync | no chunk lost or fetched twice; the sync returns; fallback works |
| Scheduler (`pkg/scheduler`) | per-peer counts, failures, breaker | Begin, End, RankPeers, IsUntrusted, RarestFirst | slots on every path, breaker opening and closing | counts exact and capped |
| Publisher (`pkg/engine/publisher.go`, `pkg/chunk`) | none of its own | Publish | concurrent with downloads of the same hash | chunks cover the files, manifest is canonical |
| Materializer (`pkg/materializer`) | target files | Materialize | a chunk missing or rotten half way | target equals the manifest or an error is returned |
| Advertiser (`pkg/advertise`) | channel, batch, retry queue, depth gauge | Enqueue, loop, flush, retry, Stop | full queues, failing tracker, shutdown | only committed chunks are advertised; each is reported or given up; Stop drains |
| Peer server (`pkg/peer/server.go`) | upload slots, waiting count | acquireUpload, GetChunk | waiting, refusals, cancellation | at most N uploads and M waiting |
| Client pool (`pkg/peer/client.go`) | connections, use times | GetClient, RemovePeer, evictIdle, Close | dial without the lock, eviction of a connection in use | at most N connections, one per address |
| Tracker (`pkg/tracker`) | registry over a store, fleet watch | Register, Heartbeat, Deregister, Report, Put, Locate, Prune | late reports, expiry between two reads | located peers are alive and have reported |
| Tracker store (`pkg/store`: memory, sql) | peers, artifacts, seeds, chunk rows | the Store interface | transactions cut by errors and crashes, stamps read before a wait, lookups in batches, reports of unknown nodes | each operation takes effect at once or not at all; only silent peers are pruned |
| Fleet watch (`pkg/tracker/fleet.go`) | per artifact: expected and ready nodes, milestones | BeginDistribution, NodeReady | publications and reports in any order | every seed counted once, each milestone recorded when it is reached |
| Topology (`pkg/topology`) | none | Distance, SortPeersByProximity | localities that are partly unset | nearest first, a total order |
| Verifier (`pkg/verifier`) | none | VerifyCache, VerifyMaterializedDirectory | a sync writes what is read | reports exactly what is damaged |
| Cached store (`pkg/store/cached.go`, `pkg/metacache`) | TTL cache in front of a store | read-through, invalidate | fill racing invalidation, coalesced heartbeats | staleness is bounded by the TTL |
| Daemon, command line tool (`cmd/`) | none of its own | start-up, heartbeat loop, HandleSync; pin, unpin, publish | start-up order, shared directory | as for the parts |
| Configuration, metrics, HTTP, benchmark | | | I/O | |

The components interact as follows. `Engine.Sync` takes the inventory from the chunk
store, asks the tracker for locations, ranks peers with the scheduler and runs
transfers that write into the chunk store. A commit calls the hook of the quota
manager and of the advertiser. The daemon's heartbeat calls `MaybeEvict`, which deletes
chunks from the store without the mutex of their hash. `spiderctl pin` opens a quota
manager of its own on the same directory, and `spiderctl publish` and `verify` work on
the same cache. The tracker's handlers run over a store that is in memory or in SQL, with
or without a cache in front of it.

## 2. Plan

The plan was, in order of importance:

1. `ChunkStore`: partials, transfers, commit, crash and power loss.
2. `ChunkStoreProofs`: type correctness, integrity, exclusion, origin cap.
3. `QuotaManager`: index, pins, eviction, two processes, restart.
4. `SyncEngine`: a sync with its workers and the scheduler.
5. Exact resumption, in `ChunkStoreProofs`.
6. `Advertiser`: queue, batches, retries, Stop.
7. `Tracker` over the cached store, with the daemon's registration and heartbeat loop,
   and coherence of its cache, in `ReportingProofs`.
8. `Transport`: the connection pool, upload slots and their queue.
9. `Store`, the contract of the tracker's store, and `SqlStore`, the SQL driver, as a
   refinement of it; `SqlStoreProofs`.
10. `Registry`, composed of the contract of the store, the fleet watch, the ranking
    (`Topology`) and the lookups of a sync.
11. `Pipeline`, from the source tree over manifest, cache and destination to the verifier,
    over `Manifest`.
12. `QuotaManagerProofs`, `SyncEngineProofs`, the registry's proofs, in `NetworkProofs`, and
    the advertiser's, in `ReportingProofs`.
13. `PipelineSyncProofs` and `PipelineProofs`.
14. The proofs about the pool and the upload slots of `Transport`, in `NetworkProofs`.

All of it is done. What could follow: the isolation level of Postgres in `SqlStore`; the
advertiser composed with the registry, for reports that are acknowledged and not recorded.

Runs stay within two of nearly everything (chunks, workers, peers, artifacts): every race
listed under hazards needs two actors and one shared object, or one actor and a crash.

## 3. Modules

**`ChunkStore`** models one daemon. A thread (`pc`, `kind`, `chunk`) carries out
PutChunk, downloadFromPeer or downloadFromOrigin, one action per step visible to others:
`Start`, `AcquireOrigin`, `LockHash`, `Prepare` (size of the partial, discarded if too
long), `OpenPut`/`OpenPeer`/`OpenOrigin`, `Deliver` per block, `Finish` (fsync),
`Cut`, write errors, `Incomplete`/`Mismatch`/`Match` (verification), `Rename`, `Unlock`.
The digest is perfect: a file verifies as `h` if its data equal `Content[h]`. A file is
its data and whether they are synced; `PowerLoss` keeps a synced file and any prefix of
another, possibly with a garbage block. Renames are taken to be durable (the code does
not fsync directories), and bytes do not rot after the commit. Other processes do not
write partials, and a partial that is to be discarded can be removed. `Unlock` releases
mutex and slot in one step.

**`QuotaManager`** models the daemon's manager and one `spiderctl` process. An index is
a record: known hashes, entries, pins. Operations on an index are operators
(`Touched`, `PinnedIndex`, `UnpinnedIndex`, `Reconciled`), so that both processes use
the same ones. CommitPartial is split at its rename, stat and hook because eviction
does not take the mutex of the hash; chunks that `spiderctl publish` commits, without the
hook, are not followed. MaybeEvict is split chunk by chunk under the
manager's mutex (`evict.on`). The file and its entry are deleted in one step because
nothing that reads both can run in between. `Restart` merges load, reconciliation and
the start-up pins, and their saves. A save is one step and fails as a
whole (the file `index.json.tmp`, which both processes use, is not modelled); `index.json`
survives crashes of the process. `setup` is chosen in `Init` and never changes: which chunks exist,
the watermark, whether `spiderctl` is used and what goes wrong.

**`SyncEngine`** models one Sync. A transfer is one step whose ways to end are those of
ChunkStore; the partial is one bit, whether it is `poisoned`. The order of candidates is
left open. `Refresh` lets the tracker answer anything. `failures` is counted up to
`UntrustedAfter`. IsUntrusted and Begin are one step. A panic is a status.

**`Advertiser`** models one advertiser: the loop goroutine with its place `pc`, the
channel, the batch, the retry queue, the call to the tracker under way, and callers of
Enqueue and Stop beside it. An item is one call of Enqueue; the order of items in a queue
is not modelled, so the queues are sets, and whether a backoff is over is a bit (`due`).
A call ends as a success or a failure (`Acknowledged`, `ReportFails`). `tries`, `before`
and `tried` are history variables. Metrics are left out.

**`Tracker`** models the registry, the memory store, the caching decorator with the
memory cache, and the daemons. `Call` are the gRPC handlers and the sweep that are at
work at the same time; each access to the inner store or to the cache is a step, and
`call[c]` is what the handler does next with what it holds. A request occupies its
handler from when it is sent, so that it may be applied long after its sender has given
up (`Lost` drops it). Time is two bits: whether the `LastHeartbeat` of a peer is within
`peerExpiry` (`live`) and whether a cache entry has reached its TTL (`old`). Whether a
heartbeat is flushed to the store is left open. A peer is its address, and a daemon that
restarts has another one. The requester, the order of located peers, and the filter by
the cached `LastHeartbeat` are abstracted; the deletions of one handler are one step.
Redis is not part of it. `overtaken` is a history variable: the handlers that hold an
answer which a write has made out of date; an entry set by one of them is marked `raced`.

**`Transport`** models the connection pool of one node, its downloading goroutines and the
servers of its peers. GetClient is split where it gives up the pool's mutex to dial
(`Hit`/`Miss`, `DialSucceeds`, `Store`); `MakeRoom` is evictOldestLocked, `EvictIdle` and
`Close` close connections whoever uses them. acquireUpload is split at the try, the atomic
counter and the wait (`TryAcquire`, `Count`, `Wait`, `GiveUp`, `Uncount`). The handler of a
stream is a process of its own, which may outlive the download. A channel of Go hands a
slot to the sender that has waited longest; that is `Release`. Servers stop gracefully,
crash and start again. Pool entries are ordered by last use, without a clock; the bandwidth
limiter only delays and is left out.

**`Store`** is the contract of the interface `Store`: each operation is one step on peers,
seeds, chunk rows and artifacts. The memory driver, which holds its mutex throughout, is
this module with `Slack = 0`; `Slack` is how far a stamp may lie behind the clock.

**`SqlStore`** is the SQL driver on SQLite: a call begins, reads the clock, waits for the
write lock, and carries out its transaction statement by statement on `work`; `Commit` makes
it `db`, `Rollback` (error, cancellation, the limit of `bind`) and `Crash` forget it.
Readers see `db`. One batched LocateChunks, by a node or by someone the store does not
know (`Requester`), runs beside the writers; a query of it that fails ends it with an answer
of empty lists (`LookupFails`). The refinement mapping takes the contract's tables from `db`, with stamps in seconds scaled to the clock and
`Slack` = the limit of a call + 1 s. `sign` (the last sign of life) and the fields `always`
and `ever` of the lookup are history.

**`Registry`** composes `Store` (by EXTENDS), `Topology` and the fleet watch: PutArtifact as
write, count, BeginDistribution; ReportArtifact as record, NodeReady; and
refreshLocations of one daemon as LocateArtifact and LocateChunks, each two reads with
others in between, any of which may fail. Nodes are numbers, in the order of their IDs. A
behaviour has publications or lookups (`part`): they meet in the store only, whose
other operations run beside both.

**`Topology`** holds `Distance` and the comparison of SortPeersByProximity; names are equal
or not (no trimming, no case).

**`Manifest`** holds the chunker and the manifest's Finalize, ComputeID and Validate as
operators. The hash of bytes is the bytes: SHA-256 without collisions.

**`Pipeline`** models publish, sync and verify with their data. Publish lists the tree,
reads each file buffer by buffer while `Edit` may change it, and saves the manifest if it
validates. A sync takes inventory by size, fetches (one step per chunk: the transfers are
`ChunkStore` and `SyncEngine`), and writes the files chunk by chunk, copying, then checking
the hash. Verify reads a file, or a chunk, in one step. Faults lose, cut or damage chunks
and destination files; `Crash` ends a sync anywhere. Modes, symbolic links and names that
validation refuses are left out, as are hard links in place of copies, directories and files
that cannot be created, and an empty chunk that publish fails to put, an error it ignores
(`publisher.go:88`). `wrote`, `pub.snap`, `ver.truth` are history.

The `MC*` modules hold the instances. Definitions that begin with "Variant:" are the
mutants: the bug a property is there to find.

## 4. Runs

| Run | Question | Distinct states |
|---|---|---|
| ChunkStore | integrity, exclusion, origin cap with rotten and short sources and every fault | 235 k |
| ChunkStoreLive | no spurious mismatch with exact sources; transfers return when writes do not fail | 44 k |
| ChunkStorePoison | a disagreement, see below | |
| QuotaManager | reference counts, coverage of the disk, pinned chunks kept, durable pins, accounting, the target of a pass, eviction catches up | 1229 k |
| SyncEngine | inflight counts, conservation of chunks | 688 k |
| SyncLive | a sync returns, and succeeds with a healthy origin | 341 k |
| Advertiser | conservation of hashes, number of attempts, Stop, every hash settles | 84 k |
| Tracker | coherence of the cache, dead daemons forgotten, reported chunks located | 203 k |
| Transport | the pool bounded and every open connection in it, slots and queue exact, downloads and Stop return | 290 k |
| SqlStore | the SQL driver implements the contract; prunes only silent peers; lookups exact next to writers, or empty | 1741 k |
| Registry | milestones, seeds counted, nearest first, stale peers dropped | 646 k |
| Pipeline | publish, sync and verify over edits, damage and crashes | 1696 k |

Bounds. ChunkStore: two threads, a chunk of two blocks (a first, a last and a cut in
between) and an empty one, one origin slot. QuotaManager has two setups: both chunks, of
sizes 1 and 2, artifacts {h1, h2} and {h2}, High 3, Low 1, the daemon alone with failing
writes and a clock, so that a full disk is exactly at the high watermark and one deletion
may or may not be enough; and the shared chunk alone, at the high watermark by itself, with
`spiderctl` and crashes. SyncEngine: two workers, chunks and peers, one of them corrupt, one
transfer per peer, two rounds; with or without an origin is chosen in `Init`. Advertiser:
the channel, the retry queue and a batch are each smaller than the number of items, so that
all of them overflow. Tracker: one daemon with two lives and so two addresses, one chunk,
two handlers at a time; every race of a cache entry is between one reader and one writer of
it, and an entry concerns one daemon. Transport: two goroutines, two peers, a pool of one
connection, so that each dial evicts the other's; one upload slot and a queue of one; one
peer that stops, crashes and starts. SqlStore: one node, two hashes in two batches, a
second of two ticks, so that stamps round, an expiry of one second, and two calls or a
call and a lookup at a time (`MaxBusy`). Registry: three nodes, one in the rack and one on
the host of the requester, an expiry of 0 and one tick, so that every peer that does not
beat again expires. Pipeline: two paths, chunks of two bytes, files that are empty, one
chunk long, or a chunk and a rest; three commands, one edit, one fault, and publish and
sync not at the same time. `MaxTime`, `MaxNow` bound clocks. Symmetry is used in safety
runs only.

Deadlock is checked in every passing run but Pipeline, whose commands are bounded: after
the last one the system rests.

Fairness. `ChunkStore!FairSpec`: weak fairness of a thread's own steps (a goroutine is
scheduled; every stream has a 30 s deadline), strong fairness of the two waits
(`sync.Mutex` hands over to starving waiters, channel senders are served in order).
`QuotaManager!FairSpec`: the heartbeat comes again, and the holder of the mutex goes on.
`SyncEngine!FairSpec`: workers are scheduled. `Advertiser!AdvFairSpec`: the loop is
scheduled, a call ends by its 5 s deadline, backoffs end, and `select` chooses at random
among ready cases, so that none is passed over for ever (strong fairness of `Take`,
`Tick` and `DoneClosed`). `Tracker!FairSpec`: handlers go on, time passes, daemons beat
and the tracker sweeps on tickers; these two are strongly fair because the bound on
handlers, which may keep them disabled for a while, is the model's, and strong fairness
of `Prune` says that not every sweep is lost to an error of the store.
`Transport!NetFairSpec`: weak fairness of a goroutine's and of a handler's steps (both are
scheduled, dials and streams have deadlines) and of the end of GracefulStop. No fairness is
assumed of faults, peers, lookups, reports, evictions, restarts, or the end of a circuit
breaker's 15 minutes. `SqlStore`, `Registry` and `Pipeline` are checked for safety.

### Disagreements found

`ChunkStorePoison` is expected to violate its property (`findings` quotes the lines): bytes
of a corrupt peer in a cut partial make the download from a clean origin fail.

Further divergences the models contain, without a run of their own:

* a failed write in AppendPartial leaves a download waiting for ever: nobody drains the
  pipe, and `<-done` (`engine.go:630`) never comes. docs/configuration.md:211 promises
  attempts "before origin fallback". `TransferReturns` is checked without failing writes;
* workers that end with errors of two concrete types panic in `atomic.Value`
  (`engine.go:417` and `429`); `engine_test.go:391` expects an error of a cancelled sync.
  `SyncReturns` is checked without cancellation and origin errors;
* a lookup that raced with a re-registration caches the old address, and the daemon's
  heartbeats, more frequent than the TTL, renew it (`cached.go:101`): it is handed out for
  ever;
* LocateChunks answers replace the seeds LocateArtifact has just named by empty lists for
  hashes without rows (`engine.go:521`), while docs/plans/implementation_plan.md:34 has
  "per-chunk rows only for partial nodes"; an error of the store is answered with empty
  lists as well (`registry.go:121`);
* a pin by `spiderctl` beside a running daemon is overwritten by the daemon's next save
  (`PinDurable` is stated for a node without `spiderctl`);
* a configured artifact can be evicted before its first pin, which follows its sync;
* an index entry of size 0, made by pinning ahead of the download, is not corrected after
  a crash (`DiskAccounted` is stated without crashes);
* docs/configuration.md:180 calls `maxRetries` the number of "Retries if tracker is
  temporarily unavailable"; flush counts the first call among them (`advertise.go:196`), so
  that a hash is given up after `maxRetries` calls, not one more. `GivenUpAlike` holds for
  both readings;
* README.md:157 of the repository says that a "bit-rotten cache entry aborts
  materialization and removes the partial file", and line 166 that "corrupt cache bytes
  cannot produce a destination file". A chunk file that is too short ends the copy without
  removing the target (`materializer.go:139`): a file that is shorter than its entry stays.
  `NoWrongFile` is therefore stated for files that have their full size;
* a connection that was dialed before `Close` of the pool and stored after it stays open in
  the pool (`client.go:131` does not look whether the pool was closed);
* chunks that `spiderctl publish` commits are not in the index of a running daemon, and so
  not evicted, until it restarts (`DiskCovered` is about the daemon's own commits);
* a chunk that rots at its right size is trusted by every later inventory: syncs fail at
  materialization and do not fetch it again;
* reads do not refresh access times, so that eviction is in the order of commits;
* refusals count towards the circuit breaker, which docs/configuration.md:226 reserves for
  "verify/timeout failures";
* a report that was recorded before BeginDistribution is not counted by the fleet watch;
* a node that was pruned, or whose registration was lost, is never registered again.

`FallbackSucceeds` is checked where transfers from peers are refused or complete; with
cuts it fails for the reason `ChunkStorePoison` shows.

## 5. Proofs

All theorems hold for every value of the constants that satisfies the named assumptions of
the modules. Each module of proofs has lemmas of one step per action, and ends with
`Invariance` or its like and the theorems.

`ChunkStoreProofs`, for every set of hashes, threads, contents and sources, every
origin cap and every set of faults:

* `TypeCorrect`: `Spec => []TypeOK`.
* `StoreIntegrity`: `Spec => []CommittedIntegrity`, and `MutualExclusion`:
  `Spec => []PartialExclusive`, both from `IntegrityInvariant`. Neither is inductive:
  that a committed chunk is right needs that the partial is still what was verified when
  it is renamed (`Staged`), which needs that no other thread works on it
  (`HoldsMutex`: a thread in its critical section is the holder of the mutex of its
  hash).
* `OriginLimit`: `Spec => []OriginCap`, from `SlotInv`, which extends the holding of a
  slot to the wait for the mutex and says that the set of holders is finite.

The second part of the module proves `ExactResume`: `Spec => []NoSpuriousMismatch`, from the
assumptions that sources deliver the content of the hash (`ExactSources`) and that power
loss is not among the faults; process crashes are. The strengthening is `ResumeInv`: a
partial is a prefix of the content of its hash (`PartialIsPrefix`), and what a stream
has yet to deliver is the rest of it (`StreamIsRest`). The second needs mutual exclusion,
because the rest is computed from the size of the partial when the stream is opened.

`ReportingProofs` is about the two ends of the reports of chunks, `Tracker` and `Advertiser`
(whose names are kept apart: `AdvInit`, `AdvNext`, ...). Of the tracker, for every set of
daemons, keys and handlers and every bound on addresses: `TypeCorrect` and `Coherence`:
`Spec => []CacheCoherent`. `CacheCoherent` is not inductive: that a `Set` leaves a right entry needs that the value a handler holds is
what the inner store says now unless the handler is in `overtaken` (`HeldRight`). The
lemmas follow the kinds of steps: those that touch neither store nor cache (`Quiet`),
writes to the inner store (`WriteStep`), and sets (`SetStep`).

`SqlStoreProofs`, for any nodes, chunks, handlers, batch sizes, clock resolution and
limits: `Refinement`: `Spec => ImplementsStore`, that every commit is an operation of
`Store` and every other step stutters, and `StampsAreRecent`, `PrunesAreSilent`,
`TypeCorrect`. The invariant says that a call holds the lock exactly from its first
statement to its commit (`Phases`), that `work` is `db` with the statements so far applied
(`Working`: `Deleted`, `Reported`), and that no call is older than its limit (`Timely`).
The second makes a commit one operation; the third bounds the stamp it writes, since the
clock was read when the call began. `StampsRecent` is the part of the invariant from which
`PrunesOnlySilent` follows. `LocateCorrect`: `Spec => []LocateExact` has an invariant of its
own (`LookupOK`), for any request (a sequence of chunks) and any size of batch. It says of
the batches a lookup has been through that every row that was there from its first step on
has been found, and that nothing else was found than rows that were there at some time; the
rows and the peers are read by different statements, so that the same is said of the peers.
An answer after a failed query is empty; `LocateExact` allows nothing between that and the
whole.

`QuotaManagerProofs`, for any chunks, artifacts, watermarks, restarts, failed saves, and
`spiderctl` next to the daemon: `RefsCorrect`: `Spec => []RefCountExact`; `PinsProtect`:
`Spec => PinnedKept`; `Coverage`: `Spec => []DiskCovered`; `Durability`:
`Spec => []PinDurable`. Exactness is a property of an index (`Good`), and each operation on
indexes keeps it (`TouchedGood`, `PinnedGood`, `UnpinnedGood`, `ReconciledGood`), so that it
holds of memory, file and tool alike. A pinned chunk stays because a pass has only
unreferenced chunks on its list while it holds the mutex (`ListFree`), and exact counts make
"unreferenced" mean "in no pinned artifact". Durability needs that, without the tool,
`index.json` has no pin that memory lacks (`SavedBehind`).

`Accounting`: `Spec => []DiskAccounted` and `EvictionTarget`: `Spec => []EvictionReachesTarget`
are about a node left to a daemon that does not die. `Accounted` follows a size from the
stat of a commit to the index. `PassExact` says that a pass, which holds the mutex, knows
the bytes in use and has on its list every unreferenced chunk it has not passed over; it
needs that taking a chunk out of a sum takes its size out of it, whichever chunk the sum
begins with. The sums over sets are folds; the facts about them (`SumsRemove` and the lemmas
around it) are proved by induction on the cardinality, as explained below.

`SyncEngineProofs`, for any chunks, workers, peers, caps and faults: `InflightCorrect`:
`Spec => []InflightExact`; `NoChunkLost`: `Spec => []WorkConserved`; `TypeCorrect`. The
strengthening (`Locals`) ties a worker's place to whether it has a chunk and a peer.
`OriginSaves` proves `Spec => []FallbackSucceeds` from `OriginReliable`: the origin serves,
the caller waits, no chunk is evicted, and if transfers can be cut, no peer sends wrong
bytes; peers may still refuse, be refreshed away and, where nothing is cut, lie. Its
invariant, `Calm`, says that no partial is poisoned, that what was fetched is on disk, and
that a worker ends only when the queue is empty: this is what makes the final inventory of
`Sync` complete. It needs a worker (`Worker # {}`): `NewEngine` replaces a
configured number that is not positive by its default.

The second part of `ReportingProofs` is about the advertiser, for any items, capacities and
number of attempts: `Conservation`: `AdvSpec => []ItemConserved`; `Persistence`:
`AdvSpec => []GivenUpAlike`; `LastAttempts`: `AdvSpec => []StopTriesAll`;
`AdvTypeCorrect`, with the bounds of the queues. The strengthening says that the
attempt an entry carries is the number of calls that failed it (`AllCounted`), which needs
that the hashes of one call are on the same attempt and that flushRetries takes entries out
only to report them at once (`ReadyInTurn`), and what each phase of Stop has left behind
(`Stopping`). From the counts it follows that every hash is given up at the same number.

`NetworkProofs` begins with `Transport`, for any finite set of goroutines, any peers, and any
size of the pool, of the upload slots and of the queue, with dials that fail, evictions,
calls given up, refusals, stops and crashes:

* `PoolCorrect`: `NetSpec => []PoolSound`. `PoolSound` is not inductive: that a `Store` leaves no
  open connection outside of the pool and puts none in twice depends on what the goroutine brings from outside
  of the lock. `PoolInv` adds that a connection which has been dialed and not stored belongs
  to one goroutine and is not in the pool (`Owned`), and that entries differ in address and in
  connection (`IsPool`). Each operation of the pool keeps a part of it (`PartOf`: some
  entries, each once) and adds at most one entry, and two lemmas say that such a list is a
  pool again (`PartIsPool`, `AddedIsPool`). A dial must find an identifier that is not in use
  (`FreeConn` is a `CHOOSE`): `UnusedExists` counts those in use, from the assumption that
  there are at least as many as the pool and the goroutines can have.
* `UploadsCorrect`: `NetSpec => []UploadsExact`. `ServerInv` ties the three pieces of state of
  a server, the channel's length, the atomic counter and the senders that wait, to the
  phases of the handlers at it, and adds that the queue has no handler twice. A handler's
  step changes the counts by what its old and new phase weigh (`Weight`, `CountMoves`); the
  lemma `QuietStep` covers the steps that leave the queue alone, `QueueStep` those that join
  or leave it, and `HandOver` the one step that moves two handlers: `Release` gives the slot
  of the one to the first who waits. That nobody waits while a slot is free is kept there
  because the slot is never free in between. It uses `PoolInv` for the address of a request.

Its second part is about `Registry`, for any nodes (finitely many), artifacts, and
publications and reports at work at the same time, with restarts: `MilestonesCorrect`:
`Spec => []MilestonesExact`, and
`SeedsCounted`: `Spec => []SeededIsReady`. The first needs that a node is counted once, so
that each step counts one more and what is reached only grows (`OneMore`), and that a watch
expects at least one node (`Typed`). The second holds through `NodeReady` because the
handler it ends is the one that vouched for the node it counts. In behaviours with lookups
nothing is under watch (`Unpublished`). `StaleDropped`: `Spec => []RefreshDropsStale` and
`NearestAreFirst`: `Spec => []NearestFirst`, for any nodes and localities, come from
`LookInv`: what a lookup has read so far is about peers that were alive at some time of it,
and each list of its answer is sorted. A handler reads the clock before the rows and judges
by it peers it reads later; that these have been alive meanwhile by the clock, too, needs
that a stamp is not expired when it is written (`Slack <= Expiry`, in `RegistryAssumption`).
That the distance orders all peers the same way, and that a sorted list of any finite set exists, are lemmas about `Topology`.

`PipelineSyncProofs` (the lemmas about the operators of `Manifest`, and what each step does
to the files of a sync) and `PipelineProofs` (publish, cache and verify, the invariant and
the theorems), for any finite set of paths, any contents and any size of chunks, with
edits, lost and rotten chunks, crashes and failures at every step:

* `PublishDescribes`: `Spec => []PublishFaithful`. The manifest describes the tree that
  publish walked, if nobody edited it meanwhile (`PubInv`: the files that were read and those
  that were not are those of the tree, and the chunks of the file that is read are those of a
  prefix of it). Under it lie lemmas about cutting (the pieces of a content are contiguous
  and, joined, are the content) and about sorting (a list sorts to one with the same entries,
  and sorting twice changes nothing, which is why Finalize and Validate agree).
* `SyncExact`: `Spec => []CompletedExact`, and `NeverWrongFile`: `Spec => []NoWrongFile`, from
  `FilesInv`: a file of the target that has the size of its entry has the bytes of its entry,
  except the one that is being written, which has the bytes of the chunks so far. That the
  chunk is appended before it is verified is the hard case: the file has its full size before
  its last chunk is checked, and only the position of the job says that it is not over.
* `PublishedSyncs`: `Spec => []PublishedCanBeSynced`, from `Undamaged`: while nothing was
  damaged, every chunk that a sync does not wait for is in the cache and right.
* `VerifyCorrect`: `Spec => []VerifyExact`, from `VerInv`: what a verification has been
  through is sorted into good and bad as it was when looked at. It rests on `ValidIsTrue`,
  that reading back a file by the offsets and sizes of contiguous chunks and comparing
  the hashes tells the published bytes from all others.

The invariants are stated over the variables as parameters (`FilesInv(job, dest, wrote)`), so
that a step that leaves those alone keeps them by one lemma. Assumed are `Junk`, a byte that
no content has (damage is made of it), and that `Absent` and `None` are no contents and no
entries. A chunk is named by its content, that is, SHA-256 is taken to be injective.

Sums, joined contents, cuts and sorted lists are recursive functions or choices over
sequences. The library's induction theorems take an operator as parameter and cannot be used;
the proofs state what is to be shown as a set of numbers instead, and use the lemma
`Induction`: a set that has 0, and with every number the next, has all (from the
well-foundedness of the order on the natural numbers, in `Least`).

Only model-checked is all liveness, since fairness and ENABLED are beyond the proof system:
`TransferReturns`, `EvictionCatchesUp`, `SyncReturns`, `HashSettles`, `DeadPeerForgotten`,
`AdvertisedIsLocated`, `DownloadsReturn`, and the two `StopReturns`, of the advertiser and of a
server. Every invariant and every action property of a passing run has a theorem, as has
the refinement of `Store` by `SqlStore`.

## 6. Not modelled

* Parsing of configuration and flags, logging, metrics, HTTP endpoints, the benchmark, S3
  and gRPC as such, and generated code: I/O or wiring without state that other parts
  depend on.
* `pkg/cache/reconcile.go`: two pure selections over a predicate that `Pipeline` models.
* Postgres: at READ COMMITTED a heartbeat may commit between the statements of a prune.
  `SqlStore` is SQLite, where writers exclude each other.
* Redis as a cache: the code ignores its errors, so that an invalidation may be lost and
  an entry stays until its TTL.
* Power loss for `index.json`, directories that are not fsynced, and bit rot in
  `ChunkStore` (it is in `Pipeline`).
* `spiderctl publish` writing partials beside a daemon: `LockHash` is per process, and
  `ChunkStore` is one process.
* The scheduler's EWMA ranking (the order of candidates is left open) and the bandwidth
  limiter (it only delays).
* Several syncs at once, other than their transfers in `ChunkStore`; the table of jobs.
* The advertiser together with the tracker: that an error of the store in ReportChunks is
  acknowledged as a success (`registry.go:80`) is listed under hazards.
