------------------------- MODULE QuotaManagerProofs -------------------------
(***************************************************************************)
(* Proofs about the quota manager, for any chunks, sizes, artifacts and    *)
(* watermarks, with failing saves, restarts and spiderctl next to the      *)
(* daemon: reference counts are exact, no chunk of a pinned artifact is    *)
(* deleted, no settled chunk is out of reach of MaybeEvict, and on a node  *)
(* without spiderctl an acknowledged pin is durable.  While the node is    *)
(* undisturbed, the index has the size of every settled chunk, and a pass  *)
(* of MaybeEvict that could delete what it tried to ends at its target.    *)
(***************************************************************************)
EXTENDS QuotaManager, FiniteSetTheorems, WellFoundedInduction, TLAPS

-----------------------------------------------------------------------------
(* The part of the type invariant that the arguments need.  What the sum   *)
(* of sizes in evict.used is does not matter here.                         *)
Typed ==
    /\ setup \in Setups
    /\ disk \subseteq Hash /\ manifests \subseteq Artifact
    /\ idx \in Index /\ saved \in Index
    /\ commit \in [Hash -> {"none", "renamed", "stat"}]
    /\ stat \in [Hash -> Nat]
    /\ now \in Nat
    /\ cli \in [op: {"none", "pin", "unpin"}, artifacts: SUBSET Artifact, idx: Index]
    /\ evict = [on |-> evict.on, used |-> evict.used, list |-> evict.list, failed |-> evict.failed]

(* A pass of MaybeEvict has only chunks nobody refers to on its list: it   *)
(* holds the mutex, so that nobody can pin one of them meanwhile.          *)
ListFree == evict.on => \A h \in evict.list : h \in Hash /\ idx.meta[h].ref = 0

(* Without spiderctl, nothing is in index.json that is not in memory.      *)
SavedBehind == Tools = {} => cli = NoTool /\ saved.pins \subseteq idx.pins

IInv == Typed /\ RefCountExact /\ ListFree /\ DiskCovered /\ SavedBehind /\ PinDurable

-----------------------------------------------------------------------------
(* Operations on an index.                                                 *)
Good(i) == i \in Index /\ RefsExact(i)

Pinning(i, h) == {a \in i.pins : h \in AllChunkHashes[a]}

(* The artifacts of a setup that contain a chunk are finitely many.        *)
LEMMA FinitePins ==
    ASSUME NEW A \in SUBSET Artifact, NEW h
    PROVE  /\ IsFiniteSet({a \in A : h \in AllChunkHashes[a]})
           /\ Cardinality({a \in A : h \in AllChunkHashes[a]}) \in Nat
<1>1. {a \in A : h \in AllChunkHashes[a]} \in SUBSET Artifact
  BY Zenon
<1>2. IsFiniteSet({a \in A : h \in AllChunkHashes[a]})
  BY <1>1, FS_Subset, ManifestAssumption, Zenon
<1> QED BY <1>2, FS_CardinalityType, Zenon

(* The manifest of an artifact names chunks.                               *)
LEMMA ChunksTyped ==
    ASSUME NEW a \in Artifact
    PROVE  AllChunkHashes[a] \subseteq Hash
BY ManifestAssumption, Zenon DEF AllChunkHashes

(* The empty index is right.                                               *)
LEMMA EmptyGood == Good(EmptyIndex)
<1>1. EmptyIndex \in Index
  BY Zenon DEF EmptyIndex, ZeroMeta, Index, Meta
<1>2. ASSUME NEW h \in Hash
      PROVE  EmptyIndex.meta[h].ref = Cardinality({a \in EmptyIndex.pins : h \in AllChunkHashes[a]})
             /\ EmptyIndex.meta[h] = ZeroMeta
  <2>1. {a \in EmptyIndex.pins : h \in AllChunkHashes[a]} = {}
    BY Zenon DEF EmptyIndex
  <2>2. Cardinality({a \in EmptyIndex.pins : h \in AllChunkHashes[a]}) = 0
    BY <2>1, FS_EmptySet, Zenon
  <2> QED BY <2>2, Zenon DEF EmptyIndex, ZeroMeta
<1> QED BY <1>1, <1>2, Zenon DEF Good, RefsExact

(* Touch keeps the reference count.                                        *)
LEMMA TouchedGood ==
    ASSUME NEW i, Good(i), NEW h \in Hash, NEW s \in Nat, now \in Nat
    PROVE  /\ Good(Touched(i, h, s))
           /\ Touched(i, h, s).pins = i.pins
           /\ Touched(i, h, s).known = i.known \cup {h}
<1> DEFINE j == Touched(i, h, s)
<1>1. /\ j \in Index /\ j.pins = i.pins /\ j.known = i.known \cup {h}
      /\ \A g \in Hash : j.meta[g].ref = i.meta[g].ref /\ (g # h => j.meta[g] = i.meta[g])
  BY Zenon DEF Good, Touched, Index, Meta
<1> HIDE DEF j
<1>2. RefsExact(j)
  BY <1>1, Zenon DEF Good, RefsExact
<1> QED BY <1>1, <1>2, Zenon DEF Good, j

(* What is found on disk gets entries without references.                  *)
LEMMA ReconciledGood ==
    ASSUME NEW i, Good(i), disk \subseteq Hash, now \in Nat
    PROVE  /\ Good(Reconciled(i))
           /\ Reconciled(i).pins = i.pins
           /\ Reconciled(i).known = i.known \cup disk
<1> DEFINE j == Reconciled(i)
<1>1. /\ j.pins = i.pins /\ j.known = i.known \cup disk
      /\ j.meta = [h \in Hash |-> IF h \notin disk \ i.known THEN i.meta[h] ELSE
                      [size |-> Size[h], last |-> now, ref |-> 0]]
      /\ j = [known |-> j.known, meta |-> j.meta, pins |-> j.pins]
  <2>1. j = [known |-> i.known \cup (disk \ i.known), pins |-> i.pins,
             meta |-> [h \in Hash |-> IF h \notin disk \ i.known THEN i.meta[h] ELSE
                         [size |-> Size[h], last |-> now, ref |-> 0]]]
    BY Zenon DEF Reconciled
  <2>2. i.known \cup (disk \ i.known) = i.known \cup disk
    BY Zenon
  <2> HIDE DEF j
  <2> QED BY <2>1, <2>2, Zenon
<1> HIDE DEF j
<1>2. j.meta \in [Hash -> Meta]
  BY <1>1, SizeAssumption DEF Good, Index, Meta
<1>3. j \in Index
  BY <1>1, <1>2, Zenon DEF Good, Index
<1>4. \A h \in Hash : j.meta[h].ref = i.meta[h].ref /\ (h \notin j.known => j.meta[h] = i.meta[h])
  <2> SUFFICES ASSUME NEW h \in Hash
               PROVE  j.meta[h].ref = i.meta[h].ref /\ (h \notin j.known => j.meta[h] = i.meta[h])
    BY Zenon
  <2>1. CASE h \notin disk \ i.known
    BY <1>1, <2>1, Zenon
  <2>2. CASE h \in disk \ i.known
    <3>1. i.meta[h] = ZeroMeta
      BY <2>2, Zenon DEF Good, RefsExact
    <3>2. j.meta[h] = [size |-> Size[h], last |-> now, ref |-> 0] /\ h \in j.known
      BY <1>1, <2>2, Zenon
    <3> QED BY <3>1, <3>2 DEF ZeroMeta
  <2> QED BY <2>1, <2>2, Zenon
<1>5. RefsExact(j)
  BY <1>1, <1>4, Zenon DEF Good, RefsExact
<1> QED BY <1>1, <1>3, <1>5, Zenon DEF Good, j

(* A pin adds one reference for each artifact that was not pinned yet.     *)
LEMMA PinnedGood ==
    ASSUME NEW i, Good(i), NEW A \in SUBSET Artifact
    PROVE  /\ Good(PinnedIndex(i, A))
           /\ PinnedIndex(i, A).pins = i.pins \cup A
           /\ i.known \subseteq PinnedIndex(i, A).known
<1> DEFINE j   == PinnedIndex(i, A)
           new == A \ i.pins
           hs  == UNION {AllChunkHashes[a] : a \in new}
           more(h) == {a \in new : h \in AllChunkHashes[a]}
<1>1. /\ j.known = i.known \cup hs /\ j.pins = i.pins \cup new
      /\ j.meta = [h \in Hash |-> IF h \notin hs THEN i.meta[h] ELSE
                      [size |-> FilledSize(i, h), last |-> i.meta[h].last, ref |-> i.meta[h].ref + Cardinality(more(h))]]
      /\ j = [known |-> j.known, meta |-> j.meta, pins |-> j.pins]
  BY Zenon DEF PinnedIndex
<1>2. hs \subseteq Hash /\ new \subseteq Artifact /\ i.pins \subseteq Artifact
  BY ChunksTyped, ZenonT(30) DEF Good, Index
<1>3. \A h \in Hash : h \notin hs <=> more(h) = {}
  BY <1>2, Zenon
<1> HIDE DEF j, hs
<1>4. ASSUME NEW h \in Hash
      PROVE  /\ j.meta[h] \in Meta
             /\ j.meta[h].ref = Cardinality({a \in j.pins : h \in AllChunkHashes[a]})
             /\ h \notin j.known => j.meta[h] = ZeroMeta
  <2>1. /\ IsFiniteSet(more(h)) /\ Cardinality(more(h)) \in Nat
        /\ IsFiniteSet(Pinning(i, h)) /\ Cardinality(Pinning(i, h)) \in Nat
    BY <1>2, FinitePins, Zenon DEF Pinning
  <2>2. {a \in j.pins : h \in AllChunkHashes[a]} = Pinning(i, h) \cup more(h)
    BY <1>1, Zenon DEF Pinning
  <2>3. Pinning(i, h) \cap more(h) = {}
    BY Zenon DEF Pinning
  <2>4. i.meta[h] \in Meta /\ i.meta[h].ref = Cardinality(Pinning(i, h))
    BY Zenon DEF Good, Index, RefsExact, Pinning
  <2>5. CASE h \notin hs
    <3>1. Pinning(i, h) \cup more(h) = Pinning(i, h)
      BY <1>3, <2>5, Zenon
    <3> QED BY <1>1, <2>2, <2>4, <2>5, <3>1, Zenon DEF Good, RefsExact
  <2>6. CASE h \in hs
    <3>1. Cardinality(Pinning(i, h) \cup more(h)) = Cardinality(Pinning(i, h)) + Cardinality(more(h)) - Cardinality({})
      BY <2>1, <2>3, FS_Union, Zenon
    <3>2. Cardinality(Pinning(i, h) \cup more(h)) = Cardinality(Pinning(i, h)) + Cardinality(more(h))
      BY <2>1, <3>1, FS_EmptySet
    <3>3. FilledSize(i, h) \in Nat
      BY <2>4, SizeAssumption, Zenon DEF FilledSize, Meta
    <3>4. j.meta[h] = [size |-> FilledSize(i, h), last |-> i.meta[h].last, ref |-> i.meta[h].ref + Cardinality(more(h))]
      BY <1>1, <2>6, Zenon
    <3>5. j.meta[h] \in Meta /\ j.meta[h].ref = i.meta[h].ref + Cardinality(more(h))
      BY <2>1, <2>4, <3>3, <3>4 DEF Meta
    <3>6. h \in j.known
      BY <1>1, <2>6, Zenon
    <3> QED BY <2>2, <2>4, <3>2, <3>5, <3>6, Zenon
  <2> QED BY <2>5, <2>6, Zenon
<1>5. j \in Index
  <2>1. j.meta \in [Hash -> Meta]
    BY <1>1, <1>4, Zenon
  <2> QED BY <1>1, <1>2, <2>1, Zenon DEF Good, Index
<1>6. RefsExact(j)
  BY <1>4, Zenon DEF RefsExact
<1> QED BY <1>1, <1>5, <1>6, Zenon DEF Good, j

(* An unpin takes one reference back, if there is one.                     *)
LEMMA UnpinnedGood ==
    ASSUME NEW i, Good(i), NEW a \in Artifact
    PROVE  Good(UnpinnedIndex(i, a))
<1> DEFINE j   == UnpinnedIndex(i, a)
           hs  == IF a \in i.pins THEN AllChunkHashes[a] ELSE {}
<1>1. /\ j.known = i.known \cup hs /\ j.pins = i.pins \ {a}
      /\ j.meta = [h \in Hash |-> IF h \in hs /\ i.meta[h].ref > 0
                                  THEN [i.meta[h] EXCEPT !.ref = @ - 1] ELSE i.meta[h]]
      /\ j = [known |-> j.known, meta |-> j.meta, pins |-> j.pins]
  BY Zenon DEF UnpinnedIndex
<1>2. hs \subseteq Hash /\ i.pins \subseteq Artifact
  BY ChunksTyped, Zenon DEF Good, Index
<1> HIDE DEF j
<1>3. ASSUME NEW h \in Hash
      PROVE  /\ j.meta[h] \in Meta
             /\ j.meta[h].ref = Cardinality({b \in j.pins : h \in AllChunkHashes[b]})
             /\ h \notin j.known => j.meta[h] = ZeroMeta
  <2>1. IsFiniteSet(Pinning(i, h)) /\ Cardinality(Pinning(i, h)) \in Nat
    BY <1>2, FinitePins, Zenon DEF Pinning
  <2>2. {b \in j.pins : h \in AllChunkHashes[b]} = Pinning(i, h) \ {a}
    BY <1>1, Zenon DEF Pinning
  <2>3. i.meta[h] \in Meta /\ i.meta[h].ref = Cardinality(Pinning(i, h))
    BY Zenon DEF Good, Index, RefsExact, Pinning
  <2>4. Cardinality(Pinning(i, h) \ {a}) =
          IF a \in Pinning(i, h) THEN Cardinality(Pinning(i, h)) - 1 ELSE Cardinality(Pinning(i, h))
    BY <2>1, FS_RemoveElement, Zenon
  <2>5. a \in Pinning(i, h) <=> h \in hs
    BY Zenon DEF Pinning
  <2>6. CASE h \in hs
    <3>1. Cardinality(Pinning(i, h)) > 0
      BY <2>1, <2>5, <2>6, FS_EmptySet
    <3>2. j.meta[h] = [i.meta[h] EXCEPT !.ref = @ - 1] /\ h \in j.known
      BY <1>1, <2>3, <2>6, <3>1, Zenon
    <3>3. j.meta[h] \in Meta /\ j.meta[h].ref = i.meta[h].ref - 1
      BY <2>1, <2>3, <3>1, <3>2 DEF Meta
    <3> QED BY <2>2, <2>3, <2>4, <2>5, <2>6, <3>2, <3>3, Zenon
  <2>7. CASE h \notin hs
    <3>1. j.meta[h] = i.meta[h]
      BY <1>1, <2>7, Zenon
    <3> QED BY <1>1, <2>2, <2>3, <2>4, <2>5, <2>7, <3>1, Zenon DEF Good, RefsExact
  <2> QED BY <2>6, <2>7, Zenon
<1>4. j \in Index
  <2>1. j.meta \in [Hash -> Meta]
    BY <1>1, <1>3, Zenon
  <2> QED BY <1>1, <1>2, <2>1, Zenon DEF Good, Index
<1>5. RefsExact(j)
  BY <1>3, Zenon DEF RefsExact
<1> QED BY <1>4, <1>5, Zenon DEF Good, j

-----------------------------------------------------------------------------
(* The indexes of the next state are right if each is a right one.         *)
LEMMA Indexes ==
    ASSUME NEW i, NEW j, NEW k, Good(i), Good(j), Good(k), setup' = setup,
           idx' = i, saved' = j, cli'.idx = k
    PROVE  /\ idx' \in Index /\ saved' \in Index /\ cli'.idx \in Index
           /\ RefCountExact'
BY DEF Good, RefCountExact, RefsExact, AllChunkHashes

(* The indexes of this state are right.                                    *)
LEMMA IndexesNow ==
    ASSUME IInv
    PROVE  Good(idx) /\ Good(saved) /\ Good(cli.idx)
BY Zenon DEF IInv, Typed, RefCountExact, Good

(* Steps that leave the indexes alone.                                     *)
LEMMA IndexesSame ==
    ASSUME IInv, setup' = setup, idx' = idx, saved' = saved, cli' = cli
    PROVE  RefCountExact' /\ SavedBehind' /\ (acked' = acked => PinDurable')
<1>1. PICK i, j, k : i = idx /\ j = saved /\ k = cli.idx
  BY Zenon
<1>2. RefCountExact'
  BY <1>1, IndexesNow, Indexes, Zenon
<1>3. SavedBehind' /\ (acked' = acked => PinDurable')
  BY Zenon DEF IInv, SavedBehind, PinDurable, Tools
<1> QED BY <1>2, <1>3, Zenon

(* A chunk is renamed into place; until its hook has run it is not settled.*)
LEMMA CommitRenameInv ==
    ASSUME IInv, NEW h \in Hash, CommitRename(h), setup' = setup
    PROVE  IInv'
<1>1. Typed'
  BY SizeAssumption, Zenon DEF IInv, Typed, CommitRename, index
<1>2. RefCountExact' /\ SavedBehind' /\ PinDurable'
  BY IndexesSame, Zenon DEF CommitRename, index
<1>3. ListFree'
  BY Zenon DEF IInv, Typed, Index, ListFree, CommitRename, index
<1>4. DiskCovered'
  BY ZenonT(30) DEF IInv, Typed, DiskCovered, Settled, CommitRename, index
<1> QED BY <1>1, <1>2, <1>3, <1>4, Zenon DEF IInv

(* os.Stat after the rename.                                               *)
LEMMA CommitStatInv ==
    ASSUME IInv, NEW h \in Hash, CommitStat(h), setup' = setup
    PROVE  IInv'
<1>1. Typed'
  BY SizeAssumption, Zenon DEF IInv, Typed, CommitStat, store, index
<1>2. RefCountExact' /\ SavedBehind' /\ PinDurable'
  BY IndexesSame, Zenon DEF CommitStat, store, index
<1>3. ListFree'
  BY Zenon DEF IInv, Typed, Index, ListFree, CommitStat, store, index
<1>4. DiskCovered'
  BY Zenon DEF IInv, Typed, DiskCovered, Settled, CommitStat, store, index
<1> QED BY <1>1, <1>2, <1>3, <1>4, Zenon DEF IInv

(* The manifest of a sync is saved.                                        *)
LEMMA SaveManifestInv ==
    ASSUME IInv, NEW a \in Artifact, SaveManifest(a), setup' = setup
    PROVE  IInv'
<1>1. Typed'
  BY SizeAssumption, Zenon DEF IInv, Typed, SaveManifest, store, index
<1>2. RefCountExact' /\ SavedBehind' /\ PinDurable'
  BY IndexesSame, Zenon DEF SaveManifest, store, index
<1>3. ListFree'
  BY Zenon DEF IInv, Typed, Index, ListFree, SaveManifest, store, index
<1>4. DiskCovered'
  BY Zenon DEF IInv, Typed, DiskCovered, Settled, SaveManifest, store, index
<1> QED BY <1>1, <1>2, <1>3, <1>4, Zenon DEF IInv

(* A sync materializes.                                                    *)
LEMMA MaterializeInv ==
    ASSUME IInv, NEW a \in Artifact, Materialize(a), setup' = setup
    PROVE  IInv'
<1>1. Typed'
  BY SizeAssumption, Zenon DEF IInv, Typed, Materialize, store, index
<1>2. RefCountExact' /\ SavedBehind' /\ PinDurable'
  BY IndexesSame, Zenon DEF Materialize, store, index
<1>3. ListFree'
  BY Zenon DEF IInv, Typed, Index, ListFree, Materialize, store, index
<1>4. DiskCovered'
  BY Zenon DEF IInv, Typed, DiskCovered, Settled, Materialize, store, index
<1> QED BY <1>1, <1>2, <1>3, <1>4, Zenon DEF IInv

(* MaybeEvict below the high watermark.                                    *)
LEMMA EvictNothingInv ==
    ASSUME IInv, NEW a \in Artifact, EvictNothing(a), setup' = setup
    PROVE  IInv'
<1>1. Typed'
  BY SizeAssumption, Zenon DEF IInv, Typed, EvictNothing, store, index
<1>2. RefCountExact' /\ SavedBehind' /\ PinDurable'
  BY IndexesSame, Zenon DEF EvictNothing, store, index
<1>3. ListFree'
  BY Zenon DEF IInv, Typed, Index, ListFree, EvictNothing, store, index
<1>4. DiskCovered'
  BY Zenon DEF IInv, Typed, DiskCovered, Settled, EvictNothing, store, index
<1> QED BY <1>1, <1>2, <1>3, <1>4, Zenon DEF IInv

(* MaybeEvict collects the chunks without references.                      *)
LEMMA EvictBeginInv ==
    ASSUME IInv, EvictBegin, setup' = setup
    PROVE  IInv'
<1>1. Typed'
  BY SizeAssumption, Zenon DEF IInv, Typed, EvictBegin, store, index
<1>2. RefCountExact' /\ SavedBehind' /\ PinDurable'
  BY IndexesSame, Zenon DEF EvictBegin, store, index
<1>3. ListFree'
  BY Zenon DEF IInv, Typed, Index, ListFree, EvictBegin, store, index
<1>4. DiskCovered'
  BY Zenon DEF IInv, Typed, DiskCovered, Settled, EvictBegin, store, index
<1> QED BY <1>1, <1>2, <1>3, <1>4, Zenon DEF IInv

(* A chunk that cannot be removed is passed over.                          *)
LEMMA EvictErrorInv ==
    ASSUME IInv, NEW h \in Hash, EvictError(h), setup' = setup
    PROVE  IInv'
<1>1. Typed'
  BY SizeAssumption, Zenon DEF IInv, Typed, EvictError, Oldest, store, index
<1>2. RefCountExact' /\ SavedBehind' /\ PinDurable'
  BY IndexesSame, Zenon DEF EvictError, Oldest, store, index
<1>3. ListFree'
  BY Zenon DEF IInv, Typed, Index, ListFree, EvictError, Oldest, store, index
<1>4. DiskCovered'
  BY Zenon DEF IInv, Typed, DiskCovered, Settled, EvictError, Oldest, store, index
<1> QED BY <1>1, <1>2, <1>3, <1>4, Zenon DEF IInv

(* The clock.                                                              *)
LEMMA TickInv ==
    ASSUME IInv, Tick, setup' = setup
    PROVE  IInv'
<1>1. Typed'
  BY SizeAssumption DEF IInv, Typed, Tick, store, index
<1>2. RefCountExact' /\ SavedBehind' /\ PinDurable'
  BY IndexesSame, Zenon DEF Tick, store, index
<1>3. ListFree'
  BY Zenon DEF IInv, Typed, Index, ListFree, Tick, store, index
<1>4. DiskCovered'
  BY Zenon DEF IInv, Typed, DiskCovered, Settled, Tick, store, index
<1> QED BY <1>1, <1>2, <1>3, <1>4, Zenon DEF IInv

(* Nothing happens.                                                        *)
LEMMA IdleInv ==
    ASSUME IInv, UNCHANGED vars
    PROVE  IInv'
<1>1. Typed'
  BY SizeAssumption, Zenon DEF IInv, Typed, vars, store, index
<1>2. RefCountExact' /\ SavedBehind' /\ PinDurable'
  BY IndexesSame, Zenon DEF vars, store, index
<1>3. ListFree'
  BY Zenon DEF IInv, Typed, Index, ListFree, vars, store, index
<1>4. DiskCovered'
  BY Zenon DEF IInv, Typed, DiskCovered, Settled, vars, store, index
<1> QED BY <1>1, <1>2, <1>3, <1>4, Zenon DEF IInv

-----------------------------------------------------------------------------
(* The hook of a commit: the chunk is in the index when it settles.        *)
LEMMA TouchInv ==
    ASSUME IInv, NEW h \in Hash, Touch(h), setup' = setup
    PROVE  IInv'
<1>1. /\ ~evict.on /\ idx' = Touched(idx, h, stat[h]) /\ commit' = [commit EXCEPT ![h] = "none"]
      /\ stat' = [stat EXCEPT ![h] = 0]
      /\ UNCHANGED <<disk, manifests, saved, evict, cli, now, acked>>
  BY Zenon DEF Touch, store
<1>2. PICK i, j, k : i = idx /\ j = saved /\ k = cli.idx
  BY Zenon
<1>3. PICK s \in Nat : s = stat[h]
  BY Zenon DEF IInv, Typed
<1>4. PICK n : n = Touched(i, h, s)
  BY Zenon
<1>5. Good(n) /\ n.pins = i.pins /\ n.known = i.known \cup {h} /\ idx' = n /\ Good(j) /\ Good(k)
  BY <1>1, <1>2, <1>3, <1>4, IndexesNow, TouchedGood DEF IInv, Typed
<1>6. idx' \in Index /\ RefCountExact'
  BY <1>1, <1>2, <1>5, Indexes, Zenon
<1>7. Typed'
  BY <1>1, <1>6, Zenon DEF IInv, Typed
<1>8. ListFree'
  BY <1>1, Zenon DEF ListFree
<1>9. DiskCovered'
  BY <1>1, <1>2, <1>5, Zenon DEF IInv, Typed, DiskCovered, Settled
<1>10. SavedBehind' /\ PinDurable'
  BY <1>1, <1>2, <1>5, Zenon DEF IInv, SavedBehind, PinDurable, Tools
<1> QED BY <1>6, <1>7, <1>8, <1>9, <1>10, Zenon DEF IInv

(* A save of the index in memory, which may fail.                          *)
LEMMA SaveInv ==
    ASSUME IInv, setup' = setup, saved' \in {idx, saved}, evict' = evict \/ evict' = NoPass,
           UNCHANGED <<disk, manifests, idx, commit, stat, cli, now, acked>>
    PROVE  IInv'
<1>1. PICK i, j, k : i = idx /\ j = saved' /\ k = cli.idx
  BY Zenon
<1>2. Good(i) /\ Good(j) /\ Good(k)
  BY <1>1, IndexesNow, Zenon
<1>3. saved' \in Index /\ RefCountExact'
  BY <1>1, <1>2, Indexes, Zenon
<1>4. Typed'
  BY <1>3, Zenon DEF IInv, Typed, NoPass
<1>5. ListFree'
  BY DEF IInv, ListFree, NoPass
<1>6. DiskCovered'
  BY Zenon DEF IInv, DiskCovered, Settled
<1>7. SavedBehind' /\ PinDurable'
  BY Zenon DEF IInv, SavedBehind, PinDurable, Tools
<1> QED BY <1>3, <1>4, <1>5, <1>6, <1>7, Zenon DEF IInv

(* afterSuccessfulSync.                                                    *)
LEMMA AfterSyncInv ==
    ASSUME IInv, NEW a \in Artifact, AfterSync(a), setup' = setup
    PROVE  IInv'
<1>1. UNCHANGED <<disk, manifests, commit, stat, evict, cli, now>>
  BY Zenon DEF AfterSync, store
<1>2. CASE a \notin Configured
  <2>1. idx' = idx /\ saved' = saved /\ acked' = acked
    BY <1>2, Zenon DEF AfterSync, index
  <2> QED BY <1>1, <2>1, SaveInv, Zenon
<1>3. CASE a \in Configured
  <2>1. /\ ~evict.on /\ idx' = PinnedIndex(idx, {a}) /\ saved' \in {idx', saved}
        /\ acked' = IF saved' = idx' THEN acked \cup {a} ELSE acked
    BY <1>3, Zenon DEF AfterSync, Save
  <2>2. PICK i, k, A : i = idx /\ k = cli.idx /\ A = {a}
    BY Zenon
  <2>3. PICK n, j : n = PinnedIndex(i, A) /\ j = saved'
    BY Zenon
  <2>4. A \in SUBSET Artifact
    BY <2>2, Zenon
  <2>5. Good(n) /\ n.pins = i.pins \cup A /\ i.known \subseteq n.known /\ idx' = n
    BY <2>1, <2>2, <2>3, <2>4, IndexesNow, PinnedGood, Zenon
  <2>6. Good(j) /\ Good(k)
    BY <2>1, <2>2, <2>3, <2>5, IndexesNow, Zenon
  <2>7. idx' \in Index /\ saved' \in Index /\ RefCountExact'
    BY <1>1, <2>2, <2>3, <2>5, <2>6, Indexes, Zenon
  <2>8. Typed'
    BY <1>1, <2>7, Zenon DEF IInv, Typed
  <2>9. ListFree'
    BY <1>1, <2>1, Zenon DEF ListFree
  <2>10. DiskCovered'
    BY <1>1, <2>2, <2>5, Zenon DEF IInv, DiskCovered, Settled
  <2>11. SavedBehind' /\ PinDurable'
    BY <1>1, <2>1, <2>2, <2>5, Zenon DEF IInv, SavedBehind, PinDurable, Tools
  <2> QED BY <2>7, <2>8, <2>9, <2>10, <2>11, Zenon DEF IInv
<1> QED BY <1>2, <1>3, Zenon

(* A chunk is evicted only if nobody refers to it.                         *)
LEMMA EvictOneInv ==
    ASSUME IInv, NEW h \in Hash, EvictOne(h), setup' = setup
    PROVE  IInv'
<1>1. /\ evict.on /\ h \in evict.list /\ disk' = disk \ {h}
      /\ idx' = [idx EXCEPT !.known = @ \ {h}, !.meta[h] = ZeroMeta]
      /\ evict' = [evict EXCEPT !.used = @ - idx.meta[h].size, !.list = @ \ {h}]
      /\ UNCHANGED <<manifests, saved, commit, stat, cli, now, acked>>
  BY Zenon DEF EvictOne, Oldest
<1>2. PICK i, j, k : i = idx /\ j = saved /\ k = cli.idx
  BY Zenon
<1>3. PICK n : n = idx'
  BY Zenon
<1>4. Good(i) /\ Good(j) /\ Good(k) /\ i.meta[h].ref = 0
  BY <1>1, <1>2, IndexesNow, Zenon DEF IInv, ListFree
<1>5. /\ n \in Index /\ n.pins = i.pins /\ n.known = i.known \ {h} /\ n.meta[h] = ZeroMeta
      /\ \A g \in Hash \ {h} : n.meta[g] = i.meta[g]
  BY <1>1, <1>2, <1>3, <1>4, Zenon DEF Good, Index, Meta, ZeroMeta
<1>6. Good(n)
  <2> SUFFICES ASSUME NEW g \in Hash
               PROVE  /\ n.meta[g].ref = Cardinality({a \in n.pins : g \in AllChunkHashes[a]})
                      /\ g \notin n.known => n.meta[g] = ZeroMeta
    BY <1>5, Zenon DEF Good, RefsExact
  <2>1. n.meta[g].ref = i.meta[g].ref
    BY <1>4, <1>5 DEF ZeroMeta
  <2> QED BY <1>4, <1>5, <2>1 DEF Good, RefsExact
<1>7. idx' \in Index /\ RefCountExact'
  BY <1>1, <1>2, <1>3, <1>4, <1>6, Indexes, Zenon
<1>8. evict'.list = evict.list \ {h} /\ evict'.on = evict.on
  BY <1>1, Zenon DEF IInv, Typed
<1>9. Typed'
  <2>1. evict' = [on |-> evict'.on, used |-> evict'.used, list |-> evict'.list, failed |-> evict'.failed]
    BY <1>1, Zenon DEF IInv, Typed
  <2> QED BY <1>1, <1>7, <2>1, Zenon DEF IInv, Typed
<1>10. ListFree'
  BY <1>2, <1>3, <1>5, <1>8, ZenonT(30) DEF IInv, ListFree
<1>11. DiskCovered'
  BY <1>1, <1>2, <1>3, <1>5, Zenon DEF IInv, DiskCovered, Settled
<1>12. SavedBehind' /\ PinDurable'
  BY <1>1, <1>2, <1>3, <1>5, Zenon DEF IInv, SavedBehind, PinDurable, Tools
<1> QED BY <1>7, <1>9, <1>10, <1>11, <1>12, Zenon DEF IInv

-----------------------------------------------------------------------------
(* spiderctl changes index.json and nothing else of the node.              *)
LEMMA ToolInv ==
    ASSUME IInv, setup' = setup, Tools # {}, NEW n, Good(n), saved' = n,
           cli' \in [op: {"none", "pin", "unpin"}, artifacts: SUBSET Artifact, idx: Index],
           NEW m, Good(m), cli'.idx = m,
           UNCHANGED <<disk, manifests, idx, commit, stat, evict, now>>
    PROVE  IInv'
<1>1. PICK i : i = idx
  BY Zenon
<1>2. saved' \in Index /\ RefCountExact'
  BY <1>1, IndexesNow, Indexes, Zenon
<1>3. Typed'
  BY <1>2, Zenon DEF IInv, Typed
<1>4. ListFree' /\ DiskCovered'
  BY Zenon DEF IInv, ListFree, DiskCovered, Settled
<1>5. SavedBehind' /\ PinDurable'
  BY Zenon DEF SavedBehind, PinDurable, Tools
<1> QED BY <1>2, <1>3, <1>4, <1>5, Zenon DEF IInv

(* An idle tool has the empty index.                                       *)
LEMMA NoToolTyped ==
    /\ NoTool \in [op: {"none", "pin", "unpin"}, artifacts: SUBSET Artifact, idx: Index]
    /\ NoTool.idx = EmptyIndex /\ NoTool.op = "none"
BY EmptyGood, Zenon DEF NoTool, Good

(* NewManager of the tool loads index.json and adds what it finds on disk. *)
LEMMA ToolOpensInv ==
    ASSUME IInv, NEW op \in {"pin", "unpin"}, NEW a \in Artifact, ToolOpens(op, a), setup' = setup
    PROVE  IInv'
<1>1. /\ op \in Tools /\ cli' = [op |-> op, artifacts |-> {a}, idx |-> Reconciled(saved)]
      /\ saved' \in {Reconciled(saved), saved}
      /\ UNCHANGED <<disk, manifests, idx, commit, stat, evict, now>>
  BY Zenon DEF ToolOpens, store
<1>2. PICK j, m : j = saved /\ m = Reconciled(j)
  BY Zenon
<1>3. Good(j) /\ Good(m)
  BY <1>2, IndexesNow, ReconciledGood, Zenon DEF IInv, Typed
<1>4. /\ cli' \in [op: {"none", "pin", "unpin"}, artifacts: SUBSET Artifact, idx: Index]
      /\ cli'.idx = m
  BY <1>1, <1>2, <1>3, Zenon DEF Good
<1>5. PICK n : n = saved'
  BY Zenon
<1>6. Good(n)
  BY <1>1, <1>2, <1>3, <1>5, Zenon
<1> QED BY <1>1, <1>3, <1>4, <1>5, <1>6, ToolInv, Zenon

(* The tool saves its index, with the pin or without, or fails.            *)
LEMMA ToolEndsInv ==
    ASSUME IInv, ToolPins \/ ToolUnpins \/ ToolFails, setup' = setup
    PROVE  IInv'
<1>1. cli' = NoTool /\ cli # NoTool /\ UNCHANGED <<disk, manifests, idx, commit, stat, evict, now>>
  BY NoToolTyped, Zenon DEF ToolPins, ToolUnpins, ToolFails, store, index
<1>2. Tools # {}
  BY <1>1, Zenon DEF IInv, SavedBehind
<1>3. PICK k, n, A : k = cli.idx /\ n = saved' /\ A = cli.artifacts
  BY Zenon
<1>4. Good(k) /\ A \in SUBSET Artifact
  BY <1>3, IndexesNow, Zenon DEF IInv, Typed
<1>5. Good(n)
  <2>1. CASE ToolPins
    BY <2>1, <1>3, <1>4, PinnedGood, Zenon DEF ToolPins
  <2>2. CASE ToolUnpins
    <3>1. PICK a \in A : n = UnpinnedIndex(k, a)
      BY <2>2, <1>3, Zenon DEF ToolUnpins
    <3> QED BY <3>1, <1>4, UnpinnedGood, Zenon
  <2>3. CASE ToolFails
    BY <2>3, <1>3, IndexesNow, Zenon DEF ToolFails, index
  <2> QED BY <2>1, <2>2, <2>3, Zenon
<1>6. PICK m : m = EmptyIndex
  BY Zenon
<1>7. Good(m) /\ cli'.idx = m
  BY <1>1, <1>6, EmptyGood, NoToolTyped, Zenon
<1>8. cli' \in [op: {"none", "pin", "unpin"}, artifacts: SUBSET Artifact, idx: Index]
  BY <1>1, NoToolTyped, Zenon
<1> QED BY <1>1, <1>2, <1>3, <1>5, <1>7, <1>8, ToolInv, Zenon

(* The daemon starts again from index.json and the disk.                   *)
LEMMA RestartInv ==
    ASSUME IInv, Restart, setup' = setup
    PROVE  IInv'
<1>1. /\ idx' = PinnedIndex(Reconciled(saved), Configured \cap manifests)
      /\ saved' \in {idx', saved}
      /\ commit' = [h \in Hash |-> "none"] /\ stat' = [h \in Hash |-> 0] /\ evict' = NoPass
      /\ UNCHANGED <<disk, manifests, cli, now, acked>>
  BY Zenon DEF Restart, store
<1>2. PICK j, k, r, A : j = saved /\ k = cli.idx /\ r = Reconciled(j) /\ A = Configured \cap manifests
  BY Zenon
<1>3. PICK n : n = PinnedIndex(r, A)
  BY Zenon
<1>4. PICK s : s = saved'
  BY Zenon
<1>5. Good(j) /\ Good(k) /\ Good(r) /\ r.pins = j.pins /\ r.known = j.known \cup disk
  BY <1>2, IndexesNow, ReconciledGood, Zenon DEF IInv, Typed
<1>6. A \in SUBSET Artifact
  BY <1>2, ManifestAssumption, Zenon
<1>7. idx' = n /\ Good(n) /\ n.pins = r.pins \cup A /\ r.known \subseteq n.known
  BY <1>1, <1>2, <1>3, <1>5, <1>6, PinnedGood, Zenon
<1>8. Good(s)
  BY <1>1, <1>2, <1>4, <1>5, <1>7, Zenon
<1>9. idx' \in Index /\ saved' \in Index /\ RefCountExact'
  BY <1>1, <1>2, <1>4, <1>5, <1>7, <1>8, Indexes, Zenon
<1>10. Typed'
  BY <1>1, <1>9, Zenon DEF IInv, Typed, NoPass
<1>11. ListFree'
  BY <1>1, Zenon DEF ListFree, NoPass
<1>12. DiskCovered'
  BY <1>1, <1>5, <1>7, Zenon DEF DiskCovered, Settled
<1>13. SavedBehind' /\ PinDurable'
  BY <1>1, <1>2, <1>5, <1>7, Zenon DEF IInv, SavedBehind, PinDurable, Tools
<1> QED BY <1>9, <1>10, <1>11, <1>12, <1>13, Zenon DEF IInv

-----------------------------------------------------------------------------
(* The invariant holds at the start.                                       *)
LEMMA InitInv == Init => IInv
<1> SUFFICES ASSUME Init PROVE IInv
  BY Zenon
<1>1. idx = EmptyIndex /\ saved = EmptyIndex /\ cli = NoTool /\ disk = {} /\ acked = {}
  BY Zenon DEF Init
<1>2. Typed
  BY EmptyGood, NoToolTyped, Zenon DEF Init, Typed, Good, NoPass
<1>3. RefCountExact
  BY <1>1, EmptyGood, NoToolTyped, Zenon DEF RefCountExact, Good
<1>4. ListFree
  BY Zenon DEF Init, ListFree, NoPass
<1>5. DiskCovered /\ SavedBehind /\ PinDurable
  BY <1>1, Zenon DEF DiskCovered, Settled, SavedBehind, PinDurable
<1> QED BY <1>2, <1>3, <1>4, <1>5, Zenon DEF IInv

(* Every step keeps the invariant.                                         *)
LEMMA NextInv == IInv /\ [Next]_vars => IInv'
<1> SUFFICES ASSUME IInv, [Next]_vars PROVE IInv'
  BY Zenon
<1>1. CASE UNCHANGED vars
  BY <1>1, IdleInv, Zenon
<1>2. CASE Next
  <2>1. setup' = setup /\ Step
    BY <1>2, Zenon DEF Next
  <2>2. ASSUME NEW h \in Hash,
               \/ CommitRename(h) \/ CommitStat(h) \/ Touch(h) \/ EvictOne(h) \/ EvictError(h)
        PROVE  IInv'
    BY <2>1, <2>2, CommitRenameInv, CommitStatInv, TouchInv, EvictOneInv, EvictErrorInv, Zenon
  <2>3. ASSUME NEW a \in Artifact,
               \/ SaveManifest(a) \/ Materialize(a) \/ AfterSync(a) \/ EvictNothing(a)
               \/ \E op \in {"pin", "unpin"} : ToolOpens(op, a)
        PROVE  IInv'
    BY <2>1, <2>3, SaveManifestInv, MaterializeInv, AfterSyncInv, EvictNothingInv, ToolOpensInv, Zenon
  <2>4. CASE EvictEnd \/ Flush
    BY <2>1, <2>4, SaveInv, Zenon DEF EvictEnd, Flush, Save, store
  <2>5. CASE EvictBegin \/ ToolPins \/ ToolUnpins \/ ToolFails \/ Tick \/ Restart
    BY <2>1, <2>5, EvictBeginInv, ToolEndsInv, TickInv, RestartInv, Zenon
  <2> QED BY <2>1, <2>2, <2>3, <2>4, <2>5, Zenon DEF Step
<1> QED BY <1>1, <1>2, Zenon

(* The inductive invariant holds throughout.                               *)
LEMMA Invariance == Spec => []IInv
BY InitInv, NextInv, PTL DEF Spec

-----------------------------------------------------------------------------
(* Reference counts are exact in memory, in index.json and in the tool.    *)
THEOREM RefsCorrect == Spec => []RefCountExact
<1>1. IInv => RefCountExact
  BY Zenon DEF IInv
<1> QED BY <1>1, Invariance, PTL

(* Every settled chunk on disk is in the index, where MaybeEvict finds it. *)
THEOREM Coverage == Spec => []DiskCovered
<1>1. IInv => DiskCovered
  BY Zenon DEF IInv
<1> QED BY <1>1, Invariance, PTL

(* Without spiderctl, an acknowledged pin is in index.json for good.       *)
THEOREM Durability == Spec => []PinDurable
<1>1. IInv => PinDurable
  BY Zenon DEF IInv
<1> QED BY <1>1, Invariance, PTL

(* Only MaybeEvict deletes chunks.                                         *)
LEMMA OnlyEvictOne ==
    ASSUME [Next]_vars, NEW h \in disk \ disk'
    PROVE  EvictOne(h)
<1>1. disk' # disk
  BY Zenon
<1>2. Step
  BY <1>1, Zenon DEF Next, vars, store
<1>3. ASSUME NEW g \in Hash, CommitRename(g) \/ CommitStat(g) \/ Touch(g) \/ EvictError(g)
      PROVE  FALSE
  BY <1>3, Zenon DEF CommitRename, CommitStat, Touch, EvictError, store
<1>4. ASSUME NEW a \in Artifact,
             \/ SaveManifest(a) \/ Materialize(a) \/ AfterSync(a) \/ EvictNothing(a)
             \/ \E op \in {"pin", "unpin"} : ToolOpens(op, a)
      PROVE  FALSE
  BY <1>1, <1>4, Zenon DEF SaveManifest, Materialize, AfterSync, EvictNothing, ToolOpens, store
<1>5. CASE \/ EvictBegin \/ EvictEnd \/ Flush \/ ToolPins \/ ToolUnpins \/ ToolFails
           \/ Tick \/ Restart
  BY <1>1, <1>5, Zenon DEF EvictBegin, EvictEnd, Flush, ToolPins, ToolUnpins, ToolFails, Tick, Restart, store
<1>6. ASSUME NEW g \in Hash, EvictOne(g) PROVE g = h
  BY <1>6, Zenon DEF EvictOne
<1> QED BY <1>2, <1>3, <1>4, <1>5, <1>6, Zenon DEF Step

(* No chunk of an artifact the daemon has pinned is ever deleted.          *)
THEOREM PinsProtect == Spec => PinnedKept
<1>1. ASSUME IInv, [Next]_vars, NEW h \in disk \ disk', NEW a \in idx.pins
      PROVE  h \notin AllChunkHashes[a]
  <2>1. evict.on /\ h \in evict.list
    BY <1>1, OnlyEvictOne, Zenon DEF EvictOne, Oldest
  <2>2. h \in Hash /\ idx.meta[h].ref = 0
    BY <1>1, <2>1, Zenon DEF IInv, ListFree
  <2>3. Cardinality({b \in idx.pins : h \in AllChunkHashes[b]}) = 0
    BY <1>1, <2>2, Zenon DEF IInv, RefCountExact, RefsExact
  <2>4. idx.pins \in SUBSET Artifact
    BY <1>1, Zenon DEF IInv, Typed, Index
  <2>5. IsFiniteSet({b \in idx.pins : h \in AllChunkHashes[b]})
    BY <2>4, FinitePins, Zenon
  <2>6. {b \in idx.pins : h \in AllChunkHashes[b]} = {}
    BY <2>3, <2>5, FS_EmptySet, Zenon
  <2> QED BY <2>6, Zenon
<1>2. IInv /\ [Next]_vars =>
        [\A h \in disk \ disk', a \in idx.pins : h \notin AllChunkHashes[a]]_vars
  BY <1>1, Zenon
<1> QED BY <1>2, Invariance, PTL DEF Spec, PinnedKept

-----------------------------------------------------------------------------
(* Sums over finite sets: what MapThenSumSet computes.                     *)

(* Every set of naturals has a least element.                              *)
LEMMA Least ==
    ASSUME NEW T, T \subseteq Nat, T # {}
    PROVE  \E x \in T : \A y \in T : x <= y
<1>1. PICK x \in T : \A y \in T : ~ (<<y, x>> \in OpToRel(<, Nat))
  BY NatLessThanWellFounded, WFMin, Zenon
<1>2. \A y \in T : ~ (y < x)
  BY <1>1, Zenon DEF OpToRel
<1> QED BY <1>2

(* Induction over the naturals, with a set in place of a predicate.        *)
LEMMA Induction ==
    ASSUME NEW T, 0 \in T, \A n \in Nat : n \in T => n + 1 \in T
    PROVE  Nat \subseteq T
<1> SUFFICES ASSUME Nat \ T # {} PROVE FALSE
  BY Zenon
<1>1. PICK m \in Nat \ T : \A n \in Nat \ T : m <= n
  BY Least, Zenon
<1>2. m - 1 \in Nat /\ m - 1 \in T
  BY <1>1
<1>3. (m - 1) + 1 \in T
  BY <1>2, Zenon
<1> QED BY <1>3

(* The element that MapThenSumSet takes from a set first, and what is left.*)
First(s) == CHOOSE x \in s : TRUE
Rest(s)  == s \ {First(s)}

(* F gives the sums of f over the subsets of S, as MapThenSumSet does;     *)
(* NatSums: of natural numbers, over a finite set.                         *)
Sums(F, f, S) ==
    F = [s \in SUBSET S |-> IF s = {} THEN 0 ELSE f[First(s)] + F[Rest(s)]]

NatSums(F, f, S) ==
    IsFiniteSet(S) /\ f \in [S -> Nat] /\ F \in [SUBSET S -> Nat] /\ Sums(F, f, S)

(* The element taken first is one of the set.                              *)
LEMMA FirstIn == ASSUME NEW s, s # {} PROVE First(s) \in s
BY Zenon DEF First

(* What is left is one smaller.                                            *)
LEMMA RestSmaller ==
    ASSUME NEW s, s # {}, IsFiniteSet(s)
    PROVE  /\ IsFiniteSet(Rest(s)) /\ Cardinality(Rest(s)) = Cardinality(s) - 1
           /\ Cardinality(s) \in Nat \ {0} /\ Cardinality(Rest(s)) \in Nat
<1>1. First(s) \in s
  BY FirstIn, Zenon
<1>2. IsFiniteSet(Rest(s)) /\ Cardinality(Rest(s)) = Cardinality(s) - 1
  BY <1>1, FS_RemoveElement, Zenon DEF Rest
<1> QED BY <1>2, FS_CardinalityType, FS_EmptySet, Zenon

(* There are such sums.                                                    *)
LEMMA SumsExist ==
    ASSUME NEW S, IsFiniteSet(S), NEW f \in [S -> Nat]
    PROVE  \E F \in [SUBSET S -> Nat] : Sums(F, f, S)
<1> DEFINE Small(n) == {s \in SUBSET S : Cardinality(s) <= n}
           Upto(F, n) == /\ F \in [Small(n) -> Nat]
                         /\ \A s \in Small(n) : F[s] = IF s = {} THEN 0 ELSE f[First(s)] + F[Rest(s)]
           T == {n \in Nat : \E F : Upto(F, n)}
<1>1. \A s \in SUBSET S : IsFiniteSet(s) /\ Cardinality(s) \in Nat
  BY FS_Subset, FS_CardinalityType, Zenon
<1>2. 0 \in T
  <2>1. \A s \in Small(0) : s = {}
    BY <1>1, FS_EmptySet
  <2>2. Upto([s \in Small(0) |-> 0], 0)
    BY <2>1, Zenon
  <2> QED BY <2>2, Zenon
<1>3. ASSUME NEW n \in Nat, n \in T PROVE n + 1 \in T
  <2>1. PICK F : Upto(F, n)
    BY <1>3, Zenon
  <2> DEFINE G == [s \in Small(n + 1) |-> IF s = {} THEN 0 ELSE f[First(s)] + F[Rest(s)]]
  <2>2. ASSUME NEW s \in Small(n + 1), s # {}
        PROVE  Rest(s) \in Small(n) /\ Rest(s) \in Small(n + 1) /\ First(s) \in S
    <3>1. Cardinality(Rest(s)) = Cardinality(s) - 1 /\ Cardinality(s) \in Nat
      BY <1>1, <2>2, RestSmaller, Zenon
    <3>2. First(s) \in S /\ Rest(s) \in SUBSET S
      BY <2>2, FirstIn, Zenon DEF Rest
    <3> QED BY <3>1, <3>2
  <2>3. G \in [Small(n + 1) -> Nat]
    BY <2>1, <2>2
  <2>4. ASSUME NEW s \in Small(n) PROVE G[s] = F[s]
    <3>1. s \in Small(n + 1)
      BY <1>1
    <3> QED BY <2>1, <3>1, Zenon
  <2>5. Upto(G, n + 1)
    BY <2>2, <2>3, <2>4, Zenon
  <2> HIDE DEF G, Upto
  <2> QED BY <2>5
<1>4. Nat \subseteq T
  <2> HIDE DEF T
  <2> QED BY <1>2, <1>3, Induction, Zenon
<1>5. PICK F : Upto(F, Cardinality(S))
  BY <1>1, <1>4, Zenon
<1>6. Small(Cardinality(S)) = SUBSET S
  BY FS_Subset, Zenon
<1>7. F \in [SUBSET S -> Nat] /\ Sums(F, f, S)
  BY <1>5, <1>6, Zenon DEF Sums
<1> QED BY <1>7, Zenon

(* Sums over the same elements are the same.                               *)
LEMMA SumsAgree ==
    ASSUME NEW S, NEW R, NEW f, NEW g, NEW F, NEW G, Sums(F, f, S), Sums(G, g, R),
           NEW t \in SUBSET S, t \in SUBSET R, IsFiniteSet(t), \A x \in t : f[x] = g[x]
    PROVE  F[t] = G[t]
<1> DEFINE T == {n \in Nat : \A s \in SUBSET t : Cardinality(s) = n => F[s] = G[s]}
<1>1. \A s \in SUBSET t : IsFiniteSet(s) /\ Cardinality(s) \in Nat
  BY FS_Subset, FS_CardinalityType, Zenon
<1>2. 0 \in T
  BY <1>1, FS_EmptySet, Zenon DEF Sums
<1>3. ASSUME NEW n \in Nat, n \in T PROVE n + 1 \in T
  <2> SUFFICES ASSUME NEW s \in SUBSET t, Cardinality(s) = n + 1 PROVE F[s] = G[s]
    OBVIOUS
  <2>1. s # {} /\ IsFiniteSet(s)
    BY <1>1, FS_EmptySet
  <2>2. Rest(s) \in SUBSET t /\ Cardinality(Rest(s)) = n /\ First(s) \in t
    BY <2>1, FirstIn, RestSmaller DEF Rest
  <2>3. F[Rest(s)] = G[Rest(s)]
    BY <1>3, <2>2, Zenon
  <2>4. F[s] = f[First(s)] + F[Rest(s)] /\ G[s] = g[First(s)] + G[Rest(s)]
    BY <2>1, Zenon DEF Sums
  <2> QED BY <2>2, <2>3, <2>4, Zenon
<1>4. Nat \subseteq T
  <2> HIDE DEF T
  <2> QED BY <1>2, <1>3, Induction, Zenon
<1> QED BY <1>1, <1>4, Zenon

(* A set without one of its elements is one smaller.                       *)
LEMMA OneLess ==
    ASSUME NEW s, IsFiniteSet(s), NEW n \in Nat, Cardinality(s) = n + 1, NEW x \in s
    PROVE  Cardinality(s \ {x}) = n
<1>1. Cardinality(s \ {x}) = Cardinality(s) - 1
  BY FS_RemoveElement, Zenon
<1> QED BY <1>1

(* Any element can be taken out of a sum.                                  *)
Removes(F, f, S) == \A t \in SUBSET S : \A x \in t : F[t] = f[x] + F[t \ {x}]

LEMMA SumsRemove ==
    ASSUME NEW S, NEW f, NEW F, NatSums(F, f, S)
    PROVE  Removes(F, f, S)
<1>0. IsFiniteSet(S) /\ f \in [S -> Nat] /\ F \in [SUBSET S -> Nat] /\ Sums(F, f, S)
  BY Zenon DEF NatSums
<1> DEFINE T == {n \in Nat : \A s \in SUBSET S : Cardinality(s) = n =>
                                \A y \in s : F[s] = f[y] + F[s \ {y}]}
<1>1. \A s \in SUBSET S : IsFiniteSet(s) /\ Cardinality(s) \in Nat
  BY <1>0, FS_Subset, FS_CardinalityType, Zenon
<1>2. 0 \in T
  BY <1>1, FS_EmptySet, Zenon
<1>3. ASSUME NEW n \in Nat, n \in T PROVE n + 1 \in T
  <2> SUFFICES ASSUME NEW s \in SUBSET S, Cardinality(s) = n + 1, NEW y \in s
               PROVE  F[s] = f[y] + F[s \ {y}]
    OBVIOUS
  <2>1. PICK c, r, q, p : c \in s /\ c = First(s) /\ r = s \ {c} /\ q = s \ {y} /\ p = s \ {c, y}
    BY FirstIn, Zenon
  <2>2. F[s] = f[c] + F[r]
    BY <1>0, <2>1, Zenon DEF Sums, Rest
  <2>3. CASE y # c
    <3>1. /\ r \in SUBSET S /\ q \in SUBSET S /\ p \in SUBSET S
          /\ y \in r /\ c \in q /\ p = r \ {y} /\ p = q \ {c}
      BY <2>1, <2>3, Zenon
    <3>2. Cardinality(r) = n /\ Cardinality(q) = n
      BY <1>1, <2>1, OneLess, Zenon
    <3>3. F[r] = f[y] + F[p] /\ F[q] = f[c] + F[p]
      BY <1>3, <3>1, <3>2
    <3>4. f[c] \in Nat /\ f[y] \in Nat /\ F[p] \in Nat
      BY <1>0, <3>1, Zenon
    <3> QED BY <2>1, <2>2, <3>3, <3>4
  <2>4. CASE y = c
    BY <2>1, <2>2, <2>4, Zenon
  <2> QED BY <2>3, <2>4, Zenon
<1>4. Nat \subseteq T
  <2> HIDE DEF T
  <2> QED BY <1>2, <1>3, Induction, Zenon
<1> QED BY <1>1, <1>4, Zenon DEF Removes

(* A sum over more elements is at least as large.                          *)
LEMMA SumsGrow ==
    ASSUME NEW S, NEW f, NEW F, NatSums(F, f, S), NEW t \in SUBSET S, NEW r \in SUBSET t
    PROVE  F[r] <= F[t]
<1>a. IsFiniteSet(S) /\ f \in [S -> Nat] /\ F \in [SUBSET S -> Nat]
  BY Zenon DEF NatSums
<1>0. \A z \in SUBSET S : \A x \in z : F[z] = f[x] + F[z \ {x}]
  <2>1. Removes(F, f, S)
    BY SumsRemove, Zenon
  <2> QED BY <2>1, Zenon DEF Removes
<1> DEFINE T == {n \in Nat : \A s \in SUBSET S : r \subseteq s /\ Cardinality(s) = n => F[r] <= F[s]}
<1>1. \A s \in SUBSET S : IsFiniteSet(s) /\ Cardinality(s) \in Nat
  BY <1>a, FS_Subset, FS_CardinalityType, Zenon
<1>2. 0 \in T
  <2> SUFFICES ASSUME NEW s \in SUBSET S, r \subseteq s, Cardinality(s) = 0 PROVE F[r] <= F[s]
    BY Zenon
  <2>1. r = s
    BY <1>1, FS_EmptySet, Zenon
  <2> QED BY <1>a, <2>1
<1>3. ASSUME NEW n \in Nat, n \in T PROVE n + 1 \in T
  <2> SUFFICES ASSUME NEW s \in SUBSET S, r \subseteq s, Cardinality(s) = n + 1 PROVE F[r] <= F[s]
    OBVIOUS
  <2>1. CASE r # s
    <3>1. PICK y, q : y \in s /\ y \notin r /\ q = s \ {y}
      BY <2>1, Zenon
    <3>2. F[s] = f[y] + F[q]
      BY <1>0, <3>1, Zenon
    <3>3. q \in SUBSET S /\ r \subseteq q /\ Cardinality(q) = n
      BY <1>1, <3>1, OneLess, Zenon
    <3>4. F[r] <= F[q]
      BY <1>3, <3>3, Zenon
    <3>5. f[y] \in Nat /\ F[q] \in Nat /\ F[r] \in Nat
      BY <1>a, <3>1, <3>3, Zenon
    <3> QED BY <3>2, <3>4, <3>5
  <2> QED BY <1>a, <2>1
<1>4. Nat \subseteq T
  <2> HIDE DEF T
  <2> QED BY <1>2, <1>3, Induction, Zenon
<1> QED BY <1>1, <1>4, Zenon

SizesOf(i) == [h \in Hash |-> i.meta[h].size]

(* UsedBytes adds up the sizes in the index.                               *)
LEMMA UsedBytesSum ==
    ASSUME NEW i \in Index, NEW F, Sums(F, SizesOf(i), Hash)
    PROVE  UsedBytes(i) = F[i.known]
<1>1. i.known \in SUBSET Hash /\ IsFiniteSet(i.known) /\ SizesOf(i) \in [Hash -> Nat]
  BY FS_Subset, ManifestAssumption, Zenon DEF Index, Meta, SizesOf
<1> DEFINE f == [h \in i.known |-> SizesOf(i)[h]]
<1>2. f \in [i.known -> Nat]
  BY <1>1, Zenon
<1>3. PICK G \in [SUBSET i.known -> Nat] : Sums(G, f, i.known)
  BY <1>1, <1>2, SumsExist, Zenon
<1> DEFINE It(g) == g = [s \in SUBSET i.known |->
                           IF s = {} THEN 0 ELSE i.meta[First(s)].size + g[Rest(s)]]
<1>4. ASSUME NEW g PROVE It(g) <=> Sums(g, f, i.known)
  <2>1. ASSUME NEW s \in SUBSET i.known, s # {} PROVE f[First(s)] = i.meta[First(s)].size
    BY <1>1, <2>1, FirstIn, Zenon DEF SizesOf
  <2> QED BY <2>1, Zenon DEF Sums
<1>5. It(CHOOSE g : It(g))
  BY <1>3, <1>4, Zenon
<1>6. UsedBytes(i) = (CHOOSE g : It(g))[i.known]
  BY Zenon DEF UsedBytes, MapThenSumSet, MapThenFoldSet, First, Rest
<1> HIDE DEF It
<1>7. Sums(CHOOSE g : It(g), f, i.known)
  BY <1>4, <1>5, Zenon
<1>8. \A x \in i.known : f[x] = SizesOf(i)[x]
  BY Zenon
<1> QED BY <1>1, <1>6, <1>7, <1>8, SumsAgree

-----------------------------------------------------------------------------
(* The bytes in use.                                                       *)

(* There are sums of the sizes of an index.                                *)
LEMMA SizesSum ==
    ASSUME NEW i \in Index
    PROVE  \E F : NatSums(F, SizesOf(i), Hash)
<1>1. SizesOf(i) \in [Hash -> Nat] /\ IsFiniteSet(Hash)
  BY ManifestAssumption, Zenon DEF Index, Meta, SizesOf
<1> QED BY <1>1, SumsExist, Zenon DEF NatSums

(* Forgetting a chunk takes its size from the bytes used.                  *)
LEMMA UsedBytesWithout ==
    ASSUME NEW i \in Index, NEW j \in Index, NEW h \in i.known, j.known = i.known \ {h},
           \A g \in j.known : j.meta[g] = i.meta[g]
    PROVE  UsedBytes(j) = UsedBytes(i) - i.meta[h].size
<1>1. PICK F, G : NatSums(F, SizesOf(i), Hash) /\ NatSums(G, SizesOf(j), Hash)
  BY SizesSum, Zenon
<1>2. /\ Sums(F, SizesOf(i), Hash) /\ Sums(G, SizesOf(j), Hash)
      /\ F \in [SUBSET Hash -> Nat] /\ SizesOf(i) \in [Hash -> Nat]
  BY <1>1, Zenon DEF NatSums
<1>3. UsedBytes(i) = F[i.known] /\ UsedBytes(j) = G[j.known]
  BY <1>2, UsedBytesSum, Zenon
<1>4. i.known \in SUBSET Hash /\ j.known \in SUBSET Hash /\ IsFiniteSet(j.known)
  BY ManifestAssumption, FS_Subset, Zenon DEF Index
<1>5. F[j.known] = G[j.known]
  <2>1. \A g \in j.known : SizesOf(i)[g] = SizesOf(j)[g]
    BY <1>4, Zenon DEF SizesOf
  <2> QED BY <1>2, <1>4, <2>1, SumsAgree
<1>6. F[i.known] = SizesOf(i)[h] + F[j.known]
  <2>1. Removes(F, SizesOf(i), Hash)
    BY <1>1, SumsRemove, Zenon
  <2> QED BY <1>4, <2>1, ZenonT(30) DEF Removes
<1>7. SizesOf(i)[h] = i.meta[h].size
  BY <1>4, Zenon DEF SizesOf
<1>8. SizesOf(i)[h] \in Nat /\ F[j.known] \in Nat
  BY <1>2, <1>4, Zenon
<1> QED BY <1>3, <1>5, <1>6, <1>7, <1>8

(* A chunk is counted with its size once its commit is over.               *)
Entry(h) ==
    /\ idx.meta[h].size \in {0, Size[h]} /\ stat[h] \in {0, Size[h]}
    /\ h \in disk /\ commit[h] = "stat" => stat[h] = Size[h]
    /\ h \in disk /\ commit[h] = "none" => idx.meta[h].size = Size[h]
Accounted == Undisturbed => \A h \in Hash : Entry(h)

(* While it holds the mutex, a pass of MaybeEvict knows the bytes in use,  *)
(* and, unless it passed one over, all chunks without references.          *)
PassExact ==
    evict.on =>
        /\ evict.used = UsedBytes(idx)
        /\ evict.list \subseteq idx.known
        /\ ~evict.failed => \A h \in idx.known : idx.meta[h].ref = 0 => h \in evict.list

(* Steps that leave the disk, the commits and the index alone.             *)
LEMMA AccountedSame ==
    ASSUME Accounted, UNCHANGED <<setup, disk, idx, commit, stat>>
    PROVE  Accounted'
BY Zenon DEF Accounted, Entry, Undisturbed, Tools, Faults

(* A pin fills in a size that is missing.                                  *)
LEMMA AccountedPin ==
    ASSUME Typed, Accounted, NEW A, idx' = PinnedIndex(idx, A),
           UNCHANGED <<setup, disk, commit, stat>>
    PROVE  Accounted'
<1> SUFFICES ASSUME Undisturbed, NEW h \in Hash PROVE Entry(h)'
  BY Zenon DEF Accounted, Undisturbed, Tools, Faults
<1>1. Entry(h)
  BY Zenon DEF Accounted
<1>2. idx'.meta[h].size \in {idx.meta[h].size, FilledSize(idx, h)}
  BY Zenon DEF PinnedIndex
<1>3. idx'.meta[h].size = idx.meta[h].size \/ (idx'.meta[h].size = Size[h] /\ h \in disk /\ idx.meta[h].size = 0)
  BY <1>2, Zenon DEF FilledSize
<1> QED BY <1>1, <1>3, Zenon DEF Entry

(* The hook of a commit records the size that os.Stat returned.            *)
LEMMA AccountedTouch ==
    ASSUME Typed, Accounted, NEW h \in Hash, Touch(h), setup' = setup
    PROVE  Accounted'
<1> SUFFICES ASSUME Undisturbed, NEW g \in Hash PROVE Entry(g)'
  BY Zenon DEF Accounted, Undisturbed, Tools, Faults
<1>1. Entry(g) /\ Entry(h)
  BY Zenon DEF Accounted
<1>2. /\ idx' = Touched(idx, h, stat[h]) /\ commit' = [commit EXCEPT ![h] = "none"]
      /\ commit[h] = "stat" /\ stat' = [stat EXCEPT ![h] = 0] /\ disk' = disk
  BY Zenon DEF Touch, store
<1>3. CASE g # h
  <2>1. idx'.meta[g] = idx.meta[g]
    BY <1>2, <1>3, Zenon DEF Touched, Typed, Index
  <2> QED BY <1>1, <1>2, <1>3, <2>1, Zenon DEF Entry, Typed
<1>4. CASE g = h
  <2>1. idx'.meta[h].size = IF stat[h] > 0 THEN stat[h] ELSE idx.meta[h].size
    BY <1>2, Zenon DEF Touched, Typed, Index
  <2>2. Size[h] \in Nat /\ stat'[h] = 0 /\ commit'[h] = "none"
    BY <1>2, SizeAssumption, Zenon DEF Typed
  <2> QED BY <1>1, <1>2, <1>4, <2>1, <2>2 DEF Entry
<1> QED BY <1>3, <1>4, Zenon

(* A commit up to its hook.                                                *)
LEMMA AccountedCommit ==
    ASSUME Typed, Accounted, NEW h \in Hash, CommitRename(h) \/ CommitStat(h), setup' = setup
    PROVE  Accounted'
<1> SUFFICES ASSUME Undisturbed, NEW g \in Hash PROVE Entry(g)'
  BY Zenon DEF Accounted, Undisturbed, Tools, Faults
<1>1. Entry(g)
  BY Zenon DEF Accounted
<1>2. CASE CommitRename(h)
  BY <1>1, <1>2, Zenon DEF Entry, Typed, CommitRename, index
<1>3. CASE CommitStat(h)
  BY <1>1, <1>3, Zenon DEF Entry, Typed, CommitStat, store, index
<1> QED BY <1>2, <1>3, Zenon

(* A chunk is deleted together with its entry.                             *)
LEMMA AccountedEvict ==
    ASSUME Typed, Accounted, NEW h \in Hash, EvictOne(h), setup' = setup
    PROVE  Accounted'
<1> SUFFICES ASSUME Undisturbed, NEW g \in Hash PROVE Entry(g)'
  BY Zenon DEF Accounted, Undisturbed, Tools, Faults
<1>1. Entry(g)
  BY Zenon DEF Accounted
<1>2. /\ disk' = disk \ {h} /\ commit' = commit /\ stat' = stat
      /\ idx'.meta = [idx.meta EXCEPT ![h] = ZeroMeta]
  BY Zenon DEF EvictOne, Typed, Index
<1>3. idx'.meta[g].size = IF g = h THEN 0 ELSE idx.meta[g].size
  BY <1>2 DEF Typed, Index, ZeroMeta
<1> QED BY <1>1, <1>2, <1>3, Zenon DEF Entry

(* Every step keeps the sizes right.                                       *)
LEMMA AccountedNext ==
    ASSUME Typed, Accounted, [Next]_vars
    PROVE  Accounted'
<1>1. CASE UNCHANGED vars
  BY <1>1, AccountedSame, Zenon DEF vars, store, index
<1>2. CASE Next
  <2>0. setup' = setup /\ Step
    BY <1>2, Zenon DEF Next
  <2>1. ASSUME NEW h \in Hash, CommitRename(h) \/ CommitStat(h) PROVE Accounted'
    BY <2>0, <2>1, AccountedCommit, Zenon
  <2>2. ASSUME NEW h \in Hash, Touch(h) PROVE Accounted'
    BY <2>0, <2>2, AccountedTouch, Zenon
  <2>3. ASSUME NEW h \in Hash, EvictOne(h) PROVE Accounted'
    BY <2>0, <2>3, AccountedEvict, Zenon
  <2>4. ASSUME NEW h \in Hash, EvictError(h) PROVE Accounted'
    BY <2>0, <2>4, AccountedSame, Zenon DEF EvictError, store, index
  <2>5. ASSUME NEW a \in Artifact, SaveManifest(a) \/ Materialize(a) \/ EvictNothing(a)
        PROVE  Accounted'
    BY <2>0, <2>5, AccountedSame, Zenon DEF SaveManifest, Materialize, EvictNothing, store, index
  <2>6. ASSUME NEW a \in Artifact, AfterSync(a) PROVE Accounted'
    <3>1. UNCHANGED <<disk, commit, stat>>
      BY <2>6, Zenon DEF AfterSync, store
    <3>2. CASE a \in Configured
      <4>1. PICK A : idx' = PinnedIndex(idx, A)
        BY <2>6, <3>2, Zenon DEF AfterSync
      <4> QED BY <2>0, <3>1, <4>1, AccountedPin, Zenon
    <3>3. CASE a \notin Configured
      <4>1. idx' = idx
        BY <2>6, <3>3, Zenon DEF AfterSync, index
      <4> QED BY <2>0, <3>1, <4>1, AccountedSame, Zenon
    <3> QED BY <3>2, <3>3, Zenon
  <2>7. ASSUME NEW a \in Artifact, NEW op, ToolOpens(op, a) PROVE Accounted'
    BY <2>0, <2>7, AccountedSame, Zenon DEF ToolOpens, store
  <2>8. CASE EvictBegin \/ EvictEnd \/ Flush
    BY <2>0, <2>8, AccountedSame, Zenon DEF EvictBegin, EvictEnd, Flush, store, index
  <2>9. CASE ToolPins \/ ToolUnpins \/ ToolFails \/ Tick
    BY <2>0, <2>9, AccountedSame, Zenon DEF ToolPins, ToolUnpins, ToolFails, Tick, store, index
  <2>10. CASE Restart
    BY <2>0, <2>10, Zenon DEF Restart, Accounted, Undisturbed, Faults, Tools
  <2> QED BY <2>0, <2>1, <2>2, <2>3, <2>4, <2>5, <2>6, <2>7, <2>8, <2>9, <2>10, Zenon DEF Step
<1> QED BY <1>1, <1>2, Zenon

(* Steps outside a pass, and steps next to it.                             *)
LEMMA PassSame ==
    ASSUME PassExact, UNCHANGED <<idx, evict>> \/ ~evict'.on
    PROVE  PassExact'
<1>1. CASE ~evict'.on
  BY <1>1, Zenon DEF PassExact
<1>2. CASE UNCHANGED <<idx, evict>>
  <2>1. PICK i : i = idx
    BY Zenon
  <2>2. UsedBytes(i) = UsedBytes(idx) /\ (UsedBytes(idx))' = UsedBytes(i)
    BY <1>2, <2>1, Zenon
  <2> QED BY <1>2, <2>2, Zenon DEF PassExact
<1> QED BY <1>1, <1>2, Zenon

(* A pass deletes a chunk and subtracts its size.                          *)
LEMMA PassEvictOne ==
    ASSUME IInv, PassExact, NEW h \in Hash, EvictOne(h), setup' = setup
    PROVE  PassExact'
<1>1. PICK i, j : i = idx /\ j = [i EXCEPT !.known = @ \ {h}, !.meta[h] = ZeroMeta]
  BY Zenon
<1>2. /\ idx' = j /\ evict.on /\ h \in evict.list
      /\ evict' = [evict EXCEPT !.used = @ - idx.meta[h].size, !.list = @ \ {h}]
  BY <1>1, Zenon DEF EvictOne, Oldest
<1>3. i \in Index
  BY <1>1, Zenon DEF IInv, Typed
<1>4. j \in Index /\ j.known = i.known \ {h} /\ j.meta = [i.meta EXCEPT ![h] = ZeroMeta]
  BY <1>1, <1>3, Zenon DEF Index, Meta, ZeroMeta
<1>5. /\ evict'.on /\ evict'.used = evict.used - i.meta[h].size
      /\ evict'.list = evict.list \ {h} /\ evict'.failed = evict.failed
  BY <1>1, <1>2, Zenon DEF IInv, Typed
<1>6. \A g \in Hash : g # h => j.meta[g] = i.meta[g]
  BY <1>3, <1>4, Zenon DEF Index
<1>7. h \in i.known => UsedBytes(j) = UsedBytes(i) - i.meta[h].size
  <2> SUFFICES ASSUME h \in i.known PROVE UsedBytes(j) = UsedBytes(i) - i.meta[h].size
    BY Zenon
  <2>1. \A g \in j.known : j.meta[g] = i.meta[g]
    BY <1>3, <1>4, <1>6, Zenon DEF Index
  <2> QED BY <1>3, <1>4, <2>1, UsedBytesWithout, Zenon
<1>8. h \in i.known /\ evict.used = UsedBytes(i) /\ i.meta[h].ref = 0
  BY <1>1, <1>2, Zenon DEF IInv, ListFree, PassExact
<1>9. (UsedBytes(idx))' = UsedBytes(j)
  BY <1>2, Zenon
<1>10. evict'.list \subseteq j.known
  BY <1>1, <1>2, <1>4, <1>5, Zenon DEF PassExact
<1>11. ASSUME ~evict'.failed, NEW g \in j.known, j.meta[g].ref = 0 PROVE g \in evict'.list
  <2>1. g \in i.known /\ g # h /\ g \in Hash
    BY <1>3, <1>4, Zenon DEF Index
  <2>2. i.meta[g].ref = 0
    BY <1>6, <1>11, <2>1, Zenon
  <2> QED BY <1>1, <1>2, <1>5, <1>11, <2>1, <2>2, Zenon DEF PassExact
<1> QED BY <1>2, <1>5, <1>7, <1>8, <1>9, <1>10, <1>11, Zenon DEF PassExact

(* Every step keeps what a pass knows right.                               *)
LEMMA PassNext ==
    ASSUME IInv, PassExact, [Next]_vars
    PROVE  PassExact'
<1>1. CASE UNCHANGED vars
  BY <1>1, PassSame, Zenon DEF vars, index
<1>2. CASE Next
  <2>0. setup' = setup /\ Step
    BY <1>2, Zenon DEF Next
  <2>1. ASSUME NEW h \in Hash, CommitRename(h) \/ CommitStat(h) \/ Touch(h) PROVE PassExact'
    BY <2>1, PassSame, Zenon DEF CommitRename, CommitStat, Touch, index
  <2>2. ASSUME NEW h \in Hash, EvictOne(h) PROVE PassExact'
    BY <2>0, <2>2, PassEvictOne, Zenon
  <2>3. ASSUME NEW h \in Hash, EvictError(h) PROVE PassExact'
    <3>1. PICK i : i = idx
      BY Zenon
    <3>2. /\ idx' = i /\ evict'.on = evict.on /\ evict'.used = evict.used
          /\ evict'.list \subseteq evict.list /\ evict'.failed /\ evict.on
      BY <2>3, <3>1, Zenon DEF EvictError, Oldest, index, IInv, Typed
    <3>3. (UsedBytes(idx))' = UsedBytes(i) /\ UsedBytes(idx) = UsedBytes(i)
      BY <3>1, <3>2, Zenon
    <3> QED BY <3>1, <3>2, <3>3, Zenon DEF PassExact
  <2>4. ASSUME NEW a \in Artifact, SaveManifest(a) \/ Materialize(a) \/ EvictNothing(a)
        PROVE  PassExact'
    BY <2>4, PassSame, Zenon DEF SaveManifest, Materialize, EvictNothing, index
  <2>5. ASSUME NEW a \in Artifact, AfterSync(a) PROVE PassExact'
    BY <2>5, PassSame, Zenon DEF AfterSync, index
  <2>6. ASSUME NEW a \in Artifact, NEW op, ToolOpens(op, a) PROVE PassExact'
    BY <2>6, PassSame, Zenon DEF ToolOpens
  <2>7. CASE EvictBegin
    <3>1. PICK i : i = idx
      BY Zenon
    <3>2. /\ idx' = i /\ evict'.on /\ evict'.used = UsedBytes(idx)
          /\ evict'.list = {h \in i.known : i.meta[h].ref = 0}
      BY <2>7, <3>1, Zenon DEF EvictBegin, index
    <3>3. (UsedBytes(idx))' = UsedBytes(i) /\ UsedBytes(idx) = UsedBytes(i)
      BY <3>1, <3>2, Zenon
    <3> QED BY <3>2, <3>3, Zenon DEF PassExact
  <2>8. CASE EvictEnd \/ Flush
    BY <2>8, PassSame DEF EvictEnd, Flush, NoPass
  <2>9. CASE ToolPins \/ ToolUnpins \/ ToolFails \/ Tick
    BY <2>9, PassSame, Zenon DEF ToolPins, ToolUnpins, ToolFails, Tick, index
  <2>10. CASE Restart
    BY <2>10, PassSame, Zenon DEF Restart, NoPass
  <2> QED BY <2>0, <2>1, <2>2, <2>3, <2>4, <2>5, <2>6, <2>7, <2>8, <2>9, <2>10, Zenon DEF Step
<1> QED BY <1>1, <1>2, Zenon

(* The bytes of a set of chunks.                                           *)
LEMMA DiskBytesSum ==
    ASSUME NEW T \in SUBSET Hash, NEW F, Sums(F, Size, Hash)
    PROVE  MapThenSumSet(LAMBDA h : Size[h], T) = F[T]
<1>1. IsFiniteSet(T) /\ Size \in [Hash -> Nat]
  BY FS_Subset, ManifestAssumption, SizeAssumption, Zenon
<1> DEFINE f == [h \in T |-> Size[h]]
<1>2. f \in [T -> Nat]
  BY <1>1, Zenon
<1>3. PICK G \in [SUBSET T -> Nat] : Sums(G, f, T)
  BY <1>1, <1>2, SumsExist, Zenon
<1> DEFINE It(g) == g = [s \in SUBSET T |-> IF s = {} THEN 0 ELSE Size[First(s)] + g[Rest(s)]]
<1>4. ASSUME NEW g PROVE It(g) <=> Sums(g, f, T)
  <2>1. ASSUME NEW s \in SUBSET T, s # {} PROVE f[First(s)] = Size[First(s)]
    BY <2>1, FirstIn, Zenon
  <2> QED BY <2>1, Zenon DEF Sums
<1>5. It(CHOOSE g : It(g))
  BY <1>3, <1>4, Zenon
<1>6. MapThenSumSet(LAMBDA h : Size[h], T) = (CHOOSE g : It(g))[T]
  BY Zenon DEF MapThenSumSet, MapThenFoldSet, First, Rest
<1> HIDE DEF It
<1>7. Sums(CHOOSE g : It(g), f, T)
  BY <1>4, <1>5, Zenon
<1>8. \A x \in T : f[x] = Size[x]
  BY Zenon
<1> QED BY <1>1, <1>6, <1>7, <1>8, SumsAgree

(* What the two invariants are for.                                        *)
LEMMA AccountingImplies ==
    ASSUME IInv, Accounted, PassExact
    PROVE  DiskAccounted /\ EvictionReachesTarget
<1>1. DiskAccounted
  BY Zenon DEF DiskAccounted, IInv, Typed, DiskCovered, Accounted, Entry, Settled
<1>2. EvictionReachesTarget
  <2> SUFFICES ASSUME Undisturbed, EvictStops, ~evict.failed
               PROVE  \/ MapThenSumSet(LAMBDA h : Size[h], Settled) <= Low
                      \/ \A h \in Settled : idx.meta[h].ref > 0
    BY Zenon DEF EvictionReachesTarget
  <2>1. Settled \in SUBSET Hash /\ Settled \in SUBSET idx.known /\ idx \in Index /\ evict.on
    BY Zenon DEF IInv, Typed, DiskCovered, Settled, EvictStops
  <2>2. CASE evict.list = {}
    <3>1. \A h \in Settled : idx.meta[h].ref # 0 /\ idx.meta[h].ref \in Nat
      BY <2>1, <2>2, Zenon DEF PassExact, Index, Meta
    <3> QED BY <3>1
  <2>3. CASE evict.used <= Low
    <3>1. PICK F : NatSums(F, SizesOf(idx), Hash)
      BY <2>1, SizesSum, Zenon
    <3>2. PICK G : NatSums(G, Size, Hash)
      BY SizeAssumption, ManifestAssumption, SumsExist, Zenon DEF NatSums
    <3>3. UsedBytes(idx) = F[idx.known] /\ evict.used = F[idx.known]
      BY <2>1, <3>1, UsedBytesSum, Zenon DEF NatSums, PassExact
    <3>4. MapThenSumSet(LAMBDA h : Size[h], Settled) = G[Settled]
      BY <2>1, <3>2, DiskBytesSum, Zenon DEF NatSums
    <3>5. G[Settled] = F[Settled]
      <4>1. \A h \in Settled : Size[h] = SizesOf(idx)[h]
        BY <1>1, <2>1, Zenon DEF DiskAccounted, SizesOf
      <4>2. IsFiniteSet(Settled)
        BY <2>1, ManifestAssumption, FS_Subset, Zenon
      <4>3. Sums(F, SizesOf(idx), Hash) /\ Sums(G, Size, Hash)
        BY <3>1, <3>2, Zenon DEF NatSums
      <4>4. ASSUME NEW t \in SUBSET Hash, IsFiniteSet(t), \A h \in t : Size[h] = SizesOf(idx)[h]
            PROVE  G[t] = F[t]
        BY <4>3, <4>4, SumsAgree
      <4> QED BY <2>1, <4>1, <4>2, <4>4, Zenon
    <3>6. F[Settled] <= F[idx.known]
      <4>1. idx.known \in SUBSET Hash
        BY <2>1, Zenon DEF Index
      <4> QED BY <2>1, <3>1, <4>1, SumsGrow, Zenon
    <3>7. F[Settled] \in Nat /\ F[idx.known] \in Nat /\ Low \in Nat
      BY <2>1, <3>1, QuotaAssumption, Zenon DEF NatSums, Index
    <3> QED BY <2>3, <3>3, <3>4, <3>5, <3>6, <3>7
  <2> QED BY <2>2, <2>3, Zenon DEF EvictStops
<1> QED BY <1>1, <1>2, Zenon

(* ... and they hold throughout.                                           *)
LEMMA AccountingInvariance == Spec => [](IInv /\ Accounted /\ PassExact)
<1>1. Init => Accounted /\ PassExact
  <2>1. Init => Accounted
    BY DEF Init, Accounted, Entry, EmptyIndex, ZeroMeta
  <2>2. Init => PassExact
    BY DEF Init, PassExact, NoPass
  <2> QED BY <2>1, <2>2, Zenon
<1>2. IInv /\ Accounted /\ PassExact /\ [Next]_vars => IInv' /\ Accounted' /\ PassExact'
  <2>1. IInv => Typed
    BY Zenon DEF IInv
  <2> QED BY <2>1, NextInv, AccountedNext, PassNext, Zenon
<1> QED BY <1>1, <1>2, InitInv, PTL DEF Spec

(* On an undisturbed node the index has the size of every settled chunk.   *)
THEOREM Accounting == Spec => []DiskAccounted
<1>1. IInv /\ Accounted /\ PassExact => DiskAccounted
  BY AccountingImplies, Zenon
<1> QED BY <1>1, AccountingInvariance, PTL

(* A pass of MaybeEvict in which no delete fails ends with the disk at the *)
(* low watermark, or with nothing but pinned chunks.                       *)
THEOREM EvictionTarget == Spec => []EvictionReachesTarget
<1>1. IInv /\ Accounted /\ PassExact => EvictionReachesTarget
  BY AccountingImplies, Zenon
<1> QED BY <1>1, AccountingInvariance, PTL

=============================================================================
