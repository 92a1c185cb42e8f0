-------------------------- MODULE SyncEngineProofs --------------------------
(***************************************************************************)
(* Proofs about one sync, for any number of chunks, workers and peers, any *)
(* cap on transfers and any combination of faults: the scheduler's count   *)
(* of transfers per peer is exact, and no chunk is lost or fetched twice.  *)
(* With a reliable origin the sync does not fail, whatever peers do.       *)
(***************************************************************************)
EXTENDS SyncEngine, FiniteSetTheorems, TLAPS

-----------------------------------------------------------------------------
(* A worker has a chunk exactly while it is inside of fetchChunk, and a    *)
(* peer exactly during a transfer; it backs off only if a round is left.   *)
Local(w) ==
    /\ item[w] = None <=> pc[w] \in {"loop", "done"}
    /\ source[w] = None <=> pc[w] # "peer"
    /\ pc[w] = "backoff" => attempt[w] + 1 < RetryAttempts

Locals == \A w \in Worker : Local(w)

Users(p) == {w \in Worker : source[w] = p}

(* WorkConserved, worker by worker and chunk by chunk.                     *)
Conserved ==
    /\ \A h \in Chunk : /\ h \in pending => h \notin got /\ h \notin skipped
                        /\ h \in got => h \notin skipped
    /\ \A w \in Worker : item[w] # None => item[w] \notin pending \cup got \cup skipped
    /\ \A v, w \in Worker : v # w /\ item[v] # None => item[v] # item[w]
    /\ downloadErr = None =>
          \A h \in Chunk : h \in skipped \cup pending \cup got \/ \E w \in Worker : item[w] = h

IInv == TypeOK /\ Locals /\ InflightExact /\ Conserved

-----------------------------------------------------------------------------
(* The users of a peer are counted.                                        *)
LEMMA UsersCounted ==
    ASSUME InflightExact, NEW p \in Peer
    PROVE  /\ inflight[p] = Cardinality(Users(p)) /\ inflight[p] <= MaxInflight
           /\ IsFiniteSet(Users(p)) /\ Cardinality(Users(p)) \in Nat
<1>1. IsFiniteSet(Users(p))
  BY FS_Subset, EngineAssumption DEF Users
<1> QED BY <1>1, FS_CardinalityType DEF InflightExact, Users

(* Steps without a Begin or an End.                                        *)
LEMMA InflightSame ==
    ASSUME InflightExact, source' = source, inflight' = inflight
    PROVE  InflightExact'
BY DEF InflightExact

(* A Begin within the cap.                                                 *)
LEMMA InflightBegins ==
    ASSUME TypeOK, InflightExact, NEW w \in Worker, NEW p \in Peer,
           source[w] = None, source' = [source EXCEPT ![w] = p],
           inflight[p] < MaxInflight, inflight' = [inflight EXCEPT ![p] = @ + 1]
    PROVE  InflightExact'
<1> SUFFICES ASSUME NEW q \in Peer
             PROVE  inflight'[q] = Cardinality(Users(q)') /\ inflight'[q] <= MaxInflight
  BY DEF InflightExact, Users
<1>1. CASE q = p
  <2>1. Users(p)' = Users(p) \cup {w} /\ w \notin Users(p)
    BY EngineAssumption DEF TypeOK, Users
  <2>2. Cardinality(Users(p)') = Cardinality(Users(p)) + 1
    BY <2>1, UsersCounted, FS_AddElement
  <2> QED BY <1>1, <2>2, UsersCounted, EngineAssumption DEF TypeOK
<1>2. CASE q # p
  <2>1. Users(q)' = Users(q)
    BY <1>2, EngineAssumption DEF TypeOK, Users
  <2> QED BY <1>2, <2>1, UsersCounted DEF TypeOK
<1> QED BY <1>1, <1>2

(* An End, whatever the outcome of the transfer.                           *)
LEMMA InflightEnds ==
    ASSUME TypeOK, InflightExact, NEW w \in Worker, NEW p \in Peer,
           source[w] = p, source' = [source EXCEPT ![w] = None],
           inflight' = [inflight EXCEPT ![p] = IF @ > 0 THEN @ - 1 ELSE @]
    PROVE  InflightExact'
<1> SUFFICES ASSUME NEW q \in Peer
             PROVE  inflight'[q] = Cardinality(Users(q)') /\ inflight'[q] <= MaxInflight
  BY DEF InflightExact, Users
<1>1. CASE q = p
  <2>1. Users(p)' = Users(p) \ {w} /\ w \in Users(p)
    BY EngineAssumption DEF TypeOK, Users
  <2>2. Cardinality(Users(p)') = Cardinality(Users(p)) - 1 /\ IsFiniteSet(Users(p)')
    BY <2>1, UsersCounted, FS_RemoveElement
  <2>3. Cardinality(Users(p)') \in Nat
    BY <2>2, FS_CardinalityType
  <2>4. inflight[p] > 0
    BY <2>2, <2>3, UsersCounted
  <2> QED BY <1>1, <2>2, <2>4, UsersCounted, EngineAssumption DEF TypeOK
<1>2. CASE q # p
  <2>1. Users(q)' = Users(q)
    BY <1>2, EngineAssumption DEF TypeOK, Users
  <2> QED BY <1>2, <2>1, UsersCounted DEF TypeOK
<1> QED BY <1>1, <1>2

(* A worker that ends with an error.                                       *)
LEMMA StoreErrorInv ==
    ASSUME IInv, NEW w \in Worker, NEW type \in {"plain", "wrap"}, StoreError(w, type), pc[w] # "peer",
           UNCHANGED <<disk, locs, work, stats>>, poisoned' \subseteq poisoned
    PROVE  IInv'
<1>1. TypeOK'
  BY EngineAssumption DEF IInv, Locals, Local, TypeOK, PC, StoreError, Goto, work, local, stats, job
<1>2. Locals'
  BY EngineAssumption DEF IInv, TypeOK, Locals, Local, StoreError, Goto, work, local, stats, job
<1>3. InflightExact'
  BY InflightSame DEF IInv, StoreError, Goto, work, local, stats, job
<1>4. Conserved'
  BY EngineAssumption DEF IInv, TypeOK, Locals, Local, Conserved, StoreError, Goto, work, local, stats, job
<1> QED BY <1>1, <1>2, <1>3, <1>4 DEF IInv

(* A worker that finds the queue empty or the sync failed.                 *)
LEMMA LoopEndsInv ==
    ASSUME IInv, NEW w \in Worker, LoopEnds(w)
    PROVE  IInv'
<1>1. TypeOK'
  BY EngineAssumption DEF IInv, Locals, Local, TypeOK, PC, LoopEnds, Goto, work, local, stats, job
<1>2. Locals'
  BY EngineAssumption DEF IInv, TypeOK, Locals, Local, LoopEnds, Goto, work, local, stats, job
<1>3. InflightExact'
  BY InflightSame DEF IInv, LoopEnds, Goto, work, local, stats, job
<1>4. Conserved'
  BY EngineAssumption DEF IInv, TypeOK, Locals, Local, Conserved, LoopEnds, Goto, work, local, stats, job
<1> QED BY <1>1, <1>2, <1>3, <1>4 DEF IInv

(* pendingQueue.next moves a chunk from the queue to one worker.           *)
LEMMA TakeInv ==
    ASSUME IInv, NEW w \in Worker, Take(w)
    PROVE  IInv'
<1>1. TypeOK'
  BY EngineAssumption DEF IInv, Locals, Local, TypeOK, PC, Take, Goto, work, local, stats, job
<1>2. Locals'
  BY EngineAssumption DEF IInv, TypeOK, Locals, Local, Take, Goto, work, local, stats, job
<1>3. InflightExact'
  BY InflightSame DEF IInv, Take, Goto, work, local, stats, job
<1>4. Conserved'
  BY EngineAssumption DEF IInv, TypeOK, Locals, Local, Conserved, Take, Goto, work, local, stats, job
<1> QED BY <1>1, <1>2, <1>3, <1>4 DEF IInv

(* RankPeers.                                                              *)
LEMMA RankPeersInv ==
    ASSUME IInv, NEW w \in Worker, RankPeers(w)
    PROVE  IInv'
<1>1. TypeOK'
  BY EngineAssumption DEF IInv, Locals, Local, TypeOK, PC, RankPeers, Goto, work, local, stats, job
<1>2. Locals'
  BY EngineAssumption DEF IInv, TypeOK, Locals, Local, RankPeers, Goto, work, local, stats, job
<1>3. InflightExact'
  BY InflightSame DEF IInv, RankPeers, Goto, work, local, stats, job
<1>4. Conserved'
  BY EngineAssumption DEF IInv, TypeOK, Locals, Local, Conserved, RankPeers, Goto, work, local, stats, job
<1> QED BY <1>1, <1>2, <1>3, <1>4 DEF IInv

(* A peer that is passed over.                                             *)
LEMMA SkipInv ==
    ASSUME IInv, NEW w \in Worker, Skip(w)
    PROVE  IInv'
<1>1. TypeOK'
  BY EngineAssumption DEF IInv, Locals, Local, TypeOK, PC, Skip, Goto, work, local, stats, job
<1>2. Locals'
  BY EngineAssumption DEF IInv, TypeOK, Locals, Local, Skip, Goto, work, local, stats, job
<1>3. InflightExact'
  BY InflightSame DEF IInv, Skip, Goto, work, local, stats, job
<1>4. Conserved'
  BY EngineAssumption DEF IInv, TypeOK, Locals, Local, Conserved, Skip, Goto, work, local, stats, job
<1> QED BY <1>1, <1>2, <1>3, <1>4 DEF IInv

(* Scheduler.Begin.                                                        *)
LEMMA BeginInv ==
    ASSUME IInv, NEW w \in Worker, Begin(w)
    PROVE  IInv'
<1>1. TypeOK'
  BY EngineAssumption DEF IInv, Locals, Local, TypeOK, PC, Begin, Goto, work, local, stats, job
<1>2. Locals'
  BY EngineAssumption DEF IInv, TypeOK, Locals, Local, Begin, Goto, work, local, stats, job
<1>3. InflightExact'
  <2>1. PICK p \in candidates[w] :
            /\ inflight[p] < MaxInflight
            /\ source' = [source EXCEPT ![w] = p]
            /\ inflight' = [inflight EXCEPT ![p] = @ + 1]
    BY DEF Begin
  <2>2. p \in Peer /\ source[w] = None
    BY DEF IInv, TypeOK, Locals, Local, Begin
  <2> QED BY <2>1, <2>2, InflightBegins DEF IInv
<1>4. Conserved'
  BY EngineAssumption DEF IInv, TypeOK, Locals, Local, Conserved, Begin, Goto, work, local, stats, job
<1> QED BY <1>1, <1>2, <1>3, <1>4 DEF IInv

(* Scheduler.End after a failure.                                          *)
LEMMA EndFailedInv ==
    ASSUME IInv, NEW w \in Worker, EndFailed(w), pc[w] = "peer", disk' = disk, poisoned' \subseteq poisoned \cup {item[w]}
    PROVE  IInv'
<1>1. TypeOK'
  BY EngineAssumption DEF IInv, Locals, Local, TypeOK, PC, EndFailed, Goto, work, local, stats, job
<1>2. Locals'
  BY EngineAssumption DEF IInv, TypeOK, Locals, Local, EndFailed, Goto, work, local, stats, job
<1>3. InflightExact'
  <2>1. PICK p \in Peer : source[w] = p
    BY DEF IInv, TypeOK, Locals, Local, EndFailed
  <2>2. /\ source' = [source EXCEPT ![w] = None]
        /\ inflight' = [inflight EXCEPT ![p] = IF @ > 0 THEN @ - 1 ELSE @]
    BY <2>1 DEF EndFailed
  <2> QED BY <2>1, <2>2, InflightEnds DEF IInv
<1>4. Conserved'
  BY EngineAssumption DEF IInv, TypeOK, Locals, Local, Conserved, EndFailed, Goto, work, local, stats, job
<1> QED BY <1>1, <1>2, <1>3, <1>4 DEF IInv

(* Scheduler.End after a success.                                          *)
LEMMA PeerServesInv ==
    ASSUME IInv, NEW w \in Worker, PeerServes(w)
    PROVE  IInv'
<1>1. TypeOK'
  BY EngineAssumption DEF IInv, Locals, Local, TypeOK, PC, PeerServes, Fetched, Goto, work, local, stats, job
<1>2. Locals'
  BY EngineAssumption DEF IInv, TypeOK, Locals, Local, PeerServes, Fetched, Goto, work, local, stats, job
<1>3. InflightExact'
  <2>1. PICK p \in Peer : source[w] = p
    BY DEF IInv, TypeOK, Locals, Local, PeerServes
  <2>2. /\ source' = [source EXCEPT ![w] = None]
        /\ inflight' = [inflight EXCEPT ![p] = IF @ > 0 THEN @ - 1 ELSE @]
    BY <2>1 DEF PeerServes, Fetched
  <2> QED BY <2>1, <2>2, InflightEnds DEF IInv
<1>4. Conserved'
  BY EngineAssumption DEF IInv, TypeOK, Locals, Local, Conserved, PeerServes, Fetched, Goto, work, local, stats, job
<1> QED BY <1>1, <1>2, <1>3, <1>4 DEF IInv

(* The end of a round.                                                     *)
LEMMA RoundEndsInv ==
    ASSUME IInv, NEW w \in Worker, RoundEnds(w)
    PROVE  IInv'
<1>1. TypeOK'
  BY EngineAssumption DEF IInv, Locals, Local, TypeOK, PC, RoundEnds, Goto, work, local, stats, job
<1>2. Locals'
  BY EngineAssumption DEF IInv, TypeOK, Locals, Local, RoundEnds, Goto, work, local, stats, job
<1>3. InflightExact'
  BY InflightSame DEF IInv, RoundEnds, Goto, work, local, stats, job
<1>4. Conserved'
  BY EngineAssumption DEF IInv, TypeOK, Locals, Local, Conserved, RoundEnds, Goto, work, local, stats, job
<1> QED BY <1>1, <1>2, <1>3, <1>4 DEF IInv

(* The next round.                                                         *)
LEMMA BackoffEndsInv ==
    ASSUME IInv, NEW w \in Worker, BackoffEnds(w)
    PROVE  IInv'
<1>1. TypeOK'
  BY EngineAssumption DEF IInv, Locals, Local, TypeOK, PC, BackoffEnds, Goto, work, local, stats, job
<1>2. Locals'
  BY EngineAssumption DEF IInv, TypeOK, Locals, Local, BackoffEnds, Goto, work, local, stats, job
<1>3. InflightExact'
  BY InflightSame DEF IInv, BackoffEnds, Goto, work, local, stats, job
<1>4. Conserved'
  BY EngineAssumption DEF IInv, TypeOK, Locals, Local, Conserved, BackoffEnds, Goto, work, local, stats, job
<1> QED BY <1>1, <1>2, <1>3, <1>4 DEF IInv

(* The origin serves a chunk.                                              *)
LEMMA OriginServesInv ==
    ASSUME IInv, NEW w \in Worker, OriginServes(w)
    PROVE  IInv'
<1>1. TypeOK'
  BY EngineAssumption DEF IInv, Locals, Local, TypeOK, PC, OriginServes, Fetched, Goto, work, local, stats, job
<1>2. Locals'
  BY EngineAssumption DEF IInv, TypeOK, Locals, Local, OriginServes, Fetched, Goto, work, local, stats, job
<1>3. InflightExact'
  BY DEF IInv, TypeOK, Locals, Local, InflightExact, OriginServes, Fetched, Goto, work, local, stats, job
<1>4. Conserved'
  BY EngineAssumption DEF IInv, TypeOK, Locals, Local, Conserved, OriginServes, Fetched, Goto, work, local, stats, job
<1> QED BY <1>1, <1>2, <1>3, <1>4 DEF IInv

(* The end of the sync.                                                    *)
LEMMA FinishInv ==
    ASSUME IInv, Finish
    PROVE  IInv'
<1>1. TypeOK'
  BY EngineAssumption DEF IInv, Locals, Local, TypeOK, PC, Finish, DownloadFailed, MaterializeChunk, MaterializeFails, Complete, work, local, stats, job
<1>2. Locals'
  BY EngineAssumption DEF IInv, TypeOK, Locals, Local, Finish, DownloadFailed, MaterializeChunk, MaterializeFails, Complete, work, local, stats, job
<1>3. InflightExact'
  BY InflightSame DEF IInv, Finish, DownloadFailed, MaterializeChunk, MaterializeFails, Complete, work, local, stats, job
<1>4. Conserved'
  BY EngineAssumption DEF IInv, TypeOK, Locals, Local, Conserved, Finish, DownloadFailed, MaterializeChunk, MaterializeFails, Complete, work, local, stats, job
<1> QED BY <1>1, <1>2, <1>3, <1>4 DEF IInv

(* refreshLocations.                                                       *)
LEMMA RefreshInv ==
    ASSUME IInv, NEW h \in Chunk, Refresh(h)
    PROVE  IInv'
<1>1. TypeOK'
  BY EngineAssumption DEF IInv, Locals, Local, TypeOK, PC, Refresh, work, local, stats, job
<1>2. Locals'
  BY EngineAssumption DEF IInv, TypeOK, Locals, Local, Refresh, work, local, stats, job
<1>3. InflightExact'
  BY InflightSame DEF IInv, Refresh, work, local, stats, job
<1>4. Conserved'
  BY EngineAssumption DEF IInv, TypeOK, Locals, Local, Conserved, Refresh, work, local, stats, job
<1> QED BY <1>1, <1>2, <1>3, <1>4 DEF IInv

(* A breaker whose time is over.                                           *)
LEMMA ExpireInv ==
    ASSUME IInv, NEW p \in Peer, Expire(p)
    PROVE  IInv'
<1>1. TypeOK'
  BY EngineAssumption DEF IInv, Locals, Local, TypeOK, PC, Expire, work, local, stats, job
<1>2. Locals'
  BY EngineAssumption DEF IInv, TypeOK, Locals, Local, Expire, work, local, stats, job
<1>3. InflightExact'
  BY InflightSame DEF IInv, Expire, work, local, stats, job
<1>4. Conserved'
  BY EngineAssumption DEF IInv, TypeOK, Locals, Local, Conserved, Expire, work, local, stats, job
<1> QED BY <1>1, <1>2, <1>3, <1>4 DEF IInv

(* The quota manager takes a chunk away.                                   *)
LEMMA EvictInv ==
    ASSUME IInv, NEW h \in Chunk, Evict(h)
    PROVE  IInv'
<1>1. TypeOK'
  BY EngineAssumption DEF IInv, Locals, Local, TypeOK, PC, Evict, work, local, stats, job
<1>2. Locals'
  BY EngineAssumption DEF IInv, TypeOK, Locals, Local, Evict, work, local, stats, job
<1>3. InflightExact'
  BY InflightSame DEF IInv, Evict, work, local, stats, job
<1>4. Conserved'
  BY EngineAssumption DEF IInv, TypeOK, Locals, Local, Conserved, Evict, work, local, stats, job
<1> QED BY <1>1, <1>2, <1>3, <1>4 DEF IInv

(* The context of the sync is cancelled.                                   *)
LEMMA CancelInv ==
    ASSUME IInv, Cancel
    PROVE  IInv'
<1>1. TypeOK'
  BY EngineAssumption DEF IInv, Locals, Local, TypeOK, PC, Cancel, work, local, stats, job
<1>2. Locals'
  BY EngineAssumption DEF IInv, TypeOK, Locals, Local, Cancel, work, local, stats, job
<1>3. InflightExact'
  BY InflightSame DEF IInv, Cancel, work, local, stats, job
<1>4. Conserved'
  BY EngineAssumption DEF IInv, TypeOK, Locals, Local, Conserved, Cancel, work, local, stats, job
<1> QED BY <1>1, <1>2, <1>3, <1>4 DEF IInv

(* Nothing happens.                                                        *)
LEMMA IdleInv ==
    ASSUME IInv, UNCHANGED vars
    PROVE  IInv'
<1>1. TypeOK'
  BY EngineAssumption DEF IInv, Locals, Local, TypeOK, PC, vars, work, local, stats, job
<1>2. Locals'
  BY EngineAssumption DEF IInv, TypeOK, Locals, Local, vars, work, local, stats, job
<1>3. InflightExact'
  BY InflightSame DEF IInv, vars, work, local, stats, job
<1>4. Conserved'
  BY EngineAssumption DEF IInv, TypeOK, Locals, Local, Conserved, vars, work, local, stats, job
<1> QED BY <1>1, <1>2, <1>3, <1>4 DEF IInv

-----------------------------------------------------------------------------
(* The invariant holds at the start.                                       *)
LEMMA InitInv == Init => IInv
<1> SUFFICES ASSUME Init PROVE IInv
  OBVIOUS
<1>1. TypeOK
  <2>1. hasOrigin \in BOOLEAN
    BY EngineAssumption DEF Init
  <2>2. pc \in [Worker -> PC]
    BY DEF Init, PC
  <2>3. attempt \in [Worker -> 0..(RetryAttempts - 1)] /\ failures \in [Peer -> 0..UntrustedAfter]
    BY EngineAssumption DEF Init
  <2> QED BY <2>1, <2>2, <2>3 DEF Init, TypeOK
<1>2. Locals
  BY EngineAssumption DEF Init, Locals, Local
<1>3. InflightExact
  <2> SUFFICES ASSUME NEW p \in Peer
               PROVE  inflight[p] = Cardinality({w \in Worker : source[w] = p})
                      /\ inflight[p] <= MaxInflight
    BY DEF InflightExact
  <2>1. {w \in Worker : source[w] = p} = {}
    BY EngineAssumption DEF Init
  <2>2. Cardinality({w \in Worker : source[w] = p}) = 0
    BY <2>1, FS_EmptySet
  <2>3. inflight[p] = 0 /\ 0 <= MaxInflight
    BY EngineAssumption DEF Init
  <2> QED BY <2>2, <2>3
<1>4. Conserved
  BY EngineAssumption DEF Init, Conserved
<1> QED BY <1>1, <1>2, <1>3, <1>4 DEF IInv

(* The steps of a worker keep the invariant.                               *)
LEMMA StepInv ==
    ASSUME IInv, NEW w \in Worker, Step(w)
    PROVE  IInv'
<1>1. CASE LoopCancelled(w)
  BY <1>1, StoreErrorInv DEF LoopCancelled
<1>2. CASE WaitCancelled(w)
  BY <1>2, StoreErrorInv DEF WaitCancelled
<1>3. CASE NoOrigin(w)
  BY <1>3, StoreErrorInv DEF NoOrigin
<1>4. CASE OriginFails(w)
  BY <1>4, StoreErrorInv DEF OriginFails
<1>5. CASE OriginMismatch(w)
  BY <1>5, StoreErrorInv DEF OriginMismatch
<1>6. CASE PeerRefuses(w)
  BY <1>6, EndFailedInv DEF PeerRefuses
<1>7. CASE PeerCut(w)
  BY <1>7, EndFailedInv DEF PeerCut
<1>8. CASE PeerMismatch(w)
  BY <1>8, EndFailedInv DEF PeerMismatch
<1> QED BY <1>1, <1>2, <1>3, <1>4, <1>5, <1>6, <1>7, <1>8, LoopEndsInv, TakeInv, RankPeersInv,
           SkipInv, BeginInv, PeerServesInv, RoundEndsInv, BackoffEndsInv, OriginServesInv DEF Step

(* Every step keeps the invariant.                                         *)
LEMMA NextInv == IInv /\ [Next]_vars => IInv'
<1> SUFFICES ASSUME IInv, [Next]_vars PROVE IInv'
  OBVIOUS
<1>1. CASE UNCHANGED vars
  BY <1>1, IdleInv
<1>2. CASE Next
  BY <1>1, <1>2, StepInv, FinishInv, RefreshInv, EvictInv, ExpireInv, CancelInv DEF Next, Returned
<1> QED BY <1>1, <1>2

(* The inductive invariant holds throughout.                               *)
LEMMA Invariance == Spec => []IInv
BY InitInv, NextInv, PTL DEF Spec

-----------------------------------------------------------------------------
(* The state of a sync has its types: no attempt is made beyond            *)
(* retry.maxAttempts.                                                      *)
THEOREM TypeCorrect == Spec => []TypeOK
<1>1. IInv => TypeOK
  BY DEF IInv
<1> QED BY <1>1, Invariance, PTL

(* The scheduler counts the transfers from each peer exactly, and keeps    *)
(* them within the cap.                                                    *)
THEOREM InflightCorrect == Spec => []InflightExact
<1>1. IInv => InflightExact
  BY DEF IInv
<1> QED BY <1>1, Invariance, PTL

(* Until the sync gives up, every chunk is skipped, in the queue, with one *)
(* worker or fetched, and in one of these places only.                     *)
THEOREM NoChunkLost == Spec => []WorkConserved
<1>1. IInv => WorkConserved
  <2> SUFFICES ASSUME IInv PROVE WorkConserved
    OBVIOUS
  <2>1. \A h \in Held : \E w \in Worker : item[w] = h /\ item[w] # None
    BY DEF Held
  <2>2. \A w \in Worker : item[w] # None => item[w] \in Held
    BY DEF Held
  <2>3. Held \subseteq Chunk
    BY <2>1 DEF IInv, TypeOK
  <2>4. pending \cap got = {} /\ Held \cap (pending \cup got) = {}
    BY <2>1 DEF IInv, TypeOK, Conserved
  <2>5. skipped \cap (pending \cup got \cup Held) = {}
    BY <2>1 DEF IInv, TypeOK, Conserved
  <2>6. downloadErr = None => Chunk = skipped \cup pending \cup got \cup Held
    <3> SUFFICES ASSUME downloadErr = None PROVE Chunk = skipped \cup pending \cup got \cup Held
      OBVIOUS
    <3>1. \A h \in Chunk : h \in skipped \cup pending \cup got \cup Held
      BY <2>2, EngineAssumption DEF IInv, Conserved
    <3> QED BY <2>3, <3>1 DEF IInv, TypeOK
  <2> QED BY <2>4, <2>5, <2>6 DEF IInv, Conserved, WorkConserved
<1> QED BY <1>1, Invariance, PTL

-----------------------------------------------------------------------------
(* The conditions under which a sync with an origin must not fail: the     *)
(* origin serves, the caller waits, no chunk is evicted, and a transfer    *)
(* that is cut leaves bytes of the chunk.  Peers may refuse, lie and be    *)
(* refreshed away.                                                         *)
OriginReliable ==
    /\ Faults \cap {"origin", "cancel", "evict"} = {}
    /\ "cut" \in Faults => BadPeers = {}

(* Nothing is poisoned, what was fetched is on disk, a worker ends only    *)
(* when the queue is empty, and no worker stores an error.                 *)
Calm ==
    /\ poisoned = {} /\ ~cancelled
    /\ skipped \cup got \subseteq disk
    /\ downloadErr = None => \A w \in Worker : pc[w] = "done" => pending = {}
    /\ hasOrigin => downloadErr = None /\ status # "FAILED"

(* A worker that gives up for want of an origin.                           *)
LEMMA CalmNoOrigin ==
    ASSUME TypeOK, Calm, NEW w \in Worker, NoOrigin(w)
    PROVE  Calm'
<1>1. /\ ~hasOrigin /\ UNCHANGED <<disk, poisoned, pending, got, skipped, cancelled, hasOrigin>>
      /\ downloadErr' # None
  BY EngineAssumption DEF NoOrigin, StoreError, work, TypeOK
<1> QED BY <1>1 DEF Calm

(* A chunk is fetched and committed.                                       *)
LEMMA CalmFetched ==
    ASSUME TypeOK, Calm, NEW w \in Worker, Fetched(w)
    PROVE  Calm'
BY DEF Calm, TypeOK, Fetched, Goto, job

(* A transfer from a peer fails; without poison the partial stays clean.   *)
LEMMA CalmEndFailed ==
    ASSUME TypeOK, Calm, NEW w \in Worker, EndFailed(w), disk' = disk, poisoned' = {}
    PROVE  Calm'
BY DEF Calm, TypeOK, EndFailed, Goto, work, job

(* The steps of a worker.                                                  *)
LEMMA CalmStep ==
    ASSUME OriginReliable, TypeOK, Calm, NEW w \in Worker, Step(w)
    PROVE  Calm'
<1>1. ~(LoopCancelled(w) \/ WaitCancelled(w) \/ OriginFails(w) \/ OriginMismatch(w))
  BY DEF Calm, OriginReliable, LoopCancelled, WaitCancelled, OriginFails, OriginMismatch
<1>2. CASE LoopEnds(w)
  BY <1>2 DEF Calm, TypeOK, LoopEnds, Goto, work, job
<1>3. CASE Take(w)
  BY <1>3 DEF Calm, TypeOK, Take, Goto, job
<1>4. CASE RankPeers(w) \/ Skip(w) \/ Begin(w)
  <2>1. CASE RankPeers(w)
    BY <2>1 DEF Calm, TypeOK, RankPeers, Goto, work, job
  <2>2. CASE Skip(w)
    BY <2>2 DEF Calm, TypeOK, Skip, Goto, work, job
  <2>3. CASE Begin(w)
    BY <2>3 DEF Calm, TypeOK, Begin, Goto, work, job
  <2> QED BY <1>4, <2>1, <2>2, <2>3, Zenon
<1>5. CASE PeerServes(w) \/ OriginServes(w)
  BY <1>5, CalmFetched DEF PeerServes, OriginServes
<1>6. CASE PeerRefuses(w)
  BY <1>6, CalmEndFailed DEF PeerRefuses, Calm
<1>7. CASE PeerCut(w)
  BY <1>7, CalmEndFailed DEF PeerCut, Calm, OriginReliable
<1>8. CASE PeerMismatch(w)
  BY <1>8, CalmEndFailed DEF PeerMismatch, Calm
<1>9. CASE RoundEnds(w) \/ BackoffEnds(w)
  BY <1>9 DEF Calm, TypeOK, RoundEnds, BackoffEnds, Goto, work, job
<1>10. CASE NoOrigin(w)
  BY <1>10, CalmNoOrigin
<1> QED BY <1>1, <1>2, <1>3, <1>4, <1>5, <1>6, <1>7, <1>8, <1>9, <1>10 DEF Step

(* When the workers are done without an error, every chunk is on disk.     *)
LEMMA AllOnDisk ==
    ASSUME IInv, Calm, AllDone, downloadErr = None
    PROVE  Chunk \subseteq disk
<1>1. pending = {}
  BY EngineAssumption DEF Calm, AllDone
<1>2. \A w \in Worker : item[w] = None
  BY DEF IInv, Locals, Local, AllDone
<1> QED BY <1>1, <1>2, EngineAssumption DEF IInv, Conserved, Calm

(* The end of the sync.                                                    *)
LEMMA CalmFinish ==
    ASSUME IInv, Calm, Finish
    PROVE  Calm'
<1>1. CASE DownloadFailed
  BY <1>1 DEF Calm, DownloadFailed, work, local
<1>2. CASE MaterializeChunk \/ Complete
  BY <1>2 DEF Calm, MaterializeChunk, Complete, work, local
<1>3. CASE MaterializeFails
  BY <1>3, AllOnDisk DEF Calm, MaterializeFails
<1> QED BY <1>1, <1>2, <1>3 DEF Finish

(* Every step keeps the invariant.                                         *)
LEMMA CalmNext ==
    ASSUME OriginReliable, IInv, Calm, [Next]_vars
    PROVE  Calm'
<1>1. TypeOK
  BY DEF IInv
<1>2. CASE UNCHANGED vars
  BY <1>2 DEF Calm, vars, work, local, job
<1>3. CASE \E w \in Worker : Step(w)
  BY <1>1, <1>3, CalmStep
<1>4. CASE Finish
  BY <1>4, CalmFinish
<1>5. ASSUME NEW h \in Chunk, Refresh(h) PROVE Calm'
  BY <1>5 DEF Calm, Refresh, work, local, job
<1>6. ASSUME NEW p \in Peer, Expire(p) PROVE Calm'
  BY <1>6 DEF Calm, Expire, work, local, job
<1>7. ~Cancel /\ \A h \in Chunk : ~Evict(h)
  BY DEF OriginReliable, Cancel, Evict
<1> QED BY <1>2, <1>3, <1>4, <1>5, <1>6, <1>7 DEF Next, Returned

(* Whatever peers do, a sync with an origin that serves does not fail.     *)
THEOREM OriginSaves ==
    ASSUME OriginReliable
    PROVE  Spec => []FallbackSucceeds
<1>1. Init => Calm
  BY DEF Init, Calm
<1>2. IInv /\ Calm /\ [Next]_vars => Calm'
  BY CalmNext
<1>3. Calm => FallbackSucceeds
  BY DEF Calm, FallbackSucceeds
<1> QED BY <1>1, <1>2, <1>3, Invariance, PTL DEF Spec

=============================================================================
