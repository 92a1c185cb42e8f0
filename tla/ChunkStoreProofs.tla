-------------------------- MODULE ChunkStoreProofs --------------------------
(* Proofs about ChunkStore, for every set of hashes, threads and sources.  *)
EXTENDS ChunkStore, FiniteSetTheorems, TLAPS

(* The empty store.                                                        *)
LEMMA InitIntegrity == Init => IntegrityInv
  BY ContentAssumption, SentinelAssumption
  DEF Init, IntegrityInv, TypeOK, HoldsMutex, Staged, CommittedIntegrity,
      HasChunk, PC, Kind, Outcome, Critical, File

(* The bytes of a file, or of none.                                        *)
LEMMA DataType ==
  ASSUME NEW f \in File \cup {NoFile}
  PROVE  Data(f) \in Seq(Byte)
  BY DEF Data, File

(* A part of a sequence of bytes.                                          *)
LEMMA SubSeqType ==
  ASSUME NEW s \in Seq(Byte), NEW m \in Nat, NEW n \in Nat, n <= Len(s)
  PROVE  SubSeq(s, m + 1, n) \in Seq(Byte)
  OBVIOUS

(* What ReadChunkTo delivers.                                              *)
LEMMA ReadChunkType ==
  ASSUME NEW f \in Served, NEW from \in Nat, NEW n \in Int, from + n \in Nat
  PROVE  ReadChunkTo(f, from, n) \in Seq(Byte)
  BY SubSeqType DEF Served, ReadChunkTo

(* One byte moves from a stream to a file.                                 *)
LEMMA ByteMoves ==
  ASSUME NEW d \in Seq(Byte), NEW s \in Seq(Byte), s # <<>>
  PROVE  /\ [data |-> Append(d, Head(s)), synced |-> FALSE] \in File
         /\ Tail(s) \in Seq(Byte)
  BY DEF File

(* And is counted.                                                         *)
LEMMA CountsOn ==
  ASSUME NEW n \in Nat
  PROVE  n + 1 \in Nat
  OBVIOUS

(* What power loss leaves of a file is a file.                             *)
LEMMA SurvivorsType ==
  ASSUME NEW f \in File \cup {NoFile}
  PROVE  Survivors(f) \subseteq File \cup {NoFile}
<1>1. CASE f = NoFile \/ f.synced
  BY <1>1, Zenon DEF Survivors
<1>2. CASE ~(f = NoFile \/ f.synced)
  <2>1. f.data \in Seq(Byte) /\ Len(f.data) \in Nat
    BY <1>2 DEF File
  <2>2. \A n \in 0..Len(f.data) :
          [data |-> SubSeq(f.data, 1, n), synced |-> TRUE] \in File
    BY <2>1 DEF File
  <2>3. \A n \in 1..Len(f.data) :
          [data |-> [f.data EXCEPT ![n] = Garbage], synced |-> TRUE] \in File
    BY <2>1, BoundAssumption DEF File
  <2>4. Survivors(f) =
          {[data |-> SubSeq(f.data, 1, n), synced |-> TRUE] : n \in 0..Len(f.data)}
          \cup {[data |-> [f.data EXCEPT ![n] = Garbage], synced |-> TRUE]
                   : n \in 1..Len(f.data)}
    BY <1>2, Zenon DEF Survivors
  <2> QED
    BY <2>2, <2>3, <2>4, Zenon
<1> QED
  BY <1>1, <1>2, Zenon

(* The locals of calls that have returned.                                 *)
LEMMA ForgetType ==
  ASSUME TypeOK, NEW T, Forget(T)
  PROVE  /\ pc' \in [Thread -> PC]
         /\ kind' \in [Thread -> Kind]
         /\ chunk' \in [Thread -> Hash \cup {NoHash}]
         /\ \A t \in Thread : pc'[t] # "idle" => chunk'[t] \in Hash
         /\ offset' \in [Thread -> Nat]
         /\ todo' \in [Thread -> Seq(Byte)]
         /\ clean' \in [Thread -> BOOLEAN]
         /\ size' \in [Thread -> Nat]
         /\ total' \in [Thread -> Nat]
         /\ outcome' \in [Thread -> Outcome]
<1>1. pc' \in [Thread -> PC] /\ kind' \in [Thread -> Kind]
  BY Zenon DEF TypeOK, Forget, PC, Kind
<1>2. /\ chunk' \in [Thread -> Hash \cup {NoHash}]
      /\ \A t \in Thread : pc'[t] # "idle" => chunk'[t] \in Hash
  BY Zenon DEF TypeOK, Forget
<1>3. /\ offset' \in [Thread -> Nat]
      /\ size' \in [Thread -> Nat]
      /\ total' \in [Thread -> Nat]
  BY Zenon DEF TypeOK, Forget
<1>4. todo' \in [Thread -> Seq(Byte)]
  BY DEF TypeOK, Forget
<1>5. clean' \in [Thread -> BOOLEAN] /\ outcome' \in [Thread -> Outcome]
  BY Zenon DEF TypeOK, Forget, Outcome
<1> QED
  BY <1>1, <1>2, <1>3, <1>4, <1>5, Zenon

(* An opened partial is a file.                                            *)
LEMMA OpenPartialType ==
  ASSUME TypeOK, NEW h \in Hash, OpenPartial(h)
  PROVE  partial' \in [Hash -> File \cup {NoFile}]
<1>1. [data |-> Data(partial[h]), synced |-> FALSE] \in File
  BY DataType, Zenon DEF TypeOK, File
<1> QED
  BY <1>1, Zenon DEF TypeOK, OpenPartial

(* The locals of a transfer whose stream was opened.                       *)
LEMMA ReceiveType ==
  ASSUME TypeOK, NEW t \in Thread, pc[t] = "open",
         NEW f \in Served, NEW bytes \in Seq(Byte), Receive(t, f, bytes)
  PROVE  TypeOK'
<1>1. partial' \in [Hash -> File \cup {NoFile}]
  BY OpenPartialType, Zenon DEF Receive, TypeOK
<1>2. /\ todo' \in [Thread -> Seq(Byte)]
      /\ size' \in [Thread -> Nat]
      /\ clean' \in [Thread -> BOOLEAN]
  BY Zenon DEF Receive, TypeOK, Served
<1> QED
  BY <1>1, <1>2, Zenon DEF Receive, TypeOK, Goto, PC, sync, request

(* Every step preserves the type invariant.                                *)
LEMMA TypeStep == TypeOK /\ [Next]_vars => TypeOK'
<1> SUFFICES ASSUME TypeOK, [Next]_vars PROVE TypeOK'
  BY Zenon
<1> USE DEF TypeOK, PC, Kind, Outcome, files, sync, request, stream
<1>1. ASSUME NEW t \in Thread, NEW k \in Kind, NEW h \in Hash, Start(t, k, h)
      PROVE  TypeOK'
  BY <1>1, Zenon DEF Start, Goto
<1>2. ASSUME NEW t \in Thread, AcquireOrigin(t) PROVE TypeOK'
  BY <1>2, Zenon DEF AcquireOrigin, Goto
<1>3. ASSUME NEW t \in Thread, AcquireCancelled(t) PROVE TypeOK'
  <2>1. /\ Forget({t})
        /\ partial' = partial /\ committed' = committed /\ lock' = lock /\ originSem' = originSem
    BY <1>3, Zenon DEF AcquireCancelled
  <2> QED BY <2>1, ForgetType, ZenonT(30)
<1>4. ASSUME NEW t \in Thread, LockHash(t) PROVE TypeOK'
  BY <1>4, Zenon DEF LockHash, Goto
<1>5. ASSUME NEW t \in Thread, Prepare(t) PROVE TypeOK'
  BY <1>5, DataType DEF Prepare, Goto, PartialSize, DiscardPartial
<1>6. ASSUME NEW t \in Thread, OpenPut(t) PROVE TypeOK'
  BY <1>6, ReceiveType, ContentAssumption, Zenon DEF OpenPut, Served
<1>7. ASSUME NEW t \in Thread, OpenPeer(t) PROVE TypeOK'
  <2>1. PICK f \in PeerFiles[chunk[t]] : Receive(t, f, GetChunk(f, offset[t]))
    BY <1>7, Zenon DEF OpenPeer
  <2>2. pc[t] = "open" /\ chunk[t] \in Hash
    BY <1>7, Zenon DEF OpenPeer
  <2>3. f \in Served
    BY <2>1, <2>2, SourceAssumption, Zenon
  <2>4. GetChunk(f, offset[t]) \in Seq(Byte)
    BY <2>3 DEF Served, GetChunk
  <2> QED
    BY <2>1, <2>2, <2>3, <2>4, ReceiveType, Zenon
<1>8. ASSUME NEW t \in Thread, PeerOutOfRange(t) PROVE TypeOK'
  BY <1>8, Zenon DEF PeerOutOfRange, DiscardPartial, Return, Goto
<1>9. ASSUME NEW t \in Thread, OpenOrigin(t) PROVE TypeOK'
  <2> DEFINE remain == Len(Content[chunk[t]]) - offset[t]
  <2>1. PICK f \in OriginFiles[chunk[t]] :
              Receive(t, f, ReadChunkTo(f, offset[t], remain))
    BY <1>9, Zenon DEF OpenOrigin
  <2>2. pc[t] = "open" /\ chunk[t] \in Hash
    BY <1>9, Zenon DEF OpenOrigin
  <2>3. f \in Served
    BY <2>1, <2>2, SourceAssumption, Zenon
  <2>4. remain \in Int /\ offset[t] + remain \in Nat
    BY <2>2, ContentAssumption
  <2>5. ReadChunkTo(f, offset[t], remain) \in Seq(Byte)
    BY <2>3, <2>4, ReadChunkType, Zenon
  <2> QED
    BY <2>1, <2>2, <2>3, <2>5, ReceiveType, Zenon
<1>10. ASSUME NEW t \in Thread, Deliver(t) PROVE TypeOK'
  <2>1. /\ Data(partial[chunk[t]]) \in Seq(Byte) /\ todo[t] \in Seq(Byte) /\ todo[t] # <<>>
        /\ total[t] + 1 \in Nat
    BY <1>10, DataType, CountsOn, Zenon DEF Deliver
  <2>2. /\ [data |-> Append(Data(partial[chunk[t]]), Head(todo[t])), synced |-> FALSE] \in File
        /\ Tail(todo[t]) \in Seq(Byte)
    BY <2>1, ByteMoves, Zenon
  <2> QED BY <1>10, <2>1, <2>2, Zenon DEF Deliver
<1>11. ASSUME NEW t \in Thread, Finish(t) PROVE TypeOK'
  BY <1>11, DataType, Zenon DEF Finish, File, Goto
<1>12. ASSUME NEW t \in Thread, Cut(t) PROVE TypeOK'
  BY <1>12, OpenPartialType, Zenon DEF Cut, Return, Goto
<1>13. ASSUME NEW t \in Thread, Incomplete(t) PROVE TypeOK'
  BY <1>13, Zenon DEF Incomplete, Return, Goto
<1>14. ASSUME NEW t \in Thread, Mismatch(t) PROVE TypeOK'
  BY <1>14, Zenon DEF Mismatch, DiscardPartial, Return, Goto
<1>15. ASSUME NEW t \in Thread, Match(t) PROVE TypeOK'
  BY <1>15, Zenon DEF Match, Goto
<1>16. ASSUME NEW t \in Thread, Rename(t) PROVE TypeOK'
  BY <1>16, Zenon DEF Rename, Return, Goto
<1>17. ASSUME NEW t \in Thread, Unlock(t) PROVE TypeOK'
  BY <1>17, ForgetType, Zenon DEF Unlock
<1>18. ASSUME NEW t \in Thread, WriteErrorReturns(t) PROVE TypeOK'
  BY <1>18, Zenon DEF WriteErrorReturns, DiscardPartial, Return, Goto
<1>19. ASSUME NEW t \in Thread, WriteErrorHangs(t) PROVE TypeOK'
  BY <1>19, Zenon DEF WriteErrorHangs, Goto
<1>24. ASSUME NEW t \in Thread, CommitFails(t) PROVE TypeOK'
  BY <1>24, Zenon DEF CommitFails, Return, Goto
<1>20. ASSUME NEW h \in Hash, DeleteChunk(h) PROVE TypeOK'
  BY <1>20, Zenon DEF DeleteChunk
<1>21. CASE Crash
  BY <1>21, ForgetType, Zenon DEF Crash, Restart
<1>22. CASE PowerLoss
  <2>1. partial' \in [Hash -> File \cup {NoFile}]
    BY <1>22, SurvivorsType, Zenon DEF PowerLoss
  <2>2. committed' \in [Hash -> File \cup {NoFile}]
    BY <1>22, SurvivorsType, Zenon DEF PowerLoss
  <2> QED
    BY <1>22, <2>1, <2>2, ForgetType, Zenon DEF PowerLoss, Restart
<1>23. CASE UNCHANGED vars
  BY <1>23, Zenon DEF vars
<1> QED
  BY <1>1, <1>2, <1>3, <1>4, <1>5, <1>6, <1>7, <1>8, <1>9, <1>10, <1>11,
     <1>12, <1>13, <1>14, <1>15, <1>16, <1>17, <1>18, <1>19, <1>20, <1>21,
     <1>22, <1>23, <1>24, ZenonT(30) DEF Next, Step

(* Two threads in their critical sections work on different hashes.        *)
LEMMA Exclusion ==
  ASSUME TypeOK, HoldsMutex, NEW t \in Thread, NEW u \in Thread, t # u,
         pc[t] \in Critical, pc[u] \in Critical
  PROVE  chunk[t] # chunk[u]
  BY Zenon DEF HoldsMutex

(* Every step keeps a thread in its critical section the holder of the     *)
(* mutex of its hash.                                                      *)
LEMMA MutexStep == TypeOK /\ HoldsMutex /\ [Next]_vars => HoldsMutex'
<1> SUFFICES ASSUME TypeOK, HoldsMutex, [Next]_vars PROVE HoldsMutex'
  BY Zenon
<1> USE SentinelAssumption DEF TypeOK, HoldsMutex, Critical, files, sync, request, stream
<1>1. ASSUME NEW t \in Thread, NEW k \in Kind, NEW h \in Hash, Start(t, k, h)
      PROVE  HoldsMutex'
  BY <1>1, Zenon DEF Start, Goto
<1>2. ASSUME NEW t \in Thread, AcquireOrigin(t) PROVE HoldsMutex'
  BY <1>2, Zenon DEF AcquireOrigin, Goto
<1>3. ASSUME NEW t \in Thread, AcquireCancelled(t) PROVE HoldsMutex'
  BY <1>3, Zenon DEF AcquireCancelled, Forget
<1>4. ASSUME NEW t \in Thread, LockHash(t) PROVE HoldsMutex'
  BY <1>4, ZenonT(30) DEF LockHash, Goto
<1>5. ASSUME NEW t \in Thread, Prepare(t) PROVE HoldsMutex'
  BY <1>5, Zenon DEF Prepare, Goto
<1>6. ASSUME NEW t \in Thread, OpenPut(t) PROVE HoldsMutex'
  BY <1>6, Zenon DEF OpenPut, Receive, Goto
<1>7. ASSUME NEW t \in Thread, OpenPeer(t) PROVE HoldsMutex'
  BY <1>7, Zenon DEF OpenPeer, Receive, Goto
<1>8. ASSUME NEW t \in Thread, PeerOutOfRange(t) PROVE HoldsMutex'
  BY <1>8, Zenon DEF PeerOutOfRange, Return, Goto
<1>9. ASSUME NEW t \in Thread, OpenOrigin(t) PROVE HoldsMutex'
  BY <1>9, Zenon DEF OpenOrigin, Receive, Goto
<1>10. ASSUME NEW t \in Thread, Deliver(t) PROVE HoldsMutex'
  BY <1>10, Zenon DEF Deliver
<1>11. ASSUME NEW t \in Thread, Finish(t) PROVE HoldsMutex'
  BY <1>11, Zenon DEF Finish, Goto
<1>12. ASSUME NEW t \in Thread, Cut(t) PROVE HoldsMutex'
  BY <1>12, Zenon DEF Cut, Return, Goto
<1>13. ASSUME NEW t \in Thread, Incomplete(t) PROVE HoldsMutex'
  BY <1>13, Zenon DEF Incomplete, Return, Goto
<1>14. ASSUME NEW t \in Thread, Mismatch(t) PROVE HoldsMutex'
  BY <1>14, Zenon DEF Mismatch, Return, Goto
<1>15. ASSUME NEW t \in Thread, Match(t) PROVE HoldsMutex'
  BY <1>15, Zenon DEF Match, Goto
<1>16. ASSUME NEW t \in Thread, Rename(t) PROVE HoldsMutex'
  BY <1>16, Zenon DEF Rename, Return, Goto
<1>17. ASSUME NEW t \in Thread, Unlock(t) PROVE HoldsMutex'
  BY <1>17, Zenon DEF Unlock, Forget
<1>18. ASSUME NEW t \in Thread, WriteErrorReturns(t) PROVE HoldsMutex'
  BY <1>18, Zenon DEF WriteErrorReturns, Return, Goto
<1>19. ASSUME NEW t \in Thread, WriteErrorHangs(t) PROVE HoldsMutex'
  BY <1>19, Zenon DEF WriteErrorHangs, Goto
<1>20. ASSUME NEW t \in Thread, CommitFails(t) PROVE HoldsMutex'
  BY <1>20, Zenon DEF CommitFails, Return, Goto
<1>21. ASSUME NEW h \in Hash, DeleteChunk(h) PROVE HoldsMutex'
  BY <1>21, Zenon DEF DeleteChunk
<1>22. CASE Crash
  BY <1>22, Zenon DEF Crash, Restart, Forget
<1>23. CASE PowerLoss
  BY <1>23, Zenon DEF PowerLoss, Restart, Forget
<1>24. CASE UNCHANGED vars
  BY <1>24, Zenon DEF vars
<1> QED
  BY <1>1, <1>2, <1>3, <1>4, <1>5, <1>6, <1>7, <1>8, <1>9, <1>10, <1>11,
     <1>12, <1>13, <1>14, <1>15, <1>16, <1>17, <1>18, <1>19, <1>20, <1>21,
     <1>22, <1>23, <1>24, Zenon DEF Next, Step

(* Between fsync and rename no step of another thread touches the partial. *)
LEMMA StagedStep == TypeOK /\ HoldsMutex /\ Staged /\ [Next]_vars => Staged'
<1> SUFFICES ASSUME TypeOK, HoldsMutex, Staged, [Next]_vars PROVE Staged'
  BY Zenon
<1> USE Exclusion, SentinelAssumption DEF TypeOK, Staged, Critical, files, sync, request, stream
<1>a. ASSUME NEW t \in Thread, pc[t] = "open", NEW f, NEW b, Receive(t, f, b) PROVE Staged'
  <2>1. /\ pc' = [pc EXCEPT ![t] = "stream"] /\ chunk' = chunk
        /\ \A h \in Hash \ {chunk[t]} : partial'[h] = partial[h]
    BY <1>a, Zenon DEF Receive, Goto, OpenPartial
  <2>2. ASSUME NEW u \in Thread, pc'[u] \in {"verify", "rename"}
        PROVE  pc[u] = pc'[u] /\ partial'[chunk'[u]] = partial[chunk[u]] /\ chunk'[u] = chunk[u]
    BY <1>a, <2>1, <2>2, ZenonT(30)
  <2> QED BY <2>2
<1>1. ASSUME NEW t \in Thread, NEW k \in Kind, NEW h \in Hash, Start(t, k, h)
      PROVE  Staged'
  BY <1>1, Zenon DEF Start, Goto
<1>2. ASSUME NEW t \in Thread, AcquireOrigin(t) PROVE Staged'
  BY <1>2, Zenon DEF AcquireOrigin, Goto
<1>3. ASSUME NEW t \in Thread, AcquireCancelled(t) PROVE Staged'
  BY <1>3, Zenon DEF AcquireCancelled, Forget
<1>4. ASSUME NEW t \in Thread, LockHash(t) PROVE Staged'
  BY <1>4, Zenon DEF LockHash, Goto
<1>5. ASSUME NEW t \in Thread, Prepare(t) PROVE Staged'
  BY <1>5 DEF Prepare, Goto, DiscardPartial
<1>6. ASSUME NEW t \in Thread, OpenPut(t) PROVE Staged'
  BY <1>6, <1>a, Zenon DEF OpenPut
<1>7. ASSUME NEW t \in Thread, OpenPeer(t) PROVE Staged'
  BY <1>7, <1>a, Zenon DEF OpenPeer
<1>8. ASSUME NEW t \in Thread, PeerOutOfRange(t) PROVE Staged'
  BY <1>8, ZenonT(30) DEF PeerOutOfRange, Return, Goto, DiscardPartial
<1>9. ASSUME NEW t \in Thread, OpenOrigin(t) PROVE Staged'
  BY <1>9, <1>a, Zenon DEF OpenOrigin
<1>10. ASSUME NEW t \in Thread, Deliver(t) PROVE Staged'
  BY <1>10, Zenon DEF Deliver
<1>11. ASSUME NEW t \in Thread, Finish(t) PROVE Staged'
  <2>1. [data |-> Data(partial[chunk[t]]), synced |-> TRUE] \in File
    BY <1>11, DataType, ZenonT(30) DEF Finish, File
  <2> QED
    BY <1>11, <2>1, ZenonT(30) DEF Finish, Goto
<1>12. ASSUME NEW t \in Thread, Cut(t) PROVE Staged'
  BY <1>12, ZenonT(30) DEF Cut, Return, Goto, OpenPartial
<1>13. ASSUME NEW t \in Thread, Incomplete(t) PROVE Staged'
  BY <1>13, Zenon DEF Incomplete, Return, Goto
<1>14. ASSUME NEW t \in Thread, Mismatch(t) PROVE Staged'
  BY <1>14, Zenon DEF Mismatch, Return, Goto, DiscardPartial
<1>15. ASSUME NEW t \in Thread, Match(t) PROVE Staged'
  BY <1>15, Zenon DEF Match, Goto, Data
<1>16. ASSUME NEW t \in Thread, Rename(t) PROVE Staged'
  BY <1>16, Zenon DEF Rename, Return, Goto
<1>17. ASSUME NEW t \in Thread, Unlock(t) PROVE Staged'
  BY <1>17, Zenon DEF Unlock, Forget
<1>18. ASSUME NEW t \in Thread, WriteErrorReturns(t) PROVE Staged'
  BY <1>18 DEF WriteErrorReturns, Return, Goto, DiscardPartial
<1>19. ASSUME NEW t \in Thread, WriteErrorHangs(t) PROVE Staged'
  BY <1>19, Zenon DEF WriteErrorHangs, Goto
<1>20. ASSUME NEW t \in Thread, CommitFails(t) PROVE Staged'
  BY <1>20, Zenon DEF CommitFails, Return, Goto
<1>21. ASSUME NEW h \in Hash, DeleteChunk(h) PROVE Staged'
  BY <1>21, Zenon DEF DeleteChunk
<1>22. CASE Crash
  BY <1>22, Zenon DEF Crash, Restart, Forget
<1>23. CASE PowerLoss
  BY <1>23, Zenon DEF PowerLoss, Restart, Forget
<1>24. CASE UNCHANGED vars
  BY <1>24, Zenon DEF vars
<1> QED
  BY <1>1, <1>2, <1>3, <1>4, <1>5, <1>6, <1>7, <1>8, <1>9, <1>10, <1>11,
     <1>12, <1>13, <1>14, <1>15, <1>16, <1>17, <1>18, <1>19, <1>20, <1>21,
     <1>22, <1>23, <1>24, ZenonT(30) DEF Next, Step

(* Every step keeps the committed chunks right: Rename moves what was      *)
(* staged, and nothing else writes to the store.                           *)
LEMMA CommittedStep ==
  TypeOK /\ Staged /\ CommittedIntegrity /\ [Next]_vars => CommittedIntegrity'
<1> SUFFICES ASSUME TypeOK, Staged, CommittedIntegrity, [Next]_vars
             PROVE  CommittedIntegrity'
  BY Zenon
<1> USE DEF CommittedIntegrity, HasChunk, files
<1>1. ASSUME NEW t \in Thread, Rename(t) PROVE CommittedIntegrity'
  BY <1>1, ZenonT(30) DEF Rename, Staged, TypeOK
<1>2. ASSUME NEW h \in Hash, DeleteChunk(h) PROVE CommittedIntegrity'
  BY <1>2, Zenon DEF DeleteChunk, TypeOK
<1>3. CASE PowerLoss
  BY <1>3, ZenonT(30) DEF PowerLoss, Survivors
<1>4. CASE UNCHANGED committed
  BY <1>4, Zenon
<1>5. ASSUME NEW t \in Thread, Step(t), ~Rename(t) PROVE UNCHANGED committed
  BY <1>5, Zenon DEF Step, Prepare, OpenPut, OpenPeer, PeerOutOfRange, OpenOrigin,
              Receive, Deliver, Finish, Cut, Incomplete, Mismatch, Match, Unlock
<1>6. ASSUME NEW t \in Thread,
             \/ \E k \in Kind, h \in Hash : Start(t, k, h)
             \/ AcquireOrigin(t) \/ AcquireCancelled(t) \/ LockHash(t)
             \/ WriteErrorReturns(t) \/ WriteErrorHangs(t) \/ CommitFails(t)
      PROVE  UNCHANGED committed
  BY <1>6, Zenon DEF Start, AcquireOrigin, AcquireCancelled, LockHash,
              WriteErrorReturns, WriteErrorHangs, CommitFails
<1>7. CASE Crash \/ UNCHANGED vars
  BY <1>7, Zenon DEF Crash, vars
<1> QED
  BY <1>1, <1>2, <1>3, <1>4, <1>5, <1>6, <1>7, Zenon DEF Next

(* The types of the model hold throughout: in particular every thread that *)
(* is not idle works on a hash it recorded.                                *)
THEOREM TypeCorrect == Spec => []TypeOK
<1>1. Init => TypeOK
  BY InitIntegrity, Zenon DEF IntegrityInv
<1> QED
  BY <1>1, TypeStep, PTL DEF Spec

(* The inductive invariant: who holds the mutex, and what the partial of a *)
(* transfer is between fsync and rename.                                   *)
THEOREM IntegrityInvariant == Spec => []IntegrityInv
<1>1. IntegrityInv /\ [Next]_vars => IntegrityInv'
  BY TypeStep, MutexStep, StagedStep, CommittedStep, Zenon DEF IntegrityInv
<1> QED
  BY InitIntegrity, <1>1, PTL DEF Spec

(* For every set of hashes, threads and sources, right or wrong, and every *)
(* fault, a chunk in the store is the durable content of its hash          *)
(* (CommitPartial).                                                        *)
THEOREM StoreIntegrity == Spec => []CommittedIntegrity
<1>1. IntegrityInv => CommittedIntegrity
  BY Zenon DEF IntegrityInv
<1> QED
  BY <1>1, IntegrityInvariant, PTL

(* LockHash and the deferred unlock keep two threads from working on the   *)
(* same partial file.                                                      *)
THEOREM MutualExclusion == Spec => []PartialExclusive
<1>1. IntegrityInv => PartialExclusive
  BY Exclusion, Zenon DEF IntegrityInv, PartialExclusive
<1> QED
  BY <1>1, IntegrityInvariant, PTL

(* Every step keeps the holders of origin slots within the bound, and      *)
(* every reader of the origin among them.                                  *)
LEMMA SlotStep == TypeOK /\ SlotInv /\ [Next]_vars => SlotInv'
<1> SUFFICES ASSUME TypeOK, SlotInv, [Next]_vars PROVE SlotInv'
  BY Zenon
<1> USE DEF TypeOK, SlotInv, Critical, files, sync, request, stream
<1>1. ASSUME NEW t \in Thread, NEW k \in Kind, NEW h \in Hash, Start(t, k, h)
      PROVE  SlotInv'
  BY <1>1, Zenon DEF Start, Goto
<1>2. ASSUME NEW t \in Thread, AcquireOrigin(t) PROVE SlotInv'
  <2> DEFINE n == Cardinality(originSem)
  <2>0. n \in Nat
    BY FS_CardinalityType, Zenon
  <2>1. IsFiniteSet(originSem') /\ Cardinality(originSem') \in {n, n + 1}
    <3>1. /\ IsFiniteSet(originSem \cup {t})
          /\ Cardinality(originSem \cup {t}) = IF t \in originSem THEN n ELSE n + 1
      BY FS_AddElement, Zenon
    <3> QED
      BY <1>2, <3>1, Zenon DEF AcquireOrigin
  <2>2. Cardinality(originSem') <= MaxOrigin
    BY <1>2, <2>0, <2>1, BoundAssumption DEF AcquireOrigin
  <2> QED
    BY <1>2, <2>1, <2>2, Zenon DEF AcquireOrigin, Goto
<1>3. ASSUME NEW t \in Thread, AcquireCancelled(t) PROVE SlotInv'
  BY <1>3, Zenon DEF AcquireCancelled, Forget
<1>4. ASSUME NEW t \in Thread, LockHash(t) PROVE SlotInv'
  BY <1>4, Zenon DEF LockHash, Goto
<1>5. ASSUME NEW t \in Thread, Prepare(t) PROVE SlotInv'
  BY <1>5, Zenon DEF Prepare, Goto
<1>6. ASSUME NEW t \in Thread, OpenPut(t) PROVE SlotInv'
  BY <1>6, Zenon DEF OpenPut, Receive, Goto
<1>7. ASSUME NEW t \in Thread, OpenPeer(t) PROVE SlotInv'
  BY <1>7, Zenon DEF OpenPeer, Receive, Goto
<1>8. ASSUME NEW t \in Thread, PeerOutOfRange(t) PROVE SlotInv'
  BY <1>8, Zenon DEF PeerOutOfRange, Return, Goto
<1>9. ASSUME NEW t \in Thread, OpenOrigin(t) PROVE SlotInv'
  BY <1>9, Zenon DEF OpenOrigin, Receive, Goto
<1>10. ASSUME NEW t \in Thread, Deliver(t) PROVE SlotInv'
  BY <1>10, Zenon DEF Deliver
<1>11. ASSUME NEW t \in Thread, Finish(t) PROVE SlotInv'
  BY <1>11, Zenon DEF Finish, Goto
<1>12. ASSUME NEW t \in Thread, Cut(t) PROVE SlotInv'
  BY <1>12, Zenon DEF Cut, Return, Goto
<1>13. ASSUME NEW t \in Thread, Incomplete(t) PROVE SlotInv'
  BY <1>13, Zenon DEF Incomplete, Return, Goto
<1>14. ASSUME NEW t \in Thread, Mismatch(t) PROVE SlotInv'
  BY <1>14, Zenon DEF Mismatch, Return, Goto
<1>15. ASSUME NEW t \in Thread, Match(t) PROVE SlotInv'
  BY <1>15, Zenon DEF Match, Goto
<1>16. ASSUME NEW t \in Thread, Rename(t) PROVE SlotInv'
  BY <1>16, Zenon DEF Rename, Return, Goto
<1>17. ASSUME NEW t \in Thread, Unlock(t) PROVE SlotInv'
  <2> DEFINE n == Cardinality(originSem)
  <2>0. n \in Nat
    BY FS_CardinalityType, Zenon
  <2>1. IsFiniteSet(originSem') /\ Cardinality(originSem') \in {n, n - 1}
    <3>1. /\ IsFiniteSet(originSem \ {t})
          /\ Cardinality(originSem \ {t}) = IF t \in originSem THEN n - 1 ELSE n
      BY FS_RemoveElement, Zenon
    <3> QED
      BY <1>17, <3>1, Zenon DEF Unlock
  <2>2. Cardinality(originSem') <= MaxOrigin
    BY <2>0, <2>1, BoundAssumption
  <2> QED
    BY <1>17, <2>1, <2>2, Zenon DEF Unlock, Forget
<1>18. ASSUME NEW t \in Thread, WriteErrorReturns(t) PROVE SlotInv'
  BY <1>18, Zenon DEF WriteErrorReturns, Return, Goto
<1>19. ASSUME NEW t \in Thread, WriteErrorHangs(t) PROVE SlotInv'
  BY <1>19, Zenon DEF WriteErrorHangs, Goto
<1>20. ASSUME NEW t \in Thread, CommitFails(t) PROVE SlotInv'
  BY <1>20, Zenon DEF CommitFails, Return, Goto
<1>21. ASSUME NEW h \in Hash, DeleteChunk(h) PROVE SlotInv'
  BY <1>21, Zenon DEF DeleteChunk
<1>22. CASE Crash
  BY <1>22, FS_EmptySet, BoundAssumption DEF Crash, Restart, Forget
<1>23. CASE PowerLoss
  BY <1>23, FS_EmptySet, BoundAssumption DEF PowerLoss, Restart, Forget
<1>24. CASE UNCHANGED vars
  BY <1>24, Zenon DEF vars
<1> QED
  BY <1>1, <1>2, <1>3, <1>4, <1>5, <1>6, <1>7, <1>8, <1>9, <1>10, <1>11,
     <1>12, <1>13, <1>14, <1>15, <1>16, <1>17, <1>18, <1>19, <1>20, <1>21,
     <1>22, <1>23, <1>24, ZenonT(30) DEF Next, Step

(* At most origin.maxConcurrency threads hold a slot, and every thread     *)
(* that reads from the origin holds one (acquireOrigin and its deferred    *)
(* release).                                                               *)
THEOREM OriginLimit == Spec => []OriginCap
<1>1. Init => SlotInv
  BY FS_EmptySet, BoundAssumption DEF Init, SlotInv
<1>2. SlotInv => OriginCap
  BY Zenon DEF SlotInv, OriginCap
<1> QED
  BY <1>1, <1>2, TypeCorrect, SlotStep, PTL DEF Spec

-----------------------------------------------------------------------------
(* Resumption in ChunkStore is exact (NoSpuriousMismatch).  The inductive  *)
(* invariant is ResumeInv, on top of IntegrityInv: every partial is a      *)
(* prefix of its content, and whoever writes to it writes the rest.        *)

(* A discarded partial is a prefix of the content.                         *)
LEMMA EmptyIsPrefix ==
  ASSUME NEW c \in Seq(Byte)
  PROVE  IsPrefixOf(<<>>, c)
BY DEF IsPrefixOf

(* A prefix that is as long as the content is the content: what            *)
(* CommitPartial then hashes is right.                                     *)
LEMMA WholePrefix ==
  ASSUME NEW s \in Seq(Byte), NEW c \in Seq(Byte), IsPrefixOf(s, c), Len(s) = Len(c)
  PROVE  s = c
BY DEF IsPrefixOf

(* Seeking to the size of a partial that is a prefix yields the rest.      *)
LEMMA RestBySubSeq ==
  ASSUME NEW s \in Seq(Byte), NEW c \in Seq(Byte), IsPrefixOf(s, c)
  PROVE  IsRestOf(SubSeq(c, Len(s) + 1, Len(c)), s, c)
BY DEF IsPrefixOf, IsRestOf

(* So what a peer or the origin sends from the end of the prefix on is the *)
(* rest, if its file has the content.                                      *)
LEMMA PeerSendsRest ==
  ASSUME NEW s \in Seq(Byte), NEW c \in Seq(Byte), IsPrefixOf(s, c), NEW f, f.data = c
  PROVE  IsRestOf(GetChunk(f, Len(s)), s, c)
BY RestBySubSeq, Zenon DEF GetChunk

LEMMA OriginSendsRest ==
  ASSUME NEW s \in Seq(Byte), NEW c \in Seq(Byte), IsPrefixOf(s, c), NEW f, f.data = c
  PROVE  IsRestOf(ReadChunkTo(f, Len(s), Len(c) - Len(s)), s, c)
<1>1. Len(s) \in Nat /\ Len(c) \in Nat /\ Len(s) + (Len(c) - Len(s)) = Len(c) /\ ~(Len(c) < Len(c))
  OBVIOUS
<1>2. ReadChunkTo(f, Len(s), Len(c) - Len(s)) = SubSeq(c, Len(s) + 1, Len(c))
  BY <1>1, Zenon DEF ReadChunkTo
<1> QED BY <1>2, RestBySubSeq, Zenon

(* Writing the first block of the rest to the end of a prefix gives a      *)
(* longer prefix and the rest of that.                                     *)
LEMMA AppendMovesOn ==
  ASSUME NEW r \in Seq(Byte), NEW s \in Seq(Byte), NEW c \in Seq(Byte), r # <<>>,
         IsPrefixOf(s, c), IsRestOf(r, s, c)
  PROVE  /\ IsPrefixOf(Append(s, Head(r)), c)
         /\ IsRestOf(Tail(r), Append(s, Head(r)), c)
<1>1. /\ Len(r) > 0 /\ Head(r) = r[1] /\ Len(Tail(r)) = Len(r) - 1
      /\ Len(Append(s, Head(r))) = Len(s) + 1
      /\ Append(s, Head(r))[Len(s) + 1] = r[1]
      /\ \A i \in 1..Len(s) : Append(s, Head(r))[i] = s[i]
      /\ \A i \in 1..Len(Tail(r)) : Tail(r)[i] = r[i + 1]
  OBVIOUS
<1>2. r[1] = c[Len(s) + 1]
  BY <1>1 DEF IsRestOf
<1>3. IsPrefixOf(Append(s, Head(r)), c)
  BY <1>1, <1>2 DEF IsPrefixOf, IsRestOf
<1>4. IsRestOf(Tail(r), Append(s, Head(r)), c)
  BY <1>1, <1>2 DEF IsRestOf
<1> QED
  BY <1>3, <1>4, Zenon

(* A step of the holder of a mutex that changes its own partial and its    *)
(* own locals only has to be checked for itself.                           *)
LEMMA FrameStep ==
  ASSUME TypeOK, HoldsMutex, PartialIsPrefix, StreamIsRest,
         NEW t \in Thread, pc[t] \in Critical, TypeOK', chunk'[t] = chunk[t],
         \A h \in Hash \ {chunk[t]} : partial'[h] = partial[h],
         \A u \in Thread \ {t} : /\ pc'[u] = pc[u] /\ chunk'[u] = chunk[u]
                                 /\ kind'[u] = kind[u] /\ offset'[u] = offset[u]
                                 /\ todo'[u] = todo[u],
         IsPrefixOf(Data(partial'[chunk[t]]), Content[chunk[t]]),
         InStep(t)'
  PROVE  PartialIsPrefix' /\ StreamIsRest'
<1>1. PartialIsPrefix'
  BY Zenon DEF PartialIsPrefix
<1>2. ASSUME NEW u \in Thread, u # t PROVE InStep(u)'
  <2>1. CASE pc[u] \in {"open", "stream", "verify"}
    <3>1. chunk[u] # chunk[t] /\ chunk[u] \in Hash
      BY <1>2, <2>1, Exclusion, Zenon DEF Critical, TypeOK
    <3>2. /\ partial'[chunk'[u]] = partial[chunk[u]] /\ chunk'[u] = chunk[u] /\ pc'[u] = pc[u]
          /\ kind'[u] = kind[u] /\ offset'[u] = offset[u] /\ todo'[u] = todo[u]
      BY <1>2, <3>1, ZenonT(30)
    <3>3. InStep(u)
      BY Zenon DEF StreamIsRest
    <3> QED
      BY <3>2, <3>3, Zenon DEF InStep
  <2>2. CASE pc[u] \notin {"open", "stream", "verify"}
    BY <1>2, <2>2, Zenon DEF InStep
  <2> QED
    BY <2>1, <2>2, Zenon
<1> QED
  BY <1>1, <1>2, Zenon DEF StreamIsRest

(* Returning with the partial discarded.                                   *)
LEMMA DiscardStep ==
  ASSUME TypeOK, HoldsMutex, PartialIsPrefix, StreamIsRest,
         NEW t \in Thread, pc[t] \in Critical, TypeOK', UNCHANGED <<request, stream>>,
         DiscardPartial(chunk[t]), NEW o, Return(t, o)
  PROVE  PartialIsPrefix' /\ StreamIsRest'
<1>1. chunk[t] \in Hash /\ Content[chunk[t]] \in Seq(Byte)
  BY ContentAssumption, Zenon DEF TypeOK, Critical
<1>2. Data(partial'[chunk[t]]) = <<>>
  BY <1>1, Zenon DEF DiscardPartial, Data, TypeOK
<1>3. IsPrefixOf(Data(partial'[chunk[t]]), Content[chunk[t]])
  BY <1>1, <1>2, EmptyIsPrefix, Zenon
<1>4. InStep(t)'
  BY Zenon DEF InStep, Return, Goto, TypeOK
<1> QED
  BY <1>3, <1>4, FrameStep, Zenon DEF DiscardPartial, Return, Goto, TypeOK, request, stream

(* Leaving the partial alone and ending the transfer, or hanging.          *)
LEMMA KeepStep ==
  ASSUME TypeOK, HoldsMutex, PartialIsPrefix, StreamIsRest,
         NEW t \in Thread, pc[t] \in Critical, TypeOK',
         UNCHANGED <<partial, request, stream>>, NEW l, Goto(t, l),
         l \notin {"open", "stream", "verify"}
  PROVE  PartialIsPrefix' /\ StreamIsRest'
<1>1. PartialIsPrefix'
  BY Zenon DEF PartialIsPrefix
<1>2. StreamIsRest'
  BY Zenon DEF StreamIsRest, InStep, Goto, TypeOK, request, stream
<1> QED
  BY <1>1, <1>2, Zenon

(* Opening a partial for appending keeps its bytes.                        *)
LEMMA OpenKeepsData ==
  ASSUME TypeOK, NEW h \in Hash, OpenPartial(h)
  PROVE  Data(partial'[h]) = Data(partial[h])
<1>1. Data(partial[h]) \in Seq(Byte)
  BY DataType, Zenon DEF TypeOK
<1>2. [data |-> Data(partial[h]), synced |-> FALSE] \in File
  BY <1>1, Zenon DEF File
<1>3. partial'[h] = [data |-> Data(partial[h]), synced |-> FALSE]
  BY Zenon DEF OpenPartial, TypeOK
<1>4. partial'[h] # NoFile
  BY <1>2, <1>3, SentinelAssumption, ZenonT(30)
<1>5. partial'[h].data = Data(partial[h])
  BY <1>3
<1> QED
  BY <1>4, <1>5, Zenon DEF Data

(* Opening a stream that delivers the rest of the content.                 *)
LEMMA OpenStep ==
  ASSUME TypeOK, HoldsMutex, PartialIsPrefix, StreamIsRest,
         NEW t \in Thread, pc[t] = "open", TypeOK', NEW f, NEW bytes,
         Receive(t, f, bytes),
         IsRestOf(bytes, Data(partial[chunk[t]]), Content[chunk[t]])
  PROVE  PartialIsPrefix' /\ StreamIsRest'
<1>1. chunk[t] \in Hash
  BY Zenon DEF TypeOK
<1>2. Data(partial'[chunk[t]]) = Data(partial[chunk[t]])
  BY <1>1, OpenKeepsData, ZenonT(30) DEF Receive
<1>3. InStep(t)'
  BY <1>2, Zenon DEF Receive, Goto, InStep, TypeOK, request
<1>4. IsPrefixOf(Data(partial'[chunk[t]]), Content[chunk[t]])
  BY <1>1, <1>2, Zenon DEF PartialIsPrefix
<1> QED
  BY <1>3, <1>4, FrameStep, Zenon DEF Receive, OpenPartial, Goto, TypeOK, request, Critical

(* A block goes from the stream into the partial.                          *)
LEMMA DeliverStep ==
  ASSUME TypeOK, HoldsMutex, PartialIsPrefix, StreamIsRest, TypeOK',
         NEW t \in Thread, Deliver(t)
  PROVE  PartialIsPrefix' /\ StreamIsRest'
<1> DEFINE h == chunk[t]
           s == Data(partial[h])
           c == Content[h]
           f == [data |-> Append(s, Head(todo[t])), synced |-> FALSE]
<1>1. h \in Hash /\ s \in Seq(Byte) /\ c \in Seq(Byte) /\ todo[t] \in Seq(Byte)
      /\ todo[t] # <<>> /\ pc[t] = "stream"
  BY DataType, ContentAssumption, Zenon DEF Deliver, TypeOK
<1>2. IsPrefixOf(s, c) /\ IsRestOf(todo[t], s, c)
  BY <1>1, Zenon DEF PartialIsPrefix, StreamIsRest, InStep
<1>3. IsPrefixOf(Append(s, Head(todo[t])), c)
      /\ IsRestOf(Tail(todo[t]), Append(s, Head(todo[t])), c)
  BY <1>1, <1>2, AppendMovesOn, Zenon
<1>4. f \in File
  <2>1. Append(s, Head(todo[t])) \in Seq(Byte)
    BY <1>1
  <2> QED
    BY <2>1, Zenon DEF File
<1>5. partial'[h] = f
  BY <1>1, ZenonT(30) DEF Deliver, TypeOK
<1>6. Data(partial'[h]) = Append(s, Head(todo[t]))
  <2>1. partial'[h] # NoFile
    BY <1>4, <1>5, SentinelAssumption, Zenon
  <2>2. partial'[h].data = Append(s, Head(todo[t]))
    BY <1>5
  <2> QED
    BY <2>1, <2>2, Zenon DEF Data
<1>7. InStep(t)'
  <2>1. pc'[t] = "stream" /\ chunk'[t] = h /\ todo'[t] = Tail(todo[t])
    BY <1>1, ZenonT(30) DEF Deliver, TypeOK, request
  <2> HIDE DEF h, s, c, f
  <2> QED
    BY <1>3, <1>6, <2>1, Zenon DEF InStep, c
<1> QED
  BY <1>1, <1>3, <1>6, <1>7, FrameStep, ZenonT(30) DEF Deliver, TypeOK, request, Critical

(* At the end of the stream the partial is complete.                       *)
LEMMA FinishStep ==
  ASSUME TypeOK, HoldsMutex, PartialIsPrefix, StreamIsRest, TypeOK',
         NEW t \in Thread, Finish(t)
  PROVE  PartialIsPrefix' /\ StreamIsRest'
<1> DEFINE h == chunk[t]
           s == Data(partial[h])
           f == [data |-> s, synced |-> TRUE]
<1>1. h \in Hash /\ s \in Seq(Byte) /\ todo[t] = <<>> /\ pc[t] = "stream"
  BY DataType, Zenon DEF Finish, TypeOK
<1>2. IsPrefixOf(s, Content[h]) /\ Len(s) = Len(Content[h])
  <2>1. IsPrefixOf(s, Content[h]) /\ IsRestOf(todo[t], s, Content[h])
    BY <1>1, ZenonT(30) DEF PartialIsPrefix, StreamIsRest, InStep
  <2>2. Len(s) + Len(todo[t]) = Len(Content[h])
    BY <2>1, Zenon DEF IsRestOf
  <2>3. Len(todo[t]) = 0 /\ Len(s) \in Nat /\ Len(s) + 0 = Len(s)
    BY <1>1
  <2> QED
    BY <2>1, <2>2, <2>3, Zenon
<1>3. f \in File
  BY <1>1, Zenon DEF File
<1>4. partial'[h] = f
  BY <1>1, Zenon DEF Finish, TypeOK
<1>5. Data(partial'[h]) = s
  <2>1. partial'[h] # NoFile
    BY <1>3, <1>4, SentinelAssumption, ZenonT(30)
  <2>2. partial'[h].data = s
    BY <1>4
  <2> QED
    BY <2>1, <2>2, Zenon DEF Data
<1>6. InStep(t)'
  <2>1. pc'[t] = "verify" /\ chunk'[t] = h
    BY <1>1, Zenon DEF Finish, Goto, TypeOK, request
  <2> HIDE DEF h, s, f
  <2> QED
    BY <1>2, <1>5, <2>1, Zenon DEF InStep
<1> QED
  BY <1>1, <1>2, <1>5, <1>6, FrameStep, ZenonT(30) DEF Finish, Goto, TypeOK, request, stream, Critical

(* The offset is the size of the partial that is resumed.                  *)
LEMMA PrepareStep ==
  ASSUME TypeOK, HoldsMutex, PartialIsPrefix, StreamIsRest, TypeOK',
         NEW t \in Thread, Prepare(t)
  PROVE  PartialIsPrefix' /\ StreamIsRest'
<1>1. chunk[t] \in Hash /\ Content[chunk[t]] \in Seq(Byte) /\ pc[t] = "prepare"
  BY ContentAssumption, Zenon DEF Prepare, TypeOK
<1>2. CASE StartsAfresh(t)
  <2>1. Data(partial'[chunk[t]]) = <<>> /\ offset'[t] = 0
    BY <1>1, <1>2, ZenonT(30) DEF Prepare, DiscardPartial, Data, TypeOK
  <2>2. InStep(t)'
    BY <1>1, <2>1, Zenon DEF InStep, Prepare, Goto, TypeOK, request
  <2>3. IsPrefixOf(Data(partial'[chunk[t]]), Content[chunk[t]])
    BY <1>1, <2>1, EmptyIsPrefix, Zenon
  <2> QED
    BY <1>1, <1>2, <2>2, <2>3, FrameStep, ZenonT(30)
    DEF Prepare, DiscardPartial, Goto, TypeOK, request, Critical
<1>3. CASE ~StartsAfresh(t)
  <2>1. partial' = partial /\ offset'[t] = Len(Data(partial[chunk[t]])) /\ kind[t] # "put"
    BY <1>1, <1>3, Zenon DEF Prepare, PartialSize, StartsAfresh, TypeOK
  <2>2. InStep(t)'
    BY <1>1, <2>1, Zenon DEF InStep, Prepare, Goto, TypeOK, request
  <2>3. IsPrefixOf(Data(partial'[chunk[t]]), Content[chunk[t]])
    BY <1>1, <2>1, Zenon DEF PartialIsPrefix
  <2> QED
    BY <1>1, <2>1, <2>2, <2>3, FrameStep, ZenonT(30) DEF Prepare, Goto, TypeOK, request, Critical
<1> QED
  BY <1>2, <1>3, Zenon

(* With exact sources and without power loss, every step keeps partials    *)
(* prefixes and streams their rests.                                       *)
LEMMA StreamStep ==
  ASSUME ExactSources, "power" \notin Faults,
         TypeOK, HoldsMutex, PartialIsPrefix, StreamIsRest, TypeOK', [Next]_vars
  PROVE  PartialIsPrefix' /\ StreamIsRest'
<1> USE DEF files, sync, request, stream
<1>1. ASSUME NEW t \in Thread, NEW k \in Kind, NEW h \in Hash, Start(t, k, h)
      PROVE  PartialIsPrefix' /\ StreamIsRest'
  BY <1>1, ZenonT(30) DEF Start, Goto, TypeOK, PartialIsPrefix, StreamIsRest, InStep
<1>2. ASSUME NEW t \in Thread, AcquireOrigin(t) PROVE PartialIsPrefix' /\ StreamIsRest'
  BY <1>2, ZenonT(30) DEF AcquireOrigin, Goto, TypeOK, PartialIsPrefix, StreamIsRest, InStep
<1>3. ASSUME NEW t \in Thread, AcquireCancelled(t) PROVE PartialIsPrefix' /\ StreamIsRest'
  BY <1>3, Zenon DEF AcquireCancelled, Forget, TypeOK, PartialIsPrefix, StreamIsRest, InStep
<1>4. ASSUME NEW t \in Thread, LockHash(t) PROVE PartialIsPrefix' /\ StreamIsRest'
  BY <1>4, ZenonT(30) DEF LockHash, Goto, TypeOK, PartialIsPrefix, StreamIsRest, InStep
<1>5. ASSUME NEW t \in Thread, Prepare(t) PROVE PartialIsPrefix' /\ StreamIsRest'
  BY <1>5, PrepareStep, Zenon
<1>6. ASSUME NEW t \in Thread, OpenPut(t) PROVE PartialIsPrefix' /\ StreamIsRest'
  <2> DEFINE c == Content[chunk[t]]
  <2>1. c \in Seq(Byte) /\ Data(partial[chunk[t]]) = <<>>
    BY <1>6, ContentAssumption, Zenon DEF OpenPut, TypeOK, StreamIsRest, InStep
  <2>2. IsRestOf(c, <<>>, c)
    BY <2>1 DEF IsRestOf
  <2> QED
    BY <1>6, <2>1, <2>2, OpenStep, Zenon DEF OpenPut
<1>7. ASSUME NEW t \in Thread, OpenPeer(t) PROVE PartialIsPrefix' /\ StreamIsRest'
  <2> DEFINE s == Data(partial[chunk[t]])
             c == Content[chunk[t]]
  <2>1. chunk[t] \in Hash /\ s \in Seq(Byte) /\ c \in Seq(Byte)
        /\ IsPrefixOf(s, c) /\ offset[t] = Len(s)
    BY <1>7, ContentAssumption, DataType, ZenonT(30)
    DEF OpenPeer, TypeOK, PartialIsPrefix, StreamIsRest, InStep
  <2>2. PICK f \in PeerFiles[chunk[t]] : Receive(t, f, GetChunk(f, offset[t]))
    BY <1>7, ZenonT(30) DEF OpenPeer
  <2>3. f.data = c
    BY <2>1, <2>2 DEF ExactSources
  <2>4. IsRestOf(GetChunk(f, offset[t]), s, c)
    BY <2>1, <2>3, PeerSendsRest, Zenon
  <2> QED
    BY <1>7, <2>2, <2>4, OpenStep, Zenon DEF OpenPeer
<1>8. ASSUME NEW t \in Thread, PeerOutOfRange(t) PROVE PartialIsPrefix' /\ StreamIsRest'
  BY <1>8, DiscardStep, ZenonT(30) DEF PeerOutOfRange, Critical
<1>9. ASSUME NEW t \in Thread, OpenOrigin(t) PROVE PartialIsPrefix' /\ StreamIsRest'
  <2> DEFINE s == Data(partial[chunk[t]])
             c == Content[chunk[t]]
  <2>1. chunk[t] \in Hash /\ s \in Seq(Byte) /\ c \in Seq(Byte)
        /\ IsPrefixOf(s, c) /\ offset[t] = Len(s)
    BY <1>9, ContentAssumption, DataType, ZenonT(30)
    DEF OpenOrigin, TypeOK, PartialIsPrefix, StreamIsRest, InStep
  <2>2. PICK f \in OriginFiles[chunk[t]] : Receive(t, f, ReadChunkTo(f, offset[t], Len(c) - offset[t]))
    BY <1>9, ZenonT(30) DEF OpenOrigin
  <2>3. f.data = c
    BY <2>1, <2>2 DEF ExactSources
  <2>4. IsRestOf(ReadChunkTo(f, offset[t], Len(c) - offset[t]), s, c)
    BY <2>1, <2>3, OriginSendsRest, Zenon
  <2> QED
    BY <1>9, <2>2, <2>4, OpenStep, Zenon DEF OpenOrigin
<1>10. ASSUME NEW t \in Thread, Deliver(t) PROVE PartialIsPrefix' /\ StreamIsRest'
  BY <1>10, DeliverStep, Zenon
<1>11. ASSUME NEW t \in Thread, Finish(t) PROVE PartialIsPrefix' /\ StreamIsRest'
  BY <1>11, FinishStep, Zenon
<1>12. ASSUME NEW t \in Thread, Cut(t) PROVE PartialIsPrefix' /\ StreamIsRest'
  <2>1. CASE OpenPartial(chunk[t])
    <3>1. chunk[t] \in Hash /\ pc[t] \in Critical
      BY <1>12, Zenon DEF Cut, TypeOK, Critical
    <3>2. IsPrefixOf(Data(partial'[chunk[t]]), Content[chunk[t]])
      BY <3>1, <2>1, OpenKeepsData, Zenon DEF PartialIsPrefix
    <3>3. InStep(t)'
      BY <1>12, ZenonT(30) DEF Cut, Return, Goto, InStep, TypeOK
    <3> QED
      BY <1>12, <2>1, <3>1, <3>2, <3>3, FrameStep, ZenonT(30) DEF Cut, Return, Goto, OpenPartial, TypeOK
  <2>2. CASE UNCHANGED partial
    BY <1>12, <2>2, KeepStep, ZenonT(30) DEF Cut, Return, Critical
  <2> QED
    BY <1>12, <2>1, <2>2, Zenon DEF Cut
<1>13. ASSUME NEW t \in Thread, Incomplete(t) PROVE PartialIsPrefix' /\ StreamIsRest'
  BY <1>13, KeepStep, Zenon DEF Incomplete, Return, Critical
<1>14. ASSUME NEW t \in Thread, Mismatch(t) PROVE PartialIsPrefix' /\ StreamIsRest'
  BY <1>14, DiscardStep, Zenon DEF Mismatch, Critical
<1>15. ASSUME NEW t \in Thread, Match(t) PROVE PartialIsPrefix' /\ StreamIsRest'
  BY <1>15, KeepStep, Zenon DEF Match, Return, Critical
<1>16. ASSUME NEW t \in Thread, Rename(t) PROVE PartialIsPrefix' /\ StreamIsRest'
  <2>1. DiscardPartial(chunk[t])
    BY <1>16, Zenon DEF Rename, DiscardPartial
  <2> QED
    BY <1>16, <2>1, DiscardStep, Zenon DEF Rename, Critical
<1>17. ASSUME NEW t \in Thread, Unlock(t) PROVE PartialIsPrefix' /\ StreamIsRest'
  BY <1>17, Zenon DEF Unlock, Forget, TypeOK, PartialIsPrefix, StreamIsRest, InStep
<1>18. ASSUME NEW t \in Thread, WriteErrorReturns(t) PROVE PartialIsPrefix' /\ StreamIsRest'
  <2>1. CASE DiscardPartial(chunk[t])
    BY <1>18, <2>1, DiscardStep DEF WriteErrorReturns, Critical
  <2>2. CASE UNCHANGED partial
    BY <1>18, <2>2, KeepStep, Zenon DEF WriteErrorReturns, Return, Critical
  <2> QED
    BY <1>18, <2>1, <2>2, ZenonT(30) DEF WriteErrorReturns
<1>19. ASSUME NEW t \in Thread, WriteErrorHangs(t) PROVE PartialIsPrefix' /\ StreamIsRest'
  BY <1>19, KeepStep, Zenon DEF WriteErrorHangs, Return, Critical
<1>20. ASSUME NEW t \in Thread, CommitFails(t) PROVE PartialIsPrefix' /\ StreamIsRest'
  BY <1>20, KeepStep, Zenon DEF CommitFails, Return, Critical
<1>21. ASSUME NEW h \in Hash, DeleteChunk(h) PROVE PartialIsPrefix' /\ StreamIsRest'
  BY <1>21, Zenon DEF DeleteChunk, PartialIsPrefix, StreamIsRest, InStep
<1>22. CASE Crash
  BY <1>22, ZenonT(30) DEF Crash, Restart, Forget, PartialIsPrefix, StreamIsRest, InStep
<1>23. CASE UNCHANGED vars
  BY <1>23, Zenon DEF vars, PartialIsPrefix, StreamIsRest, InStep
<1>24. ~PowerLoss
  BY Zenon DEF PowerLoss
<1> QED
  BY <1>1, <1>2, <1>3, <1>4, <1>5, <1>6, <1>7, <1>8, <1>9, <1>10, <1>11,
     <1>12, <1>13, <1>14, <1>15, <1>16, <1>17, <1>18, <1>19, <1>20, <1>21,
     <1>22, <1>23, <1>24, Zenon DEF Next, Step

(* Verification cannot fail: the partial has the length of the content and *)
(* is a prefix of it.                                                      *)
LEMMA OutcomeStep ==
  ASSUME TypeOK, PartialIsPrefix, StreamIsRest, NoSpuriousMismatch, [Next]_vars
  PROVE  NoSpuriousMismatch'
<1> USE DEF files, sync, request, stream, NoSpuriousMismatch, TypeOK, Outcome
<1>1. ASSUME NEW t \in Thread, Mismatch(t) PROVE FALSE
  <2> DEFINE s == Data(partial[chunk[t]])
             c == Content[chunk[t]]
  <2>1. /\ s \in Seq(Byte) /\ c \in Seq(Byte)
        /\ IsPrefixOf(s, c) /\ Len(s) = Len(c) /\ s # c
    BY <1>1, ContentAssumption, DataType, Zenon
    DEF Mismatch, PartialIsPrefix, StreamIsRest, InStep
  <2> QED
    BY <2>1, WholePrefix, Zenon
<1>2. ASSUME NEW t \in Thread, NEW o \in Outcome \ {"mismatch"}, Return(t, o)
      PROVE  NoSpuriousMismatch'
  BY <1>2, Zenon DEF Return
<1>3. ASSUME NEW T \in SUBSET Thread, Forget(T) PROVE NoSpuriousMismatch'
  BY <1>3, Zenon DEF Forget
<1>4. ASSUME UNCHANGED outcome PROVE NoSpuriousMismatch'
  BY <1>4, Zenon
<1>5. ASSUME NEW t \in Thread, Step(t) PROVE NoSpuriousMismatch'
  <2>1. CASE Prepare(t) \/ Deliver(t) \/ Finish(t) \/ Match(t)
    BY <1>4, <2>1, ZenonT(30) DEF Prepare, Deliver, Finish, Match
  <2>2. CASE OpenPut(t) \/ OpenPeer(t) \/ OpenOrigin(t)
    BY <1>4, <2>2, ZenonT(30) DEF OpenPut, OpenPeer, OpenOrigin, Receive
  <2>3. CASE PeerOutOfRange(t) \/ Cut(t) \/ Incomplete(t)
    BY <1>2, <2>3, ZenonT(30) DEF PeerOutOfRange, Cut, Incomplete
  <2>4. CASE Rename(t)
    BY <1>2, <2>4, Zenon DEF Rename
  <2>5. CASE Unlock(t)
    BY <1>3, <2>5, ZenonT(30) DEF Unlock
  <2> QED
    BY <1>1, <1>5, <2>1, <2>2, <2>3, <2>4, <2>5, Zenon DEF Step
<1>6. ASSUME NEW t \in Thread, NEW k \in Kind, NEW h \in Hash, Start(t, k, h)
      PROVE  NoSpuriousMismatch'
  BY <1>4, <1>6, Zenon DEF Start
<1>7. ASSUME NEW t \in Thread, AcquireOrigin(t) \/ LockHash(t) \/ WriteErrorHangs(t)
      PROVE  NoSpuriousMismatch'
  BY <1>4, <1>7, Zenon DEF AcquireOrigin, LockHash, WriteErrorHangs
<1>8. ASSUME NEW t \in Thread, AcquireCancelled(t) PROVE NoSpuriousMismatch'
  BY <1>3, <1>8, Zenon DEF AcquireCancelled
<1>9. ASSUME NEW t \in Thread, WriteErrorReturns(t) \/ CommitFails(t)
      PROVE  NoSpuriousMismatch'
  BY <1>2, <1>9, Zenon DEF WriteErrorReturns, CommitFails
<1>10. ASSUME NEW h \in Hash, DeleteChunk(h) PROVE NoSpuriousMismatch'
  BY <1>4, <1>10, Zenon DEF DeleteChunk
<1>11. CASE Crash \/ PowerLoss
  BY <1>3, <1>11, Zenon DEF Crash, PowerLoss, Restart
<1>12. CASE UNCHANGED vars
  BY <1>4, <1>12, Zenon DEF vars
<1> QED
  BY <1>5, <1>6, <1>7, <1>8, <1>9, <1>10, <1>11, <1>12, ZenonT(30) DEF Next

(* When peers and origin serve the bytes of the hash and files are lost    *)
(* only with the process, no transfer ever fails verification: the offset  *)
(* that downloadFromPeer and downloadFromOrigin resume at is always right, *)
(* whatever was cut, discarded, evicted or crashed before, for any number  *)
(* of threads and any contents.                                            *)
THEOREM ExactResume ==
  ASSUME ExactSources, "power" \notin Faults
  PROVE  Spec => []NoSpuriousMismatch
<1>1. Init => ResumeInv
  <2> SUFFICES ASSUME Init PROVE ResumeInv
    BY Zenon
  <2>1. PartialIsPrefix
    BY EmptyIsPrefix, ContentAssumption, Zenon DEF Init, PartialIsPrefix, Data
  <2>2. StreamIsRest /\ NoSpuriousMismatch
    BY Zenon DEF Init, StreamIsRest, InStep, NoSpuriousMismatch
  <2> QED
    BY <2>1, <2>2, Zenon DEF ResumeInv
<1>2. IntegrityInv /\ IntegrityInv' /\ ResumeInv /\ [Next]_vars => ResumeInv'
  BY StreamStep, OutcomeStep, Zenon DEF IntegrityInv, ResumeInv
<1>3. ResumeInv => NoSpuriousMismatch
  BY Zenon DEF ResumeInv
<1> QED
  BY <1>1, <1>2, <1>3, IntegrityInvariant, PTL DEF Spec
=============================================================================
