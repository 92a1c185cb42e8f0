----------------------------- MODULE ChunkStore -----------------------------
(***************************************************************************)
(* The content-addressed chunk store of a node (pkg/cache/cache.go) and    *)
(* the three transfers that write into it: PutChunk by the publisher, and  *)
(* downloadFromPeer and downloadFromOrigin by the sync engine              *)
(* (pkg/engine/engine.go).  A transfer appends to a hash-named partial     *)
(* file under the in-process mutex of that hash, verifies the bytes on     *)
(* disk, and renames the partial into the store.  A partial outlives a cut *)
(* transfer and a crash: the next transfer of the hash resumes it.         *)
(*                                                                         *)
(* A byte is a block of a chunk.  Content[h] is the one sequence whose     *)
(* SHA-256 is h, so "the digest of the file is h" is "the data equals      *)
(* Content[h]".                                                            *)
(***************************************************************************)
EXTENDS Integers, Sequences, FiniteSets

CONSTANTS
    Hash,         \* chunk hashes
    Thread,       \* goroutines of one daemon that move chunks
    Byte,         \* the values a block can have
    Content,      \* Content[h]: the bytes whose digest is h
    PeerFiles,    \* PeerFiles[h]: what the disks of peers can hold for h
    OriginFiles,  \* OriginFiles[h]: what the origin can serve for h
    Garbage,      \* a block whose write was not flushed before power loss
    MaxOrigin,    \* origin.maxConcurrency, the capacity of originSem
    Faults,       \* subset of {"disk", "crash", "power"}
    NoFile, NoThread, NoHash

Served == [data: Seq(Byte), size: Nat]
File   == [data: Seq(Byte), synced: BOOLEAN]

ASSUME ContentAssumption == Content \in [Hash -> Seq(Byte)]
ASSUME SourceAssumption ==
    /\ PeerFiles \in [Hash -> SUBSET Served]
    /\ OriginFiles \in [Hash -> SUBSET Served]
ASSUME BoundAssumption ==
    /\ Garbage \in Byte
    /\ MaxOrigin \in Nat \ {0}
    /\ Faults \subseteq {"disk", "crash", "power"}
ASSUME SentinelAssumption ==
    /\ NoFile \notin File
    /\ NoThread \notin Thread
    /\ NoHash \notin Hash

VARIABLES
    partial,    \* partial[h]: the file tmp/partial/<hash>, or NoFile
    committed,  \* committed[h]: the file chunks/sha256/xx/<hash>, or NoFile
    lock,       \* lock[h]: the thread that holds the mutex hashMu[h]
    originSem,  \* the threads that hold a slot of originSem
    pc,         \* where each thread stands in its transfer
    kind,       \* "put", "peer" or "origin"
    chunk,      \* the hash a thread transfers
    offset,     \* the size of the partial when the transfer resumed it
    todo,       \* the bytes the source has still to deliver
    clean,      \* the source serves the bytes of the hash
    size,       \* the size the serving peer announces with each slice
    total,      \* what the source returned as the size of the transfer
    outcome     \* how the last transfer of a thread ended

files   == <<partial, committed>>
sync    == <<lock, originSem>>
request == <<kind, chunk>>
stream  == <<offset, todo, clean, size, total>>
vars    == <<files, sync, pc, request, stream, outcome>>

Kind == {"put", "peer", "origin"}
PC   == {"idle", "sem", "lock", "prepare", "open", "stream", "verify",
         "rename", "unlock", "hung"}
Outcome == {"none", "ok", "error", "mismatch"}

(* The states of a thread between LockHash and the deferred unlock.        *)
Critical == {"prepare", "open", "stream", "verify", "rename", "unlock", "hung"}

Init ==
    /\ partial = [h \in Hash |-> NoFile]
    /\ committed = [h \in Hash |-> NoFile]
    /\ lock = [h \in Hash |-> NoThread]
    /\ originSem = {}
    /\ pc = [t \in Thread |-> "idle"]
    /\ kind = [t \in Thread |-> "put"]
    /\ chunk = [t \in Thread |-> NoHash]
    /\ offset = [t \in Thread |-> 0]
    /\ todo = [t \in Thread |-> <<>>]
    /\ clean = [t \in Thread |-> TRUE]
    /\ size = [t \in Thread |-> 0]
    /\ total = [t \in Thread |-> 0]
    /\ outcome = [t \in Thread |-> "none"]

-----------------------------------------------------------------------------
(* Helpers on files.                                                       *)

Data(f) == IF f = NoFile THEN <<>> ELSE f.data

HasChunk(h) == committed[h] # NoFile

PartialSize(h) == Len(Data(partial[h]))

DiscardPartial(h) == partial' = [partial EXCEPT ![h] = NoFile]

(* O_CREATE|O_APPEND: an existing partial keeps its bytes.                 *)
OpenPartial(h) ==
    partial' = [partial EXCEPT ![h] = [data |-> Data(@), synced |-> FALSE]]

Goto(t, l) == pc' = [pc EXCEPT ![t] = l]

(* A call has returned: its locals are gone.                               *)
Forget(T) ==
    /\ kind' = [t \in Thread |-> IF t \in T THEN "put" ELSE kind[t]]
    /\ chunk' = [t \in Thread |-> IF t \in T THEN NoHash ELSE chunk[t]]
    /\ offset' = [t \in Thread |-> IF t \in T THEN 0 ELSE offset[t]]
    /\ todo' = [t \in Thread |-> IF t \in T THEN <<>> ELSE todo[t]]
    /\ clean' = [t \in Thread |-> IF t \in T THEN TRUE ELSE clean[t]]
    /\ size' = [t \in Thread |-> IF t \in T THEN 0 ELSE size[t]]
    /\ total' = [t \in Thread |-> IF t \in T THEN 0 ELSE total[t]]
    /\ outcome' = [t \in Thread |-> IF t \in T THEN "none" ELSE outcome[t]]
    /\ pc' = [t \in Thread |-> IF t \in T THEN "idle" ELSE pc[t]]

(* A transfer returns: what is left of it is the deferred unlock.          *)
Return(t, o) ==
    /\ Goto(t, "unlock")
    /\ outcome' = [outcome EXCEPT ![t] = o]

-----------------------------------------------------------------------------
(* The start of a transfer.                                                *)

(* The publisher looks for the chunk just before it calls PutChunk.  The   *)
(* engine works from an inventory taken when the sync began, or retries:   *)
(* by the time a download starts, the chunk may be there already.          *)
Start(t, k, h) ==
    /\ pc[t] = "idle"
    /\ k = "put" => ~HasChunk(h)
    /\ kind' = [kind EXCEPT ![t] = k]
    /\ chunk' = [chunk EXCEPT ![t] = h]
    /\ Goto(t, IF k = "origin" THEN "sem" ELSE "lock")
    /\ UNCHANGED <<files, sync, stream, outcome>>

(* Variant: one slot too many.                                             *)
AcquireOriginOffByOne(t) ==
    /\ pc[t] = "sem"
    /\ Cardinality(originSem) <= MaxOrigin
    /\ originSem' = originSem \cup {t}
    /\ Goto(t, "lock")
    /\ UNCHANGED <<files, lock, request, stream, outcome>>

(* An origin read takes its slot before it takes the mutex of the hash.    *)
AcquireOrigin(t) ==
    /\ pc[t] = "sem"
    /\ Cardinality(originSem) < MaxOrigin
    /\ originSem' = originSem \cup {t}
    /\ Goto(t, "lock")
    /\ UNCHANGED <<files, lock, request, stream, outcome>>

(* Waiting for a slot, the context is cancelled.                           *)
AcquireCancelled(t) ==
    /\ pc[t] = "sem"
    /\ Forget({t})
    /\ UNCHANGED <<files, sync>>

(* Variant: the mutex does not exclude.                                    *)
LockHashUnguarded(t) ==
    /\ pc[t] = "lock"
    /\ lock' = [lock EXCEPT ![chunk[t]] = t]
    /\ Goto(t, "prepare")
    /\ UNCHANGED <<files, originSem, request, stream, outcome>>

LockHash(t) ==
    /\ pc[t] = "lock"
    /\ lock[chunk[t]] = NoThread
    /\ lock' = [lock EXCEPT ![chunk[t]] = t]
    /\ Goto(t, "prepare")
    /\ UNCHANGED <<files, originSem, request, stream, outcome>>

(* Variant: PutChunk appends to the partial it finds.                      *)
StartsAfreshUnlessPut(t) ==
    /\ kind[t] # "put"
    /\ PartialSize(chunk[t]) > Len(Content[chunk[t]])

(* PutChunk discards what is there.  A download resumes it, unless it is   *)
(* longer than the chunk; a peer download of an empty chunk never looks.   *)
StartsAfresh(t) ==
    LET h == chunk[t] IN
    \/ kind[t] = "put"
    \/ /\ PartialSize(h) > Len(Content[h])
       /\ kind[t] = "peer" => Len(Content[h]) > 0

Prepare(t) ==
    LET h == chunk[t] IN
    /\ pc[t] = "prepare"
    /\ offset' = [offset EXCEPT ![t] = IF StartsAfresh(t) THEN 0 ELSE PartialSize(h)]
    /\ IF StartsAfresh(t) THEN DiscardPartial(h) ELSE UNCHANGED partial
    /\ Goto(t, "open")
    /\ UNCHANGED <<committed, sync, request, todo, clean, size, total, outcome>>

-----------------------------------------------------------------------------
(* The stream into the partial file.                                       *)

Receive(t, f, bytes) ==
    LET h == chunk[t] IN
    /\ OpenPartial(h)
    /\ todo' = [todo EXCEPT ![t] = bytes]
    /\ clean' = [clean EXCEPT ![t] = f.data = Content[h]]
    /\ size' = [size EXCEPT ![t] = f.size]
    /\ Goto(t, "stream")
    /\ UNCHANGED <<committed, sync, request, offset, total, outcome>>

OpenPut(t) ==
    /\ pc[t] = "open"
    /\ kind[t] = "put"
    /\ LET c == Content[chunk[t]]
       IN  Receive(t, [data |-> c, size |-> 0], c)

(* GetChunk of the peer seeks to the offset and streams the rest.          *)
GetChunk(f, from) == SubSeq(f.data, from + 1, Len(f.data))

(* ReadChunkTo copies at most n bytes, fewer at the end of the file.       *)
ReadChunkTo(f, from, n) ==
    SubSeq(f.data, from + 1, IF Len(f.data) < from + n THEN Len(f.data) ELSE from + n)

OpenPeer(t) ==
    /\ pc[t] = "open"
    /\ kind[t] = "peer"
    /\ \E f \in PeerFiles[chunk[t]] :
          /\ offset[t] <= f.size
          /\ Receive(t, f, GetChunk(f, offset[t]))

(* GetChunk refuses an offset past the end of its file with OutOfRange,    *)
(* which containsCorrupt counts as corruption.                             *)
PeerOutOfRange(t) ==
    /\ pc[t] = "open"
    /\ kind[t] = "peer"
    /\ \E f \in PeerFiles[chunk[t]] : offset[t] > f.size
    /\ DiscardPartial(chunk[t])
    /\ Return(t, "error")
    /\ UNCHANGED <<committed, sync, request, stream>>

(* The origin is asked for the bytes that remain.                          *)
OpenOrigin(t) ==
    /\ pc[t] = "open"
    /\ kind[t] = "origin"
    /\ \E f \in OriginFiles[chunk[t]] :
          Receive(t, f, ReadChunkTo(f, offset[t], Len(Content[chunk[t]]) - offset[t]))

(* One slice goes through the pipe into the file.  A peer repeats the size *)
(* of its file with each slice, the origin counts what it has copied, and  *)
(* PutChunk commits without a size (0).                                    *)
Deliver(t) ==
    LET h == chunk[t] IN
    /\ pc[t] = "stream"
    /\ todo[t] # <<>>
    /\ partial' = [partial EXCEPT ![h] =
                      [data |-> Append(Data(@), Head(todo[t])), synced |-> FALSE]]
    /\ todo' = [todo EXCEPT ![t] = Tail(@)]
    /\ total' = [total EXCEPT ![t] =
                    IF kind[t] = "origin" THEN @ + 1 ELSE size[t]]
    /\ UNCHANGED <<committed, sync, pc, request, offset, clean, size, outcome>>

(* Variant: the file is closed without fsync.                              *)
FinishWithoutSync(t) ==
    /\ pc[t] = "stream"
    /\ todo[t] = <<>>
    /\ Goto(t, "verify")
    /\ UNCHANGED <<files, sync, request, stream, outcome>>

(* End of stream: AppendPartial syncs the file and closes it.              *)
Finish(t) ==
    LET h == chunk[t] IN
    /\ pc[t] = "stream"
    /\ todo[t] = <<>>
    /\ partial' = [partial EXCEPT ![h] = [data |-> Data(@), synced |-> TRUE]]
    /\ Goto(t, "verify")
    /\ UNCHANGED <<committed, sync, request, stream, outcome>>

(* The source refuses, fails, or the 30 s deadline passes: the partial is  *)
(* kept, neither synced nor verified.                                      *)
Cut(t) ==
    /\ pc[t] \in {"open", "stream"}
    /\ kind[t] # "put"
    /\ IF pc[t] = "open" THEN OpenPartial(chunk[t]) ELSE UNCHANGED partial
    /\ Return(t, "error")
    /\ UNCHANGED <<committed, sync, request, stream>>

(* A write to the partial fails.  PutChunkFromReader discards the file.  A *)
(* download returns the error if the source had nothing more to write ...  *)
WriteErrorReturns(t) ==
    /\ "disk" \in Faults
    /\ pc[t] = "stream"
    /\ \/ kind[t] = "put" /\ DiscardPartial(chunk[t])
       \/ kind[t] # "put" /\ Len(todo[t]) <= 1 /\ UNCHANGED partial
    /\ Return(t, "error")
    /\ UNCHANGED <<committed, sync, request, stream>>

(* ... otherwise it waits for the goroutine that writes to the pipe, which *)
(* nobody reads any more and nobody closes.                                *)
WriteErrorHangs(t) ==
    /\ "disk" \in Faults
    /\ pc[t] = "stream"
    /\ kind[t] # "put"
    /\ todo[t] # <<>>
    /\ Goto(t, "hung")
    /\ UNCHANGED <<files, sync, request, stream, outcome>>

-----------------------------------------------------------------------------
(* CommitPartial: verify what is on disk, then rename.                     *)

Incomplete(t) ==
    /\ pc[t] = "verify"
    /\ total[t] > 0 /\ PartialSize(chunk[t]) < total[t]
    /\ Return(t, "error")
    /\ UNCHANGED <<files, sync, request, stream>>

Mismatch(t) ==
    LET h == chunk[t] IN
    /\ pc[t] = "verify"
    /\ total[t] > 0 => PartialSize(h) >= total[t]
    /\ Data(partial[h]) # Content[h]
    /\ DiscardPartial(h)
    /\ Return(t, "mismatch")
    /\ UNCHANGED <<committed, sync, request, stream>>

Match(t) ==
    LET h == chunk[t] IN
    /\ pc[t] = "verify"
    /\ total[t] > 0 => PartialSize(h) >= total[t]
    /\ Data(partial[h]) = Content[h]
    /\ Goto(t, "rename")
    /\ UNCHANGED <<files, sync, request, stream, outcome>>

Rename(t) ==
    LET h == chunk[t] IN
    /\ pc[t] = "rename"
    /\ committed' = [committed EXCEPT ![h] = partial[h]]
    /\ partial' = [partial EXCEPT ![h] = NoFile]
    /\ Return(t, "ok")
    /\ UNCHANGED <<sync, request, stream>>

(* The partial cannot be read back, or the rename fails: it is kept.       *)
CommitFails(t) ==
    /\ "disk" \in Faults
    /\ pc[t] \in {"verify", "rename"}
    /\ Return(t, "error")
    /\ UNCHANGED <<files, sync, request, stream>>

(* Variant: the origin slot is not given back.                             *)
UnlockKeepsSlot(t) ==
    /\ pc[t] = "unlock"
    /\ lock' = [lock EXCEPT ![chunk[t]] = NoThread]
    /\ Forget({t})
    /\ UNCHANGED <<files, originSem>>

(* The deferred calls: the mutex of the hash, then the origin slot.        *)
Unlock(t) ==
    /\ pc[t] = "unlock"
    /\ lock' = [lock EXCEPT ![chunk[t]] = NoThread]
    /\ originSem' = originSem \ {t}
    /\ Forget({t})
    /\ UNCHANGED files

-----------------------------------------------------------------------------
(* DeleteChunk takes no lock: the quota manager evicts at any time.        *)
DeleteChunk(h) ==
    /\ HasChunk(h)
    /\ committed' = [committed EXCEPT ![h] = NoFile]
    /\ UNCHANGED <<partial, sync, pc, request, stream, outcome>>

(* What the file system may keep of a file: all of it once it is synced,   *)
(* otherwise some prefix, whose last block may be garbage.                 *)
Survivors(f) ==
    IF f = NoFile \/ f.synced THEN {f}
    ELSE {[data |-> SubSeq(f.data, 1, n), synced |-> TRUE] : n \in 0..Len(f.data)}
         \cup {[data |-> [f.data EXCEPT ![n] = Garbage], synced |-> TRUE]
                  : n \in 1..Len(f.data)}

Restart ==
    /\ lock' = [h \in Hash |-> NoThread]
    /\ originSem' = {}
    /\ Forget(Thread)

(* The daemon dies; the page cache keeps what it wrote.                    *)
Crash ==
    /\ "crash" \in Faults
    /\ Restart
    /\ UNCHANGED files

(* The machine dies.                                                       *)
PowerLoss ==
    /\ "power" \in Faults
    /\ Restart
    /\ partial' \in [Hash -> UNION {Survivors(partial[h]) : h \in Hash}]
    /\ committed' \in [Hash -> UNION {Survivors(committed[h]) : h \in Hash}]
    /\ \A h \in Hash : /\ partial'[h] \in Survivors(partial[h])
                       /\ committed'[h] \in Survivors(committed[h])

-----------------------------------------------------------------------------
(* The steps a thread takes without waiting for another one.               *)
Step(t) ==
    \/ Prepare(t)
    \/ OpenPut(t) \/ OpenPeer(t) \/ PeerOutOfRange(t) \/ OpenOrigin(t)
    \/ Deliver(t) \/ Finish(t) \/ Cut(t)
    \/ Incomplete(t) \/ Mismatch(t) \/ Match(t) \/ Rename(t) \/ Unlock(t)

Next ==
    \/ \E t \in Thread :
          \/ \E k \in Kind, h \in Hash : Start(t, k, h)
          \/ AcquireOrigin(t) \/ AcquireCancelled(t) \/ LockHash(t) \/ Step(t)
          \/ WriteErrorReturns(t) \/ WriteErrorHangs(t) \/ CommitFails(t)
    \/ \E h \in Hash : DeleteChunk(h)
    \/ Crash \/ PowerLoss

Spec == Init /\ [][Next]_vars

(* Goroutines are scheduled, and a stream that delivers nothing is cut by  *)
(* its 30 s deadline: Step is weakly fair.  sync.Mutex hands over to a     *)
(* starving waiter and blocked channel senders queue in order: the two     *)
(* waits are strongly fair.                                                *)
Fairness ==
    \A t \in Thread : /\ WF_vars(Step(t))
                      /\ SF_vars(LockHash(t))
                      /\ SF_vars(AcquireOrigin(t))

FairSpec == Spec /\ Fairness

-----------------------------------------------------------------------------
TypeOK ==
    /\ partial \in [Hash -> File \cup {NoFile}]
    /\ committed \in [Hash -> File \cup {NoFile}]
    /\ lock \in [Hash -> Thread \cup {NoThread}]
    /\ originSem \subseteq Thread
    /\ pc \in [Thread -> PC]
    /\ kind \in [Thread -> Kind]
    /\ chunk \in [Thread -> Hash \cup {NoHash}]
    /\ \A t \in Thread : pc[t] # "idle" => chunk[t] \in Hash
    /\ offset \in [Thread -> Nat]
    /\ todo \in [Thread -> Seq(Byte)]
    /\ clean \in [Thread -> BOOLEAN]
    /\ size \in [Thread -> Nat]
    /\ total \in [Thread -> Nat]
    /\ outcome \in [Thread -> Outcome]

(* At most one thread at a time works on the partial file of a hash:       *)
(* every transfer is bracketed by LockHash and its deferred unlock.        *)
PartialExclusive ==
    \A t, u \in Thread :
        t # u /\ pc[t] \in Critical /\ pc[u] \in Critical => chunk[t] # chunk[u]

(* Whatever peers and the origin sent, whatever was cut, resumed, evicted  *)
(* or lost with the power, a chunk in the store is the content of its hash *)
(* and is durable: CommitPartial renames only verified, synced bytes.      *)
CommittedIntegrity ==
    \A h \in Hash : HasChunk(h) =>
        committed[h].data = Content[h] /\ committed[h].synced

(* Resumption is exact: when every source serves the bytes of the hash, no *)
(* sequence of cuts, crashes, evictions and resumed transfers by other     *)
(* threads ever fails verification in CommitPartial.                       *)
NoSpuriousMismatch == \A t \in Thread : outcome[t] # "mismatch"

(* At most origin.maxConcurrency threads read from the origin, and every   *)
(* reader of the origin holds a slot.                                      *)
OriginCap ==
    /\ Cardinality(originSem) <= MaxOrigin
    /\ \A t \in Thread : kind[t] = "origin" /\ pc[t] \in Critical => t \in originSem

(* An origin download is rejected as corrupt only if the origin served     *)
(* wrong bytes: falling back to a clean origin succeeds.                   *)
CleanOriginAccepted ==
    \A t \in Thread : kind[t] = "origin" /\ outcome[t] = "mismatch" => ~clean[t]

(* A transfer that was started returns: it gives back the mutex of its     *)
(* hash and its origin slot, so that the engine can retry or fall back.    *)
TransferReturns == \A t \in Thread : pc[t] # "idle" ~> pc[t] = "idle"

-----------------------------------------------------------------------------
(* What makes CommittedIntegrity and PartialExclusive inductive.           *)

(* A thread inside a critical section is the holder of the mutex.          *)
HoldsMutex ==
    \A t \in Thread : pc[t] \in Critical => lock[chunk[t]] = t

(* Between fsync and rename the partial exists and stays synced, and once  *)
(* it is verified it stays what was verified.                              *)
Staged ==
    \A t \in Thread :
        LET f == partial[chunk[t]] IN
        /\ pc[t] \in {"verify", "rename"} => f # NoFile /\ f.synced
        /\ pc[t] = "rename" => f.data = Content[chunk[t]]

IntegrityInv == TypeOK /\ HoldsMutex /\ Staged /\ CommittedIntegrity

(* What makes OriginCap inductive: a slot is held from AcquireOrigin on.   *)
SlotInv ==
    /\ IsFiniteSet(originSem)
    /\ Cardinality(originSem) <= MaxOrigin
    /\ \A t \in Thread :
          kind[t] = "origin" /\ pc[t] \in Critical \cup {"lock"} => t \in originSem

(* Every source serves the bytes of the hash.                              *)
ExactSources ==
    \A h \in Hash : \A f \in PeerFiles[h] \cup OriginFiles[h] :
        f = [data |-> Content[h], size |-> Len(Content[h])]

(* What makes NoSpuriousMismatch inductive: a partial is a prefix of the   *)
(* content; a stream starts at its end, delivers the rest, and is over     *)
(* when the partial is complete.                                           *)
IsPrefixOf(s, c) ==
    /\ Len(s) <= Len(c)
    /\ \A i \in 1..Len(s) : s[i] = c[i]
IsRestOf(r, s, c) ==
    /\ Len(s) + Len(r) = Len(c)
    /\ \A i \in 1..Len(r) : r[i] = c[Len(s) + i]
PartialIsPrefix == \A h \in Hash : IsPrefixOf(Data(partial[h]), Content[h])
InStep(t) ==
    LET s == Data(partial[chunk[t]])
        c == Content[chunk[t]]
    IN  /\ pc[t] = "open" => offset[t] = Len(s) /\ (kind[t] = "put" => s = <<>>)
        /\ pc[t] = "stream" => IsRestOf(todo[t], s, c)
        /\ pc[t] = "verify" => Len(s) = Len(c)
StreamIsRest == \A t \in Thread : InStep(t)
ResumeInv == PartialIsPrefix /\ StreamIsRest /\ NoSpuriousMismatch

=============================================================================
