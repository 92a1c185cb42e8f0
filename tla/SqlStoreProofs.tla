--------------------------- MODULE SqlStoreProofs ---------------------------
(***************************************************************************)
(* Proofs about the SQL driver of the tracker's store, for any number of   *)
(* nodes, chunks, artifacts and handlers, any resolution of the clock and  *)
(* any limits: the driver implements the contract of module Store, and its *)
(* stamps and its pruning are as recent as StampsRecent and                *)
(* PrunesOnlySilent say, and a lookup next to the writers answers what     *)
(* LocateExact says, however its batches fall between their commits.  The  *)
(* inductive invariant says what the open transaction has made of the      *)
(* tables so far, and that a call holds the write lock exactly from its    *)
(* first statement to its commit.                                          *)
(***************************************************************************)
EXTENDS SqlStore, TLAPS

-----------------------------------------------------------------------------
(* The tables and the requests.                                            *)
DB == [hb : [Node -> {Absent} \cup Nat], seeds : SUBSET (Artifact \X Node),
       chunks : SUBSET (Chunk \X Node), arts : SUBSET Artifact]

Busy == [op : {"register", "beat", "deregister", "prune", "report"},
         n : Node \cup {Free}, at : Nat,
         pc : {"exec", "seeds", "chunks", "peers", "touch", "rows", "commit"},
         todo : SUBSET Chunk]

Typed ==
    /\ now \in Nat
    /\ db \in DB /\ work \in DB
    /\ lock \in Call \cup {Free}
    /\ sign \in [Node -> Nat]
    /\ call \in [Call -> {Idle} \cup Busy]

(* A call is not older than the limit of bind.                             *)
Timely ==
    \A c \in Call : call[c].op # "idle" => call[c].at <= now /\ now - call[c].at <= MaxWait

(* A call has the lock exactly from its first statement to its commit.     *)
Phase(c) ==
    /\ call[c].op = "idle" => lock # c
    /\ call[c].op \in {"register", "beat"} =>
          call[c].n \in Node /\ call[c].pc = "exec" /\ lock # c
    /\ call[c].op \in {"deregister", "prune"} =>
          /\ call[c].op = "deregister" => call[c].n \in Node
          /\ call[c].pc \in {"seeds", "chunks", "peers", "commit"}
          /\ (lock = c) <=> (call[c].pc # "seeds")
    /\ call[c].op = "report" =>
          /\ call[c].n \in Node
          /\ call[c].pc \in {"touch", "rows", "commit"}
          /\ (lock = c) <=> (call[c].pc # "touch")

Phases == \A c \in Call : Phase(c)

(* What the open transaction has made of the tables: the statements so far *)
(* applied to what is committed.                                           *)
Deleted(c) ==
    /\ work.arts = db.arts
    /\ work.seeds = OfOthers(db.seeds, Doomed(c, db))
    /\ work.chunks = IF call[c].pc = "chunks" THEN db.chunks
                     ELSE OfOthers(db.chunks, Doomed(c, db))
    /\ work.hb = IF call[c].pc = "commit"
                 THEN [n \in Node |-> IF n \in Doomed(c, db) THEN Absent ELSE db.hb[n]]
                 ELSE db.hb

Reported(c) ==
    /\ work.arts = db.arts /\ work.seeds = db.seeds
    /\ \E H \in SUBSET Chunk : work.chunks = db.chunks \cup (H \X {call[c].n})
    /\ work.hb = IF db.hb[call[c].n] = Absent THEN db.hb
                 ELSE [db.hb EXCEPT ![call[c].n] = Unix(call[c].at)]

Working ==
    /\ lock = Free => work = db
    /\ lock # Free => IF call[lock].op = "report" THEN Reported(lock) ELSE Deleted(lock)

IInv == Typed /\ Timely /\ Phases /\ Working /\ StampsRecent

-----------------------------------------------------------------------------
(* Unix() rounds down, by less than a second, before the epoch too.        *)
LEMMA UnixBounds ==
    ASSUME NEW t \in Int
    PROVE  /\ Unix(t) \in Int
           /\ Unix(t) * Second <= t
           /\ t < Unix(t) * Second + Second
BY SqlAssumption DEF Unix

(* A time after the epoch has a natural stamp.                             *)
LEMMA UnixNat ==
    ASSUME NEW t \in Nat
    PROVE  Unix(t) \in Nat
BY SqlAssumption DEF Unix

(* A stamp that is smaller is smaller by a second at least.                *)
LEMMA Scaled ==
    ASSUME NEW a \in Int, NEW b \in Int, a < b
    PROVE  a * Second + Second <= b * Second
<1>1. (b - a - 1) * Second >= 0
  BY SqlAssumption
<1>2. b * Second = a * Second + (b - a - 1) * Second + Second
  BY SqlAssumption
<1>3. a * Second \in Int /\ b * Second \in Int /\ (b - a - 1) * Second \in Int
  BY SqlAssumption
<1> QED BY <1>1, <1>2, <1>3, SqlAssumption

(* A stamp is never mistaken for its absence.                              *)
LEMMA ScaledNat ==
    ASSUME NEW a \in Nat
    PROVE  a * Second \in Nat /\ a * Second # Absent
BY SqlAssumption DEF Absent


-----------------------------------------------------------------------------
(* The inductive invariant holds at the start, and in every step.          *)
LEMMA InitInv == Init => IInv
<1> SUFFICES ASSUME Init PROVE IInv
  BY Zenon
<1>1. db \in DB /\ work = db
  BY Zenon DEF Init, Tables, DB
<1>2. \A c \in Call : call[c] = Idle
  BY Zenon DEF Init
<1>3. Typed
  BY <1>1, Zenon DEF Init, Typed
<1>4. Timely
  BY <1>2 DEF Timely, Idle
<1>5. Phases
  BY <1>2, SqlAssumption, Zenon DEF Init, Phases, Phase, Idle
<1>6. Working /\ StampsRecent
  BY <1>1, Zenon DEF Init, Working, StampsRecent, Tables
<1> QED BY <1>3, <1>4, <1>5, <1>6, Zenon DEF IInv

(* What a call's request is while it is busy.                              *)
LEMMA BusyCall ==
    ASSUME Typed, NEW c \in Call, call[c].op # "idle"
    PROVE  call[c] \in Busy
BY DEF Typed, Idle

(* The same, from the statement it is at.                                  *)
LEMMA AtWork ==
    ASSUME Typed, NEW c \in Call, call[c].pc # "none"
    PROVE  call[c] \in Busy /\ call[c].op # "idle"
BY DEF Typed, Idle, Busy

(* A new request waits for the lock and has changed nothing yet.           *)
LEMMA BeginInv ==
    ASSUME IInv, NEW c \in Call, NEW req \in Busy, req.at = now, Begin(c, req),
           lock # c /\ lock' = lock =>
             /\ req.op \in {"register", "beat"} => req.n \in Node /\ req.pc = "exec"
             /\ req.op = "deregister" => req.n \in Node
             /\ req.op \in {"deregister", "prune"} => req.pc = "seeds"
             /\ req.op = "report" => req.n \in Node /\ req.pc = "touch"
    PROVE  IInv'
<1>1. /\ call' = [call EXCEPT ![c] = req] /\ call[c].op = "idle"
      /\ UNCHANGED <<now, db, work, lock, sign>>
  BY Zenon DEF Begin
<1>2. lock # c
  BY <1>1, Zenon DEF IInv, Phases, Phase
<1>3. Typed'
  BY <1>1, Zenon DEF IInv, Typed
<1>4. call'[c] = req /\ \A d \in Call \ {c} : call'[d] = call[d]
  BY <1>1, Zenon DEF IInv, Typed
<1>5. Timely'
  BY <1>1, <1>4, SqlAssumption DEF IInv, Typed, Timely
<1>6. Phases'
  BY <1>1, <1>2, <1>4 DEF IInv, Phases, Phase, Busy
<1>7. Working'
  <2>1. lock # Free => lock \in Call /\ call'[lock] = call[lock]
    BY <1>2, <1>4, Zenon DEF IInv, Typed
  <2> QED BY <1>1, <2>1, ZenonT(40) DEF IInv, Working, Deleted, Reported, Doomed, Cutoff
<1>8. StampsRecent'
  BY <1>1, Zenon DEF IInv, StampsRecent
<1> QED BY <1>3, <1>5, <1>6, <1>7, <1>8, Zenon DEF IInv

(* A call that ends without the lock disturbs nobody.                      *)
LEMMA ReturnKeeps ==
    ASSUME IInv, NEW c \in Call, call' = [call EXCEPT ![c] = Idle], now' = now,
           lock' = IF lock = c THEN Free ELSE lock
    PROVE  Timely' /\ Phases' /\ call' \in [Call -> {Idle} \cup Busy]
<1>1. /\ call'[c] = Idle /\ \A d \in Call \ {c} : call'[d] = call[d]
      /\ call' \in [Call -> {Idle} \cup Busy]
  BY Zenon DEF IInv, Typed
<1>2. Timely'
  BY <1>1, Zenon DEF IInv, Timely, Idle
<1>3. Phases'
  <2> SUFFICES ASSUME NEW d \in Call PROVE Phase(d)'
    BY Zenon DEF Phases
  <2>1. CASE d = c
    BY <2>1, <1>1, SqlAssumption, Zenon DEF Phase, Idle
  <2>2. CASE d # c
    <3>1. (lock' = d) <=> (lock = d)
      BY <2>2, SqlAssumption, Zenon
    <3> QED BY <2>2, <1>1, <3>1, Zenon DEF IInv, Phases, Phase
  <2> QED BY <2>1, <2>2, Zenon
<1> QED BY <1>1, <1>2, <1>3, Zenon

(* Stamping a peer changes its last_heartbeat alone.                       *)
LEMMA StampedDB ==
    ASSUME NEW d \in DB, NEW n \in Node, NEW t \in Nat
    PROVE  /\ Stamped(d, n, t) \in DB
           /\ Stamped(d, n, t).hb = [d.hb EXCEPT ![n] = Unix(t)]
           /\ Stamped(d, n, t).seeds = d.seeds /\ Stamped(d, n, t).chunks = d.chunks
           /\ Stamped(d, n, t).arts = d.arts
BY UnixNat, Zenon DEF Stamped, DB

(* The stamp of a call that has just taken effect is recent.               *)
LEMMA RecentStamp ==
    ASSUME IInv, NEW c \in Call, call[c].op # "idle"
    PROVE  /\ Unix(call[c].at) * Second \in 0..now
           /\ now - Unix(call[c].at) * Second < MaxWait + Second
<1>1. call[c].at \in Nat /\ now \in Nat
  BY BusyCall, Zenon DEF IInv, Typed, Busy
<1>2. call[c].at <= now /\ now - call[c].at <= MaxWait
  BY Zenon DEF IInv, Timely
<1>3. Unix(call[c].at) * Second \in Nat
  BY <1>1, UnixNat, ScaledNat, Zenon
<1>4. Unix(call[c].at) * Second <= call[c].at /\ call[c].at < Unix(call[c].at) * Second + Second
  BY <1>1, UnixBounds
<1> QED BY <1>1, <1>2, <1>3, <1>4, SqlAssumption

(* Registrations and heartbeats.                                           *)
LEMMA ExecInv ==
    ASSUME IInv, NEW c \in Call, Exec(c)
    PROVE  IInv'
<1> DEFINE n == call[c].n
<1>1. call[c].pc = "exec" /\ lock = Free /\ Return(c) /\ now' = now /\ lock' = lock
  BY Zenon DEF Exec
<1>2. call[c].op # "idle" /\ lock # c
  BY <1>1, AtWork, SqlAssumption, Zenon DEF IInv
<1>3. call[c] \in Busy /\ n \in Node /\ call[c].at \in Nat
  BY <1>1, <1>2, BusyCall, Zenon DEF IInv, Phases, Phase, Busy
<1>4. Timely' /\ Phases' /\ call' \in [Call -> {Idle} \cup Busy]
  BY <1>1, <1>2, ReturnKeeps, Zenon DEF Return
<1>5. CASE call[c].op = "register" \/ db.hb[n] # Absent
  <2>1. db' = Stamped(db, n, call[c].at) /\ work' = db' /\ sign' = [sign EXCEPT ![n] = now]
    BY <1>5, Zenon DEF Exec, Committed
  <2>2. db' \in DB /\ db'.hb = [db.hb EXCEPT ![n] = Unix(call[c].at)]
    BY <1>3, <2>1, StampedDB, ZenonT(40) DEF IInv, Typed
  <2>3. Typed'
    BY <1>1, <1>3, <1>4, <2>1, <2>2, Zenon DEF IInv, Typed
  <2>4. Working'
    BY <1>1, <2>1, Zenon DEF Working
  <2>5. StampsRecent'
    <3> SUFFICES ASSUME NEW m \in Node, db'.hb[m] # Absent
                 PROVE  sign'[m] - db'.hb[m] * Second < MaxWait + Second
      BY Zenon DEF StampsRecent
    <3>1. CASE m = n
      <4>1. db'.hb[m] = Unix(call[c].at) /\ sign'[m] = now
        BY <3>1, <2>1, <2>2, <1>3, Zenon DEF IInv, Typed, DB
      <4> QED BY <4>1, <1>2, RecentStamp, Zenon
    <3>2. CASE m # n
      BY <3>2, <2>1, <2>2, <1>3, Zenon DEF IInv, Typed, DB, StampsRecent
    <3> QED BY <3>1, <3>2, Zenon
  <2> QED BY <1>4, <2>3, <2>4, <2>5, Zenon DEF IInv
<1>6. CASE ~(call[c].op = "register" \/ db.hb[n] # Absent)
  <2>1. UNCHANGED <<db, work, sign>>
    BY <1>6, Zenon DEF Exec
  <2> QED BY <1>1, <1>4, <2>1, Zenon DEF IInv, Typed, Working, StampsRecent
<1> QED BY <1>5, <1>6, Zenon


-----------------------------------------------------------------------------
(* A statement of a transaction changes what only its own call sees.       *)
LEMMA StatementInv ==
    ASSUME IInv, NEW c \in Call, call[c].pc # "none", lock \in {Free, c},
           NEW pc \in {"chunks", "peers", "rows", "commit"}, NEW todo \in SUBSET Chunk,
           call' = [call EXCEPT ![c] = [@ EXCEPT !.pc = pc, !.todo = todo]],
           lock' = c, work' \in DB, UNCHANGED <<now, db, sign>>,
           Phase(c)', Working'
    PROVE  IInv'
<1>1. call[c] \in Busy
  BY AtWork, Zenon DEF IInv
<1>2. [call[c] EXCEPT !.pc = pc, !.todo = todo] \in Busy
  BY <1>1, Zenon DEF Busy
<1>3. Typed'
  BY <1>2, Zenon DEF IInv, Typed
<1>4. \A d \in Call \ {c} : call'[d] = call[d]
  BY Zenon DEF IInv, Typed
<1>5. call'[c].at = call[c].at /\ call[c].op # "idle"
  BY <1>1, Zenon DEF IInv, Typed, Busy
<1>6. Timely'
  BY <1>4, <1>5, Zenon DEF IInv, Timely
<1>7. Phases'
  <2> SUFFICES ASSUME NEW d \in Call \ {c} PROVE Phase(d)'
    BY Zenon DEF Phases
  <2>1. lock # d /\ lock' # d
    BY SqlAssumption, Zenon
  <2> QED BY <1>4, <2>1, Zenon DEF IInv, Phases, Phase
<1>8. StampsRecent'
  BY Zenon DEF IInv, StampsRecent
<1> QED BY <1>3, <1>6, <1>7, <1>8, Zenon DEF IInv

(* Moving on in a call does not change whom it deletes.                    *)
LEMMA DoomedKept ==
    ASSUME NEW c \in Call, db' = db, call'[c].op = call[c].op, call'[c].n = call[c].n,
           call'[c].at = call[c].at
    PROVE  Doomed(c, db)' = Doomed(c, db)
BY Zenon DEF Doomed, Cutoff

(* Whom a call deletes depends on the heartbeats alone.                    *)
LEMMA DoomedByBeats ==
    ASSUME NEW c \in Call, work.hb = db.hb
    PROVE  Doomed(c, work) = Doomed(c, db)
BY Zenon DEF Doomed

(* What a statement of a transaction does to its call.                     *)
LEMMA StepFacts ==
    ASSUME IInv, NEW c \in Call,
           NEW from \in {"seeds", "chunks", "peers", "touch"},
           NEW to \in {"chunks", "peers", "rows", "commit"}, NEW d, Step(c, from, to, d)
    PROVE  /\ call[c].pc = from /\ lock \in {Free, c} /\ lock' = c /\ work' = d
           /\ call[c] \in Busy /\ call[c].op # "idle"
           /\ call'[c] = [call[c] EXCEPT !.pc = to, !.todo = call[c].todo]
           /\ call' = [call EXCEPT ![c] = [@ EXCEPT !.pc = to, !.todo = call[c].todo]]
           /\ call'[c].op = call[c].op /\ call'[c].n = call[c].n
           /\ call'[c].at = call[c].at /\ call'[c].pc = to
           /\ UNCHANGED <<now, db, sign>>
<1>1. /\ call[c].pc = from /\ lock \in {Free, c} /\ lock' = c /\ work' = d
      /\ call' = [call EXCEPT ![c].pc = to] /\ UNCHANGED <<now, db, sign>>
  BY Zenon DEF Step
<1>2. call[c] \in Busy /\ call[c].op # "idle"
  BY <1>1, AtWork, Zenon DEF IInv
<1>3. [call[c] EXCEPT !.pc = to] = [call[c] EXCEPT !.pc = to, !.todo = call[c].todo]
  BY <1>2, Zenon DEF Busy
<1>4. call' = [call EXCEPT ![c] = [@ EXCEPT !.pc = to, !.todo = call[c].todo]]
  BY <1>1, <1>3, Zenon DEF IInv, Typed
<1>5. call'[c] = [call[c] EXCEPT !.pc = to, !.todo = call[c].todo]
  BY <1>4, Zenon DEF IInv, Typed
<1>6. call'[c].op = call[c].op /\ call'[c].n = call[c].n /\ call'[c].at = call[c].at /\ call'[c].pc = to
  BY <1>5, <1>2, Zenon DEF Busy
<1> QED BY <1>1, <1>2, <1>4, <1>5, <1>6, Zenon

(* The first statement of a deregistration or a prune.                     *)
LEMMA DeleteSeedsInv ==
    ASSUME IInv, NEW c \in Call, DeleteSeeds(c)
    PROVE  IInv'
<1> DEFINE d == [work EXCEPT !.seeds = OfOthers(@, Doomed(c, work))]
<1>1. Step(c, "seeds", "chunks", d)
  BY Zenon DEF DeleteSeeds
<1> HIDE DEF d
<1>2. /\ call[c].pc = "seeds" /\ lock \in {Free, c} /\ lock' = c /\ work' = d
      /\ call[c] \in Busy /\ call[c].op # "idle"
      /\ call' = [call EXCEPT ![c] = [@ EXCEPT !.pc = "chunks", !.todo = call[c].todo]]
      /\ call'[c].op = call[c].op /\ call'[c].n = call[c].n
      /\ call'[c].at = call[c].at /\ call'[c].pc = "chunks"
      /\ UNCHANGED <<now, db, sign>>
  BY <1>1, StepFacts, Zenon
<1>3. call[c].op \in {"deregister", "prune"} /\ lock = Free /\ work = db
  BY <1>2, SqlAssumption, Zenon DEF IInv, Phases, Phase, Busy, Working
<1>4. d.seeds = OfOthers(db.seeds, Doomed(c, db)) /\ d.hb = db.hb /\ d.chunks = db.chunks
      /\ d.arts = db.arts /\ d \in DB
  BY <1>3, Zenon DEF d, OfOthers, IInv, Typed, DB
<1>5. Phase(c)'
  BY <1>2, <1>3, Zenon DEF Phase, IInv, Phases
<1>6. Deleted(c)'
  <2>1. Doomed(c, db)' = Doomed(c, db)
    BY <1>2, DoomedKept, Zenon
  <2> QED BY <1>2, <1>4, <2>1, Zenon DEF Deleted, OfOthers
<1>7. Working'
  BY <1>2, <1>3, <1>6, SqlAssumption, Zenon DEF Working
<1>8. call[c].todo \in SUBSET Chunk
  BY <1>2, Zenon DEF Busy
<1> QED BY <1>2, <1>4, <1>5, <1>7, <1>8, StatementInv, Zenon

(* The second one.                                                         *)
LEMMA DeleteChunksInv ==
    ASSUME IInv, NEW c \in Call, DeleteChunks(c)
    PROVE  IInv'
<1> DEFINE d == [work EXCEPT !.chunks = OfOthers(@, Doomed(c, work))]
<1>1. Step(c, "chunks", "peers", d)
  BY Zenon DEF DeleteChunks
<1> HIDE DEF d
<1>2. /\ call[c].pc = "chunks" /\ lock \in {Free, c} /\ lock' = c /\ work' = d
      /\ call[c] \in Busy /\ call[c].op # "idle"
      /\ call' = [call EXCEPT ![c] = [@ EXCEPT !.pc = "peers", !.todo = call[c].todo]]
      /\ call'[c].op = call[c].op /\ call'[c].n = call[c].n
      /\ call'[c].at = call[c].at /\ call'[c].pc = "peers"
      /\ UNCHANGED <<now, db, sign>>
  BY <1>1, StepFacts, ZenonT(30)
<1>3. call[c].op \in {"deregister", "prune"} /\ lock = c /\ Deleted(c)
  BY <1>2, SqlAssumption, ZenonT(30) DEF IInv, Phases, Phase, Busy, Working
<1>4. work.hb = db.hb /\ work.chunks = db.chunks /\ work.arts = db.arts
      /\ work.seeds = OfOthers(db.seeds, Doomed(c, db))
  BY <1>2, <1>3, Zenon DEF Deleted
<1>5. d.chunks = OfOthers(db.chunks, Doomed(c, db)) /\ d.hb = db.hb /\ d.seeds = work.seeds
      /\ d.arts = db.arts /\ d \in DB
  BY <1>4, DoomedByBeats, Zenon DEF d, OfOthers, IInv, Typed, DB
<1>6. Phase(c)'
  BY <1>2, <1>3, Zenon DEF Phase, IInv, Phases
<1>7. Deleted(c)'
  <2>1. Doomed(c, db)' = Doomed(c, db)
    BY <1>2, DoomedKept, Zenon
  <2> QED BY <1>2, <1>4, <1>5, <2>1, Zenon DEF Deleted, OfOthers
<1>8. Working'
  BY <1>2, <1>3, <1>7, SqlAssumption, Zenon DEF Working
<1>9. call[c].todo \in SUBSET Chunk
  BY <1>2, Zenon DEF Busy
<1> QED BY <1>2, <1>5, <1>6, <1>8, <1>9, StatementInv, Zenon

(* The third one.                                                          *)
LEMMA DeletePeersInv ==
    ASSUME IInv, NEW c \in Call, DeletePeers(c)
    PROVE  IInv'
<1> DEFINE d == [work EXCEPT !.hb = [n \in Node |-> IF n \in Doomed(c, work) THEN Absent ELSE @[n]]]
<1>1. Step(c, "peers", "commit", d)
  BY Zenon DEF DeletePeers
<1> HIDE DEF d
<1>2. /\ call[c].pc = "peers" /\ lock \in {Free, c} /\ lock' = c /\ work' = d
      /\ call[c] \in Busy /\ call[c].op # "idle"
      /\ call' = [call EXCEPT ![c] = [@ EXCEPT !.pc = "commit", !.todo = call[c].todo]]
      /\ call'[c].op = call[c].op /\ call'[c].n = call[c].n
      /\ call'[c].at = call[c].at /\ call'[c].pc = "commit"
      /\ UNCHANGED <<now, db, sign>>
  BY <1>1, StepFacts, ZenonT(30)
<1>3. call[c].op \in {"deregister", "prune"} /\ lock = c /\ Deleted(c)
  BY <1>2, SqlAssumption, ZenonT(30) DEF IInv, Phases, Phase, Busy, Working
<1>4. work.hb = db.hb /\ work.arts = db.arts
      /\ work.chunks = OfOthers(db.chunks, Doomed(c, db))
      /\ work.seeds = OfOthers(db.seeds, Doomed(c, db))
  BY <1>2, <1>3, Zenon DEF Deleted
<1>5. /\ d.hb = [n \in Node |-> IF n \in Doomed(c, db) THEN Absent ELSE db.hb[n]]
      /\ d.chunks = work.chunks /\ d.seeds = work.seeds /\ d.arts = db.arts /\ d \in DB
  <2>1. Doomed(c, work) = Doomed(c, db)
    BY <1>4, DoomedByBeats, Zenon
  <2> QED BY <1>4, <2>1, Zenon DEF d, IInv, Typed, DB
<1>6. Phase(c)'
  BY <1>2, <1>3, Zenon DEF Phase, IInv, Phases
<1>7. Deleted(c)'
  <2>1. Doomed(c, db)' = Doomed(c, db)
    BY <1>2, DoomedKept, Zenon
  <2> QED BY <1>2, <1>4, <1>5, <2>1 DEF Deleted, OfOthers
<1>8. Working'
  BY <1>2, <1>3, <1>7, SqlAssumption, Zenon DEF Working
<1>9. call[c].todo \in SUBSET Chunk
  BY <1>2, Zenon DEF Busy
<1> QED BY <1>2, <1>5, <1>6, <1>8, <1>9, StatementInv, Zenon

(* The first statement of a report.                                        *)
LEMMA TouchPeerInv ==
    ASSUME IInv, NEW c \in Call, TouchPeer(c)
    PROVE  IInv'
<1> DEFINE d == IF work.hb[call[c].n] = Absent THEN work
                ELSE Stamped(work, call[c].n, call[c].at)
<1>1. Step(c, "touch", "rows", d)
  BY Zenon DEF TouchPeer
<1> HIDE DEF d
<1>2. /\ call[c].pc = "touch" /\ lock \in {Free, c} /\ lock' = c /\ work' = d
      /\ call[c] \in Busy /\ call[c].op # "idle"
      /\ call' = [call EXCEPT ![c] = [@ EXCEPT !.pc = "rows", !.todo = call[c].todo]]
      /\ call'[c].op = call[c].op /\ call'[c].n = call[c].n
      /\ call'[c].at = call[c].at /\ call'[c].pc = "rows"
      /\ UNCHANGED <<now, db, sign>>
  BY <1>1, StepFacts, Zenon
<1>3. call[c].op = "report" /\ call[c].n \in Node /\ lock = Free /\ work = db
  BY <1>2, SqlAssumption, Zenon DEF IInv, Phases, Phase, Busy, Working
<1>4. /\ d.seeds = db.seeds /\ d.chunks = db.chunks /\ d.arts = db.arts /\ d \in DB
      /\ d.hb = IF db.hb[call[c].n] = Absent THEN db.hb
                ELSE [db.hb EXCEPT ![call[c].n] = Unix(call[c].at)]
  <2>1. db \in DB /\ call[c].at \in Nat
    BY <1>2, Zenon DEF IInv, Typed, Busy
  <2> QED BY <1>3, <2>1, StampedDB, ZenonT(30) DEF d
<1>5. Phase(c)'
  BY <1>2, <1>3, Zenon DEF Phase, IInv, Phases
<1>6. Reported(c)'
  <2>1. d.chunks = db.chunks \cup ({} \X {call[c].n})
    BY <1>4, Zenon
  <2>2. \E H \in SUBSET Chunk : d.chunks = db.chunks \cup (H \X {call[c].n})
    BY <2>1, Zenon
  <2> QED BY <1>2, <1>4, <2>2, Zenon DEF Reported, Unix
<1>7. Working'
  BY <1>2, <1>3, <1>6, SqlAssumption, Zenon DEF Working
<1>8. call[c].todo \in SUBSET Chunk
  BY <1>2, Zenon DEF Busy
<1> QED BY <1>2, <1>4, <1>5, <1>7, <1>8, StatementInv, Zenon

(* The rest of a report: another row, or the end of the rows.              *)
LEMMA ReportOn ==
    ASSUME IInv, NEW c \in Call, call[c].pc = "rows", lock = c,
           NEW pc \in {"rows", "commit"}, NEW todo \in SUBSET Chunk,
           call' = [call EXCEPT ![c] = [@ EXCEPT !.pc = pc, !.todo = todo]],
           NEW H \in SUBSET Chunk, work' = [work EXCEPT !.chunks = @ \cup (H \X {call[c].n})],
           UNCHANGED <<now, db, lock, sign>>
    PROVE  IInv'
<1>1. call[c] \in Busy /\ call[c].op # "idle"
  BY AtWork, Zenon DEF IInv
<1>2. call[c].op = "report" /\ call[c].n \in Node /\ Reported(c)
  BY <1>1, SqlAssumption, Zenon DEF IInv, Phases, Phase, Busy, Working
<1>3. call'[c] = [call[c] EXCEPT !.pc = pc, !.todo = todo]
  BY Zenon DEF IInv, Typed
<1>4. /\ call'[c].op = call[c].op /\ call'[c].n = call[c].n
      /\ call'[c].at = call[c].at /\ call'[c].pc = pc
  BY <1>1, <1>3, ZenonT(40) DEF Busy
<1>5. /\ work' \in DB /\ work'.hb = work.hb /\ work'.seeds = work.seeds
      /\ work'.arts = work.arts /\ work'.chunks = work.chunks \cup (H \X {call[c].n})
  <2>1. H \X {call[c].n} \subseteq Chunk \X Node
    BY <1>2, Zenon
  <2> QED BY <2>1, Zenon DEF IInv, Typed, DB
<1>6. Reported(c)'
  <2>1. PICK G \in SUBSET Chunk : work.chunks = db.chunks \cup (G \X {call[c].n})
    BY <1>2, Zenon DEF Reported
  <2>2. work'.chunks = db.chunks \cup ((G \cup H) \X {call[c].n})
    BY <1>5, <2>1, Zenon
  <2>3. \E J \in SUBSET Chunk : work'.chunks = db'.chunks \cup (J \X {call'[c].n})
    BY <1>4, <2>2, Zenon
  <2> QED BY <1>2, <1>4, <1>5, <2>3, ZenonT(30) DEF Reported, Unix
<1>7. Phase(c)'
  BY <1>2, <1>4, Zenon DEF Phase
<1>8. Working'
  BY <1>2, <1>4, <1>6, SqlAssumption, Zenon DEF Working
<1> QED BY <1>5, <1>7, <1>8, StatementInv, Zenon

(* A row of a report.                                                      *)
LEMMA UpsertChunkInv ==
    ASSUME IInv, NEW c \in Call, NEW h \in Chunk, UpsertChunk(c, h)
    PROVE  IInv'
<1>1. /\ call[c].pc = "rows" /\ lock = c /\ UNCHANGED <<now, db, lock, sign>>
      /\ call' = [call EXCEPT ![c].todo = @ \ {h}]
      /\ work' = [work EXCEPT !.chunks = @ \cup {<<h, call[c].n>>}]
  BY Zenon DEF UpsertChunk
<1>2. call[c] \in Busy
  BY <1>1, AtWork, Zenon DEF IInv
<1>3. call[c].todo \ {h} \in SUBSET Chunk
  BY <1>2, Zenon DEF Busy
<1>4. [call[c] EXCEPT !.todo = @ \ {h}] = [call[c] EXCEPT !.pc = "rows", !.todo = call[c].todo \ {h}]
  BY <1>1, <1>2, Zenon DEF Busy
<1>5. call' = [call EXCEPT ![c] = [@ EXCEPT !.pc = "rows", !.todo = call[c].todo \ {h}]]
  BY <1>1, <1>4, Zenon DEF IInv, Typed
<1>6. {<<h, call[c].n>>} = {h} \X {call[c].n}
  OBVIOUS
<1>7. PICK H \in SUBSET Chunk : work' = [work EXCEPT !.chunks = @ \cup (H \X {call[c].n})]
  BY <1>1, <1>6, Zenon
<1>8. PICK todo \in SUBSET Chunk :
          call' = [call EXCEPT ![c] = [@ EXCEPT !.pc = "rows", !.todo = todo]]
  BY <1>3, <1>5, Zenon
<1> QED BY <1>1, <1>7, <1>8, ReportOn, Zenon

(* The end of the rows of a report.                                        *)
LEMMA RowsDoneInv ==
    ASSUME IInv, NEW c \in Call, RowsDone(c)
    PROVE  IInv'
<1>1. /\ call[c].pc = "rows" /\ lock = c /\ UNCHANGED <<now, db, lock, sign>>
      /\ call' = [call EXCEPT ![c].pc = "commit"] /\ work' = work
  BY Zenon DEF RowsDone
<1>2. call[c] \in Busy /\ work \in DB
  BY <1>1, AtWork, Zenon DEF IInv, Typed
<1>3. call[c].todo \in SUBSET Chunk
  BY <1>2, Zenon DEF Busy
<1>4. [call[c] EXCEPT !.pc = "commit"] = [call[c] EXCEPT !.pc = "commit", !.todo = call[c].todo]
  BY <1>2, Zenon DEF Busy
<1>5. call' = [call EXCEPT ![c] = [@ EXCEPT !.pc = "commit", !.todo = call[c].todo]]
  BY <1>1, <1>4, Zenon DEF IInv, Typed
<1>6. work.chunks \cup ({} \X {call[c].n}) = work.chunks
  BY Zenon
<1>7. work' = [work EXCEPT !.chunks = @ \cup ({} \X {call[c].n})]
  BY <1>1, <1>2, <1>6, Zenon DEF DB
<1>8. PICK H \in SUBSET Chunk : work' = [work EXCEPT !.chunks = @ \cup (H \X {call[c].n})]
  BY <1>7, Zenon
<1>9. PICK todo \in SUBSET Chunk :
          call' = [call EXCEPT ![c] = [@ EXCEPT !.pc = "commit", !.todo = todo]]
  BY <1>3, <1>5, Zenon
<1> QED BY <1>1, <1>8, <1>9, ReportOn, Zenon

(* What a commit makes of the stamps: those of a report are recent, the    *)
(* others are kept or gone.                                                *)
LEMMA CommitStamps ==
    ASSUME IInv, NEW c \in Call, call[c].pc = "commit", lock = c, NEW m \in Node
    PROVE  \/ work.hb[m] = Absent
           \/ work.hb[m] = db.hb[m]
           \/ call[c].op = "report" /\ m = call[c].n /\ work.hb[m] = Unix(call[c].at)
<1>1. CASE call[c].op = "report"
  <2>1. Reported(c)
    BY <1>1, SqlAssumption, Zenon DEF IInv, Working
  <2> QED BY <1>1, <2>1, Zenon DEF Reported, IInv, Typed, DB
<1>2. CASE call[c].op # "report"
  <2>1. Deleted(c)
    BY <1>2, SqlAssumption, Zenon DEF IInv, Working
  <2> QED BY <2>1, Zenon DEF Deleted
<1> QED BY <1>1, <1>2, Zenon

(* A commit makes what the transaction sees the tables.                    *)
LEMMA CommitInv ==
    ASSUME IInv, NEW c \in Call, Commit(c)
    PROVE  IInv'
<1>1. /\ call[c].pc = "commit" /\ lock = c /\ db' = work /\ work' = work
      /\ lock' = Free /\ now' = now /\ call' = [call EXCEPT ![c] = Idle]
      /\ sign' = IF call[c].op = "report" /\ work.hb[call[c].n] # Absent
                 THEN [sign EXCEPT ![call[c].n] = now] ELSE sign
  BY Zenon DEF Commit, Committed, Return
<1>2. call[c] \in Busy /\ call[c].op # "idle"
  BY <1>1, AtWork, Zenon DEF IInv
<1>3. Timely' /\ Phases' /\ call' \in [Call -> {Idle} \cup Busy]
  BY <1>1, ReturnKeeps, Zenon
<1>4. Typed'
  BY <1>1, <1>3, Zenon DEF IInv, Typed
<1>5. Working'
  BY <1>1, Zenon DEF Working
<1>6. StampsRecent'
  <2> SUFFICES ASSUME NEW m \in Node, work.hb[m] # Absent
               PROVE  sign'[m] - work.hb[m] * Second < MaxWait + Second
    BY <1>1, Zenon DEF StampsRecent
  <2>1. CASE sign'[m] = sign[m] /\ work.hb[m] = db.hb[m]
    BY <2>1, Zenon DEF IInv, StampsRecent
  <2>2. CASE call[c].op = "report" /\ m = call[c].n
    <3>1. sign'[m] = now
      BY <1>1, <2>2, Zenon DEF IInv, Typed
    <3>2. work.hb[m] = Unix(call[c].at)
      <4>1. Reported(c)
        BY <1>1, <2>2, SqlAssumption, Zenon DEF IInv, Working
      <4> QED BY <2>2, <4>1, Zenon DEF Reported, IInv, Typed, DB
    <3> QED BY <1>2, <3>1, <3>2, RecentStamp, Zenon
  <2>3. CASE ~(call[c].op = "report" /\ m = call[c].n)
    <3>1. sign'[m] = sign[m]
      BY <1>1, <2>3, Zenon DEF IInv, Typed
    <3>2. work.hb[m] = db.hb[m]
      BY <1>1, <2>3, CommitStamps, Zenon
    <3> QED BY <2>1, <3>1, <3>2, Zenon
  <2> QED BY <2>2, <2>3, Zenon
<1> QED BY <1>3, <1>4, <1>5, <1>6, Zenon DEF IInv

(* A call that fails leaves the tables as they are.                        *)
LEMMA RollbackInv ==
    ASSUME IInv, NEW c \in Call, Rollback(c)
    PROVE  IInv'
<1>1. /\ call[c].op # "idle" /\ call' = [call EXCEPT ![c] = Idle] /\ UNCHANGED <<now, db, sign>>
      /\ lock' = (IF lock = c THEN Free ELSE lock)
      /\ work' = (IF lock = c THEN db ELSE work)
  BY Zenon DEF Rollback, Return
<1>2. Timely' /\ Phases' /\ call' \in [Call -> {Idle} \cup Busy]
  BY <1>1, ReturnKeeps, Zenon
<1>3. Typed' /\ StampsRecent'
  BY <1>1, <1>2, Zenon DEF IInv, Typed, StampsRecent
<1>4. Working'
  <2>1. CASE lock = c
    BY <1>1, <2>1, Zenon DEF Working
  <2>2. CASE lock # c
    <3>1. lock # Free => lock \in Call /\ call'[lock] = call[lock]
      BY <1>1, <2>2, Zenon DEF IInv, Typed
    <3> QED BY <1>1, <2>2, <3>1, ZenonT(30) DEF IInv, Working, Deleted, Reported, Doomed, Cutoff
  <2> QED BY <2>1, <2>2, Zenon
<1> QED BY <1>2, <1>3, <1>4, Zenon DEF IInv

(* The operations that are one statement without a stamp.                  *)
LEMMA RowInv ==
    ASSUME IInv, lock = Free, db' \in DB, work' = db', db'.hb = db.hb,
           UNCHANGED <<now, lock, call, sign>>
    PROVE  IInv'
<1>1. Typed' /\ Timely' /\ StampsRecent'
  BY Zenon DEF IInv, Typed, Timely, StampsRecent
<1>2. Phases'
  BY Zenon DEF IInv, Phases, Phase
<1>3. Working'
  BY Zenon DEF Working
<1> QED BY <1>1, <1>2, <1>3, Zenon DEF IInv

(* What ReportSeed does to the tables.                                     *)
LEMMA ReportSeedFacts ==
    ASSUME IInv, NEW a \in Artifact, NEW n \in Node, ReportSeed(a, n)
    PROVE  /\ lock = Free /\ db' \in DB /\ work' = db' /\ UNCHANGED <<now, lock, call, sign>>
           /\ db'.hb = db.hb /\ db'.chunks = db.chunks /\ db'.arts = db.arts
           /\ db'.seeds = db.seeds \cup {<<a, n>>}
BY DEF ReportSeed, Committed, IInv, Typed, DB

(* What PutArtifact does to the tables.                                    *)
LEMMA PutArtifactFacts ==
    ASSUME IInv, NEW a \in Artifact, PutArtifact(a)
    PROVE  /\ lock = Free /\ db' \in DB /\ work' = db' /\ UNCHANGED <<now, lock, call, sign>>
           /\ db'.hb = db.hb /\ db'.chunks = db.chunks /\ db'.seeds = db.seeds
           /\ db'.arts = db.arts \cup {a}
BY Zenon DEF PutArtifact, Committed, IInv, Typed, DB

(* Steps that change neither the tables nor the calls.                     *)
LEMMA QuietInv ==
    ASSUME IInv, UNCHANGED <<now, db, work, lock, call, sign>>
    PROVE  IInv'
<1>1. Typed' /\ Timely' /\ StampsRecent'
  BY Zenon DEF IInv, Typed, Timely, StampsRecent
<1>2. Phases'
  BY Zenon DEF IInv, Phases, Phase
<1>3. Working'
  BY Zenon DEF IInv, Working, Deleted, Reported, Doomed, Cutoff
<1> QED BY <1>1, <1>2, <1>3, Zenon DEF IInv

(* A lookup changes neither the tables nor the calls.                      *)
LEMMA LookupQuiet ==
    ASSUME Lookup
    PROVE  UNCHANGED <<now, db, work, lock, call, sign>>
BY Zenon DEF Lookup, Locate, LocateBatch, LookupFails, LookupEnds, PeersBatch

(* Time passes within the limit of every call.                             *)
LEMMA PassesInv ==
    ASSUME IInv, Passes
    PROVE  IInv'
<1>1. /\ now' = now + 1 /\ UNCHANGED <<db, work, lock, call, sign>>
      /\ \A c \in Call : call[c].op # "idle" => now - call[c].at < MaxWait
  BY Zenon DEF Passes
<1>2. Typed' /\ StampsRecent'
  BY <1>1 DEF IInv, Typed, StampsRecent
<1>3. Timely'
  <2> SUFFICES ASSUME NEW c \in Call, call'[c].op # "idle"
               PROVE  call'[c].at <= now' /\ now' - call'[c].at <= MaxWait
    BY Zenon DEF Timely
  <2>0. call'[c] = call[c]
    BY <1>1, Zenon
  <2>1. call[c].at \in Nat /\ now \in Nat
    BY <2>0, BusyCall, Zenon DEF IInv, Typed, Busy
  <2>2. call[c].at <= now /\ now - call[c].at < MaxWait
    BY <1>1, <2>0, Zenon DEF IInv, Timely
  <2> QED BY <1>1, <2>0, <2>1, <2>2, SqlAssumption
<1>4. Phases'
  BY <1>1, Zenon DEF IInv, Phases, Phase
<1>5. Working'
  BY <1>1, Zenon DEF IInv, Working, Deleted, Reported, Doomed, Cutoff
<1> QED BY <1>2, <1>3, <1>4, <1>5, Zenon DEF IInv

(* A crash loses the open transaction and the calls.                       *)
LEMMA CrashInv ==
    ASSUME IInv, Crash
    PROVE  IInv'
<1>1. lock' = Free /\ work' = db /\ call' = [c \in Call |-> Idle] /\ UNCHANGED <<now, db, sign>>
  BY Zenon DEF Crash
<1>2. Typed' /\ StampsRecent' /\ Working'
  BY <1>1, Zenon DEF IInv, Typed, StampsRecent, Working
<1>3. \A c \in Call : call'[c].op = "idle"
  BY <1>1, Zenon DEF Idle
<1>4. Timely' /\ Phases'
  BY <1>1, <1>3, SqlAssumption, Zenon DEF Timely, Phases, Phase
<1> QED BY <1>2, <1>4, Zenon DEF IInv

(* The requests that name a peer.                                          *)
LEMMA RequestInv ==
    ASSUME IInv, NEW c \in Call, NEW n \in Node, NEW H \in SUBSET Chunk,
           \/ Register(c, n) \/ Beat(c, n) \/ Deregister(c, n)
           \/ Report(c, n, H)
    PROVE  IInv'
<1>1. now \in Nat
  BY Zenon DEF IInv, Typed
<1>2. CASE Register(c, n)
  <2> DEFINE r == Doing("register", n, "exec", {})
  <2>1. r \in Busy /\ r.op = "register" /\ r.n = n /\ r.pc = "exec" /\ r.at = now
    BY <1>1, Zenon DEF Doing, Busy
  <2>2. Begin(c, r)
    BY <1>2, Zenon DEF Register
  <2> HIDE DEF r
  <2> QED BY <2>1, <2>2, BeginInv, Zenon
<1>3. CASE Beat(c, n)
  <2> DEFINE r == Doing("beat", n, "exec", {})
  <2>1. r \in Busy /\ r.op = "beat" /\ r.n = n /\ r.pc = "exec" /\ r.at = now
    BY <1>1, Zenon DEF Doing, Busy
  <2>2. Begin(c, r)
    BY <1>3, Zenon DEF Beat
  <2> HIDE DEF r
  <2> QED BY <2>1, <2>2, BeginInv, Zenon
<1>4. CASE Deregister(c, n)
  <2> DEFINE r == Doing("deregister", n, "seeds", {})
  <2>1. r \in Busy /\ r.op = "deregister" /\ r.n = n /\ r.pc = "seeds" /\ r.at = now
    BY <1>1, Zenon DEF Doing, Busy
  <2>2. Begin(c, r)
    BY <1>4, Zenon DEF Deregister
  <2> HIDE DEF r
  <2> QED BY <2>1, <2>2, BeginInv, Zenon
<1>5. CASE Report(c, n, H)
  <2> DEFINE r == Doing("report", n, "touch", H)
  <2>1. r \in Busy /\ r.op = "report" /\ r.n = n /\ r.pc = "touch" /\ r.at = now
    BY <1>1, Zenon DEF Doing, Busy
  <2>2. Begin(c, r)
    BY <1>5, Zenon DEF Report
  <2> HIDE DEF r
  <2> QED BY <2>1, <2>2, BeginInv, Zenon
<1> QED BY <1>2, <1>3, <1>4, <1>5, Zenon

(* Every step keeps the invariant.                                         *)
LEMMA NextInv == IInv /\ [Next]_vars => IInv'
<1> SUFFICES ASSUME IInv, [Next]_vars PROVE IInv'
  BY Zenon
<1>1. CASE UNCHANGED vars
  BY <1>1, QuietInv, Zenon DEF vars
<1>2. ASSUME NEW c \in Call, Handle(c) PROVE IInv'
  <2>1. ASSUME NEW n \in Node, Register(c, n) \/ Beat(c, n) \/ Deregister(c, n)
        PROVE  IInv'
    <3>1. {} \in SUBSET Chunk
      BY Zenon
    <3> QED BY <2>1, <3>1, RequestInv, Zenon
  <2>2. CASE Prune(c)
    <3> DEFINE r == Doing("prune", Free, "seeds", {})
    <3>1. r \in Busy /\ r.op = "prune" /\ r.pc = "seeds" /\ r.at = now
      BY Zenon DEF Doing, Busy, IInv, Typed
    <3>2. Begin(c, r)
      BY <2>2, Zenon DEF Prune
    <3> HIDE DEF r
    <3> QED BY <3>1, <3>2, BeginInv, Zenon
  <2>3. ASSUME NEW n \in Node, NEW H \in SUBSET Chunk, Report(c, n, H) PROVE IInv'
    BY <2>3, RequestInv, Zenon
  <2>4. ASSUME Exec(c) \/ DeleteSeeds(c) \/ DeleteChunks(c) \/ DeletePeers(c) PROVE IInv'
    BY <2>4, ExecInv, DeleteSeedsInv, DeleteChunksInv, DeletePeersInv, Zenon
  <2>5. ASSUME TouchPeer(c) \/ RowsDone(c) \/ Commit(c) \/ Rollback(c) PROVE IInv'
    BY <2>5, TouchPeerInv, RowsDoneInv, CommitInv, RollbackInv, Zenon
  <2>6. ASSUME NEW h \in Chunk, UpsertChunk(c, h) PROVE IInv'
    BY <2>6, UpsertChunkInv, Zenon
  <2> QED BY <1>2, <2>1, <2>2, <2>3, <2>4, <2>5, <2>6, Zenon DEF Handle
<1>3. ASSUME NEW a \in Artifact, NEW n \in Node, ReportSeed(a, n) PROVE IInv'
  BY <1>3, ReportSeedFacts, RowInv, Zenon
<1>4. ASSUME NEW a \in Artifact, PutArtifact(a) PROVE IInv'
  BY <1>4, PutArtifactFacts, RowInv, Zenon
<1>5. CASE Lookup \/ Passes \/ Crash
  BY <1>5, LookupQuiet, QuietInv, PassesInv, CrashInv, Zenon
<1> QED BY <1>1, <1>2, <1>3, <1>4, <1>5, Zenon DEF Next

-----------------------------------------------------------------------------
(* Tables of their type satisfy TableOK.                                   *)
LEMMA TablesTyped ==
    ASSUME NEW d \in DB
    PROVE  TableOK(d)
BY Zenon DEF DB, TableOK, Tables

(* The invariant gives the type invariant.                                 *)
LEMMA InvTyped == IInv => TypeOK
<1> SUFFICES ASSUME IInv PROVE TypeOK
  BY Zenon
<1>1. TableOK(db) /\ TableOK(work)
  BY TablesTyped, Zenon DEF IInv, Typed
<1>2. lock # Free => call[lock].op \in {"deregister", "prune", "report"}
  <2> SUFFICES ASSUME lock # Free PROVE call[lock].op \in {"deregister", "prune", "report"}
    BY Zenon
  <2>1. lock \in Call
    BY Zenon DEF IInv, Typed
  <2>2. Phase(lock)
    BY <2>1, Zenon DEF IInv, Phases
  <2>3. call[lock].op # "idle"
    BY <2>2, Zenon DEF Phase
  <2>4. call[lock] \in Busy
    BY <2>1, <2>3, BusyCall, Zenon DEF IInv
  <2> QED BY <2>2, <2>4, Zenon DEF Phase, Busy
<1> QED BY <1>1, <1>2, Zenon DEF IInv, Typed, TypeOK

(* The inductive invariant holds throughout.                               *)
LEMMA Invariance == Spec => []IInv
BY InitInv, NextInv, PTL DEF Spec

(* The tables always have their types, and only operations of several      *)
(* statements ever hold the write lock of the database.                    *)
THEOREM TypeCorrect == Spec => []TypeOK
BY Invariance, InvTyped, PTL

(* last_heartbeat is never further behind the last sign of life than the   *)
(* limit of a call and the rest of a second.                               *)
THEOREM StampsAreRecent == Spec => []StampsRecent
<1>1. IInv => StampsRecent
  BY Zenon DEF IInv
<1> QED BY <1>1, Invariance, PTL

-----------------------------------------------------------------------------
(* Whom a prune deletes: its cutoff lies Expiry and the rounding before    *)
(* the time the call began, so what it finds below it has expired, and     *)
(* what has expired for the limit of a call and a second is below it.      *)
LEMMA CutoffExact ==
    ASSUME IInv, NEW c \in Call, call[c].op = "prune", NEW m \in Node, db.hb[m] # Absent
    PROVE  /\ m \in Doomed(c, db) => db.hb[m] * Second + Second <= call[c].at - Expiry
           /\ now - db.hb[m] * Second > Expiry + (MaxWait + Second) => m \in Doomed(c, db)
<1> DEFINE q == Cutoff(c)
<1>1. call[c].at \in Nat /\ now \in Nat /\ db.hb[m] \in Nat /\ call[c].at - Expiry \in Int
  BY BusyCall, SqlAssumption DEF IInv, Typed, Busy, DB
<1>2. q \in Int /\ q * Second <= call[c].at - Expiry /\ call[c].at - Expiry < q * Second + Second
  BY <1>1, UnixBounds, Zenon DEF Cutoff
<1>3. m \in Doomed(c, db) <=> db.hb[m] < q
  BY Zenon DEF Doomed
<1> HIDE DEF q
<1>4. /\ q * Second \in Int /\ db.hb[m] * Second \in Int
      /\ Second \in Int /\ Expiry \in Int /\ MaxWait \in Int
  BY <1>1, <1>2, SqlAssumption
<1>5. ASSUME db.hb[m] < q PROVE db.hb[m] * Second + Second <= call[c].at - Expiry
  <2>1. db.hb[m] * Second + Second <= q * Second
    BY <1>1, <1>2, <1>5, Scaled
  <2>2. PICK x, y : x = db.hb[m] * Second /\ y = q * Second
    BY Zenon
  <2>3. x \in Int /\ y \in Int /\ x + Second <= y /\ y <= call[c].at - Expiry
    BY <1>2, <1>4, <2>1, <2>2, Zenon
  <2>4. x + Second <= call[c].at - Expiry
    BY <1>1, <1>4, <2>3
  <2> QED BY <2>2, <2>4, Zenon
<1>6. ASSUME now - db.hb[m] * Second > Expiry + (MaxWait + Second), ~(db.hb[m] < q) PROVE FALSE
  <2>1. now - call[c].at <= MaxWait
    BY Zenon DEF IInv, Timely
  <2>2. q * Second <= db.hb[m] * Second
    <3>1. CASE q = db.hb[m]
      BY <3>1, <1>4
    <3>2. CASE q # db.hb[m]
      <4>1. q < db.hb[m]
        BY <1>1, <1>2, <1>6, <3>2
      <4>2. q * Second + Second <= db.hb[m] * Second
        BY <1>1, <1>2, <4>1, Scaled
      <4> QED BY <1>4, <4>2, SqlAssumption
    <3> QED BY <3>1, <3>2, Zenon
  <2>3. PICK x, y : x = db.hb[m] * Second /\ y = q * Second
    BY Zenon
  <2>4. /\ x \in Int /\ y \in Int /\ y <= x /\ call[c].at - Expiry < y + Second
        /\ now - x > Expiry + (MaxWait + Second)
    BY <1>2, <1>4, <1>6, <2>2, <2>3, Zenon
  <2> QED BY <1>1, <1>4, <2>1, <2>4
<1> QED BY <1>3, <1>5, <1>6, Zenon

(* What is committed, and the clock, change in these steps alone.          *)
LEMMA StepKinds ==
    ASSUME [Next]_vars
    PROVE  \/ UNCHANGED <<now, db>>
           \/ \E c \in Call : Exec(c) \/ Commit(c)
           \/ \E a \in Artifact : PutArtifact(a) \/ \E n \in Node : ReportSeed(a, n)
           \/ Passes
<1>1. CASE UNCHANGED vars
  BY <1>1, Zenon DEF vars
<1>2. ASSUME NEW c \in Call, Handle(c), ~Exec(c), ~Commit(c) PROVE UNCHANGED <<now, db>>
  BY <1>2, Zenon DEF Handle, Register, Beat, Deregister, Prune, Report, Begin, DeleteSeeds, DeleteChunks,
              DeletePeers, TouchPeer, Step, RowsDone, UpsertChunk, Rollback
<1>3. CASE Lookup \/ Crash
  BY <1>3, LookupQuiet, Zenon DEF Crash
<1> QED BY <1>1, <1>2, <1>3, Zenon DEF Next

(* The effect of a statement that commits by itself: nothing, or a stamp.  *)
LEMMA ExecFacts ==
    ASSUME IInv, NEW c \in Call, Exec(c)
    PROVE  /\ call[c].n \in Node /\ call[c].op # "idle" /\ lock = Free /\ now' = now
           /\ \/ db' = db
              \/ /\ db'.hb = [db.hb EXCEPT ![call[c].n] = Unix(call[c].at)]
                 /\ db'.seeds = db.seeds /\ db'.chunks = db.chunks /\ db'.arts = db.arts
                 /\ Unix(call[c].at) \in Nat
<1>1. call[c].pc = "exec" /\ lock = Free /\ now' = now
  BY Zenon DEF Exec
<1>2. call[c] \in Busy /\ call[c].op # "idle"
  BY <1>1, AtWork, Zenon DEF IInv
<1>3. call[c].n \in Node /\ call[c].at \in Nat /\ db \in DB
  BY <1>1, <1>2, Zenon DEF IInv, Phases, Phase, Busy, Typed
<1>4. db' = db \/ db' = Stamped(db, call[c].n, call[c].at)
  BY Zenon DEF Exec, Committed
<1> QED BY <1>1, <1>2, <1>3, <1>4, StampedDB, UnixNat

(* The arithmetic of it: t is the second of the stamp, at the time of the  *)
(* call.                                                                   *)
LEMMA SilentSince ==
    ASSUME NEW t \in Int, NEW at \in Nat, NEW n \in Nat, NEW sg \in Nat,
           NEW second \in Nat, NEW expiry \in Nat, NEW wait \in Nat,
           t + second <= at - expiry, sg - t < wait + second, at <= n
    PROVE  n - sg > expiry - wait
OBVIOUS

(* A prune deletes only peers whose last sign of life is old enough.       *)
LEMMA PruneSilent ==
    ASSUME IInv, [Next]_vars, NEW m \in Node,
           db.hb[m] # Absent, db'.hb[m] = Absent, call[lock].op = "prune"
    PROVE  now - sign[m] > Expiry - MaxWait
<1>1. PICK c \in Call : lock = c /\ Commit(c)
  <2>1. db' # db
    BY Zenon
  <2>2. ASSUME NEW c \in Call, Exec(c) PROVE FALSE
    <3>1. db'.hb = [db.hb EXCEPT ![call[c].n] = Unix(call[c].at)] /\ Unix(call[c].at) \in Nat
      BY <2>1, <2>2, ExecFacts, Zenon
    <3> QED BY <3>1, <2>2, ExecFacts DEF IInv, Typed, DB, Absent
  <2>3. ASSUME NEW a \in Artifact, NEW n \in Node, ReportSeed(a, n) PROVE FALSE
    BY <2>3, ReportSeedFacts, Zenon
  <2>4. ASSUME NEW a \in Artifact, PutArtifact(a) PROVE FALSE
    BY <2>4, PutArtifactFacts, Zenon
  <2>5. CASE Passes
    BY <2>1, <2>5, Zenon DEF Passes
  <2>6. ASSUME NEW c \in Call, Commit(c) PROVE lock = c
    BY <2>6, Zenon DEF Commit
  <2> QED BY <2>1, <2>2, <2>3, <2>4, <2>5, <2>6, StepKinds, Zenon
<1>2. m \in Doomed(c, db)
  <2>1. Deleted(c) /\ call[c].pc = "commit" /\ db' = work
    BY <1>1, SqlAssumption, Zenon DEF IInv, Working, Commit, Committed
  <2> QED BY <2>1, Zenon DEF Deleted
<1>3. db.hb[m] * Second + Second <= call[c].at - Expiry
  BY <1>1, <1>2, CutoffExact, Zenon
<1>4. sign[m] - db.hb[m] * Second < MaxWait + Second /\ call[c].at <= now
  BY <1>1, Zenon DEF IInv, StampsRecent, Timely
<1>5. db.hb[m] \in Nat
  BY Zenon DEF IInv, Typed, DB
<1>6. PICK t \in Int : t = db.hb[m] * Second
  BY <1>5, SqlAssumption
<1>7. t + Second <= call[c].at - Expiry /\ sign[m] - t < MaxWait + Second /\ call[c].at <= now
  BY <1>3, <1>4, <1>6, Zenon
<1>8. call[c].at \in Nat /\ now \in Nat /\ sign[m] \in Nat
  BY <1>1, BusyCall, Zenon DEF IInv, Typed, Busy
<1>9. Second \in Nat /\ Expiry \in Nat /\ MaxWait \in Nat
  BY SqlAssumption, Zenon
<1> QED BY <1>7, <1>8, <1>9, SilentSince, Zenon

(* PruneExpiredPeers removes only peers that have given no sign of life    *)
(* for Expiry less the limit of a call.                                    *)
THEOREM PrunesAreSilent == Spec => PrunesOnlySilent
<1>1. IInv /\ [Next]_vars =>
        [\A n \in Node :
            (/\ db.hb[n] # Absent /\ db'.hb[n] = Absent
             /\ call[lock].op = "prune") => now - sign[n] > Expiry - MaxWait]_vars
  BY PruneSilent, Zenon
<1> QED BY <1>1, Invariance, PTL DEF Spec, PrunesOnlySilent

-----------------------------------------------------------------------------
(* The heartbeats as the contract sees them.                               *)
Beats(d) == [n \in Node |-> IF d.hb[n] = Absent THEN Absent ELSE d.hb[n] * Second]

(* A stamp, as the contract sees it.                                       *)
LEMMA BeatsStamped ==
    ASSUME db \in DB, NEW m \in Node, NEW s \in Nat, db'.hb = [db.hb EXCEPT ![m] = s]
    PROVE  Beats(db') = [Beats(db) EXCEPT ![m] = s * Second]
<1>1. db.hb \in [Node -> {Absent} \cup Nat] /\ s # Absent
  BY DEF DB, Absent
<1>2. db'.hb[m] = s /\ \A n \in Node \ {m} : db'.hb[n] = db.hb[n]
  BY <1>1, Zenon
<1> QED BY <1>1, <1>2, Zenon DEF Beats

(* Who is registered, as the contract sees it.                             *)
LEMMA BeatsRegistered ==
    ASSUME db \in DB, NEW m \in Node
    PROVE  /\ (Beats(db)[m] # Absent) <=> (db.hb[m] # Absent)
           /\ db.hb[m] # Absent => Beats(db)[m] = db.hb[m] * Second
<1>1. db.hb[m] \in {Absent} \cup Nat
  BY Zenon DEF DB
<1>2. db.hb[m] # Absent => db.hb[m] * Second # Absent
  BY <1>1, ScaledNat, Zenon
<1> QED BY <1>2, Zenon DEF Beats

(* The stamp of a call that takes effect is one the contract allows.       *)
LEMMA RecentAllowed ==
    ASSUME IInv, NEW c \in Call, call[c].op # "idle"
    PROVE  Unix(call[c].at) * Second \in Contract!Recent
<1>1. /\ Unix(call[c].at) * Second \in 0..now
      /\ now - Unix(call[c].at) * Second < MaxWait + Second
  BY RecentStamp, Zenon
<1>2. now \in Nat
  BY Zenon DEF IInv, Typed
<1> QED BY <1>1, <1>2, SqlAssumption DEF Contract!Recent

(* A statement that commits by itself is an UpsertPeer, a Heartbeat, or nothing.*)
LEMMA ExecRefines ==
    ASSUME IInv, NEW c \in Call, Exec(c)
    PROVE  Contract!StoreNext \/ UNCHANGED Contract!storeVars
<1> DEFINE n == call[c].n
           t == Unix(call[c].at) * Second
<1>1. n \in Node /\ call[c].op # "idle" /\ now' = now
  BY ExecFacts, Zenon
<1>2. CASE db' = db
  BY <1>1, <1>2, Zenon DEF Contract!storeVars
<1>3. CASE db' # db
  <2>1. /\ db'.hb = [db.hb EXCEPT ![n] = Unix(call[c].at)] /\ Unix(call[c].at) \in Nat
        /\ db'.seeds = db.seeds /\ db'.chunks = db.chunks /\ db'.arts = db.arts
    BY <1>3, ExecFacts, Zenon
  <2>2. Beats(db') = [Beats(db) EXCEPT ![n] = t]
    BY <1>1, <2>1, BeatsStamped, Zenon DEF IInv, Typed
  <2>3. t \in Contract!Recent
    BY <1>1, RecentAllowed, Zenon
  <2>4. PICK m \in Node : m = n
    BY <1>1, Zenon
  <2>5. Contract!UpsertPeer(m)
    BY <1>1, <2>1, <2>2, <2>3, <2>4, Zenon DEF Contract!UpsertPeer, Beats
  <2> QED BY <2>5, Zenon DEF Contract!StoreNext
<1> QED BY <1>2, <1>3, Zenon

(* A deregistration or a prune that commits takes away the doomed peers.   *)
LEMMA CommitForgets ==
    ASSUME IInv, NEW c \in Call, Commit(c), call[c].op # "report"
    PROVE  /\ Beats(db') = [n \in Node |-> IF n \in Doomed(c, db) THEN Absent ELSE Beats(db)[n]]
           /\ db'.seeds = OfOthers(db.seeds, Doomed(c, db))
           /\ db'.chunks = OfOthers(db.chunks, Doomed(c, db))
           /\ now' = now /\ db'.arts = db.arts
<1>1. lock = c /\ call[c].pc = "commit" /\ db' = work /\ now' = now
  BY Zenon DEF Commit, Committed
<1>2. Deleted(c)
  BY <1>1, SqlAssumption, Zenon DEF IInv, Working
<1>3. /\ db'.arts = db.arts
      /\ db'.seeds = OfOthers(db.seeds, Doomed(c, db))
      /\ db'.chunks = OfOthers(db.chunks, Doomed(c, db))
      /\ db'.hb = [n \in Node |-> IF n \in Doomed(c, db) THEN Absent ELSE db.hb[n]]
  BY <1>1, <1>2, Zenon DEF Deleted
<1>4. Beats(db') = [n \in Node |-> IF n \in Doomed(c, db) THEN Absent ELSE Beats(db)[n]]
  BY <1>3, Zenon DEF Beats
<1> QED BY <1>1, <1>3, <1>4, Zenon

(* Taking a set of peers and their rows away is the contract's Forget.     *)
LEMMA Forgotten ==
    ASSUME NEW S,
           Beats(db') = [n \in Node |-> IF n \in S THEN Absent ELSE Beats(db)[n]],
           db'.seeds = OfOthers(db.seeds, S), db'.chunks = OfOthers(db.chunks, S)
    PROVE  Contract!Forget(S)
BY Zenon DEF Contract!Forget, Contract!OfOthers, OfOthers, Contract!Absent, Absent, Beats

(* A commit is an operation of the contract.                               *)
LEMMA CommitRefines ==
    ASSUME IInv, NEW c \in Call, Commit(c)
    PROVE  Contract!StoreNext
<1>1. lock = c /\ call[c].pc = "commit" /\ db' = work /\ now' = now
  BY Zenon DEF Commit, Committed
<1>2. call[c] \in Busy /\ call[c].op # "idle" /\ db \in DB
  BY <1>1, AtWork, Zenon DEF IInv, Typed
<1>3. call[c].op \in {"deregister", "prune", "report"}
      /\ (call[c].op # "prune" => call[c].n \in Node)
  BY <1>1, <1>2, Zenon DEF IInv, Phases, Phase, Busy
<1>4. CASE call[c].op = "deregister"
  <2>1. Doomed(c, db) = {call[c].n}
    BY <1>4, Zenon DEF Doomed
  <2>2. PICK m \in Node : m = call[c].n
    BY <1>3, <1>4, Zenon
  <2>3. PICK S : S = {m}
    BY Zenon
  <2>4. Contract!Forget(S) /\ now' = now /\ db'.arts = db.arts
    BY <1>4, <2>1, <2>2, <2>3, CommitForgets, Forgotten, Zenon
  <2>5. Contract!DeregisterPeer(m)
    BY <2>3, <2>4, Zenon DEF Contract!DeregisterPeer
  <2> QED BY <2>5, Zenon DEF Contract!StoreNext
<1>5. CASE call[c].op = "prune"
  <2> DEFINE S == Doomed(c, db)
  <2>1. S \subseteq Contract!Expired
    <3> SUFFICES ASSUME NEW m \in S PROVE m \in Contract!Expired
      BY Zenon
    <3>1. m \in Node /\ db.hb[m] # Absent
      BY <1>5, Zenon DEF Doomed
    <3>2. db.hb[m] * Second + Second <= call[c].at - Expiry
      BY <1>5, <3>1, CutoffExact, Zenon
    <3>3. Beats(db)[m] # Absent /\ Beats(db)[m] = db.hb[m] * Second
      BY <1>2, <3>1, BeatsRegistered, Zenon
    <3>4. call[c].at <= now /\ call[c].at \in Nat /\ now \in Nat
      BY <1>2, Zenon DEF IInv, Timely, Typed, Busy
    <3>5. db.hb[m] \in Nat
      BY <1>2, <3>1, Zenon DEF DB
    <3>6. PICK t \in Int : t = db.hb[m] * Second
      BY <3>5, SqlAssumption
    <3>7. t + Second <= call[c].at - Expiry /\ Beats(db)[m] = t
      BY <3>2, <3>3, <3>6, Zenon
    <3>8. now - t > Expiry
      BY <3>4, <3>7, SqlAssumption
    <3>9. now - Beats(db)[m] > Expiry
      BY <3>7, <3>8, Zenon
    <3> QED BY <3>1, <3>3, <3>9, Zenon DEF Contract!Expired, Contract!Registered, Contract!Absent, Absent, Beats
  <2>2. Contract!Overdue \subseteq S
    <3> SUFFICES ASSUME NEW m \in Contract!Overdue PROVE m \in S
      BY Zenon
    <3>1. m \in Node /\ Beats(db)[m] # Absent /\ now - Beats(db)[m] > Expiry + (MaxWait + Second)
      BY Zenon DEF Contract!Overdue, Contract!Registered, Contract!Absent, Absent, Beats
    <3>2. db.hb[m] # Absent /\ Beats(db)[m] = db.hb[m] * Second
      BY <1>2, <3>1, BeatsRegistered, Zenon
    <3> QED BY <1>5, <3>1, <3>2, CutoffExact, Zenon
  <2>3. PICK R : R = S
    BY Zenon
  <2>4. Contract!Forget(R) /\ now' = now /\ db'.arts = db.arts
    BY <1>5, <2>3, CommitForgets, Forgotten, Zenon
  <2> HIDE DEF S
  <2>5. Contract!PruneExpiredPeers
    BY <2>1, <2>2, <2>3, <2>4, Zenon DEF Contract!PruneExpiredPeers
  <2> QED BY <2>5, Zenon DEF Contract!StoreNext
<1>6. CASE call[c].op = "report"
  <2> DEFINE n == call[c].n
             t == Unix(call[c].at) * Second
  <2>1. Reported(c)
    BY <1>1, <1>6, SqlAssumption, Zenon DEF IInv, Working
  <2>2. PICK H \in SUBSET Chunk : db'.chunks = db.chunks \cup (H \X {n})
    BY <1>1, <2>1, Zenon DEF Reported
  <2>3. n \in Node /\ t \in Contract!Recent
    BY <1>2, <1>3, <1>6, RecentAllowed, Zenon
  <2>4. db'.seeds = db.seeds /\ db'.arts = db.arts
    BY <1>1, <2>1, Zenon DEF Reported
  <2>5. ASSUME n \in Contract!Registered
        PROVE  \E s \in Contract!Recent : Beats(db') = [Beats(db) EXCEPT ![n] = s]
    <3>1. Beats(db)[n] # Absent
      BY <2>5, Zenon DEF Contract!Registered, Contract!Absent, Absent, Beats
    <3>2. db.hb[n] # Absent
      BY <1>2, <2>3, <3>1, BeatsRegistered, Zenon
    <3>3. db'.hb = [db.hb EXCEPT ![n] = Unix(call[c].at)]
      BY <1>1, <2>1, <3>2, Zenon DEF Reported
    <3>4. Unix(call[c].at) \in Nat
      BY <1>2, UnixNat, Zenon DEF Busy
    <3>5. Beats(db') = [Beats(db) EXCEPT ![n] = t]
      BY <1>2, <2>3, <3>3, <3>4, BeatsStamped, Zenon
    <3> QED BY <2>3, <3>5, Zenon
  <2>6. ASSUME n \notin Contract!Registered
        PROVE  Beats(db') = Beats(db)
    <3>1. Beats(db)[n] = Absent
      BY <2>3, <2>6, Zenon DEF Contract!Registered, Contract!Absent, Absent, Beats
    <3>2. db.hb[n] = Absent
      BY <1>2, <2>3, <3>1, BeatsRegistered, Zenon
    <3>3. db'.hb = db.hb
      BY <1>1, <2>1, <3>2, Zenon DEF Reported
    <3> QED BY <3>3, Zenon DEF Beats
  <2>7. Contract!ReportChunks(n, H)
    BY <1>1, <2>2, <2>4, <2>5, <2>6, Zenon DEF Contract!ReportChunks, Beats
  <2> QED BY <2>3, <2>7, Zenon DEF Contract!StoreNext
<1> QED BY <1>3, <1>4, <1>5, <1>6, Zenon

(* Every step is a step of the contract or leaves its state alone.         *)
LEMMA StepRefines == IInv /\ [Next]_vars => [Contract!StoreNext]_(Contract!storeVars)
<1> SUFFICES ASSUME IInv, [Next]_vars
             PROVE  Contract!StoreNext \/ UNCHANGED Contract!storeVars
  BY Zenon
<1>1. CASE UNCHANGED <<now, db>>
  BY <1>1, Zenon DEF Contract!storeVars
<1>2. ASSUME NEW c \in Call, Exec(c) \/ Commit(c)
      PROVE  Contract!StoreNext \/ UNCHANGED Contract!storeVars
  BY <1>2, ExecRefines, CommitRefines, Zenon
<1>3. ASSUME NEW a \in Artifact, NEW n \in Node, ReportSeed(a, n) PROVE Contract!StoreNext
  <2>1. Contract!ReportSeed(a, n)
    BY <1>3, ReportSeedFacts, Zenon DEF Contract!ReportSeed
  <2> QED BY <2>1, Zenon DEF Contract!StoreNext
<1>4. ASSUME NEW a \in Artifact, PutArtifact(a) PROVE Contract!StoreNext
  <2>1. Contract!PutArtifact(a)
    BY <1>4, PutArtifactFacts, Zenon DEF Contract!PutArtifact
  <2> QED BY <2>1, Zenon DEF Contract!StoreNext
<1>5. CASE Passes
  <2>1. Contract!Passes
    BY <1>5, Zenon DEF Passes, Contract!Passes
  <2> QED BY <2>1, Zenon DEF Contract!StoreNext
<1> QED BY <1>1, <1>2, <1>3, <1>4, <1>5, StepKinds, Zenon

(* The SQL driver implements the contract of the store: what is committed  *)
(* changes by whole operations of the interface, whatever transactions,    *)
(* rollbacks and crashes do.                                               *)
THEOREM Refinement == Spec => ImplementsStore
<1>1. Init => Contract!StoreInit
  BY DEF Init, Tables, Contract!StoreInit, Contract!Absent, Absent
<1> QED BY <1>1, StepRefines, Invariance, PTL DEF Spec, ImplementsStore, Contract!StoreSpec

-----------------------------------------------------------------------------
(* A lookup under way: what it has found was committed and asked for, and  *)
(* of the rows of other nodes it has come to, those whose peer stayed      *)
(* registered and fresh are found, with a peer that is fresh or is still   *)
(* to be looked at.                                                        *)
Looking(r, d) ==
    /\ r.op \in {"rows", "peers"}
    /\ r = [op |-> r.op, asked |-> r.asked, self |-> r.self, i |-> r.i, start |-> r.start, found |-> r.found,
            fresh |-> r.fresh, ids |-> r.ids, always |-> r.always, ever |-> r.ever]
    /\ r.asked \in Seq(Chunk) /\ r.i \in Nat
    /\ r.op = "peers" => r.i >= Len(r.asked)
    /\ \A x \in r.found : x \in r.ever /\ \E k \in 1..Len(r.asked) : x[1] = r.asked[k]
    /\ d.chunks \subseteq r.ever
    /\ r.always \subseteq Locatable(d, r.start)
    /\ \A x \in r.always, k \in 1..Len(r.asked) :
          k <= r.i /\ x[1] = r.asked[k] /\ x[2] # r.self
          => x \in r.found /\ x[2] \in r.ids \cup r.fresh

Answered(r) ==
    /\ \A x \in r.rows : /\ x \in r.ever /\ x[2] # r.self
                         /\ \E k \in 1..Len(r.asked) : x[1] = r.asked[k]
    /\ \/ \A x \in r.always, k \in 1..Len(r.asked) :
             x[1] = r.asked[k] /\ x[2] # r.self => x \in r.rows
       \/ r.failed /\ r.rows = {}

LookupOK(r, d) ==
    \/ r.op = "idle"
    \/ r.op = "answer" /\ Answered(r)
    \/ Looking(r, d)

(* The end of a batch.                                                     *)
LEMMA OnwardOK ==
    ASSUME NEW r, NEW d, Looking(r, d)
    PROVE  LookupOK(Onward(r), d)
<1>1. CASE r.i < Len(r.asked)
  BY <1>1, Zenon DEF Onward, LookupOK
<1>2. CASE ~(r.i < Len(r.asked)) /\ r.ids # {}
  <2>1. PICK q : q = [r EXCEPT !.op = "peers"]
    BY Zenon
  <2>2. /\ q.op = "peers" /\ q.asked = r.asked /\ q.self = r.self /\ q.i = r.i /\ q.start = r.start /\ q.found = r.found
        /\ q.fresh = r.fresh /\ q.ids = r.ids /\ q.always = r.always /\ q.ever = r.ever
        /\ q = [op |-> q.op, asked |-> q.asked, self |-> q.self, i |-> q.i, start |-> q.start, found |-> q.found,
                fresh |-> q.fresh, ids |-> q.ids, always |-> q.always, ever |-> q.ever]
    BY <2>1, Zenon DEF Looking
  <2>3. q.i >= Len(q.asked)
    BY <1>2, <2>2 DEF Looking
  <2>4. Looking(q, d)
    BY <2>2, <2>3, Zenon DEF Looking
  <2> QED BY <1>2, <2>1, <2>4, Zenon DEF Onward, LookupOK
<1>3. CASE ~(r.i < Len(r.asked)) /\ r.ids = {}
  <2>1. PICK q : q = Answer(r)
    BY Zenon
  <2>2. /\ q.op = "answer" /\ q.asked = r.asked /\ q.self = r.self /\ q.always = r.always
        /\ q.ever = r.ever /\ q.rows = {x \in r.found : x[2] # r.self /\ x[2] \in r.fresh}
    BY <2>1, Zenon DEF Answer, Result
  <2>3. \A k \in 1..Len(r.asked) : k <= r.i
    BY <1>3 DEF Looking
  <2>4. \A x \in q.always, k \in 1..Len(q.asked) :
           x[1] = q.asked[k] /\ x[2] # q.self => x \in q.rows
    BY <1>3, <2>2, <2>3, Zenon DEF Looking
  <2>5. \A x \in q.rows : /\ x \in q.ever /\ x[2] # q.self
                          /\ \E k \in 1..Len(q.asked) : x[1] = q.asked[k]
    BY <2>2, Zenon DEF Looking
  <2>6. Answered(q)
    BY <2>4, <2>5, Zenon DEF Answered
  <2> QED BY <1>3, <2>1, <2>2, <2>6, Zenon DEF Onward, LookupOK
<1> QED BY <1>1, <1>2, <1>3, Zenon

(* A commit while the lookup is under way.                                 *)
LEMMA WatchedOK ==
    ASSUME NEW d, NEW e, LookupOK(reader, d)
    PROVE  LookupOK(Watched(e), e)
<1>1. CASE reader.op \notin {"rows", "peers"}
  BY <1>1, Zenon DEF LookupOK, Watched, Looking
<1>2. CASE reader.op \in {"rows", "peers"}
  <2>1. Looking(reader, d)
    BY <1>2, Zenon DEF LookupOK
  <2>2. PICK r, q : /\ r = reader /\ q = Watched(e)
                    /\ q = [r EXCEPT !.always = @ \cap Locatable(e, r.start), !.ever = @ \cup e.chunks]
    BY <1>2, Zenon DEF Watched
  <2>3. /\ q.op = r.op /\ q.asked = r.asked /\ q.self = r.self /\ q.i = r.i /\ q.start = r.start /\ q.found = r.found
        /\ q.fresh = r.fresh /\ q.ids = r.ids /\ q.always = r.always \cap Locatable(e, r.start)
        /\ q.ever = r.ever \cup e.chunks
        /\ q = [op |-> q.op, asked |-> q.asked, self |-> q.self, i |-> q.i, start |-> q.start, found |-> q.found,
                fresh |-> q.fresh, ids |-> q.ids, always |-> q.always, ever |-> q.ever]
    BY <2>1, <2>2, Zenon DEF Looking
  <2>4. Looking(r, d)
    BY <2>1, <2>2, Zenon
  <2>5. Looking(q, e)
    BY <2>3, <2>4, Zenon DEF Looking
  <2> QED BY <2>2, <2>5, Zenon DEF LookupOK
<1> QED BY <1>1, <1>2, Zenon

(* A batch of rows.                                                        *)
LEMMA LocateBatchOK ==
    ASSUME LookupOK(reader, db), LocateBatch
    PROVE  db' = db /\ LookupOK(reader', db)
<1>1. PICK r, d : r = reader /\ d = db
  BY Zenon
<1>2. Looking(r, d) /\ db' = db
  BY <1>1, Zenon DEF LookupOK, LocateBatch
<1> DEFINE batch == {r.asked[k] : k \in {j \in 1..Len(r.asked) : r.i < j /\ j <= r.i + INBatch}}
<1>3. PICK hits : hits = {x \in d.chunks : x[1] \in batch}
  BY Zenon
<1>4. PICK q : q = [r EXCEPT !.i = @ + INBatch, !.found = @ \cup hits, 
                         !.ids = @ \cup ({x[2] : x \in hits} \ {r.self})]
  BY Zenon
<1>5. reader' = Onward(q)
  BY <1>1, <1>3, <1>4 DEF LocateBatch, Batch
<1>6. /\ q.op = r.op /\ q.asked = r.asked /\ q.self = r.self /\ q.i = r.i + INBatch /\ q.start = r.start
      /\ q.found = r.found \cup hits /\ q.ids = r.ids \cup ({x[2] : x \in hits} \ {r.self})
      /\ q.fresh = r.fresh /\ q.always = r.always /\ q.ever = r.ever
      /\ q = [op |-> q.op, asked |-> q.asked, self |-> q.self, i |-> q.i, start |-> q.start, found |-> q.found,
              fresh |-> q.fresh, ids |-> q.ids, always |-> q.always, ever |-> q.ever]
  BY <1>2, <1>4, Zenon DEF Looking
<1>7. q.i \in Nat /\ q.i >= r.i
  BY <1>2, <1>6, SqlAssumption DEF Looking
<1>8. \A x \in q.found : x \in q.ever /\ \E k \in 1..Len(q.asked) : x[1] = q.asked[k]
  BY <1>2, <1>3, <1>6 DEF Looking
<1>9. ASSUME NEW x \in q.always, NEW k \in 1..Len(q.asked), k <= q.i,
                    x[1] = q.asked[k], x[2] # q.self
      PROVE  x \in q.found /\ x[2] \in q.ids \cup q.fresh
  <2>1. CASE k <= r.i
    BY <1>2, <1>6, <1>9, <2>1, Zenon DEF Looking
  <2>2. CASE r.i < k
    <3>1. x \in d.chunks
      BY <1>2, <1>6, <1>9, Zenon DEF Looking, Locatable
    <3>2. x[1] \in batch
      BY <1>6, <1>9, <2>2, Zenon
    <3>3. x \in hits
      BY <1>3, <3>1, <3>2, Zenon
    <3>4. x[2] \in {y[2] : y \in hits}
      BY <3>3, Zenon
    <3>5. x[2] # r.self
      BY <1>6, <1>9, Zenon
    <3>6. x[2] \in {y[2] : y \in hits} \ {r.self}
      BY <3>4, <3>5, Zenon
    <3>7. x \in q.found /\ x[2] \in q.ids
      BY <1>6, <3>3, <3>6, Zenon
    <3> QED BY <3>7, Zenon
  <2> QED BY <1>2, <2>1, <2>2 DEF Looking
<1>10. q.op \in {"rows", "peers"} /\ q.asked \in Seq(Chunk) /\ d.chunks \subseteq q.ever
       /\ q.always \subseteq Locatable(d, q.start)
  BY <1>2, <1>6, Zenon DEF Looking
<1>11. q.op # "peers"
  BY <1>1, <1>6, Zenon DEF LocateBatch
<1>12. Looking(q, d)
  BY <1>6, <1>7, <1>8, <1>9, <1>10, <1>11, Zenon DEF Looking
<1> QED BY <1>1, <1>2, <1>5, <1>12, OnwardOK, Zenon

(* A batch of peers.                                                       *)
LEMMA PeersBatchOK ==
    ASSUME LookupOK(reader, db), NEW B, PeersBatch(B)
    PROVE  db' = db /\ LookupOK(reader', db)
<1>1. PICK r, d : r = reader /\ d = db
  BY Zenon
<1>2. Looking(r, d) /\ db' = db /\ r.op = "peers"
  BY <1>1, Zenon DEF LookupOK, PeersBatch
<1>3. PICK new : new = {n \in B : d.hb[n] # Absent /\ r.start - d.hb[n] * Second <= Expiry}
  BY Zenon
<1>4. PICK q : q = [r EXCEPT !.ids = @ \ B, !.fresh = @ \cup new]
  BY Zenon
<1>5. reader' = Onward(q)
  BY <1>1, <1>3, <1>4, Zenon DEF PeersBatch
<1>6. /\ q.op = r.op /\ q.asked = r.asked /\ q.self = r.self /\ q.i = r.i /\ q.start = r.start
      /\ q.found = r.found /\ q.ids = r.ids \ B /\ q.fresh = r.fresh \cup new
      /\ q.always = r.always /\ q.ever = r.ever
      /\ q = [op |-> q.op, asked |-> q.asked, self |-> q.self, i |-> q.i, start |-> q.start, found |-> q.found,
              fresh |-> q.fresh, ids |-> q.ids, always |-> q.always, ever |-> q.ever]
  BY <1>2, <1>4, Zenon DEF Looking
<1>7. ASSUME NEW x \in q.always, NEW k \in 1..Len(q.asked), k <= q.i,
                    x[1] = q.asked[k], x[2] # q.self
      PROVE  x \in q.found /\ x[2] \in q.ids \cup q.fresh
  <2>1. x \in r.found /\ x[2] \in r.ids \cup r.fresh /\ x \in Locatable(d, r.start)
    BY <1>2, <1>6, <1>7, Zenon DEF Looking
  <2>2. x[2] \in B => x[2] \in new
    BY <1>3, <2>1, Zenon DEF Locatable
  <2> QED BY <1>6, <2>1, <2>2, Zenon
<1>8. Looking(q, d)
  BY <1>2, <1>6, <1>7, Zenon DEF Looking
<1> QED BY <1>1, <1>2, <1>5, <1>8, OnwardOK, Zenon

(* A new lookup.                                                           *)
LEMMA LocateOK ==
    ASSUME NEW s \in Request, NEW self, Locate(s, self)
    PROVE  db' = db /\ LookupOK(reader', db)
<1>1. PICK d : d = db /\ db' = d
  BY Zenon DEF Locate
<1>2. PICK q : /\ q = reader'
               /\ q = [op |-> "rows", asked |-> s, self |-> self, i |-> 0, start |-> now,
                       found |-> {}, fresh |-> {}, ids |-> {}, always |-> Locatable(d, now), ever |-> d.chunks]
  BY <1>1 DEF Locate
<1>3. s \in Seq(Chunk)
  BY SqlAssumption, Zenon
<1>4. \A k \in 1..Len(q.asked) : ~(k <= q.i)
  BY <1>2, <1>3
<1>5. Looking(q, d)
  BY <1>2, <1>3, <1>4 DEF Looking
<1> QED BY <1>1, <1>2, <1>5, Zenon DEF LookupOK

(* A lookup whose query failed.                                            *)
LEMMA LookupFailsOK ==
    ASSUME LookupFails
    PROVE  db' = db /\ LookupOK(reader', db)
<1>1. PICK q : q = reader' /\ q = Result(reader, TRUE, {}) /\ db' = db
  BY Zenon DEF LookupFails
<1>2. q.op = "answer" /\ q.failed /\ q.rows = {}
  BY <1>1 DEF Result
<1>3. Answered(q)
  BY <1>2, Zenon DEF Answered
<1> QED BY <1>1, <1>2, <1>3, Zenon DEF LookupOK

(* Every other step commits tables, or leaves them and the lookup alone.   *)
LEMMA WritersAndReader ==
    ASSUME [Next]_vars
    PROVE  \/ UNCHANGED <<db, reader>>
           \/ reader' = Idle
           \/ \E d : db' = d /\ reader' = Watched(d)
           \/ LocateBatch \/ (\E B \in SUBSET Node : PeersBatch(B)) \/ LookupFails
           \/ \E s \in Request, self \in Requester : Locate(s, self)
<1>1. CASE UNCHANGED vars
  BY <1>1, Zenon DEF vars
<1>2. ASSUME NEW c \in Call, Exec(c) \/ Commit(c)
      PROVE  UNCHANGED <<db, reader>> \/ \E d : db' = d /\ reader' = Watched(d)
  BY <1>2, Zenon DEF Exec, Commit, Committed
<1>3. ASSUME NEW c \in Call, Handle(c), ~Exec(c), ~Commit(c) PROVE UNCHANGED <<db, reader>>
  BY <1>3, Zenon DEF Handle, Register, Beat, Deregister, Prune, Report, Begin, DeleteSeeds, DeleteChunks,
              DeletePeers, TouchPeer, Step, RowsDone, UpsertChunk, Rollback
<1>4. ASSUME NEW a \in Artifact, PutArtifact(a) \/ \E n \in Node : ReportSeed(a, n)
      PROVE  \E d : db' = d /\ reader' = Watched(d)
  BY <1>4, Zenon DEF PutArtifact, ReportSeed, Committed
<1>5. CASE Passes \/ Crash \/ LookupEnds
  BY <1>5, Zenon DEF Passes, Crash, LookupEnds
<1> QED BY <1>1, <1>2, <1>3, <1>4, <1>5, Zenon DEF Next, Lookup

(* Every step keeps the lookup right.                                      *)
LEMMA LookupNext ==
    ASSUME LookupOK(reader, db), [Next]_vars
    PROVE  LookupOK(reader', db')
<1>1. CASE UNCHANGED <<db, reader>>
  BY <1>1, Zenon
<1>2. CASE reader' = Idle
  BY <1>2, Zenon DEF LookupOK, Idle
<1>3. ASSUME NEW d, db' = d, reader' = Watched(d) PROVE LookupOK(reader', db')
  <2>1. PICK e : e = db
    BY Zenon
  <2> QED BY <1>3, <2>1, WatchedOK, Zenon
<1>4. CASE LocateBatch \/ (\E B \in SUBSET Node : PeersBatch(B)) \/ LookupFails
           \/ \E s \in Request, self \in Requester : Locate(s, self)
  BY <1>4, LocateBatchOK, PeersBatchOK, LookupFailsOK, LocateOK, Zenon
<1> QED BY <1>1, <1>2, <1>3, <1>4, WritersAndReader, Zenon

(* What LocateChunks answers while writers go on is exact, or empty after  *)
(* a failed query, whoever asks.                                           *)
THEOREM LocateCorrect == Spec => []LocateExact
<1> DEFINE Inv == LookupOK(reader, db)
<1>1. Init => Inv
  BY DEF Init, LookupOK, Idle
<1>2. Inv /\ [Next]_vars => Inv'
  BY LookupNext, Zenon
<1>3. Inv => LocateExact
  BY Zenon DEF LookupOK, Looking, Answered, LocateExact
<1> HIDE DEF Inv
<1> QED BY <1>1, <1>2, <1>3, PTL DEF Spec

=============================================================================
