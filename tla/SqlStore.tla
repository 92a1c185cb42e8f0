------------------------------ MODULE SqlStore ------------------------------
(***************************************************************************)
(* The SQL driver of the tracker's store (pkg/store/sql.go) on SQLite, the *)
(* default: operations on several tables are transactions of several       *)
(* statements, a writer waits for the writer before it, and readers see    *)
(* what is committed.  Calls read the clock before they wait, stamps are   *)
(* whole seconds, and each call ends within the time limit of Registry     *)
(* (pkg/tracker/registry.go, bind).  The process may die at any time.      *)
(*                                                                         *)
(* Next to the writers one lookup is followed: Registry.LocateChunks,      *)
(* which reads rows and then peers, batch by batch.                        *)
(***************************************************************************)
EXTENDS Integers, Sequences, FiniteSets

CONSTANTS
    Node, Chunk, Artifact,
    Call,      \* handlers at work at the same time
    Free,      \* the write lock's holder when nobody has it
    Second,    \* units of the clock per second
    Expiry,    \* peerExpiry
    MaxWait,   \* the limit bind sets
    INBatch,   \* sqlINBatch
    Request,   \* the sequences of hashes that are looked up
    Requester, \* who looks them up: nodes, also ones the store does not know
    MaxBusy,   \* bound: calls and lookups at the same time
    MaxNow     \* bound on the clock

ASSUME SqlAssumption ==
    /\ Second \in Nat \ {0} /\ INBatch \in Nat \ {0}
    /\ Expiry \in Nat /\ MaxWait \in Nat /\ MaxNow \in Nat /\ MaxBusy \in Nat
    /\ Free \notin Call
    /\ Request \subseteq Seq(Chunk)

VARIABLES
    now,      \* the clock
    db,       \* the committed tables
    work,     \* the tables as the open transaction sees them, db if none is
    lock,     \* the call whose transaction is open, or Free
    call,     \* call[c]: the operation c is in
    reader,   \* the lookup
    sign      \* history: sign[n] is when n last gave a sign of life

vars == <<now, db, work, lock, call, reader, sign>>

Absent == -1

Tables(hb, seeds, chunks, arts) == [hb |-> hb, seeds |-> seeds, chunks |-> chunks, arts |-> arts]

Doing(op, n, pc, todo) == [op |-> op, n |-> n, at |-> now, pc |-> pc, todo |-> todo]

Idle == [op |-> "idle", pc |-> "none"]

Init ==
    /\ now = 0
    /\ db = Tables([n \in Node |-> Absent], {}, {}, {}) /\ work = db
    /\ lock = Free
    /\ call = [c \in Call |-> Idle]
    /\ reader = Idle
    /\ sign = [n \in Node |-> 0]

(* Unix(): what is stored of a time.                                       *)
Unix(t) == t \div Second

(* Commits change what a lookup could have seen.                           *)
Locatable(d, since) ==
    {r \in d.chunks : d.hb[r[2]] # Absent /\ since - d.hb[r[2]] * Second <= Expiry}

Watched(d) ==
    IF reader.op \notin {"rows", "peers"} THEN reader
    ELSE [reader EXCEPT !.always = @ \cap Locatable(d, reader.start), !.ever = @ \cup d.chunks]

Committed(d) == db' = d /\ work' = d /\ reader' = Watched(d)

Room ==
    Cardinality({c \in Call : call[c].op # "idle"}) + (IF reader.op = "idle" THEN 0 ELSE 1) < MaxBusy

Begin(c, req) ==
    /\ call[c].op = "idle" /\ Room
    /\ call' = [call EXCEPT ![c] = req]
    /\ UNCHANGED <<now, db, work, lock, reader, sign>>

Register(c, n)      == Begin(c, Doing("register", n, "exec", {}))
Beat(c, n)          == Begin(c, Doing("beat", n, "exec", {}))
Deregister(c, n)    == Begin(c, Doing("deregister", n, "seeds", {}))
Prune(c)            == Begin(c, Doing("prune", Free, "seeds", {}))
Report(c, n, H)     == Begin(c, Doing("report", n, "touch", H))

Return(c) == call' = [call EXCEPT ![c] = Idle]

-----------------------------------------------------------------------------
(* Operations of one statement commit by themselves.                       *)
Stamped(d, n, t) == [d EXCEPT !.hb[n] = Unix(t)]

Exec(c) ==
    LET n == call[c].n
    IN  /\ call[c].pc = "exec" /\ lock = Free
        /\ IF call[c].op = "register" \/ db.hb[n] # Absent
           THEN /\ Committed(Stamped(db, n, call[c].at))
                /\ sign' = [sign EXCEPT ![n] = now]
           ELSE UNCHANGED <<db, work, reader, sign>>
        /\ Return(c)
        /\ UNCHANGED <<now, lock>>

ReportSeed(a, n) ==
    /\ lock = Free
    /\ Committed([db EXCEPT !.seeds = @ \cup {<<a, n>>}])
    /\ UNCHANGED <<now, lock, call, sign>>

PutArtifact(a) ==
    /\ lock = Free
    /\ Committed([db EXCEPT !.arts = @ \cup {a}])
    /\ UNCHANGED <<now, lock, call, sign>>

-----------------------------------------------------------------------------
(* Transactions.  The first statement takes the lock.                      *)
Step(c, from, to, d) ==
    /\ call[c].pc = from /\ lock \in {Free, c}
    /\ lock' = c /\ work' = d
    /\ call' = [call EXCEPT ![c].pc = to]
    /\ UNCHANGED <<now, db, reader, sign>>

Cutoff(c) == Unix(call[c].at - Expiry)

(* Variant: whoever is not heard of in this second has expired.            *)
DoomedEarly(c, d) ==
    IF call[c].op = "deregister" THEN {call[c].n}
    ELSE {n \in Node : d.hb[n] # Absent /\ d.hb[n] <= Cutoff(c)}

Doomed(c, d) ==
    IF call[c].op = "deregister" THEN {call[c].n}
    ELSE {n \in Node : d.hb[n] # Absent /\ d.hb[n] < Cutoff(c)}

OfOthers(rows, S) == {r \in rows : r[2] \notin S}

DeleteSeeds(c) ==
    Step(c, "seeds", "chunks", [work EXCEPT !.seeds = OfOthers(@, Doomed(c, work))])

DeleteChunks(c) ==
    Step(c, "chunks", "peers", [work EXCEPT !.chunks = OfOthers(@, Doomed(c, work))])

DeletePeers(c) ==
    Step(c, "peers", "commit",
         [work EXCEPT !.hb = [n \in Node |-> IF n \in Doomed(c, work) THEN Absent ELSE @[n]]])

TouchPeer(c) ==
    Step(c, "touch", "rows",
         IF work.hb[call[c].n] = Absent THEN work
         ELSE Stamped(work, call[c].n, call[c].at))

UpsertChunk(c, h) ==
    /\ call[c].pc = "rows" /\ h \in call[c].todo /\ lock = c
    /\ work' = [work EXCEPT !.chunks = @ \cup {<<h, call[c].n>>}]
    /\ call' = [call EXCEPT ![c].todo = @ \ {h}]
    /\ UNCHANGED <<now, db, lock, reader, sign>>

RowsDone(c) ==
    /\ call[c].pc = "rows" /\ call[c].todo = {} /\ lock = c
    /\ call' = [call EXCEPT ![c].pc = "commit"]
    /\ UNCHANGED <<now, db, work, lock, reader, sign>>

Commit(c) ==
    /\ call[c].pc = "commit" /\ lock = c
    /\ Committed(work) /\ lock' = Free
    /\ sign' = IF call[c].op = "report" /\ work.hb[call[c].n] # Absent
               THEN [sign EXCEPT ![call[c].n] = now] ELSE sign
    /\ Return(c)
    /\ UNCHANGED now

(* Variant: the statements run outside of the transaction.                 *)
RollbackKeeps(c) ==
    /\ call[c].op # "idle"
    /\ lock' = IF lock = c THEN Free ELSE lock
    /\ IF lock = c THEN Committed(work) ELSE UNCHANGED <<db, work, reader>>
    /\ Return(c)
    /\ UNCHANGED <<now, sign>>

(* An error of any statement or of the commit, a cancelled request, or the *)
(* limit of bind.                                                          *)
Rollback(c) ==
    /\ call[c].op # "idle"
    /\ IF lock = c THEN lock' = Free /\ work' = db ELSE UNCHANGED <<lock, work>>
    /\ Return(c)
    /\ UNCHANGED <<now, db, reader, sign>>

-----------------------------------------------------------------------------
(* The lookup.  Each batch is a query of its own; the peers are asked for  *)
(* in any order, and are filtered by the time the lookup began.  The       *)
(* requester is not asked for and not named.                               *)
Locate(s, self) ==
    /\ reader.op = "idle" /\ Room
    /\ reader' = [op |-> "rows", asked |-> s, self |-> self, i |-> 0, start |-> now, found |-> {},
                  fresh |-> {}, ids |-> {}, always |-> Locatable(db, now), ever |-> db.chunks]
    /\ UNCHANGED <<now, db, work, lock, call, sign>>

Result(r, failed, rows) ==
    [op |-> "answer", asked |-> r.asked, self |-> r.self, always |-> r.always, ever |-> r.ever,
     failed |-> failed, rows |-> rows]

Answer(r) == Result(r, FALSE, {x \in r.found : x[2] # r.self /\ x[2] \in r.fresh})

Onward(r) ==
    IF r.i < Len(r.asked) THEN r ELSE IF r.ids # {} THEN [r EXCEPT !.op = "peers"] ELSE Answer(r)

Batch == {reader.asked[k] : k \in {j \in 1..Len(reader.asked) :
                                      reader.i < j /\ j <= reader.i + INBatch}}

(* Variant: the rows are read as the open transaction has them.            *)
LocateBatchDirty ==
    LET hits == {r \in work.chunks : r[1] \in Batch}
    IN  /\ reader.op = "rows"
        /\ reader' = Onward([reader EXCEPT !.i = @ + INBatch, !.found = @ \cup hits,
                                           !.ids = @ \cup ({r[2] : r \in hits} \ {reader.self})])
        /\ UNCHANGED <<now, db, work, lock, call, sign>>

LocateBatch ==
    LET hits == {r \in db.chunks : r[1] \in Batch}
    IN  /\ reader.op = "rows"
        /\ reader' = Onward([reader EXCEPT !.i = @ + INBatch, !.found = @ \cup hits,
                                           !.ids = @ \cup ({r[2] : r \in hits} \ {reader.self})])
        /\ UNCHANGED <<now, db, work, lock, call, sign>>

PeersBatch(B) ==
    /\ reader.op = "peers" /\ B \subseteq reader.ids /\ B # {}
    /\ Cardinality(B) = INBatch \/ (Cardinality(B) < INBatch /\ B = reader.ids)
    /\ reader' = Onward([reader EXCEPT !.ids = @ \ B, !.fresh = @ \cup
                    {n \in B : db.hb[n] # Absent /\ reader.start - db.hb[n] * Second <= Expiry}])
    /\ UNCHANGED <<now, db, work, lock, call, sign>>

(* A query that fails, by an error, a cancelled request or the limit of    *)
(* bind, ends the lookup: the answer has an empty list for every hash.     *)
LookupFails ==
    /\ reader.op \in {"rows", "peers"}
    /\ reader' = Result(reader, TRUE, {})
    /\ UNCHANGED <<now, db, work, lock, call, sign>>

LookupEnds ==
    /\ reader.op = "answer"
    /\ reader' = Idle
    /\ UNCHANGED <<now, db, work, lock, call, sign>>

-----------------------------------------------------------------------------
(* Time passes, but no call and no lookup outlives its limit.              *)
Passes ==
    /\ now < MaxNow
    /\ \A c \in Call : call[c].op # "idle" => now - call[c].at < MaxWait
    /\ reader.op \in {"rows", "peers"} => now - reader.start < MaxWait
    /\ now' = now + 1
    /\ UNCHANGED <<db, work, lock, call, reader, sign>>

Crash ==
    /\ lock' = Free /\ work' = db
    /\ call' = [c \in Call |-> Idle] /\ reader' = Idle
    /\ UNCHANGED <<now, db, sign>>

Handle(c) ==
    \/ \E n \in Node : Register(c, n) \/ Beat(c, n) \/ Deregister(c, n)
    \/ Prune(c)
    \/ \E n \in Node, H \in SUBSET Chunk : Report(c, n, H)
    \/ Exec(c)
    \/ DeleteSeeds(c) \/ DeleteChunks(c) \/ DeletePeers(c)
    \/ TouchPeer(c) \/ RowsDone(c) \/ \E h \in Chunk : UpsertChunk(c, h)
    \/ Commit(c) \/ Rollback(c)

Lookup ==
    \/ \E s \in Request, self \in Requester : Locate(s, self)
    \/ LocateBatch \/ LookupFails \/ LookupEnds
    \/ \E B \in SUBSET Node : PeersBatch(B)

Next ==
    \/ \E c \in Call : Handle(c)
    \/ \E a \in Artifact : PutArtifact(a) \/ \E n \in Node : ReportSeed(a, n)
    \/ Lookup \/ Passes \/ Crash

Spec == Init /\ [][Next]_vars

-----------------------------------------------------------------------------
TableOK(d) ==
    /\ d = Tables(d.hb, d.seeds, d.chunks, d.arts)
    /\ d.hb \in [Node -> {Absent} \cup Nat]
    /\ d.seeds \subseteq Artifact \X Node /\ d.chunks \subseteq Chunk \X Node
    /\ d.arts \subseteq Artifact

TypeOK ==
    /\ now \in Nat
    /\ TableOK(db) /\ TableOK(work)
    /\ lock \in Call \cup {Free}
    /\ sign \in [Node -> Nat]
    /\ lock # Free => call[lock].op \in {"deregister", "prune", "report"}

(* The SQL driver keeps the contract of the store: whatever transactions,  *)
(* rollbacks and crashes do, the committed tables change by one operation  *)
(* at a time, and stamps and pruning are within a second and the limit of  *)
(* a call of what the memory driver does.                                  *)
Contract == INSTANCE Store WITH
    Slack <- MaxWait + Second, hb <- [n \in Node |-> IF db.hb[n] = Absent THEN Absent
                                                     ELSE db.hb[n] * Second],
    seeds <- db.seeds, chunks <- db.chunks, arts <- db.arts

ImplementsStore == Contract!StoreSpec

(* last_heartbeat may go back, since a call reads the clock before it      *)
(* waits for the lock, but never further behind the last sign of life than *)
(* the limit of a call and the rest of a second.                           *)
StampsRecent ==
    \A n \in Node : db.hb[n] # Absent => sign[n] - db.hb[n] * Second < MaxWait + Second

(* PruneExpiredPeers removes only peers that have given no sign of life,   *)
(* by registration, heartbeat or report, for Expiry less the limit of a    *)
(* call: rounding to seconds takes nothing from it.                        *)
PrunesOnlySilent ==
    [][\A n \in Node :
          (/\ db.hb[n] # Absent /\ db'.hb[n] = Absent
           /\ call[lock].op = "prune") => now - sign[n] > Expiry - MaxWait]_vars

(* What LocateChunks answers while writers go on: only committed rows of   *)
(* nodes other than the requester, and every asked-for row of theirs whose *)
(* peer stayed registered and fresh; or, when a query failed, no row at    *)
(* all.  A lookup never answers with a part of what there is.              *)
LocateExact ==
    reader.op = "answer" =>
        LET asked == {reader.asked[k] : k \in 1..Len(reader.asked)}
            Wanted(rows) == {r \in rows : r[1] \in asked /\ r[2] # reader.self}
        IN  /\ reader.rows \subseteq Wanted(reader.ever)
            /\ \/ Wanted(reader.always) \subseteq reader.rows
               \/ reader.failed /\ reader.rows = {}

=============================================================================
