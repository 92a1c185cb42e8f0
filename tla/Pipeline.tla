------------------------------ MODULE Pipeline ------------------------------
(***************************************************************************)
(* The way of an artifact's bytes: spiderctl publish cuts a source tree    *)
(* into chunks and a manifest (pkg/engine/publisher.go), a daemon's sync   *)
(* takes inventory of its cache, downloads what is missing and assembles   *)
(* the files (pkg/engine/engine.go, pkg/materializer), and spiderctl       *)
(* verify looks at the result and at the cache (pkg/verifier).             *)
(*                                                                         *)
(* The steps run next to an environment that edits the source tree while   *)
(* it is read, evicts chunks, and lets bytes rot or get cut in the cache   *)
(* and in the destination.  The downloads themselves are module SyncEngine *)
(* and the commit of a chunk is module ChunkStore: here a download puts    *)
(* verified bytes into the cache or fails.                                 *)
(***************************************************************************)
EXTENDS Manifest, FiniteSets

CONSTANTS Path,       \* names of files, numbers
          Content,    \* contents that source files have
          Junk,       \* the byte that rot leaves
          Absent,     \* in place of a content: there is no such file
          None,       \* in place of a manifest, an entry or a reason
          MaxCommands,\* bound: commands that are started
          MaxEdits,   \* bound: edits of the source tree
          MaxFaults   \* bound: chunks or files lost or damaged

ASSUME PipelineAssumption ==
    /\ Path \subseteq Nat /\ IsFiniteSet(Path) /\ Junk \in Nat
    /\ Content \subseteq Seq(Nat \ {Junk})
    /\ Absent \notin Seq(Nat)
    /\ None \notin [path: Path, size: Nat, chunks: Seq([hash: Seq(Nat), offset: Nat, size: Nat])]

VARIABLES src,        \* the source tree
          cache,      \* the committed chunk files
          manifest,   \* the manifest file that publish wrote last
          pub,        \* the publish command
          job,        \* the sync job of the daemon
          dest,       \* the destination directory
          wrote,      \* history: the entry each destination file was last written from
          ver,        \* the verify command
          commands, edits, faults   \* counters for the bounds

counters == <<commands, edits, faults>>
vars == <<src, cache, manifest, pub, job, dest, wrote, ver, counters>>

\* The chunks that some reading of a source file can produce.
Hash == UNION {{r.hash: r \in Range(Cut(c))}: c \in Content \cup {<<>>}}

NotPublishing == [pc |-> "idle", todo |-> <<>>, off |-> 0, refs |-> <<>>,
                  files |-> <<>>, snap |-> None, touched |-> FALSE]

NoJob == [pc |-> "idle", m |-> None, missing |-> {}, i |-> 1, k |-> 1,
          buf |-> <<>>, why |-> None]

Init ==
    /\ src \in [Path -> Content \cup {Absent}]
    /\ cache = [h \in Hash |-> Absent]
    /\ manifest = None
    /\ pub = NotPublishing
    /\ job = NoJob
    /\ dest = [p \in Path |-> Absent]
    /\ wrote = [p \in Path |-> None]
    /\ ver = [pc |-> "idle", m |-> None, todo |-> {}, good |-> {}, bad |-> {},
              allValid |-> TRUE, truth |-> {}, since |-> 0]
    /\ commands = 0 /\ edits = 0 /\ faults = 0

Command == commands < MaxCommands /\ commands' = commands + 1

(***************************************************************************)
(* The cache as the commands see it.                                       *)
(***************************************************************************)
HasChunk(h) == cache[h] # Absent

\* The bytes of the chunk's file, or ErrChunkNotFound.
GetChunkReader(h) == cache[h]

HasValidCommittedChunk(r) ==
    HasChunk(r.hash) /\ (r.size > 0 => Len(cache[r.hash]) = r.size)

\* PutChunk of each of H that has no file in the cache, whatever the bytes of
\* a file that is there.
PutNew(H) == [h \in Hash |-> IF h \in H /\ ~HasChunk(h) THEN h ELSE cache[h]]

----------------------------------------------------------------------------
(***************************************************************************)
(* Publish.                                                                *)
(***************************************************************************)
PubVars == <<src, manifest, job, dest, wrote, ver, edits, faults>>

Publishing == pub.pc \in {"read", "finalize"}

\* The walk lists the files with the sizes they have now; a tree without
\* files is an error that changes nothing.
ListFiles ==
    /\ Command /\ ~Publishing
    /\ job.pc \notin {"fetch", "write", "check"} \* bound: one command that writes at a time
    /\ \E n \in 1..Cardinality(Path):
       \E order \in Bijection(1..n, {p \in Path: src[p] # Absent}):
         pub' = [pc |-> "read", off |-> 0, refs |-> <<>>, files |-> <<>>,
                 todo |-> [i \in 1..n |-> [path |-> order[i], size |-> Len(src[order[i]])]],
                 snap |-> src, touched |-> FALSE]
    /\ UNCHANGED <<cache, PubVars>>

\* Open fails for a file that has gone, PutChunk for a full disk.
PublishFails ==
    /\ Publishing
    /\ pub' = NotPublishing
    /\ UNCHANGED <<cache, commands, PubVars>>

\* One turn of ChunkStream: a full buffer is a chunk and the file goes on; a
\* short one is the last chunk, an empty one the end.
Turn(refs) == pub' = [pub EXCEPT !.refs = refs, !.off = @ + ChunkSize]

EndFile(refs) ==
    LET f == Head(pub.todo)
    IN  pub' = [pub EXCEPT !.pc = IF Len(pub.todo) = 1 THEN "finalize" ELSE "read",
                           !.todo = Tail(@), !.off = 0, !.refs = <<>>,
                           !.files = Append(@, [path |-> f.path, size |-> f.size,
                                                chunks |-> refs])]

ReadChunk ==
    /\ pub.pc = "read"
    /\ src[Head(pub.todo).path] # Absent
    /\ LET data == ReadFull(src[Head(pub.todo).path], pub.off)
           empty == data = <<>> /\ pub.refs = <<>> /\ Head(pub.todo).size = 0
           new == data # <<>> \/ empty
           refs == IF new THEN Append(pub.refs, Ref(data, pub.off)) ELSE pub.refs
       IN  /\ IF Len(data) = ChunkSize THEN Turn(refs) ELSE EndFile(refs)
           /\ cache' = IF new THEN PutNew({data}) ELSE cache
    /\ UNCHANGED <<commands, PubVars>>

\* Finalize and SaveManifest: a manifest that Validate refuses is not written.
Save ==
    /\ pub.pc = "finalize"
    /\ LET m == Finalize(pub.files)
       IN  /\ manifest' = IF Validate(m) THEN m ELSE manifest
           /\ pub' = IF Validate(m) THEN [NotPublishing EXCEPT !.pc = "done", !.snap = pub.snap,
                                                               !.touched = pub.touched]
                     ELSE NotPublishing
    /\ UNCHANGED <<src, cache, job, dest, wrote, ver, counters>>

----------------------------------------------------------------------------
(***************************************************************************)
(* Sync.                                                                   *)
(***************************************************************************)
JobVars == <<src, manifest, pub, ver, edits, faults>>

Syncing == job.pc \in {"fetch", "write", "check"}

\* The inventory: a chunk file of the right size is not downloaded.
Missing(m) == {r.hash: r \in {r \in RefsOf(m): ~HasValidCommittedChunk(r)}}

\* spiderctl sync hands the manifest file to the daemon, which starts a job.
Submit ==
    /\ Command /\ manifest # None /\ ~Syncing /\ ~Publishing
    /\ job' = [pc |-> "fetch", m |-> manifest, i |-> 1, k |-> 1, buf |-> <<>>, why |-> None,
               missing |-> Missing(manifest)]
    /\ UNCHANGED <<cache, dest, wrote, JobVars>>

JobEnds(pc, why) ==
    job' = [NoJob EXCEPT !.pc = pc, !.why = why, !.m = IF pc = "done" THEN job.m ELSE None]

\* A download commits verified bytes over whatever file is there.
Fetch ==
    /\ job.pc = "fetch"
    /\ \E h \in job.missing:
         /\ cache' = [cache EXCEPT ![h] = h]
         /\ job' = [job EXCEPT !.missing = @ \ {h}]
    /\ UNCHANGED <<dest, wrote, commands, JobVars>>

FetchFails ==
    /\ job.pc = "fetch" /\ job.missing # {}
    /\ JobEnds("failed", "download")
    /\ UNCHANGED <<cache, dest, wrote, commands, JobVars>>

Entry == job.m.files[job.i]

\* materializeFile removes the target and opens it empty.
OpenFile(i) ==
    LET f == job.m.files[i]
    IN  /\ dest' = [dest EXCEPT ![f.path] = <<>>]
        /\ wrote' = [wrote EXCEPT ![f.path] = f]
        /\ job' = [job EXCEPT !.pc = "write", !.i = i, !.k = 1, !.buf = <<>>]

Materialize ==
    /\ job.pc = "fetch" /\ job.missing = {}
    /\ OpenFile(1)
    /\ UNCHANGED <<cache, commands, JobVars>>

\* The chunk's file is copied up to the size of the reference, and the bytes
\* that were copied are hashed on the way.
Copied(r) == LET b == GetChunkReader(r.hash) IN SubSeq(b, 1, Lesser(r.size, Len(b)))

\* After its last chunk a file is done: the next one is opened, or the job
\* completes.
FileWritten ==
    IF SizeOf(Entry.chunks) # Entry.size
    THEN JobEnds("failed", "chunk") /\ UNCHANGED <<dest, wrote>>
    ELSE IF job.i < Len(job.m.files) THEN OpenFile(job.i + 1)
         ELSE JobEnds("done", None) /\ UNCHANGED <<dest, wrote>>

CopyChunk(r) ==
    /\ UNCHANGED wrote
    /\ IF GetChunkReader(r.hash) = Absent THEN JobEnds("failed", "chunk") /\ UNCHANGED dest
       ELSE /\ dest' = [dest EXCEPT ![Entry.path] = @ \o Copied(r)]
            /\ IF Len(Copied(r)) # r.size THEN JobEnds("failed", "chunk")
               ELSE job' = [job EXCEPT !.pc = "check", !.buf = Copied(r)]

WriteChunk ==
    /\ job.pc = "write"
    /\ IF job.k > Len(Entry.chunks) THEN FileWritten ELSE CopyChunk(Entry.chunks[job.k])
    /\ UNCHANGED <<cache, commands, JobVars>>

NextChunk == job' = [job EXCEPT !.pc = "write", !.k = @ + 1, !.buf = <<>>] /\ UNCHANGED dest

\* Variant: the bytes that went into the file are not hashed.
CheckNothing == NextChunk

\* Variant: a file with a wrong chunk is left in place.
CheckKeeps ==
    IF job.buf = Entry.chunks[job.k].hash THEN NextChunk
    ELSE JobEnds("failed", "chunk") /\ UNCHANGED dest

\* A file with a wrong chunk is removed.
CheckChunk ==
    IF job.buf = Entry.chunks[job.k].hash THEN NextChunk
    ELSE /\ JobEnds("failed", "chunk")
         /\ dest' = [dest EXCEPT ![Entry.path] = Absent]

Check ==
    /\ job.pc = "check"
    /\ CheckChunk
    /\ UNCHANGED <<cache, wrote, commands, JobVars>>

\* The daemon stops or dies: the job ends between two files or anywhere.
Crash ==
    /\ Syncing
    /\ JobEnds("failed", "crash")
    /\ wrote' = IF job.pc = "fetch" THEN wrote ELSE [wrote EXCEPT ![Entry.path] = None]
    /\ UNCHANGED <<cache, dest, commands, JobVars>>

----------------------------------------------------------------------------
(***************************************************************************)
(* Verify.                                                                 *)
(***************************************************************************)
VerVars == <<src, cache, manifest, pub, job, dest, wrote, edits, faults>>

Verifying == ver.pc \in {"files", "chunks"}

VerifyArtifact ==
    /\ Command /\ manifest # None /\ ~Verifying
    /\ ver' = [pc |-> "files", m |-> manifest, todo |-> DOMAIN manifest.files,
               good |-> {}, bad |-> {}, allValid |-> TRUE, truth |-> {}, since |-> 0]
    /\ UNCHANGED VerVars

\* Variant: a file of the right size is not read.
ChunksMatchBySize(f) == TRUE

\* Every chunk is read at its offset and hashed.
ChunksMatch(f) ==
    \A k \in DOMAIN f.chunks:
        LET r == f.chunks[k]
        IN  SubSeq(dest[f.path], r.offset + 1, r.offset + r.size) = r.hash

\* One file of the manifest, in the manifest's order: missing, of another
\* size, or read chunk by chunk.
VerifyFile ==
    /\ ver.pc = "files" /\ ver.todo # {}
    /\ LET i == CHOOSE i \in ver.todo: \A j \in ver.todo: i <= j
           f == ver.m.files[i]
           valid == dest[f.path] # Absent /\ Len(dest[f.path]) = f.size /\ ChunksMatch(f)
       IN  ver' = [ver EXCEPT !.todo = @ \ {i},
                              !.good = IF valid THEN @ \cup {f.path} ELSE @,
                              !.bad = IF valid THEN @ ELSE @ \cup {f.path},
                              !.allValid = @ /\ valid,
                              !.truth = IF dest[f.path] = Bytes(f.chunks)
                                        THEN @ \cup {f.path} ELSE @]
    /\ UNCHANGED <<commands, VerVars>>

\* VerifyCache lists the chunk files, then reads one after the other.
VerifyCache ==
    /\ Command /\ ~Verifying
    /\ ver' = [pc |-> "chunks", m |-> None, todo |-> {h \in Hash: HasChunk(h)},
               good |-> {}, bad |-> {}, allValid |-> TRUE,
               truth |-> {h \in Hash: HasChunk(h) /\ cache[h] # h}, since |-> faults]
    /\ UNCHANGED VerVars

VerifyChunk(h) == GetChunkReader(h) # Absent /\ GetChunkReader(h) = h

AuditChunk ==
    /\ ver.pc = "chunks"
    /\ \E h \in ver.todo:
         ver' = [ver EXCEPT !.todo = @ \ {h},
                            !.good = IF VerifyChunk(h) THEN @ \cup {h} ELSE @,
                            !.bad = IF VerifyChunk(h) THEN @ ELSE @ \cup {h}]
    /\ UNCHANGED <<commands, VerVars>>

Report ==
    /\ Verifying /\ ver.todo = {}
    /\ ver' = [ver EXCEPT !.pc = IF @ = "files" THEN "verified" ELSE "audited"]
    /\ UNCHANGED <<commands, VerVars>>

----------------------------------------------------------------------------
(***************************************************************************)
(* The environment.                                                        *)
(***************************************************************************)
\* Someone writes, cuts, creates or removes a source file.  A file that is
\* being read is only removed before it is opened: afterwards the reader
\* would go on with the old bytes.
Edit(p, c) ==
    /\ edits < MaxEdits /\ edits' = edits + 1
    /\ c # src[p]
    /\ c = Absent => ~(pub.pc = "read" /\ pub.off > 0 /\ Head(pub.todo).path = p)
    /\ src' = [src EXCEPT ![p] = c]
    /\ pub' = [pub EXCEPT !.touched = @ \/ Publishing]
    /\ UNCHANGED <<cache, manifest, job, dest, wrote, ver, commands, faults>>

\* What can become of a file's bytes: one goes bad, or the last is cut off.
Damaged(b) == {[b EXCEPT ![1] = Junk], SubSeq(b, 1, Len(b) - 1)} \ {b}

Fault == faults < MaxFaults /\ faults' = faults + 1

\* The quota manager evicts a chunk, or its file is damaged.
LoseChunk(h) ==
    /\ Fault /\ HasChunk(h)
    /\ \E b \in {Absent} \cup (IF cache[h] = <<>> THEN {} ELSE Damaged(cache[h])):
         cache' = [cache EXCEPT ![h] = b]
    /\ UNCHANGED <<src, manifest, pub, job, dest, wrote, ver, commands, edits>>

\* A file of the destination is damaged behind the back of the daemon.
SpoilFile(p) ==
    /\ Fault /\ dest[p] \notin {Absent, <<>>}
    /\ ~(Syncing /\ job.pc # "fetch" /\ Entry.path = p)
    /\ \E b \in Damaged(dest[p]): dest' = [dest EXCEPT ![p] = b]
    /\ wrote' = [wrote EXCEPT ![p] = None]
    /\ UNCHANGED <<src, cache, manifest, pub, job, ver, commands, edits>>

----------------------------------------------------------------------------
Publish == ListFiles \/ PublishFails \/ ReadChunk \/ Save

Sync == Submit \/ Fetch \/ FetchFails \/ Materialize \/ WriteChunk \/ Check \/ Crash

Verify == VerifyArtifact \/ VerifyFile \/ VerifyCache \/ AuditChunk \/ Report

Environment ==
    \/ \E p \in Path: SpoilFile(p) \/ \E c \in Content \cup {Absent}: Edit(p, c)
    \/ \E h \in Hash: LoseChunk(h)

Next == Publish \/ Sync \/ Verify \/ Environment

Spec == Init /\ [][Next]_vars

----------------------------------------------------------------------------
(***************************************************************************)
(* Properties.                                                             *)
(***************************************************************************)
\* Publish describes the source tree: unless a file was edited while it ran,
\* the manifest lists exactly the files of the tree, in path order, each cut
\* into chunks of the chunk size with a shorter last one, an empty file as
\* one empty chunk, under an ID that does not depend on the order of the
\* walk (publisher.go:33, manifest.go:91).
PublishFaithful ==
    pub.pc = "done" /\ ~pub.touched =>
        LET tree == {p \in Path: pub.snap[p] # Absent}
        IN  Describes(manifest, [p \in tree |-> pub.snap[p]])

\* A sync that completes leaves every file of the manifest in the
\* destination with the published bytes, although chunks were evicted, cut or
\* rotten at any moment since the inventory trusted their size
\* (engine.go:342, materializer.go:144).  Files damaged later are left out.
CompletedExact ==
    job.pc = "done" =>
        \A i \in DOMAIN job.m.files:
            LET f == job.m.files[i]
            IN  /\ wrote[f.path] \in {f, None}
                /\ wrote[f.path] = f => dest[f.path] = Bytes(f.chunks)

\* However a sync ends, short of a crash in the middle of a file, it never
\* leaves a file that has the size the manifest gives it and other bytes: a
\* short copy leaves a shorter file, a wrong chunk removes the file
\* (materializer.go:139-147).
NoWrongFile ==
    \A p \in Path:
        /\ wrote[p] # None /\ dest[p] # Absent
        /\ ~(job.pc \in {"write", "check"} /\ Entry.path = p)
        /\ Len(dest[p]) = wrote[p].size
        => dest[p] = Bytes(wrote[p].chunks)

\* Whatever publish accepted can be materialized: a sync whose downloads
\* succeeded fails only when a chunk was lost or damaged, not over the
\* manifest itself, also one of a tree that was edited while it was read
\* (manifest.go:163, materializer.go:152).
PublishedCanBeSynced ==
    job.pc = "failed" /\ job.why = "chunk" => faults > 0

\* What verification reports.  verify artifact passes exactly the files whose
\* bytes were the published ones when it came to them, and reports success
\* exactly when those are all the files, while a sync may be rewriting the
\* directory between one file and the next (verifier.go:82; a file is judged
\* in one step).  verify cache, next to a publish or a sync that
\* repairs chunks, reports only chunks that were damaged when it began, and
\* every one of those that is damaged still, unless the cache was damaged
\* meanwhile (verifier.go:60).
VerifyExact ==
    /\ ver.pc = "verified" =>
        /\ ver.good = ver.truth
        /\ ver.bad = PathsOf(ver.m) \ ver.truth
        /\ ver.allValid = (ver.truth = PathsOf(ver.m))
    /\ ver.pc = "audited" /\ ver.since = faults =>
        /\ ver.bad \subseteq ver.truth
        /\ {h \in ver.truth: cache[h] # h} \subseteq ver.bad
=============================================================================
