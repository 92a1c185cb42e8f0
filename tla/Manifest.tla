------------------------------ MODULE Manifest ------------------------------
(***************************************************************************)
(* Chunk references and artifact manifests (api/v1/manifest.go,            *)
(* pkg/chunk/chunker.go).                                                  *)
(*                                                                         *)
(* A file's content is a sequence of bytes.  SHA-256 is abstracted to a    *)
(* collision-free hash: the hash of some bytes is those bytes, and the     *)
(* artifact ID is the canonical form that is hashed.  A path is a number,  *)
(* so that paths have the order by which files are sorted; names that      *)
(* validManifestPath refuses are left out.                                 *)
(***************************************************************************)
EXTENDS Integers, Sequences, Functions

CONSTANT ChunkSize

ASSUME ChunkSizeAssumption == ChunkSize \in Nat \ {0}

Lesser(a, b) == IF a < b THEN a ELSE b

(***************************************************************************)
(* io.ReadFull of one buffer at offset off: a full chunk, or what is left  *)
(* of the file.                                                            *)
(***************************************************************************)
ReadFull(content, off) == SubSeq(content, off + 1, Lesser(off + ChunkSize, Len(content)))

Ref(data, off) == [hash |-> data, offset |-> off, size |-> Len(data)]

SizeOf(refs) ==
    LET upto[k \in 0..Len(refs)] == IF k = 0 THEN 0 ELSE upto[k - 1] + refs[k].size
    IN  upto[Len(refs)]

Bytes(refs) ==
    LET upto[k \in 0..Len(refs)] == IF k = 0 THEN <<>> ELSE upto[k - 1] \o refs[k].hash
    IN  upto[Len(refs)]

(***************************************************************************)
(* sort.Slice by path: a rearrangement of the files that is in order.      *)
(***************************************************************************)
Sorts(p, files) ==
    \A i, j \in DOMAIN files: i < j => files[p[i]].path <= files[p[j]].path

ByPath(files) ==
    LET p == CHOOSE p \in Bijection(DOMAIN files, DOMAIN files): Sorts(p, files)
    IN  [i \in DOMAIN files |-> files[p[i]]]

(***************************************************************************)
(* The ID hashes the manifest with its files in path order and with the ID *)
(* itself left out.                                                        *)
(***************************************************************************)
ComputeID(files, total) == [files |-> ByPath(files), total |-> total]

(***************************************************************************)
(* Finalize sorts the files, adds up their sizes and sets the ID.          *)
(***************************************************************************)
\* Variant: the files stay in the order of the listing.
FinalizeUnsorted(files) ==
    LET total == SizeOf(files)
    IN  [files |-> files, total |-> total, id |-> ComputeID(files, total)]

Finalize(files) ==
    LET sorted == ByPath(files)
        total == SizeOf(files)
    IN  [files |-> sorted, total |-> total, id |-> ComputeID(sorted, total)]

(***************************************************************************)
(* What every reader and every writer of a manifest checks.                *)
(***************************************************************************)
Contiguous(refs) ==
    \A k \in DOMAIN refs: refs[k].offset = SizeOf(SubSeq(refs, 1, k - 1))

\* Variant: the sum of a file's chunks is not compared with its size.
ValidateLoosely(m) ==
    /\ m.files # <<>>
    /\ \A i \in DOMAIN m.files: Contiguous(m.files[i].chunks)
    /\ m.total = SizeOf(m.files)
    /\ m.id = ComputeID(m.files, m.total)

Validate(m) ==
    /\ m.files # <<>>
    /\ \A i, j \in DOMAIN m.files: i # j => m.files[i].path # m.files[j].path
    /\ \A i \in DOMAIN m.files:
         /\ Contiguous(m.files[i].chunks)
         /\ SizeOf(m.files[i].chunks) = m.files[i].size
    /\ m.total = SizeOf(m.files)
    /\ m.id = ComputeID(m.files, m.total)

RefsOf(m) == UNION {Range(m.files[i].chunks): i \in DOMAIN m.files}

PathsOf(m) == {m.files[i].path: i \in DOMAIN m.files}

(***************************************************************************)
(* Reference definitions: the cut of a content into chunks, and the        *)
(* manifest of a set of files, said without reading anything in order.     *)
(***************************************************************************)
Cut(content) ==
    IF content = <<>> THEN <<Ref(<<>>, 0)>>
    ELSE [k \in 1 .. (Len(content) + ChunkSize - 1) \div ChunkSize
            |-> Ref(ReadFull(content, (k - 1) * ChunkSize), (k - 1) * ChunkSize)]

Describes(m, files) ==
    /\ PathsOf(m) = DOMAIN files
    /\ \A i, j \in DOMAIN m.files: i < j => m.files[i].path < m.files[j].path
    /\ \A i \in DOMAIN m.files:
         LET f == m.files[i]
         IN  f.chunks = Cut(files[f.path]) /\ f.size = Len(files[f.path])
    /\ m.id = [files |-> m.files, total |-> m.total]
=============================================================================
