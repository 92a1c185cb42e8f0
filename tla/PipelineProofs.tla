--------------------------- MODULE PipelineProofs ---------------------------
(***************************************************************************)
(* Proofs about the way of an artifact's bytes through publish, sync and   *)
(* verify, for every chunk size, every finite set of paths and every set   *)
(* of contents.  There is one invariant for each command, and what each    *)
(* step does to it: PubInv for publish, FilesInv (of PipelineSyncProofs)   *)
(* for sync, CacheInv and Undamaged for the cache, and VerInv for verify.  *)
(***************************************************************************)
EXTENDS PipelineSyncProofs

-----------------------------------------------------------------------------
(* Publish.                                                                *)

Listed == [path: Path, size: Nat]

PubShape(b) ==
    /\ DOMAIN b = {"pc", "todo", "off", "refs", "files", "snap", "touched"}
    /\ b.pc \in {"idle", "read", "finalize", "done"}
    /\ b.todo \in Seq(Listed)
    /\ \E j \in Nat : b.off = j * ChunkSize
    /\ b.refs \in Seq(ChunkRef)
    /\ b.files \in Seq(FileEntry)
    /\ b.pc = "read" => b.todo # <<>>
    /\ b.touched \in BOOLEAN

PathsIn(s)     == {s[i].path : i \in DOMAIN s}
OncePerPath(s) == \A i, j \in DOMAIN s : s[i].path = s[j].path => i = j
Tree(t)        == {p \in Path : t[p] # Absent}

(* The files that were read and those that were not are those of the tree. *)
Partition(files, todo, t) ==
    /\ OncePerPath(files) /\ OncePerPath(todo)
    /\ PathsIn(files) \cap PathsIn(todo) = {}
    /\ PathsIn(files) \cup PathsIn(todo) = Tree(t)

CutOf(f, t) == f.chunks = Cut(t[f.path]) /\ f.size = Len(t[f.path])

(* The chunks that were read of a content.                                 *)
ReadSoFar(refs, off, c) ==
    /\ off = Len(refs) * ChunkSize /\ off <= Len(c)
    /\ \A k \in DOMAIN refs : refs[k] = Ref(ReadFull(c, (k - 1) * ChunkSize), (k - 1) * ChunkSize)

(* How far a publish has come whose tree nobody touched.                   *)
Progress(b) ==
    /\ Partition(b.files, b.todo, b.snap)
    /\ \A i \in DOMAIN b.files : CutOf(b.files[i], b.snap)
    /\ \A i \in DOMAIN b.todo : b.todo[i].size = Len(b.snap[b.todo[i].path])
    /\ b.pc = "finalize" => b.todo = <<>>
    /\ b.pc = "read" => ReadSoFar(b.refs, b.off, b.snap[Head(b.todo).path])

Snapshot(t) == [p \in Tree(t) |-> t[p]]

PubInv(b, s, m) ==
    /\ s \in [Path -> Content \cup {Absent}]
    /\ PubShape(b)
    /\ m # None => Sound(m)
    /\ b.pc \in {"read", "finalize"} /\ ~b.touched => s = b.snap /\ Progress(b)
    /\ b.pc = "done" /\ ~b.touched => Describes(m, Snapshot(b.snap))

(* A file of the source tree has a content.                                *)
LEMMA SrcContent ==
    ASSUME src \in [Path -> Content \cup {Absent}], NEW p \in Path, src[p] # Absent
    PROVE  src[p] \in Content /\ src[p] \in Data /\ Len(src[p]) \in Nat
<1>1. src[p] \in Content
  BY Zenon
<1>2. src[p] \in Data
  BY <1>1, ContentData, Zenon
<1> QED BY <1>1, <1>2 DEF Data

(* ListFiles begins with all files of the tree to be read.                 *)
LEMMA ListOK ==
    ASSUME PubInv(pub, src, manifest), ListFiles
    PROVE  PubInv(pub', src', manifest')
<1>1. PICK n \in 1..Cardinality(Path) : \E o \in Bijection(1..n, Tree(src)) :
           pub' = [pc |-> "read", off |-> 0, refs |-> <<>>, files |-> <<>>,
                   todo |-> [i \in 1..n |-> [path |-> o[i], size |-> Len(src[o[i]])]],
                   snap |-> src, touched |-> FALSE]
  BY Zenon DEF ListFiles, Tree
<1>o. PICK o \in Bijection(1..n, Tree(src)) :
           pub' = [pc |-> "read", off |-> 0, refs |-> <<>>, files |-> <<>>,
                   todo |-> [i \in 1..n |-> [path |-> o[i], size |-> Len(src[o[i]])]],
                   snap |-> src, touched |-> FALSE]
  BY <1>1, Zenon
<1>2. src' = src /\ manifest' = manifest /\ src \in [Path -> Content \cup {Absent}]
  BY Zenon DEF ListFiles, PubVars, PubInv
<1>3. n \in Nat \ {0}
  BY <1>1
<1>4. /\ o \in [1..n -> Tree(src)] /\ DOMAIN o = 1..n
      /\ \A i, j \in 1..n : o[i] = o[j] => i = j
      /\ {o[i] : i \in 1..n} = Tree(src)
  BY <1>o DEF Bijection, Injection, Surjection, IsInjective
<1>5. PICK t : t = [i \in 1..n |-> [path |-> o[i], size |-> Len(src[o[i]])]]
  BY Zenon
<1>6. /\ DOMAIN pub' = {"pc", "todo", "off", "refs", "files", "snap", "touched"}
      /\ pub'.pc = "read" /\ pub'.off = 0 /\ pub'.refs = <<>> /\ pub'.files = <<>>
      /\ pub'.todo = t /\ pub'.snap = src /\ pub'.touched = FALSE
  BY <1>o, <1>5, Zenon
<1>7. /\ DOMAIN t = 1..n
      /\ \A i \in DOMAIN t : t[i].path = o[i] /\ t[i].size = Len(src[t[i].path])
  BY <1>5, Zenon
<1>8. ASSUME NEW i \in DOMAIN t PROVE t[i] \in Listed /\ o[i] \in Path /\ src[o[i]] # Absent
  <2>1. o[i] \in Tree(src)
    BY <1>4, <1>7, Zenon
  <2>2. o[i] \in Path /\ src[o[i]] # Absent
    BY <2>1, Zenon DEF Tree
  <2>3. Len(src[o[i]]) \in Nat
    BY <1>2, <2>2, SrcContent, Zenon
  <2> QED BY <1>5, <2>2, <2>3, Zenon DEF Listed
<1>9. t \in Seq(Listed) /\ Len(t) = n /\ t # <<>>
  <2>1. t = [i \in 1..n |-> t[i]]
    BY <1>5, Zenon
  <2>2. t \in [1..n -> Listed]
    BY <1>7, <1>8, <2>1, Zenon
  <2> QED BY <1>3, <2>2
<1>10. PubShape(pub')
  <2>1. \E j \in Nat : 0 = j * ChunkSize
    BY ChunkSizeAssumption
  <2>2. <<>> \in Seq(ChunkRef) /\ <<>> \in Seq(FileEntry)
    OBVIOUS
  <2>3. \E j \in Nat : pub'.off = j * ChunkSize
    BY <1>6, <2>1, Zenon
  <2>4. pub'.touched \in BOOLEAN
    BY <1>6, Zenon
  <2> QED BY <1>6, <1>9, <2>2, <2>3, <2>4, Zenon DEF PubShape
<1>11. Partition(<<>>, t, src)
  <2>1. OncePerPath(<<>>) /\ OncePerPath(t) /\ PathsIn(<<>>) = {}
    BY <1>4, <1>7 DEF OncePerPath, PathsIn
  <2>2. PathsIn(t) = Tree(src)
    BY <1>4, <1>7 DEF PathsIn
  <2> QED BY <2>1, <2>2, Zenon DEF Partition
<1>12. ReadSoFar(<<>>, 0, src[Head(t).path])
  <2>1. Head(t) = t[1] /\ 1 \in DOMAIN t
    BY <1>9
  <2>2. Len(src[Head(t).path]) \in Nat
    BY <1>2, <1>7, <1>8, <2>1, SrcContent, Zenon
  <2> QED BY <2>2, ChunkSizeAssumption DEF ReadSoFar
<1>13. Progress(pub')
  BY <1>6, <1>7, <1>11, <1>12 DEF Progress
<1> QED BY <1>2, <1>6, <1>10, <1>13, Zenon DEF PubInv

(* Nothing is published.                                                   *)
LEMMA IdleShape == PubShape(NotPublishing)
<1>1. \E j \in Nat : 0 = j * ChunkSize
  BY ChunkSizeAssumption
<1> QED BY <1>1 DEF PubShape, NotPublishing

(* A publish that fails leaves the manifest of the last one.               *)
LEMMA PublishFailsOK ==
    ASSUME PubInv(pub, src, manifest), PublishFails
    PROVE  PubInv(pub', src', manifest')
<1>1. pub' = NotPublishing /\ src' = src /\ manifest' = manifest /\ NotPublishing.pc = "idle"
  BY Zenon DEF PublishFails, PubVars, NotPublishing
<1> QED BY <1>1, IdleShape, Zenon DEF PubInv

(* An edit shows in touched.                                               *)
LEMMA EditOK ==
    ASSUME PubInv(pub, src, manifest), NEW p \in Path, NEW c \in Content \cup {Absent}, Edit(p, c)
    PROVE  PubInv(pub', src', manifest')
<1>1. /\ src' = [src EXCEPT ![p] = c] /\ manifest' = manifest /\ PubShape(pub)
      /\ pub' = [pub EXCEPT !.touched = @ \/ Publishing]
  BY Zenon DEF Edit, PubInv
<1>2. src' \in [Path -> Content \cup {Absent}]
  BY <1>1, Zenon DEF PubInv
<1>3. /\ DOMAIN pub' = DOMAIN pub /\ pub'.pc = pub.pc /\ pub'.todo = pub.todo
      /\ pub'.off = pub.off /\ pub'.refs = pub.refs /\ pub'.files = pub.files
      /\ pub'.snap = pub.snap /\ pub'.touched = (pub.touched \/ Publishing)
  BY <1>1, Zenon DEF PubShape
<1>4. pub'.touched \in BOOLEAN
  BY <1>3, Zenon
<1>5. PubShape(pub')
  BY <1>1, <1>3, <1>4, Zenon DEF PubShape
<1>6. ~pub'.touched => ~Publishing /\ ~pub.touched
  BY <1>3, Zenon
<1> QED BY <1>1, <1>2, <1>3, <1>5, <1>6, Zenon DEF PubInv, Publishing

(* A sequence is empty if it has no elements.                              *)
LEMMA EmptyLen ==
    ASSUME NEW S, NEW s \in Seq(S)
    PROVE  s = <<>> <=> Len(s) = 0
OBVIOUS

(* The next full chunk of a content.                                       *)
LEMMA TurnReads ==
    ASSUME NEW c \in Data, NEW refs \in Seq(ChunkRef), NEW off \in Nat, ReadSoFar(refs, off, c),
           Len(ReadFull(c, off)) = ChunkSize
    PROVE  ReadSoFar(Append(refs, Ref(ReadFull(c, off), off)), off + ChunkSize, c)
<1>1. PICK n, new : n = Len(refs) /\ new = Append(refs, Ref(ReadFull(c, off), off))
  BY Zenon
<1>2. n \in Nat /\ Len(c) \in Nat /\ off = n * ChunkSize /\ off <= Len(c) /\ ChunkSize \in Nat \ {0}
  BY <1>1, ChunkSizeAssumption DEF ReadSoFar, Data
<1>3. off + ChunkSize <= Len(c)
  <2> SUFFICES ASSUME off + ChunkSize > Len(c) PROVE FALSE
    BY <1>2
  <2>1. Len(ReadFull(c, off)) = Len(c) - off
    BY <1>2, ReadLength, Zenon
  <2> QED BY <1>2, <2>1
<1>4. (n + 1) * ChunkSize = off + ChunkSize
  BY <1>2, Offsets, Zenon
<1>5. /\ Len(new) = n + 1 /\ DOMAIN new = 1..(n + 1) /\ DOMAIN refs = 1..n
      /\ new[n + 1] = Ref(ReadFull(c, off), off) /\ \A k \in 1..n : new[k] = refs[k]
  BY <1>1, <1>2
<1>6. ASSUME NEW k \in 1..(n + 1)
      PROVE  new[k] = Ref(ReadFull(c, (k - 1) * ChunkSize), (k - 1) * ChunkSize)
  <2>1. CASE k = n + 1
    <3>1. k - 1 = n
      BY <1>2, <2>1
    <3> QED BY <1>2, <1>5, <2>1, <3>1, Zenon
  <2>2. CASE k # n + 1
    <3>1. k \in 1..n
      BY <1>2, <2>2
    <3> QED BY <1>5, <3>1, Zenon DEF ReadSoFar
  <2> QED BY <2>1, <2>2, Zenon
<1> QED BY <1>1, <1>3, <1>4, <1>5, <1>6, Zenon DEF ReadSoFar

(* A sequence with all the chunks of a content is its cut.                 *)
LEMMA AllRead ==
    ASSUME NEW c \in Data, c # <<>>, NEW refs \in Seq(ChunkRef), Len(refs) = Pieces(c),
           \A k \in DOMAIN refs : refs[k] = Ref(ReadFull(c, (k - 1) * ChunkSize), (k - 1) * ChunkSize)
    PROVE  refs = Cut(c)
<1>1. Cut(c) = [k \in 1..Pieces(c) |-> Ref(ReadFull(c, (k - 1) * ChunkSize), (k - 1) * ChunkSize)]
  BY Zenon DEF Cut, Pieces
<1>2. refs = [k \in 1..Pieces(c) |-> refs[k]] /\ DOMAIN refs = 1..Pieces(c)
  OBVIOUS
<1> QED BY <1>1, <1>2, Zenon

(* The last chunk of a content, or its end.                                *)
LEMMA EndReads ==
    ASSUME NEW c \in Data, NEW refs \in Seq(ChunkRef), NEW off \in Nat, ReadSoFar(refs, off, c),
           Len(ReadFull(c, off)) # ChunkSize, NEW new,
           IF ReadFull(c, off) # <<>> \/ (refs = <<>> /\ Len(c) = 0)
           THEN new = Append(refs, Ref(ReadFull(c, off), off)) ELSE new = refs
    PROVE  new = Cut(c)
<1>1. PICK n, data : n = Len(refs) /\ data = ReadFull(c, off)
  BY Zenon
<1>2. n \in Nat /\ Len(c) \in Nat /\ off = n * ChunkSize /\ off <= Len(c) /\ ChunkSize \in Nat \ {0}
  BY <1>1, ChunkSizeAssumption DEF ReadSoFar, Data
<1>3. off + ChunkSize > Len(c) /\ Len(data) = Len(c) - off /\ data \in Data
  <2>1. ASSUME off + ChunkSize <= Len(c) PROVE FALSE
    BY <2>1, ReadLength, Zenon
  <2>2. off + ChunkSize > Len(c)
    BY <1>2, <2>1
  <2> QED BY <1>1, <1>2, <2>2, ReadLength, Zenon
<1>4. data = <<>> <=> Len(data) = 0
  BY <1>3, EmptyLen, Zenon DEF Data
<1>5. c = <<>> <=> Len(c) = 0
  BY DEF Data
<1>6. CASE Len(c) = 0
  <2>1. off = 0 /\ data = <<>>
    BY <1>2, <1>3, <1>4, <1>6
  <2>2. n = 0
    <3>1. ASSUME n # 0 PROVE FALSE
      <4>1. n * ChunkSize # 0
        BY <1>2, <3>1
      <4> QED BY <1>2, <2>1, <4>1, Zenon
    <3> QED BY <3>1, Zenon
  <2>3. refs = <<>>
    BY <1>1, <2>2, EmptyLen, Zenon
  <2>4. new = <<Ref(<<>>, 0)>>
    BY <1>1, <1>6, <2>1, <2>3
  <2> QED BY <1>5, <1>6, <2>4, Zenon DEF Cut
<1>7. CASE Len(c) # 0 /\ off = Len(c)
  <2>1. data = <<>> /\ new = refs
    <3>1. data = <<>>
      BY <1>2, <1>3, <1>4, <1>7
    <3> QED BY <1>1, <1>7, <3>1, Zenon
  <2>2. PICK m : m = n - 1
    BY Zenon
  <2>3. m \in Nat /\ n = m + 1
    <3>1. ASSUME n = 0 PROVE FALSE
      <4>1. n * ChunkSize = 0
        BY <1>2, <3>1
      <4> QED BY <1>2, <1>7, <4>1, Zenon
    <3> QED BY <1>2, <2>2, <3>1
  <2>4. m * ChunkSize \in Nat /\ off = m * ChunkSize + ChunkSize
    BY <1>2, <2>3, Offsets, Zenon
  <2>5. m * ChunkSize < Len(c) /\ Len(c) <= m * ChunkSize + ChunkSize
    BY <1>2, <1>7, <2>4
  <2>6. Pieces(c) = n
    BY <2>3, <2>5, PieceCount, Zenon
  <2> QED BY <1>1, <1>5, <1>7, <2>1, <2>6, AllRead, Zenon DEF ReadSoFar
<1>8. CASE off # Len(c)
  <2>1. data # <<>> /\ off < Len(c) /\ Len(c) # 0
    BY <1>2, <1>3, <1>4, <1>8
  <2>2. new = Append(refs, Ref(data, off))
    BY <1>1, <2>1, Zenon
  <2>3. Pieces(c) = n + 1
    BY <1>2, <1>3, <2>1, PieceCount
  <2>4. /\ Len(new) = n + 1 /\ DOMAIN new = 1..(n + 1) /\ DOMAIN refs = 1..n
        /\ new[n + 1] = Ref(data, off) /\ \A k \in 1..n : new[k] = refs[k]
    BY <1>1, <1>2, <2>2
  <2>5. ASSUME NEW k \in 1..(n + 1)
        PROVE  new[k] = Ref(ReadFull(c, (k - 1) * ChunkSize), (k - 1) * ChunkSize)
    <3>1. CASE k = n + 1
      <4>1. k - 1 = n
        BY <1>2, <3>1
      <4> QED BY <1>1, <1>2, <2>4, <3>1, <4>1, Zenon
    <3>2. CASE k # n + 1
      <4>1. k \in 1..n
        BY <1>2, <3>2
      <4> QED BY <2>4, <4>1, Zenon DEF ReadSoFar
    <3> QED BY <3>1, <3>2, Zenon
  <2>6. Cut(c) = [k \in 1..Pieces(c) |-> Ref(ReadFull(c, (k - 1) * ChunkSize), (k - 1) * ChunkSize)]
    BY <1>5, <2>1, Zenon DEF Cut, Pieces
  <2>7. new = [k \in 1..(n + 1) |-> new[k]]
    BY <1>1, <1>2, <2>2
  <2> QED BY <2>3, <2>5, <2>6, <2>7, Zenon
<1> QED BY <1>6, <1>7, <1>8, Zenon

(* The file that was read moves to the others.                             *)
LEMMA PartitionMoves ==
    ASSUME NEW files \in Seq(FileEntry), NEW todo \in Seq(Listed), todo # <<>>, NEW t,
           Partition(files, todo, t), NEW f, f.path = Head(todo).path
    PROVE  Partition(Append(files, f), Tail(todo), t)
<1>1. PICK n, m, h, new, rest : /\ n = Len(files) /\ m = Len(todo) /\ h = Head(todo)
                                /\ new = Append(files, f) /\ rest = Tail(todo)
  BY Zenon
<1>2. /\ n \in Nat /\ m \in Nat /\ m >= 1 /\ DOMAIN files = 1..n /\ DOMAIN todo = 1..m
      /\ h = todo[1]
  BY <1>1
<1>3. /\ DOMAIN new = 1..(n + 1) /\ new[n + 1] = f /\ \A i \in 1..n : new[i] = files[i]
  BY <1>1, <1>2
<1>4. /\ DOMAIN rest = 1..(m - 1) /\ \A i \in 1..(m - 1) : rest[i] = todo[i + 1]
  BY <1>1, <1>2
<1>5. /\ \A i, j \in 1..n : files[i].path = files[j].path => i = j
      /\ \A i, j \in 1..m : todo[i].path = todo[j].path => i = j
      /\ \A i \in 1..n, j \in 1..m : files[i].path # todo[j].path
      /\ Tree(t) = {files[i].path : i \in 1..n} \cup {todo[j].path : j \in 1..m}
  <2>1. /\ OncePerPath(files) /\ OncePerPath(todo)
        /\ PathsIn(files) = {files[i].path : i \in 1..n}
        /\ PathsIn(todo) = {todo[j].path : j \in 1..m}
        /\ PathsIn(files) \cap PathsIn(todo) = {}
        /\ PathsIn(files) \cup PathsIn(todo) = Tree(t)
    BY <1>2, Zenon DEF Partition, PathsIn
  <2>2. ASSUME NEW i \in 1..n, NEW j \in 1..m PROVE files[i].path # todo[j].path
    BY <2>1, Zenon
  <2> QED BY <1>2, <2>1, <2>2, Zenon DEF OncePerPath
<1>6. f.path = todo[1].path /\ 1 \in 1..m
  BY <1>1, <1>2
<1>7. ASSUME NEW i \in 1..(n + 1), NEW j \in 1..(n + 1), new[i].path = new[j].path PROVE i = j
  <2>1. (i = n + 1 \/ i \in 1..n) /\ (j = n + 1 \/ j \in 1..n)
    BY <1>2
  <2> QED BY <1>3, <1>5, <1>6, <1>7, <2>1
<1>8. \A i \in 1..(m - 1) : i + 1 \in 1..m /\ i + 1 # 1
  BY <1>2
<1>9. ASSUME NEW i \in 1..(m - 1), NEW j \in 1..(m - 1), rest[i].path = rest[j].path PROVE i = j
  <2>1. i + 1 = j + 1
    BY <1>4, <1>5, <1>8, <1>9
  <2> QED BY <1>2, <2>1
<1>10. ASSUME NEW i \in 1..(n + 1), NEW j \in 1..(m - 1) PROVE new[i].path # rest[j].path
  <2>1. i = n + 1 \/ i \in 1..n
    BY <1>2
  <2> QED BY <1>3, <1>4, <1>5, <1>6, <1>8, <2>1
<1>11. PathsIn(new) \cup PathsIn(rest) = Tree(t)
  <2>1. ASSUME NEW p \in Tree(t) PROVE p \in PathsIn(new) \cup PathsIn(rest)
    <3>1. CASE \E i \in 1..n : p = files[i].path
      <4>1. PICK i \in 1..n : p = files[i].path
        BY <3>1, Zenon
      <4>2. i \in 1..(n + 1) /\ new[i].path = p
        BY <1>2, <1>3, <4>1
      <4> QED BY <1>3, <4>2, Zenon DEF PathsIn
    <3>2. CASE \E j \in 1..m : p = todo[j].path
      <4>1. PICK j \in 1..m : p = todo[j].path
        BY <3>2, Zenon
      <4>2. CASE j = 1
        <5>1. n + 1 \in 1..(n + 1) /\ new[n + 1].path = p
          BY <1>2, <1>3, <1>6, <4>1, <4>2
        <5> QED BY <1>3, <5>1, Zenon DEF PathsIn
      <4>3. CASE j # 1
        <5>1. PICK i : i = j - 1
          BY Zenon
        <5>2. i \in 1..(m - 1) /\ i + 1 = j
          BY <1>2, <4>3, <5>1
        <5>3. rest[i].path = p
          BY <1>4, <4>1, <5>2, Zenon
        <5> QED BY <1>4, <5>2, <5>3, Zenon DEF PathsIn
      <4> QED BY <4>2, <4>3, Zenon
    <3> QED BY <1>5, <3>1, <3>2, Zenon
  <2>2. ASSUME NEW i \in 1..(n + 1) PROVE new[i].path \in Tree(t)
    <3>1. i = n + 1 \/ i \in 1..n
      BY <1>2
    <3> QED BY <1>3, <1>5, <1>6, <3>1
  <2>3. ASSUME NEW j \in 1..(m - 1) PROVE rest[j].path \in Tree(t)
    BY <1>4, <1>5, <1>8
  <2> QED BY <1>3, <1>4, <2>1, <2>2, <2>3, ZenonT(30) DEF PathsIn
<1>12. OncePerPath(new) /\ OncePerPath(rest)
  BY <1>3, <1>4, <1>7, <1>9, Zenon DEF OncePerPath
<1>13. PathsIn(new) \cap PathsIn(rest) = {}
  BY <1>3, <1>4, <1>10, ZenonT(30) DEF PathsIn
<1> QED BY <1>1, <1>11, <1>12, <1>13, Zenon DEF Partition

(* ReadChunk reads the next chunk, or ends the file.                       *)
LEMMA ReadOK ==
    ASSUME PubInv(pub, src, manifest), ReadChunk
    PROVE  PubInv(pub', src', manifest')
<1>0. /\ PubShape(pub) /\ pub.pc = "read" /\ src' = src /\ manifest' = manifest
      /\ src \in [Path -> Content \cup {Absent}] /\ pub.todo # <<>>
      /\ pub.todo \in Seq(Listed) /\ pub.refs \in Seq(ChunkRef) /\ pub.files \in Seq(FileEntry)
  BY Zenon DEF PubInv, PubShape, ReadChunk, PubVars
<1>1. PICK h, c, off, data : /\ h = Head(pub.todo) /\ c = src[h.path] /\ off = pub.off
                             /\ data = ReadFull(c, off)
  BY Zenon
<1>2. h \in Listed /\ h.path \in Path /\ h.size \in Nat /\ c # Absent
  <2>1. h \in Listed
    BY <1>0, <1>1
  <2> QED BY <1>1, <2>1, Zenon DEF Listed, ReadChunk
<1>3. c \in Content /\ c \in Data /\ Len(c) \in Nat
  BY <1>0, <1>1, <1>2, SrcContent, Zenon
<1>4. PICK j \in Nat : off = j * ChunkSize
  BY <1>0, <1>1, Zenon DEF PubShape
<1>5. off \in Nat /\ data \in Hash /\ data \in Data /\ Len(data) \in Nat
  BY <1>1, <1>3, <1>4, Offsets, ReadHash, ReadLength, Zenon
<1>6. Ref(data, off) \in ChunkRef
  BY <1>5, Zenon DEF Ref, ChunkRef
<1>7. PICK refs : refs = IF data # <<>> \/ (data = <<>> /\ pub.refs = <<>> /\ h.size = 0)
                         THEN Append(pub.refs, Ref(data, off)) ELSE pub.refs
  BY ZenonT(30)
<1>8. refs \in Seq(ChunkRef)
  BY <1>0, <1>6, <1>7
<1>9. IF Len(data) = ChunkSize THEN Turn(refs) ELSE EndFile(refs)
  BY <1>1, <1>7, Zenon DEF ReadChunk
<1>10. ASSUME ~pub.touched PROVE /\ src = pub.snap /\ Progress(pub) /\ h.size = Len(c)
                                 /\ ReadSoFar(pub.refs, off, c)
  <2>1. src = pub.snap /\ Progress(pub)
    BY <1>0, <1>10, Zenon DEF PubInv
  <2>2. 1 \in DOMAIN pub.todo /\ h = pub.todo[1]
    BY <1>0, <1>1
  <2> QED BY <1>0, <1>1, <2>1, <2>2, Zenon DEF Progress
<1>11. CASE Len(data) = ChunkSize
  <2>1. /\ DOMAIN pub' = DOMAIN pub /\ pub'.pc = "read" /\ pub'.todo = pub.todo
        /\ pub'.off = off + ChunkSize /\ pub'.refs = refs /\ pub'.files = pub.files
        /\ pub'.snap = pub.snap /\ pub'.touched = pub.touched
    BY <1>0, <1>1, <1>9, <1>11, Zenon DEF Turn, PubShape
  <2>2. \E i \in Nat : pub'.off = i * ChunkSize
    <3>1. j + 1 \in Nat /\ (j + 1) * ChunkSize = off + ChunkSize
      BY <1>4, Offsets
    <3> QED BY <2>1, <3>1, Zenon
  <2>3. PubShape(pub')
    BY <1>0, <1>8, <2>1, <2>2, Zenon DEF PubShape
  <2>4. refs = Append(pub.refs, Ref(data, off))
    <3>1. data # <<>>
      BY <1>11, ChunkSizeAssumption, Zenon
    <3> QED BY <1>7, <3>1, Zenon
  <2>5. ASSUME ~pub'.touched PROVE src' = pub'.snap /\ Progress(pub')
    <3>1. /\ src = pub.snap /\ Progress(pub) /\ ReadSoFar(pub.refs, off, c)
      BY <1>10, <2>1, <2>5, Zenon
    <3>2. ReadSoFar(refs, off + ChunkSize, c)
      BY <1>0, <1>1, <1>3, <1>5, <1>11, <2>4, <3>1, TurnReads, Zenon
    <3> QED BY <1>0, <1>1, <2>1, <3>1, <3>2, Zenon DEF Progress
  <2> QED BY <1>0, <2>1, <2>3, <2>5, Zenon DEF PubInv
<1>12. CASE Len(data) # ChunkSize
  <2>1. PICK f : f = [path |-> h.path, size |-> h.size, chunks |-> refs]
    BY Zenon
  <2>2. /\ DOMAIN pub' = DOMAIN pub
        /\ pub'.pc = (IF Len(pub.todo) = 1 THEN "finalize" ELSE "read")
        /\ pub'.todo = Tail(pub.todo) /\ pub'.off = 0 /\ pub'.refs = <<>>
        /\ pub'.files = Append(pub.files, f) /\ pub'.snap = pub.snap /\ pub'.touched = pub.touched
    BY <1>0, <1>1, <1>9, <1>12, <2>1, ZenonT(30) DEF EndFile, PubShape
  <2>3. f \in FileEntry /\ f.path = h.path /\ f.size = h.size /\ f.chunks = refs
    BY <1>2, <1>8, <2>1, Zenon DEF FileEntry
  <2>4. /\ Tail(pub.todo) \in Seq(Listed) /\ Len(Tail(pub.todo)) = Len(pub.todo) - 1
        /\ Len(pub.todo) \in Nat /\ Append(pub.files, f) \in Seq(FileEntry)
        /\ \A i \in DOMAIN Tail(pub.todo) : i + 1 \in DOMAIN pub.todo /\ Tail(pub.todo)[i] = pub.todo[i + 1]
    BY <1>0, <2>3
  <2>5. Tail(pub.todo) = <<>> <=> Len(pub.todo) = 1
    <3>1. PICK t \in Seq(Listed) : t = Tail(pub.todo)
      BY <2>4, Zenon
    <3>2. t = <<>> <=> Len(t) = 0
      OBVIOUS
    <3> QED BY <2>4, <3>1, <3>2
  <2>6. PubShape(pub')
    <3>1. \E i \in Nat : pub'.off = i * ChunkSize
      BY <2>2, ChunkSizeAssumption
    <3>2. <<>> \in Seq(ChunkRef)
      OBVIOUS
    <3>3. pub'.pc \in {"read", "finalize"} /\ (pub'.pc = "read" => pub'.todo # <<>>)
      BY <2>2, <2>5, Zenon
    <3> QED BY <1>0, <2>2, <2>4, <3>1, <3>2, <3>3, ZenonT(30) DEF PubShape
  <2>7. ASSUME ~pub'.touched PROVE src' = pub'.snap /\ Progress(pub')
    <3>1. /\ src = pub.snap /\ Progress(pub) /\ ReadSoFar(pub.refs, off, c) /\ h.size = Len(c)
      BY <1>10, <2>2, <2>7, Zenon
    <3>2. refs = Cut(c)
      <4>1. IF ReadFull(c, off) # <<>> \/ (pub.refs = <<>> /\ Len(c) = 0)
            THEN refs = Append(pub.refs, Ref(ReadFull(c, off), off)) ELSE refs = pub.refs
        <5>1. IF data # <<>> \/ (pub.refs = <<>> /\ Len(c) = 0)
              THEN refs = Append(pub.refs, Ref(data, off)) ELSE refs = pub.refs
          BY <1>7, <3>1, Zenon
        <5> QED BY <1>1, <5>1, Zenon
      <4>2. Len(ReadFull(c, off)) # ChunkSize
        BY <1>1, <1>12, Zenon
      <4> QED BY <1>0, <1>3, <1>5, <3>1, <4>1, <4>2, EndReads, Zenon
    <3>3. CutOf(f, pub.snap)
      BY <1>1, <2>3, <3>1, <3>2, Zenon DEF CutOf
    <3>4. Partition(pub'.files, pub'.todo, pub'.snap)
      BY <1>0, <1>1, <2>2, <2>3, <3>1, PartitionMoves, Zenon DEF Progress
    <3>5. ASSUME NEW i \in DOMAIN pub'.files PROVE CutOf(pub'.files[i], pub'.snap)
      <4>1. \/ i \in DOMAIN pub.files /\ pub'.files[i] = pub.files[i]
            \/ pub'.files[i] = f
        BY <1>0, <2>2, <2>4
      <4> QED BY <2>2, <3>1, <3>3, <4>1, Zenon DEF Progress
    <3>6. \A i \in DOMAIN pub'.todo : pub'.todo[i].size = Len(pub'.snap[pub'.todo[i].path])
      BY <2>2, <2>4, <3>1 DEF Progress
    <3>7. pub'.pc = "finalize" => pub'.todo = <<>>
      BY <2>2, <2>5, Zenon
    <3>8. ASSUME pub'.pc = "read"
          PROVE  ReadSoFar(pub'.refs, pub'.off, pub'.snap[Head(pub'.todo).path])
      <4>1. PICK g : g = Head(pub'.todo)
        BY Zenon
      <4>2. pub'.todo \in Seq(Listed) /\ pub'.todo # <<>>
        BY <2>2, <2>4, <2>5, <3>8, Zenon
      <4>3. g = pub'.todo[1] /\ 1 \in DOMAIN pub'.todo /\ g \in Listed
        BY <4>1, <4>2
      <4>4. g.path \in Tree(pub.snap)
        BY <2>2, <3>4, <4>3, Zenon DEF Partition, PathsIn
      <4>5. Len(pub.snap[g.path]) \in Nat
        BY <1>0, <3>1, <4>4, SrcContent, Zenon DEF Tree
      <4> QED BY <2>2, <4>1, <4>5, ChunkSizeAssumption DEF ReadSoFar
    <3> QED BY <1>0, <2>2, <3>1, <3>4, <3>5, <3>6, <3>7, <3>8, Zenon DEF Progress
  <2> QED BY <1>0, <2>2, <2>6, <2>7, Zenon DEF PubInv
<1> QED BY <1>11, <1>12, Zenon

(* What Finalize makes of the files.                                       *)
LEMMA FinalizeFiles ==
    ASSUME NEW s \in Seq(FileEntry)
    PROVE  /\ Finalize(s).files = ByPath(s) /\ ByPath(s) \in Seq(FileEntry)
           /\ Finalize(s).total = SizeOf(s)
           /\ Finalize(s).id = [files |-> ByPath(ByPath(s)), total |-> SizeOf(s)]
<1>1. PICK p : /\ Perm(p, Len(s)) /\ Sorts(p, s)
               /\ ByPath(s) = [i \in 1..Len(s) |-> s[p[i]]]
  BY ByPathSorts, Zenon
<1>2. ByPath(s) \in Seq(FileEntry)
  <2>1. Len(s) \in Nat /\ \A i \in 1..Len(s) : s[p[i]] \in FileEntry
    BY <1>1 DEF Perm
  <2> QED BY <1>1, <2>1
<1> QED BY <1>2, Zenon DEF Finalize, ComputeID

(* The manifest of a tree describes it.                                    *)
LEMMA FinalizeDescribes ==
    ASSUME NEW s \in Seq(FileEntry), NEW t, Partition(s, <<>>, t),
           \A i \in DOMAIN s : CutOf(s[i], t)
    PROVE  Describes(Finalize(s), Snapshot(t))
<1>0. Len(s) \in Nat /\ DOMAIN s = 1..Len(s) /\ \A i \in 1..Len(s) : s[i].path \in Nat
  BY PathsNat, Zenon
<1>1. PICK p : /\ Perm(p, Len(s)) /\ Sorts(p, s)
               /\ ByPath(s) = [i \in 1..Len(s) |-> s[p[i]]]
  BY ByPathSorts, Zenon
<1>2. PICK z, n, m : z = ByPath(s) /\ n = Len(s) /\ m = Finalize(s)
  BY Zenon
<1>3. /\ z \in Seq(FileEntry) /\ m.files = z
      /\ m.id = [files |-> ByPath(z), total |-> m.total]
  BY <1>2, FinalizeFiles, Zenon
<1>4. /\ DOMAIN z = 1..n /\ \A i \in 1..n : z[i] = s[p[i]] /\ p[i] \in 1..n
  BY <1>1, <1>2, Zenon DEF Perm
<1>5. OncePerPath(s) /\ PathsIn(s) = Tree(t)
  <2>1. PathsIn(<<>>) = {}
    BY DEF PathsIn
  <2> QED BY <2>1, Zenon DEF Partition
<1>6. ASSUME NEW i \in 1..n, NEW j \in 1..n, i < j PROVE z[i].path < z[j].path
  <2>1. z[i].path <= z[j].path
    BY <1>0, <1>1, <1>2, <1>4, <1>6 DEF Sorts
  <2>2. p[i] # p[j]
    <3>1. i # j
      BY <1>0, <1>2, <1>6
    <3> QED BY <1>1, <1>2, <3>1, Zenon DEF Perm
  <2>3. z[i].path # z[j].path
    BY <1>0, <1>2, <1>4, <1>5, <2>2 DEF OncePerPath
  <2> QED BY <1>0, <1>2, <1>4, <2>1, <2>3
<1>7. ByPath(z) = z
  BY <1>3, <1>4, <1>6, SortedStays, Zenon
<1>8. PathsOf(m) = Tree(t)
  <2>1. PathsOf(m) = {z[i].path : i \in 1..n}
    BY <1>3, <1>4, Zenon DEF PathsOf
  <2>2. PathsIn(s) = {s[i].path : i \in 1..n}
    BY <1>0, <1>2, Zenon DEF PathsIn
  <2>3. \A j \in 1..n : \E i \in 1..n : p[i] = j
    BY <1>1, <1>2, Zenon DEF Perm
  <2>4. {z[i].path : i \in 1..n} = {s[i].path : i \in 1..n}
    <3>1. ASSUME NEW q \in {z[i].path : i \in 1..n} PROVE q \in {s[i].path : i \in 1..n}
      <4>1. PICK i \in 1..n : q = z[i].path
        BY Zenon
      <4> QED BY <1>4, <4>1, Zenon
    <3>2. ASSUME NEW q \in {s[i].path : i \in 1..n} PROVE q \in {z[i].path : i \in 1..n}
      <4>1. PICK j \in 1..n : q = s[j].path
        BY Zenon
      <4>2. PICK i \in 1..n : p[i] = j
        BY <2>3, Zenon
      <4> QED BY <1>4, <4>1, <4>2, Zenon
    <3> QED BY <3>1, <3>2, Zenon
  <2> QED BY <1>5, <2>1, <2>2, <2>4, Zenon
<1>9. DOMAIN Snapshot(t) = Tree(t) /\ \A q \in Tree(t) : Snapshot(t)[q] = t[q]
  BY Zenon DEF Snapshot
<1>10. ASSUME NEW i \in DOMAIN m.files
       PROVE  /\ m.files[i].chunks = Cut(Snapshot(t)[m.files[i].path])
              /\ m.files[i].size = Len(Snapshot(t)[m.files[i].path])
  <2>1. i \in 1..n /\ p[i] \in DOMAIN s /\ m.files[i] = s[p[i]]
    BY <1>0, <1>2, <1>3, <1>4, Zenon
  <2>2. m.files[i].path \in Tree(t)
    BY <1>5, <2>1, Zenon DEF PathsIn
  <2> QED BY <1>9, <2>1, <2>2 DEF CutOf
<1>11. m.id = [files |-> m.files, total |-> m.total]
  BY <1>3, <1>7, Zenon
<1>12. \A i, j \in DOMAIN m.files : i < j => m.files[i].path < m.files[j].path
  BY <1>3, <1>4, <1>6, Zenon
<1> QED BY <1>2, <1>8, <1>9, <1>10, <1>11, <1>12, Zenon DEF Describes

(* Save writes a manifest that Validate accepts, and one that describes    *)
(* the tree if nobody touched it.                                          *)
LEMMA SaveOK ==
    ASSUME PubInv(pub, src, manifest), Save
    PROVE  PubInv(pub', src', manifest')
<1>0. /\ PubShape(pub) /\ pub.pc = "finalize" /\ src' = src /\ pub.files \in Seq(FileEntry)
      /\ src \in [Path -> Content \cup {Absent}] /\ pub.touched \in BOOLEAN
  BY Zenon DEF PubInv, PubShape, Save
<1>1. PICK m : m = Finalize(pub.files)
  BY Zenon
<1>2. CASE Validate(m)
  <2>1. /\ manifest' = m
        /\ pub' = [NotPublishing EXCEPT !.pc = "done", !.snap = pub.snap, !.touched = pub.touched]
    BY <1>1, <1>2, Zenon DEF Save
  <2>2. /\ DOMAIN pub' = DOMAIN NotPublishing /\ pub'.pc = "done"
        /\ pub'.todo = NotPublishing.todo /\ pub'.off = NotPublishing.off
        /\ pub'.refs = NotPublishing.refs /\ pub'.files = NotPublishing.files
        /\ pub'.snap = pub.snap /\ pub'.touched = pub.touched
    BY <2>1, Zenon DEF NotPublishing
  <2>3. PubShape(pub')
    BY <1>0, <2>2, IdleShape, Zenon DEF PubShape
  <2>4. m.files \in Seq(FileEntry)
    BY <1>0, <1>1, FinalizeFiles, ZenonT(30)
  <2>5. Sound(m)
    BY <1>2, <2>4 DEF Validate, Sound, Whole
  <2>6. ASSUME ~pub.touched PROVE Describes(m, Snapshot(pub.snap))
    <3>1. Progress(pub) /\ pub.todo = <<>>
      BY <1>0, <2>6, Zenon DEF PubInv, Progress
    <3> QED BY <1>0, <1>1, <3>1, FinalizeDescribes, Zenon DEF Progress
  <2> QED BY <1>0, <2>1, <2>2, <2>3, <2>5, <2>6, Zenon DEF PubInv
<1>3. CASE ~Validate(m)
  <2>1. manifest' = manifest /\ pub' = NotPublishing
    BY <1>1, <1>3, Zenon DEF Save
  <2>2. NotPublishing.pc = "idle"
    BY Zenon DEF NotPublishing
  <2> QED BY <1>0, <2>1, <2>2, IdleShape, Zenon DEF PubInv
<1> QED BY <1>2, <1>3, Zenon

(* No step spoils what is known of publish.                                *)
LEMMA PubNext ==
    ASSUME PubInv(pub, src, manifest), [Next]_vars
    PROVE  PubInv(pub', src', manifest')
<1>1. CASE pub' = pub /\ src' = src /\ manifest' = manifest
  BY <1>1, Zenon
<1>2. CASE Publish
  BY <1>2, ListOK, PublishFailsOK, ReadOK, SaveOK, Zenon DEF Publish
<1>3. CASE Sync \/ Verify \/ UNCHANGED vars
  <2>1. pub' = pub /\ src' = src /\ manifest' = manifest
    BY <1>3, Zenon DEF Sync, Submit, Fetch, FetchFails, Materialize, WriteChunk, Check, Crash, JobVars,
                Verify, VerifyArtifact, VerifyFile, VerifyCache, AuditChunk, Report, VerVars, vars
  <2> QED BY <1>1, <2>1, Zenon
<1>4. ASSUME NEW p \in Path, SpoilFile(p) PROVE PubInv(pub', src', manifest')
  BY <1>1, <1>4, Zenon DEF SpoilFile
<1>5. ASSUME NEW p \in Path, NEW c \in Content \cup {Absent}, Edit(p, c)
      PROVE  PubInv(pub', src', manifest')
  BY <1>5, EditOK, Zenon
<1>6. ASSUME NEW h \in Hash, LoseChunk(h) PROVE PubInv(pub', src', manifest')
  BY <1>1, <1>6, Zenon DEF LoseChunk
<1> QED BY <1>2, <1>3, <1>4, <1>5, <1>6, Zenon DEF Next, Environment

(* The cache holds bytes.                                                  *)
CacheInv(c, n) == c \in [Hash -> Data \cup {Absent}] /\ n \in Nat

(* What a step may do to the cache short of a fault: it puts right chunks. *)
Repairs(c, d) == \A h \in Hash : d[h] = c[h] \/ d[h] = h

(* A chunk is not mistaken for a missing file.                             *)
LEMMA HashPresent ==
    ASSUME NEW h \in Hash
    PROVE  h \in Data /\ h # Absent
BY HashData, PipelineAssumption, Zenon DEF Data

(* PutChunk of a chunk that publish cut.                                   *)
LEMMA ReadPuts ==
    ASSUME CacheInv(cache, faults), PubInv(pub, src, manifest), ReadChunk
    PROVE  cache' \in [Hash -> Data \cup {Absent}] /\ Repairs(cache, cache')
<1>1. PICK x : cache' = PutNew({x}) \/ cache' = cache
  BY ZenonT(30) DEF ReadChunk
<1>2. CASE cache' = cache
  BY <1>2, Zenon DEF CacheInv, Repairs
<1>3. CASE cache' = PutNew({x})
  <2>1. cache' = [h \in Hash |-> IF h \in {x} /\ ~HasChunk(h) THEN h ELSE cache[h]]
    BY <1>3, Zenon DEF PutNew
  <2>2. \A h \in Hash : h \in Data /\ cache[h] \in Data \cup {Absent}
    BY HashData, Zenon DEF CacheInv
  <2> QED BY <2>1, <2>2, Zenon DEF Repairs
<1> QED BY <1>1, <1>2, <1>3, Zenon

(* A fault is counted, and every other step only repairs.                  *)
LEMMA CacheNext ==
    ASSUME CacheInv(cache, faults), PubInv(pub, src, manifest), FilesInv(job, dest, wrote),
           [Next]_vars
    PROVE  /\ CacheInv(cache', faults')
           /\ faults' = faults + 1 \/ (faults' = faults /\ Repairs(cache, cache'))
<1>0. faults \in Nat /\ faults + 1 \in Nat /\ cache \in [Hash -> Data \cup {Absent}]
      /\ Repairs(cache, cache)
  BY DEF CacheInv, Repairs
<1>1. CASE cache' = cache /\ faults' = faults
  BY <1>0, <1>1, Zenon DEF CacheInv
<1>2. CASE ReadChunk
  <2>1. faults' = faults
    BY <1>2, Zenon DEF ReadChunk, PubVars
  <2> QED BY <1>0, <1>2, <2>1, ReadPuts, Zenon DEF CacheInv
<1>3. CASE Fetch
  <2>1. PICK h \in job.missing : cache' = [cache EXCEPT ![h] = h]
    BY <1>3, Zenon DEF Fetch
  <2>2. h \in Hash /\ h \in Data
    BY HashData, Zenon DEF FilesInv, JobShape
  <2>3. cache' \in [Hash -> Data \cup {Absent}] /\ Repairs(cache, cache')
    BY <1>0, <2>1, <2>2, Zenon DEF Repairs
  <2>4. faults' = faults
    BY <1>3, Zenon DEF Fetch, JobVars
  <2> QED BY <1>0, <2>3, <2>4, Zenon DEF CacheInv
<1>4. ASSUME NEW h \in Hash, LoseChunk(h) PROVE CacheInv(cache', faults') /\ faults' = faults + 1
  <2>1. PICK b \in {Absent} \cup (IF cache[h] = <<>> THEN {} ELSE Damaged(cache[h])) :
               cache' = [cache EXCEPT ![h] = b]
    BY <1>4, Zenon DEF LoseChunk
  <2>2. cache[h] # Absent /\ faults' = faults + 1
    BY <1>4, Zenon DEF LoseChunk, HasChunk, Fault
  <2>3. cache[h] \in Data
    BY <1>0, <2>2, Zenon
  <2>4. b \in Data \cup {Absent}
    BY <2>1, <2>3, DamagedData, Zenon
  <2> QED BY <1>0, <2>1, <2>2, <2>4, Zenon DEF CacheInv
<1>5. ASSUME NEW p \in Path, SpoilFile(p) PROVE CacheInv(cache', faults') /\ faults' = faults + 1
  BY <1>0, <1>5, Zenon DEF SpoilFile, Fault, CacheInv
<1>6. ASSUME NEW p \in Path, NEW c \in Content \cup {Absent}, Edit(p, c)
      PROVE  cache' = cache /\ faults' = faults
  BY <1>6, Zenon DEF Edit
<1>7. CASE ListFiles \/ PublishFails \/ Save
  BY <1>1, <1>7, Zenon DEF ListFiles, PublishFails, Save, PubVars, counters
<1>8. CASE Submit \/ FetchFails \/ Materialize \/ WriteChunk \/ Check \/ Crash
  BY <1>1, <1>8, Zenon DEF Submit, FetchFails, Materialize, WriteChunk, Check, Crash, JobVars
<1>9. CASE Verify \/ UNCHANGED vars
  BY <1>1, <1>9, ZenonT(30) DEF Verify, VerifyArtifact, VerifyFile, VerifyCache, AuditChunk, Report, VerVars, vars, counters
<1> QED BY <1>1, <1>2, <1>3, <1>4, <1>5, <1>6, <1>7, <1>8, <1>9, ZenonT(30) DEF Next, Publish, Sync, Environment

(* While nothing is lost, the chunks in the cache are the right ones, and  *)
(* those a sync does not wait for are there.                               *)
Undamaged(c, j, n) ==
    n = 0 =>
      /\ \A h \in Hash : c[h] \in {h, Absent}
      /\ j.pc \in {"fetch", "write", "check"} =>
           \A r \in RefsOf(j.m) : c[r.hash] = r.hash \/ r.hash \in j.missing
      /\ AtFile(j) => j.missing = {}
      /\ j.pc = "check" => j.buf = j.m.files[j.i].chunks[j.k].hash
      /\ ~(j.pc = "failed" /\ j.why = "chunk")

(* Repairs keep what a sync found.                                         *)
LEMMA RepairsKeep ==
    ASSUME CacheInv(cache, faults), CacheInv(cache', faults'), FilesInv(job, dest, wrote),
           Undamaged(cache, job, faults), faults = 0, Repairs(cache, cache')
    PROVE  /\ \A h \in Hash : cache'[h] \in {h, Absent}
           /\ job.pc \in {"fetch", "write", "check"} =>
                \A r \in RefsOf(job.m) : cache'[r.hash] = r.hash \/ r.hash \in job.missing
<1>1. \A h \in Hash : cache[h] \in {h, Absent}
  BY Zenon DEF Undamaged
<1>2. \A h \in Hash : cache'[h] \in {h, Absent}
  BY <1>1, Zenon DEF Repairs
<1>3. ASSUME job.pc \in {"fetch", "write", "check"}, NEW r \in RefsOf(job.m)
      PROVE  cache'[r.hash] = r.hash \/ r.hash \in job.missing
  <2>1. r \in ChunkRef
    BY <1>3, RefsSound, Zenon DEF FilesInv, JobShape
  <2>2. r.hash \in Hash
    BY <2>1, Zenon DEF ChunkRef
  <2>3. cache[r.hash] = r.hash \/ r.hash \in job.missing
    BY <1>3, Zenon DEF Undamaged
  <2> QED BY <2>2, <2>3, Zenon DEF Repairs
<1> QED BY <1>2, <1>3, Zenon

(* The chunk that is copied next.                                          *)
LEMMA NextRef ==
    ASSUME FilesInv(job, dest, wrote), AtFile(job), job.k <= Len(Entry.chunks)
    PROVE  /\ Entry.chunks[job.k] \in RefsOf(job.m) /\ Entry.chunks[job.k] \in ChunkRef
           /\ Entry.chunks[job.k].hash \in Hash
<1>1. /\ Sound(job.m) /\ job.i \in DOMAIN job.m.files /\ Entry.chunks \in Seq(ChunkRef)
      /\ job.k - 1 \in 0..Len(Entry.chunks) /\ job.k \in Nat /\ Len(Entry.chunks) \in Nat
  BY CurrentFile, Zenon
<1>2. job.k \in DOMAIN Entry.chunks
  BY <1>1
<1>3. Entry.chunks[job.k] \in Range(Entry.chunks)
  BY <1>2, Zenon DEF Range
<1>4. Entry.chunks[job.k] \in RefsOf(job.m)
  BY <1>1, <1>3, Zenon DEF RefsOf, Entry
<1>5. Entry.chunks[job.k] \in ChunkRef
  BY <1>1, <1>2
<1> QED BY <1>4, <1>5, Zenon DEF ChunkRef

(* Without faults the cache stays as good as the inventory found it.       *)
LEMMA UndamagedNext ==
    ASSUME CacheInv(cache, faults), PubInv(pub, src, manifest), FilesInv(job, dest, wrote),
           Undamaged(cache, job, faults), [Next]_vars
    PROVE  Undamaged(cache', job', faults')
<1> SUFFICES ASSUME faults' = 0 PROVE Undamaged(cache', job', 0)
  BY Zenon DEF Undamaged
<1>0. CacheInv(cache', faults') /\ faults' = faults /\ faults = 0 /\ Repairs(cache, cache')
  <2>1. faults \in Nat
    BY Zenon DEF CacheInv
  <2> QED BY <2>1, CacheNext
<1>1. /\ \A h \in Hash : cache'[h] \in {h, Absent}
      /\ job.pc \in {"fetch", "write", "check"} =>
           \A r \in RefsOf(job.m) : cache'[r.hash] = r.hash \/ r.hash \in job.missing
  BY <1>0, RepairsKeep, Zenon
<1>2. /\ AtFile(job) => job.missing = {}
      /\ job.pc = "check" => job.buf = job.m.files[job.i].chunks[job.k].hash
      /\ ~(job.pc = "failed" /\ job.why = "chunk")
      /\ JobShape(job)
  BY <1>0, ZenonT(30) DEF Undamaged, FilesInv
<1>3. CASE job' = job
  BY <1>1, <1>2, <1>3, ZenonT(30) DEF Undamaged
<1>4. ASSUME job'.pc \in {"fetch", "write"}, job.pc \in {"fetch", "write", "check"}, job'.m = job.m,
             job'.missing = job.missing, job'.pc = "write" => job.missing = {}
      PROVE  Undamaged(cache', job', 0)
  BY <1>1, <1>4, Zenon DEF Undamaged, AtFile
<1>5. ASSUME NEW pc, NEW why, JobEnds(pc, why), pc \in {"done", "failed"}, why # "chunk" \/ pc = "done"
      PROVE  Undamaged(cache', job', 0)
  <2>1. job'.pc = pc /\ job'.why = why
    BY <1>5, Zenon DEF JobEnds, NoJob
  <2> QED BY <1>1, <1>5, <2>1, Zenon DEF Undamaged, AtFile
<1>6. CASE Submit
  <2>1. /\ job'.pc = "fetch" /\ job'.m = manifest /\ job'.missing = Missing(manifest)
        /\ cache' = cache /\ manifest # None
    BY <1>6, Zenon DEF Submit
  <2>2. Sound(manifest)
    BY <2>1, Zenon DEF PubInv
  <2>3. ASSUME NEW r \in RefsOf(manifest)
        PROVE  cache'[r.hash] = r.hash \/ r.hash \in Missing(manifest)
    <3>1. r.hash \in Hash
      BY <2>2, RefsSound DEF ChunkRef
    <3>2. CASE HasValidCommittedChunk(r)
      BY <1>1, <2>1, <3>1, <3>2, Zenon DEF HasValidCommittedChunk, HasChunk
    <3>3. CASE ~HasValidCommittedChunk(r)
      BY <3>3, Zenon DEF Missing
    <3> QED BY <3>2, <3>3, Zenon
  <2> QED BY <1>1, <2>1, <2>3 DEF Undamaged, AtFile
<1>7. CASE Fetch
  <2>1. PICK h \in job.missing : /\ cache' = [cache EXCEPT ![h] = h]
                                 /\ job' = [job EXCEPT !.missing = @ \ {h}]
    BY <1>7, Zenon DEF Fetch
  <2>2. h \in Hash /\ job.pc = "fetch" /\ cache'[h] = h
    BY <1>2, <1>7, <2>1, Zenon DEF JobShape, Fetch, CacheInv
  <2>3. job'.pc = "fetch" /\ job'.m = job.m /\ job'.missing = job.missing \ {h}
    BY <1>2, <2>1, <2>2, Zenon DEF JobShape
  <2> QED BY <1>1, <2>2, <2>3, Zenon DEF Undamaged, AtFile
<1>8. CASE FetchFails
  BY <1>5, <1>8, Zenon DEF FetchFails
<1>9. ASSUME NEW n, OpenFile(n), job.pc \in {"fetch", "write"}, job.missing = {}
      PROVE  Undamaged(cache', job', 0)
  <2>1. job'.pc = "write" /\ job'.m = job.m /\ job'.missing = job.missing
    BY <1>2, <1>9, Zenon DEF OpenFile, JobShape
  <2> QED BY <1>4, <1>9, <2>1, Zenon
<1>10. CASE Materialize
  BY <1>9, <1>10, Zenon DEF Materialize
<1>11. CASE WriteChunk /\ job.k > Len(Entry.chunks)
  <2>1. job.pc = "write" /\ FileWritten /\ AtFile(job)
    BY <1>11, Zenon DEF WriteChunk, AtFile
  <2>2. SizeOf(Entry.chunks) = Entry.size
    BY <2>1, CurrentFile, Zenon DEF Whole
  <2>3. OpenFile(job.i + 1) \/ JobEnds("done", None)
    BY <2>1, <2>2, Zenon DEF FileWritten
  <2> QED BY <1>2, <1>5, <1>9, <2>1, <2>3, Zenon
<1>12. CASE WriteChunk /\ ~(job.k > Len(Entry.chunks))
  <2>1. job.pc = "write" /\ CopyChunk(Entry.chunks[job.k]) /\ AtFile(job) /\ cache' = cache
    BY <1>12, Zenon DEF WriteChunk, AtFile
  <2>2. job.k <= Len(Entry.chunks)
    <3>1. job.k \in Nat /\ Len(Entry.chunks) \in Nat
      BY <2>1, CurrentFile, Zenon
    <3> QED BY <1>12, <3>1
  <2>3. PICK r : r = Entry.chunks[job.k]
    BY Zenon
  <2>4. r \in RefsOf(job.m) /\ r \in ChunkRef /\ r.hash \in Hash
    BY <2>1, <2>2, <2>3, NextRef, Zenon
  <2>5. cache[r.hash] = r.hash /\ r.hash # Absent
    BY <1>1, <1>2, <2>1, <2>4, HashPresent, Zenon
  <2>6. Copied(r) = r.hash /\ Len(r.hash) = r.size
    BY <2>4, <2>5, CopiedData, Zenon DEF CacheInv, ChunkRef
  <2>7. job' = [job EXCEPT !.pc = "check", !.buf = r.hash]
    BY <2>1, <2>3, <2>5, <2>6, Zenon DEF CopyChunk, GetChunkReader
  <2>8. /\ job'.pc = "check" /\ job'.buf = r.hash /\ job'.m = job.m /\ job'.missing = job.missing
        /\ job'.i = job.i /\ job'.k = job.k
    BY <1>2, <2>7, Zenon DEF JobShape
  <2>9. job'.m.files[job'.i].chunks[job'.k] = r
    BY <2>3, <2>8, Zenon DEF Entry
  <2> QED BY <1>1, <1>2, <2>1, <2>8, <2>9, Zenon DEF Undamaged, AtFile
<1>13. CASE Check
  <2>1. job.pc = "check" /\ CheckChunk /\ AtFile(job)
    BY <1>13, Zenon DEF Check, AtFile
  <2>2. job' = [job EXCEPT !.pc = "write", !.k = @ + 1, !.buf = <<>>]
    BY <1>2, <2>1, Zenon DEF CheckChunk, NextChunk, Entry
  <2>3. job'.pc = "write" /\ job'.m = job.m /\ job'.missing = job.missing
    BY <1>2, <2>2, Zenon DEF JobShape
  <2> QED BY <1>2, <1>4, <2>1, <2>3, Zenon
<1>14. CASE Crash
  BY <1>5, <1>14, Zenon DEF Crash
<1>15. CASE Publish \/ Verify \/ UNCHANGED vars
  <2>1. job' = job
    BY <1>15, Zenon DEF Publish, ListFiles, PublishFails, ReadChunk, Save, PubVars,
                 Verify, VerifyArtifact, VerifyFile, VerifyCache, AuditChunk, Report, VerVars, vars
  <2> QED BY <1>3, <2>1, Zenon
<1>16. CASE Environment
  <2>1. job' = job
    BY <1>16, Zenon DEF Environment, SpoilFile, Edit, LoseChunk
  <2> QED BY <1>3, <2>1, Zenon
<1> QED BY <1>6, <1>7, <1>8, <1>10, <1>11, <1>12, <1>13, <1>14, <1>15, <1>16, ZenonT(30) DEF Next, Sync

VerShape(v) ==
    /\ DOMAIN v = {"pc", "m", "todo", "good", "bad", "allValid", "truth", "since"}
    /\ v.pc \in {"idle", "files", "chunks", "verified", "audited"}
    /\ v.since \in Nat

(* The files that verify artifact has been through.                        *)
Seen(v) == {v.m.files[i].path : i \in (DOMAIN v.m.files) \ v.todo}

VerFiles(v) ==
    v.pc \in {"files", "verified"} =>
      /\ Sound(v.m) /\ v.todo \subseteq DOMAIN v.m.files
      /\ v.pc = "verified" => v.todo = {}
      /\ v.truth \subseteq Seen(v)
      /\ v.good = v.truth /\ v.bad = Seen(v) \ v.truth
      /\ v.allValid = (v.truth = Seen(v))

(* The chunks that verify cache has been through, unless the cache was     *)
(* damaged since it began.                                                 *)
Audit(v, c) ==
    /\ \A h \in v.todo : c[h] # Absent
    /\ \A h \in Hash : c[h] \notin {h, Absent} => h \in v.truth
    /\ v.bad \subseteq v.truth
    /\ {h \in v.truth : c[h] # h} \subseteq v.bad \cup v.todo

VerChunks(v, c, n) ==
    v.pc \in {"chunks", "audited"} =>
      /\ v.todo \subseteq Hash /\ v.truth \subseteq Hash /\ v.since <= n
      /\ v.pc = "audited" => v.todo = {}
      /\ v.since = n => Audit(v, c)

VerInv(v, c, n) == VerShape(v) /\ VerFiles(v) /\ VerChunks(v, c, n)

(* What verify artifact looks at tells the published bytes from all others.*)
LEMMA ValidIsTrue ==
    ASSUME NEW f, Whole(f), f.path \in Path, f.chunks \in Seq(ChunkRef),
           dest \in [Path -> Data \cup {Absent}]
    PROVE  (dest[f.path] # Absent /\ Len(dest[f.path]) = f.size /\ ChunksMatch(f))
             <=> dest[f.path] = Bytes(f.chunks)
<1>1. PICK d, s : d = dest[f.path] /\ s = f.chunks
  BY Zenon
<1>2. s \in Seq(ChunkRef) /\ Contiguous(s) /\ SizeOf(s) = f.size /\ d \in Data \cup {Absent}
  BY <1>1, Zenon DEF Whole
<1>3. Bytes(s) \in Data /\ Len(Bytes(s)) = SizeOf(s)
  <2>1. Sized(s) /\ Hashed(s) /\ Len(s) \in 0..Len(s)
    BY <1>2, RefsTyped DEF Sized
  <2>2. Bytes(s) = Joined(s, Len(s)) /\ Bytes(s) \in Data /\ SizeOf(s) = Upto(s, Len(s))
    BY <2>1, JoinedSteps, Uptos, Zenon
  <2> QED BY <1>2, <2>1, <2>2, Lengths, Zenon
<1>4. ChunksMatch(f) <=> \A k \in DOMAIN s : ReadsChunk(d, s, k)
  BY <1>1, Zenon DEF ChunksMatch, ReadsChunk
<1>5. Absent \notin Data
  BY PipelineAssumption, Zenon DEF Data
<1>6. CASE d \in Data /\ Len(d) = SizeOf(s)
  <2>1. d = Bytes(s) <=> \A k \in DOMAIN s : ReadsChunk(d, s, k)
    BY <1>2, <1>6, ReadBack, Zenon
  <2> QED BY <1>1, <1>2, <1>4, <1>5, <1>6, <2>1, Zenon
<1>7. CASE ~(d \in Data /\ Len(d) = SizeOf(s))
  BY <1>1, <1>2, <1>3, <1>5, <1>7, Zenon
<1> QED BY <1>6, <1>7, Zenon

(* One more file is judged, and rightly.                                   *)
LEMMA VerifyFileOK ==
    ASSUME VerInv(ver, cache, faults), FilesInv(job, dest, wrote), VerifyFile
    PROVE  VerInv(ver', cache', faults')
<1>0. /\ VerShape(ver) /\ VerFiles(ver) /\ ver.pc = "files" /\ ver.todo # {}
  BY ZenonT(30) DEF VerInv, VerifyFile
<1>1. /\ Sound(ver.m) /\ ver.todo \subseteq DOMAIN ver.m.files
      /\ ver.truth \subseteq Seen(ver) /\ ver.good = ver.truth /\ ver.bad = Seen(ver) \ ver.truth
      /\ ver.allValid = (ver.truth = Seen(ver))
  BY <1>0, Zenon DEF VerFiles
<1>2. PICK i : i = CHOOSE x \in ver.todo: \A y \in ver.todo: x <= y
  BY Zenon
<1>3. i \in ver.todo
  <2>1. ver.todo \subseteq Nat
    BY <1>1 DEF Sound
  <2>2. \E x \in ver.todo : \A y \in ver.todo : x <= y
    BY <1>0, <2>1, Least, Zenon
  <2> QED BY <1>2, <2>2, ZenonT(30)
<1>4. PICK f, p, valid : /\ f = ver.m.files[i] /\ p = f.path
                         /\ valid = (dest[p] # Absent /\ Len(dest[p]) = f.size /\ ChunksMatch(f))
  BY Zenon
<1>5. i \in DOMAIN ver.m.files /\ Whole(f) /\ p \in Path /\ f.chunks \in Seq(ChunkRef)
  BY <1>1, <1>3, <1>4, EntryTyped, ZenonT(30)
<1>6. valid = (dest[p] = Bytes(f.chunks))
  BY <1>4, <1>5, ValidIsTrue, Zenon DEF FilesInv, FileTypes
<1>7. /\ DOMAIN ver' = DOMAIN ver /\ ver'.pc = "files" /\ ver'.m = ver.m
      /\ ver'.todo = ver.todo \ {i} /\ ver'.since = ver.since
      /\ ver'.good = IF valid THEN ver.good \cup {p} ELSE ver.good
      /\ ver'.bad = IF valid THEN ver.bad ELSE ver.bad \cup {p}
      /\ ver'.allValid = (ver.allValid /\ valid)
      /\ ver'.truth = IF valid THEN ver.truth \cup {p} ELSE ver.truth
  <2>1. ver' = [ver EXCEPT !.todo = @ \ {i},
                           !.good = IF valid THEN @ \cup {p} ELSE @,
                           !.bad = IF valid THEN @ ELSE @ \cup {p},
                           !.allValid = @ /\ valid,
                           !.truth = IF dest[p] = Bytes(f.chunks) THEN @ \cup {p} ELSE @]
    BY <1>2, <1>4, Zenon DEF VerifyFile
  <2> QED BY <1>0, <1>6, <2>1, ZenonT(30) DEF VerShape
<1>8. p \notin Seen(ver) /\ Seen(ver') = Seen(ver) \cup {p}
  <2>1. ASSUME NEW j \in DOMAIN ver.m.files, ver.m.files[j].path = p PROVE j = i
    BY <1>1, <1>4, <1>5, <2>1, Zenon DEF Sound
  <2>2. p \notin Seen(ver)
    BY <1>3, <2>1, Zenon DEF Seen
  <2>3. ASSUME NEW q \in Seen(ver') PROVE q \in Seen(ver) \cup {p}
    <3>1. PICK j \in (DOMAIN ver.m.files) \ (ver.todo \ {i}) : q = ver.m.files[j].path
      BY <1>7, <2>3, Zenon DEF Seen
    <3> QED BY <1>4, <3>1, Zenon DEF Seen
  <2>4. Seen(ver) \cup {p} \subseteq Seen(ver')
    BY <1>4, <1>5, <1>7, ZenonT(30) DEF Seen
  <2> QED BY <2>2, <2>3, <2>4, Zenon
<1>9. VerShape(ver')
  BY <1>0, <1>7, Zenon DEF VerShape
<1>10. VerFiles(ver')
  <2>1. Sound(ver'.m) /\ ver'.todo \subseteq DOMAIN ver'.m.files
    BY <1>1, <1>7, Zenon
  <2>2. CASE valid
    <3>1. ver'.truth = ver.truth \cup {p} /\ ver'.good = ver.good \cup {p} /\ ver'.bad = ver.bad
      BY <1>7, <2>2, Zenon
    <3>2. ver'.allValid = (ver.truth = Seen(ver))
      BY <1>1, <1>7, <2>2, ZenonT(30)
    <3>3. (ver.truth = Seen(ver)) = (ver'.truth = Seen(ver'))
      BY <1>1, <1>8, <3>1
    <3>4. ver'.bad = Seen(ver') \ ver'.truth
      BY <1>1, <1>8, <3>1, Zenon
    <3> QED BY <1>1, <1>7, <1>8, <2>1, <3>1, <3>2, <3>3, <3>4, ZenonT(30) DEF VerFiles
  <2>3. CASE ~valid
    <3>1. ver'.truth = ver.truth /\ ver'.good = ver.good /\ ver'.bad = ver.bad \cup {p}
      BY <1>7, <2>3, Zenon
    <3>2. ver'.allValid = FALSE
      BY <1>7, <2>3, Zenon
    <3>3. (ver'.truth = Seen(ver')) = FALSE
      BY <1>1, <1>8, <3>1, ZenonT(30)
    <3>4. ver'.bad = Seen(ver') \ ver'.truth
      BY <1>1, <1>8, <3>1, Zenon
    <3> QED BY <1>1, <1>7, <1>8, <2>1, <3>1, <3>2, <3>3, <3>4, Zenon DEF VerFiles
  <2>4. valid \in BOOLEAN
    BY <1>4, Zenon
  <2> QED BY <2>2, <2>3, <2>4, Zenon
<1> QED BY <1>7, <1>9, <1>10, Zenon DEF VerInv, VerChunks

(* One more chunk is judged, and rightly.                                  *)
LEMMA AuditChunkOK ==
    ASSUME VerInv(ver, cache, faults), AuditChunk
    PROVE  VerInv(ver', cache', faults')
<1>1. PICK h \in ver.todo : ver' = [ver EXCEPT !.todo = @ \ {h},
                                !.good = IF VerifyChunk(h) THEN @ \cup {h} ELSE @,
                                !.bad = IF VerifyChunk(h) THEN @ ELSE @ \cup {h}]
  BY Zenon DEF AuditChunk
<1>2. /\ ver.pc = "chunks" /\ cache' = cache /\ faults' = faults
      /\ VerShape(ver) /\ VerChunks(ver, cache, faults)
  BY Zenon DEF AuditChunk, VerVars, VerInv
<1>3. /\ DOMAIN ver' = DOMAIN ver /\ ver'.pc = "chunks" /\ ver'.todo = ver.todo \ {h}
      /\ ver'.bad = (IF VerifyChunk(h) THEN ver.bad ELSE ver.bad \cup {h})
      /\ ver'.truth = ver.truth /\ ver'.since = ver.since
  BY <1>1, <1>2, Zenon DEF VerShape
<1>4. ASSUME ver.since = faults PROVE Audit(ver', cache)
  <2>1. Audit(ver, cache) /\ h \in Hash
    BY <1>2, <1>4, Zenon DEF VerChunks
  <2>2. CASE cache[h] = h
    <3>1. VerifyChunk(h)
      BY <2>1, <2>2, Zenon DEF VerifyChunk, GetChunkReader, Audit
    <3>2. ver'.bad = ver.bad
      BY <1>3, <3>1, Zenon
    <3> QED BY <1>3, <2>1, <2>2, <3>2, Zenon DEF Audit
  <2>3. CASE cache[h] # h
    <3>1. ~VerifyChunk(h)
      BY <2>3, Zenon DEF VerifyChunk, GetChunkReader
    <3>2. ver'.bad = ver.bad \cup {h}
      BY <1>3, <3>1, Zenon
    <3>3. h \in ver.truth
      BY <2>1, <2>3, Zenon DEF Audit
    <3> QED BY <1>3, <2>1, <3>2, <3>3, Zenon DEF Audit
  <2> QED BY <2>2, <2>3, Zenon
<1>5. VerChunks(ver', cache', faults')
  BY <1>2, <1>3, <1>4, Zenon DEF VerChunks
<1> QED BY <1>2, <1>3, <1>5, Zenon DEF VerInv, VerShape, VerFiles

(* Steps of others, which verify lives with.                               *)
LEMMA VerKept ==
    ASSUME VerInv(ver, cache, faults), CacheInv(cache, faults), ver' = ver,
           faults' = faults + 1 \/ (faults' = faults /\ Repairs(cache, cache'))
    PROVE  VerInv(ver', cache', faults')
<1>0. faults \in Nat /\ ver.since \in Nat
  BY Zenon DEF CacheInv, VerInv, VerShape
<1> SUFFICES ASSUME ver.pc \in {"chunks", "audited"} PROVE VerChunks(ver, cache', faults')
  BY Zenon DEF VerInv, VerChunks
<1>1. /\ ver.todo \subseteq Hash /\ ver.truth \subseteq Hash /\ ver.since <= faults
      /\ ver.pc = "audited" => ver.todo = {}
      /\ ver.since = faults => Audit(ver, cache)
  BY Zenon DEF VerInv, VerChunks
<1>2. CASE faults' = faults + 1
  <2>1. ver.since <= faults' /\ ver.since # faults'
    BY <1>0, <1>1, <1>2
  <2> QED BY <1>1, <2>1, Zenon DEF VerChunks
<1>3. CASE faults' = faults /\ Repairs(cache, cache')
  <2>1. ASSUME Audit(ver, cache) PROVE Audit(ver, cache')
    <3>1. \A h \in Hash : cache'[h] = cache[h] \/ cache'[h] = h
      BY <1>3, Zenon DEF Repairs
    <3>2. \A h \in Hash : h # Absent
      BY HashPresent, Zenon
    <3> QED BY <1>1, <2>1, <3>1, <3>2, Zenon DEF Audit
  <2> QED BY <1>1, <1>3, <2>1, Zenon DEF VerChunks
<1> QED BY <1>2, <1>3, Zenon

(* No step spoils what is known of verify.                                 *)
LEMMA VerNext ==
    ASSUME CacheInv(cache, faults), PubInv(pub, src, manifest), FilesInv(job, dest, wrote),
           VerInv(ver, cache, faults), [Next]_vars
    PROVE  VerInv(ver', cache', faults')
<1>0. faults \in Nat /\ cache \in [Hash -> Data \cup {Absent}]
  BY Zenon DEF CacheInv
<1>1. CASE ver' = ver
  BY <1>1, CacheNext, VerKept, Zenon
<1>2. CASE VerifyArtifact
  <2>1. /\ ver' = [pc |-> "files", m |-> manifest, todo |-> DOMAIN manifest.files, good |-> {},
                   bad |-> {}, allValid |-> TRUE, truth |-> {}, since |-> 0]
        /\ Sound(manifest)
    BY <1>2, Zenon DEF VerifyArtifact, PubInv
  <2>2. Seen(ver') = {}
    BY <2>1, Zenon DEF Seen
  <2>3. VerShape(ver')
    BY <2>1, Zenon DEF VerShape
  <2>4. VerFiles(ver')
    BY <2>1, <2>2, ZenonT(30) DEF VerFiles
  <2> QED BY <2>1, <2>3, <2>4 DEF VerInv, VerChunks
<1>3. CASE VerifyFile
  BY <1>3, VerifyFileOK, Zenon
<1>4. CASE VerifyCache
  <2>1. /\ cache' = cache /\ faults' = faults
        /\ ver' = [pc |-> "chunks", m |-> None, todo |-> {h \in Hash: HasChunk(h)},
                   good |-> {}, bad |-> {}, allValid |-> TRUE,
                   truth |-> {h \in Hash: HasChunk(h) /\ cache[h] # h}, since |-> faults]
    BY <1>4, Zenon DEF VerifyCache, VerVars
  <2>2. Audit(ver', cache)
    BY <2>1, Zenon DEF Audit, HasChunk
  <2>3. VerShape(ver')
    BY <1>0, <2>1, Zenon DEF VerShape
  <2>4. VerChunks(ver', cache', faults')
    BY <1>0, <2>1, <2>2 DEF VerChunks
  <2> QED BY <2>1, <2>3, <2>4, Zenon DEF VerInv, VerFiles
<1>5. CASE AuditChunk
  BY <1>5, AuditChunkOK, Zenon
<1>6. CASE Report
  <2>1. /\ ver' = [ver EXCEPT !.pc = IF @ = "files" THEN "verified" ELSE "audited"]
        /\ ver.todo = {} /\ cache' = cache /\ faults' = faults /\ VerShape(ver)
        /\ ver.pc \in {"files", "chunks"}
    BY <1>6, Zenon DEF Report, VerVars, Verifying, VerInv
  <2>2. /\ DOMAIN ver' = DOMAIN ver /\ ver'.m = ver.m /\ ver'.todo = {} /\ ver'.good = ver.good
        /\ ver'.bad = ver.bad /\ ver'.allValid = ver.allValid /\ ver'.truth = ver.truth
        /\ ver'.since = ver.since
        /\ ver'.pc = (IF ver.pc = "files" THEN "verified" ELSE "audited")
    BY <2>1, Zenon DEF VerShape
  <2>3. Seen(ver') = Seen(ver)
    BY <2>1, <2>2, ZenonT(30) DEF Seen
  <2>4. VerShape(ver')
    BY <2>1, <2>2, Zenon DEF VerShape
  <2>5. VerFiles(ver')
    BY <2>1, <2>2, <2>3 DEF VerFiles, VerInv
  <2>6. VerChunks(ver', cache', faults')
    BY <2>1, <2>2 DEF VerChunks, VerInv, Audit
  <2> QED BY <2>4, <2>5, <2>6, Zenon DEF VerInv
<1>7. CASE Publish \/ Sync \/ Environment \/ UNCHANGED vars
  <2>1. ver' = ver
    BY <1>7, Zenon DEF Publish, ListFiles, PublishFails, ReadChunk, Save, PubVars,
                Sync, Submit, Fetch, FetchFails, Materialize, WriteChunk, Check, Crash, JobVars,
                Environment, SpoilFile, Edit, LoseChunk, vars
  <2> QED BY <1>1, <2>1, Zenon
<1> QED BY <1>2, <1>3, <1>4, <1>5, <1>6, <1>7, Zenon DEF Next, Verify

(***************************************************************************)
(* The inductive invariant.                                                *)
(***************************************************************************)
IInv ==
    /\ PubInv(pub, src, manifest)
    /\ FilesInv(job, dest, wrote)
    /\ CacheInv(cache, faults)
    /\ Undamaged(cache, job, faults)
    /\ VerInv(ver, cache, faults)

(* The invariant holds at first.                                           *)
LEMMA InitOK == Init => IInv
<1> SUFFICES ASSUME Init PROVE IInv
  BY Zenon
<1>1. PubInv(pub, src, manifest)
  <2>1. NotPublishing.pc = "idle"
    BY Zenon DEF NotPublishing
  <2> QED BY <2>1, IdleShape, Zenon DEF Init, PubInv
<1>2. /\ DOMAIN job = {"pc", "m", "missing", "i", "k", "buf", "why"}
      /\ job.pc = "idle" /\ job.missing = {} /\ job.buf = <<>>
  BY ZenonT(30) DEF Init, NoJob
<1>3. FilesInv(job, dest, wrote)
  <2>1. <<>> \in Data
    BY DEF Data
  <2>2. JobShape(job)
    BY <1>2, <2>1, Zenon DEF JobShape, AtFile
  <2>3. FileTypes(dest, wrote)
    BY Zenon DEF Init, FileTypes
  <2>4. \A p \in Path : Settled(dest, wrote, p)
    BY Zenon DEF Init, Settled
  <2> QED BY <1>2, <2>2, <2>3, <2>4, Zenon DEF FilesInv, AtFile
<1>4. CacheInv(cache, faults) /\ Undamaged(cache, job, faults)
  BY <1>2, Zenon DEF Init, CacheInv, Undamaged, AtFile
<1>5. VerInv(ver, cache, faults)
  BY Zenon DEF Init, VerInv, VerShape, VerFiles, VerChunks
<1> QED BY <1>1, <1>3, <1>4, <1>5, Zenon DEF IInv

(* Every step preserves it.                                                *)
LEMMA StepOK == IInv /\ [Next]_vars => IInv'
<1> SUFFICES ASSUME IInv, [Next]_vars PROVE IInv'
  BY Zenon
<1>0. /\ PubInv(pub, src, manifest) /\ FilesInv(job, dest, wrote) /\ CacheInv(cache, faults)
      /\ Undamaged(cache, job, faults) /\ VerInv(ver, cache, faults)
  BY Zenon DEF IInv
<1>1. PubInv(pub', src', manifest')
  BY <1>0, PubNext, Zenon
<1>2. FilesInv(job', dest', wrote')
  BY <1>0, FilesNext, Zenon DEF PubInv, CacheInv
<1>3. CacheInv(cache', faults')
  BY <1>0, CacheNext, Zenon
<1>4. Undamaged(cache', job', faults')
  BY <1>0, UndamagedNext, Zenon
<1>5. VerInv(ver', cache', faults')
  BY <1>0, VerNext, Zenon
<1> QED BY <1>1, <1>2, <1>3, <1>4, <1>5, Zenon DEF IInv

(* The invariant is one.                                                   *)
THEOREM Invariance == Spec => []IInv
BY InitOK, StepOK, PTL DEF Spec

(* Publish describes the tree: unless a file was edited meanwhile, the     *)
(* manifest has its files in path order, each with the chunks of its bytes *)
(* (publisher.go:33, manifest.go:91), whatever the order of the walk.      *)
THEOREM PublishDescribes == Spec => []PublishFaithful
<1>1. IInv => PublishFaithful
  BY Zenon DEF IInv, PubInv, PublishFaithful, Snapshot, Tree
<1> QED BY <1>1, Invariance, PTL

(* A sync that completes has written the published bytes, whatever happened *)
(* to the cache since the inventory (engine.go:342, materializer.go:144).  *)
THEOREM SyncExact == Spec => []CompletedExact
<1>1. IInv => CompletedExact
  BY ZenonT(30) DEF IInv, FilesInv, CompletedExact, Finished
<1> QED BY <1>1, Invariance, PTL

(* However a sync ends, it leaves no file of the right size with the wrong *)
(* bytes (materializer.go:139-147).                                        *)
THEOREM NeverWrongFile == Spec => []NoWrongFile
<1>1. IInv => NoWrongFile
  BY Zenon DEF IInv, FilesInv, NoWrongFile, Settled, AtFile, Entry
<1> QED BY <1>1, Invariance, PTL

(* A manifest that publish wrote can be materialized: a sync fails over a  *)
(* chunk only after one was lost or damaged (manifest.go:163,              *)
(* materializer.go:152).                                                   *)
THEOREM PublishedSyncs == Spec => []PublishedCanBeSynced
<1>1. ASSUME IInv PROVE PublishedCanBeSynced
  <2>1. faults \in Nat
    BY <1>1, Zenon DEF IInv, CacheInv
  <2>2. faults = 0 => ~(job.pc = "failed" /\ job.why = "chunk")
    BY <1>1, Zenon DEF IInv, Undamaged
  <2> QED BY <2>1, <2>2 DEF PublishedCanBeSynced
<1> QED BY <1>1, Invariance, PTL

(* verify artifact passes exactly the files with the published bytes, and  *)
(* verify cache reports no chunk that was right and misses none that is    *)
(* wrong (verifier.go:82, verifier.go:60).                                 *)
THEOREM VerifyCorrect == Spec => []VerifyExact
<1>1. ASSUME IInv PROVE VerifyExact
  <2>1. ASSUME ver.pc = "verified"
        PROVE  /\ ver.good = ver.truth /\ ver.bad = PathsOf(ver.m) \ ver.truth
               /\ ver.allValid = (ver.truth = PathsOf(ver.m))
    <3>1. VerFiles(ver) /\ ver.todo = {}
      BY <1>1, <2>1, Zenon DEF IInv, VerInv, VerFiles
    <3>2. Seen(ver) = PathsOf(ver.m)
      BY <3>1, Zenon DEF Seen, PathsOf
    <3> QED BY <2>1, <3>1, <3>2, Zenon DEF VerFiles
  <2>2. ASSUME ver.pc = "audited", ver.since = faults
        PROVE  ver.bad \subseteq ver.truth /\ {h \in ver.truth: cache[h] # h} \subseteq ver.bad
    BY <1>1, <2>2, Zenon DEF IInv, VerInv, VerChunks, Audit
  <2> QED BY <2>1, <2>2, Zenon DEF VerifyExact
<1> QED BY <1>1, Invariance, PTL

=============================================================================
