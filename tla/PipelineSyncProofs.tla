------------------------ MODULE PipelineSyncProofs ------------------------
(***************************************************************************)
(* The ground for the proofs about the way of an artifact's bytes, for     *)
(* every chunk size, every finite set of paths and every set of contents.  *)
(*                                                                         *)
(* The first part is about the operators of Manifest and Pipeline: sums of *)
(* sizes, joined chunks, reading a file chunk by chunk at the offsets of   *)
(* its manifest, cutting a content, and sorting.  Induction over numbers   *)
(* is done with sets (Induction): the set of lengths for which a fact      *)
(* holds.  The second part is about the files that a sync writes: their    *)
(* invariant, FilesInv, and what each step does to it.                     *)
(***************************************************************************)
EXTENDS Pipeline, WellFoundedInduction, TLAPS

(* Every set of naturals has a least element.                              *)
LEMMA Least ==
    ASSUME NEW T, T \subseteq Nat, T # {}
    PROVE  \E x \in T : \A y \in T : x <= y
<1>1. PICK x \in T : \A y \in T : ~ (<<y, x>> \in OpToRel(<, Nat))
  BY NatLessThanWellFounded, WFMin, Zenon
<1>2. \A y \in T : ~ (y < x)
  BY <1>1, Zenon DEF OpToRel
<1> QED BY <1>2

(* Numbers and positions, apart from what they are used for.               *)
LEMMA BeforeIsOther ==
    ASSUME NEW l \in Nat, NEW n \in 1..l, NEW q \in 1..(n - 1)
    PROVE  q \in 1..l /\ q # n
OBVIOUS

(* The elements of a sequence.                                             *)
LEMMA ElementIn ==
    ASSUME NEW S, NEW s \in Seq(S), NEW i \in 1..Len(s)
    PROVE  s[i] \in S
OBVIOUS

(* A position, and the next one.                                           *)
LEMMA NextPosition ==
    ASSUME NEW l \in Nat, NEW k \in Int, k \in 1..(l + 1), k <= l
    PROVE  k \in 1..l /\ k + 1 \in 1..(l + 1) /\ (k + 1) - 1 = k
OBVIOUS

(* Two bounds make an equality.                                            *)
LEMMA Squeezed ==
    ASSUME NEW x \in Int, NEW y \in Int, x >= y, x <= y
    PROVE  x = y
OBVIOUS

(* Induction over the naturals, with a set in place of a predicate.        *)
LEMMA Induction ==
    ASSUME NEW T, 0 \in T, \A n \in Nat : n \in T => n + 1 \in T
    PROVE  Nat \subseteq T
<1> SUFFICES ASSUME Nat \ T # {} PROVE FALSE
  BY Zenon
<1>1. PICK m \in Nat \ T : \A n \in Nat \ T : m <= n
  BY Least, Zenon
<1>2. m - 1 \in Nat /\ m - 1 \in T
  BY <1>1
<1>3. (m - 1) + 1 \in T
  BY <1>2, Zenon
<1> QED BY <1>3

-----------------------------------------------------------------------------
(* Sums of sizes.                                                          *)

(* A sequence of chunk references or of files.                             *)
Sized(s) ==
    /\ Len(s) \in Nat /\ DOMAIN s = 1..Len(s)
    /\ \A i \in 1..Len(s) : s[i].size \in Nat

(* g has the sums of the first n sizes of s.                               *)
Adds(g, s, n) ==
    /\ g \in [0..n -> Nat]
    /\ g[0] = 0
    /\ \A i \in 1..n : g[i] = g[i - 1] + s[i].size

(* The sums exist.                                                         *)
LEMMA AddsExist ==
    ASSUME NEW s, Sized(s)
    PROVE  \E g : Adds(g, s, Len(s))
<1> DEFINE T == {n \in Nat : n <= Len(s) => \E g : Adds(g, s, n)}
<1>1. 0 \in T
  <2>1. Adds([i \in 0..0 |-> 0], s, 0)
    BY DEF Adds
  <2> QED BY <2>1, Zenon
<1>2. ASSUME NEW n \in Nat, n \in T PROVE n + 1 \in T
  <2> SUFFICES ASSUME n + 1 <= Len(s) PROVE \E g : Adds(g, s, n + 1)
    OBVIOUS
  <2>1. Len(s) \in Nat /\ s[n + 1].size \in Nat
    BY DEF Sized
  <2>2. PICK g : Adds(g, s, n)
    BY <1>2, <2>1
  <2> DEFINE h == [i \in 0..(n + 1) |-> IF i = n + 1 THEN g[n] + s[n + 1].size ELSE g[i]]
  <2>3. h \in [0..(n + 1) -> Nat] /\ h[0] = 0
    BY <2>1, <2>2 DEF Adds
  <2>4. ASSUME NEW i \in 1..(n + 1) PROVE h[i] = h[i - 1] + s[i].size
    BY <2>1, <2>2 DEF Adds
  <2> HIDE DEF h
  <2>5. Adds(h, s, n + 1)
    BY <2>3, <2>4, Zenon DEF Adds
  <2> QED BY <2>5, Zenon
<1>3. Nat \subseteq T
  <2> HIDE DEF T
  <2> QED BY <1>1, <1>2, Induction, Zenon
<1>4. Len(s) \in T
  BY <1>3, Zenon DEF Sized
<1> QED BY <1>4 DEF Sized

(* They are determined by the sizes.                                       *)
LEMMA AddsAgree ==
    ASSUME NEW g, NEW h, NEW s, NEW t, NEW m \in Nat, NEW n \in Nat, m <= n,
           Adds(g, s, n), Adds(h, t, m), \A i \in 1..m : s[i] = t[i]
    PROVE  \A k \in 0..m : g[k] = h[k]
<1> DEFINE T == {k \in Nat : k <= m => g[k] = h[k]}
<1>1. 0 \in T
  BY Zenon DEF Adds
<1>2. ASSUME NEW k \in Nat, k \in T PROVE k + 1 \in T
  <2> SUFFICES ASSUME k + 1 <= m PROVE g[k + 1] = h[k + 1]
    OBVIOUS
  <2>1. k + 1 \in 1..m /\ k + 1 \in 1..n /\ (k + 1) - 1 = k
    OBVIOUS
  <2>2. g[k + 1] = g[k] + s[k + 1].size /\ h[k + 1] = h[k] + t[k + 1].size
    BY <2>1, Zenon DEF Adds
  <2> QED BY <1>2, <2>1, <2>2
<1>3. Nat \subseteq T
  <2> HIDE DEF T
  <2> QED BY <1>1, <1>2, Induction, Zenon
<1> QED BY <1>3

(* SizeOf is the last of the sums.                                         *)
LEMMA SizeIsSum ==
    ASSUME NEW s, Sized(s), NEW g, Adds(g, s, Len(s))
    PROVE  SizeOf(s) = g[Len(s)]
<1> DEFINE It(u) == u = [k \in 0..Len(s) |-> IF k = 0 THEN 0 ELSE u[k - 1] + s[k].size]
<1>1. Len(s) \in Nat
  BY Zenon DEF Sized
<1>2. It(g)
  <2>1. g = [k \in 0..Len(s) |-> g[k]]
    BY Zenon DEF Adds
  <2>2. ASSUME NEW k \in 0..Len(s)
        PROVE  g[k] = IF k = 0 THEN 0 ELSE g[k - 1] + s[k].size
    BY <1>1 DEF Adds
  <2> QED BY <2>1, <2>2, Zenon
<1>3. PICK u : u = CHOOSE v : It(v)
  BY Zenon
<1>4. It(u)
  <2> HIDE DEF It
  <2> QED BY <1>2, <1>3, Zenon
<1>5. u[0] = 0 /\ \A k \in 1..Len(s) : u[k] = u[k - 1] + s[k].size
  BY <1>1, <1>4
<1> DEFINE T == {k \in Nat : k <= Len(s) => u[k] = g[k]}
<1>6. 0 \in T
  BY <1>5, Zenon DEF Adds
<1>7. ASSUME NEW k \in Nat, k \in T PROVE k + 1 \in T
  <2> SUFFICES ASSUME k + 1 <= Len(s) PROVE u[k + 1] = g[k + 1]
    OBVIOUS
  <2>1. k + 1 \in 1..Len(s) /\ (k + 1) - 1 = k
    BY <1>1
  <2>2. u[k + 1] = u[k] + s[k + 1].size /\ g[k + 1] = g[k] + s[k + 1].size
    BY <1>5, <2>1, Zenon DEF Adds
  <2> QED BY <1>1, <1>7, <2>1, <2>2
<1>8. Nat \subseteq T
  <2> HIDE DEF T, It
  <2> QED BY <1>6, <1>7, Induction, Zenon
<1>9. u[Len(s)] = g[Len(s)]
  BY <1>1, <1>8
<1>10. SizeOf(s) = u[Len(s)]
  BY <1>3, Zenon DEF SizeOf
<1> QED BY <1>9, <1>10, Zenon

-----------------------------------------------------------------------------
(* The first k elements.                                                   *)
Upto(s, k) == SizeOf(SubSeq(s, 1, k))

(* The first k of some sizes.                                              *)
LEMMA Prefix ==
    ASSUME NEW s, Sized(s), NEW k \in 0..Len(s)
    PROVE  /\ Sized(SubSeq(s, 1, k)) /\ Len(SubSeq(s, 1, k)) = k
           /\ \A i \in 1..k : SubSeq(s, 1, k)[i] = s[i]
BY DEF Sized

(* The sizes of the prefixes are the sums.                                 *)
LEMMA UptoSums ==
    ASSUME NEW s, Sized(s)
    PROVE  \E g : /\ Adds(g, s, Len(s)) /\ SizeOf(s) = g[Len(s)]
                  /\ \A k \in 0..Len(s) : Upto(s, k) = g[k]
<1>1. PICK g : Adds(g, s, Len(s))
  BY AddsExist, Zenon
<1>2. SizeOf(s) = g[Len(s)]
  BY <1>1, SizeIsSum, Zenon
<1>3. ASSUME NEW k \in 0..Len(s) PROVE Upto(s, k) = g[k]
  <2>1. PICK t : t = SubSeq(s, 1, k)
    BY Zenon
  <2>2. Sized(t) /\ Len(t) = k /\ \A i \in 1..k : t[i] = s[i]
    BY <2>1, Prefix, Zenon
  <2>3. PICK h : Adds(h, t, k)
    BY <2>2, AddsExist, Zenon
  <2>4. k \in Nat /\ Len(s) \in Nat /\ k <= Len(s) /\ k \in 0..k
    BY DEF Sized
  <2>5. g[k] = h[k]
    BY <1>1, <2>2, <2>3, <2>4, AddsAgree
  <2>6. SizeOf(t) = h[k]
    BY <2>2, <2>3, SizeIsSum, Zenon
  <2> QED BY <2>1, <2>5, <2>6, Zenon DEF Upto
<1> QED BY <1>1, <1>2, <1>3, Zenon

(* The size of the first k elements, step by step.                         *)
LEMMA Uptos ==
    ASSUME NEW s, Sized(s)
    PROVE  /\ Upto(s, 0) = 0 /\ Upto(s, Len(s)) = SizeOf(s)
           /\ \A k \in 0..Len(s) : Upto(s, k) \in Nat
           /\ \A k \in 1..Len(s) : Upto(s, k) = Upto(s, k - 1) + s[k].size
<1>1. PICK g : /\ Adds(g, s, Len(s)) /\ SizeOf(s) = g[Len(s)]
               /\ \A k \in 0..Len(s) : Upto(s, k) = g[k]
  BY UptoSums, Zenon
<1>2. Len(s) \in Nat
  BY Zenon DEF Sized
<1>3. 0 \in 0..Len(s) /\ Len(s) \in 0..Len(s)
  BY <1>2
<1>4. Upto(s, 0) = 0 /\ Upto(s, Len(s)) = SizeOf(s)
  BY <1>1, <1>3, Zenon DEF Adds
<1>5. ASSUME NEW k \in 0..Len(s) PROVE Upto(s, k) \in Nat
  BY <1>1, Zenon DEF Adds
<1>6. ASSUME NEW k \in 1..Len(s) PROVE Upto(s, k) = Upto(s, k - 1) + s[k].size
  <2>1. k \in 0..Len(s) /\ k - 1 \in 0..Len(s)
    BY <1>2
  <2> QED BY <1>1, <2>1, Zenon DEF Adds
<1> QED BY <1>4, <1>5, <1>6, Zenon

-----------------------------------------------------------------------------
(* The bytes of a sequence of chunk references.                            *)

Data == Seq(Nat)

Hashed(s) ==
    /\ Len(s) \in Nat /\ DOMAIN s = 1..Len(s)
    /\ \A i \in 1..Len(s) : s[i].hash \in Data

(* g has the bytes of the first n references of s.                         *)
Joins(g, s, n) ==
    /\ g \in [0..n -> Data]
    /\ g[0] = <<>>
    /\ \A i \in 1..n : g[i] = g[i - 1] \o s[i].hash

(* Bytes after bytes are bytes.                                            *)
LEMMA JoinData ==
    ASSUME NEW a \in Data, NEW b \in Data
    PROVE  a \o b \in Data /\ Len(a \o b) = Len(a) + Len(b) /\ Len(a) \in Nat /\ Len(b) \in Nat
BY DEF Data

(* The joins exist.                                                        *)
LEMMA JoinsExist ==
    ASSUME NEW s, Hashed(s)
    PROVE  \E g : Joins(g, s, Len(s))
<1> DEFINE T == {n \in Nat : n <= Len(s) => \E g : Joins(g, s, n)}
<1>1. 0 \in T
  <2>1. Joins([i \in 0..0 |-> <<>>], s, 0)
    BY DEF Joins, Data
  <2> QED BY <2>1, Zenon
<1>2. ASSUME NEW n \in Nat, n \in T PROVE n + 1 \in T
  <2> SUFFICES ASSUME n + 1 <= Len(s) PROVE \E g : Joins(g, s, n + 1)
    OBVIOUS
  <2>1. Len(s) \in Nat /\ s[n + 1].hash \in Data
    BY DEF Hashed
  <2>2. PICK g : Joins(g, s, n)
    BY <1>2, <2>1
  <2>3. PICK d : d = g[n] \o s[n + 1].hash
    BY Zenon
  <2>4. g[n] \in Data
    BY <2>2 DEF Joins
  <2>5. d \in Data
    BY <2>1, <2>3, <2>4, JoinData, Zenon
  <2> DEFINE h == [i \in 0..(n + 1) |-> IF i = n + 1 THEN d ELSE g[i]]
  <2>6. h \in [0..(n + 1) -> Data] /\ h[0] = <<>>
    BY <2>1, <2>2, <2>5 DEF Joins
  <2>7. ASSUME NEW i \in 1..(n + 1) PROVE h[i] = h[i - 1] \o s[i].hash
    <3>1. i - 1 \in 0..n /\ i - 1 \in 0..(n + 1) /\ i - 1 # n + 1 /\ i \in 0..(n + 1)
      OBVIOUS
    <3>2. h[i - 1] = g[i - 1]
      BY <3>1, Zenon
    <3>3. CASE i = n + 1
      <4>1. h[i] = d /\ i - 1 = n
        BY <3>1, <3>3
      <4> QED BY <2>3, <3>2, <3>3, <4>1, Zenon
    <3>4. CASE i # n + 1
      <4>1. i \in 1..n /\ h[i] = g[i]
        BY <3>1, <3>4
      <4>2. g[i] = g[i - 1] \o s[i].hash
        BY <2>2, <4>1, Zenon DEF Joins
      <4> QED BY <3>2, <4>1, <4>2, Zenon
    <3> QED BY <3>3, <3>4, Zenon
  <2> HIDE DEF h
  <2>8. Joins(h, s, n + 1)
    BY <2>6, <2>7, Zenon DEF Joins
  <2> QED BY <2>8, Zenon
<1>3. Nat \subseteq T
  <2> HIDE DEF T
  <2> QED BY <1>1, <1>2, Induction, Zenon
<1>4. Len(s) \in T
  BY <1>3, Zenon DEF Hashed
<1> QED BY <1>4 DEF Hashed

(* They are determined by the references.                                  *)
LEMMA JoinsAgree ==
    ASSUME NEW g, NEW h, NEW s, NEW t, NEW m \in Nat, NEW n \in Nat, m <= n,
           Joins(g, s, n), Joins(h, t, m), \A i \in 1..m : s[i] = t[i]
    PROVE  \A k \in 0..m : g[k] = h[k]
<1> DEFINE T == {k \in Nat : k <= m => g[k] = h[k]}
<1>1. 0 \in T
  BY Zenon DEF Joins
<1>2. ASSUME NEW k \in Nat, k \in T PROVE k + 1 \in T
  <2> SUFFICES ASSUME k + 1 <= m PROVE g[k + 1] = h[k + 1]
    OBVIOUS
  <2>1. k + 1 \in 1..m /\ k + 1 \in 1..n /\ (k + 1) - 1 = k
    OBVIOUS
  <2>2. g[k + 1] = g[k] \o s[k + 1].hash /\ h[k + 1] = h[k] \o t[k + 1].hash
    <3>1. /\ g[k + 1] = g[(k + 1) - 1] \o s[k + 1].hash
          /\ h[k + 1] = h[(k + 1) - 1] \o t[k + 1].hash
      BY <2>1, Zenon DEF Joins
    <3> QED BY <2>1, <3>1, Zenon
  <2>3. g[k] = h[k] /\ s[k + 1] = t[k + 1]
    BY <1>2, <2>1
  <2> QED BY <2>2, <2>3, Zenon
<1>3. Nat \subseteq T
  <2> HIDE DEF T
  <2> QED BY <1>1, <1>2, Induction, Zenon
<1> QED BY <1>3

(* Bytes is the last of the joins.                                         *)
LEMMA BytesIsJoin ==
    ASSUME NEW s, Hashed(s), NEW g, Joins(g, s, Len(s))
    PROVE  Bytes(s) = g[Len(s)]
<1> DEFINE It(u) == u = [k \in 0..Len(s) |-> IF k = 0 THEN <<>> ELSE u[k - 1] \o s[k].hash]
<1>1. Len(s) \in Nat
  BY Zenon DEF Hashed
<1>2. It(g)
  <2>1. g = [k \in 0..Len(s) |-> g[k]]
    BY Zenon DEF Joins
  <2>2. ASSUME NEW k \in 0..Len(s)
        PROVE  g[k] = IF k = 0 THEN <<>> ELSE g[k - 1] \o s[k].hash
    <3>1. CASE k = 0
      BY <3>1, Zenon DEF Joins
    <3>2. CASE k # 0
      <4>1. k \in 1..Len(s)
        BY <1>1, <3>2
      <4>2. g[k] = g[k - 1] \o s[k].hash
        BY <4>1, Zenon DEF Joins
      <4> QED BY <3>2, <4>2, Zenon
    <3> QED BY <3>1, <3>2, Zenon
  <2> QED BY <2>1, <2>2, Zenon
<1>3. PICK u : u = CHOOSE v : It(v)
  BY Zenon
<1>4. It(u)
  <2> HIDE DEF It
  <2> QED BY <1>2, <1>3, Zenon
<1>5. \A k \in 0..Len(s) : u[k] = IF k = 0 THEN <<>> ELSE u[k - 1] \o s[k].hash
  BY <1>4, Zenon
<1> DEFINE T == {k \in Nat : k <= Len(s) => u[k] = g[k]}
<1>6. 0 \in T
  BY <1>1, <1>5 DEF Joins
<1>7. ASSUME NEW k \in Nat, k \in T PROVE k + 1 \in T
  <2> SUFFICES ASSUME k + 1 <= Len(s) PROVE u[k + 1] = g[k + 1]
    OBVIOUS
  <2>1. k + 1 \in 1..Len(s) /\ k + 1 \in 0..Len(s) /\ k + 1 # 0 /\ (k + 1) - 1 = k /\ k <= Len(s)
    BY <1>1
  <2>2. u[k + 1] = u[(k + 1) - 1] \o s[k + 1].hash /\ g[k + 1] = g[(k + 1) - 1] \o s[k + 1].hash
    BY <1>5, <2>1, Zenon DEF Joins
  <2>3. u[k] = g[k]
    BY <1>7, <2>1, Zenon
  <2> QED BY <2>1, <2>2, <2>3, Zenon
<1>8. Nat \subseteq T
  <2> HIDE DEF T, It
  <2> QED BY <1>6, <1>7, Induction, Zenon
<1>9. u[Len(s)] = g[Len(s)]
  BY <1>1, <1>8
<1>10. Bytes(s) = u[Len(s)]
  BY <1>3, Zenon DEF Bytes
<1> QED BY <1>9, <1>10, Zenon

(* The bytes of the first k references.                                    *)
Joined(s, k) == Bytes(SubSeq(s, 1, k))

(* The first k of some references.                                         *)
LEMMA PrefixHashed ==
    ASSUME NEW s, Hashed(s), NEW k \in 0..Len(s)
    PROVE  /\ Hashed(SubSeq(s, 1, k)) /\ Len(SubSeq(s, 1, k)) = k
           /\ \A i \in 1..k : SubSeq(s, 1, k)[i] = s[i]
BY DEF Hashed

(* The bytes of the prefixes are the joins.                                *)
LEMMA JoinedPrefixes ==
    ASSUME NEW s, Hashed(s)
    PROVE  \E g : /\ Joins(g, s, Len(s)) /\ Bytes(s) = g[Len(s)]
                  /\ \A k \in 0..Len(s) : Joined(s, k) = g[k]
<1>1. PICK g : Joins(g, s, Len(s))
  BY JoinsExist, Zenon
<1>2. Bytes(s) = g[Len(s)]
  BY <1>1, BytesIsJoin, Zenon
<1>3. ASSUME NEW k \in 0..Len(s) PROVE Joined(s, k) = g[k]
  <2>1. PICK t : t = SubSeq(s, 1, k)
    BY Zenon
  <2>2. Hashed(t) /\ Len(t) = k /\ \A i \in 1..k : t[i] = s[i]
    BY <2>1, PrefixHashed, Zenon
  <2>3. PICK h : Joins(h, t, k)
    BY <2>2, JoinsExist, Zenon
  <2>4. k \in Nat /\ Len(s) \in Nat /\ k <= Len(s) /\ k \in 0..k
    BY DEF Hashed
  <2>5. g[k] = h[k]
    BY <1>1, <2>2, <2>3, <2>4, JoinsAgree
  <2>6. Bytes(t) = h[k]
    BY <2>2, <2>3, BytesIsJoin, Zenon
  <2> QED BY <2>1, <2>5, <2>6, Zenon DEF Joined
<1> QED BY <1>1, <1>2, <1>3, Zenon

(* The bytes of the first k references, step by step.                      *)
LEMMA JoinedSteps ==
    ASSUME NEW s, Hashed(s)
    PROVE  /\ Joined(s, 0) = <<>> /\ Joined(s, Len(s)) = Bytes(s)
           /\ \A k \in 0..Len(s) : Joined(s, k) \in Data
           /\ \A k \in 1..Len(s) : Joined(s, k) = Joined(s, k - 1) \o s[k].hash
<1>1. PICK g : /\ Joins(g, s, Len(s)) /\ Bytes(s) = g[Len(s)]
               /\ \A k \in 0..Len(s) : Joined(s, k) = g[k]
  BY JoinedPrefixes, Zenon
<1>2. Len(s) \in Nat
  BY Zenon DEF Hashed
<1> QED BY <1>1, <1>2 DEF Joins

(* A reference to a chunk that some reading can produce, an entry of a     *)
(* manifest, and what Validate establishes of one.                         *)
ChunkRef == {r \in [hash: Hash, offset: Nat, size: Nat] : r.size = Len(r.hash)}

FileEntry == [path: Path, size: Nat, chunks: Seq(ChunkRef)]

Whole(f) == f \in FileEntry /\ Contiguous(f.chunks) /\ SizeOf(f.chunks) = f.size

(* What is read from a content is bytes.                                   *)
LEMMA ReadData ==
    ASSUME NEW c \in Data, NEW off \in Nat
    PROVE  ReadFull(c, off) \in Data
<1>1. PICK n : n = Lesser(off + ChunkSize, Len(c))
  BY Zenon
<1>2. n \in Nat /\ n <= Len(c)
  BY <1>1, ChunkSizeAssumption DEF Lesser, Data
<1>3. SubSeq(c, off + 1, n) \in Data
  BY <1>2 DEF Data
<1> QED BY <1>1, <1>3, Zenon DEF ReadFull

(* Contents are bytes.                                                     *)
LEMMA ContentData == Content \cup {<<>>} \subseteq Data
<1>1. ASSUME NEW c \in Seq(Nat \ {Junk}) PROVE c \in Data
  BY DEF Data
<1>2. <<>> \in Data
  BY DEF Data
<1>3. Content \subseteq Seq(Nat \ {Junk})
  BY PipelineAssumption, Zenon
<1> QED BY <1>1, <1>2, <1>3, Zenon

(* A product of naturals is a natural.                                     *)
LEMMA Offsets ==
    ASSUME NEW j \in Nat
    PROVE  j * ChunkSize \in Nat /\ (j + 1) * ChunkSize = j * ChunkSize + ChunkSize
BY ChunkSizeAssumption

(* The chunks of a content are bytes.                                      *)
LEMMA CutData ==
    ASSUME NEW c \in Data, NEW r \in Range(Cut(c))
    PROVE  r.hash \in Data
<1>1. CASE c = <<>>
  <2>1. Cut(c) = <<Ref(<<>>, 0)>>
    BY <1>1, Zenon DEF Cut
  <2>2. r = Ref(<<>>, 0)
    BY <2>1 DEF Range
  <2> QED BY <2>2 DEF Ref, Data
<1>2. CASE c # <<>>
  <2>1. PICK k \in 1..((Len(c) + ChunkSize - 1) \div ChunkSize) :
             r.hash = ReadFull(c, (k - 1) * ChunkSize)
    <3>1. PICK N : N = (Len(c) + ChunkSize - 1) \div ChunkSize
      BY Zenon
    <3>2. Cut(c) = [k \in 1..N |-> Ref(ReadFull(c, (k - 1) * ChunkSize), (k - 1) * ChunkSize)]
      BY <1>2, <3>1, Zenon DEF Cut
    <3>3. PICK k \in 1..N : r = Ref(ReadFull(c, (k - 1) * ChunkSize), (k - 1) * ChunkSize)
      BY <3>2, Zenon DEF Range
    <3> QED BY <3>1, <3>3, Zenon DEF Ref
  <2>2. k - 1 \in Nat
    OBVIOUS
  <2>3. (k - 1) * ChunkSize \in Nat
    BY <2>2, Offsets, Zenon
  <2> QED BY <2>1, <2>3, ReadData, Zenon
<1> QED BY <1>1, <1>2, Zenon

(* A hash is bytes.                                                        *)
LEMMA HashData == Hash \subseteq Data
BY ContentData, CutData DEF Hash

(* References have sizes and hashes.                                       *)
LEMMA RefsTyped ==
    ASSUME NEW s \in Seq(ChunkRef)
    PROVE  Sized(s) /\ Hashed(s)
BY HashData DEF Sized, Hashed, ChunkRef

(* The bytes of some references are as many as their sizes say.            *)
LEMMA Lengths ==
    ASSUME NEW s \in Seq(ChunkRef)
    PROVE  \A k \in 0..Len(s) : Len(Joined(s, k)) = Upto(s, k)
<1> DEFINE T == {k \in Nat : k <= Len(s) => Len(Joined(s, k)) = Upto(s, k)}
<1>0. Sized(s) /\ Hashed(s) /\ Len(s) \in Nat
  BY RefsTyped, Zenon DEF Sized
<1>1. 0 \in T
  <2>1. Joined(s, 0) = <<>> /\ Upto(s, 0) = 0
    BY <1>0, Uptos, JoinedSteps, Zenon
  <2> QED BY <2>1, Zenon
<1>2. ASSUME NEW k \in Nat, k \in T PROVE k + 1 \in T
  <2> SUFFICES ASSUME k + 1 <= Len(s) PROVE Len(Joined(s, k + 1)) = Upto(s, k + 1)
    OBVIOUS
  <2>1. k + 1 \in 1..Len(s) /\ (k + 1) - 1 = k /\ k \in 0..Len(s)
    BY <1>0
  <2>2. PICK a, b : a = Joined(s, k) /\ b = s[k + 1].hash
    BY Zenon
  <2>3. /\ Joined(s, k + 1) = a \o b /\ a \in Data
        /\ Upto(s, k + 1) = Upto(s, k) + s[k + 1].size
    BY <1>0, <2>1, <2>2, Uptos, JoinedSteps, Zenon
  <2>4. b \in Data /\ s[k + 1].size = Len(b)
    BY <2>1, <2>2, HashData DEF ChunkRef
  <2>5. Len(a \o b) = Len(a) + Len(b)
    BY <2>3, <2>4 DEF Data
  <2>6. Len(a) = Upto(s, k)
    BY <1>2, <2>1, <2>2
  <2> QED BY <2>3, <2>4, <2>5, <2>6, Zenon
<1>3. Nat \subseteq T
  <2> HIDE DEF T
  <2> QED BY <1>1, <1>2, Induction, Zenon
<1> QED BY <1>3

(* More references have more bytes; if they have not, the others are       *)
(* empty.                                                                  *)
LEMMA Growth ==
    ASSUME NEW s \in Seq(ChunkRef), NEW j \in 0..Len(s)
    PROVE  \A k \in 0..Len(s) : j <= k =>
              /\ Upto(s, j) <= Upto(s, k)
              /\ Upto(s, j) = Upto(s, k) => Joined(s, j) = Joined(s, k)
<1> DEFINE Good(k) == /\ Upto(s, j) <= Upto(s, k)
                      /\ Upto(s, j) = Upto(s, k) => Joined(s, j) = Joined(s, k)
           T == {n \in Nat : j + n <= Len(s) => Good(j + n)}
<1>0. Sized(s) /\ Hashed(s) /\ Len(s) \in Nat /\ Upto(s, j) \in Nat
  BY RefsTyped, Uptos, Zenon DEF Sized
<1>1. 0 \in T
  BY <1>0
<1>2. ASSUME NEW n \in Nat, n \in T PROVE n + 1 \in T
  <2>0. PICK k : k = j + n
    BY Zenon
  <2> SUFFICES ASSUME k + 1 <= Len(s) PROVE Good(k + 1)
    BY <2>0
  <2>1. k \in 0..Len(s) /\ k + 1 \in 1..Len(s) /\ (k + 1) - 1 = k
    BY <1>0, <2>0
  <2>2. Good(k)
    BY <1>2, <2>0, <2>1
  <2>3. PICK a, b : a = Joined(s, k) /\ b = s[k + 1].hash
    BY Zenon
  <2>4. /\ Joined(s, k + 1) = a \o b /\ a \in Data
        /\ Upto(s, k + 1) = Upto(s, k) + s[k + 1].size /\ Upto(s, k) \in Nat
    BY <1>0, <2>1, <2>3, Uptos, JoinedSteps, Zenon
  <2>5. b \in Data /\ s[k + 1].size = Len(b) /\ Len(b) \in Nat
    BY <2>1, <2>3, HashData DEF ChunkRef, Data
  <2>6. Len(b) = 0 => a \o b = a
    BY <2>4, <2>5 DEF Data
  <2>7. Len(b) = 0 => Joined(s, k + 1) = Joined(s, k)
    BY <2>3, <2>4, <2>6, Zenon
  <2>8. PICK x, y, z, n1 : /\ x = Upto(s, j) /\ y = Upto(s, k) /\ z = Upto(s, k + 1)
                          /\ n1 = Len(b)
    BY Zenon
  <2>9. x \in Nat /\ y \in Nat /\ n1 \in Nat /\ z = y + n1 /\ x <= y
    BY <1>0, <2>2, <2>4, <2>5, <2>8, Zenon
  <2>10. x <= z /\ (x = z => x = y /\ n1 = 0)
    BY <2>9
  <2> QED BY <2>2, <2>7, <2>8, <2>10, Zenon
<1>3. Nat \subseteq T
  <2> HIDE DEF T
  <2> QED BY <1>1, <1>2, Induction, Zenon
<1>4. ASSUME NEW k \in 0..Len(s), j <= k PROVE Good(k)
  <2>1. PICK n : n = k - j
    BY Zenon
  <2>2. n \in Nat /\ j + n = k /\ k <= Len(s)
    <3> HIDE DEF T, Good
    <3> QED BY <1>0, <1>4, <2>1
  <2>3. n \in T
    BY <1>3, <2>2, Zenon
  <2> QED BY <2>2, <2>3, Zenon
<1> QED BY <1>4, Zenon

(* Bytes are determined by their length and their elements.                *)
LEMMA SameBytes ==
    ASSUME NEW x \in Data, NEW y \in Data, Len(x) = Len(y), \A i \in 1..Len(x) : x[i] = y[i]
    PROVE  x = y
BY DEF Data

(* What is between two places in some bytes.                               *)
LEMMA SubSeqBytes ==
    ASSUME NEW d \in Data, NEW m \in Nat, NEW n \in Nat, m + n <= Len(d)
    PROVE  /\ SubSeq(d, m + 1, m + n) \in Data
           /\ Len(SubSeq(d, m + 1, m + n)) = n
           /\ \A i \in 1..n : SubSeq(d, m + 1, m + n)[i] = d[m + i]
<1>1. PICK l : l = m + n
  BY Zenon
<1>2. l \in Nat /\ m + 1 \in Nat /\ l <= Len(d) /\ Len(d) \in Nat
  BY <1>1 DEF Data
<1>3. SubSeq(d, m + 1, l) \in Data
  BY <1>2 DEF Data
<1>4. Len(SubSeq(d, m + 1, l)) = n
  BY <1>1, <1>2 DEF Data
<1>5. ASSUME NEW i \in 1..n PROVE SubSeq(d, m + 1, l)[i] = d[m + i]
  <2>1. (m + 1) + i - 1 = m + i
    OBVIOUS
  <2>2. SubSeq(d, m + 1, l)[i] = d[(m + 1) + i - 1]
    BY <1>1, <1>2 DEF Data
  <2> QED BY <2>1, <2>2, Zenon
<1> QED BY <1>1, <1>3, <1>4, <1>5, Zenon

(* The bytes d begin with a and then b if they begin with a and b is read  *)
(* behind it.                                                              *)
LEMMA ReadBehind ==
    ASSUME NEW a \in Data, NEW b \in Data, NEW d \in Data, Len(a) + Len(b) <= Len(d)
    PROVE  (\A i \in 1..(Len(a) + Len(b)) : d[i] = (a \o b)[i]) <=>
           /\ \A i \in 1..Len(a) : d[i] = a[i]
           /\ SubSeq(d, Len(a) + 1, Len(a) + Len(b)) = b
<1>0. PICK m, n, e : m = Len(a) /\ n = Len(b) /\ e = SubSeq(d, m + 1, m + n)
  BY Zenon
<1>1. m \in Nat /\ n \in Nat /\ Len(d) \in Nat /\ m + n <= Len(d)
  BY <1>0 DEF Data
<1>2. /\ \A i \in 1..m : (a \o b)[i] = a[i]
      /\ \A i \in 1..n : (a \o b)[m + i] = b[i]
  BY <1>0, <1>1 DEF Data
<1>3. e \in Data /\ Len(e) = n /\ \A i \in 1..n : e[i] = d[m + i]
  <2>1. /\ SubSeq(d, m + 1, m + n) \in Data /\ Len(SubSeq(d, m + 1, m + n)) = n
        /\ \A i \in 1..n : SubSeq(d, m + 1, m + n)[i] = d[m + i]
    BY <1>1, SubSeqBytes, Zenon
  <2> QED BY <1>0, <2>1, Zenon
<1>4. ASSUME \A i \in 1..(m + n) : d[i] = (a \o b)[i]
      PROVE  (\A i \in 1..m : d[i] = a[i]) /\ e = b
  <2>1. ASSUME NEW i \in 1..m PROVE d[i] = a[i]
    <3>1. i \in 1..(m + n)
      BY <1>1
    <3> QED BY <1>2, <1>4, <3>1, Zenon
  <2>2. ASSUME NEW i \in 1..n PROVE e[i] = b[i]
    <3>1. m + i \in 1..(m + n)
      BY <1>1
    <3> QED BY <1>2, <1>3, <1>4, <3>1, Zenon
  <2>3. e = b
    BY <1>0, <1>3, <2>2, SameBytes, Zenon
  <2> QED BY <2>1, <2>3, Zenon
<1>5. ASSUME \A i \in 1..m : d[i] = a[i], e = b, NEW i \in 1..(m + n)
      PROVE  d[i] = (a \o b)[i]
  <2>1. CASE i <= m
    <3>1. i \in 1..m
      BY <1>1, <2>1
    <3> QED BY <1>2, <1>5, <3>1, Zenon
  <2>2. CASE ~(i <= m)
    <3>1. PICK j : j = i - m
      BY Zenon
    <3>2. j \in 1..n /\ m + j = i
      BY <1>1, <2>2, <3>1
    <3>3. d[m + j] = (a \o b)[m + j]
      BY <1>2, <1>3, <1>5, <3>2, Zenon
    <3> QED BY <3>2, <3>3, Zenon
  <2> QED BY <2>1, <2>2, Zenon
<1>6. (\A i \in 1..(m + n) : d[i] = (a \o b)[i]) <=> (\A i \in 1..m : d[i] = a[i]) /\ e = b
  BY <1>4, <1>5, Zenon
<1> QED BY <1>0, <1>6, Zenon

(* The bytes d begin with those of the first k references.                 *)
Begins(d, s, k) == \A i \in 1..Upto(s, k) : d[i] = Joined(s, k)[i]

(* Chunk k is read at its offset.                                          *)
ReadsChunk(d, s, k) == SubSeq(d, s[k].offset + 1, s[k].offset + s[k].size) = s[k].hash

(* One more chunk is read at its offset.                                   *)
LEMMA ReadStep ==
    ASSUME NEW s \in Seq(ChunkRef), Contiguous(s), NEW d \in Data, Len(d) = SizeOf(s),
           NEW k \in 1..Len(s)
    PROVE  Begins(d, s, k) <=> Begins(d, s, k - 1) /\ ReadsChunk(d, s, k)
<1>0. Sized(s) /\ Hashed(s) /\ Len(s) \in Nat
  BY RefsTyped, Zenon DEF Sized
<1>1. k \in 0..Len(s) /\ k - 1 \in 0..Len(s) /\ k <= Len(s) /\ Len(s) \in 0..Len(s)
  BY <1>0
<1>2. PICK a, b : a = Joined(s, k - 1) /\ b = s[k].hash
  BY Zenon
<1>3. /\ a \in Data /\ b \in Data /\ Joined(s, k) = a \o b
      /\ Len(a) = Upto(s, k - 1) /\ Len(b) = s[k].size
      /\ Upto(s, k) = Upto(s, k - 1) + s[k].size
  <2>1. b \in Data /\ Len(b) = s[k].size
    BY <1>2, HashData DEF ChunkRef
  <2>2. a \in Data /\ Joined(s, k) = a \o b
    BY <1>0, <1>1, <1>2, JoinedSteps, Zenon
  <2>3. Len(a) = Upto(s, k - 1)
    BY <1>1, <1>2, Lengths, Zenon
  <2>4. Upto(s, k) = Upto(s, k - 1) + s[k].size
    BY <1>0, Uptos, Zenon
  <2> QED BY <2>1, <2>2, <2>3, <2>4, Zenon
<1>4. Upto(s, k) <= Upto(s, Len(s)) /\ Upto(s, Len(s)) = SizeOf(s)
  BY <1>0, <1>1, Growth, Uptos, Zenon
<1>5. s[k].offset = Len(a)
  BY <1>1, <1>3 DEF Contiguous, Upto
<1>6. Begins(d, s, k) <=> \A i \in 1..(Len(a) + Len(b)) : d[i] = (a \o b)[i]
  BY <1>3, Zenon DEF Begins
<1>7. Begins(d, s, k - 1) <=> \A i \in 1..Len(a) : d[i] = a[i]
  BY <1>2, <1>3, Zenon DEF Begins
<1>8. ReadsChunk(d, s, k) <=> SubSeq(d, Len(a) + 1, Len(a) + Len(b)) = b
  BY <1>2, <1>3, <1>5, Zenon DEF ReadsChunk
<1>9. Len(a) + Len(b) <= Len(d)
  BY <1>3, <1>4, Zenon
<1> QED BY <1>3, <1>6, <1>7, <1>8, <1>9, ReadBehind, Zenon

(* Reading a file of the right size chunk by chunk at the offsets of the   *)
(* manifest tells exactly whether it has the published bytes.              *)
LEMMA ReadBack ==
    ASSUME NEW s \in Seq(ChunkRef), Contiguous(s), NEW d \in Data, Len(d) = SizeOf(s)
    PROVE  d = Bytes(s) <=> \A k \in DOMAIN s : ReadsChunk(d, s, k)
<1>0. /\ Sized(s) /\ Hashed(s) /\ Len(s) \in Nat /\ DOMAIN s = 1..Len(s)
      /\ Len(s) \in 0..Len(s) /\ 0 \in 0..Len(s)
  BY RefsTyped DEF Sized
<1>1. /\ Bytes(s) = Joined(s, Len(s)) /\ Bytes(s) \in Data /\ SizeOf(s) = Upto(s, Len(s))
      /\ Len(Bytes(s)) = SizeOf(s)
  BY <1>0, JoinedSteps, Uptos, Lengths, ZenonT(30)
<1>2. d = Bytes(s) <=> Begins(d, s, Len(s))
  <2>1. PICK b : b = Bytes(s)
    BY Zenon
  <2>2. Begins(d, s, Len(s)) <=> \A i \in 1..Len(d) : d[i] = b[i]
    BY <1>1, <2>1, Zenon DEF Begins
  <2>3. d = b <=> \A i \in 1..Len(d) : d[i] = b[i]
    BY <1>1, <2>1 DEF Data
  <2> QED BY <2>1, <2>2, <2>3, Zenon
<1>3. ASSUME NEW k \in 1..Len(s) PROVE Begins(d, s, k) <=> Begins(d, s, k - 1) /\ ReadsChunk(d, s, k)
  BY ReadStep, Zenon
<1>4. ASSUME Begins(d, s, Len(s)), NEW k \in 1..Len(s) PROVE ReadsChunk(d, s, k)
  <2> DEFINE T == {n \in Nat : n <= Len(s) => Begins(d, s, Len(s) - n)}
  <2>1. 0 \in T
    BY <1>0, <1>4
  <2>2. ASSUME NEW n \in Nat, n \in T PROVE n + 1 \in T
    <3> SUFFICES ASSUME n + 1 <= Len(s) PROVE Begins(d, s, Len(s) - (n + 1))
      OBVIOUS
    <3>1. PICK j : j = Len(s) - n
      BY Zenon
    <3>2. j \in 1..Len(s) /\ j - 1 = Len(s) - (n + 1) /\ n <= Len(s)
      BY <1>0, <3>1
    <3>3. Begins(d, s, j)
      BY <2>2, <3>1, <3>2, Zenon
    <3> QED BY <1>3, <3>2, <3>3, Zenon
  <2>3. Nat \subseteq T
    <3> HIDE DEF T
    <3> QED BY <2>1, <2>2, Induction, Zenon
  <2>4. PICK n : n = Len(s) - k
    BY Zenon
  <2>5. n \in Nat /\ n <= Len(s) /\ Len(s) - n = k
    BY <1>0, <2>4
  <2>6. Begins(d, s, k)
    BY <2>3, <2>5, Zenon
  <2> QED BY <1>3, <2>6, Zenon
<1>5. ASSUME \A k \in 1..Len(s) : ReadsChunk(d, s, k) PROVE Begins(d, s, Len(s))
  <2> DEFINE T == {k \in Nat : k <= Len(s) => Begins(d, s, k)}
  <2>1. 0 \in T
    <3>1. Upto(s, 0) = 0
      BY <1>0, Uptos, Zenon
    <3> QED BY <3>1 DEF Begins
  <2>2. ASSUME NEW k \in Nat, k \in T PROVE k + 1 \in T
    <3> SUFFICES ASSUME k + 1 <= Len(s) PROVE Begins(d, s, k + 1)
      OBVIOUS
    <3>1. k + 1 \in 1..Len(s) /\ (k + 1) - 1 = k /\ k <= Len(s)
      BY <1>0
    <3>2. Begins(d, s, (k + 1) - 1) /\ ReadsChunk(d, s, k + 1)
      BY <1>5, <2>2, <3>1, Zenon
    <3> QED BY <1>3, <3>1, <3>2, Zenon
  <2>3. Nat \subseteq T
    <3> HIDE DEF T
    <3> QED BY <2>1, <2>2, Induction, Zenon
  <2> QED BY <1>0, <2>3
<1> QED BY <1>0, <1>2, <1>4, <1>5, Zenon

-----------------------------------------------------------------------------
(* The chunks of a content.                                                *)

(* Division by the chunk size.                                             *)
LEMMA DivBounds ==
    ASSUME NEW t \in Nat
    PROVE  /\ t \div ChunkSize \in Nat
           /\ (t \div ChunkSize) * ChunkSize <= t
           /\ t < (t \div ChunkSize) * ChunkSize + ChunkSize
BY ChunkSizeAssumption

(* Offsets grow by a chunk at least.                                       *)
LEMMA Scaled ==
    ASSUME NEW a \in Nat, NEW b \in Nat, a < b
    PROVE  a * ChunkSize + ChunkSize <= b * ChunkSize
<1>1. (b - a - 1) * ChunkSize >= 0
  BY ChunkSizeAssumption
<1>2. b * ChunkSize = a * ChunkSize + (b - a - 1) * ChunkSize + ChunkSize
  BY ChunkSizeAssumption
<1>3. a * ChunkSize \in Int /\ b * ChunkSize \in Int /\ (b - a - 1) * ChunkSize \in Int
  BY ChunkSizeAssumption
<1> QED BY <1>1, <1>2, <1>3, ChunkSizeAssumption

Pieces(c) == (Len(c) + ChunkSize - 1) \div ChunkSize

(* Chunk n + 1 exists if its offset is in the file, and it is the last if  *)
(* its end is not.                                                         *)
LEMMA PieceCount ==
    ASSUME NEW c \in Data, NEW n \in Nat, n * ChunkSize < Len(c)
    PROVE  /\ Pieces(c) \in Nat /\ n + 1 <= Pieces(c)
           /\ Len(c) <= n * ChunkSize + ChunkSize => Pieces(c) = n + 1
<1>1. PICK q, o, e, S, L : /\ q = Pieces(c) /\ o = n * ChunkSize /\ e = q * ChunkSize
                           /\ S = ChunkSize /\ L = Len(c)
  BY Zenon
<1>2. S \in Nat /\ S >= 1 /\ L \in Nat /\ o \in Nat /\ o < L
  BY <1>1, Offsets, ChunkSizeAssumption DEF Data
<1>3. L + S - 1 \in Nat
  BY <1>2
<1>4. q \in Nat /\ e <= L + S - 1 /\ L + S - 1 < e + S
  BY <1>1, <1>3, DivBounds, Zenon DEF Pieces
<1>5. e \in Nat
  BY <1>1, <1>4, Offsets, Zenon
<1>6. ASSUME q < n + 1 PROVE FALSE
  <2>1. CASE q = n
    BY <1>1, <1>2, <1>4, <1>5, <2>1
  <2>2. CASE q # n
    <3>1. q < n
      BY <1>4, <1>6, <2>2
    <3>2. e + S <= o
      BY <1>1, <1>4, <3>1, Scaled, Zenon
    <3> QED BY <1>2, <1>4, <1>5, <3>2
  <2> QED BY <2>1, <2>2, Zenon
<1>7. ASSUME L <= o + S, q > n + 1 PROVE FALSE
  <2>1. PICK o2 : o2 = (n + 1) * ChunkSize
    BY Zenon
  <2>2. o2 = o + S /\ o2 \in Nat /\ n + 1 \in Nat
    BY <1>1, <2>1, Offsets
  <2>3. o2 + S <= e
    BY <1>1, <1>4, <1>7, <2>1, <2>2, Scaled, Zenon
  <2> QED BY <1>2, <1>4, <1>5, <1>7, <2>2, <2>3
<1> QED BY <1>1, <1>4, <1>6, <1>7

(* What ReadFull returns at an offset in the file.                         *)
LEMMA ReadLength ==
    ASSUME NEW c \in Data, NEW off \in Nat
    PROVE  LET data == ReadFull(c, off) IN
           /\ data \in Data /\ Len(data) \in Nat
           /\ off + ChunkSize <= Len(c) => Len(data) = ChunkSize
           /\ off <= Len(c) /\ off + ChunkSize > Len(c) => Len(data) = Len(c) - off
           /\ off > Len(c) => Len(data) = 0
<1>1. PICK n, data : n = Lesser(off + ChunkSize, Len(c)) /\ data = ReadFull(c, off)
  BY Zenon
<1>2. n \in Nat /\ n <= Len(c) /\ Len(c) \in Nat /\ ChunkSize \in Nat /\ ChunkSize >= 1
  BY <1>1, ChunkSizeAssumption DEF Lesser, Data
<1>3. data = SubSeq(c, off + 1, n) /\ data \in Data
  BY <1>1, ReadData, Zenon DEF ReadFull
<1>4. Len(data) = IF off + 1 <= n THEN n - off ELSE 0
  BY <1>2, <1>3 DEF Data
<1>5. /\ off + ChunkSize <= Len(c) => n = off + ChunkSize
      /\ off + ChunkSize > Len(c) => n = Len(c)
  BY <1>1, <1>2 DEF Lesser
<1> QED BY <1>1, <1>2, <1>3, <1>4, <1>5

(* A chunk that is read is one of those of the content.                    *)
LEMMA ReadHash ==
    ASSUME NEW c \in Content, NEW j \in Nat
    PROVE  ReadFull(c, j * ChunkSize) \in Hash
<1>0. c \in Data /\ <<>> \in Data
  BY ContentData, Zenon
<1>1. <<>> \in Hash
  <2>1. Cut(<<>>) = <<Ref(<<>>, 0)>>
    BY Zenon DEF Cut
  <2>2. Ref(<<>>, 0) \in Range(Cut(<<>>)) /\ Ref(<<>>, 0).hash = <<>>
    BY <2>1 DEF Range, Ref
  <2> QED BY <2>2, ZenonT(30) DEF Hash
<1>2. PICK off, data : off = j * ChunkSize /\ data = ReadFull(c, off)
  BY Zenon
<1>3. off \in Nat /\ Len(c) \in Nat
  BY <1>0, <1>2, Offsets DEF Data
<1>4. CASE off >= Len(c)
  <2>1. Len(data) = 0 /\ data \in Data
    BY <1>0, <1>2, <1>3, <1>4, ReadLength, ChunkSizeAssumption
  <2>2. data = <<>>
    BY <2>1 DEF Data
  <2> QED BY <1>1, <1>2, <2>2, Zenon
<1>5. CASE off < Len(c)
  <2>1. Pieces(c) \in Nat /\ j + 1 <= Pieces(c)
    BY <1>0, <1>2, <1>5, PieceCount, Zenon
  <2>2. c # <<>>
    BY <1>3, <1>5
  <2>3. Cut(c) = [k \in 1..Pieces(c) |-> Ref(ReadFull(c, (k - 1) * ChunkSize), (k - 1) * ChunkSize)]
    BY <2>2, Zenon DEF Cut, Pieces
  <2>4. j + 1 \in 1..Pieces(c) /\ (j + 1) - 1 = j
    BY <2>1
  <2>5. Cut(c)[j + 1] = Ref(data, off)
    BY <1>2, <2>3, <2>4, Zenon
  <2>6. Ref(data, off) \in Range(Cut(c)) /\ Ref(data, off).hash = data
    <3>1. DOMAIN Cut(c) = 1..Pieces(c)
      BY <2>3, Zenon
    <3> QED BY <2>4, <2>5, <3>1, Zenon DEF Range, Ref
  <2> QED BY <1>2, <2>6 DEF Hash
<1> QED BY <1>3, <1>4, <1>5

-----------------------------------------------------------------------------
(* Sorting.                                                                *)

Perm(p, n) ==
    /\ p \in [1..n -> 1..n]
    /\ \A i, j \in 1..n : p[i] = p[j] => i = j
    /\ \A j \in 1..n : \E i \in 1..n : p[i] = j

Ordered(a, p, n) == \A i, j \in 1..n : i < j => a[p[i]] <= a[p[j]]

(* One of some numbers is the largest.                                     *)
LEMMA LargestExists ==
    ASSUME NEW n \in Nat, NEW a \in [1..(n + 1) -> Nat]
    PROVE  \E m \in 1..(n + 1) : \A i \in 1..(n + 1) : a[i] <= a[m]
<1> DEFINE Top(k, m) == m \in 1..(k + 1) /\ \A i \in 1..(k + 1) : a[i] <= a[m]
           T == {k \in Nat : k <= n => \E m : Top(k, m)}
<1>1. 0 \in T
  <2>1. Top(0, 1)
    BY a[1] \in Nat
  <2> QED BY <2>1, Zenon
<1>2. ASSUME NEW k \in Nat, k \in T PROVE k + 1 \in T
  <2> SUFFICES ASSUME k + 1 <= n PROVE \E m : Top(k + 1, m)
    OBVIOUS
  <2>1. PICK m : Top(k, m)
    BY <1>2
  <2>2. a[m] \in Nat /\ a[k + 2] \in Nat
    BY <2>1
  <2>3. CASE a[k + 2] <= a[m]
    <3>1. Top(k + 1, m)
      BY <2>1, <2>2, <2>3
    <3> QED BY <3>1, Zenon
  <2>4. CASE ~(a[k + 2] <= a[m])
    <3>1. ASSUME NEW i \in 1..((k + 1) + 1) PROVE a[i] <= a[k + 2]
      <4>1. a[i] \in Nat
        OBVIOUS
      <4>2. i = k + 2 \/ i \in 1..(k + 1)
        OBVIOUS
      <4> QED BY <2>1, <2>2, <2>4, <4>1, <4>2
    <3>2. Top(k + 1, k + 2)
      BY <3>1
    <3> QED BY <3>2, Zenon
  <2> QED BY <2>3, <2>4, Zenon
<1>3. Nat \subseteq T
  <2> HIDE DEF T
  <2> QED BY <1>1, <1>2, Induction, Zenon
<1>4. PICK m : Top(n, m)
  BY <1>3
<1> QED BY <1>4, Zenon

(* Every sequence of numbers can be sorted: the largest goes to the end,   *)
(* and what was there takes its place.                                     *)
LEMMA SortExists ==
    ASSUME NEW N \in Nat, NEW A \in [1..N -> Nat]
    PROVE  \E p : Perm(p, N) /\ Ordered(A, p, N)
<1> DEFINE T == {n \in Nat : \A a \in [1..n -> Nat] : \E p : Perm(p, n) /\ Ordered(a, p, n)}
<1>1. 0 \in T
  <2>1. ASSUME NEW a \in [1..0 -> Nat] PROVE Perm(a, 0) /\ Ordered(a, a, 0)
    BY DEF Perm, Ordered
  <2> QED BY <2>1, Zenon
<1>2. ASSUME NEW n \in Nat, n \in T PROVE n + 1 \in T
  <2> SUFFICES ASSUME NEW a \in [1..(n + 1) -> Nat]
               PROVE  \E p : Perm(p, n + 1) /\ Ordered(a, p, n + 1)
    OBVIOUS
  <2>1. PICK m \in 1..(n + 1) : \A i \in 1..(n + 1) : a[i] <= a[m]
    BY LargestExists, Zenon
  <2>2. PICK b : b = [i \in 1..n |-> IF i = m THEN a[n + 1] ELSE a[i]]
    BY Zenon
  <2>3. b \in [1..n -> Nat]
    BY <2>2
  <2>4. PICK q : Perm(q, n) /\ Ordered(b, q, n)
    BY <1>2, <2>3, Zenon
  <2>5. PICK p : p = [i \in 1..(n + 1) |-> IF i = n + 1 THEN m ELSE IF q[i] = m THEN n + 1 ELSE q[i]]
    BY Zenon
  <2>6. \A i \in 1..n : q[i] \in 1..n
    BY <2>4, Zenon DEF Perm
  <2>7. p[n + 1] = m /\ \A i \in 1..n : p[i] = IF q[i] = m THEN n + 1 ELSE q[i]
    BY <2>5
  <2>8. p \in [1..(n + 1) -> 1..(n + 1)]
    BY <2>5, <2>6
  <2>9. ASSUME NEW i \in 1..(n + 1), NEW j \in 1..(n + 1), p[i] = p[j] PROVE i = j
    <3>1. \A x \in 1..n : p[x] # m
      <4> SUFFICES ASSUME NEW x \in 1..n PROVE p[x] # m
        BY Zenon
      <4>1. q[x] \in 1..n
        BY <2>6, Zenon
      <4>2. CASE q[x] = m
        BY <2>7, <4>1, <4>2
      <4>3. CASE q[x] # m
        BY <2>7, <4>3, Zenon
      <4> QED BY <4>2, <4>3, Zenon
    <3>2. CASE i = n + 1 \/ j = n + 1
      <4>1. (i = n + 1 \/ i \in 1..n) /\ (j = n + 1 \/ j \in 1..n)
        OBVIOUS
      <4> QED BY <2>7, <2>9, <3>1, <3>2, <4>1, Zenon
    <3>3. CASE i # n + 1 /\ j # n + 1
      <4>1. i \in 1..n /\ j \in 1..n
        BY <3>3
      <4>2. q[i] \in 1..n /\ q[j] \in 1..n
        BY <2>6, <4>1, Zenon
      <4>3. q[i] = q[j]
        BY <2>7, <2>9, <4>1, <4>2, Zenon
      <4> QED BY <2>4, <4>1, <4>3, Zenon DEF Perm
    <3> QED BY <3>2, <3>3, Zenon
  <2>10. ASSUME NEW j \in 1..(n + 1) PROVE \E i \in 1..(n + 1) : p[i] = j
    <3>1. CASE j = m
      BY <2>7, <3>1
    <3>2. CASE j # m /\ j = n + 1
      <4>1. m \in 1..n
        BY <3>2
      <4>2. PICK i \in 1..n : q[i] = m
        BY <2>4, <4>1, Zenon DEF Perm
      <4>3. i \in 1..(n + 1) /\ p[i] = n + 1
        BY <2>7, <4>2
      <4> QED BY <3>2, <4>3, Zenon
    <3>3. CASE j # m /\ j # n + 1
      <4>1. j \in 1..n
        BY <3>3
      <4>2. PICK i \in 1..n : q[i] = j
        BY <2>4, <4>1, Zenon DEF Perm
      <4>3. i \in 1..(n + 1) /\ p[i] = j
        BY <2>7, <3>3, <4>2
      <4> QED BY <4>3, Zenon
    <3> QED BY <3>1, <3>2, <3>3, Zenon
  <2>11. Perm(p, n + 1)
    BY <2>8, <2>9, <2>10, Zenon DEF Perm
  <2>12. ASSUME NEW i \in 1..n PROVE a[p[i]] = b[q[i]]
    <3>1. q[i] \in 1..n
      BY <2>6, Zenon
    <3>2. CASE q[i] = m
      BY <2>2, <2>7, <3>1, <3>2, Zenon
    <3>3. CASE q[i] # m
      BY <2>2, <2>7, <3>1, <3>3, Zenon
    <3> QED BY <3>2, <3>3, Zenon
  <2>13. ASSUME NEW i \in 1..(n + 1), NEW j \in 1..(n + 1), i < j PROVE a[p[i]] <= a[p[j]]
    <3>1. i \in 1..n
      BY <2>13
    <3>2. CASE j = n + 1
      BY <2>1, <2>7, <2>8, <3>2, Zenon
    <3>3. CASE j # n + 1
      <4>1. j \in 1..n
        BY <3>3
      <4> QED BY <2>4, <2>12, <2>13, <3>1, <4>1, Zenon DEF Ordered
    <3> QED BY <3>2, <3>3, Zenon
  <2>14. Ordered(a, p, n + 1)
    BY <2>13, Zenon DEF Ordered
  <2> QED BY <2>11, <2>14, Zenon
<1>3. Nat \subseteq T
  <2> HIDE DEF T
  <2> QED BY <1>1, <1>2, Induction, Zenon
<1> QED BY <1>3, Zenon

(* Paths are numbers.                                                      *)
LEMMA PathsNat ==
    ASSUME NEW s \in Seq(FileEntry)
    PROVE  Len(s) \in Nat /\ DOMAIN s = 1..Len(s) /\ \A i \in 1..Len(s) : s[i].path \in Nat
<1>1. \A f \in FileEntry : f.path \in Nat
  BY PipelineAssumption, Zenon DEF FileEntry
<1>2. Len(s) \in Nat /\ DOMAIN s = 1..Len(s) /\ \A i \in 1..Len(s) : s[i] \in FileEntry
  OBVIOUS
<1> QED BY <1>1, <1>2, Zenon

(* ByPath rearranges the files, in order.                                  *)
LEMMA ByPathSorts ==
    ASSUME NEW s \in Seq(FileEntry)
    PROVE  \E p : /\ Perm(p, Len(s)) /\ Sorts(p, s)
                  /\ ByPath(s) = [i \in 1..Len(s) |-> s[p[i]]]
<1>0. Len(s) \in Nat /\ DOMAIN s = 1..Len(s) /\ \A i \in 1..Len(s) : s[i].path \in Nat
  BY PathsNat, Zenon
<1>1. PICK a : a = [i \in 1..Len(s) |-> s[i].path]
  BY Zenon
<1>2. a \in [1..Len(s) -> Nat]
  BY <1>0, <1>1, Zenon
<1>3. PICK p : Perm(p, Len(s)) /\ Ordered(a, p, Len(s))
  BY <1>0, <1>2, SortExists, Zenon
<1>4. ASSUME NEW r PROVE r \in Bijection(DOMAIN s, DOMAIN s) <=> Perm(r, Len(s))
  BY <1>0, Zenon DEF Bijection, Injection, Surjection, IsInjective, Perm
<1>5. Sorts(p, s)
  BY <1>0, <1>1, <1>3, Zenon DEF Sorts, Ordered, Perm
<1>6. p \in Bijection(DOMAIN s, DOMAIN s)
  BY <1>3, <1>4, Zenon
<1>7. PICK r : r = CHOOSE q \in Bijection(DOMAIN s, DOMAIN s) : Sorts(q, s)
  BY Zenon
<1>8. r \in Bijection(DOMAIN s, DOMAIN s) /\ Sorts(r, s)
  BY <1>5, <1>6, <1>7, Zenon
<1>9. ByPath(s) = [i \in 1..Len(s) |-> s[r[i]]]
  BY <1>0, <1>7 DEF ByPath
<1> QED BY <1>4, <1>8, <1>9, Zenon

(* The only increasing rearrangement changes nothing.                      *)
LEMMA IncreasingIsIdentity ==
    ASSUME NEW n \in Nat, NEW p \in [1..n -> 1..n], \A i, j \in 1..n : i < j => p[i] < p[j]
    PROVE  \A i \in 1..n : p[i] = i
<1> DEFINE U == {k \in Nat : k + 1 <= n => p[k + 1] >= k + 1}
           D == {k \in Nat : k + 1 <= n => p[n - k] <= n - k}
<1>1. 0 \in U /\ 0 \in D
  OBVIOUS
<1>2. ASSUME NEW k \in Nat, k \in U PROVE k + 1 \in U
  <2> SUFFICES ASSUME (k + 1) + 1 <= n PROVE p[(k + 1) + 1] >= (k + 1) + 1
    OBVIOUS
  <2>1. k + 1 \in 1..n /\ (k + 1) + 1 \in 1..n /\ k + 1 < (k + 1) + 1
    OBVIOUS
  <2>2. p[k + 1] < p[(k + 1) + 1] /\ p[k + 1] \in 1..n /\ p[(k + 1) + 1] \in 1..n
    BY <2>1, Zenon
  <2> QED BY <1>2, <2>1, <2>2
<1>3. ASSUME NEW k \in Nat, k \in D PROVE k + 1 \in D
  <2> SUFFICES ASSUME (k + 1) + 1 <= n PROVE p[n - (k + 1)] <= n - (k + 1)
    OBVIOUS
  <2>1. n - k \in 1..n /\ n - (k + 1) \in 1..n /\ n - (k + 1) < n - k /\ k + 1 <= n
    OBVIOUS
  <2>2. p[n - (k + 1)] < p[n - k] /\ p[n - (k + 1)] \in 1..n /\ p[n - k] \in 1..n
    BY <2>1, Zenon
  <2> QED BY <1>3, <2>1, <2>2
<1>4. Nat \subseteq U /\ Nat \subseteq D
  <2> HIDE DEF U, D
  <2> QED BY <1>1, <1>2, <1>3, Induction, Zenon
<1>5. ASSUME NEW i \in 1..n PROVE p[i] = i
  <2>1. PICK k, l : k = i - 1 /\ l = n - i
    BY Zenon
  <2>2. k \in Nat /\ l \in Nat /\ k + 1 = i /\ n - l = i /\ l + 1 <= n /\ k + 1 <= n
    <3> HIDE DEF U, D
    <3> QED BY <2>1
  <2>3. p[k + 1] >= k + 1 /\ p[n - l] <= n - l
    BY <1>4, <2>2, Zenon
  <2> HIDE DEF U, D
  <2>4. p[i] \in Int /\ i \in Int
    OBVIOUS
  <2>5. p[i] >= i /\ p[i] <= i
    BY <2>2, <2>3, Zenon
  <2> QED BY <2>4, <2>5, Squeezed, Zenon
<1> QED BY <1>5, Zenon

(* Files that are in order stay where they are: the ID of a manifest does  *)
(* not depend on a second sort.                                            *)
LEMMA SortedStays ==
    ASSUME NEW s \in Seq(FileEntry), \A i, j \in DOMAIN s : i < j => s[i].path < s[j].path
    PROVE  ByPath(s) = s
<1>0. Len(s) \in Nat /\ DOMAIN s = 1..Len(s) /\ \A i \in 1..Len(s) : s[i].path \in Nat
  BY PathsNat, Zenon
<1>1. PICK p : /\ Perm(p, Len(s)) /\ Sorts(p, s)
               /\ ByPath(s) = [i \in 1..Len(s) |-> s[p[i]]]
  BY ByPathSorts, Zenon
<1>2. p \in [1..Len(s) -> 1..Len(s)]
  BY <1>1, Zenon DEF Perm
<1>3. ASSUME NEW i \in 1..Len(s), NEW j \in 1..Len(s), i < j PROVE p[i] < p[j]
  <2>1. p[i] \in 1..Len(s) /\ p[j] \in 1..Len(s) /\ p[i] # p[j]
    <3>1. i # j
      BY <1>0, <1>3
    <3> QED BY <1>1, <1>2, <3>1, Zenon DEF Perm
  <2>2. s[p[i]].path <= s[p[j]].path
    BY <1>0, <1>1, <1>3, Zenon DEF Sorts
  <2>3. ASSUME p[j] < p[i] PROVE FALSE
    BY <1>0, <2>1, <2>2, <2>3
  <2> QED BY <2>1, <2>3
<1>4. \A i \in 1..Len(s) : p[i] = i
  BY <1>0, <1>2, <1>3, IncreasingIsIdentity, Zenon
<1>5. \A i \in 1..Len(s) : ByPath(s)[i] = s[i]
  BY <1>1, <1>4, Zenon
<1>6. ByPath(s) = [i \in 1..Len(s) |-> s[i]]
  BY <1>1, <1>4, Zenon
<1> QED BY <1>0, <1>6

(* What Validate accepts, and every reader relies on.                      *)
Sound(m) ==
    /\ m.files \in Seq(FileEntry) /\ m.files # <<>>
    /\ \A i, j \in DOMAIN m.files : m.files[i].path = m.files[j].path => i = j
    /\ \A i \in DOMAIN m.files : Whole(m.files[i])

AtFile(j) == j.pc \in {"write", "check"}

JobShape(j) ==
    /\ DOMAIN j = {"pc", "m", "missing", "i", "k", "buf", "why"}
    /\ j.pc \in {"idle", "fetch", "write", "check", "done", "failed"}
    /\ j.missing \subseteq Hash
    /\ j.buf \in Data
    /\ j.pc \in {"fetch", "write", "check", "done"} => Sound(j.m)
    /\ AtFile(j) => /\ j.i \in DOMAIN j.m.files
                    /\ j.k \in 1..(Len(j.m.files[j.i].chunks) + 1)
    /\ j.pc = "check" => j.k <= Len(j.m.files[j.i].chunks)

(* File n of the manifest has been written, and was not damaged since.     *)
Finished(j, d, w, n) ==
    LET f == j.m.files[n]
    IN  /\ w[f.path] \in {f, None}
        /\ w[f.path] = f => d[f.path] = Bytes(f.chunks)

(* The file that is written has the bytes of the chunks so far.            *)
Writing(j, d, w) ==
    LET f == j.m.files[j.i]
        done == Joined(f.chunks, j.k - 1)
    IN  /\ w[f.path] = f
        /\ \A n \in 1..(j.i - 1) : Finished(j, d, w, n)
        /\ j.pc = "write" => d[f.path] = done
        /\ j.pc = "check" => /\ d[f.path] = done \o j.buf
                             /\ Len(j.buf) = f.chunks[j.k].size

(* A file with the size of its entry has the bytes of its entry.           *)
Settled(d, w, p) ==
    w[p] # None /\ d[p] # Absent /\ Len(d[p]) = w[p].size => d[p] = Bytes(w[p].chunks)

FileTypes(d, w) ==
    /\ d \in [Path -> Data \cup {Absent}]
    /\ w \in [Path -> FileEntry \cup {None}]
    /\ \A p \in Path : w[p] # None => Whole(w[p])

FilesInv(j, d, w) ==
    /\ JobShape(j)
    /\ FileTypes(d, w)
    /\ \A p \in Path : Settled(d, w, p) \/ (AtFile(j) /\ j.m.files[j.i].path = p)
    /\ AtFile(j) => Writing(j, d, w)
    /\ j.pc = "done" => \A n \in DOMAIN j.m.files : Finished(j, d, w, n)

(* A sequence over a set is one over a larger set.                         *)
LEMMA SeqMonotone ==
    ASSUME NEW A, NEW B, A \subseteq B, NEW s \in Seq(A)
    PROVE  s \in Seq(B)
OBVIOUS

(* An entry of the manifest.                                               *)
LEMMA EntryTyped ==
    ASSUME NEW m, Sound(m), NEW n \in DOMAIN m.files
    PROVE  /\ Whole(m.files[n]) /\ m.files[n] \in FileEntry /\ m.files[n].path \in Path
           /\ m.files[n].chunks \in Seq(ChunkRef) /\ m.files[n] # None
           /\ DOMAIN m.files = 1..Len(m.files) /\ Len(m.files) \in Nat /\ n \in Nat
           /\ Hashed(m.files[n].chunks) /\ Sized(m.files[n].chunks)
<1>1. Whole(m.files[n]) /\ DOMAIN m.files = 1..Len(m.files) /\ Len(m.files) \in Nat
  BY DEF Sound
<1>2. /\ m.files[n] \in FileEntry /\ m.files[n].path \in Path
      /\ m.files[n].chunks \in Seq(ChunkRef)
  BY <1>1, Zenon DEF Whole, FileEntry
<1>3. FileEntry \subseteq [path: Path, size: Nat, chunks: Seq([hash: Seq(Nat), offset: Nat, size: Nat])]
  <2>1. ChunkRef \subseteq [hash: Seq(Nat), offset: Nat, size: Nat]
    BY HashData, Zenon DEF ChunkRef, Data
  <2>2. Seq(ChunkRef) \subseteq Seq([hash: Seq(Nat), offset: Nat, size: Nat])
    BY <2>1, SeqMonotone, Zenon
  <2> QED BY <2>2, Zenon DEF FileEntry
<1>4. m.files[n] # None
  BY <1>2, <1>3, PipelineAssumption, Zenon
<1> QED BY <1>1, <1>2, <1>4, RefsTyped

(* What was finished stays so while its own path is left alone.            *)
LEMMA FinishedSame ==
    ASSUME NEW j, NEW d, NEW w, NEW j2, NEW d2, NEW w2, NEW n, j2.m = j.m,
           d2[j.m.files[n].path] = d[j.m.files[n].path],
           w2[j.m.files[n].path] = w[j.m.files[n].path], Finished(j, d, w, n)
    PROVE  Finished(j2, d2, w2, n)
BY Zenon DEF Finished

(* The next file is opened.                                                *)
LEMMA OpenOK ==
    ASSUME JobShape(job), job.pc \in {"fetch", "write"}, FileTypes(dest, wrote),
           NEW n \in DOMAIN job.m.files, OpenFile(n),
           \A q \in 1..(n - 1) : Finished(job, dest, wrote, q),
           \A p \in Path \ {job.m.files[n].path} : Settled(dest, wrote, p)
    PROVE  FilesInv(job', dest', wrote')
<1>1. PICK f, p, m : f = job.m.files[n] /\ p = f.path /\ m = job.m
  BY Zenon
<1>2. /\ Sound(m) /\ Whole(f) /\ f \in FileEntry /\ p \in Path /\ f # None
      /\ f.chunks \in Seq(ChunkRef) /\ Hashed(f.chunks)
      /\ DOMAIN m.files = 1..Len(m.files) /\ Len(m.files) \in Nat /\ n \in 1..Len(m.files)
  <2>1. Sound(m)
    BY <1>1, Zenon DEF JobShape
  <2> QED BY <1>1, <2>1, EntryTyped, Zenon
<1>3. /\ DOMAIN job' = DOMAIN job /\ job'.pc = "write" /\ job'.i = n /\ job'.k = 1
      /\ job'.buf = <<>> /\ job'.m = m /\ job'.missing = job.missing
  BY <1>1, Zenon DEF OpenFile, JobShape
<1>4. /\ dest' = [dest EXCEPT ![p] = <<>>] /\ wrote' = [wrote EXCEPT ![p] = f]
  BY <1>1, Zenon DEF OpenFile
<1>5. /\ dest'[p] = <<>> /\ wrote'[p] = f
      /\ \A q \in Path \ {p} : dest'[q] = dest[q] /\ wrote'[q] = wrote[q]
  BY <1>2, <1>4, Zenon DEF FileTypes
<1>6. Len(f.chunks) \in Nat /\ <<>> \in Data
  BY <1>2 DEF Data
<1>7. JobShape(job')
  BY <1>1, <1>2, <1>3, <1>6 DEF JobShape, AtFile
<1>8. FileTypes(dest', wrote')
  BY <1>2, <1>4, <1>5, <1>6, Zenon DEF FileTypes
<1>9. ASSUME NEW q \in Path
      PROVE  Settled(dest', wrote', q) \/ (AtFile(job') /\ job'.m.files[job'.i].path = q)
  <2>1. CASE q = p
    BY <1>1, <1>3, <2>1, Zenon DEF AtFile
  <2>2. CASE q # p
    BY <1>1, <1>5, <2>2, Zenon DEF Settled
  <2> QED BY <2>1, <2>2, Zenon
<1>10. Writing(job', dest', wrote')
  <2>1. Joined(f.chunks, 0) = <<>>
    BY <1>2, JoinedSteps, Zenon
  <2>2. ASSUME NEW q \in 1..(n - 1) PROVE Finished(job', dest', wrote', q)
    <3>1. q \in DOMAIN m.files /\ q # n
      BY <1>2, BeforeIsOther, Zenon
    <3>2. m.files[q].path # p /\ m.files[q].path \in Path
      BY <1>1, <1>2, <3>1, EntryTyped, Zenon DEF Sound
    <3>3. job'.m = job.m /\ Finished(job, dest, wrote, q)
      BY <1>1, <1>3, Zenon
    <3>4. /\ dest'[job.m.files[q].path] = dest[job.m.files[q].path]
          /\ wrote'[job.m.files[q].path] = wrote[job.m.files[q].path]
      BY <1>1, <1>5, <3>2, Zenon
    <3> QED BY <3>3, <3>4, FinishedSame, Zenon
  <2>3. job'.m.files[job'.i] = f /\ job'.k - 1 = 0
    BY <1>1, <1>3
  <2> QED BY <1>1, <1>3, <1>5, <2>1, <2>2, <2>3, Zenon DEF Writing
<1> QED BY <1>3, <1>7, <1>8, <1>9, <1>10, Zenon DEF FilesInv

(* The job fails.                                                          *)
LEMMA FailOK ==
    ASSUME NEW why, JobEnds("failed", why), FileTypes(dest', wrote'),
           \A p \in Path : Settled(dest', wrote', p)
    PROVE  FilesInv(job', dest', wrote')
<1>1. /\ DOMAIN job' = {"pc", "m", "missing", "i", "k", "buf", "why"}
      /\ job'.pc = "failed" /\ job'.missing = {} /\ job'.buf = <<>>
  BY Zenon DEF JobEnds, NoJob
<1>2. <<>> \in Data
  BY DEF Data
<1>3. JobShape(job')
  BY <1>1, <1>2, Zenon DEF JobShape, AtFile
<1> QED BY <1>1, <1>3, Zenon DEF FilesInv, AtFile

(* Materialize: the first file.                                            *)
LEMMA MaterializeOK ==
    ASSUME FilesInv(job, dest, wrote), Materialize
    PROVE  FilesInv(job', dest', wrote')
<1>1. job.pc = "fetch" /\ OpenFile(1) /\ JobShape(job) /\ FileTypes(dest, wrote)
  BY Zenon DEF Materialize, FilesInv
<1>2. 1 \in DOMAIN job.m.files
  BY <1>1 DEF JobShape, Sound
<1>3. \A p \in Path : Settled(dest, wrote, p)
  BY <1>1, Zenon DEF FilesInv, AtFile
<1> QED BY <1>1, <1>2, <1>3, OpenOK

(* A file whose last bytes are missing is not mistaken for a whole one,    *)
(* unless the chunks that are missing are empty.                           *)
LEMMA PrefixSettled ==
    ASSUME NEW f, Whole(f), NEW k \in 0..Len(f.chunks), NEW x \in Data,
           IF k < Len(f.chunks) THEN Len(x) < f.chunks[k + 1].size \/ x = <<>> ELSE x = <<>>,
           Len(Joined(f.chunks, k) \o x) = f.size
    PROVE  Joined(f.chunks, k) \o x = Bytes(f.chunks)
<1>1. PICK s, a : s = f.chunks /\ a = Joined(s, k)
  BY Zenon
<1>2. s \in Seq(ChunkRef) /\ Sized(s) /\ Hashed(s) /\ Len(s) \in Nat /\ SizeOf(s) = f.size
  BY <1>1, RefsTyped, Zenon DEF Whole, FileEntry, Sized
<1>3. Len(s) \in 0..Len(s) /\ k \in 0..Len(s) /\ k <= Len(s)
  BY <1>1, <1>2
<1>4. a \in Data /\ Len(a) = Upto(s, k) /\ Upto(s, k) \in Nat
  BY <1>1, <1>2, <1>3, JoinedSteps, Lengths, Uptos, Zenon
<1>5. Upto(s, Len(s)) = f.size /\ Joined(s, Len(s)) = Bytes(s)
  BY <1>2, JoinedSteps, Uptos, Zenon
<1>6. Len(a \o x) = Upto(s, k) + Len(x) /\ Len(x) \in Nat
  <2>1. Len(a \o x) = Len(a) + Len(x) /\ Len(x) \in Nat
    BY <1>4, JoinData, Zenon
  <2> QED BY <1>4, <2>1, Zenon
<1>7. x = <<>>
  <2> SUFFICES ASSUME x # <<>> PROVE FALSE
    BY Zenon
  <2>1. k < Len(s) /\ Len(x) < s[k + 1].size
    BY <1>1, Zenon
  <2>2. k + 1 \in 1..Len(s) /\ k + 1 \in 0..Len(s) /\ k + 1 <= Len(s) /\ (k + 1) - 1 = k
    BY <1>2, <1>3, <2>1
  <2>3. Upto(s, k + 1) = Upto(s, k) + s[k + 1].size /\ s[k + 1].size \in Nat
    BY <1>2, <2>2, Uptos, Zenon DEF Sized
  <2>4. Upto(s, k + 1) <= f.size
    BY <1>2, <1>3, <1>5, <2>2, Growth, Zenon
  <2>5. Upto(s, k) + Len(x) = f.size
    BY <1>1, <1>6, Zenon
  <2> QED BY <1>4, <1>6, <2>1, <2>3, <2>4, <2>5
<1>8. a \o x = a
  BY <1>4, <1>7 DEF Data
<1>9. Upto(s, k) = f.size
  BY <1>1, <1>4, <1>8, Zenon
<1>10. Joined(s, k) = Joined(s, Len(s))
  BY <1>2, <1>3, <1>5, <1>9, Growth, Zenon
<1> QED BY <1>1, <1>5, <1>8, <1>10, Zenon

(* The current file.                                                       *)
LEMMA CurrentFile ==
    ASSUME FilesInv(job, dest, wrote), AtFile(job)
    PROVE  /\ Sound(job.m) /\ job.i \in DOMAIN job.m.files /\ Whole(Entry)
           /\ Entry \in FileEntry /\ Entry.path \in Path /\ Entry.chunks \in Seq(ChunkRef)
           /\ wrote[Entry.path] = Entry /\ Entry # None
           /\ job.k - 1 \in 0..Len(Entry.chunks) /\ job.k \in Nat
           /\ Len(Entry.chunks) \in Nat /\ Joined(Entry.chunks, job.k - 1) \in Data
           /\ \A q \in Path \ {Entry.path} : Settled(dest, wrote, q)
           /\ \A n \in 1..(job.i - 1) : Finished(job, dest, wrote, n)
<1>1. /\ Sound(job.m) /\ job.i \in DOMAIN job.m.files
      /\ job.k \in 1..(Len(Entry.chunks) + 1) /\ Writing(job, dest, wrote)
  BY Zenon DEF FilesInv, JobShape, AtFile, Entry
<1>2. /\ Whole(Entry) /\ Entry \in FileEntry /\ Entry.path \in Path
      /\ Entry.chunks \in Seq(ChunkRef) /\ Hashed(Entry.chunks) /\ Entry # None
  BY <1>1, EntryTyped, Zenon DEF Entry
<1>3. Len(Entry.chunks) \in Nat
  BY <1>2
<1>4. job.k - 1 \in 0..Len(Entry.chunks) /\ job.k \in Nat
  BY <1>1, <1>3
<1>5. Joined(Entry.chunks, job.k - 1) \in Data
  BY <1>2, <1>4, JoinedSteps, Zenon
<1>6. \A q \in Path \ {Entry.path} : Settled(dest, wrote, q)
  BY Zenon DEF FilesInv, Entry
<1>7. /\ wrote[Entry.path] = Entry
      /\ \A n \in 1..(job.i - 1) : Finished(job, dest, wrote, n)
  BY <1>1, Zenon DEF Writing, Entry
<1> QED BY <1>1, <1>2, <1>3, <1>4, <1>5, <1>6, <1>7, Zenon

(* The last chunk of a file is done.                                       *)
LEMMA FileWrittenOK ==
    ASSUME FilesInv(job, dest, wrote), job.pc = "write", job.k > Len(Entry.chunks), FileWritten
    PROVE  FilesInv(job', dest', wrote')
<1>0. AtFile(job) /\ JobShape(job) /\ FileTypes(dest, wrote) /\ Writing(job, dest, wrote)
  BY Zenon DEF AtFile, FilesInv
<1>1. /\ Sound(job.m) /\ job.i \in DOMAIN job.m.files /\ Whole(Entry) /\ Entry \in FileEntry
      /\ Entry.path \in Path /\ Entry.chunks \in Seq(ChunkRef)
      /\ wrote[Entry.path] = Entry
      /\ job.k - 1 \in 0..Len(Entry.chunks) /\ job.k \in Nat /\ Len(Entry.chunks) \in Nat
      /\ \A q \in Path \ {Entry.path} : Settled(dest, wrote, q)
      /\ \A n \in 1..(job.i - 1) : Finished(job, dest, wrote, n)
  BY <1>0, CurrentFile, Zenon
<1>2. dest[Entry.path] = Bytes(Entry.chunks)
  <2>1. job.k - 1 = Len(Entry.chunks)
    BY <1>1
  <2>2. Joined(Entry.chunks, Len(Entry.chunks)) = Bytes(Entry.chunks)
    BY <1>1, RefsTyped, JoinedSteps, ZenonT(30)
  <2> QED BY <1>0, <2>1, <2>2, Zenon DEF Writing, Entry
<1>3. Settled(dest, wrote, Entry.path)
  BY <1>1, <1>2, Zenon DEF Settled
<1>4. \A q \in Path : Settled(dest, wrote, q)
  BY <1>1, <1>3, Zenon
<1>5. Finished(job, dest, wrote, job.i)
  BY <1>1, <1>2, Zenon DEF Finished, Entry
<1>6. job.i \in 1..Len(job.m.files) /\ Len(job.m.files) \in Nat /\ DOMAIN job.m.files = 1..Len(job.m.files)
  BY <1>1, EntryTyped, Zenon
<1>7. \A n \in 1..job.i : Finished(job, dest, wrote, n)
  BY <1>1, <1>5, <1>6
<1>8. SizeOf(Entry.chunks) = Entry.size
  BY <1>1, Zenon DEF Whole
<1>9. CASE job.i < Len(job.m.files)
  <2>1. OpenFile(job.i + 1)
    BY <1>8, <1>9, Zenon DEF FileWritten
  <2>2. job.i + 1 \in DOMAIN job.m.files /\ (job.i + 1) - 1 = job.i
    BY <1>6, <1>9
  <2> QED BY <1>0, <1>4, <1>7, <2>1, <2>2, OpenOK, Zenon
<1>10. CASE ~(job.i < Len(job.m.files))
  <2>1. JobEnds("done", None) /\ dest' = dest /\ wrote' = wrote
    BY <1>8, <1>10, Zenon DEF FileWritten
  <2>2. /\ DOMAIN job' = {"pc", "m", "missing", "i", "k", "buf", "why"}
        /\ job'.pc = "done" /\ job'.missing = {} /\ job'.buf = <<>> /\ job'.m = job.m
    BY <2>1, Zenon DEF JobEnds, NoJob
  <2>3. <<>> \in Data
    BY DEF Data
  <2>4. JobShape(job')
    BY <1>1, <2>2, <2>3, Zenon DEF JobShape, AtFile
  <2>5. ASSUME NEW n \in DOMAIN job'.m.files PROVE Finished(job', dest', wrote', n)
    <3>1. n \in 1..job.i
      BY <1>6, <1>10, <2>2
    <3> QED BY <1>7, <2>1, <2>2, <3>1, Zenon DEF Finished
  <2> QED BY <1>0, <1>4, <2>1, <2>2, <2>4, <2>5, Zenon DEF FilesInv, AtFile
<1> QED BY <1>9, <1>10, Zenon

(* What is copied of a chunk's file.                                       *)
LEMMA CopiedData ==
    ASSUME cache \in [Hash -> Data \cup {Absent}], NEW r \in ChunkRef, cache[r.hash] # Absent
    PROVE  /\ Copied(r) \in Data /\ Len(Copied(r)) <= r.size
           /\ cache[r.hash] = r.hash => Copied(r) = r.hash
<1>1. PICK b, n : b = cache[r.hash] /\ n = Lesser(r.size, Len(b))
  BY Zenon
<1>2. b \in Data /\ r.hash \in Data /\ r.size \in Nat /\ r.size = Len(r.hash)
  BY <1>1, HashData, Zenon DEF ChunkRef
<1>3. n \in Nat /\ n <= Len(b) /\ n <= r.size /\ Len(b) \in Nat
  BY <1>1, <1>2 DEF Lesser, Data
<1>4. PICK z \in Nat : z = 0
  BY Zenon
<1>5. Copied(r) = SubSeq(b, z + 1, z + n)
  BY <1>1, <1>3, <1>4 DEF Copied, GetChunkReader
<1>6. z + n <= Len(b)
  BY <1>3, <1>4
<1>7. Copied(r) \in Data /\ Len(Copied(r)) = n /\ \A i \in 1..n : Copied(r)[i] = b[z + i]
  <2>1. PICK d : d = SubSeq(b, z + 1, z + n)
    BY Zenon
  <2>2. d \in Data /\ Len(d) = n /\ \A i \in 1..n : d[i] = b[z + i]
    BY <1>2, <1>3, <1>6, <2>1, SubSeqBytes, ZenonT(30)
  <2> QED BY <1>5, <2>1, <2>2, Zenon
<1>8. ASSUME b = r.hash PROVE Copied(r) = b
  <2>1. n = Len(b)
    BY <1>1, <1>2, <1>3, <1>8, Zenon DEF Lesser
  <2>2. ASSUME NEW i \in 1..n PROVE Copied(r)[i] = b[i]
    <3>1. z + i = i
      BY <1>3, <1>4
    <3> QED BY <1>7, <3>1, Zenon
  <2> QED BY <1>2, <1>7, <2>1, <2>2, SameBytes, Zenon
<1> QED BY <1>1, <1>3, <1>7, <1>8, Zenon

(* A chunk is appended to the file.                                        *)
LEMMA CopyOK ==
    ASSUME FilesInv(job, dest, wrote), cache \in [Hash -> Data \cup {Absent}],
           job.pc = "write", ~(job.k > Len(Entry.chunks)), CopyChunk(Entry.chunks[job.k])
    PROVE  FilesInv(job', dest', wrote')
<1>0. AtFile(job) /\ JobShape(job) /\ FileTypes(dest, wrote) /\ Writing(job, dest, wrote)
  BY Zenon DEF AtFile, FilesInv
<1>1. /\ Sound(job.m) /\ job.i \in DOMAIN job.m.files /\ Whole(Entry) /\ Entry \in FileEntry
      /\ Entry.path \in Path /\ Entry.chunks \in Seq(ChunkRef)
      /\ wrote[Entry.path] = Entry
      /\ job.k - 1 \in 0..Len(Entry.chunks) /\ job.k \in Nat /\ Len(Entry.chunks) \in Nat
      /\ Joined(Entry.chunks, job.k - 1) \in Data
      /\ \A q \in Path \ {Entry.path} : Settled(dest, wrote, q)
      /\ \A n \in 1..(job.i - 1) : Finished(job, dest, wrote, n)
  BY <1>0, CurrentFile, Zenon
<1>2. PICK f, p, s, k, r, a : /\ f = Entry /\ p = f.path /\ s = f.chunks /\ k = job.k - 1
                              /\ r = s[k + 1] /\ a = Joined(s, k)
  BY Zenon
<1>3. /\ k \in 0..Len(s) /\ k < Len(s) /\ k + 1 = job.k /\ job.k \in 1..Len(s) /\ r \in ChunkRef
      /\ a \in Data /\ dest[p] = a /\ wrote[p] = f /\ p \in Path /\ Whole(f)
  <2>1. /\ k \in 0..Len(s) /\ k < Len(s) /\ k + 1 = job.k /\ job.k \in 1..Len(s)
    BY <1>1, <1>2
  <2>2. dest[p] = a
    BY <1>0, <1>2, Zenon DEF Writing, Entry
  <2>3. s \in Seq(ChunkRef) /\ p \in Path /\ Whole(f) /\ wrote[p] = f /\ a \in Data
    BY <1>1, <1>2, Zenon
  <2>4. r \in ChunkRef
    BY <1>2, <2>1, <2>3, ElementIn, Zenon
  <2> QED BY <2>1, <2>2, <2>3, <2>4, Zenon
<1>4. wrote' = wrote
  BY Zenon DEF CopyChunk
<1>5. CopyChunk(r)
  BY <1>2, <1>3, Zenon
<1>6. ASSUME NEW x \in Data, FileTypes(dest', wrote), dest'[p] = a \o x, Len(x) < r.size \/ x = <<>>,
             \A q \in Path \ {p} : dest'[q] = dest[q]
      PROVE  \A q \in Path : Settled(dest', wrote', q)
  <2>1. ASSUME NEW q \in Path, q # p PROVE Settled(dest', wrote', q)
    BY <1>1, <1>2, <1>4, <1>6, <2>1, Zenon DEF Settled
  <2>2. Settled(dest', wrote', p)
    <3> SUFFICES ASSUME Len(dest'[p]) = f.size PROVE dest'[p] = Bytes(f.chunks)
      BY <1>3, <1>4, Zenon DEF Settled
    <3> QED BY <1>2, <1>3, <1>6, PrefixSettled, ZenonT(30)
  <2> QED BY <2>1, <2>2, Zenon
<1>7. CASE GetChunkReader(r.hash) = Absent
  <2>1. JobEnds("failed", "chunk") /\ dest' = dest
    BY <1>5, <1>7, Zenon DEF CopyChunk
  <2>2. <<>> \in Data /\ a = a \o <<>>
    BY <1>3 DEF Data
  <2>3. \A q \in Path : Settled(dest', wrote', q)
    BY <1>0, <1>3, <1>6, <2>1, <2>2, Zenon
  <2> QED BY <1>0, <1>4, <2>1, <2>3, FailOK, Zenon
<1>8. CASE GetChunkReader(r.hash) # Absent
  <2>1. PICK x : x = Copied(r)
    BY Zenon
  <2>2. x \in Data /\ Len(x) <= r.size
    BY <1>3, <1>8, <2>1, CopiedData, Zenon DEF GetChunkReader
  <2>3. dest' = [dest EXCEPT ![p] = a \o x]
    BY <1>2, <1>3, <1>5, <1>8, <2>1, Zenon DEF CopyChunk, FileTypes
  <2>4. a \o x \in Data
    BY <1>3, <2>2, JoinData, Zenon
  <2>5. /\ dest'[p] = a \o x /\ \A q \in Path \ {p} : dest'[q] = dest[q]
        /\ dest' \in [Path -> Data \cup {Absent}]
    BY <1>0, <1>3, <2>3, <2>4, Zenon DEF FileTypes
  <2>6. FileTypes(dest', wrote)
    BY <1>0, <2>5, Zenon DEF FileTypes
  <2>7. CASE Len(x) # r.size
    <3>1. JobEnds("failed", "chunk")
      BY <1>5, <1>8, <2>1, <2>7, Zenon DEF CopyChunk
    <3>2. Len(x) < r.size
      BY <1>3, <2>2, <2>7 DEF ChunkRef, Data
    <3>3. \A q \in Path : Settled(dest', wrote', q)
      BY <1>6, <2>2, <2>5, <2>6, <3>2, Zenon
    <3> QED BY <1>4, <2>6, <3>1, <3>3, FailOK, Zenon
  <2>8. CASE Len(x) = r.size
    <3>1. job' = [job EXCEPT !.pc = "check", !.buf = x]
      BY <1>5, <1>8, <2>1, <2>8, Zenon DEF CopyChunk
    <3>2. /\ DOMAIN job' = DOMAIN job /\ job'.pc = "check" /\ job'.buf = x /\ job'.m = job.m
          /\ job'.i = job.i /\ job'.k = job.k /\ job'.missing = job.missing
      BY <1>0, <3>1, Zenon DEF JobShape
    <3>3. job'.m.files[job'.i] = f /\ job.m.files[job.i] = f
      BY <1>2, <3>2, Zenon DEF Entry
    <3>4. JobShape(job')
      <4>1. job'.missing \subseteq Hash /\ job'.buf \in Data /\ Sound(job'.m)
        BY <1>0, <1>1, <2>2, <3>2, Zenon DEF JobShape
      <4>2. /\ job'.i \in DOMAIN job'.m.files
            /\ job'.k \in 1..(Len(job'.m.files[job'.i].chunks) + 1)
            /\ job'.k <= Len(job'.m.files[job'.i].chunks)
        <5>1. job.k \in 1..(Len(s) + 1) /\ job.k <= Len(s)
          <6>1. Len(s) \in Nat
            BY <1>1, <1>2, Zenon
          <6> QED BY <1>3, <6>1
        <5> QED BY <1>1, <1>2, <3>2, <3>3, <5>1, Zenon
      <4>3. DOMAIN job' = {"pc", "m", "missing", "i", "k", "buf", "why"}
        BY <1>0, <3>2, Zenon DEF JobShape
      <4> QED BY <3>2, <4>1, <4>2, <4>3, Zenon DEF JobShape
    <3>5. ASSUME NEW q \in Path
          PROVE  Settled(dest', wrote', q) \/ (AtFile(job') /\ job'.m.files[job'.i].path = q)
      <4>1. CASE q = p
        BY <1>2, <3>2, <3>3, <4>1, Zenon DEF AtFile
      <4>2. CASE q # p
        BY <1>1, <1>2, <1>4, <2>5, <4>2, Zenon DEF Settled
      <4> QED BY <4>1, <4>2, Zenon
    <3>6. ASSUME NEW n \in 1..(job.i - 1) PROVE Finished(job', dest', wrote', n)
      <4>1. n \in DOMAIN job.m.files /\ n # job.i
        <5>1. DOMAIN job.m.files = 1..Len(job.m.files) /\ Len(job.m.files) \in Nat
          BY <1>1, EntryTyped, Zenon
        <5>2. job.i \in 1..Len(job.m.files)
          BY <1>1, <5>1, Zenon
        <5>3. n \in 1..Len(job.m.files) /\ n # job.i
          BY <5>1, <5>2, BeforeIsOther, Zenon
        <5> QED BY <5>1, <5>3, Zenon
      <4>2. job.m.files[n].path # p /\ job.m.files[n].path \in Path
        BY <1>1, <1>2, <3>3, <4>1, EntryTyped, Zenon DEF Sound
      <4>3. job'.m = job.m /\ Finished(job, dest, wrote, n)
        BY <1>1, <1>2, <3>2, Zenon
      <4>4. /\ dest'[job.m.files[n].path] = dest[job.m.files[n].path]
            /\ wrote'[job.m.files[n].path] = wrote[job.m.files[n].path]
        BY <1>4, <2>5, <4>2, Zenon
      <4> QED BY <4>3, <4>4, FinishedSame, Zenon
    <3>7. Writing(job', dest', wrote')
      BY <1>2, <1>3, <1>4, <2>5, <2>8, <3>2, <3>3, <3>6, Zenon DEF Writing
    <3> QED BY <1>4, <2>6, <3>2, <3>4, <3>5, <3>7, Zenon DEF FilesInv
  <2> QED BY <2>7, <2>8, Zenon
<1> QED BY <1>7, <1>8, Zenon

(* The bytes that were copied are hashed.                                  *)
LEMMA CheckOK ==
    ASSUME FilesInv(job, dest, wrote), Check
    PROVE  FilesInv(job', dest', wrote')
<1>0. /\ AtFile(job) /\ JobShape(job) /\ FileTypes(dest, wrote) /\ Writing(job, dest, wrote)
      /\ job.pc = "check" /\ CheckChunk /\ wrote' = wrote
  BY Zenon DEF AtFile, FilesInv, Check
<1>1. /\ Sound(job.m) /\ job.i \in DOMAIN job.m.files /\ Whole(Entry) /\ Entry \in FileEntry
      /\ Entry.path \in Path /\ Entry.chunks \in Seq(ChunkRef)
      /\ job.k \in Nat /\ Len(Entry.chunks) \in Nat
      /\ \A q \in Path \ {Entry.path} : Settled(dest, wrote, q)
      /\ \A n \in 1..(job.i - 1) : Finished(job, dest, wrote, n)
  BY <1>0, CurrentFile, Zenon
<1>2. PICK f, p, s, k : f = Entry /\ p = f.path /\ s = f.chunks /\ k = job.k
  BY Zenon
<1>3. k \in 1..Len(s) /\ k + 1 \in 1..(Len(s) + 1) /\ (k + 1) - 1 = k /\ p \in Path
  <2>1. job.k \in 1..(Len(Entry.chunks) + 1) /\ job.k <= Len(Entry.chunks)
    BY <1>0, Zenon DEF JobShape, Entry
  <2>2. k \in Int /\ Len(s) \in Nat
    BY <1>1, <1>2
  <2>3. k \in 1..(Len(s) + 1) /\ k <= Len(s) /\ p \in Path
    BY <1>1, <1>2, <2>1, Zenon
  <2> QED BY <2>2, <2>3, NextPosition, Zenon
<1>4. dest[p] = Joined(s, k - 1) \o job.buf /\ wrote[p] = f
  BY <1>0, <1>2, Zenon DEF Writing, Entry
<1>5. CASE job.buf = s[k].hash
  <2>1. job' = [job EXCEPT !.pc = "write", !.k = @ + 1, !.buf = <<>>] /\ dest' = dest
    BY <1>0, <1>2, <1>5, Zenon DEF CheckChunk, NextChunk
  <2>2. /\ DOMAIN job' = DOMAIN job /\ job'.pc = "write" /\ job'.buf = <<>> /\ job'.m = job.m
        /\ job'.i = job.i /\ job'.k = k + 1 /\ job'.missing = job.missing
    BY <1>0, <1>2, <2>1, Zenon DEF JobShape
  <2>3. job'.m.files[job'.i] = f /\ job.m.files[job.i] = f /\ <<>> \in Data
    BY <1>2, <2>2 DEF Entry, Data
  <2>4. JobShape(job')
    BY <1>0, <1>1, <1>2, <1>3, <2>2, <2>3 DEF JobShape, AtFile
  <2>5. dest[p] = Joined(s, k)
    BY <1>1, <1>2, <1>3, <1>4, <1>5, RefsTyped, JoinedSteps, ZenonT(30)
  <2>6. ASSUME NEW n \in 1..(job'.i - 1) PROVE Finished(job', dest', wrote', n)
    BY <1>0, <1>1, <2>1, <2>2, Zenon DEF Finished
  <2>7. Writing(job', dest', wrote')
    BY <1>0, <1>2, <1>3, <1>4, <2>1, <2>2, <2>3, <2>5, <2>6, Zenon DEF Writing
  <2>8. ASSUME NEW q \in Path
        PROVE  Settled(dest', wrote', q) \/ (AtFile(job') /\ job'.m.files[job'.i].path = q)
    BY <1>0, <1>1, <1>2, <2>1, <2>2, <2>3, Zenon DEF AtFile
  <2> QED BY <1>0, <2>1, <2>2, <2>4, <2>7, <2>8, Zenon DEF FilesInv
<1>6. CASE job.buf # s[k].hash
  <2>1. JobEnds("failed", "chunk") /\ dest' = [dest EXCEPT ![p] = Absent]
    BY <1>0, <1>2, <1>6, Zenon DEF CheckChunk
  <2>2. FileTypes(dest', wrote') /\ dest'[p] = Absent /\ \A q \in Path \ {p} : dest'[q] = dest[q]
    BY <1>0, <1>3, <2>1, Zenon DEF FileTypes
  <2>3. \A q \in Path : Settled(dest', wrote', q)
    BY <1>0, <1>1, <1>2, <2>2, Zenon DEF Settled
  <2> QED BY <2>1, <2>2, <2>3, FailOK, ZenonT(30)
<1> QED BY <1>5, <1>6, Zenon

(* After a crash in a file, that file is not judged any more.              *)
LEMMA CrashOK ==
    ASSUME FilesInv(job, dest, wrote), Crash
    PROVE  FilesInv(job', dest', wrote')
<1>1. JobEnds("failed", "crash") /\ dest' = dest /\ FileTypes(dest, wrote)
  BY Zenon DEF Crash, FilesInv
<1>2. CASE job.pc = "fetch"
  <2>1. wrote' = wrote /\ \A p \in Path : Settled(dest, wrote, p)
    BY <1>2, Zenon DEF Crash, FilesInv, AtFile
  <2> QED BY <1>1, <2>1, FailOK, Zenon
<1>3. CASE job.pc # "fetch"
  <2>1. AtFile(job) /\ wrote' = [wrote EXCEPT ![Entry.path] = None]
    BY <1>3, Zenon DEF Crash, Syncing, AtFile
  <2>2. Entry.path \in Path /\ \A q \in Path \ {Entry.path} : Settled(dest, wrote, q)
    BY <2>1, CurrentFile, Zenon
  <2>3. FileTypes(dest', wrote')
    BY <1>1, <2>1, <2>2, Zenon DEF FileTypes
  <2>4. wrote'[Entry.path] = None /\ \A q \in Path \ {Entry.path} : wrote'[q] = wrote[q]
    BY <1>1, <2>1, <2>2, Zenon DEF FileTypes
  <2>5. \A q \in Path : Settled(dest', wrote', q)
    BY <1>1, <2>2, <2>4, Zenon DEF Settled
  <2> QED BY <1>1, <2>3, <2>5, FailOK, Zenon
<1> QED BY <1>2, <1>3, Zenon

(* What damage leaves is bytes.                                            *)
LEMMA DamagedData ==
    ASSUME NEW d \in Data, d # <<>>
    PROVE  Damaged(d) \subseteq Data
<1>1. Len(d) \in Nat /\ Len(d) >= 1 /\ 1 \in DOMAIN d
  BY DEF Data
<1>2. [d EXCEPT ![1] = Junk] \in Data
  BY <1>1, PipelineAssumption DEF Data
<1>3. SubSeq(d, 1, Len(d) - 1) \in Data
  BY <1>1 DEF Data
<1> QED BY <1>2, <1>3, Zenon DEF Damaged

(* A file that is damaged later is not judged any more.                    *)
LEMMA SpoilOK ==
    ASSUME FilesInv(job, dest, wrote), NEW p \in Path, SpoilFile(p)
    PROVE  FilesInv(job', dest', wrote')
<1>1. PICK b : b \in Damaged(dest[p]) /\ dest' = [dest EXCEPT ![p] = b]
  BY Zenon DEF SpoilFile
<1>2. /\ wrote' = [wrote EXCEPT ![p] = None] /\ job' = job /\ dest[p] \notin {Absent, <<>>}
      /\ FileTypes(dest, wrote) /\ JobShape(job)
      /\ AtFile(job) => Entry.path # p
  BY Zenon DEF SpoilFile, FilesInv, AtFile, Syncing
<1>3. b \in Data
  BY <1>1, <1>2, DamagedData, Zenon DEF FileTypes
<1>4. /\ FileTypes(dest', wrote') /\ wrote'[p] = None
      /\ \A q \in Path \ {p} : dest'[q] = dest[q] /\ wrote'[q] = wrote[q]
  BY <1>1, <1>2, <1>3, Zenon DEF FileTypes
<1>5. ASSUME NEW q \in Path
      PROVE  Settled(dest', wrote', q) \/ (AtFile(job') /\ job'.m.files[job'.i].path = q)
  BY <1>2, <1>4, Zenon DEF FilesInv, Settled
<1>6. ASSUME Sound(job.m), NEW n \in DOMAIN job.m.files, Finished(job, dest, wrote, n)
      PROVE  Finished(job', dest', wrote', n)
  <2>1. job.m.files[n].path \in Path /\ job.m.files[n] # None
    BY <1>6, EntryTyped, Zenon
  <2> QED BY <1>2, <1>4, <1>6, <2>1, Zenon DEF Finished
<1>7. ASSUME AtFile(job') PROVE Writing(job', dest', wrote')
  <2>1. AtFile(job) /\ Writing(job, dest, wrote)
    BY <1>2, <1>7, ZenonT(30) DEF FilesInv
  <2>2. Entry.path \in Path /\ Entry.path # p /\ Sound(job.m) /\ job.i \in DOMAIN job.m.files
    BY <1>2, <2>1, CurrentFile, ZenonT(30)
  <2>3. ASSUME NEW n \in 1..(job.i - 1) PROVE Finished(job', dest', wrote', n)
    <3>1. n \in DOMAIN job.m.files
      BY <2>2, EntryTyped
    <3> QED BY <1>6, <2>1, <2>2, <3>1, ZenonT(30) DEF Writing
  <2> QED BY <1>2, <1>4, <2>1, <2>2, <2>3, ZenonT(30) DEF Writing, Entry
<1>8. ASSUME job'.pc = "done" PROVE \A n \in DOMAIN job'.m.files : Finished(job', dest', wrote', n)
  <2>1. Sound(job.m)
    BY <1>2, <1>8, Zenon DEF JobShape
  <2> QED BY <1>2, <1>6, <1>8, <2>1, Zenon DEF FilesInv
<1> QED BY <1>2, <1>4, <1>5, <1>7, <1>8, Zenon DEF FilesInv

(* The chunks of a manifest.                                               *)
LEMMA RefsSound ==
    ASSUME NEW m, Sound(m)
    PROVE  RefsOf(m) \subseteq ChunkRef
<1> SUFFICES ASSUME NEW n \in DOMAIN m.files, NEW r \in Range(m.files[n].chunks)
             PROVE  r \in ChunkRef
  BY Zenon DEF RefsOf
<1>1. m.files[n].chunks \in Seq(ChunkRef)
  BY EntryTyped, Zenon
<1> QED BY <1>1 DEF Range

(* A job starts with a manifest that Validate accepted.                    *)
LEMMA SubmitOK ==
    ASSUME FilesInv(job, dest, wrote), manifest # None => Sound(manifest), Submit
    PROVE  FilesInv(job', dest', wrote')
<1>1. Sound(manifest) /\ dest' = dest /\ wrote' = wrote
  BY Zenon DEF Submit
<1>2. Missing(manifest) \subseteq Hash
  BY <1>1, RefsSound, Zenon DEF Missing, ChunkRef
<1>3. /\ DOMAIN job' = {"pc", "m", "missing", "i", "k", "buf", "why"}
      /\ job'.pc = "fetch" /\ job'.missing = Missing(manifest) /\ job'.buf = <<>>
      /\ job'.m = manifest
  BY Zenon DEF Submit
<1>4. <<>> \in Data
  BY DEF Data
<1>5. JobShape(job')
  BY <1>1, <1>2, <1>3, <1>4, Zenon DEF JobShape, AtFile
<1>6. \A p \in Path : Settled(dest, wrote, p)
  BY Zenon DEF Submit, Syncing, FilesInv, AtFile
<1> QED BY <1>1, <1>3, <1>5, <1>6, Zenon DEF FilesInv, AtFile

(* A download changes no file.                                             *)
LEMMA FetchOK ==
    ASSUME FilesInv(job, dest, wrote), Fetch
    PROVE  FilesInv(job', dest', wrote')
<1>1. PICK h \in job.missing : job' = [job EXCEPT !.missing = @ \ {h}]
  BY ZenonT(30) DEF Fetch
<1>2. job.pc = "fetch" /\ dest' = dest /\ wrote' = wrote /\ JobShape(job)
  BY Zenon DEF Fetch, FilesInv
<1>3. /\ DOMAIN job' = DOMAIN job /\ job'.pc = "fetch" /\ job'.missing \subseteq Hash
      /\ job'.buf = job.buf /\ job'.m = job.m
  BY <1>1, <1>2, Zenon DEF JobShape
<1>4. JobShape(job')
  BY <1>2, <1>3, Zenon DEF JobShape, AtFile
<1> QED BY <1>2, <1>3, <1>4, Zenon DEF FilesInv, AtFile

(* A job without its chunks touches no file.                               *)
LEMMA FetchFailsOK ==
    ASSUME FilesInv(job, dest, wrote), FetchFails
    PROVE  FilesInv(job', dest', wrote')
<1>1. /\ job.pc = "fetch" /\ dest' = dest /\ wrote' = wrote /\ JobEnds("failed", "download")
      /\ FileTypes(dest, wrote)
  BY Zenon DEF FetchFails, FilesInv
<1>2. \A p \in Path : Settled(dest, wrote, p)
  BY <1>1, Zenon DEF FilesInv, AtFile
<1> QED BY <1>1, <1>2, FailOK, Zenon

(* No step spoils what is known of the files.                              *)
LEMMA FilesNext ==
    ASSUME FilesInv(job, dest, wrote), cache \in [Hash -> Data \cup {Absent}],
           manifest # None => Sound(manifest), [Next]_vars
    PROVE  FilesInv(job', dest', wrote')
<1>1. CASE job' = job /\ dest' = dest /\ wrote' = wrote
  BY <1>1, Zenon
<1>2. CASE Submit
  BY <1>2, SubmitOK, Zenon
<1>3. CASE Fetch
  BY <1>3, FetchOK, Zenon
<1>4. CASE FetchFails
  BY <1>4, FetchFailsOK, Zenon
<1>5. CASE Materialize
  BY <1>5, MaterializeOK, Zenon
<1>6. CASE WriteChunk
  <2>1. CASE job.k > Len(Entry.chunks)
    BY <1>6, <2>1, FileWrittenOK, Zenon DEF WriteChunk
  <2>2. CASE ~(job.k > Len(Entry.chunks))
    BY <1>6, <2>2, CopyOK, Zenon DEF WriteChunk
  <2> QED BY <2>1, <2>2, Zenon
<1>7. CASE Check
  BY <1>7, CheckOK, Zenon
<1>8. CASE Crash
  BY <1>8, CrashOK, Zenon
<1>9. ASSUME NEW p \in Path, SpoilFile(p) PROVE FilesInv(job', dest', wrote')
  BY <1>9, SpoilOK, Zenon
<1>10. CASE Publish \/ Verify \/ UNCHANGED vars
  <2>1. job' = job /\ dest' = dest /\ wrote' = wrote
    BY <1>10, Zenon DEF Publish, ListFiles, PublishFails, ReadChunk, Save, PubVars,
                 Verify, VerifyArtifact, VerifyFile, VerifyCache, AuditChunk, Report, VerVars, vars
  <2> QED BY <1>1, <2>1, Zenon
<1>11. ASSUME NEW p \in Path, NEW c \in Content \cup {Absent}, Edit(p, c)
       PROVE  FilesInv(job', dest', wrote')
  BY <1>1, <1>11, Zenon DEF Edit
<1>12. ASSUME NEW h \in Hash, LoseChunk(h) PROVE FilesInv(job', dest', wrote')
  BY <1>1, <1>12, Zenon DEF LoseChunk
<1> QED BY <1>2, <1>3, <1>4, <1>5, <1>6, <1>7, <1>8, <1>9, <1>10, <1>11, <1>12, Zenon
        DEF Next, Sync, Environment

=============================================================================
