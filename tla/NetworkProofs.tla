--------------------------- MODULE NetworkProofs ---------------------------
(***************************************************************************)
(* Proofs about what daemons and tracker serve to each other.              *)
(*                                                                         *)
(* First chunk transfer (Transport), for any number of downloads, servers  *)
(* and connections, any capacity, queue and pool, with servers that stop   *)
(* or crash and downloads that are given up.  The client's pool keeps its  *)
(* bound and leaks no connection.  Every server counts its uploads and its *)
(* queue exactly, and nobody waits while a slot is free.                   *)
(*                                                                         *)
(* Then the tracker's handlers (Registry), for any number of nodes,        *)
(* artifacts and localities, and publications and reports at work at the   *)
(* same time, with restarts of the tracker and peers that come, go and     *)
(* expire.  The fleet watch: every seed is counted, and the milestones on  *)
(* record are exactly those that are reached.  The lookups: a refresh      *)
(* leaves only peers that were fresh while it ran, the nearest first.      *)
(***************************************************************************)
EXTENDS Transport, Registry, FiniteSetTheorems, WellFoundedInduction, TLAPS

-----------------------------------------------------------------------------
(* Sequences without an element.                                           *)

(* An element of a sequence.                                               *)
LEMMA MemberOf ==
    ASSUME NEW S, NEW s \in Seq(S), NEW i \in DOMAIN s
    PROVE  s[i] \in S
OBVIOUS

(* The rest of a sequence behind its first k elements.                     *)
LEMMA RestFacts ==
    ASSUME NEW S, NEW s \in Seq(S), NEW k \in 0..Len(s)
    PROVE  /\ SubSeq(s, k + 1, Len(s)) \in Seq(S)
           /\ Len(SubSeq(s, k + 1, Len(s))) = Len(s) - k
           /\ \A i \in 1..(Len(s) - k) : SubSeq(s, k + 1, Len(s))[i] = s[i + k]
OBVIOUS

(* What RemoveAt returns.                                                  *)
LEMMA RemoveAtFacts ==
    ASSUME NEW S, NEW s \in Seq(S), NEW i \in 1..Len(s)
    PROVE  /\ RemoveAt(s, i) \in Seq(S) /\ Len(RemoveAt(s, i)) = Len(s) - 1
           /\ \A j \in 1..(Len(s) - 1) : RemoveAt(s, i)[j] = IF j < i THEN s[j] ELSE s[j + 1]
<1> DEFINE a == SubSeq(s, 1, i - 1)
           b == SubSeq(s, i + 1, Len(s))
<1>1. a \in Seq(S) /\ Len(a) = i - 1 /\ \A j \in 1..(i - 1) : a[j] = s[j]
  OBVIOUS
<1>2. b \in Seq(S) /\ Len(b) = Len(s) - i /\ \A j \in 1..(Len(s) - i) : b[j] = s[j + i]
  OBVIOUS
<1>3. a \o b \in Seq(S) /\ Len(a \o b) = Len(s) - 1
  <2> HIDE DEF a, b
  <2>1. a \o b \in Seq(S) /\ Len(a \o b) = Len(a) + Len(b)
    <3>1. a \in Seq(S) /\ b \in Seq(S)
      BY <1>1, <1>2, Zenon
    <3> QED BY <3>1
  <2>2. Len(s) \in Nat
    OBVIOUS
  <2> QED BY <1>1, <1>2, <2>1, <2>2
<1>4. ASSUME NEW j \in 1..(Len(s) - 1)
      PROVE  (a \o b)[j] = IF j < i THEN s[j] ELSE s[j + 1]
  <2> HIDE DEF a, b
  <2>1. CASE j < i
    BY <1>1, <1>2, <2>1
  <2>2. CASE ~(j < i)
    <3>1. (a \o b)[j] = b[j - (i - 1)] /\ j - (i - 1) \in 1..(Len(s) - i)
      BY <1>1, <1>2, <2>2
    <3>2. (j - (i - 1)) + i = j + 1
      OBVIOUS
    <3> QED BY <1>2, <2>2, <3>1, <3>2, Zenon
  <2> QED BY <2>1, <2>2, Zenon
<1> QED BY <1>3, <1>4, Zenon DEF RemoveAt

(* A sequence without repetition loses exactly the element.                *)
LEMMA RemovedOnce ==
    ASSUME NEW S, NEW s \in Seq(S), IsInjective(s), NEW i \in DOMAIN s
    PROVE  /\ RemoveAt(s, i) \in Seq(S) /\ Len(RemoveAt(s, i)) = Len(s) - 1
           /\ IsInjective(RemoveAt(s, i)) /\ Range(RemoveAt(s, i)) = Range(s) \ {s[i]}
<1> DEFINE r == RemoveAt(s, i)
           n == Len(s)
<1>1. DOMAIN s = 1..n /\ n \in Nat /\ i \in 1..n
  OBVIOUS
<1> HIDE DEF r
<1>2. r \in Seq(S) /\ Len(r) = n - 1 /\ \A j \in 1..(n - 1) : r[j] = IF j < i THEN s[j] ELSE s[j + 1]
  BY <1>1, RemoveAtFacts, Zenon DEF r
<1>3. DOMAIN r = 1..(n - 1)
  BY <1>2
<1> HIDE DEF n
<1>4. ASSUME NEW j \in DOMAIN r
      PROVE  \E k \in DOMAIN s : k # i /\ r[j] = s[k] /\ k = IF j < i THEN j ELSE j + 1
  <2>1. j \in 1..(n - 1) /\ j \in Nat /\ i \in Nat /\ n \in Nat
    BY <1>1, <1>3
  <2>2. CASE j < i
    <3>1. r[j] = s[j] /\ j \in DOMAIN s /\ j # i
      BY <1>1, <1>2, <2>1, <2>2
    <3> QED BY <2>2, <3>1, Zenon
  <2>3. CASE ~(j < i)
    <3>1. j + 1 \in DOMAIN s /\ j + 1 # i
      BY <1>1, <2>1, <2>3
    <3>2. r[j] = s[j + 1]
      BY <1>2, <2>1, <2>3, Zenon
    <3> QED BY <2>3, <3>1, <3>2, Zenon
  <2> QED BY <2>2, <2>3, Zenon
<1>5. ASSUME NEW k \in DOMAIN s, k # i PROVE \E j \in DOMAIN r : r[j] = s[k]
  <2>0. k \in 1..n /\ n \in Nat /\ i \in 1..n
    BY <1>1, Zenon
  <2>1. CASE k < i
    <3>1. k \in 1..(n - 1)
      BY <2>0, <2>1
    <3>2. r[k] = s[k]
      BY <1>2, <2>1, <3>1, Zenon
    <3> QED BY <1>3, <3>1, <3>2, Zenon
  <2>2. CASE k > i
    <3>1. k - 1 \in 1..(n - 1) /\ ~(k - 1 < i) /\ (k - 1) + 1 = k
      BY <2>0, <2>2
    <3>2. r[k - 1] = s[k]
      BY <1>2, <3>1, Zenon
    <3> QED BY <1>3, <3>1, <3>2, Zenon
  <2>3. k < i \/ k > i
    BY <1>5, <2>0
  <2> QED BY <2>1, <2>2, <2>3, Zenon
<1>6. IsInjective(r)
  <2> SUFFICES ASSUME NEW j \in DOMAIN r, NEW l \in DOMAIN r, r[j] = r[l] PROVE j = l
    BY Zenon DEF IsInjective
  <2>1. PICK k \in DOMAIN s : k # i /\ r[j] = s[k] /\ k = IF j < i THEN j ELSE j + 1
    BY <1>4, Zenon
  <2>2. PICK m \in DOMAIN s : m # i /\ r[l] = s[m] /\ m = IF l < i THEN l ELSE l + 1
    BY <1>4, Zenon
  <2>3. k = m
    BY <2>1, <2>2, Zenon DEF IsInjective
  <2>4. j \in Nat /\ l \in Nat /\ i \in Nat
    BY <1>1, <1>3
  <2>5. (IF j < i THEN j ELSE j + 1) = (IF l < i THEN l ELSE l + 1)
    BY <2>1, <2>2, <2>3, Zenon
  <2>6. (IF j < i THEN j ELSE j + 1) # i /\ (IF l < i THEN l ELSE l + 1) # i
    BY <2>1, <2>2, Zenon
  <2> QED BY <2>4, <2>5, <2>6
<1>7. Range(r) \subseteq Range(s) \ {s[i]}
  <2>1. ASSUME NEW j \in DOMAIN r PROVE r[j] \in Range(s) /\ r[j] # s[i]
    <3>1. PICK k \in DOMAIN s : k # i /\ r[j] = s[k]
      BY <1>4, Zenon
    <3> QED BY <3>1, Zenon DEF Range, IsInjective
  <2> QED BY <2>1, Zenon DEF Range
<1>8. Range(s) \ {s[i]} \subseteq Range(r)
  BY <1>5, Zenon DEF Range
<1>9. Range(r) = Range(s) \ {s[i]}
  BY <1>7, <1>8, Zenon
<1> QED BY <1>2, <1>6, <1>9, Zenon DEF r, n

(* So does its rest.                                                       *)
LEMMA RestOnce ==
    ASSUME NEW S, NEW s \in Seq(S), IsInjective(s), NEW k \in 0..Len(s)
    PROVE  /\ SubSeq(s, k + 1, Len(s)) \in Seq(S) /\ Len(SubSeq(s, k + 1, Len(s))) = Len(s) - k
           /\ IsInjective(SubSeq(s, k + 1, Len(s)))
           /\ Range(SubSeq(s, k + 1, Len(s))) \subseteq Range(s)
<1> DEFINE n == Len(s)
           r == SubSeq(s, k + 1, n)
<1>1. DOMAIN s = 1..n /\ n \in Nat /\ k \in 0..n
  OBVIOUS
<1> HIDE DEF r
<1>2. r \in Seq(S) /\ Len(r) = n - k /\ \A j \in 1..(n - k) : r[j] = s[j + k]
  BY RestFacts, Zenon DEF r
<1>3. DOMAIN r = 1..(n - k)
  BY <1>2
<1> HIDE DEF n
<1>4. ASSUME NEW j \in DOMAIN r PROVE r[j] = s[j + k] /\ j + k \in DOMAIN s /\ j \in Nat /\ k \in Nat
  <2>1. j \in 1..(n - k)
    BY <1>3, Zenon
  <2>2. r[j] = s[j + k]
    BY <1>2, <2>1, Zenon
  <2>3. j + k \in 1..n /\ j \in Nat /\ k \in Nat
    BY <1>1, <2>1
  <2> QED BY <1>1, <2>2, <2>3, Zenon
<1>5. IsInjective(r)
  <2> SUFFICES ASSUME NEW j \in DOMAIN r, NEW l \in DOMAIN r, r[j] = r[l] PROVE j = l
    BY Zenon DEF IsInjective
  <2>1. j + k = l + k
    BY <1>4, Zenon DEF IsInjective
  <2>2. j \in Nat /\ l \in Nat /\ k \in Nat
    BY <1>4, Zenon
  <2> QED BY <2>1, <2>2
<1>6. Range(r) \subseteq Range(s)
  BY <1>4, Zenon DEF Range
<1> QED BY <1>2, <1>5, <1>6, Zenon DEF r, n

-----------------------------------------------------------------------------
(* The connection pool.                                                    *)

ClientPC == {"idle", "dialing", "dialed", "ready", "streaming", "failed"}

(* A pool: within its bound, and one entry for an address and for a        *)
(* connection.                                                             *)
IsPool(p) ==
    /\ p \in Seq([addr: Addr, conn: Conn])
    /\ Len(p) <= MaxConns
    /\ \A i, j \in DOMAIN p : p[i].addr = p[j].addr \/ p[i].conn = p[j].conn => i = j

AddrsIn(p) == {p[i].addr : i \in DOMAIN p}

(* p has some of the entries of q, each once.                              *)
PartOf(p, q) ==
    /\ p \in Seq([addr: Addr, conn: Conn])
    /\ Len(p) <= Len(q)
    /\ IsInjective(p)
    /\ Range(p) \subseteq Range(q)

ThreadState == [pc: ClientPC, addr: Addr \cup {Nobody}, conn: Conn \cup {Nobody}]

(* Where a goroutine stands, and which connection it has.                  *)
Threads ==
    /\ thread \in [Thread -> ThreadState]
    /\ \A t \in Thread : /\ thread[t].pc # "idle" => thread[t].addr \in Addr
                         /\ thread[t].pc = "dialing" => thread[t].conn = Nobody
                         /\ thread[t].pc = "dialed" => thread[t].conn \in Conn

DialedBy(th) == {th[t].conn : t \in {u \in Thread : th[u].pc = "dialed"}}

(* A connection that was dialed and is not stored yet belongs to one       *)
(* goroutine and is not in the pool.                                       *)
Owned ==
    \A t \in Thread : thread[t].pc = "dialed" =>
        /\ thread[t].conn \notin ConnsIn(pool)
        /\ \A u \in Thread : thread[u].pc = "dialed" /\ thread[u].conn = thread[t].conn => u = t

PoolInv == IsPool(pool) /\ Threads /\ Owned /\ open = ConnsIn(pool) \cup DialedBy(thread)

-----------------------------------------------------------------------------
(* A part of a pool is a pool.                                             *)
LEMMA PartIsPool ==
    ASSUME NEW q, IsPool(q), NEW p, PartOf(p, q)
    PROVE  /\ IsPool(p) /\ ConnsIn(p) \subseteq ConnsIn(q) /\ AddrsIn(p) \subseteq AddrsIn(q)
<1>1. /\ \A i, j \in DOMAIN p : p[i] = p[j] => i = j
      /\ \A i \in DOMAIN p : \E k \in DOMAIN q : p[i] = q[k]
  BY Zenon DEF PartOf, Range, IsInjective
<1>2. p \in Seq([addr: Addr, conn: Conn]) /\ Len(p) <= MaxConns
  <2>1. Len(p) \in Nat /\ Len(q) \in Nat /\ Len(p) <= Len(q) /\ Len(q) <= MaxConns
    BY DEF PartOf, IsPool
  <2> QED BY <2>1, TransportAssumption DEF PartOf
<1>3. \A i, j \in DOMAIN p : p[i].addr = p[j].addr \/ p[i].conn = p[j].conn => i = j
  BY <1>1 DEF IsPool
<1>4. ConnsIn(p) \subseteq ConnsIn(q) /\ AddrsIn(p) \subseteq AddrsIn(q)
  BY <1>1 DEF ConnsIn, AddrsIn
<1> QED BY <1>2, <1>3, <1>4, Zenon DEF IsPool

(* A new entry, if there is room for it.                                   *)
LEMMA AddedIsPool ==
    ASSUME NEW p, IsPool(p), Len(p) < MaxConns, NEW a \in Addr, NEW c \in Conn,
           a \notin AddrsIn(p), c \notin ConnsIn(p)
    PROVE  /\ IsPool(p \o <<Entry(a, c)>>)
           /\ ConnsIn(p \o <<Entry(a, c)>>) = ConnsIn(p) \cup {c}
<1> DEFINE e == Entry(a, c)
           E == [addr: Addr, conn: Conn]
           q == p \o <<e>>
<1>1. e \in E /\ e.addr = a /\ e.conn = c
  BY Zenon DEF Entry
<1> HIDE DEF e
<1>2. p \in Seq(E) /\ Len(p) \in Nat /\ DOMAIN p = 1..Len(p)
  BY DEF IsPool
<1>3. q \in Seq(E) /\ Len(q) = Len(p) + 1
  BY <1>1, <1>2
<1>4. \A i \in 1..Len(p) : q[i] = p[i]
  BY <1>1, <1>2
<1>5. q[Len(p) + 1] = e
  BY <1>1, <1>2
<1> HIDE DEF q
<1>6. DOMAIN q = 1..(Len(p) + 1)
  BY <1>3
<1>7. \A i \in DOMAIN q : i \in DOMAIN p \/ i = Len(p) + 1
  BY <1>2, <1>6
<1>8. ASSUME NEW i \in DOMAIN p PROVE q[i] = p[i] /\ p[i].addr # a /\ p[i].conn # c /\ i \in DOMAIN q
  BY <1>2, <1>4, <1>6 DEF AddrsIn, ConnsIn
<1>9. Len(p) + 1 \in DOMAIN q
  BY <1>2, <1>6
<1> DEFINE n == Len(p) + 1
<1> HIDE DEF n
<1>10. \A i, j \in DOMAIN q : q[i].addr = q[j].addr \/ q[i].conn = q[j].conn => i = j
  <2> SUFFICES ASSUME NEW i \in DOMAIN q, NEW j \in DOMAIN q,
                      q[i].addr = q[j].addr \/ q[i].conn = q[j].conn
               PROVE  i = j
    BY Zenon
  <2>1. CASE i \in DOMAIN p /\ j \in DOMAIN p
    BY <1>8, <2>1, Zenon DEF IsPool
  <2>2. CASE i = n /\ j = n
    BY <2>2, Zenon
  <2>3. CASE i \in DOMAIN p /\ j = n
    BY <1>1, <1>5, <1>8, <2>3, Zenon DEF n
  <2>4. CASE i = n /\ j \in DOMAIN p
    BY <1>1, <1>5, <1>8, <2>4, Zenon DEF n
  <2> QED BY <1>7, <2>1, <2>2, <2>3, <2>4, Zenon DEF n
<1>11. ConnsIn(q) = ConnsIn(p) \cup {c}
  <2>1. ConnsIn(q) \subseteq ConnsIn(p) \cup {c}
    BY <1>1, <1>5, <1>7, <1>8, Zenon DEF ConnsIn
  <2>2. ConnsIn(p) \subseteq ConnsIn(q)
    BY <1>8, Zenon DEF ConnsIn
  <2>3. c \in ConnsIn(q)
    BY <1>1, <1>5, <1>9, Zenon DEF ConnsIn
  <2> QED BY <2>1, <2>2, <2>3, Zenon
<1>12. Len(q) <= MaxConns
  BY <1>2, <1>3, TransportAssumption
<1>13. IsPool(q)
  BY <1>3, <1>10, <1>12, Zenon DEF IsPool
<1> QED BY <1>11, <1>13, Zenon DEF q, e

(* The parts of the pool that the operations keep.                         *)
LEMMA WholeIsPart ==
    ASSUME IsPool(pool)
    PROVE  PartOf(pool, pool) /\ IsInjective(pool)
<1>1. pool \in Seq([addr: Addr, conn: Conn]) /\ Len(pool) \in Nat
  BY DEF IsPool
<1>2. IsInjective(pool) /\ Range(pool) \subseteq Range(pool) /\ Len(pool) <= Len(pool)
  BY <1>1 DEF IsPool, IsInjective
<1> QED BY <1>1, <1>2, Zenon DEF PartOf

(* ... without the entry of an address ...                                 *)
LEMMA WithoutPart ==
    ASSUME IsPool(pool), NEW a
    PROVE  /\ PartOf(Without(a), pool) /\ a \notin AddrsIn(Without(a))
           /\ a \in Pooled => /\ Len(Without(a)) < MaxConns /\ ConnOf(a) \in Conn /\ a \in Addr
                              /\ ConnOf(a) \notin ConnsIn(Without(a))
                              /\ ConnsIn(pool) = ConnsIn(Without(a)) \cup {ConnOf(a)}
<1>0. pool \in Seq([addr: Addr, conn: Conn]) /\ DOMAIN pool = 1..Len(pool) /\ Len(pool) \in Nat
  BY DEF IsPool
<1>1. IsInjective(pool) /\ PartOf(pool, pool)
  BY WholeIsPart, Zenon
<1>2. CASE a \notin Pooled
  <2>1. Without(a) = pool
    BY <1>2, Zenon DEF Without
  <2> QED BY <1>1, <1>2, <2>1, Zenon DEF Pooled, AddrsIn
<1>3. CASE a \in Pooled
  <2> DEFINE i == Place(a)
             r == Without(a)
             E == [addr: Addr, conn: Conn]
  <2>1. i \in DOMAIN pool /\ pool[i].addr = a
    BY <1>3, Zenon DEF Place, Pooled
  <2>2. r = RemoveAt(pool, i)
    BY <1>3, Zenon DEF Without
  <2>3. ConnOf(a) = pool[i].conn
    BY Zenon DEF ConnOf
  <2> HIDE DEF i, r
  <2>4. r \in Seq(E) /\ Len(r) = Len(pool) - 1 /\ IsInjective(r) /\ Range(r) = Range(pool) \ {pool[i]}
    <3> HIDE DEF E
    <3>1. pool \in Seq(E)
      BY <1>0, Zenon DEF E
    <3> QED BY <1>1, <2>1, <2>2, <3>1, RemovedOnce, Zenon
  <2>5. Len(r) <= Len(pool) /\ Len(r) < MaxConns
    BY <1>0, <2>4, TransportAssumption DEF IsPool
  <2>6. PartOf(r, pool)
    BY <2>4, <2>5, Zenon DEF PartOf
  <2>7. pool[i] \in E
    BY <1>0, <2>1, MemberOf, Zenon
  <2>8. ConnOf(a) \in Conn /\ a \in Addr
    BY <2>1, <2>3, <2>7, Zenon
  <2>9. ASSUME NEW j \in DOMAIN r
        PROVE  r[j].addr # a /\ r[j].conn # ConnOf(a) /\ r[j].conn \in ConnsIn(pool)
    <3>1. r[j] \in Range(pool) \ {pool[i]}
      BY <2>4, Zenon DEF Range
    <3>2. PICK k \in DOMAIN pool : r[j] = pool[k] /\ k # i
      BY <3>1, Zenon DEF Range
    <3> QED BY <2>1, <2>3, <3>2, Zenon DEF IsPool, ConnsIn
  <2>10. ASSUME NEW k \in DOMAIN pool PROVE pool[k].conn \in ConnsIn(r) \cup {ConnOf(a)}
    <3>1. CASE k = i
      BY <2>3, <3>1, Zenon
    <3>2. CASE k # i
      <4>1. pool[k] \in Range(r)
        BY <1>1, <2>1, <2>4, <3>2, Zenon DEF Range, IsInjective
      <4> QED BY <4>1, Zenon DEF Range, ConnsIn
    <3> QED BY <3>1, <3>2, Zenon
  <2>11. ConnOf(a) \in ConnsIn(pool)
    BY <2>1, <2>3, Zenon DEF ConnsIn
  <2>12. ConnsIn(pool) = ConnsIn(r) \cup {ConnOf(a)}
    BY <2>9, <2>10, <2>11, Zenon DEF ConnsIn
  <2>13. a \notin AddrsIn(r) /\ ConnOf(a) \notin ConnsIn(r)
    BY <2>9, Zenon DEF AddrsIn, ConnsIn
  <2> QED BY <1>3, <2>5, <2>6, <2>8, <2>12, <2>13, Zenon DEF r
<1> QED BY <1>2, <1>3, Zenon

(* The newest entries.                                                     *)
LEMMA NewestPart ==
    ASSUME IsPool(pool), NEW k \in 0..Len(pool)
    PROVE  /\ PartOf(SubSeq(pool, k + 1, Len(pool)), pool)
           /\ Len(SubSeq(pool, k + 1, Len(pool))) = Len(pool) - k
<1> DEFINE E == [addr: Addr, conn: Conn]
           r == SubSeq(pool, k + 1, Len(pool))
<1>1. pool \in Seq(E) /\ IsInjective(pool) /\ Len(pool) \in Nat
  BY DEF IsPool, IsInjective
<1>2. r \in Seq(E) /\ Len(r) = Len(pool) - k /\ IsInjective(r) /\ Range(r) \subseteq Range(pool)
  <2> HIDE DEF E
  <2> QED BY <1>1, RestOnce, Zenon
<1> HIDE DEF r
<1>3. Len(r) <= Len(pool)
  BY <1>1, <1>2
<1> QED BY <1>2, <1>3, Zenon DEF PartOf, r

(* The other entries are closed: what is open is in the pool or belongs to *)
(* a goroutine that has dialed it.                                         *)
LEMMA KeepPart ==
    ASSUME PoolInv, NEW p, PartOf(p, pool), Keep(p, <<>>)
    PROVE  /\ IsPool(pool') /\ ConnsIn(pool') \subseteq ConnsIn(pool)
           /\ open' = ConnsIn(pool') \cup DialedBy(thread)
<1>1. pool' = p
  <2>1. p \in Seq([addr: Addr, conn: Conn]) /\ pool' = p \o <<>>
    BY Zenon DEF PartOf, Keep
  <2> QED BY <2>1
<1>2. IsPool(p) /\ ConnsIn(p) \subseteq ConnsIn(pool)
  BY PartIsPool, Zenon DEF PoolInv
<1>3. ConnsIn(pool) \cap DialedBy(thread) = {}
  BY Zenon DEF PoolInv, Owned, DialedBy
<1>4. open' = open \ (ConnsIn(pool) \ ConnsIn(pool'))
  BY Zenon DEF Keep
<1>5. ConnsIn(pool') = ConnsIn(p)
  BY <1>1, Zenon
<1>6. open = ConnsIn(pool) \cup DialedBy(thread)
  BY Zenon DEF PoolInv
<1> HIDE DEF PoolInv
<1>7. open' = ConnsIn(p) \cup DialedBy(thread)
  BY <1>2, <1>3, <1>4, <1>5, <1>6, Zenon
<1> QED BY <1>1, <1>2, <1>5, <1>7, Zenon

(* The goroutines that have dialed stay those they were.                   *)
LEMMA OwnedSame ==
    ASSUME PoolInv, Threads', ConnsIn(pool') \subseteq ConnsIn(pool), IsPool(pool'),
           \A u \in Thread : thread'[u].pc = "dialed" => thread'[u] = thread[u],
           \A u \in Thread : thread[u].pc = "dialed" => thread'[u] = thread[u],
           open' = ConnsIn(pool') \cup DialedBy(thread)
    PROVE  PoolInv'
<1>1. DialedBy(thread') = DialedBy(thread)
  BY Zenon DEF DialedBy
<1>2. Owned'
  BY Zenon DEF PoolInv, Owned
<1> QED BY <1>1, <1>2, Zenon DEF PoolInv

(* What a goroutine becomes.                                               *)
LEMMA ThreadsStep ==
    ASSUME Threads, NEW t \in Thread, NEW r \in ThreadState,
           thread' = [thread EXCEPT ![t] = r],
           r.pc # "idle" => r.addr \in Addr, r.pc = "dialing" => r.conn = Nobody,
           r.pc = "dialed" => r.conn \in Conn
    PROVE  /\ Threads' /\ thread'[t] = r /\ \A u \in Thread \ {t} : thread'[u] = thread[u]
BY Zenon DEF Threads

-----------------------------------------------------------------------------
(* The steps of the pool.                                                  *)

(* GetClient finds a connection, which becomes the newest.                 *)
LEMMA HitInv ==
    ASSUME PoolInv, NEW t \in Thread, NEW a \in Addr, Hit(t, a)
    PROVE  PoolInv'
<1> DEFINE p == Without(a)
           c == ConnOf(a)
           r == [pc |-> "ready", addr |-> a, conn |-> c]
<1>1. /\ PartOf(p, pool) /\ a \notin AddrsIn(p) /\ Len(p) < MaxConns /\ c \in Conn
      /\ c \notin ConnsIn(p) /\ ConnsIn(pool) = ConnsIn(p) \cup {c}
  BY WithoutPart, Zenon DEF Hit, PoolInv
<1>2. /\ pool' = p \o <<Entry(a, c)>> /\ open' = open \ (ConnsIn(pool) \ ConnsIn(pool'))
      /\ thread' = [thread EXCEPT ![t] = r] /\ thread[t] = Resting
  BY Zenon DEF Hit, Keep, Calls
<1> HIDE DEF p, c
<1>3. IsPool(p)
  BY <1>1, PartIsPool, Zenon DEF PoolInv
<1>4. IsPool(pool') /\ ConnsIn(pool') = ConnsIn(pool)
  <2>1. /\ IsPool(p \o <<Entry(a, c)>>)
        /\ ConnsIn(p \o <<Entry(a, c)>>) = ConnsIn(p) \cup {c}
    BY <1>1, <1>3, AddedIsPool, Zenon
  <2> QED BY <1>1, <1>2, <2>1, Zenon
<1>5. open' = ConnsIn(pool') \cup DialedBy(thread)
  BY <1>2, <1>4, Zenon DEF PoolInv
<1>6. Threads' /\ thread'[t] = r /\ \A u \in Thread \ {t} : thread'[u] = thread[u]
  <2>1. r \in ThreadState /\ r.pc = "ready" /\ r.addr \in Addr
    BY <1>1, Zenon DEF ThreadState, ClientPC
  <2> HIDE DEF r
  <2> QED BY <1>2, <2>1, ThreadsStep, Zenon DEF PoolInv
<1>7. thread[t].pc # "dialed" /\ thread'[t].pc # "dialed"
  BY <1>2, <1>6 DEF Resting
<1> HIDE DEF r
<1> QED BY <1>4, <1>5, <1>6, <1>7, OwnedSame, Zenon

(* evictOldestLocked leaves room.                                          *)
LEMMA RoomMade ==
    ASSUME IsPool(pool)
    PROVE  /\ PartOf(MakeRoom(pool), pool) /\ Len(MakeRoom(pool)) < MaxConns
<1> DEFINE E == [addr: Addr, conn: Conn]
<1>1. pool \in Seq(E) /\ Len(pool) \in Nat /\ Len(pool) <= MaxConns
  BY DEF IsPool
<1>2. CASE Len(pool) >= MaxConns
  <2>1. 1 \in 0..Len(pool) /\ Tail(pool) = SubSeq(pool, 1 + 1, Len(pool)) /\ Len(pool) - 1 < MaxConns
    BY <1>1, <1>2, TransportAssumption
  <2>2. MakeRoom(pool) = Tail(pool)
    BY <1>2, Zenon DEF MakeRoom
  <2>3. PartOf(Tail(pool), pool) /\ Len(Tail(pool)) = Len(pool) - 1
    BY <2>1, NewestPart, Zenon
  <2> QED BY <2>1, <2>2, <2>3, Zenon
<1>3. CASE ~(Len(pool) >= MaxConns)
  <2>1. MakeRoom(pool) = pool
    BY <1>3, Zenon DEF MakeRoom
  <2>2. Len(pool) < MaxConns
    BY <1>1, <1>3, TransportAssumption
  <2>3. PartOf(pool, pool)
    BY <1>1, WholeIsPart, Zenon
  <2> QED BY <2>1, <2>2, <2>3, Zenon
<1> QED BY <1>2, <1>3, Zenon

(* GetClient finds none: it makes room and dials outside of the lock.      *)
LEMMA MissInv ==
    ASSUME PoolInv, NEW t \in Thread, NEW a \in Addr, Miss(t, a)
    PROVE  PoolInv'
<1> DEFINE r == [Resting EXCEPT !.pc = "dialing", !.addr = a]
<1>1. /\ Keep(MakeRoom(pool), <<>>) /\ thread' = [thread EXCEPT ![t] = r] /\ thread[t] = Resting
  BY Zenon DEF Miss, Calls
<1>2. /\ IsPool(pool') /\ ConnsIn(pool') \subseteq ConnsIn(pool)
      /\ open' = ConnsIn(pool') \cup DialedBy(thread)
  BY <1>1, RoomMade, KeepPart, Zenon DEF PoolInv
<1>3. Threads' /\ thread'[t] = r /\ \A u \in Thread \ {t} : thread'[u] = thread[u]
  <2>1. r \in ThreadState /\ r.pc = "dialing" /\ r.addr \in Addr /\ r.conn = Nobody
    BY Zenon DEF ThreadState, ClientPC, Resting
  <2> HIDE DEF r
  <2> QED BY <1>1, <2>1, ThreadsStep, Zenon DEF PoolInv
<1>4. thread[t].pc # "dialed" /\ thread'[t].pc # "dialed"
  BY <1>1, <1>3 DEF Resting
<1> HIDE DEF r
<1> QED BY <1>2, <1>3, <1>4, OwnedSame, Zenon

(* A goroutine that has not dialed, and does not now, goes on.             *)
LEMMA ThreadMoves ==
    ASSUME PoolInv, NEW t \in Thread, NEW r \in ThreadState, thread' = [thread EXCEPT ![t] = r],
           thread[t].pc # "dialed", r.pc \notin {"dialed", "dialing"},
           r.pc # "idle" => r.addr \in Addr,
           pool' = pool, open' = open
    PROVE  PoolInv'
<1>1. Threads' /\ thread'[t] = r /\ \A u \in Thread \ {t} : thread'[u] = thread[u]
  BY ThreadsStep, Zenon DEF PoolInv
<1>2. IsPool(pool') /\ ConnsIn(pool') = ConnsIn(pool) /\ open' = ConnsIn(pool') \cup DialedBy(thread)
  BY Zenon DEF PoolInv, ConnsIn
<1> QED BY <1>1, <1>2, OwnedSame, Zenon

(* The dial fails.                                                         *)
LEMMA DialFailsInv ==
    ASSUME PoolInv, NEW t \in Thread, DialFails(t)
    PROVE  PoolInv'
<1> DEFINE r == [thread[t] EXCEPT !.pc = "failed"]
<1>1. thread' = [thread EXCEPT ![t] = r] /\ thread[t].pc = "dialing" /\ pool' = pool /\ open' = open
  BY Zenon DEF DialFails
<1>2. r \in ThreadState /\ r.pc = "failed" /\ r.addr \in Addr
  BY <1>1, Zenon DEF PoolInv, Threads, ThreadState, ClientPC
<1> HIDE DEF r
<1> QED BY <1>1, <1>2, ThreadMoves, Zenon

(* The call goes out on the connection.                                    *)
LEMMA RequestInv ==
    ASSUME PoolInv, NEW t \in Thread, Request(t)
    PROVE  PoolInv'
<1> DEFINE r == [thread[t] EXCEPT !.pc = "streaming"]
<1>1. thread' = [thread EXCEPT ![t] = r] /\ thread[t].pc = "ready" /\ pool' = pool /\ open' = open
  BY Zenon DEF Request
<1>2. r \in ThreadState /\ r.pc = "streaming" /\ r.addr \in Addr
  BY <1>1, Zenon DEF PoolInv, Threads, ThreadState, ClientPC
<1> HIDE DEF r
<1> QED BY <1>1, <1>2, ThreadMoves, Zenon

(* DownloadChunkTo fails.                                                  *)
LEMMA FailInv ==
    ASSUME PoolInv, NEW t \in Thread, Fail(t)
    PROVE  PoolInv'
<1> DEFINE r == [thread[t] EXCEPT !.pc = "failed", !.conn = Nobody]
<1>1. /\ thread' = [thread EXCEPT ![t] = r] /\ thread[t].pc \in {"ready", "streaming"}
      /\ pool' = pool /\ open' = open
  BY Zenon DEF Fail
<1>2. r \in ThreadState /\ r.pc = "failed" /\ r.addr \in Addr
  BY <1>1, ZenonT(30) DEF PoolInv, Threads, ThreadState, ClientPC
<1> HIDE DEF r
<1> QED BY <1>1, <1>2, ThreadMoves, Zenon

(* What the servers do leaves the client alone.                            *)
LEMMA ClientSame ==
    ASSUME PoolInv, UNCHANGED client
    PROVE  PoolInv'
<1>1. pool' = pool /\ open' = open /\ thread' = thread
  BY Zenon DEF client
<1>2. Threads' /\ IsPool(pool') /\ ConnsIn(pool') = ConnsIn(pool)
  BY <1>1, Zenon DEF PoolInv, Threads
<1>3. open' = ConnsIn(pool') \cup DialedBy(thread)
  BY <1>1, Zenon DEF PoolInv
<1> QED BY <1>1, <1>2, <1>3, OwnedSame, Zenon

(* The stream ends, and with it the download if it still listens.          *)
LEMMA EndStreamInv ==
    ASSUME PoolInv, NEW t \in Thread, EndStream(t)
    PROVE  PoolInv'
<1>1. CASE UNCHANGED thread
  BY <1>1, ClientSame, Zenon DEF EndStream, client
<1>2. CASE Live(t) /\ thread' = [thread EXCEPT ![t] = Resting]
  <2>1. Resting \in ThreadState /\ Resting.pc = "idle" /\ thread[t].pc = "streaming"
    BY <1>2, Zenon DEF Resting, ThreadState, ClientPC, Live
  <2>2. pool' = pool /\ open' = open
    BY Zenon DEF EndStream
  <2> QED BY <1>2, <2>1, <2>2, ThreadMoves, Zenon
<1> QED BY <1>1, <1>2, Zenon DEF EndStream

(* fetchChunk after a failure, which may drop the connection.              *)
LEMMA AfterFailureInv ==
    ASSUME PoolInv, NEW t \in Thread, AfterFailure(t)
    PROVE  PoolInv'
<1>1. Resting \in ThreadState /\ Resting.pc = "idle" /\ thread[t].pc = "failed"
  BY Zenon DEF Resting, ThreadState, ClientPC, AfterFailure
<1>2. thread' = [thread EXCEPT ![t] = Resting]
  BY Zenon DEF AfterFailure
<1>3. CASE UNCHANGED <<pool, open>>
  BY <1>1, <1>2, <1>3, ThreadMoves, Zenon
<1>4. CASE Keep(Without(thread[t].addr), <<>>)
  <2>1. PartOf(Without(thread[t].addr), pool)
    BY WithoutPart, Zenon DEF PoolInv
  <2>2. /\ IsPool(pool') /\ ConnsIn(pool') \subseteq ConnsIn(pool)
        /\ open' = ConnsIn(pool') \cup DialedBy(thread)
    BY <1>4, <2>1, KeepPart, Zenon
  <2>3. Threads' /\ thread'[t] = Resting /\ \A u \in Thread \ {t} : thread'[u] = thread[u]
    BY <1>1, <1>2, ThreadsStep, Zenon DEF PoolInv
  <2> QED BY <1>1, <2>2, <2>3, OwnedSame, Zenon
<1> QED BY <1>3, <1>4, Zenon DEF AfterFailure

-----------------------------------------------------------------------------
(* A connection that is new to the pool.                                   *)

(* The image of a finite set is not larger.                                *)
LEMMA ImageSmall ==
    ASSUME NEW D, IsFiniteSet(D), NEW R, NEW f \in [D -> R], \A y \in R : \E x \in D : f[x] = y
    PROVE  IsFiniteSet(R) /\ Cardinality(R) \in Nat /\ Cardinality(R) <= Cardinality(D)
<1>1. f \in Surjection(D, R)
  BY Zenon DEF Surjection
<1> QED BY <1>1, FS_Surjection, FS_CardinalityType, Zenon

(* The places of a sequence.                                               *)
LEMMA IntervalCounted ==
    ASSUME NEW n \in Nat
    PROVE  IsFiniteSet(1..n) /\ Cardinality(1..n) = n
<1>1. IsFiniteSet(1..n) /\ Cardinality(1..n) = IF 1 > n THEN 0 ELSE n - 1 + 1
  BY FS_Interval
<1> QED BY <1>1

(* The pool has few connections.                                           *)
LEMMA PoolSmall ==
    ASSUME IsPool(pool)
    PROVE  /\ IsFiniteSet(ConnsIn(pool)) /\ Cardinality(ConnsIn(pool)) \in Nat
           /\ Cardinality(ConnsIn(pool)) <= MaxConns
<1>1. DOMAIN pool = 1..Len(pool) /\ Len(pool) \in Nat /\ Len(pool) <= MaxConns
  BY DEF IsPool
<1>2. IsFiniteSet(1..Len(pool)) /\ Cardinality(1..Len(pool)) = Len(pool)
  BY <1>1, IntervalCounted, Zenon
<1> DEFINE f == [i \in 1..Len(pool) |-> pool[i].conn]
<1>3. /\ f \in [1..Len(pool) -> ConnsIn(pool)]
      /\ \A y \in ConnsIn(pool) : \E i \in 1..Len(pool) : f[i] = y
  BY <1>1, Zenon DEF ConnsIn
<1> HIDE DEF f
<1>4. /\ IsFiniteSet(ConnsIn(pool)) /\ Cardinality(ConnsIn(pool)) \in Nat
      /\ Cardinality(ConnsIn(pool)) <= Len(pool)
  BY <1>2, <1>3, ImageSmall, Zenon
<1> QED BY <1>1, <1>4, TransportAssumption

(* The other goroutines have few connections.                              *)
LEMMA OthersSmall ==
    ASSUME NEW t \in Thread
    PROVE  /\ IsFiniteSet({thread[u].conn : u \in Thread \ {t}})
           /\ Cardinality({thread[u].conn : u \in Thread \ {t}}) \in Nat
           /\ Cardinality({thread[u].conn : u \in Thread \ {t}}) < Cardinality(Thread)
<1> DEFINE D == Thread \ {t}
           R == {thread[u].conn : u \in D}
           f == [u \in D |-> thread[u].conn]
<1>1. IsFiniteSet(D) /\ Cardinality(D) = Cardinality(Thread) - 1 /\ Cardinality(Thread) \in Nat
  BY TransportAssumption, FS_RemoveElement, FS_CardinalityType, Zenon
<1>2. f \in [D -> R] /\ \A y \in R : \E u \in D : f[u] = y
  BY Zenon
<1> HIDE DEF f, D, R
<1>3. IsFiniteSet(R) /\ Cardinality(R) \in Nat /\ Cardinality(R) <= Cardinality(D)
  BY <1>1, <1>2, ImageSmall, Zenon
<1>4. Cardinality(R) < Cardinality(Thread)
  BY <1>1, <1>3
<1> QED BY <1>3, <1>4, Zenon DEF R, D

(* So there is a connection for a goroutine that dials.                    *)
LEMMA UnusedExists ==
    ASSUME PoolInv, NEW t \in Thread, thread[t].pc = "dialing"
    PROVE  Unused # {}
<1> DEFINE P == ConnsIn(pool)
           R == {thread[u].conn : u \in Thread \ {t}}
<1> SUFFICES ASSUME Unused = {} PROVE FALSE
  BY Zenon
<1>1. Conn \subseteq P \cup R
  <2>1. thread[t].conn \notin Conn
    BY TransportAssumption, Zenon DEF PoolInv, Threads
  <2>2. open \subseteq P \cup R
    BY Zenon DEF PoolInv, DialedBy
  <2>3. {thread[u].conn : u \in Thread} \subseteq R \cup {thread[t].conn}
    BY Zenon
  <2> QED BY <2>1, <2>2, <2>3, Zenon DEF Unused
<1>2. IsFiniteSet(P) /\ Cardinality(P) \in Nat /\ Cardinality(P) <= MaxConns
  BY PoolSmall, Zenon DEF PoolInv
<1>3. IsFiniteSet(R) /\ Cardinality(R) \in Nat /\ Cardinality(R) < Cardinality(Thread)
  BY OthersSmall, Zenon
<1> HIDE DEF P, R
<1>4. /\ IsFiniteSet(P \cup R) /\ Cardinality(P \cup R) \in Nat
      /\ Cardinality(P \cup R) <= Cardinality(P) + Cardinality(R)
  <2>1. /\ IsFiniteSet(P \cup R)
        /\ Cardinality(P \cup R) = Cardinality(P) + Cardinality(R) - Cardinality(P \cap R)
    BY <1>2, <1>3, FS_Union, Zenon
  <2>2. Cardinality(P \cap R) \in Nat /\ Cardinality(P \cup R) \in Nat
    <3>1. P \cap R \in SUBSET P
      BY Zenon
    <3> QED BY <1>2, <2>1, <3>1, FS_Subset, FS_CardinalityType, Zenon
  <2> QED BY <1>2, <1>3, <2>1, <2>2
<1>5. IsFiniteSet(Conn) /\ Cardinality(Conn) <= Cardinality(P \cup R) /\ Cardinality(Conn) \in Nat
  <2>1. Conn \in SUBSET (P \cup R)
    BY <1>1, Zenon
  <2> QED BY <1>4, <2>1, FS_Subset, FS_CardinalityType, Zenon
<1>6. /\ Cardinality(Conn) >= MaxConns + Cardinality(Thread) /\ MaxConns \in Nat
      /\ Cardinality(Thread) \in Nat
  BY <1>5, TransportAssumption, FS_CardinalityType, Zenon
<1> QED BY <1>2, <1>3, <1>4, <1>5, <1>6

(* The dial succeeds: the connection is the goroutine's alone.             *)
LEMMA DialSucceedsInv ==
    ASSUME PoolInv, NEW t \in Thread, DialSucceeds(t)
    PROVE  PoolInv'
<1> DEFINE c == FreeConn
           r == [thread[t] EXCEPT !.pc = "dialed", !.conn = c]
<1>1. /\ thread' = [thread EXCEPT ![t] = r] /\ thread[t].pc = "dialing"
      /\ pool' = pool /\ open' = open \cup {c}
  BY Zenon DEF DialSucceeds
<1>2. c \in Unused
  BY <1>1, UnusedExists, Zenon DEF FreeConn
<1> HIDE DEF c
<1>3. c \in Conn /\ c \notin open /\ \A u \in Thread : thread[u].conn # c
  BY <1>2, Zenon DEF Unused
<1>4. r \in ThreadState /\ r.pc = "dialed" /\ r.addr \in Addr /\ r.conn = c
  BY <1>1, <1>3, Zenon DEF PoolInv, Threads, ThreadState, ClientPC
<1> HIDE DEF r
<1>5. Threads' /\ thread'[t] = r /\ \A u \in Thread \ {t} : thread'[u] = thread[u]
  BY <1>1, <1>3, <1>4, ThreadsStep, Zenon DEF PoolInv
<1>6. IsPool(pool') /\ ConnsIn(pool') = ConnsIn(pool) /\ open = ConnsIn(pool) \cup DialedBy(thread)
  BY <1>1, Zenon DEF PoolInv, ConnsIn
<1>7. DialedBy(thread') = DialedBy(thread) \cup {c}
  <2>1. DialedBy(thread') \subseteq DialedBy(thread) \cup {c}
    BY <1>4, <1>5, Zenon DEF DialedBy
  <2>2. DialedBy(thread) \subseteq DialedBy(thread')
    BY <1>1, <1>5, Zenon DEF DialedBy
  <2>3. c \in DialedBy(thread')
    BY <1>4, <1>5, Zenon DEF DialedBy
  <2> QED BY <2>1, <2>2, <2>3, Zenon
<1>8. Owned'
  BY <1>3, <1>4, <1>5, <1>6, ZenonT(30) DEF PoolInv, Owned
<1> QED BY <1>1, <1>5, <1>6, <1>7, <1>8, Zenon DEF PoolInv

(* The connection of a goroutine is stored or closed.                      *)
LEMMA StoredInv ==
    ASSUME PoolInv, NEW t \in Thread, thread[t].pc = "dialed", NEW c, c = thread[t].conn,
           NEW r \in ThreadState, r.pc = "ready", r.addr \in Addr,
           thread' = [thread EXCEPT ![t] = r], IsPool(pool'),
           ConnsIn(pool') \subseteq ConnsIn(pool) \cup {c},
           open' = ConnsIn(pool') \cup (DialedBy(thread) \ {c})
    PROVE  PoolInv'
<1>1. Threads' /\ thread'[t] = r /\ \A u \in Thread \ {t} : thread'[u] = thread[u]
  BY ThreadsStep, ZenonT(30) DEF PoolInv
<1>2. \A u \in Thread \ {t} : thread[u].pc = "dialed" => thread[u].conn # c
  BY Zenon DEF PoolInv, Owned
<1>3. DialedBy(thread') = DialedBy(thread) \ {c}
  <2>1. DialedBy(thread') \subseteq DialedBy(thread) \ {c}
    BY <1>1, <1>2 DEF DialedBy
  <2>2. DialedBy(thread) \ {c} \subseteq DialedBy(thread')
    BY <1>1 DEF DialedBy
  <2> QED BY <2>1, <2>2, Zenon
<1>4. Owned'
  BY <1>1, <1>2 DEF PoolInv, Owned
<1> QED BY <1>1, <1>3, <1>4, Zenon DEF PoolInv

(* GetClient, under its lock again, stores the connection or closes it.    *)
LEMMA StoreInv ==
    ASSUME PoolInv, NEW t \in Thread, Store(t)
    PROVE  PoolInv'
<1> DEFINE a == thread[t].addr
           c == thread[t].conn
<1>1. /\ thread[t].pc = "dialed" /\ a \in Addr /\ c \in Conn /\ c \notin ConnsIn(pool)
      /\ thread[t] \in ThreadState
  BY Zenon DEF Store, PoolInv, Threads, Owned
<1>2. open = ConnsIn(pool) \cup DialedBy(thread) /\ c \in DialedBy(thread)
  BY <1>1, Zenon DEF PoolInv, DialedBy
<1>3. CASE a \in Pooled
  <2> DEFINE p == Without(a)
             d == ConnOf(a)
             r == [thread[t] EXCEPT !.pc = "ready", !.conn = d]
  <2>1. /\ PartOf(p, pool) /\ a \notin AddrsIn(p) /\ Len(p) < MaxConns /\ d \in Conn
        /\ d \notin ConnsIn(p) /\ ConnsIn(pool) = ConnsIn(p) \cup {d}
    BY <1>3, WithoutPart, Zenon DEF PoolInv
  <2>2. /\ pool' = Append(p, Entry(a, d)) /\ open' = open \ {c}
        /\ thread' = [thread EXCEPT ![t] = r]
    BY <1>3, Zenon DEF Store
  <2> HIDE DEF p, d
  <2>3. IsPool(p) /\ p \in Seq([addr: Addr, conn: Conn])
    BY <2>1, PartIsPool, Zenon DEF PoolInv, IsPool
  <2>4. Append(p, Entry(a, d)) = p \o <<Entry(a, d)>>
    <3>1. Entry(a, d) \in [addr: Addr, conn: Conn]
      BY <1>1, <2>1, Zenon DEF Entry
    <3> QED BY <2>3, <3>1
  <2>5. IsPool(pool') /\ ConnsIn(pool') = ConnsIn(pool)
    <3>1. /\ IsPool(p \o <<Entry(a, d)>>)
          /\ ConnsIn(p \o <<Entry(a, d)>>) = ConnsIn(p) \cup {d}
      BY <1>1, <2>1, <2>3, AddedIsPool, Zenon
    <3> QED BY <2>1, <2>2, <2>4, <3>1, Zenon
  <2>6. r \in ThreadState /\ r.pc = "ready" /\ r.addr \in Addr
    BY <1>1, <2>1, Zenon DEF ThreadState, ClientPC
  <2> HIDE DEF r
  <2>7. open' = ConnsIn(pool') \cup (DialedBy(thread) \ {c})
    BY <1>1, <1>2, <2>2, <2>5, Zenon
  <2>8. ConnsIn(pool') \subseteq ConnsIn(pool) \cup {c}
    BY <2>5, Zenon
  <2> QED BY <1>1, <2>2, <2>5, <2>6, <2>7, <2>8, StoredInv, Zenon
<1>4. CASE a \notin Pooled
  <2> DEFINE p == MakeRoom(pool)
             r == [thread[t] EXCEPT !.pc = "ready"]
  <2>1. PartOf(p, pool) /\ Len(p) < MaxConns
    BY RoomMade, Zenon DEF PoolInv
  <2>2. /\ pool' = p \o <<Entry(a, c)>> /\ open' = open \ (ConnsIn(pool) \ ConnsIn(pool'))
        /\ thread' = [thread EXCEPT ![t] = r]
    BY <1>4, Zenon DEF Store, Keep
  <2> HIDE DEF p
  <2>3. /\ IsPool(p) /\ ConnsIn(p) \subseteq ConnsIn(pool) /\ AddrsIn(p) \subseteq AddrsIn(pool)
    BY <2>1, PartIsPool, Zenon DEF PoolInv
  <2>4. a \notin AddrsIn(p) /\ c \notin ConnsIn(p)
    BY <1>1, <1>4, <2>3, Zenon DEF Pooled, AddrsIn
  <2>5. IsPool(pool') /\ ConnsIn(pool') = ConnsIn(p) \cup {c}
    BY <1>1, <2>1, <2>2, <2>3, <2>4, AddedIsPool, Zenon
  <2>6. r \in ThreadState /\ r.pc = "ready" /\ r.addr \in Addr
    BY <1>1, Zenon DEF ThreadState, ClientPC
  <2> HIDE DEF r
  <2>7. ConnsIn(pool) \cap DialedBy(thread) = {}
    BY Zenon DEF PoolInv, Owned, DialedBy
  <2>8. open' = ConnsIn(pool') \cup (DialedBy(thread) \ {c})
    BY <1>1, <1>2, <2>2, <2>3, <2>5, <2>7, Zenon
  <2>9. ConnsIn(pool') \subseteq ConnsIn(pool) \cup {c}
    BY <2>3, <2>5, Zenon
  <2> QED BY <1>1, <2>2, <2>5, <2>6, <2>8, <2>9, StoredInv, Zenon
<1> QED BY <1>3, <1>4, Zenon

(* evictIdle closes the oldest connections.                                *)
LEMMA EvictIdleInv ==
    ASSUME PoolInv, EvictIdle
    PROVE  PoolInv'
<1>1. PICK k \in 1..Len(pool) : Keep(SubSeq(pool, k + 1, Len(pool)), <<>>)
  BY Zenon DEF EvictIdle
<1>2. k \in 0..Len(pool)
  BY DEF PoolInv, IsPool
<1>3. PartOf(SubSeq(pool, k + 1, Len(pool)), pool)
  BY <1>2, NewestPart, Zenon DEF PoolInv
<1>4. /\ IsPool(pool') /\ ConnsIn(pool') \subseteq ConnsIn(pool)
      /\ open' = ConnsIn(pool') \cup DialedBy(thread)
  BY <1>1, <1>3, KeepPart, Zenon
<1>5. thread' = thread
  BY Zenon DEF EvictIdle
<1>6. Threads'
  BY <1>5, Zenon DEF PoolInv, Threads
<1> QED BY <1>4, <1>5, <1>6, OwnedSame, Zenon

(* Close empties the pool.                                                 *)
LEMMA CloseInv ==
    ASSUME PoolInv, Close
    PROVE  PoolInv'
<1>1. PartOf(<<>>, pool)
  BY DEF PoolInv, IsPool, PartOf, IsInjective, Range
<1>2. /\ IsPool(pool') /\ ConnsIn(pool') \subseteq ConnsIn(pool)
      /\ open' = ConnsIn(pool') \cup DialedBy(thread)
  BY <1>1, KeepPart, Zenon DEF Close
<1>3. thread' = thread
  BY Zenon DEF Close
<1>4. Threads'
  BY <1>3, Zenon DEF PoolInv, Threads
<1> QED BY <1>2, <1>3, <1>4, OwnedSame, Zenon

(* The pool starts empty.                                                  *)
LEMMA PoolInvInit == NetInit => PoolInv
<1> SUFFICES ASSUME NetInit PROVE PoolInv
  BY Zenon
<1>1. pool = <<>> /\ open = {} /\ thread = [t \in Thread |-> Resting]
  BY Zenon DEF NetInit
<1>2. IsPool(pool) /\ ConnsIn(pool) = {}
  BY <1>1, TransportAssumption DEF IsPool, ConnsIn
<1>3. Resting \in ThreadState /\ Resting.pc = "idle"
  BY Zenon DEF Resting, ThreadState, ClientPC
<1>4. Threads /\ DialedBy(thread) = {} /\ Owned
  BY <1>1, <1>3, Zenon DEF Threads, DialedBy, Owned
<1> QED BY <1>1, <1>2, <1>4, Zenon DEF PoolInv

(* Every step keeps the invariant of the pool.                             *)
LEMMA PoolInvNext == PoolInv /\ [NetNext]_netVars => PoolInv'
<1> SUFFICES ASSUME PoolInv, [NetNext]_netVars PROVE PoolInv'
  BY Zenon
<1>1. ASSUME NEW t \in Thread, Download(t) PROVE PoolInv'
  BY <1>1, DialFailsInv, DialSucceedsInv, StoreInv, RequestInv, FailInv, AfterFailureInv, Zenon
     DEF Download
<1>2. ASSUME NEW t \in Thread, Serve(t) PROVE PoolInv'
  <2>1. EndStream(t) \/ UNCHANGED client
    BY <1>2, Zenon DEF Serve, TryAcquire, Count, Wait, GiveUp, Uncount, Release
  <2> QED BY <2>1, EndStreamInv, ClientSame, Zenon
<1>3. ASSUME NEW t \in Thread, NEW a \in Addr, Hit(t, a) \/ Miss(t, a) PROVE PoolInv'
  BY <1>3, HitInv, MissInv, Zenon
<1>4. ASSUME NEW a \in Addr, StopBegins(a) \/ StopEnds(a) \/ Crash(a) \/ Start(a) PROVE PoolInv'
  <2>1. UNCHANGED client
    BY <1>4, Zenon DEF StopBegins, StopEnds, Crash, Start
  <2> QED BY <2>1, ClientSame, Zenon
<1>5. CASE UNCHANGED netVars
  BY <1>5, ClientSame, Zenon DEF netVars
<1> QED BY <1>1, <1>2, <1>3, <1>4, <1>5, EvictIdleInv, CloseInv, Zenon DEF NetNext

(* GetClient leaks no connection: whatever dials, evictions, failures and  *)
(* the Close interleave, the pool keeps its bound and one connection per   *)
(* address, and what is open is in the pool or about to be stored.         *)
THEOREM PoolCorrect == NetSpec => []PoolSound
<1>1. PoolInv => PoolSound
  BY Zenon DEF PoolInv, IsPool, DialedBy, PoolSound
<1> QED BY <1>1, PoolInvInit, PoolInvNext, PTL DEF NetSpec

-----------------------------------------------------------------------------
(* The servers.                                                            *)

HandlerPhase ==
    {"none", "arrived", "full", "counted", "waiting", "taken", "refused", "streaming", "closing"}

HandlerState == [at: Addr \cup {Nobody}, phase: HandlerPhase]

(* A handler is at a server exactly as long as it runs.                    *)
Handlers ==
    /\ handler \in [Thread -> HandlerState]
    /\ \A t \in Thread : handler[t].at = Nobody <=> handler[t].phase = "none"

HoldsSlot == {"taken", "streaming", "closing"}
IsCounted == {"counted", "waiting", "taken", "refused"}
InLine    == {"counted", "waiting"}

Served(f, a, phases) == {t \in Thread : f[t].at = a /\ f[t].phase \in phases}

(* The counters of a server.                                               *)
CountersOK(f, s, q, a) ==
    /\ s \in Nat /\ s <= MaxConcurrency /\ s = Cardinality(Served(f, a, HoldsSlot))
    /\ q \in Nat /\ q = Cardinality(Served(f, a, IsCounted))
    /\ Cardinality(Served(f, a, InLine)) <= MaxQueueSize

(* Its queue.                                                              *)
QueueOK(f, s, w, a) ==
    /\ w \in Seq(Thread) /\ IsInjective(w)
    /\ Range(w) = Served(f, a, {"waiting"})
    /\ w # <<>> => s = MaxConcurrency

ServerInv ==
    /\ Handlers
    /\ slots \in [Addr -> Nat] /\ queued \in [Addr -> Nat] /\ waiting \in [Addr -> Seq(Thread)]
    /\ \A a \in Addr : /\ CountersOK(handler, slots[a], queued[a], a)
                       /\ QueueOK(handler, slots[a], waiting[a], a)

(* What one handler adds to a count.                                       *)
Weight(x, a, phases) == IF x.at = a /\ x.phase \in phases THEN 1 ELSE 0

(* The counters s and q of a server become s2 and q2 when a handler goes   *)
(* from x to y.                                                            *)
Books(x, y, a, s, q, s2, q2) ==
    /\ s2 \in Nat /\ q2 \in Nat /\ s2 <= MaxConcurrency
    /\ s2 + Weight(x, a, HoldsSlot) = s + Weight(y, a, HoldsSlot)
    /\ q2 + Weight(x, a, IsCounted) = q + Weight(y, a, IsCounted)
    /\ q2 <= MaxQueueSize \/ Weight(x, a, InLine) = 1 \/ Weight(y, a, InLine) = 0

(* The counters and the queue of server a are assigned.                    *)
Assigns(a, s, q, w) ==
    /\ slots' = [slots EXCEPT ![a] = s]
    /\ queued' = [queued EXCEPT ![a] = q]
    /\ waiting' = [waiting EXCEPT ![a] = w]

SameBut(f, g, t) == \A u \in Thread \ {t} : g[u] = f[u]

-----------------------------------------------------------------------------
(* The handlers are finitely many.                                         *)
LEMMA ServedFinite ==
    ASSUME NEW f, NEW a, NEW phases
    PROVE  IsFiniteSet(Served(f, a, phases)) /\ Cardinality(Served(f, a, phases)) \in Nat
<1>1. Served(f, a, phases) \in SUBSET Thread
  BY Zenon DEF Served
<1> QED BY <1>1, FS_Subset, FS_CardinalityType, TransportAssumption, Zenon

(* A set with and without an element.                                      *)
LEMMA WithElement ==
    ASSUME NEW S, IsFiniteSet(S), NEW x \in S
    PROVE  Cardinality(S) = Cardinality(S \ {x}) + 1 /\ Cardinality(S \ {x}) \in Nat
<1>1. Cardinality(S \ {x}) = Cardinality(S) - 1 /\ IsFiniteSet(S \ {x})
  BY FS_RemoveElement, Zenon
<1>2. Cardinality(S) \in Nat /\ Cardinality(S \ {x}) \in Nat
  BY <1>1, FS_CardinalityType, Zenon
<1> QED BY <1>1, <1>2

(* The others do not notice that a handler moves.                          *)
LEMMA ServedOthers ==
    ASSUME NEW f, NEW g, NEW t, NEW a, NEW phases, SameBut(f, g, t)
    PROVE  Served(g, a, phases) \ {t} = Served(f, a, phases) \ {t}
BY Zenon DEF Served, SameBut

(* How a count changes.                                                    *)
LEMMA CountMoves ==
    ASSUME NEW f, NEW g, NEW t \in Thread, NEW a, NEW phases, SameBut(f, g, t)
    PROVE  Cardinality(Served(g, a, phases)) + Weight(f[t], a, phases)
             = Cardinality(Served(f, a, phases)) + Weight(g[t], a, phases)
<1> DEFINE F == Served(f, a, phases)
           G == Served(g, a, phases)
<1>1. G \ {t} = F \ {t}
  BY ServedOthers
<1>2. IsFiniteSet(F) /\ IsFiniteSet(G) /\ Cardinality(F) \in Nat /\ Cardinality(G) \in Nat
  BY ServedFinite, Zenon
<1>3. t \in F <=> f[t].at = a /\ f[t].phase \in phases
  BY Zenon DEF Served
<1>4. t \in G <=> g[t].at = a /\ g[t].phase \in phases
  BY Zenon DEF Served
<1>5. Weight(f[t], a, phases) = IF t \in F THEN 1 ELSE 0
  BY <1>3, Zenon DEF Weight
<1>6. Weight(g[t], a, phases) = IF t \in G THEN 1 ELSE 0
  BY <1>4, Zenon DEF Weight
<1> HIDE DEF F, G
<1>7. CASE t \in F /\ t \in G
  <2>1. Cardinality(F) = Cardinality(F \ {t}) + 1 /\ Cardinality(G) = Cardinality(G \ {t}) + 1
    BY <1>2, <1>7, WithElement, Zenon
  <2>2. Cardinality(F) = Cardinality(G) /\ Weight(f[t], a, phases) = 1 /\ Weight(g[t], a, phases) = 1
    BY <1>1, <1>5, <1>6, <1>7, <2>1, Zenon
  <2> QED BY <2>2, Zenon DEF F, G
<1>8. CASE t \in F /\ t \notin G
  <2>1. Cardinality(F) = Cardinality(G) + 1
    <3>1. Cardinality(F) = Cardinality(F \ {t}) + 1
      BY <1>2, <1>8, WithElement, Zenon
    <3>2. F \ {t} = G
      BY <1>1, <1>8, Zenon
    <3> QED BY <3>1, <3>2, Zenon
  <2>2. Weight(f[t], a, phases) = 1 /\ Weight(g[t], a, phases) = 0
    BY <1>5, <1>6, <1>8, Zenon
  <2>3. Cardinality(G) + 1 = Cardinality(F) + 0
    BY <1>2, <2>1
  <2> QED BY <2>2, <2>3, Zenon DEF F, G
<1>9. CASE t \notin F /\ t \in G
  <2>1. Cardinality(G) = Cardinality(F) + 1
    <3>1. Cardinality(G) = Cardinality(G \ {t}) + 1
      BY <1>2, <1>9, WithElement, Zenon
    <3>2. G \ {t} = F
      BY <1>1, <1>9, Zenon
    <3> QED BY <3>1, <3>2, Zenon
  <2>2. Weight(f[t], a, phases) = 0 /\ Weight(g[t], a, phases) = 1
    BY <1>5, <1>6, <1>9, Zenon
  <2>3. Cardinality(G) + 0 = Cardinality(F) + 1
    BY <1>2, <2>1
  <2> QED BY <2>2, <2>3, Zenon DEF F, G
<1>10. CASE t \notin F /\ t \notin G
  <2>1. F = G
    BY <1>1, <1>10
  <2>2. Weight(f[t], a, phases) = 0 /\ Weight(g[t], a, phases) = 0
    BY <1>5, <1>6, <1>10, Zenon
  <2> QED BY <2>1, <2>2, Zenon DEF F, G
<1> QED BY <1>7, <1>8, <1>9, <1>10, Zenon

(* Bounds add up.                                                          *)
LEMMA AtMost ==
    ASSUME NEW i \in Nat, NEW j \in Nat, NEW k \in Nat, i <= j, j <= k
    PROVE  i <= k
OBVIOUS

(* The counters of a server keep up with a handler.                        *)
LEMMA CountersMove ==
    ASSUME NEW f, NEW g, NEW t \in Thread, NEW a, SameBut(f, g, t),
           NEW s, NEW q, CountersOK(f, s, q, a),
           NEW s2, NEW q2, Books(f[t], g[t], a, s, q, s2, q2)
    PROVE  CountersOK(g, s2, q2, a)
<1> DEFINE F(phases) == Cardinality(Served(f, a, phases))
           G(phases) == Cardinality(Served(g, a, phases))
           V(phases) == Weight(f[t], a, phases)
           W(phases) == Weight(g[t], a, phases)
<1>1. /\ F(HoldsSlot) \in Nat /\ F(IsCounted) \in Nat /\ F(InLine) \in Nat
      /\ G(HoldsSlot) \in Nat /\ G(IsCounted) \in Nat /\ G(InLine) \in Nat
  BY ServedFinite, Zenon
<1>2. \A phases : V(phases) \in {0, 1} /\ W(phases) \in {0, 1}
  BY Zenon DEF Weight
<1>3. ASSUME NEW phases PROVE G(phases) + V(phases) = F(phases) + W(phases)
  BY CountMoves
<1>4. /\ s \in Nat /\ s = F(HoldsSlot) /\ q \in Nat /\ q = F(IsCounted) /\ F(InLine) <= MaxQueueSize
      /\ s2 + V(HoldsSlot) = s + W(HoldsSlot) /\ q2 + V(IsCounted) = q + W(IsCounted)
      /\ q2 <= MaxQueueSize \/ V(InLine) = 1 \/ W(InLine) = 0
      /\ s2 \in Nat /\ q2 \in Nat /\ s2 <= MaxConcurrency
  BY Zenon DEF CountersOK, Books
<1>5. G(InLine) <= G(IsCounted)
  <2>1. Served(g, a, InLine) \in SUBSET Served(g, a, IsCounted)
    BY Zenon DEF Served, InLine, IsCounted
  <2> QED BY <2>1, ServedFinite, FS_Subset, Zenon
<1>6. MaxQueueSize \in Nat
  BY TransportAssumption, Zenon
<1> HIDE DEF F, G, V, W
<1>7. s2 = G(HoldsSlot) /\ q2 = G(IsCounted)
  <2>1. /\ V(HoldsSlot) \in {0, 1} /\ W(HoldsSlot) \in {0, 1}
        /\ G(HoldsSlot) + V(HoldsSlot) = F(HoldsSlot) + W(HoldsSlot)
    BY <1>2, <1>3, Zenon
  <2>2. /\ V(IsCounted) \in {0, 1} /\ W(IsCounted) \in {0, 1}
        /\ G(IsCounted) + V(IsCounted) = F(IsCounted) + W(IsCounted)
    BY <1>2, <1>3, Zenon
  <2>3. s2 = G(HoldsSlot)
    BY <1>1, <1>4, <2>1
  <2>4. q2 = G(IsCounted)
    BY <1>1, <1>4, <2>2
  <2> QED BY <2>3, <2>4, Zenon
<1>8. G(InLine) <= MaxQueueSize
  <2>1. CASE q2 <= MaxQueueSize
    <3>1. G(IsCounted) <= MaxQueueSize
      BY <1>7, <2>1, Zenon
    <3> QED BY <1>1, <1>5, <1>6, <3>1, AtMost, Zenon
  <2>2. CASE V(InLine) = 1 \/ W(InLine) = 0
    <3>1. /\ V(InLine) \in {0, 1} /\ W(InLine) \in {0, 1} /\ F(InLine) <= MaxQueueSize
          /\ G(InLine) + V(InLine) = F(InLine) + W(InLine)
      BY <1>2, <1>3, <1>4, Zenon
    <3> QED BY <1>1, <1>6, <2>2, <3>1
  <2> QED BY <1>4, <2>1, <2>2, Zenon
<1> QED BY <1>4, <1>7, <1>8, Zenon DEF CountersOK, G

(* A server that is not concerned.                                         *)
LEMMA OtherServer ==
    ASSUME NEW f, NEW g, NEW b, \A u \in Thread : g[u] = f[u] \/ (f[u].at # b /\ g[u].at # b),
           NEW s, NEW q, NEW w, CountersOK(f, s, q, b), QueueOK(f, s, w, b)
    PROVE  CountersOK(g, s, q, b) /\ QueueOK(g, s, w, b)
<1>1. \A phases : Served(g, b, phases) = Served(f, b, phases)
  BY Zenon DEF Served
<1>2. /\ Served(g, b, HoldsSlot) = Served(f, b, HoldsSlot)
      /\ Served(g, b, IsCounted) = Served(f, b, IsCounted)
      /\ Served(g, b, InLine) = Served(f, b, InLine)
      /\ Served(g, b, {"waiting"}) = Served(f, b, {"waiting"})
  BY <1>1, Zenon
<1> QED BY <1>2, Zenon DEF CountersOK, QueueOK

(* One server does a step.                                                 *)
LEMMA ServerStep ==
    ASSUME ServerInv, NEW a \in Addr, NEW s \in Nat, NEW q \in Nat, NEW w \in Seq(Thread), Handlers',
           \A u \in Thread : handler'[u] = handler[u]
                             \/ (handler[u].at \in {a, Nobody} /\ handler'[u].at \in {a, Nobody}),
           Assigns(a, s, q, w), CountersOK(handler', s, q, a), QueueOK(handler', s, w, a)
    PROVE  ServerInv'
<1>1. /\ slots' \in [Addr -> Nat] /\ queued' \in [Addr -> Nat] /\ waiting' \in [Addr -> Seq(Thread)]
      /\ slots'[a] = s /\ queued'[a] = q /\ waiting'[a] = w
      /\ \A b \in Addr \ {a} : slots'[b] = slots[b] /\ queued'[b] = queued[b] /\ waiting'[b] = waiting[b]
  BY Zenon DEF ServerInv, Assigns
<1>2. ASSUME NEW b \in Addr
      PROVE  CountersOK(handler', slots'[b], queued'[b], b) /\ QueueOK(handler', slots'[b], waiting'[b], b)
  <2>1. CASE b = a
    BY <1>1, <2>1, Zenon
  <2>2. CASE b # a
    <3>1. b \notin {a, Nobody}
      BY <2>2, TransportAssumption, Zenon
    <3>2. \A u \in Thread : handler'[u] = handler[u] \/ (handler[u].at # b /\ handler'[u].at # b)
      BY <3>1, Zenon
    <3>3. CountersOK(handler, slots[b], queued[b], b) /\ QueueOK(handler, slots[b], waiting[b], b)
      BY Zenon DEF ServerInv
    <3>4. CountersOK(handler', slots[b], queued[b], b) /\ QueueOK(handler', slots[b], waiting[b], b)
      BY <3>2, <3>3, OtherServer, Zenon
    <3> QED BY <1>1, <2>2, <3>4, Zenon
  <2> QED BY <2>1, <2>2, Zenon
<1> QED BY <1>1, <1>2, Zenon DEF ServerInv

-----------------------------------------------------------------------------
(* The steps of a handler.                                                 *)

(* A value that is assigned what it was.                                   *)
LEMMA AssignedSame ==
    ASSUME NEW X, NEW f \in [Addr -> X], NEW a \in Addr
    PROVE  f = [f EXCEPT ![a] = f[a]] /\ f[a] \in X
BY Zenon

(* What a handler becomes.                                                 *)
LEMMA HandlerMoves ==
    ASSUME Handlers, NEW t \in Thread, NEW r \in HandlerState, r.at = Nobody <=> r.phase = "none",
           handler' = [handler EXCEPT ![t] = r]
    PROVE  Handlers' /\ handler'[t] = r /\ SameBut(handler, handler', t)
BY Zenon DEF Handlers, SameBut

(* A handler goes on to another phase, at the same server.                 *)
LEMMA PhaseIs ==
    ASSUME Handlers, NEW t \in Thread, NEW p \in HandlerPhase \ {"none"},
           handler[t].phase # "none", Phase(t, p)
    PROVE  /\ handler[t].at \in Addr
           /\ \E r \in HandlerState : /\ handler' = [handler EXCEPT ![t] = r]
                                      /\ r.at = handler[t].at /\ r.phase = p
<1> DEFINE r == [handler[t] EXCEPT !.phase = p]
<1>1. handler[t] \in HandlerState /\ handler[t].at \in Addr
  BY Zenon DEF Handlers, HandlerState
<1>2. r \in HandlerState /\ r.at = handler[t].at /\ r.phase = p
  BY <1>1, Zenon DEF HandlerState
<1>3. handler' = [handler EXCEPT ![t] = r]
  BY Zenon DEF Phase
<1> HIDE DEF r
<1> QED BY <1>1, <1>2, <1>3, Zenon

(* A goroutine without a handler is at no server.                          *)
LEMMA NoCallIs == NoCall \in HandlerState /\ NoCall.at = Nobody /\ NoCall.phase = "none"
BY Zenon DEF NoCall, HandlerState, HandlerPhase

(* Those who wait, when another handler moves.                             *)
LEMMA WaitingSame ==
    ASSUME NEW f, NEW g, NEW t, SameBut(f, g, t), f[t].phase # "waiting", g[t].phase # "waiting", NEW a
    PROVE  Served(g, a, {"waiting"}) = Served(f, a, {"waiting"})
BY Zenon DEF Served, SameBut

(* A handler moves at server a, and does not wait.                         *)
MovesTo(t, a, r) ==
    /\ r \in HandlerState
    /\ r.at = Nobody <=> r.phase = "none"
    /\ handler' = [handler EXCEPT ![t] = r]
    /\ handler[t].at \in {a, Nobody} /\ r.at \in {a, Nobody}
    /\ handler[t].phase # "waiting" /\ r.phase # "waiting"

(* A step of a handler that does not concern the queue.                    *)
LEMMA QuietStep ==
    ASSUME ServerInv, NEW t \in Thread, NEW a \in Addr, NEW r, MovesTo(t, a, r),
           NEW s, NEW q, Books(handler[t], r, a, slots[a], queued[a], s, q),
           Assigns(a, s, q, waiting[a]), waiting[a] # <<>> => s = MaxConcurrency
    PROVE  ServerInv'
<1>1. Handlers' /\ handler'[t] = r /\ SameBut(handler, handler', t)
  BY HandlerMoves, Zenon DEF ServerInv, MovesTo
<1>2. CountersOK(handler, slots[a], queued[a], a) /\ QueueOK(handler, slots[a], waiting[a], a)
  BY Zenon DEF ServerInv
<1>3. CountersOK(handler', s, q, a) /\ s \in Nat /\ q \in Nat
  <2>1. Books(handler[t], handler'[t], a, slots[a], queued[a], s, q)
    BY <1>1, Zenon
  <2> QED BY <1>1, <1>2, <2>1, CountersMove, Zenon DEF Books
<1>4. QueueOK(handler', s, waiting[a], a)
  <2>1. Served(handler', a, {"waiting"}) = Served(handler, a, {"waiting"})
    BY <1>1, WaitingSame, Zenon DEF MovesTo
  <2> QED BY <1>2, <2>1, Zenon DEF QueueOK
<1>5. waiting[a] \in Seq(Thread)
  BY <1>2, Zenon DEF QueueOK
<1>6. \A u \in Thread : \/ handler'[u] = handler[u]
                        \/ handler[u].at \in {a, Nobody} /\ handler'[u].at \in {a, Nobody}
  BY <1>1, Zenon DEF SameBut, MovesTo
<1> QED BY <1>1, <1>3, <1>4, <1>5, <1>6, ServerStep, Zenon

(* The numbers of a server.                                                *)
LEMMA Numbers ==
    ASSUME ServerInv, NEW a \in Addr
    PROVE  /\ slots[a] \in Nat /\ queued[a] \in Nat /\ slots[a] <= MaxConcurrency
           /\ slots = [slots EXCEPT ![a] = slots[a]] /\ queued = [queued EXCEPT ![a] = queued[a]]
           /\ waiting = [waiting EXCEPT ![a] = waiting[a]] /\ waiting[a] \in Seq(Thread)
           /\ waiting[a] # <<>> => slots[a] = MaxConcurrency
           /\ MaxConcurrency \in Nat /\ MaxQueueSize \in Nat
<1>1. /\ slots = [slots EXCEPT ![a] = slots[a]] /\ queued = [queued EXCEPT ![a] = queued[a]]
      /\ waiting = [waiting EXCEPT ![a] = waiting[a]]
  BY AssignedSame, Zenon DEF ServerInv
<1> QED BY <1>1, TransportAssumption, Zenon DEF ServerInv, CountersOK, QueueOK

(* Which phases count.                                                     *)
LEMMA PhaseWeights ==
    ASSUME NEW x, NEW a, x.at = a
    PROVE  /\ x.phase = "arrived" \/ x.phase = "full" =>
                /\ Weight(x, a, HoldsSlot) = 0 /\ Weight(x, a, IsCounted) = 0
                /\ Weight(x, a, InLine) = 0
           /\ x.phase = "counted" \/ x.phase = "waiting" =>
                /\ Weight(x, a, HoldsSlot) = 0 /\ Weight(x, a, IsCounted) = 1
                /\ Weight(x, a, InLine) = 1
           /\ x.phase = "taken" =>
                /\ Weight(x, a, HoldsSlot) = 1 /\ Weight(x, a, IsCounted) = 1
                /\ Weight(x, a, InLine) = 0
           /\ x.phase = "refused" =>
                /\ Weight(x, a, HoldsSlot) = 0 /\ Weight(x, a, IsCounted) = 1
                /\ Weight(x, a, InLine) = 0
           /\ x.phase = "streaming" \/ x.phase = "closing" =>
                /\ Weight(x, a, HoldsSlot) = 1 /\ Weight(x, a, IsCounted) = 0
                /\ Weight(x, a, InLine) = 0
BY Zenon DEF Weight, HoldsSlot, IsCounted, InLine

(* A handler counts at its own server only.                                *)
LEMMA NoWeight ==
    ASSUME NEW x, NEW a, x.at # a, NEW phases
    PROVE  Weight(x, a, phases) = 0
BY Zenon DEF Weight

(* A call arrives at the server.                                           *)
LEMMA RequestServed ==
    ASSUME PoolInv, ServerInv, NEW t \in Thread, Request(t)
    PROVE  ServerInv'
<1> DEFINE a == thread[t].addr
           r == [at |-> a, phase |-> "arrived"]
<1>1. a \in Addr
  BY Zenon DEF Request, PoolInv, Threads
<1>2. /\ handler[t] = NoCall /\ handler' = [handler EXCEPT ![t] = r]
      /\ slots' = slots /\ queued' = queued /\ waiting' = waiting
  BY Zenon DEF Request
<1>3. r \in HandlerState /\ r.at = a /\ r.phase = "arrived"
  BY <1>1, Zenon DEF HandlerState, HandlerPhase
<1> HIDE DEF a, r
<1>4. handler[t].at = Nobody /\ handler[t].phase = "none" /\ a # Nobody
  BY <1>1, <1>2, NoCallIs, TransportAssumption, Zenon
<1>5. /\ Weight(handler[t], a, HoldsSlot) = 0 /\ Weight(handler[t], a, IsCounted) = 0
      /\ Weight(r, a, HoldsSlot) = 0 /\ Weight(r, a, IsCounted) = 0 /\ Weight(r, a, InLine) = 0
  BY <1>3, <1>4, PhaseWeights, NoWeight, Zenon
<1>6. MovesTo(t, a, r)
  BY <1>2, <1>3, <1>4, Zenon DEF MovesTo
<1>7. Books(handler[t], r, a, slots[a], queued[a], slots[a], queued[a])
  BY <1>1, <1>5, Numbers, Zenon DEF Books
<1>8. /\ Assigns(a, slots[a], queued[a], waiting[a])
      /\ waiting[a] # <<>> => slots[a] = MaxConcurrency
  BY <1>1, <1>2, Numbers, Zenon DEF Assigns
<1> QED BY <1>1, <1>6, <1>7, <1>8, QuietStep, ZenonT(30)

(* acquireUpload takes a free slot at once, or finds none.                 *)
LEMMA TryAcquireServed ==
    ASSUME ServerInv, NEW t \in Thread, TryAcquire(t)
    PROVE  ServerInv'
<1> DEFINE a == handler[t].at
<1>1. handler[t].phase = "arrived" /\ waiting' = waiting /\ queued' = queued
  BY Zenon DEF TryAcquire
<1>2. a \in Addr
  BY <1>1, Zenon DEF ServerInv, Handlers, HandlerState
<1>3. /\ Weight(handler[t], a, HoldsSlot) = 0 /\ Weight(handler[t], a, IsCounted) = 0
  BY <1>1, PhaseWeights, NoWeight, Zenon
<1>4. CASE slots[a] < MaxConcurrency
  <2>1. slots' = [slots EXCEPT ![a] = slots[a] + 1] /\ Phase(t, "streaming")
    BY <1>4, Zenon DEF TryAcquire
  <2>2. PICK r \in HandlerState : /\ handler' = [handler EXCEPT ![t] = r]
                                  /\ r.at = a /\ r.phase = "streaming"
    BY <1>1, <2>1, PhaseIs, ZenonT(30) DEF ServerInv, HandlerPhase
  <2>3. /\ Weight(r, a, HoldsSlot) = 1 /\ Weight(r, a, IsCounted) = 0 /\ Weight(r, a, InLine) = 0
    BY <2>2, PhaseWeights, NoWeight, Zenon
  <2>4. MovesTo(t, a, r)
    BY <1>1, <1>2, <2>2, TransportAssumption, Zenon DEF MovesTo
  <2>5. Books(handler[t], r, a, slots[a], queued[a], slots[a] + 1, queued[a])
    BY <1>2, <1>3, <1>4, <2>3, Numbers DEF Books
  <2>6. Assigns(a, slots[a] + 1, queued[a], waiting[a])
    BY <1>1, <1>2, <2>1, Numbers, Zenon DEF Assigns
  <2>7. waiting[a] = <<>>
    BY <1>2, <1>4, Numbers
  <2> HIDE DEF a
  <2> QED BY <1>2, <2>4, <2>5, <2>6, <2>7, QuietStep, ZenonT(30)
<1>5. CASE ~(slots[a] < MaxConcurrency)
  <2>1. slots' = slots /\ (Return(t) \/ Phase(t, "full"))
    BY <1>5, Zenon DEF TryAcquire
  <2>2. PICK r \in HandlerState : /\ handler' = [handler EXCEPT ![t] = r]
                                  /\ \/ r.at = a /\ r.phase = "full"
                                     \/ r.at = Nobody /\ r.phase = "none"
    <3>1. CASE Return(t)
      BY <3>1, NoCallIs, Zenon DEF Return
    <3>2. CASE Phase(t, "full")
      BY <1>1, <3>2, PhaseIs DEF ServerInv, HandlerPhase
    <3> QED BY <2>1, <3>1, <3>2, Zenon
  <2>3. /\ Weight(r, a, HoldsSlot) = 0 /\ Weight(r, a, IsCounted) = 0 /\ Weight(r, a, InLine) = 0
    <3>1. a # Nobody
      BY <1>2, TransportAssumption, Zenon
    <3> QED BY <2>2, <3>1, PhaseWeights, NoWeight, Zenon
  <2>4. MovesTo(t, a, r)
    BY <1>1, <1>2, <2>2, TransportAssumption, Zenon DEF MovesTo
  <2>5. Books(handler[t], r, a, slots[a], queued[a], slots[a], queued[a])
    BY <1>2, <1>3, <2>3, Numbers, Zenon DEF Books
  <2>6. /\ Assigns(a, slots[a], queued[a], waiting[a])
        /\ waiting[a] # <<>> => slots[a] = MaxConcurrency
    BY <1>1, <1>2, <2>1, Numbers, Zenon DEF Assigns
  <2> HIDE DEF a
  <2> QED BY <1>2, <2>4, <2>5, <2>6, QuietStep, ZenonT(30)
<1> QED BY <1>4, <1>5, Zenon

(* acquireUpload counts the call among the queued, and may refuse it.      *)
LEMMA CountServed ==
    ASSUME ServerInv, NEW t \in Thread, Count(t)
    PROVE  ServerInv'
<1> DEFINE a == handler[t].at
           p == IF queued'[a] > MaxQueueSize THEN "refused" ELSE "counted"
<1>1. /\ handler[t].phase = "full" /\ waiting' = waiting /\ slots' = slots
      /\ queued' = [queued EXCEPT ![a] = queued[a] + 1] /\ Phase(t, p)
  BY Zenon DEF Count
<1>2. a \in Addr
  BY <1>1, Zenon DEF ServerInv, Handlers, HandlerState
<1>3. p \in HandlerPhase \ {"none"} /\ p \in {"refused", "counted"}
  BY Zenon DEF HandlerPhase
<1>4. p = "counted" => queued[a] + 1 <= MaxQueueSize
  <2>1. queued'[a] = queued[a] + 1 /\ queued[a] \in Nat /\ MaxQueueSize \in Nat
    BY <1>1, <1>2, TransportAssumption, Zenon DEF ServerInv
  <2> QED BY <2>1
<1> HIDE DEF p
<1>5. PICK r \in HandlerState : handler' = [handler EXCEPT ![t] = r] /\ r.at = a /\ r.phase = p
  <2>1. Handlers /\ handler[t].phase # "none"
    BY <1>1, ZenonT(30) DEF ServerInv
  <2> QED BY <1>1, <1>3, <2>1, PhaseIs
<1>6. /\ Weight(handler[t], a, HoldsSlot) = 0 /\ Weight(handler[t], a, IsCounted) = 0
      /\ Weight(r, a, HoldsSlot) = 0 /\ Weight(r, a, IsCounted) = 1
      /\ p = "refused" => Weight(r, a, InLine) = 0
  BY <1>1, <1>3, <1>5, PhaseWeights, NoWeight, Zenon
<1>7. MovesTo(t, a, r)
  BY <1>1, <1>2, <1>3, <1>5, TransportAssumption, Zenon DEF MovesTo
<1>8. Books(handler[t], r, a, slots[a], queued[a], slots[a], queued[a] + 1)
  BY <1>2, <1>3, <1>4, <1>6, Numbers DEF Books
<1>9. /\ Assigns(a, slots[a], queued[a] + 1, waiting[a])
      /\ waiting[a] # <<>> => slots[a] = MaxConcurrency
  BY <1>1, <1>2, Numbers, Zenon DEF Assigns
<1> HIDE DEF a
<1> QED BY <1>2, <1>7, <1>8, <1>9, QuietStep, ZenonT(30)

(* The places of a queue that is one longer.                               *)
LEMMA OneMoreWaits ==
    ASSUME NEW n \in Nat
    PROVE  /\ n + 1 \in 1..(n + 1) /\ \A i \in 1..n : i \in 1..(n + 1)
           /\ \A i \in 1..(n + 1) : i \in 1..n \/ i = n + 1
OBVIOUS

(* A handler joins the queue.                                              *)
LEMMA JoinQueue ==
    ASSUME NEW w \in Seq(Thread), IsInjective(w), NEW t \in Thread \ Range(w)
    PROVE  /\ Append(w, t) \in Seq(Thread) /\ IsInjective(Append(w, t))
           /\ Range(Append(w, t)) = Range(w) \cup {t}
<1> DEFINE v == Append(w, t)
           n == Len(w)
<1>1. v \in Seq(Thread) /\ DOMAIN v = 1..(n + 1) /\ n \in Nat /\ DOMAIN w = 1..n
  OBVIOUS
<1>2. v[n + 1] = t /\ \A i \in 1..n : v[i] = w[i]
  OBVIOUS
<1>3. \A i \in DOMAIN w : w[i] # t
  BY Zenon DEF Range
<1> HIDE DEF v, n
<1>4. \A i \in DOMAIN v : i \in DOMAIN w \/ i = n + 1
  BY <1>1, OneMoreWaits, Zenon
<1>5. n + 1 \in DOMAIN v /\ \A i \in DOMAIN w : i \in DOMAIN v /\ v[i] = w[i]
  BY <1>1, <1>2, OneMoreWaits, Zenon
<1>6. IsInjective(v)
  BY <1>2, <1>3, <1>4, <1>5, Zenon DEF IsInjective
<1>7. Range(v) = Range(w) \cup {t}
  <2>1. Range(v) \subseteq Range(w) \cup {t}
    BY <1>2, <1>4, <1>5, Zenon DEF Range
  <2>2. Range(w) \subseteq Range(v) /\ t \in Range(v)
    BY <1>2, <1>5, Zenon DEF Range
  <2> QED BY <2>1, <2>2, Zenon
<1> QED BY <1>1, <1>6, <1>7, Zenon DEF v

(* A handler leaves the queue.                                             *)
LEMMA LeaveQueueIs ==
    ASSUME NEW w \in Seq(Thread), IsInjective(w), NEW t
    PROVE  /\ LeaveQueue(w, t) \in Seq(Thread) /\ IsInjective(LeaveQueue(w, t))
           /\ Range(LeaveQueue(w, t)) = Range(w) \ {t}
<1>1. CASE t \in Range(w)
  <2> DEFINE i == CHOOSE k \in DOMAIN w : w[k] = t
  <2>1. i \in DOMAIN w /\ w[i] = t
    BY <1>1, Zenon DEF Range
  <2>2. LeaveQueue(w, t) = RemoveAt(w, i)
    BY <1>1, Zenon DEF LeaveQueue
  <2> HIDE DEF i
  <2>3. /\ RemoveAt(w, i) \in Seq(Thread) /\ IsInjective(RemoveAt(w, i))
        /\ Range(RemoveAt(w, i)) = Range(w) \ {w[i]}
    BY <2>1, RemovedOnce, Zenon
  <2> QED BY <2>1, <2>2, <2>3, Zenon
<1>2. CASE t \notin Range(w)
  BY <1>2, Zenon DEF LeaveQueue
<1> QED BY <1>1, <1>2, Zenon

(* The first of the queue leaves it.                                       *)
LEMMA HeadLeaves ==
    ASSUME NEW w \in Seq(Thread), IsInjective(w), w # <<>>
    PROVE  /\ Tail(w) \in Seq(Thread) /\ IsInjective(Tail(w))
           /\ Range(Tail(w)) = Range(w) \ {Head(w)} /\ Head(w) \in Range(w)
<1>1. 1 \in DOMAIN w /\ Head(w) = w[1] /\ Tail(w) = RemoveAt(w, 1)
  <2>1. Len(w) \in Nat /\ Len(w) >= 1 /\ 1 \in DOMAIN w /\ Head(w) = w[1]
    OBVIOUS
  <2>2. Tail(w) = SubSeq(w, 1 + 1, Len(w)) /\ Tail(w) \in Seq(Thread)
    BY <2>1
  <2>3. SubSeq(w, 1, 1 - 1) = <<>>
    OBVIOUS
  <2>4. \A v \in Seq(Thread) : <<>> \o v = v
    OBVIOUS
  <2> QED BY <2>1, <2>2, <2>3, <2>4, Zenon DEF RemoveAt
<1>2. Head(w) \in Range(w)
  BY <1>1, Zenon DEF Range
<1>3. /\ RemoveAt(w, 1) \in Seq(Thread) /\ IsInjective(RemoveAt(w, 1))
      /\ Range(RemoveAt(w, 1)) = Range(w) \ {w[1]}
  BY <1>1, RemovedOnce, Zenon
<1> QED BY <1>1, <1>2, <1>3, Zenon

(* A step that concerns the queue.                                         *)
LEMMA QueueStep ==
    ASSUME ServerInv, NEW t \in Thread, NEW a \in Addr, NEW r \in HandlerState,
           r.at = a, r.phase # "none", handler[t].at = a, handler' = [handler EXCEPT ![t] = r],
           NEW w, Books(handler[t], r, a, slots[a], queued[a], slots[a], queued[a]),
           Assigns(a, slots[a], queued[a], w), QueueOK(handler', slots[a], w, a)
    PROVE  ServerInv'
<1>1. r.at = Nobody <=> r.phase = "none"
  BY TransportAssumption, Zenon
<1>2. Handlers' /\ handler'[t] = r /\ SameBut(handler, handler', t)
  BY <1>1, HandlerMoves, Zenon DEF ServerInv
<1>3. CountersOK(handler', slots[a], queued[a], a) /\ slots[a] \in Nat /\ queued[a] \in Nat
  <2>1. Books(handler[t], handler'[t], a, slots[a], queued[a], slots[a], queued[a])
    BY <1>2, Zenon
  <2>2. CountersOK(handler, slots[a], queued[a], a)
    BY Zenon DEF ServerInv
  <2>3. slots[a] \in Nat /\ queued[a] \in Nat
    BY Zenon DEF Books
  <2> QED BY <1>2, <2>1, <2>2, <2>3, CountersMove, Zenon
<1>4. w \in Seq(Thread)
  BY Zenon DEF QueueOK
<1>5. \A u \in Thread : \/ handler'[u] = handler[u]
                        \/ handler[u].at \in {a, Nobody} /\ handler'[u].at \in {a, Nobody}
  BY <1>2, ZenonT(30) DEF SameBut
<1> QED BY <1>2, <1>3, <1>4, <1>5, ServerStep, ZenonT(30)

(* acquireUpload takes a slot that is free by now, or waits for one.       *)
LEMMA WaitServed ==
    ASSUME ServerInv, NEW t \in Thread, Wait(t)
    PROVE  ServerInv'
<1> DEFINE a == handler[t].at
<1>1. handler[t].phase = "counted" /\ queued' = queued
  BY Zenon DEF Wait
<1>2. a \in Addr /\ Handlers
  BY <1>1, Zenon DEF ServerInv, Handlers, HandlerState
<1>3. /\ Weight(handler[t], a, HoldsSlot) = 0 /\ Weight(handler[t], a, IsCounted) = 1
      /\ Weight(handler[t], a, InLine) = 1
  BY <1>1, PhaseWeights, NoWeight, Zenon
<1>4. CASE slots[a] < MaxConcurrency
  <2>1. slots' = [slots EXCEPT ![a] = slots[a] + 1] /\ Phase(t, "taken") /\ waiting' = waiting
    BY <1>4, Zenon DEF Wait
  <2>2. PICK r \in HandlerState : /\ handler' = [handler EXCEPT ![t] = r]
                                  /\ r.at = a /\ r.phase = "taken"
    BY <1>1, <1>2, <2>1, PhaseIs, Zenon DEF HandlerPhase
  <2>3. /\ Weight(r, a, HoldsSlot) = 1 /\ Weight(r, a, IsCounted) = 1
    BY <2>2, PhaseWeights, NoWeight, Zenon
  <2>4. MovesTo(t, a, r)
    BY <1>1, <1>2, <2>2, TransportAssumption, Zenon DEF MovesTo
  <2>5. Books(handler[t], r, a, slots[a], queued[a], slots[a] + 1, queued[a])
    BY <1>2, <1>3, <1>4, <2>3, Numbers DEF Books
  <2>6. Assigns(a, slots[a] + 1, queued[a], waiting[a])
    BY <1>1, <1>2, <2>1, Numbers, Zenon DEF Assigns
  <2>7. waiting[a] = <<>>
    BY <1>2, <1>4, Numbers
  <2> HIDE DEF a
  <2> QED BY <1>2, <2>4, <2>5, <2>6, <2>7, QuietStep, ZenonT(30)
<1>5. CASE ~(slots[a] < MaxConcurrency)
  <2> DEFINE w == Append(waiting[a], t)
  <2>1. slots' = slots /\ Phase(t, "waiting") /\ waiting' = [waiting EXCEPT ![a] = w]
    BY <1>5, Zenon DEF Wait
  <2>2. PICK r \in HandlerState : /\ handler' = [handler EXCEPT ![t] = r]
                                  /\ r.at = a /\ r.phase = "waiting"
    BY <1>1, <1>2, <2>1, PhaseIs, Zenon DEF HandlerPhase
  <2>3. /\ Weight(r, a, HoldsSlot) = 0 /\ Weight(r, a, IsCounted) = 1
    BY <2>2, PhaseWeights, NoWeight, Zenon
  <2>4. Books(handler[t], r, a, slots[a], queued[a], slots[a], queued[a])
    BY <1>2, <1>3, <2>3, Numbers, Zenon DEF Books
  <2>5. Assigns(a, slots[a], queued[a], w)
    BY <1>1, <1>2, <2>1, Numbers, Zenon DEF Assigns
  <2>6. slots[a] = MaxConcurrency
    BY <1>2, <1>5, Numbers
  <2>7. QueueOK(handler, slots[a], waiting[a], a)
    BY <1>2, Zenon DEF ServerInv
  <2>8. t \notin Range(waiting[a])
    BY <1>1, <2>7, Zenon DEF QueueOK, Served
  <2>9. w \in Seq(Thread) /\ IsInjective(w) /\ Range(w) = Range(waiting[a]) \cup {t}
    BY <2>7, <2>8, JoinQueue, Zenon DEF QueueOK
  <2>10. Served(handler', a, {"waiting"}) = Served(handler, a, {"waiting"}) \cup {t}
    BY <1>2, <2>2, Zenon DEF Served, Handlers
  <2> HIDE DEF w
  <2>11. QueueOK(handler', slots[a], w, a)
    BY <2>6, <2>7, <2>9, <2>10, Zenon DEF QueueOK
  <2>12. r.at = a /\ r.phase # "none" /\ handler[t].at = a
    BY <2>2, Zenon
  <2> HIDE DEF a
  <2> QED BY <1>2, <2>2, <2>4, <2>5, <2>11, <2>12, QueueStep, ZenonT(30)
<1> QED BY <1>4, <1>5, Zenon

(* The context of a call that waits ends.                                  *)
LEMMA GiveUpServed ==
    ASSUME ServerInv, NEW t \in Thread, GiveUp(t)
    PROVE  ServerInv'
<1> DEFINE a == handler[t].at
           w == LeaveQueue(waiting[a], t)
<1>1. /\ handler[t].phase \in {"counted", "waiting"} /\ queued' = queued /\ slots' = slots
      /\ Phase(t, "refused") /\ waiting' = [waiting EXCEPT ![a] = w]
  BY Zenon DEF GiveUp
<1>2. a \in Addr /\ Handlers
  BY <1>1, Zenon DEF ServerInv, Handlers, HandlerState
<1>3. /\ Weight(handler[t], a, HoldsSlot) = 0 /\ Weight(handler[t], a, IsCounted) = 1
      /\ Weight(handler[t], a, InLine) = 1
  BY <1>1, PhaseWeights, NoWeight, Zenon
<1>4. PICK r \in HandlerState : /\ handler' = [handler EXCEPT ![t] = r]
                                /\ r.at = a /\ r.phase = "refused"
  BY <1>1, <1>2, PhaseIs, Zenon DEF HandlerPhase
<1>5. Weight(r, a, HoldsSlot) = 0 /\ Weight(r, a, IsCounted) = 1
  BY <1>4, PhaseWeights, NoWeight, Zenon
<1>6. Books(handler[t], r, a, slots[a], queued[a], slots[a], queued[a])
  BY <1>2, <1>3, <1>5, Numbers, Zenon DEF Books
<1>7. Assigns(a, slots[a], queued[a], w)
  BY <1>1, <1>2, Numbers, Zenon DEF Assigns
<1>8. QueueOK(handler, slots[a], waiting[a], a)
  BY <1>2, Zenon DEF ServerInv
<1>9. w \in Seq(Thread) /\ IsInjective(w) /\ Range(w) = Range(waiting[a]) \ {t}
  BY <1>8, LeaveQueueIs, Zenon DEF QueueOK
<1>10. Served(handler', a, {"waiting"}) = Served(handler, a, {"waiting"}) \ {t}
  BY <1>2, <1>4, Zenon DEF Served, Handlers
<1>11. w # <<>> => waiting[a] # <<>>
  <2>1. waiting[a] = <<>> => Range(waiting[a]) = {}
    BY DEF Range
  <2>2. w # <<>> => Range(w) # {}
    <3> HIDE DEF w
    <3>1. w # <<>> => 1 \in DOMAIN w
      BY <1>9
    <3> QED BY <3>1, Zenon DEF Range
  <2> HIDE DEF w
  <2> QED BY <1>9, <2>1, <2>2, ZenonT(30)
<1> HIDE DEF w
<1>12. QueueOK(handler', slots[a], w, a)
  BY <1>8, <1>9, <1>10, <1>11, Zenon DEF QueueOK
<1>13. r.at = a /\ r.phase # "none" /\ handler[t].at = a
  BY <1>4, Zenon
<1> HIDE DEF a
<1> QED BY <1>2, <1>4, <1>6, <1>7, <1>12, <1>13, QueueStep, ZenonT(30)

(* The deferred decrement: the call is no longer among the queued.         *)
LEMMA UncountServed ==
    ASSUME ServerInv, NEW t \in Thread, Uncount(t)
    PROVE  ServerInv'
<1> DEFINE a == handler[t].at
<1>1. /\ handler[t].phase \in {"taken", "refused"} /\ slots' = slots /\ waiting' = waiting
      /\ queued' = [queued EXCEPT ![a] = queued[a] - 1]
  BY Zenon DEF Uncount
<1>2. a \in Addr /\ Handlers
  BY <1>1, Zenon DEF ServerInv, Handlers, HandlerState
<1>3. PICK r \in HandlerState :
        /\ handler' = [handler EXCEPT ![t] = r]
        /\ \/ handler[t].phase = "taken" /\ r.at = a /\ r.phase = "streaming"
           \/ handler[t].phase = "refused" /\ r.at = Nobody /\ r.phase = "none"
  <2>1. CASE handler[t].phase = "taken"
    <3>1. Phase(t, "streaming")
      BY <2>1, Zenon DEF Uncount
    <3> QED BY <1>2, <2>1, <3>1, PhaseIs DEF HandlerPhase
  <2>2. CASE handler[t].phase = "refused"
    <3>1. Return(t)
      BY <2>2, Zenon DEF Uncount
    <3> QED BY <2>2, <3>1, NoCallIs, Zenon DEF Return
  <2> QED BY <1>1, <2>1, <2>2, Zenon
<1>4. /\ Weight(handler[t], a, IsCounted) = 1 /\ Weight(r, a, IsCounted) = 0 /\ Weight(r, a, InLine) = 0
      /\ Weight(handler[t], a, HoldsSlot) \in {0, 1}
      /\ Weight(handler[t], a, HoldsSlot) = Weight(r, a, HoldsSlot)
  <2>1. a # Nobody
    BY <1>2, TransportAssumption, Zenon
  <2>2. CASE handler[t].phase = "taken"
    <3>1. r.at = a /\ r.phase = "streaming"
      BY <1>3, <2>2, Zenon
    <3> QED BY <2>2, <3>1, PhaseWeights, Zenon
  <2>3. CASE handler[t].phase = "refused"
    <3>1. r.at # a
      BY <1>3, <2>1, <2>3, Zenon
    <3> QED BY <2>3, <3>1, PhaseWeights, NoWeight, Zenon
  <2> QED BY <1>1, <2>2, <2>3, Zenon
<1>5. queued[a] \in Nat /\ queued[a] >= 1
  <2>1. t \in Served(handler, a, IsCounted)
    BY <1>1, Zenon DEF Served, IsCounted
  <2>2. queued[a] = Cardinality(Served(handler, a, IsCounted)) /\ IsFiniteSet(Served(handler, a, IsCounted))
    BY <1>2, ServedFinite, Zenon DEF ServerInv, CountersOK
  <2>3. /\ Cardinality(Served(handler, a, IsCounted))
              = Cardinality(Served(handler, a, IsCounted) \ {t}) + 1
        /\ Cardinality(Served(handler, a, IsCounted) \ {t}) \in Nat
    BY <2>1, <2>2, WithElement, Zenon
  <2> QED BY <2>2, <2>3
<1>6. MovesTo(t, a, r)
  BY <1>1, <1>2, <1>3, TransportAssumption, Zenon DEF MovesTo
<1>7. Books(handler[t], r, a, slots[a], queued[a], slots[a], queued[a] - 1)
  BY <1>2, <1>4, <1>5, Numbers DEF Books
<1>8. /\ Assigns(a, slots[a], queued[a] - 1, waiting[a])
      /\ waiting[a] # <<>> => slots[a] = MaxConcurrency
  BY <1>1, <1>2, Numbers, Zenon DEF Assigns
<1> HIDE DEF a
<1> QED BY <1>2, <1>6, <1>7, <1>8, QuietStep, ZenonT(30)

(* The stream ends: releaseUpload is next.                                 *)
LEMMA EndStreamServed ==
    ASSUME ServerInv, NEW t \in Thread, EndStream(t)
    PROVE  ServerInv'
<1> DEFINE a == handler[t].at
<1>1. /\ handler[t].phase = "streaming" /\ slots' = slots /\ waiting' = waiting /\ queued' = queued
      /\ Phase(t, "closing")
  BY Zenon DEF EndStream
<1>2. a \in Addr /\ Handlers
  BY <1>1, Zenon DEF ServerInv, Handlers, HandlerState
<1>3. PICK r \in HandlerState : /\ handler' = [handler EXCEPT ![t] = r]
                                /\ r.at = a /\ r.phase = "closing"
  BY <1>1, <1>2, PhaseIs, Zenon DEF HandlerPhase
<1>4. /\ Weight(handler[t], a, HoldsSlot) = 1 /\ Weight(handler[t], a, IsCounted) = 0
      /\ Weight(r, a, HoldsSlot) = 1 /\ Weight(r, a, IsCounted) = 0 /\ Weight(r, a, InLine) = 0
  BY <1>1, <1>3, PhaseWeights, NoWeight, Zenon
<1>5. MovesTo(t, a, r)
  BY <1>1, <1>2, <1>3, TransportAssumption, Zenon DEF MovesTo
<1>6. Books(handler[t], r, a, slots[a], queued[a], slots[a], queued[a])
  BY <1>2, <1>4, Numbers, Zenon DEF Books
<1>7. /\ Assigns(a, slots[a], queued[a], waiting[a])
      /\ waiting[a] # <<>> => slots[a] = MaxConcurrency
  BY <1>1, <1>2, Numbers, Zenon DEF Assigns
<1> HIDE DEF a
<1> QED BY <1>2, <1>5, <1>6, <1>7, QuietStep, ZenonT(30)

(* A slot is handed on: one count falls and rises again.                   *)
LEMMA HandOver ==
    ASSUME ServerInv, NEW a \in Addr, NEW t \in Thread, handler[t].at = a, handler[t].phase = "closing",
           NEW h \in Thread, handler[h].at = a, handler[h].phase = "waiting",
           handler' = [handler EXCEPT ![t] = NoCall, ![h].phase = "taken"]
    PROVE  /\ Handlers' /\ CountersOK(handler', slots[a], queued[a], a)
           /\ Served(handler', a, {"waiting"}) = Served(handler, a, {"waiting"}) \ {h}
           /\ \A u \in Thread : \/ handler'[u] = handler[u]
                                \/ handler[u].at \in {a, Nobody} /\ handler'[u].at \in {a, Nobody}
<1> DEFINE f == [handler EXCEPT ![t] = NoCall]
<1>1. t # h /\ Handlers /\ a # Nobody
  BY TransportAssumption, Zenon DEF ServerInv
<1>2. /\ f[t] = NoCall /\ f[h] = handler[h] /\ SameBut(handler, f, t)
      /\ handler'[t] = NoCall /\ SameBut(f, handler', h)
      /\ \A u \in Thread \ {t, h} : handler'[u] = handler[u]
  BY <1>1, Zenon DEF Handlers, SameBut
<1>3. /\ handler'[h] \in HandlerState /\ handler'[h].at = a /\ handler'[h].phase = "taken"
      /\ handler' \in [Thread -> HandlerState]
  BY <1>1, NoCallIs, ZenonT(30) DEF Handlers, HandlerState, HandlerPhase
<1> HIDE DEF f
<1>4. Handlers'
  BY <1>1, <1>2, <1>3, NoCallIs, Zenon DEF Handlers
<1>5. /\ Weight(handler[t], a, HoldsSlot) = 1 /\ Weight(handler[t], a, IsCounted) = 0
      /\ Weight(f[t], a, HoldsSlot) = 0 /\ Weight(f[t], a, IsCounted) = 0 /\ Weight(f[t], a, InLine) = 0
  <2>1. Weight(handler[t], a, HoldsSlot) = 1 /\ Weight(handler[t], a, IsCounted) = 0
    BY PhaseWeights, Zenon
  <2>2. f[t].at # a
    BY <1>1, <1>2, NoCallIs, Zenon
  <2> QED BY <2>1, <2>2, NoWeight, Zenon
<1>6. /\ Weight(f[h], a, HoldsSlot) = 0 /\ Weight(f[h], a, IsCounted) = 1 /\ Weight(f[h], a, InLine) = 1
      /\ Weight(handler'[h], a, HoldsSlot) = 1 /\ Weight(handler'[h], a, IsCounted) = 1
  <2>1. f[h].at = a /\ f[h].phase = "waiting"
    BY <1>2, Zenon
  <2>2. PICK x : x = handler'[h]
    BY Zenon
  <2>3. x.at = a /\ x.phase = "taken"
    BY <1>3, <2>2, Zenon
  <2>4. Weight(x, a, HoldsSlot) = 1 /\ Weight(x, a, IsCounted) = 1
    BY <2>3, PhaseWeights, Zenon
  <2>5. /\ Weight(f[h], a, HoldsSlot) = 0 /\ Weight(f[h], a, IsCounted) = 1
        /\ Weight(f[h], a, InLine) = 1
    BY <2>1, PhaseWeights, Zenon
  <2> QED BY <2>2, <2>4, <2>5, Zenon
<1>7. slots[a] \in Nat /\ slots[a] >= 1 /\ slots[a] <= MaxConcurrency /\ queued[a] \in Nat
  <2>1. t \in Served(handler, a, HoldsSlot)
    BY Zenon DEF Served, HoldsSlot
  <2>2. slots[a] = Cardinality(Served(handler, a, HoldsSlot)) /\ IsFiniteSet(Served(handler, a, HoldsSlot))
    BY ServedFinite, Zenon DEF ServerInv, CountersOK
  <2>3. /\ Cardinality(Served(handler, a, HoldsSlot))
              = Cardinality(Served(handler, a, HoldsSlot) \ {t}) + 1
        /\ Cardinality(Served(handler, a, HoldsSlot) \ {t}) \in Nat
    BY <2>1, <2>2, WithElement, Zenon
  <2> QED BY <2>2, <2>3, Numbers
<1>8. CountersOK(f, slots[a] - 1, queued[a], a)
  <2>1. Books(handler[t], f[t], a, slots[a], queued[a], slots[a] - 1, queued[a])
    BY <1>5, <1>7, TransportAssumption DEF Books
  <2>2. CountersOK(handler, slots[a], queued[a], a)
    BY Zenon DEF ServerInv
  <2> QED BY <1>2, <2>1, <2>2, CountersMove, ZenonT(30)
<1>9. CountersOK(handler', slots[a], queued[a], a)
  <2>1. Books(f[h], handler'[h], a, slots[a] - 1, queued[a], slots[a], queued[a])
    BY <1>6, <1>7 DEF Books
  <2> QED BY <1>2, <1>8, <2>1, CountersMove, ZenonT(30)
<1>10. Served(handler', a, {"waiting"}) = Served(handler, a, {"waiting"}) \ {h}
  <2>1. \A u \in Thread : handler'[u].phase = "waiting" <=> handler[u].phase = "waiting" /\ u # h
    BY <1>1, <1>2, <1>3, NoCallIs, Zenon
  <2>2. \A u \in Thread : handler[u].phase = "waiting" /\ u # h => handler'[u].at = handler[u].at
    BY <1>1, <1>2, Zenon
  <2> QED BY <2>1, <2>2, Zenon DEF Served
<1>11. \A u \in Thread : \/ handler'[u] = handler[u]
                         \/ handler[u].at \in {a, Nobody} /\ handler'[u].at \in {a, Nobody}
  BY <1>2, <1>3, NoCallIs, Zenon
<1> QED BY <1>4, <1>9, <1>10, <1>11, Zenon

(* releaseUpload hands the slot to the first who waits, or frees it.       *)
LEMMA ReleaseServed ==
    ASSUME ServerInv, NEW t \in Thread, Release(t)
    PROVE  ServerInv'
<1> DEFINE a == handler[t].at
<1>1. handler[t].phase = "closing" /\ queued' = queued
  BY Zenon DEF Release
<1>2. a \in Addr /\ Handlers
  BY <1>1, Zenon DEF ServerInv, Handlers, HandlerState
<1>3. CASE waiting[a] = <<>>
  <2>1. /\ slots' = [slots EXCEPT ![a] = IF slots[a] > 0 THEN slots[a] - 1 ELSE slots[a]]
        /\ handler' = [handler EXCEPT ![t] = NoCall] /\ waiting' = waiting
    BY <1>3, Zenon DEF Release, Return
  <2>2. slots[a] \in Nat /\ slots[a] > 0 /\ slots[a] <= MaxConcurrency
    <3>1. t \in Served(handler, a, HoldsSlot)
      BY <1>1, Zenon DEF Served, HoldsSlot
    <3>2. slots[a] = Cardinality(Served(handler, a, HoldsSlot)) /\ IsFiniteSet(Served(handler, a, HoldsSlot))
      BY <1>2, ServedFinite, Zenon DEF ServerInv, CountersOK
    <3>3. /\ Cardinality(Served(handler, a, HoldsSlot))
                = Cardinality(Served(handler, a, HoldsSlot) \ {t}) + 1
          /\ Cardinality(Served(handler, a, HoldsSlot) \ {t}) \in Nat
      BY <3>1, <3>2, WithElement, Zenon
    <3> QED BY <1>2, <3>2, <3>3, Numbers
  <2>3. slots' = [slots EXCEPT ![a] = slots[a] - 1]
    BY <2>1, <2>2, Zenon
  <2>4. a # Nobody
    BY <1>2, TransportAssumption, Zenon
  <2>5. /\ Weight(handler[t], a, HoldsSlot) = 1 /\ Weight(handler[t], a, IsCounted) = 0
        /\ Weight(NoCall, a, HoldsSlot) = 0 /\ Weight(NoCall, a, IsCounted) = 0
        /\ Weight(NoCall, a, InLine) = 0
    BY <1>1, <2>4, NoCallIs, PhaseWeights, NoWeight, Zenon
  <2>6. MovesTo(t, a, NoCall)
    BY <1>1, <2>1, NoCallIs, Zenon DEF MovesTo
  <2>7. Books(handler[t], NoCall, a, slots[a], queued[a], slots[a] - 1, queued[a])
    BY <1>2, <2>2, <2>5, Numbers DEF Books
  <2>8. Assigns(a, slots[a] - 1, queued[a], waiting[a])
    BY <1>1, <1>2, <2>1, <2>3, Numbers, Zenon DEF Assigns
  <2> HIDE DEF a
  <2> QED BY <1>2, <1>3, <2>6, <2>7, <2>8, QuietStep, ZenonT(30)
<1>4. CASE waiting[a] # <<>>
  <2> DEFINE h == Head(waiting[a])
             w == Tail(waiting[a])
  <2>1. /\ slots' = slots /\ waiting' = [waiting EXCEPT ![a] = w]
        /\ handler' = [handler EXCEPT ![t] = NoCall, ![h].phase = "taken"]
    BY <1>4, Zenon DEF Release
  <2>2. QueueOK(handler, slots[a], waiting[a], a)
    BY <1>2, Zenon DEF ServerInv
  <2>3. /\ w \in Seq(Thread) /\ IsInjective(w) /\ Range(w) = Range(waiting[a]) \ {h}
        /\ h \in Range(waiting[a])
    BY <1>4, <2>2, HeadLeaves, Zenon DEF QueueOK
  <2> HIDE DEF h, w
  <2>4. h \in Thread /\ handler[h].at = a /\ handler[h].phase = "waiting"
    BY <2>2, <2>3, Zenon DEF QueueOK, Served
  <2>5. /\ Handlers' /\ CountersOK(handler', slots[a], queued[a], a)
        /\ Served(handler', a, {"waiting"}) = Served(handler, a, {"waiting"}) \ {h}
        /\ \A u \in Thread : \/ handler'[u] = handler[u]
                             \/ handler[u].at \in {a, Nobody} /\ handler'[u].at \in {a, Nobody}
    <3> HIDE DEF a
    <3>1. handler[t].at = a
      BY Zenon DEF a
    <3> QED BY <1>1, <1>2, <2>1, <2>4, <3>1, HandOver, Zenon
  <2>6. QueueOK(handler', slots[a], w, a)
    BY <1>4, <2>2, <2>3, <2>5, Zenon DEF QueueOK
  <2>7. Assigns(a, slots[a], queued[a], w) /\ slots[a] \in Nat /\ queued[a] \in Nat
    BY <1>1, <1>2, <2>1, Numbers, Zenon DEF Assigns
  <2> HIDE DEF a
  <2> QED BY <1>2, <2>3, <2>5, <2>6, <2>7, ServerStep, ZenonT(30)
<1> QED BY <1>3, <1>4, Zenon

(* A crash ends every handler of the server.                               *)
LEMMA CrashServed ==
    ASSUME ServerInv, NEW a \in Addr, Crash(a)
    PROVE  ServerInv'
<1>1. /\ handler' = [t \in Thread |-> IF t \in At(a) THEN NoCall ELSE handler[t]]
      /\ Assigns(a, 0, 0, <<>>)
  BY Zenon DEF Crash, Assigns
<1>2. /\ Handlers' /\ \A u \in Thread : handler'[u].at # a
      /\ \A u \in Thread : \/ handler'[u] = handler[u]
                           \/ handler[u].at \in {a, Nobody} /\ handler'[u].at \in {a, Nobody}
  <2>1. a # Nobody
    BY TransportAssumption, Zenon
  <2>2. ASSUME NEW u \in Thread
        PROVE  \/ handler[u].at = a /\ handler'[u] = NoCall
               \/ handler[u].at # a /\ handler'[u] = handler[u]
    BY <1>1, Zenon DEF At
  <2>3. handler' \in [Thread -> HandlerState]
    BY <1>1, NoCallIs, Zenon DEF ServerInv, Handlers
  <2> QED BY <2>1, <2>2, <2>3, NoCallIs, Zenon DEF ServerInv, Handlers
<1>3. \A phases : Served(handler', a, phases) = {}
  BY <1>2, Zenon DEF Served
<1>4. CountersOK(handler', 0, 0, a)
  BY <1>3, FS_EmptySet, TransportAssumption DEF CountersOK
<1>5. QueueOK(handler', 0, <<>>, a)
  BY <1>3 DEF QueueOK, IsInjective, Range
<1>6. 0 \in Nat /\ <<>> \in Seq(Thread)
  OBVIOUS
<1> QED BY <1>1, <1>2, <1>4, <1>5, <1>6, ServerStep, ZenonT(30)

(* What the client does on its own leaves the servers alone.               *)
LEMMA ServerSame ==
    ASSUME ServerInv, UNCHANGED server
    PROVE  ServerInv'
<1>1. handler' = handler /\ slots' = slots /\ waiting' = waiting /\ queued' = queued
  BY Zenon DEF server
<1>2. Handlers'
  BY <1>1, Zenon DEF ServerInv, Handlers
<1> QED BY <1>1, <1>2, Zenon DEF ServerInv

(* The servers start idle.                                                 *)
LEMMA ServerInvInit == NetInit => ServerInv
<1> SUFFICES ASSUME NetInit PROVE ServerInv
  BY Zenon
<1>1. /\ handler = [t \in Thread |-> NoCall] /\ slots = [a \in Addr |-> 0]
      /\ waiting = [a \in Addr |-> <<>>] /\ queued = [a \in Addr |-> 0]
  BY Zenon DEF NetInit
<1>2. Handlers
  BY <1>1, NoCallIs, Zenon DEF Handlers
<1>3. /\ slots \in [Addr -> Nat] /\ queued \in [Addr -> Nat] /\ waiting \in [Addr -> Seq(Thread)]
  BY <1>1
<1>4. ASSUME NEW a \in Addr, NEW phases PROVE Served(handler, a, phases) = {}
  BY <1>1, NoCallIs, TransportAssumption, Zenon DEF Served
<1>5. ASSUME NEW a \in Addr PROVE CountersOK(handler, 0, 0, a) /\ QueueOK(handler, 0, <<>>, a)
  <2>1. CountersOK(handler, 0, 0, a)
    BY <1>4, FS_EmptySet, TransportAssumption DEF CountersOK
  <2>2. QueueOK(handler, 0, <<>>, a)
    BY <1>4 DEF QueueOK, IsInjective, Range
  <2> QED BY <2>1, <2>2, Zenon
<1> QED BY <1>1, <1>2, <1>3, <1>5, Zenon DEF ServerInv

(* Every step keeps the invariant of the servers.                          *)
LEMMA ServerInvNext == PoolInv /\ ServerInv /\ [NetNext]_netVars => ServerInv'
<1> SUFFICES ASSUME PoolInv, ServerInv, [NetNext]_netVars PROVE ServerInv'
  BY Zenon
<1>1. ASSUME NEW t \in Thread, Download(t) PROVE ServerInv'
  <2>1. Request(t) \/ UNCHANGED server
    BY <1>1, Zenon DEF Download, DialFails, DialSucceeds, Store, Fail, AfterFailure
  <2> QED BY <2>1, RequestServed, ServerSame, Zenon
<1>2. ASSUME NEW t \in Thread, Serve(t) PROVE ServerInv'
  BY <1>2, TryAcquireServed, CountServed, WaitServed, GiveUpServed, UncountServed, EndStreamServed,
     ReleaseServed, Zenon DEF Serve
<1>3. ASSUME NEW t \in Thread, NEW a \in Addr, Hit(t, a) \/ Miss(t, a) PROVE ServerInv'
  BY <1>3, ServerSame, Zenon DEF Hit, Miss
<1>4. ASSUME NEW a \in Addr, StopBegins(a) \/ StopEnds(a) \/ Crash(a) \/ Start(a) PROVE ServerInv'
  BY <1>4, CrashServed, ServerSame, Zenon DEF StopBegins, StopEnds, Start
<1>5. CASE EvictIdle \/ Close
  BY <1>5, ServerSame, Zenon DEF EvictIdle, Close
<1>6. CASE UNCHANGED netVars
  BY <1>6, ServerSame, Zenon DEF netVars
<1> QED BY <1>1, <1>2, <1>3, <1>4, <1>5, <1>6, Zenon DEF NetNext

(* acquireUpload and releaseUpload keep exact books on every server, for   *)
(* any number of downloads, any capacity and queue size, and whatever      *)
(* clients leave, servers crash and connections are closed: no slot leaks, *)
(* nobody waits while one is free, and the queue keeps its bound.          *)
THEOREM UploadsCorrect == NetSpec => []UploadsExact
<1>1. ServerInv => UploadsExact
  <2> SUFFICES ASSUME ServerInv, NEW a \in Addr
               PROVE  /\ slots[a] = Cardinality(In(a, HoldsSlot))
                      /\ Range(waiting[a]) = In(a, {"waiting"})
                      /\ waiting[a] # <<>> => slots[a] = MaxConcurrency
                      /\ queued[a] = Cardinality(In(a, IsCounted))
                      /\ Cardinality(In(a, InLine)) <= MaxQueueSize
    BY Zenon DEF UploadsExact, HoldsSlot, IsCounted, InLine
  <2>1. \A phases : In(a, phases) = Served(handler, a, phases)
    BY Zenon DEF In, At, Served
  <2> QED BY <2>1, Zenon DEF ServerInv, CountersOK, QueueOK
<1> QED BY <1>1, PoolInvInit, PoolInvNext, ServerInvInit, ServerInvNext, PTL DEF NetSpec

-----------------------------------------------------------------------------
(* The handlers between their steps, and the distributions under watch.    *)
Counting   == [op: {"count"}, a: Artifact]
Beginning  == [op: {"begin"}, a: Artifact, expected: Nat \ {0}]
Reporting  == [op: {"ready"}, a: Artifact, n: Node]
Watching   == [expected: Nat \ {0}, ready: SUBSET Node, recorded: SUBSET Thresholds,
               before: SUBSET Node]

Typed ==
    /\ call \in [Call -> {Idle} \cup Counting \cup Beginning \cup Reporting]
    /\ fleet \in [Artifact -> {None} \cup Watching]

(* Where only lookups are followed nothing is published.                   *)
Unpublished ==
    part = "lookups" => /\ \A c \in Call : call[c] = Idle
                        /\ \A a \in Artifact : fleet[a] = None

IInv == Typed /\ Unpublished /\ MilestonesExact /\ SeededIsReady

(* The thresholds that k of m nodes reach.                                 *)
Reached(k, m) == {t \in Thresholds : k > 0 /\ k * 100 >= t * m}

(* The nodes that are ready are counted.                                   *)
LEMMA ReadyFinite ==
    ASSUME NEW S \in SUBSET Node
    PROVE  IsFiniteSet(S) /\ Cardinality(S) \in Nat
BY FS_Subset, FS_CardinalityType, RegistryAssumption, Zenon

(* One more ready node keeps what is reached and adds what it reaches.     *)
LEMMA OneMore ==
    ASSUME NEW k \in Nat, NEW m \in Nat \ {0}
    PROVE  Reached(k + 1, m) = Reached(k, m) \cup {t \in Thresholds : (k + 1) * 100 >= t * m}
BY DEF Reached, Thresholds

(* Nothing is reached without a node.                                      *)
LEMMA NoneReached ==
    ASSUME NEW m
    PROVE  Reached(0, m) = {}
BY DEF Reached

(* PutArtifact expects at least one node.                                  *)
LEMMA AtLeastOne ==
    ASSUME NEW m \in Nat
    PROVE  (IF m <= 0 THEN 1 ELSE m) \in Nat \ {0}
OBVIOUS

(* A handler that is about to count a node.                                *)
Ready(a, n) == [op |-> "ready", a |-> a, n |-> n]

(* A handler at rest.                                                      *)
LEMMA IdleIs ==
    Idle.op = "idle"
BY DEF Idle

(* The parts of one that is about to count a node.                         *)
LEMMA ReadyIs ==
    ASSUME NEW x, NEW a, NEW n, x = Ready(a, n)
    PROVE  x.op = "ready" /\ x.a = a /\ x.n = n
BY DEF Ready

(* What a handler carries from one step to the next.                       *)
LEMMA HandlerIs ==
    ASSUME NEW x \in {Idle} \cup Counting \cup Beginning \cup Reporting
    PROVE  /\ x.op = "count" => x.a \in Artifact
           /\ x.op = "begin" => x.a \in Artifact /\ x.expected \in Nat \ {0}
           /\ x.op = "ready" => x.a \in Artifact /\ x.n \in Node /\ x = Ready(x.a, x.n)
BY DEF Idle, Counting, Beginning, Reporting, Ready

(* MilestonesExact, artifact by artifact.                                  *)
LEMMA Milestones ==
    MilestonesExact <=>
        \A a \in Artifact : fleet[a] # None =>
            fleet[a].recorded = Reached(Cardinality(fleet[a].ready), fleet[a].expected)
BY Zenon DEF MilestonesExact, Reached

(* SeededIsReady, with the handlers by name.                               *)
LEMMA Seeded ==
    SeededIsReady <=>
        \A a \in Artifact, n \in Node :
            fleet[a] # None /\ <<a, n>> \in seeds /\ n \notin fleet[a].before =>
                n \in fleet[a].ready \/ \E c \in Call : call[c] = Ready(a, n)
BY Zenon DEF SeededIsReady, Ready

-----------------------------------------------------------------------------
(* A handler that is not about to count a node, and what it becomes.       *)
LEMMA OtherHandlers ==
    ASSUME IInv, NEW c \in Call, call[c].op # "ready", NEW r, call' = [call EXCEPT ![c] = r],
           NEW d \in Call, NEW a, NEW n, call[d] = Ready(a, n)
    PROVE  call'[d] = Ready(a, n)
<1>1. d # c
  <2>1. call[d].op = "ready"
    BY ReadyIs, ZenonT(30)
  <2> QED BY <2>1, Zenon
<1> QED BY <1>1, Zenon DEF IInv, Typed

(* Its steps that do not touch the watch.                                  *)
LEMMA SeededKept ==
    ASSUME IInv, NEW c \in Call, call[c].op # "ready", NEW r, call' = [call EXCEPT ![c] = r],
           fleet' = fleet, seeds' = seeds
    PROVE  SeededIsReady'
<1> SUFFICES ASSUME NEW a \in Artifact, NEW n \in Node,
                    fleet[a] # None, <<a, n>> \in seeds, n \notin fleet[a].before
             PROVE  n \in fleet[a].ready \/ \E d \in Call : call'[d] = Ready(a, n)
  BY Zenon DEF SeededIsReady, Ready
<1>1. n \in fleet[a].ready \/ \E d \in Call : call[d] = Ready(a, n)
  BY Seeded, Zenon DEF IInv
<1> QED BY <1>1, OtherHandlers, Zenon

(* Steps that leave handlers and watch alone and add no seeds.             *)
LEMMA QuietInv ==
    ASSUME IInv, UNCHANGED <<call, fleet, part>>,
           part = "lookups" \/ seeds' \subseteq seeds
    PROVE  IInv'
<1>1. Typed' /\ Unpublished' /\ MilestonesExact'
  BY Zenon DEF IInv, Typed, Unpublished, MilestonesExact
<1>2. SeededIsReady'
  BY Zenon DEF IInv, Unpublished, SeededIsReady
<1> QED BY <1>1, <1>2, Zenon DEF IInv

(* Who else is at work on the store.                                       *)
LEMMA ElsewhereInv ==
    ASSUME IInv, Elsewhere, UNCHANGED part
    PROVE  IInv'
<1>1. UNCHANGED <<call, fleet, part>>
  BY Zenon DEF Elsewhere
<1>2. part = "lookups" \/ seeds' \subseteq seeds
  BY Zenon DEF Elsewhere, UpsertPeer, Heartbeat, DeregisterPeer, PruneExpiredPeers, Passes,
         Forget, OfOthers
<1> QED BY <1>1, <1>2, QuietInv, Zenon

(* The lookups.                                                            *)
LEMMA LookUpInv ==
    ASSUME IInv, LookUp, UNCHANGED part
    PROVE  IInv'
<1>1. UNCHANGED <<call, fleet, seeds>>
  BY Zenon DEF LookUp, Refresh, ListSeeds, LocateArtifact, LocateArtifactFails, LocateRows,
         LocateChunks, LocateChunksEmpty, LocateChunksFails, storeVars
<1> QED BY <1>1, QuietInv, Zenon

(* After a restart nothing is under watch.                                 *)
LEMMA RestartInv ==
    ASSUME IInv, Restart, UNCHANGED part
    PROVE  IInv'
<1>1. /\ call' = [c \in Call |-> Idle]
      /\ fleet' = [a \in Artifact |-> None]
  BY Zenon DEF Restart
<1>2. Typed' /\ Unpublished' /\ MilestonesExact' /\ SeededIsReady'
  BY <1>1, Zenon DEF Typed, Unpublished, MilestonesExact, SeededIsReady
<1> QED BY <1>2, Zenon DEF IInv

-----------------------------------------------------------------------------
(* PutArtifact begins: the record is written.                              *)
LEMMA PublishInv ==
    ASSUME IInv, NEW c \in Call, NEW a \in Artifact, Publish(c, a), UNCHANGED part
    PROVE  IInv'
<1>1. /\ call[c] = Idle /\ part = "publications" /\ part' = part
      /\ call' = [call EXCEPT ![c] = [op |-> "count", a |-> a]]
      /\ UNCHANGED <<fleet, seeds>>
  BY Zenon DEF Publish, PutArtifact, Goto
<1>2. Typed'
  BY <1>1, Zenon DEF IInv, Typed, Counting
<1>3. Unpublished' /\ MilestonesExact'
  BY <1>1, Zenon DEF IInv, Unpublished, MilestonesExact
<1>4. SeededIsReady'
  BY <1>1, IdleIs, SeededKept, Zenon
<1> QED BY <1>2, <1>3, <1>4, Zenon DEF IInv

(* The active peers are counted, or none if the read fails.                *)
LEMMA CountActiveInv ==
    ASSUME IInv, NEW c \in Call, CountActive(c), UNCHANGED part
    PROVE  IInv'
<1>1. PICK m \in {Cardinality(Fresh), 0} :
        call' = [call EXCEPT ![c] = [op |-> "begin", a |-> call[c].a,
                                     expected |-> IF m <= 0 THEN 1 ELSE m]]
  BY Zenon DEF CountActive, Goto
<1>2. m \in Nat
  <2>1. Fresh \in SUBSET Node
    BY Zenon DEF Fresh, FreshAt, Registered
  <2>2. 0 \in Nat
    OBVIOUS
  <2> QED BY <2>1, <2>2, ReadyFinite, Zenon
<1>3. call[c].op = "count" /\ UNCHANGED <<fleet, seeds, part>>
  BY Zenon DEF CountActive, storeVars
<1>4. call[c].a \in Artifact /\ call[c] # Idle
  BY <1>3, HandlerIs, IdleIs, ZenonT(30) DEF IInv, Typed
<1>5. PICK e \in Nat \ {0} : e = IF m <= 0 THEN 1 ELSE m
  BY <1>2, AtLeastOne, Zenon
<1>6. call' = [call EXCEPT ![c] = [op |-> "begin", a |-> call[c].a, expected |-> e]]
  BY <1>1, <1>5, Zenon
<1>7. Typed'
  BY <1>3, <1>4, <1>6, Zenon DEF IInv, Typed, Beginning
<1>8. Unpublished' /\ MilestonesExact'
  BY <1>3, <1>4, Zenon DEF IInv, Unpublished, MilestonesExact
<1>9. SeededIsReady'
  BY <1>3, <1>6, SeededKept, Zenon
<1> QED BY <1>7, <1>8, <1>9, Zenon DEF IInv

(* The watch begins, again or for the first time.                          *)
LEMMA BeginDistributionInv ==
    ASSUME IInv, NEW c \in Call, BeginDistribution(c), UNCHANGED part
    PROVE  IInv'
<1>1. call[c].op = "begin" /\ UNCHANGED <<seeds, part>> /\ call' = [call EXCEPT ![c] = Idle]
  BY Zenon DEF BeginDistribution, Goto, storeVars
<1>2. PICK a \in Artifact, e \in Nat \ {0} : a = call[c].a /\ e = call[c].expected
  BY <1>1, HandlerIs, Zenon DEF IInv, Typed
<1>3. PICK B \in SUBSET Node : B = {n \in Node : <<a, n>> \in seeds}
  BY Zenon
<1>4. PICK f : f = [expected |-> e, ready |-> {}, recorded |-> {}, before |-> B]
  BY Zenon
<1>5. fleet' = [fleet EXCEPT ![a] = f]
  BY <1>2, <1>3, <1>4, Zenon DEF BeginDistribution
<1>6. f \in Watching
  BY <1>3, <1>4, Zenon DEF Watching
<1>7. Typed'
  BY <1>1, <1>5, <1>6, Zenon DEF IInv, Typed
<1>8. Unpublished'
  BY <1>1, IdleIs, ZenonT(30) DEF IInv, Unpublished
<1>9. MilestonesExact'
  <2>1. Cardinality({}) = 0
    BY FS_EmptySet, Zenon
  <2>2. f.recorded = Reached(Cardinality(f.ready), f.expected)
    BY <1>4, <2>1, NoneReached, Zenon
  <2>3. ASSUME NEW b \in Artifact, fleet'[b] # None
        PROVE  fleet'[b].recorded = Reached(Cardinality(fleet'[b].ready), fleet'[b].expected)
    BY <1>5, <2>2, <2>3, Milestones, Zenon DEF IInv, Typed
  <2> QED BY <2>3, Zenon DEF MilestonesExact, Reached
<1>10. SeededIsReady'
  <2> SUFFICES ASSUME NEW b \in Artifact, NEW n \in Node,
                      fleet'[b] # None, <<b, n>> \in seeds, n \notin fleet'[b].before
               PROVE  n \in fleet'[b].ready \/ \E d \in Call : call'[d] = Ready(b, n)
    BY <1>1, Zenon DEF SeededIsReady, Ready
  <2>1. b # a
    BY <1>3, <1>4, <1>5, Zenon DEF IInv, Typed
  <2>2. fleet'[b] = fleet[b]
    BY <1>5, <2>1, Zenon DEF IInv, Typed
  <2>3. n \in fleet[b].ready \/ \E d \in Call : call[d] = Ready(b, n)
    BY <2>2, Seeded, Zenon DEF IInv
  <2> QED BY <1>1, <2>2, <2>3, OtherHandlers, Zenon
<1> QED BY <1>7, <1>8, <1>9, <1>10, Zenon DEF IInv

(* A seed is recorded, and its handler is on the way to count it.          *)
LEMMA ReportArtifactInv ==
    ASSUME IInv, NEW c \in Call, NEW n \in Node, NEW a \in Artifact,
           ReportArtifact(c, n, a), UNCHANGED part
    PROVE  IInv'
<1>1. /\ call[c] = Idle /\ part = "publications" /\ part' = part
      /\ call' = [call EXCEPT ![c] = [op |-> "ready", a |-> a, n |-> n]]
      /\ seeds' = seeds \cup {<<a, n>>} /\ UNCHANGED fleet
  BY Zenon DEF ReportArtifact, ReportSeed, Goto
<1>2. Typed'
  BY <1>1, Zenon DEF IInv, Typed, Reporting
<1>3. Unpublished' /\ MilestonesExact'
  BY <1>1, Zenon DEF IInv, Unpublished, MilestonesExact
<1>4. SeededIsReady'
  <2> SUFFICES ASSUME NEW b \in Artifact, NEW m \in Node,
                      fleet[b] # None, <<b, m>> \in seeds', m \notin fleet[b].before
               PROVE  m \in fleet[b].ready \/ \E d \in Call : call'[d] = Ready(b, m)
    BY <1>1, Zenon DEF SeededIsReady, Ready
  <2>1. CASE b = a /\ m = n
    BY <1>1, <2>1, Zenon DEF IInv, Typed, Ready
  <2>2. CASE <<b, m>> \in seeds
    <3>1. m \in fleet[b].ready \/ \E d \in Call : call[d] = Ready(b, m)
      BY <2>2, Seeded, Zenon DEF IInv
    <3>2. call[c].op # "ready"
      BY <1>1, IdleIs, Zenon
    <3> QED BY <1>1, <3>1, <3>2, OtherHandlers, Zenon
  <2> QED BY <1>1, <2>1, <2>2, Zenon
<1> QED BY <1>2, <1>3, <1>4, Zenon DEF IInv

(* The node is counted, once.                                              *)
LEMMA NodeReadyInv ==
    ASSUME IInv, NEW c \in Call, NodeReady(c), UNCHANGED part
    PROVE  IInv'
<1>1. call[c].op = "ready" /\ UNCHANGED <<seeds, part>> /\ call' = [call EXCEPT ![c] = Idle]
  BY Zenon DEF NodeReady, Goto, storeVars
<1>2. PICK a \in Artifact, n \in Node : call[c].a = a /\ call[c].n = n
  BY <1>1, HandlerIs, Zenon DEF IInv, Typed
<1>3. PICK f : f = fleet[a]
  BY Zenon
<1>4. Unpublished'
  BY <1>1, IdleIs, ZenonT(30) DEF IInv, Unpublished
<1>5. CASE f = None \/ n \in f.ready
  <2>1. fleet' = fleet
    BY <1>2, <1>3, <1>5, Zenon DEF NodeReady
  <2>2. Typed' /\ MilestonesExact'
    BY <1>1, <2>1, Zenon DEF IInv, Typed, MilestonesExact
  <2>3. SeededIsReady'
    <3> SUFFICES ASSUME NEW b \in Artifact, NEW m \in Node,
                        fleet[b] # None, <<b, m>> \in seeds, m \notin fleet[b].before
                 PROVE  m \in fleet[b].ready \/ \E d \in Call : call'[d] = Ready(b, m)
      BY <1>1, <2>1, Zenon DEF SeededIsReady, Ready
    <3>1. ASSUME NEW d \in Call, call[d] = Ready(b, m), d = c PROVE m \in fleet[b].ready
      <4>1. call[c].a = b /\ call[c].n = m
        BY <3>1, ReadyIs, ZenonT(30)
      <4> QED BY <1>2, <1>3, <1>5, <4>1, Zenon
    <3>2. ASSUME NEW d \in Call, call[d] = Ready(b, m), d # c PROVE call'[d] = Ready(b, m)
      BY <1>1, <3>2, Zenon DEF IInv, Typed
    <3>3. m \in fleet[b].ready \/ \E d \in Call : call[d] = Ready(b, m)
      BY Seeded, Zenon DEF IInv
    <3> QED BY <3>1, <3>2, <3>3, Zenon
  <2> QED BY <1>4, <2>2, <2>3, Zenon DEF IInv
<1>6. CASE f # None /\ n \notin f.ready
  <2>1. f \in Watching /\ f.ready \in SUBSET Node /\ f.expected \in Nat \ {0}
    BY <1>3, <1>6, Zenon DEF IInv, Typed, Watching
  <2>2. PICK R : R = f.ready \cup {n}
    BY Zenon
  <2>3. PICK k \in Nat : k = Cardinality(f.ready)
    BY <2>1, ReadyFinite, Zenon
  <2>4. R \in SUBSET Node /\ Cardinality(R) = k + 1
    BY <1>6, <2>1, <2>2, <2>3, ReadyFinite, FS_AddElement, Zenon
  <2>5. PICK T : T = f.recorded \cup {t \in Thresholds : Cardinality(R) * 100 >= t * f.expected}
    BY Zenon
  <2>6. PICK g : g = [f EXCEPT !.ready = R, !.recorded = T] /\ fleet' = [fleet EXCEPT ![a] = g]
    <3>1. fleet' = [fleet EXCEPT ![a] = [f EXCEPT !.ready = R, !.recorded = T]]
      BY <1>2, <1>3, <1>6, <2>2, <2>5, Zenon DEF NodeReady
    <3> QED BY <3>1, Zenon
  <2>7. /\ g \in Watching /\ g.ready = R /\ g.expected = f.expected /\ g.before = f.before
        /\ g.recorded = f.recorded \cup {t \in Thresholds : (k + 1) * 100 >= t * f.expected}
    BY <2>1, <2>4, <2>5, <2>6, Zenon DEF Watching
  <2>8. Typed'
    BY <1>1, <2>6, <2>7, Zenon DEF IInv, Typed
  <2>9. MilestonesExact'
    <3>1. f.recorded = Reached(k, f.expected)
      BY <1>3, <1>6, <2>3, Milestones, Zenon DEF IInv
    <3>2. g.recorded = Reached(k + 1, g.expected)
      BY <2>1, <2>7, <3>1, OneMore, Zenon
    <3>3. ASSUME NEW b \in Artifact, fleet'[b] # None
          PROVE  fleet'[b].recorded = Reached(Cardinality(fleet'[b].ready), fleet'[b].expected)
      BY <2>4, <2>6, <2>7, <3>2, <3>3, Milestones, Zenon DEF IInv, Typed
    <3> QED BY <3>3, Zenon DEF MilestonesExact, Reached
  <2>10. SeededIsReady'
    <3> SUFFICES ASSUME NEW b \in Artifact, NEW m \in Node,
                        fleet'[b] # None, <<b, m>> \in seeds, m \notin fleet'[b].before
                 PROVE  m \in fleet'[b].ready \/ \E d \in Call : call'[d] = Ready(b, m)
      BY <1>1, Zenon DEF SeededIsReady, Ready
    <3>1. fleet[b] # None /\ m \notin fleet[b].before
      BY <1>3, <1>6, <2>6, <2>7, Zenon DEF IInv, Typed
    <3>2. fleet[b].ready \subseteq fleet'[b].ready
      BY <1>3, <2>2, <2>6, <2>7, Zenon DEF IInv, Typed
    <3>3. CASE m \in fleet[b].ready
      BY <3>2, <3>3, Zenon
    <3>4. CASE \E d \in Call : call[d] = Ready(b, m)
      <4>1. PICK d \in Call : call[d] = Ready(b, m)
        BY <3>4, Zenon
      <4>2. CASE d = c
        <5>1. b = a /\ m = n
          <6>1. call[d].a = b /\ call[d].n = m
            BY <4>1, ReadyIs, ZenonT(30)
          <6> QED BY <1>2, <4>2, <6>1, Zenon
        <5> QED BY <2>2, <2>6, <2>7, <5>1, Zenon DEF IInv, Typed
      <4>3. CASE d # c
        BY <1>1, <4>1, <4>3, Zenon DEF IInv, Typed
      <4> QED BY <4>2, <4>3, Zenon
    <3> QED BY <3>1, <3>3, <3>4, Seeded, Zenon DEF IInv
  <2> QED BY <1>4, <2>8, <2>9, <2>10, Zenon DEF IInv
<1> QED BY <1>5, <1>6, Zenon

-----------------------------------------------------------------------------
(* The invariant holds at the start.                                       *)
LEMMA InitInv == Init => IInv
BY Zenon DEF Init, StoreInit, IInv, Typed, Unpublished, MilestonesExact, SeededIsReady

(* Every step keeps the invariant.                                         *)
LEMMA NextInv == IInv /\ [Next]_vars => IInv'
<1> SUFFICES ASSUME IInv, [Next]_vars PROVE IInv'
  BY Zenon
<1>1. CASE UNCHANGED vars
  BY <1>1, QuietInv, Zenon DEF vars, registryVars, storeVars
<1>2. CASE Next
  <2>1. UNCHANGED part
    BY <1>2, Zenon DEF Next
  <2>2. ASSUME NEW c \in Call, Handle(c) PROVE IInv'
    BY <2>1, <2>2, PublishInv, CountActiveInv, BeginDistributionInv, ReportArtifactInv,
       NodeReadyInv, RegistryAssumption, Zenon DEF Handle
  <2> QED BY <1>2, <2>1, <2>2, ElsewhereInv, LookUpInv, RestartInv, Zenon DEF Next
<1> QED BY <1>1, <1>2, Zenon

(* The inductive invariant holds throughout.                               *)
LEMMA Invariance == Spec => []IInv
BY InitInv, NextInv, PTL DEF Spec

(* The milestones on record are those that are reached, whatever           *)
(* publications, reports and restarts interleave.                          *)
THEOREM MilestonesCorrect == Spec => []MilestonesExact
<1>1. IInv => MilestonesExact
  BY Zenon DEF IInv
<1> QED BY <1>1, Invariance, PTL

(* Every seed that was recorded since the watch began is counted, or its   *)
(* handler is about to count it.                                           *)
THEOREM SeedsCounted == Spec => []SeededIsReady
<1>1. IInv => SeededIsReady
  BY Zenon DEF IInv
<1> QED BY <1>1, Invariance, PTL

-----------------------------------------------------------------------------
(* The order of the peers in an answer.                                    *)

(* Every set of naturals has a least element.                              *)
LEMMA Least ==
    ASSUME NEW T, T \subseteq Nat, T # {}
    PROVE  \E x \in T : \A y \in T : x <= y
<1>1. PICK x \in T : \A y \in T : ~ (<<y, x>> \in OpToRel(<, Nat))
  BY NatLessThanWellFounded, WFMin, Zenon
<1>2. \A y \in T : ~ (y < x)
  BY <1>1, Zenon DEF OpToRel
<1> QED BY <1>2

(* Induction over the naturals, with a set in place of a predicate.        *)
LEMMA Induction ==
    ASSUME NEW T, 0 \in T, \A n \in Nat : n \in T => n + 1 \in T
    PROVE  Nat \subseteq T
<1> SUFFICES ASSUME Nat \ T # {} PROVE FALSE
  BY Zenon
<1>1. PICK m \in Nat \ T : \A n \in Nat \ T : m <= n
  BY Least, Zenon
<1>2. m - 1 \in Nat /\ m - 1 \in T
  BY <1>1
<1>3. (m - 1) + 1 \in T
  BY <1>2, Zenon
<1> QED BY <1>3

(* A distance is one of five numbers.                                      *)
LEMMA DistanceNat ==
    ASSUME NEW a, NEW b
    PROVE  Distance(a, b) \in Nat
BY Zenon DEF Distance

(* One of the peers is the nearest, with the smallest ID among equals.     *)
LEMMA NearestExists ==
    ASSUME NEW self, NEW S \in SUBSET Node, S # {}
    PROVE  \E m \in S : \A n \in S \ {m} : Before(self, Loc, m, n)
<1> DEFINE D == {Distance(self, Loc[n]) : n \in S}
<1>0. D \subseteq Nat /\ D # {}
  BY DistanceNat, Zenon
<1>1. PICK d \in D : \A e \in D : d <= e
  <2> HIDE DEF D
  <2> QED BY <1>0, Least, Zenon
<1> DEFINE N == {n \in S : Distance(self, Loc[n]) = d}
<1>2. N # {} /\ N \subseteq Nat
  BY RegistryAssumption, Zenon
<1>3. PICK m \in N : \A n \in N : m <= n
  BY <1>2, Least, Zenon
<1>4. ASSUME NEW n \in S \ {m} PROVE Before(self, Loc, m, n)
  <2>1. Distance(self, Loc[m]) = d /\ Distance(self, Loc[n]) >= d
    BY <1>1, Zenon
  <2>2. Distance(self, Loc[n]) \in Nat /\ d \in Nat /\ m \in Nat /\ n \in Nat
    BY <2>1, DistanceNat, RegistryAssumption, Zenon
  <2>3. Distance(self, Loc[n]) = d => m < n
    BY <1>3, <2>2
  <2> QED BY <2>1, <2>2, <2>3 DEF Before
<1> QED BY <1>4, Zenon

InOrder(self, S, s) ==
    /\ s \in [1..Cardinality(S) -> S]
    /\ \A i, j \in 1..Cardinality(S) : i < j => Before(self, Loc, s[i], s[j])

(* One more peer in front.                                                 *)
LEMMA Prepended ==
    ASSUME NEW self, NEW S \in SUBSET Node, NEW k \in Nat, Cardinality(S) = k + 1,
           NEW m \in S, \A n \in S \ {m} : Before(self, Loc, m, n),
           NEW R, R = S \ {m}, Cardinality(R) = k, NEW t, InOrder(self, R, t)
    PROVE  \E s : InOrder(self, S, s)
<1> DEFINE s == [i \in 1..(k + 1) |-> IF i = 1 THEN m ELSE t[i - 1]]
<1>1. \A i \in 1..(k + 1) : i # 1 => i - 1 \in 1..k /\ s[i] = t[i - 1] /\ t[i - 1] \in R
  <2>1. \A i \in 1..(k + 1) : i # 1 => i - 1 \in 1..k
    OBVIOUS
  <2> QED BY <2>1, Zenon DEF InOrder
<1>2. s \in [1..(k + 1) -> S] /\ s[1] = m
  BY <1>1
<1>3. ASSUME NEW i \in 1..(k + 1), NEW j \in 1..(k + 1), i < j
      PROVE  Before(self, Loc, s[i], s[j])
  <2>1. j # 1 /\ s[j] \in S \ {m} /\ j - 1 \in 1..k /\ s[j] = t[j - 1]
    BY <1>1, <1>3
  <2>2. CASE i = 1
    BY <1>2, <2>1, <2>2, Zenon
  <2>3. CASE i # 1
    <3>1. i - 1 \in 1..k /\ s[i] = t[i - 1] /\ i - 1 < j - 1
      BY <1>1, <1>3, <2>3
    <3> HIDE DEF s
    <3> QED BY <2>1, <3>1, Zenon DEF InOrder
  <2> QED BY <2>2, <2>3, Zenon
<1> HIDE DEF s
<1>4. InOrder(self, S, s)
  BY <1>2, <1>3, Zenon DEF InOrder
<1> QED BY <1>4, Zenon

(* Every set of peers can be sorted.                                       *)
LEMMA SortExists ==
    ASSUME NEW self
    PROVE  \A S \in SUBSET Node : \E s : InOrder(self, S, s)
<1> DEFINE T == {k \in Nat : \A S \in SUBSET Node : Cardinality(S) = k => \E s : InOrder(self, S, s)}
<1>1. 0 \in T
  <2> SUFFICES ASSUME NEW S \in SUBSET Node, Cardinality(S) = 0 PROVE \E s : InOrder(self, S, s)
    BY Zenon
  <2>1. InOrder(self, S, [i \in 1..0 |-> i])
    BY DEF InOrder
  <2> QED BY <2>1, Zenon
<1>2. ASSUME NEW k \in Nat, k \in T PROVE k + 1 \in T
  <2> SUFFICES ASSUME NEW S \in SUBSET Node, Cardinality(S) = k + 1 PROVE \E s : InOrder(self, S, s)
    OBVIOUS
  <2>1. S # {} /\ IsFiniteSet(S)
    BY ReadyFinite, FS_EmptySet
  <2>2. PICK m \in S : \A n \in S \ {m} : Before(self, Loc, m, n)
    BY <2>1, NearestExists, Zenon
  <2>3. PICK R : R = S \ {m}
    BY Zenon
  <2>4. R \in SUBSET Node /\ Cardinality(R) = k
    <3>1. Cardinality(R) = Cardinality(S) - 1
      BY <2>1, <2>3, FS_RemoveElement, Zenon
    <3> QED BY <2>3, <3>1
  <2>5. PICK t : InOrder(self, R, t)
    BY <1>2, <2>4, Zenon
  <2> QED BY <2>2, <2>3, <2>4, <2>5, Prepended, Zenon
<1>3. Nat \subseteq T
  <2> HIDE DEF T
  <2> QED BY <1>1, <1>2, Induction, Zenon
<1>4. \A S \in SUBSET Node : Cardinality(S) \in T
  BY <1>3, ReadyFinite, Zenon
<1> QED BY <1>4, Zenon

(* SortPeersByProximity returns the peers, in order.                       *)
LEMMA SortedInOrder ==
    ASSUME NEW self, NEW S \in SUBSET Node
    PROVE  InOrder(self, S, Sorted(self, S))
<1>1. PICK s : InOrder(self, S, s)
  BY SortExists, Zenon
<1> DEFINE P(q) == \A i, j \in 1..Cardinality(S) : i < j => Before(self, Loc, q[i], q[j])
<1>2. s \in [1..Cardinality(S) -> S] /\ P(s)
  BY <1>1, Zenon DEF InOrder
<1>3. PICK c : c = CHOOSE q \in [1..Cardinality(S) -> S] : P(q)
  BY Zenon
<1>4. Sorted(self, S) = c
  BY <1>3, Zenon DEF Sorted
<1>5. c \in [1..Cardinality(S) -> S] /\ P(c)
  <2> HIDE DEF P
  <2> QED BY <1>2, <1>3, Zenon
<1> QED BY <1>4, <1>5, Zenon DEF InOrder

-----------------------------------------------------------------------------
(* The refresh of Self: while it is under way, alive has the nodes that    *)
(* are registered and fresh, by the clock and by the time the handler has  *)
(* read from it, and in its answer the peers come in order.                *)
Listed(self, alive, s) ==
    /\ s \in Seq(Node)
    /\ \A i \in DOMAIN s : s[i] \in alive \ {Self}
    /\ \A i, j \in DOMAIN s : i < j => Before(self, Loc, s[i], s[j])

Underway == {"seeds", "seedpeers", "rows", "rowpeers"}

(* The clock and the stamps of the store.                                  *)
Dated == now \in Nat /\ hb \in [Node -> {Absent} \cup Nat]

LookInv ==
    /\ look.op \in Underway \cup {"idle", "answered"}
    /\ look.op \in {"seeds", "rows"} => look = [op |-> look.op, alive |-> look.alive]
    /\ look.op = "seedpeers" => look = [op |-> "seedpeers", alive |-> look.alive, ids |-> look.ids]
    /\ look.op = "rowpeers" =>
          look = [op |-> "rowpeers", alive |-> look.alive, self |-> look.self, at |-> look.at,
                  rows |-> look.rows]
    /\ look.op \in Underway => Fresh \subseteq look.alive
    /\ look.op = "rowpeers" => FreshAt(look.at) \subseteq look.alive
    /\ Dated
    /\ look.op = "answered" => \A h \in Chunk : Listed(look.self, look.alive, locs[h])

(* A list without peers.                                                   *)
LEMMA EmptyListed ==
    ASSUME NEW self, NEW alive
    PROVE  Listed(self, alive, <<>>)
BY DEF Listed

(* A list that is sorted from fresh peers.                                 *)
LEMMA SortedListed ==
    ASSUME NEW self, NEW alive, NEW S \in SUBSET Node, S \subseteq alive \ {Self}
    PROVE  Listed(self, alive, Sorted(self, S))
<1>1. PICK s : s = Sorted(self, S)
  BY Zenon
<1>2. Cardinality(S) \in Nat /\ InOrder(self, S, s)
  BY <1>1, ReadyFinite, SortedInOrder, Zenon
<1>3. s \in Seq(Node) /\ DOMAIN s = 1..Cardinality(S)
  BY <1>2 DEF InOrder
<1> QED BY <1>1, <1>2, <1>3, Zenon DEF InOrder, Listed

(* A stamp that is written is fresh by the clock.                          *)
LEMMA Stamps ==
    ASSUME Dated, NEW n \in Node, NEW t \in Recent, hb' = [hb EXCEPT ![n] = t], now' = now
    PROVE  /\ Dated'
           /\ \A m \in Node : m \in Fresh' \/ hb'[m] = hb[m]
<1>1. now \in Nat /\ t \in Nat /\ now - t <= Expiry
  BY RegistryAssumption, StoreAssumption DEF Dated, Recent
<1>2. Dated'
  BY <1>1 DEF Dated
<1>3. hb'[n] = t /\ t # Absent
  BY <1>1 DEF Dated, Absent
<1>4. n \in Fresh'
  BY <1>1, <1>3, Zenon DEF Fresh, FreshAt, Registered
<1>5. \A m \in Node : m # n => hb'[m] = hb[m]
  BY Zenon DEF Dated
<1> QED BY <1>2, <1>4, <1>5, Zenon

(* Peers that are forgotten are not fresh by any clock.                    *)
LEMMA Forgets ==
    ASSUME Dated, NEW S, Forget(S), now' = now
    PROVE  /\ Dated'
           /\ \A m \in Node : hb'[m] = Absent \/ hb'[m] = hb[m]
<1>1. hb' = [m \in Node |-> IF m \in S THEN Absent ELSE hb[m]]
  BY Zenon DEF Forget
<1> QED BY <1>1, Zenon DEF Dated

(* What others do to the stamps while a refresh is under way.              *)
LEMMA StampsElsewhere ==
    ASSUME Dated, Elsewhere
    PROVE  /\ Dated'
           /\ \A m \in Node : m \in Fresh' \/ hb'[m] = Absent \/ hb'[m] = hb[m]
<1>1. CASE \E n \in Node : UpsertPeer(n) \/ Heartbeat(n)
  <2>1. PICK n \in Node, t \in Recent : hb' = [hb EXCEPT ![n] = t] /\ now' = now
    BY <1>1, Zenon DEF UpsertPeer, Heartbeat
  <2> QED BY <2>1, Stamps, Zenon
<1>2. CASE \E n \in Node, H \in (SUBSET Chunk) \ {{}} : ReportChunks(n, H)
  <2>1. CASE UNCHANGED <<now, hb>>
    BY <2>1, Zenon DEF Dated
  <2>2. CASE \E n \in Node : \E t \in Recent : hb' = [hb EXCEPT ![n] = t] /\ now' = now
    BY <2>2, Stamps, Zenon
  <2> QED BY <1>2, <2>1, <2>2, Zenon DEF ReportChunks
<1>3. CASE (\E n \in Node : DeregisterPeer(n)) \/ PruneExpiredPeers
  <2>1. PICK S : Forget(S) /\ now' = now
    BY <1>3, Zenon DEF DeregisterPeer, PruneExpiredPeers
  <2> QED BY <2>1, Forgets, Zenon
<1>4. CASE Passes
  BY <1>4 DEF Passes, Dated
<1>5. CASE \E n \in Seeder, a \in Artifact : ReportSeed(a, n)
  BY <1>5, Zenon DEF ReportSeed, Dated
<1> QED BY <1>1, <1>2, <1>3, <1>4, <1>5, Zenon DEF Elsewhere

(* Steps of others: whoever becomes fresh is in alive.                     *)
LEMMA LookElsewhere ==
    ASSUME LookInv, Elsewhere
    PROVE  LookInv'
<1>1. Watch /\ locs' = locs
  BY Zenon DEF Elsewhere
<1>2. CASE look.op \in {"idle", "answered"}
  BY <1>1, <1>2, StampsElsewhere, Zenon DEF LookInv, Watch, Underway
<1>3. CASE look.op \in Underway
  <2>1. PICK F : F = Fresh'
    BY Zenon
  <2>2. look' = [look EXCEPT !.alive = @ \cup F]
    BY <1>1, <1>3, <2>1, Zenon DEF Watch, Underway
  <2>3. /\ look'.op = look.op /\ look'.alive = look.alive \cup F
        /\ look.op = "rowpeers" => look'.self = look.self /\ look'.at = look.at /\ look'.rows = look.rows
        /\ look.op = "seedpeers" => look'.ids = look.ids
        /\ look.op \in {"seeds", "rows"} => look' = [op |-> look'.op, alive |-> look'.alive]
        /\ look.op = "seedpeers" => look' = [op |-> "seedpeers", alive |-> look'.alive, ids |-> look'.ids]
        /\ look.op = "rowpeers" =>
              look' = [op |-> "rowpeers", alive |-> look'.alive, self |-> look'.self, at |-> look'.at,
                       rows |-> look'.rows]
    BY <1>3, <2>2, Zenon DEF LookInv, Underway
  <2>4. CASE look.op = "rowpeers"
    <3>1. FreshAt(look.at)' \subseteq look'.alive
      <4>1. PICK s : s = look.at /\ s = look'.at
        BY <2>3, <2>4, Zenon
      <4>2. SUFFICES ASSUME NEW n \in Node, hb'[n] # Absent, s - hb'[n] <= Expiry
                     PROVE  n \in look'.alive
        BY <4>1, Zenon DEF FreshAt, Registered
      <4>3. n \in F \/ hb'[n] = hb[n]
        BY <2>1, <4>2, StampsElsewhere, Zenon DEF LookInv
      <4>4. hb'[n] = hb[n] => n \in FreshAt(look.at)
        BY <4>1, <4>2, Zenon DEF FreshAt, Registered
      <4> QED BY <2>3, <2>4, <4>3, <4>4, Zenon DEF LookInv
    <3> QED BY <2>1, <2>3, <2>4, <3>1, StampsElsewhere, Zenon DEF LookInv, Underway
  <2> QED BY <1>3, <2>1, <2>3, <2>4, StampsElsewhere, Zenon DEF LookInv, Underway
<1> QED BY <1>2, <1>3, Zenon DEF LookInv

(* Steps of the refresh.                                                   *)
LEMMA LookSteps ==
    ASSUME LookInv, LookUp
    PROVE  LookInv'
<1> UNCHANGED <<now, hb>>
  BY Zenon DEF LookUp, Refresh, ListSeeds, LocateArtifact, LocateArtifactFails, LocateRows,
         LocateChunks, LocateChunksEmpty, LocateChunksFails, storeVars
<1> Dated'
  BY Zenon DEF LookInv, Dated
<1>1. PICK F : F = Fresh /\ Fresh' = F
  BY Zenon DEF Fresh, FreshAt, Registered
<1>2. CASE Refresh
  BY <1>1, <1>2, Zenon DEF Refresh, LookInv, Underway
<1>3. CASE ListSeeds
  BY <1>1, <1>3, Zenon DEF ListSeeds, LookInv, Underway
<1>4. CASE LocateArtifact \/ LocateArtifactFails
  <2>1. look' = [op |-> "rows", alive |-> look.alive] /\ look.op \in {"seeds", "seedpeers"}
    BY <1>4, Zenon DEF LocateArtifact, LocateArtifactFails
  <2> QED BY <1>1, <2>1, Zenon DEF LookInv, Underway
<1>5. CASE LocateRows
  <2>1. PICK q, t, alive : q = look' /\ t = now /\ alive = look.alive
    BY Zenon
  <2>2. PICK self, rows : q = [op |-> "rowpeers", alive |-> alive, self |-> self, at |-> t, rows |-> rows]
    BY <1>5, <2>1, Zenon DEF LocateRows
  <2>3. q.op = "rowpeers" /\ q.alive = alive /\ q.at = t
        /\ q = [op |-> "rowpeers", alive |-> q.alive, self |-> q.self, at |-> q.at, rows |-> q.rows]
    BY <2>2, Zenon
  <2>4. F \subseteq alive
    BY <1>1, <1>5, <2>1, Zenon DEF LocateRows, LookInv, Underway
  <2>5. FreshAt(look.at)' = F
    BY <1>1, <2>1, <2>3, Zenon DEF Fresh
  <2> QED BY <1>1, <2>1, <2>3, <2>4, <2>5, Zenon DEF LookInv, Underway
<1>6. CASE LocateChunks
  <2>1. PICK self, alive, at, rows :
           self = look.self /\ alive = look.alive /\ at = look.at /\ rows = look.rows
    BY Zenon
  <2>2. /\ look' = [op |-> "answered", alive |-> alive, self |-> self] /\ FreshAt(at) \subseteq alive
        /\ locs' = [h \in Chunk |-> Sorted(self, PeersOf({n \in Node : <<h, n>> \in rows}, at))]
    BY <1>1, <1>6, <2>1, Zenon DEF LocateChunks, LookInv, Underway
  <2>3. ASSUME NEW h \in Chunk PROVE Listed(self, alive, locs'[h])
    <3>1. PICK S : S = PeersOf({n \in Node : <<h, n>> \in rows}, at)
      BY Zenon
    <3>2. S \in SUBSET Node /\ S \subseteq alive \ {Self}
      BY <1>1, <2>2, <3>1, Zenon DEF PeersOf
    <3> QED BY <2>2, <3>1, <3>2, SortedListed, Zenon
  <2> QED BY <2>2, <2>3, Zenon DEF LookInv, Underway
<1>7. CASE LocateChunksEmpty
  <2>1. /\ look'.op = "answered" /\ look'.self = Nowhere
        /\ locs' = [h \in Chunk |-> <<>>]
    BY <1>7, Zenon DEF LocateChunksEmpty
  <2> QED BY <2>1, EmptyListed, Zenon DEF LookInv, Underway
<1>8. CASE LocateChunksFails
  BY <1>8, Zenon DEF LocateChunksFails, Idle, LookInv, Underway
<1> QED BY <1>2, <1>3, <1>4, <1>5, <1>6, <1>7, <1>8, Zenon DEF LookUp

(* Every step keeps the refresh right.                                     *)
LEMMA LookNext ==
    ASSUME LookInv, [Next]_vars
    PROVE  LookInv'
<1>1. CASE UNCHANGED vars
  BY <1>1, Zenon DEF LookInv, Dated, vars, storeVars, registryVars, Fresh, FreshAt, Registered
<1>2. ASSUME NEW c \in Call, Handle(c) PROVE LookInv'
  <2>1. UNCHANGED <<look, locs, now, hb>>
    BY <1>2, Zenon DEF Handle, Publish, CountActive, BeginDistribution, ReportArtifact, NodeReady,
                PutArtifact, ReportSeed, storeVars
  <2> QED BY <2>1, Zenon DEF LookInv, Dated, Fresh, FreshAt, Registered
<1>3. CASE Restart
  BY <1>3, Zenon DEF Restart, storeVars, Idle, LookInv, Dated, Underway
<1> QED BY <1>1, <1>2, <1>3, LookElsewhere, LookSteps, Zenon DEF Next

(* The invariant of the refresh holds throughout.                          *)
LEMMA LookInvariance == Spec => []LookInv
<1>1. Init => LookInv
  <2>1. Init => look = Idle
    BY Zenon DEF Init
  <2>2. Init => Dated
    BY DEF Init, StoreInit, Dated
  <2> QED BY <2>1, <2>2, IdleIs, Zenon DEF LookInv, Underway
<1>2. LookInv /\ [Next]_vars => LookInv'
  BY LookNext, Zenon
<1> QED BY <1>1, <1>2, PTL DEF Spec

(* After a refresh the engine knows only peers that were registered and    *)
(* fresh while it ran, and not its own node.                               *)
THEOREM StaleDropped == Spec => []RefreshDropsStale
<1>1. LookInv => RefreshDropsStale
  BY Zenon DEF LookInv, Listed, RefreshDropsStale, Range
<1> QED BY <1>1, LookInvariance, PTL

(* What the distance says about the levels two nodes share.                *)
LEMMA NearerShares ==
    ASSUME NEW m \in Node, NEW n \in Node, Before(look.self, Loc, m, n)
    PROVE  /\ \A k \in 1..4 : Within(n, k) => Within(m, k)
           /\ (\A k \in 1..4 : Within(m, k) => Within(n, k)) => m < n
<1> DEFINE H(x) == Shares(look.self, Loc[x], "host")
           R(x) == Shares(look.self, Loc[x], "rack")
           Z(x) == Shares(look.self, Loc[x], "zone")
           G(x) == Shares(look.self, Loc[x], "region")
<1>1. ASSUME NEW x
      PROVE  /\ Within(x, 1) <=> H(x)
             /\ Within(x, 2) <=> H(x) \/ R(x)
             /\ Within(x, 3) <=> H(x) \/ R(x) \/ Z(x)
             /\ Within(x, 4) <=> H(x) \/ R(x) \/ Z(x) \/ G(x)
  BY DEF Within, Levels
<1>2. ASSUME NEW x
      PROVE  Distance(look.self, Loc[x]) =
               IF H(x) THEN 0 ELSE IF R(x) THEN 10 ELSE IF Z(x) THEN 20 ELSE IF G(x) THEN 30 ELSE 40
  BY Zenon DEF Distance
<1>3. \A k \in 1..4 : k \in {1, 2, 3, 4}
  OBVIOUS
<1> HIDE DEF H, R, Z, G
<1>4. /\ H(n) => H(m)
      /\ H(n) \/ R(n) => H(m) \/ R(m)
      /\ H(n) \/ R(n) \/ Z(n) => H(m) \/ R(m) \/ Z(m)
      /\ H(n) \/ R(n) \/ Z(n) \/ G(n) => H(m) \/ R(m) \/ Z(m) \/ G(m)
  BY <1>2 DEF Before
<1>5. ASSUME \A k \in 1..4 : Within(m, k) => Within(n, k) PROVE m < n
  <2>1. /\ H(m) => H(n)
        /\ H(m) \/ R(m) => H(n) \/ R(n)
        /\ H(m) \/ R(m) \/ Z(m) => H(n) \/ R(n) \/ Z(n)
        /\ H(m) \/ R(m) \/ Z(m) \/ G(m) => H(n) \/ R(n) \/ Z(n) \/ G(n)
    BY <1>1, <1>5
  <2>2. Distance(look.self, Loc[m]) = Distance(look.self, Loc[n])
    BY <1>2, <1>4, <2>1
  <2> QED BY <2>2 DEF Before
<1> QED BY <1>1, <1>3, <1>4, <1>5

(* In every list of an answered refresh the nearest peers come first.      *)
THEOREM NearestAreFirst == Spec => []NearestFirst
<1>1. ASSUME LookInv PROVE NearestFirst
  <2> SUFFICES ASSUME look.op = "answered", NEW h \in Chunk,
                      NEW i \in 1..Len(locs[h]), NEW j \in 1..Len(locs[h]), i < j
               PROVE  /\ \A k \in 1..4 : Within(locs[h][j], k) => Within(locs[h][i], k)
                      /\ (\A k \in 1..4 : Within(locs[h][i], k) => Within(locs[h][j], k)) =>
                            locs[h][i] < locs[h][j]
    BY DEF NearestFirst
  <2>1. Listed(look.self, look.alive, locs[h])
    BY <1>1 DEF LookInv
  <2>2. locs[h] \in Seq(Node) /\ i \in DOMAIN locs[h] /\ j \in DOMAIN locs[h]
    BY <2>1 DEF Listed
  <2>3. /\ locs[h][i] \in Node /\ locs[h][j] \in Node
        /\ Before(look.self, Loc, locs[h][i], locs[h][j])
    BY <2>1, <2>2 DEF Listed
  <2> QED BY <2>3, NearerShares
<1> QED BY <1>1, LookInvariance, PTL

=============================================================================
