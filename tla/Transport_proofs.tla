-------------------------- MODULE Transport_proofs --------------------------
(***************************************************************************)
(* The legacy transport for any sizes of requests and packets, any number  *)
(* of threads and any read buffer.                                         *)
(***************************************************************************)
EXTENDS Transport, SequenceTheorems, FiniteSetTheorems, TLAPS

\* Where the chunks of a request end, and where its i-th chunk begins.  At a
\* multiple of MaxPacket the last MaxPacket bytes are in no chunk.
ChunksEnd(n) == IF n % MaxPacket = 0 THEN n - MaxPacket ELSE n
Cut(n, i) == IF i * MaxPacket <= ChunksEnd(n) THEN i * MaxPacket ELSE ChunksEnd(n)

Chunk(n, k) ==
    [req |-> n, token |-> "", no |-> k - 1, total |-> TotalCount(n),
     from |-> Cut(n, k - 1), to |-> Cut(n, k), packed |-> TRUE, byServer |-> FALSE]
ChunksOf(n) == {Chunk(n, k) : k \in 1 .. TotalCount(n)}

\* The packets that are ever on the connection or in the server: none has a token
\* and none is the server's own; a part is one of the chunks of its request.
Packets ==
    {p \in [req : Sizes \cup {0}, token : {""}, no : Nat, total : Nat, from : Nat,
            to : Nat, packed : BOOLEAN, byServer : {FALSE}] :
        p.total # 0 => p.req \in Sizes /\ p \in ChunksOf(p.req)}

Wire == [packet : Packets, half : {1, 2}]

Deliveries == [req : Sizes \cup {0}, split : BOOLEAN, whole : BOOLEAN]

WireInv ==
    /\ toServer \in Seq(Wire) /\ toClient \in Seq(Wire) /\ buffer \in Seq(Wire)
    /\ running \in Seq(Packets)

\* A request that was joined has all its parts, and the next is one too many.
PartsInv ==
    /\ got \in Seq(Deliveries)
    /\ DOMAIN parts = Sizes
    /\ \A n \in Sizes : parts[n] \in Seq(ChunksOf(n))
    /\ \A i \in DOMAIN got :
            got[i].split => got[i].req \in Sizes /\ Len(parts[got[i].req]) >= TotalCount(got[i].req)

\* What is kept of a request first are parts that were sorted and joined, and the
\* callback was told how that went.
Kept(n, v, g) ==
    Len(v) >= TotalCount(n) =>
        \E s \in Seq(ChunksOf(n)) :
            /\ Len(s) = TotalCount(n)
            /\ SubSeq(v, 1, TotalCount(n)) = FromSubpackets(s)
            /\ [req |-> n, split |-> TRUE, whole |-> Joins(FromSubpackets(s))] \in Range(g)
JoinInv == \A n \in Sizes : Kept(n, parts[n], got)

IndInv == WireInv /\ PartsInv /\ JoinedOnce /\ JoinInv

-----------------------------------------------------------------------------
(* Numbers.                                                                  *)

\* A set of numbers has a least one: what is wrong somewhere is wrong first
\* somewhere.
LEMMA LeastNat ==
    ASSUME NEW T \in SUBSET Nat, T # {}
    PROVE  \E m \in T : \A k \in T : m <= k
  <1> DEFINE R == OpToRel(<, Nat)
  <1>1. IsWellFoundedOn(R, Nat)
    BY NatLessThanWellFounded
  <1>2. \A x, y \in Nat : <<x, y>> \in R <=> x < y
    BY DEF OpToRel
  <1> HIDE DEF R
  <1>3. PICK m \in T : \A k \in T : ~(<<k, m>> \in R)
    BY <1>1, WFMin
  <1>4. \A k \in T : k \in Nat /\ m \in Nat /\ ~(k < m)
    BY <1>2, <1>3, Zenon
  <1> QED  BY <1>4

\* Multiples grow.
LEMMA Monotone ==
    ASSUME NEW a \in Nat, NEW b \in Nat, NEW c \in Nat
    PROVE  /\ a * c \in Nat /\ (a + 1) * c = a * c + c
           /\ a <= b => a * c <= b * c
           /\ a < b => a * c + c <= b * c
  <1>1. a * c \in Nat /\ b * c \in Nat /\ (a + 1) * c = a * c + c
    OBVIOUS
  <1>2. ASSUME a <= b PROVE a * c <= b * c
    <2>1. (b - a) * c = b * c - a * c /\ b - a \in Nat
      BY <1>2
    <2>2. (b - a) * c >= 0
      BY <2>1
    <2> QED  BY <1>1, <2>1, <2>2
  <1>3. ASSUME a < b PROVE a * c + c <= b * c
    <2>1. b - (a + 1) \in Nat
      BY <1>3
    <2>2. (b - (a + 1)) * c = b * c - (a * c + c)
      OBVIOUS
    <2>3. (b - (a + 1)) * c >= 0
      BY <2>1
    <2> QED  BY <1>1, <2>2, <2>3
  <1> QED  BY <1>1, <1>2, <1>3


\* What is left of a division.
LEMMA Division ==
    ASSUME NEW n \in Nat, NEW m \in Nat \ {0}
    PROVE  /\ n \div m \in Nat /\ n % m \in 0 .. m - 1
           /\ n = (n \div m) * m + (n % m)
  OBVIOUS

\* One chunk more: the sum of the sizes so far grows by the size of the chunk.
LEMMA CutStep ==
    ASSUME NEW q \in Nat, NEW r \in Nat, NEW m \in Nat \ {0}, NEW n \in Nat \ {0},
           NEW i \in 0 .. q, NEW x \in Nat, NEW y \in Nat, NEW e \in Int,
           x = i * m, y = q * m, n = y + r, r < m, e = IF r = 0 THEN n - m ELSE n
    PROVE  (IF x + m <= e THEN x + m ELSE e)
                = (IF x <= e THEN x ELSE e) + (IF x + m < n THEN m ELSE r)
  <1>1. i < q => x + m <= y
    BY Monotone
  <1>2. i = q => x = y
    OBVIOUS
  <1>3. i + 1 < q => x + m + m <= y
    <2>1. (i + 1) * m = x + m /\ i + 1 \in Nat
      BY Monotone
    <2> QED BY <2>1, Monotone
  <1>4. i + 1 = q => x + m = y
    BY Monotone
  <1>5. i + 1 < q \/ i + 1 = q \/ i = q
    OBVIOUS
  <1> QED
    BY ONLY <1>1, <1>2, <1>3, <1>4, <1>5, q \in Nat, r \in Nat, m \in Nat \ {0},
            n \in Nat \ {0}, i \in 0 .. q, x \in Nat, y \in Nat, e \in Int,
            n = y + r, r < m, e = IF r = 0 THEN n - m ELSE n

-----------------------------------------------------------------------------
(* Splitting: what toSubpackets() computes.                                  *)

LEMMA Counts == \A n \in Sizes : n \in Nat \ {0} /\ TotalCount(n) \in Nat \ {0}
  BY TransportAssumption DEF TotalCount

\* What toSubpackets() computes: the i-th chunk begins at i * MaxPacket, until the
\* last, which is short and, at a multiple of MaxPacket, missing.
LEMMA CutProperties ==
    ASSUME NEW n \in Sizes
    PROVE  /\ ChunksEnd(n) \in Nat /\ (ChunksEnd(n) = n <=> n % MaxPacket # 0)
           /\ Cut(n, 0) = 0 /\ Cut(n, TotalCount(n)) = ChunksEnd(n)
           /\ \A i \in 0 .. TotalCount(n) : Cut(n, i) \in Nat
           /\ \A i \in 1 .. TotalCount(n) : Cut(n, i) = Cut(n, i - 1) + ChunkSize(n, i - 1)
  <1> DEFINE m == MaxPacket  q == n \div m  r == n % m  e == ChunksEnd(n)
  <1>1. n \in Nat \ {0} /\ m \in Nat \ {0}
    BY TransportAssumption
  <1>2. q \in Nat /\ r \in 0 .. m - 1 /\ n = q * m + r /\ TotalCount(n) = q + 1
    BY <1>1, Division DEF TotalCount
  <1>3. e = IF r = 0 THEN n - m ELSE n
    BY DEF ChunksEnd
  <1>4. \A i : Cut(n, i) = IF i * m <= e THEN i * m ELSE e
    BY DEF Cut
  <1>5. \A i : ChunkSize(n, i) = IF i * m + m < n THEN m ELSE r
    BY DEF ChunkSize
  <1> HIDE DEF m, q, r, e
  <1>6. q * m \in Nat /\ (q + 1) * m = q * m + m /\ (r = 0 => m <= q * m)
    <2>1. q * m \in Nat /\ (q + 1) * m = q * m + m
      BY <1>1, <1>2, Monotone
    <2>2. ASSUME r = 0 PROVE m <= q * m
      <3>1. 0 < q
        BY <1>1, <1>2, <2>2
      <3>2. 0 * m + m <= q * m
        BY <1>1, <1>2, <3>1, Monotone
      <3> QED  BY <1>1, <3>2
    <2> QED  BY <2>1, <2>2
  <1>7. e \in Nat /\ (e = n <=> r # 0)
    BY <1>1, <1>2, <1>3, <1>6
  <1>8. Cut(n, 0) = 0
    <2>1. 0 * m = 0
      BY <1>1
    <2> QED  BY <1>4, <1>7, <2>1
  <1>9. Cut(n, TotalCount(n)) = e
    <2>1. Cut(n, q + 1) = IF q * m + m <= e THEN q * m + m ELSE e
      BY <1>4, <1>6
    <2> QED  BY <1>1, <1>2, <1>3, <1>6, <2>1
  <1>10. \A i \in 0 .. TotalCount(n) : Cut(n, i) \in Nat
    <2>1. \A i \in 0 .. TotalCount(n) : i * m \in Nat
      BY <1>1, <1>2, Monotone
    <2> QED  BY <1>4, <1>7, <2>1
  <1>11. ASSUME NEW i \in 1 .. TotalCount(n)
         PROVE  Cut(n, i) = Cut(n, i - 1) + ChunkSize(n, i - 1)
    <2> DEFINE x == (i - 1) * m
    <2>1. i - 1 \in 0 .. q /\ i - 1 \in Nat
      BY <1>2
    <2>2. x \in Nat /\ ((i - 1) + 1) * m = x + m
      BY <1>1, <2>1, Monotone
    <2>3. i * m = x + m
      <3>1. (i - 1) + 1 = i
        BY <2>1
      <3> QED  BY <2>2, <3>1
    <2>4. x = (i - 1) * m
      OBVIOUS
    <2> HIDE DEF x
    <2>5. (IF x + m <= e THEN x + m ELSE e)
                = (IF x <= e THEN x ELSE e) + (IF x + m < n THEN m ELSE r)
      <3>1. r \in Nat /\ r < m /\ e \in Int
        BY <1>1, <1>2, <1>7
      <3> QED  BY <1>1, <1>2, <1>3, <1>6, <2>1, <2>2, <2>4, <3>1, CutStep
    <2> QED  BY <1>4, <1>5, <2>3, <2>4, <2>5
  <1> QED  BY <1>7, <1>8, <1>9, <1>10, <1>11 DEF e, r, m

\* What the recursion of ToSubpackets defines.
Begins(n, b) ==
    b = [i \in 0 .. TotalCount(n) |-> IF i = 0 THEN 0 ELSE b[i - 1] + ChunkSize(n, i - 1)]
Part(n, b, k) ==
    [Packet(n) EXCEPT !.token = "", !.no = k - 1, !.total = TotalCount(n),
                              !.from = b[k - 1], !.to = b[k]]

LEMMA Split ==
    \A n \in Sizes : ToSubpackets(n) = [k \in 1 .. TotalCount(n) |-> Chunk(n, k)]
  <1> SUFFICES ASSUME NEW n \in Sizes
               PROVE  ToSubpackets(n) = [k \in 1 .. TotalCount(n) |-> Chunk(n, k)]
    OBVIOUS
  <1> DEFINE b == CHOOSE f : Begins(n, f)
             cut == [i \in 0 .. TotalCount(n) |-> Cut(n, i)]
  <1>1. ToSubpackets(n) = [k \in 1 .. TotalCount(n) |-> Part(n, b, k)]
    BY Zenon DEF ToSubpackets, Begins, Part
  <1>2. TotalCount(n) \in Nat \ {0}
    BY Counts
  <1>3. Begins(n, cut)
    <2>1. ASSUME NEW i \in 0 .. TotalCount(n)
          PROVE  cut[i] = IF i = 0 THEN 0 ELSE cut[i - 1] + ChunkSize(n, i - 1)
      <3>1. CASE i = 0
        BY <3>1, CutProperties
      <3>2. CASE i # 0
        <4>1. i \in 1 .. TotalCount(n) /\ i - 1 \in 0 .. TotalCount(n)
          BY <1>2, <3>2
        <4> QED  BY <3>2, <4>1, CutProperties
      <3> QED  BY <3>1, <3>2
    <2>2. cut = [i \in 0 .. TotalCount(n) |-> cut[i]]
      OBVIOUS
    <2> HIDE DEF cut
    <2> QED  BY <2>1, <2>2 DEF Begins
  <1>4. Begins(n, b)
    BY <1>3, Zenon
  <1> HIDE DEF b
  <1>5. \A i \in 0 .. TotalCount(n) : b[i] = Cut(n, i)
    <2> DEFINE wrong == {i \in 0 .. TotalCount(n) : b[i] # Cut(n, i)}
    <2> SUFFICES ASSUME wrong # {} PROVE FALSE
      OBVIOUS
    <2>1. wrong \in SUBSET Nat
      BY <1>2
    <2>2. PICK i \in wrong : \A j \in wrong : i <= j
      BY <2>1, LeastNat
    <2>3. b[i] = IF i = 0 THEN 0 ELSE b[i - 1] + ChunkSize(n, i - 1)
      BY <1>4 DEF Begins
    <2>4. i # 0
      BY <2>2, <2>3, CutProperties
    <2>5. i \in 1 .. TotalCount(n) /\ i - 1 \in 0 .. TotalCount(n) /\ i - 1 < i
      BY <1>2, <2>4
    <2>6. b[i - 1] = Cut(n, i - 1)
      BY <2>2, <2>5
    <2> QED  BY <2>3, <2>4, <2>5, <2>6, CutProperties
  <1>6. ASSUME NEW k \in 1 .. TotalCount(n) PROVE Part(n, b, k) = Chunk(n, k)
    <2>1. b[k - 1] = Cut(n, k - 1) /\ b[k] = Cut(n, k)
      <3>1. k \in 0 .. TotalCount(n) /\ k - 1 \in 0 .. TotalCount(n)
        BY <1>2
      <3> QED  BY <1>5, <3>1
    <2> DEFINE p == Part(n, b, k)
    <2>2. p = [Packet(n) EXCEPT !.token = "", !.no = k - 1, !.total = TotalCount(n),
                                !.from = b[k - 1], !.to = b[k]]
      BY Zenon DEF Part
    <2> HIDE DEF p
    <2>3. p = [req |-> n, token |-> "", no |-> k - 1, total |-> TotalCount(n),
               from |-> b[k - 1], to |-> b[k], packed |-> TRUE, byServer |-> FALSE]
      BY <2>2 DEF Packet
    <2> QED  BY <2>1, <2>3, Zenon DEF Chunk, p
  <1> QED  BY <1>1, <1>6

-----------------------------------------------------------------------------
(* Sorting and joining: what fromSubpackets() computes.                      *)

\* The parts that come no later than the k-th when parts are sorted by number.
UpTo(no, t, k) == {j \in 1 .. t : no[j] < no[k] \/ (no[j] = no[k] /\ j <= k)}
Places(no, t) == [k \in 1 .. t |-> Cardinality(UpTo(no, t, k))]

\* Sorting gives every part a place of its own and leaves no place free.
LEMMA PlacesBijective ==
    ASSUME NEW t \in Nat, NEW no \in [1 .. t -> Int]
    PROVE  /\ Places(no, t) \in [1 .. t -> 1 .. t]
           /\ \A k, l \in 1 .. t : Places(no, t)[k] = Places(no, t)[l] => k = l
           /\ \A i \in 1 .. t : \E k \in 1 .. t : Places(no, t)[k] = i
  <1>1. IsFiniteSet(1 .. t) /\ Cardinality(1 .. t) = t
    <2>1. 1 \in Int /\ t \in Int /\ (IF 1 > t THEN 0 ELSE t - 1 + 1) = t
      OBVIOUS
    <2> QED  BY <2>1, FS_Interval
  <1>2. ASSUME NEW k \in 1 .. t
        PROVE  /\ IsFiniteSet(UpTo(no, t, k)) /\ Cardinality(UpTo(no, t, k)) \in 1 .. t
               /\ k \in UpTo(no, t, k)
    <2>1. k \in UpTo(no, t, k) /\ UpTo(no, t, k) \in SUBSET (1 .. t)
      BY DEF UpTo
    <2>2. IsFiniteSet(UpTo(no, t, k)) /\ Cardinality(UpTo(no, t, k)) <= t
      BY <1>1, <2>1, FS_Subset
    <2>3. Cardinality(UpTo(no, t, k)) \in Nat /\ Cardinality(UpTo(no, t, k)) # 0
      BY <2>1, <2>2, FS_CardinalityType, FS_EmptySet
    <2> QED  BY <2>1, <2>2, <2>3
  <1>3. ASSUME NEW k \in 1 .. t, NEW l \in 1 .. t, no[k] < no[l] \/ (no[k] = no[l] /\ k < l)
        PROVE  Cardinality(UpTo(no, t, k)) # Cardinality(UpTo(no, t, l))
    <2>1. UpTo(no, t, k) \in SUBSET UpTo(no, t, l) /\ l \notin UpTo(no, t, k)
      BY <1>3 DEF UpTo
    <2> QED  BY <1>2, <2>1, FS_Subset
  <1>4. \A k, l \in 1 .. t : Places(no, t)[k] = Places(no, t)[l] => k = l
    <2>1. ASSUME NEW k \in 1 .. t, NEW l \in 1 .. t, k # l
          PROVE  \/ no[k] < no[l] \/ (no[k] = no[l] /\ k < l)
                 \/ no[l] < no[k] \/ (no[l] = no[k] /\ l < k)
      BY <2>1
    <2> QED  BY <1>3, <2>1 DEF Places
  <1>5. Places(no, t) \in [1 .. t -> 1 .. t]
    BY <1>2 DEF Places
  <1>6. Places(no, t) \in Injection(1 .. t, 1 .. t)
    BY <1>4, <1>5 DEF Injection, IsInjective
  <1>7. Places(no, t) \in Surjection(1 .. t, 1 .. t)
    BY <1>1, <1>6, FS_Injection
  <1> QED  BY <1>4, <1>5, <1>7 DEF Surjection

\* Parts whose numbers are the t first ones, each once, come to the places that
\* their numbers name.
LEMMA PlacesNumbered ==
    ASSUME NEW t \in Nat, NEW no \in [1 .. t -> 0 .. t - 1],
           \A k, l \in 1 .. t : no[k] = no[l] => k = l
    PROVE  \A k \in 1 .. t : Places(no, t)[k] = no[k] + 1
  <1>1. /\ IsFiniteSet(1 .. t) /\ IsFiniteSet(0 .. t - 1)
        /\ Cardinality(1 .. t) = Cardinality(0 .. t - 1)
    <2>1. /\ 0 \in Int /\ 1 \in Int /\ t \in Int /\ t - 1 \in Int
          /\ (IF 1 > t THEN 0 ELSE t - 1 + 1) = (IF 0 > t - 1 THEN 0 ELSE t - 1 - 0 + 1)
      OBVIOUS
    <2> QED  BY <2>1, FS_Interval
  <1>2. no \in Injection(1 .. t, 0 .. t - 1)
    BY DEF Injection, IsInjective
  <1>3. no \in Surjection(1 .. t, 0 .. t - 1)
    BY <1>1, <1>2, FS_Injection
  <1>4. ASSUME NEW k \in 1 .. t PROVE Places(no, t)[k] = no[k] + 1
    <2> DEFINE S == UpTo(no, t, k)
               f == [j \in S |-> no[j]]
    <2>1. S = {j \in 1 .. t : no[j] <= no[k]}
      BY DEF UpTo
    <2>2. f \in [S -> 0 .. no[k]]
      BY <2>1
    <2>3. \A i, j \in S : f[i] = f[j] => i = j
      BY <2>1
    <2>4. \A i \in 0 .. no[k] : \E j \in S : f[j] = i
      <3>1. ASSUME NEW i \in 0 .. no[k] PROVE \E j \in S : f[j] = i
        <4>1. i \in 0 .. t - 1
          OBVIOUS
        <4>2. PICK j \in 1 .. t : no[j] = i
          BY <1>3, <4>1 DEF Surjection
        <4>3. no[j] <= no[k]
          BY <4>2
        <4>4. j \in S
          BY <2>1, <4>3
        <4> QED  BY <4>2, <4>4
      <3> QED  BY <3>1
    <2>5. IsFiniteSet(S)
      BY <1>1, <2>1, FS_Subset
    <2> HIDE DEF f, S
    <2>6. f \in Bijection(S, 0 .. no[k])
      BY <2>2, <2>3, <2>4 DEF Bijection, Injection, Surjection, IsInjective
    <2>7. Cardinality(0 .. no[k]) = Cardinality(S)
      BY <2>5, <2>6, FS_Bijection DEF ExistsBijection
    <2>8. Cardinality(0 .. no[k]) = no[k] + 1
      <3>1. 0 \in Int /\ no[k] \in Int /\ (IF 0 > no[k] THEN 0 ELSE no[k] - 0 + 1) = no[k] + 1
        OBVIOUS
      <3> QED  BY <3>1, FS_Interval
    <2> QED  BY <2>7, <2>8 DEF Places, S
  <1> QED  BY <1>4

\* The sorted parts are the parts, each at its place.
LEMMA Sorted ==
    ASSUME NEW S, \A p \in S : p.no \in Int, NEW s \in Seq(S)
    PROVE  /\ FromSubpackets(s) \in Seq(S) /\ Len(FromSubpackets(s)) = Len(s)
           /\ \A k \in 1 .. Len(s) :
                  FromSubpackets(s)[Places([j \in 1 .. Len(s) |-> s[j].no], Len(s))[k]] = s[k]
  <1> DEFINE t == Len(s)
             no == [j \in 1 .. t |-> s[j].no]
             f == FromSubpackets(s)
             c == [i \in 1 .. t |-> CHOOSE k \in 1 .. t : Places(no, t)[k] = i]
  <1>1. t \in Nat /\ DOMAIN s = 1 .. t /\ \A k \in 1 .. t : s[k] \in S
    BY LenProperties, ElementOfSeq
  <1>2. no \in [1 .. t -> Int]
    BY <1>1
  <1>3. f = [i \in 1 .. t |-> s[c[i]]]
    <2> DEFINE first(k) ==
            {j \in DOMAIN s : s[j].no < s[k].no \/ (s[j].no = s[k].no /\ j <= k)}
    <2>1. \A k \in 1 .. t : first(k) = UpTo(no, t, k)
      BY <1>1 DEF UpTo
    <2>2. f = [i \in DOMAIN s |-> s[CHOOSE k \in DOMAIN s : Cardinality(first(k)) = i]]
      BY Zenon DEF FromSubpackets
    <2>3. \A k \in 1 .. t : Cardinality(first(k)) = Places(no, t)[k]
      BY <2>1 DEF Places
    <2> HIDE DEF first
    <2>4. ASSUME NEW i \in 1 .. t
          PROVE  (CHOOSE k \in DOMAIN s : Cardinality(first(k)) = i)
                    = (CHOOSE k \in 1 .. t : Places(no, t)[k] = i)
      BY <1>1, <2>3
    <2> QED  BY <1>1, <2>2, <2>4
  <1> HIDE DEF f
  <1>4. \A i \in 1 .. t : c[i] \in 1 .. t /\ Places(no, t)[c[i]] = i
    <2>1. \A i \in 1 .. t : \E k \in 1 .. t : Places(no, t)[k] = i
      BY <1>1, <1>2, PlacesBijective
    <2> QED  BY <2>1
  <1>5. \A k \in 1 .. t : Places(no, t)[k] \in 1 .. t /\ c[Places(no, t)[k]] = k
    <2>1. /\ Places(no, t) \in [1 .. t -> 1 .. t]
          /\ \A k, l \in 1 .. t : Places(no, t)[k] = Places(no, t)[l] => k = l
      BY <1>1, <1>2, PlacesBijective
    <2> HIDE DEF c, no
    <2> QED  BY <1>4, <2>1
  <1> HIDE DEF c, no
  <1>6. f \in [1 .. t -> S]
    BY <1>1, <1>3, <1>4
  <1>7. f \in Seq(S)
    BY <1>1, <1>6, SeqDef
  <1>8. Len(f) = t
    BY <1>1, <1>6, <1>7, LenProperties
  <1>9. \A k \in 1 .. t : f[Places(no, t)[k]] = s[k]
    BY <1>3, <1>5
  <1> QED  BY <1>7, <1>8, <1>9, Zenon DEF f, no

\* What the fields of a chunk say.
LEMMA ChunkFields ==
    \A n \in Sizes : \A p \in ChunksOf(n) :
        p.no \in 0 .. TotalCount(n) - 1 /\ p.no \in Int /\ p = Chunk(n, p.no + 1)
  <1> SUFFICES ASSUME NEW n \in Sizes, NEW k \in 1 .. TotalCount(n)
               PROVE  /\ Chunk(n, k).no \in 0 .. TotalCount(n) - 1 /\ Chunk(n, k).no \in Int
                      /\ Chunk(n, k) = Chunk(n, Chunk(n, k).no + 1)
    BY Zenon DEF ChunksOf
  <1>1. TotalCount(n) \in Nat \ {0}
    BY Counts
  <1>2. Chunk(n, k).no = k - 1
    BY DEF Chunk
  <1>3. (k - 1) + 1 = k
    BY <1>1
  <1> QED  BY <1>1, <1>2, <1>3

\* Chunks with different numbers, as many as there are, are sorted into the
\* order in which they were cut.
LEMMA SortedInOrder ==
    ASSUME NEW n \in Sizes, NEW s \in Seq(ChunksOf(n)), Len(s) = TotalCount(n),
           NEW f, f = FromSubpackets(s),
           \A i, j \in 1 .. TotalCount(n) : f[i].no = f[j].no => i = j
    PROVE  \A i \in 1 .. TotalCount(n) : f[i] = Chunk(n, i)
  <1> DEFINE t == TotalCount(n)
             no == [j \in 1 .. t |-> s[j].no]
  <1>1. t \in Nat \ {0}
    BY Counts
  <1>2. \A p \in ChunksOf(n) : p.no \in 0 .. t - 1 /\ p = Chunk(n, p.no + 1)
    BY ChunkFields
  <1>3. \A k \in 1 .. t : f[Places(no, t)[k]] = s[k]
    <2>1. \A p \in ChunksOf(n) : p.no \in Int
      BY ChunkFields
    <2>2. \A k \in 1 .. Len(s) :
              FromSubpackets(s)[Places([j \in 1 .. Len(s) |-> s[j].no], Len(s))[k]] = s[k]
      BY <2>1, Sorted
    <2> QED  BY <2>2
  <1>4. \A k \in 1 .. t : s[k] \in ChunksOf(n) /\ no[k] = s[k].no
    BY ElementOfSeq
  <1>5. no \in [1 .. t -> 0 .. t - 1]
    BY <1>2, <1>4
  <1> HIDE DEF t, no
  <1>7. no \in [1 .. t -> Int]
    BY <1>1, <1>5
  <1>8. /\ Places(no, t) \in [1 .. t -> 1 .. t]
        /\ \A k, l \in 1 .. t : Places(no, t)[k] = Places(no, t)[l] => k = l
        /\ \A i \in 1 .. t : \E k \in 1 .. t : Places(no, t)[k] = i
    BY <1>1, <1>7, PlacesBijective
  <1>9. \A k, l \in 1 .. t : no[k] = no[l] => k = l
    <2> SUFFICES ASSUME NEW k \in 1 .. t, NEW l \in 1 .. t, no[k] = no[l] PROVE k = l
      OBVIOUS
    <2>1. f[Places(no, t)[k]].no = f[Places(no, t)[l]].no
      BY <1>3, <1>4
    <2>2. Places(no, t)[k] \in 1 .. t /\ Places(no, t)[l] \in 1 .. t
      BY <1>8
    <2>3. Places(no, t)[k] = Places(no, t)[l]
      BY <2>1, <2>2 DEF t
    <2> QED  BY <1>8, <2>3
  <1>10. \A k \in 1 .. t : Places(no, t)[k] = no[k] + 1
    BY <1>1, <1>5, <1>9, PlacesNumbered
  <1>11. ASSUME NEW i \in 1 .. t PROVE f[i] = Chunk(n, i)
    <2>1. PICK k \in 1 .. t : Places(no, t)[k] = i
      BY <1>8
    <2>2. f[i] = s[k] /\ no[k] + 1 = i
      BY <1>3, <1>10, <2>1
    <2> QED  BY <1>2, <1>4, <2>2
  <1> QED  BY <1>11 DEF t

\* Joining them gives the request back exactly when its last chunk was cut.
LEMMA JoinsWhole ==
    ASSUME NEW n \in Sizes, NEW f, Len(f) = TotalCount(n),
           \A i \in 1 .. TotalCount(n) : f[i] = Chunk(n, i)
    PROVE  Joins(f) = (n % MaxPacket # 0)
  <1> DEFINE t == TotalCount(n)
  <1>1. t \in Nat \ {0}
    BY Counts
  <1>2. \A k : Chunk(n, k).from = Cut(n, k - 1) /\ Chunk(n, k).to = Cut(n, k) /\ Chunk(n, k).req = n
    BY DEF Chunk
  <1>4. f[1].from = 0 /\ f[t].to = ChunksEnd(n) /\ f[t].req = n
    <2>1. 1 \in 1 .. t /\ t \in 1 .. t /\ 1 - 1 = 0
      BY <1>1
    <2>2. Cut(n, 0) = 0 /\ Cut(n, t) = ChunksEnd(n)
      BY CutProperties
    <2> QED  BY <1>2, <2>1, <2>2
  <1>5. \A k \in 1 .. t - 1 : f[k].to = f[k + 1].from
    <2>1. \A k \in 1 .. t - 1 : k \in 1 .. t /\ k + 1 \in 1 .. t /\ (k + 1) - 1 = k
      BY <1>1
    <2> QED  BY <1>2, <2>1
  <1>6. Joins(f) <=> n % MaxPacket # 0
    BY <1>4, <1>5, CutProperties DEF Joins
  <1>7. Joins(f) \in BOOLEAN
    BY DEF Joins
  <1> QED  BY <1>6, <1>7

\* The places where chunks begin and end are all different, unless the last chunk
\* was not cut.
LEMMA CutGrows ==
    ASSUME NEW n \in Sizes, n % MaxPacket # 0,
           NEW i \in 0 .. TotalCount(n), NEW j \in 0 .. TotalCount(n), i < j
    PROVE  Cut(n, i) < Cut(n, j)
  <1> DEFINE m == MaxPacket  q == n \div m  r == n % m  x == i * m  y == j * m  z == q * m
  <1>1. n \in Nat \ {0} /\ m \in Nat \ {0}
    BY TransportAssumption
  <1>2. q \in Nat /\ r \in 0 .. m - 1 /\ n = z + r /\ TotalCount(n) = q + 1
    BY <1>1, Division DEF TotalCount
  <1>3. /\ Cut(n, i) = IF x <= n THEN x ELSE n
        /\ Cut(n, j) = IF y <= n THEN y ELSE n
    BY DEF Cut, ChunksEnd
  <1>4. i \in Nat /\ j \in Nat /\ i <= q /\ (j <= q \/ j = q + 1)
    BY <1>2
  <1>5. x \in Nat /\ x <= z /\ x + m <= y /\ (j <= q => y <= z) /\ (j = q + 1 => y = z + m)
    BY <1>1, <1>2, <1>4, Monotone
  <1>6. r # 0 /\ y \in Nat /\ z \in Nat
    BY <1>1, <1>2, <1>4, Monotone
  <1> HIDE DEF m, q, r, x, y, z
  <1> QED  BY <1>1, <1>2, <1>3, <1>4, <1>5, <1>6

\* Chunks that join to the text of the request are all of them, in their order.
LEMMA JoinsAll ==
    ASSUME NEW n \in Sizes, NEW f, Len(f) = TotalCount(n),
           \A i \in 1 .. TotalCount(n) : f[i] \in ChunksOf(n),
           Joins(f)
    PROVE  n % MaxPacket # 0 /\ \A i \in 1 .. TotalCount(n) : f[i].no = i - 1
  <1> DEFINE t == TotalCount(n)
  <1>1. t \in Nat \ {0} /\ n \in Nat \ {0} /\ MaxPacket \in Nat \ {0}
    BY Counts, TransportAssumption
  <1>2. ASSUME NEW i \in 1 .. t
        PROVE  /\ f[i].no \in 0 .. t - 1 /\ f[i].req = n
               /\ f[i].from = Cut(n, f[i].no) /\ f[i].to = Cut(n, f[i].no + 1)
    <2>1. PICK k \in 1 .. t : f[i] = Chunk(n, k)
      BY DEF ChunksOf
    <2> DEFINE c == Chunk(n, k)
    <2>2. c.no = k - 1 /\ c.req = n /\ c.from = Cut(n, k - 1) /\ c.to = Cut(n, k)
      BY DEF Chunk
    <2>3. f[i] = c
      BY <2>1
    <2> HIDE DEF c
    <2>4. k - 1 \in 0 .. t - 1 /\ (k - 1) + 1 = k
      BY <1>1
    <2> QED  BY <2>2, <2>3, <2>4
  <1>3. /\ f[1].from = 0 /\ f[t].to = f[t].req
        /\ \A k \in 1 .. t - 1 : f[k].to = f[k + 1].from
    BY DEF Joins
  <1>4. n % MaxPacket # 0
    <2>1. t \in 1 .. t
      BY <1>1
    <2>2. Cut(n, f[t].no + 1) = n /\ f[t].no + 1 \in Nat
      BY <1>2, <1>3, <2>1
    <2>3. Cut(n, f[t].no + 1) <= ChunksEnd(n)
      <3>1. (f[t].no + 1) * MaxPacket \in Nat /\ ChunksEnd(n) \in Nat
        BY <1>1, <2>2, Monotone, CutProperties
      <3> QED  BY <3>1 DEF Cut
    <2> QED  BY <1>1, <2>2, <2>3 DEF ChunksEnd
  <1>5. \A i, j \in 0 .. t : Cut(n, i) = Cut(n, j) => i = j
    <2>1. ASSUME NEW i \in 0 .. t, NEW j \in 0 .. t, Cut(n, i) = Cut(n, j), i # j PROVE FALSE
      <3>1. Cut(n, i) \in Nat /\ Cut(n, j) \in Nat
        BY CutProperties
      <3>2. CASE i < j
        BY <1>4, <2>1, <3>1, <3>2, CutGrows
      <3>3. CASE j < i
        BY <1>4, <2>1, <3>1, <3>3, CutGrows
      <3> QED  BY <1>1, <2>1, <3>2, <3>3
    <2> QED  BY <2>1
  <1>6. \A i \in 1 .. t : f[i].no = i - 1
    <2> DEFINE wrong == {i \in 1 .. t : f[i].no # i - 1}
    <2> SUFFICES ASSUME wrong # {} PROVE FALSE
      OBVIOUS
    <2>1. wrong \in SUBSET Nat
      BY <1>1
    <2>2. PICK i \in wrong : \A j \in wrong : i <= j
      BY <2>1, LeastNat
    <2>3. i \in 1 .. t /\ f[i].no # i - 1 /\ f[i].no \in 0 .. t
      BY <1>1, <1>2, <2>2
    <2>4. i # 1
      <3>1. Cut(n, 0) = 0 /\ 0 \in 0 .. t /\ 1 \in 1 .. t
        BY <1>1, CutProperties
      <3> QED  BY <1>2, <1>3, <1>5, <2>3, <3>1
    <2>5. i - 1 \in 1 .. t - 1 /\ i - 1 \in 1 .. t /\ (i - 1) + 1 = i /\ i - 1 < i /\ i - 1 \in 0 .. t
      BY <1>1, <2>3, <2>4
    <2>6. f[i - 1].no = (i - 1) - 1
      BY <2>2, <2>5
    <2>7. f[i - 1].to = f[i].from
      BY <1>3, <2>5
    <2>8. Cut(n, i - 1) = Cut(n, f[i].no)
      <3>1. f[i - 1].no + 1 = i - 1
        BY <2>5, <2>6
      <3> QED  BY <1>2, <2>3, <2>5, <2>7, <3>1
    <2> QED  BY <1>5, <2>3, <2>5, <2>8
  <1> QED  BY <1>4, <1>6

-----------------------------------------------------------------------------
(* Packets and the units they travel as.                                     *)

\* What the client sends: a packet, or the parts it was split into.
LEMMA PacketsSent ==
    /\ \A n \in Sizes \cup {0} : Text(Packet(n)) \in Packets
    /\ \A b \in BOOLEAN : [Text(Packet(0)) EXCEPT !.packed = b] \in Packets
    /\ \A n \in Sizes : \A k \in 1 .. TotalCount(n) : Text(ToSubpackets(n)[k]) \in Packets
  <1>1. \A n \in Sizes \cup {0} : n \in Nat
    BY TransportAssumption
  <1>2. \A n \in Sizes \cup {0} : Text(Packet(n)) \in Packets
    BY <1>1 DEF Text, Packet, Packets
  <1>3. \A b \in BOOLEAN : [Text(Packet(0)) EXCEPT !.packed = b] \in Packets
    BY DEF Text, Packet, Packets
  <1>4. ASSUME NEW n \in Sizes, NEW k \in 1 .. TotalCount(n)
        PROVE  Text(ToSubpackets(n)[k]) \in Packets
    <2> DEFINE p == Chunk(n, k)
    <2>1. ToSubpackets(n)[k] = p
      BY Split
    <2>2. Cut(n, k - 1) \in Nat /\ Cut(n, k) \in Nat /\ k - 1 \in Nat /\ TotalCount(n) \in Nat
      <3>1. k - 1 \in 0 .. TotalCount(n) /\ k \in 0 .. TotalCount(n) /\ TotalCount(n) \in Nat
        BY Counts
      <3> QED  BY <3>1, CutProperties
    <2>3. p \in ChunksOf(n)
      BY Zenon DEF ChunksOf
    <2>4. p = [req |-> n, token |-> "", no |-> k - 1, total |-> TotalCount(n),
               from |-> Cut(n, k - 1), to |-> Cut(n, k), packed |-> TRUE, byServer |-> FALSE]
      BY Zenon DEF Chunk
    <2> HIDE DEF p
    <2>5. p.req = n /\ p.token = ""
      BY <2>4
    <2>6. p \in [req : Sizes \cup {0}, token : {""}, no : Nat, total : Nat, from : Nat,
                 to : Nat, packed : BOOLEAN, byServer : {FALSE}]
      BY <2>2, <2>4
    <2>7. p \in Packets
      BY <2>3, <2>5, <2>6, Zenon DEF Packets
    <2>8. Text(p) = p
      BY <2>5, <2>6 DEF Text
    <2> QED  BY <2>1, <2>7, <2>8
  <1> QED  BY <1>2, <1>3, <1>4

\* What the server answers is what it was sent: no packet has a token.
LEMMA Answered == \A p \in Packets : Answer(p) \in Packets
  <1> SUFFICES ASSUME NEW p \in Packets PROVE Answer(p) \in Packets
    OBVIOUS
  <1>1. (p.token \in TokenList) = FALSE
    <2>1. p.token \notin TokenList
      BY DEF Packets, TokenList
    <2> QED  BY <2>1
  <1>2. Answer(p) = [[p EXCEPT !.token = ""] EXCEPT !.byServer = FALSE]
    BY <1>1, Zenon DEF Answer, Text
  <1>3. [[p EXCEPT !.token = ""] EXCEPT !.byServer = FALSE] = p
    BY DEF Packets
  <1> QED  BY <1>2, <1>3

LEMMA OnWire ==
    /\ \A p \in Packets : Units(p) \in Seq(Wire)
    /\ \A ps \in Seq(Packets) : UnitsOf(ps) \in Seq(Wire)
  <1>1. \A p \in Packets : Units(p) \in Seq(Wire)
    BY DEF Units, Wire
  <1>2. ASSUME NEW ps \in Seq(Packets) PROVE UnitsOf(ps) \in Seq(Wire)
    <2>1. Len(ps) \in Nat /\ \A k \in 1 .. Len(ps) : ps[k] \in Packets
      BY LenProperties, ElementOfSeq
    <2>2. \A i \in 1 .. 2 * Len(ps) : (i + 1) \div 2 \in 1 .. Len(ps) /\ 2 - (i % 2) \in {1, 2}
      BY <2>1
    <2>3. \A i \in 1 .. 2 * Len(ps) : [packet |-> ps[(i + 1) \div 2], half |-> 2 - (i % 2)] \in Wire
      BY <2>1, <2>2 DEF Wire
    <2>4. 2 * Len(ps) \in Nat
      BY <2>1
    <2> QED  BY <2>3, <2>4, SeqDef DEF UnitsOf
  <1> QED  BY <1>1, <1>2

\* What is decoded was on the wire.
LEMMA Decoded ==
    ASSUME NEW text \in Seq(Wire), text # <<>>, NEW p \in FromString(text), p.packed
    PROVE  p \in Packets
  <1>1. text[1] \in Wire
    BY EmptySeq, LenProperties, ElementOfSeq
  <1>2. text[1].packet \in Packets
    BY <1>1 DEF Wire
  <1>3. p = text[1].packet \/ p = [packed |-> FALSE]
    BY DEF FromString
  <1> QED  BY <1>2, <1>3

\* Pieces of what is on the wire.
LEMMA Pieces ==
    ASSUME NEW S, NEW s \in Seq(S), NEW k \in Nat
    PROVE  /\ SubSeq(s, k + 1, Len(s)) \in Seq(S)
           /\ k <= Len(s) => SubSeq(s, 1, k) \in Seq(S)
  BY SubSeqProperties, LenProperties, ElementOfSeq

-----------------------------------------------------------------------------
(* The connection and the server.                                            *)

\* Callback() may put a packet on the wire.
LEMMA CallbackWire ==
    ASSUME toServer \in Seq(Wire), NEW d, NEW b \in BOOLEAN, Callback(d, b)
    PROVE  toServer' \in Seq(Wire)
  <1>1. Units([Text(Packet(0)) EXCEPT !.packed = b]) \in Seq(Wire)
    BY PacketsSent, OnWire
  <1> QED  BY <1>1, ConcatProperties DEF Callback

LEMMA WireStep == WireInv /\ [Next]_vars => WireInv'
  <1> SUFFICES ASSUME WireInv, [Next]_vars PROVE WireInv'
    OBVIOUS
  <1> USE DEF WireInv
  <1>1. /\ Len(toServer) \in Nat /\ Len(toClient) \in Nat /\ Len(buffer) \in Nat /\ Len(running) \in Nat
        /\ Wire' = Wire /\ Packets' = Packets /\ <<>> \in Seq(Wire)
    BY LenProperties, EmptySeq DEF Wire, Packets, ChunksOf, Chunk, Cut, ChunksEnd
  <1>2. ASSUME NEW n \in Sizes, Request(n) PROVE WireInv'
    <2> DEFINE ps == IF MustBeSeparated(n)
                     THEN [k \in 1 .. TotalCount(n) |-> Text(ToSubpackets(n)[k])]
                     ELSE <<Text(Packet(n))>>
    <2>1. /\ toServer' = toServer \o UnitsOf(ps) /\ UNCHANGED <<toClient, running>>
          /\ buffer' = buffer \/ buffer' = <<>>
      BY <1>2 DEF Request, ConnectToHost
    <2>2. ps \in Seq(Packets)
      <3>1. [k \in 1 .. TotalCount(n) |-> Text(ToSubpackets(n)[k])] \in Seq(Packets)
        <4>1. TotalCount(n) \in Nat /\ \A k \in 1 .. TotalCount(n) : Text(ToSubpackets(n)[k]) \in Packets
          BY PacketsSent, Counts
        <4> QED  BY <4>1, SeqDef
      <3>2. <<Text(Packet(n))>> \in Seq(Packets)
        BY PacketsSent
      <3> QED  BY <3>1, <3>2
    <2> HIDE DEF ps
    <2>3. toServer' \in Seq(Wire)
      BY <2>1, <2>2, OnWire, ConcatProperties
    <2> QED  BY <1>1, <2>1, <2>3
  <1>3. ASSUME NEW k \in 1 .. Len(toClient), GotResponse(k) PROVE WireInv'
    <2>1. toClient' = SubSeq(toClient, k + 1, Len(toClient)) /\ UNCHANGED <<buffer, running>>
      BY <1>3 DEF GotResponse, serverVars
    <2>2. toServer' \in Seq(Wire)
      <3>1. toServer' = toServer \/ \E d, b : b \in BOOLEAN /\ Callback(d, b)
        BY <1>3 DEF GotResponse, ProcessSubpacket
      <3> QED  BY <3>1, CallbackWire
    <2>3. toClient' \in Seq(Wire)
      BY <1>1, <2>1, Pieces
    <2> QED  BY <1>1, <2>1, <2>2, <2>3
  <1>4. ASSUME NEW k \in 1 .. BufferUnits, ReadSome(k) PROVE WireInv'
    <2>1. /\ k \in Nat /\ k <= Len(toServer) /\ UNCHANGED <<toClient, running>>
          /\ buffer' = SubSeq(toServer, 1, k) \o SubSeq(buffer, k + 1, Len(buffer))
          /\ toServer' = SubSeq(toServer, k + 1, Len(toServer))
      BY <1>4, TransportAssumption DEF ReadSome
    <2>2. /\ SubSeq(toServer, 1, k) \in Seq(Wire) /\ SubSeq(buffer, k + 1, Len(buffer)) \in Seq(Wire)
          /\ toServer' \in Seq(Wire)
      BY <2>1, Pieces
    <2>3. buffer' \in Seq(Wire)
      BY <2>1, <2>2, ConcatProperties
    <2> QED  BY <1>1, <2>1, <2>2, <2>3
  <1>5. CASE TaskDecodes
    <2>1. UNCHANGED <<toServer, toClient, buffer>>
      BY <1>5 DEF TaskDecodes
    <2>2. running' = running \/ \E p \in Packets : running' = Append(running, Answer(p))
      <3>1. PICK p \in IF buffer = <<>> THEN {[packed |-> FALSE]} ELSE FromString(buffer) :
                running' = IF p.packed THEN Append(running, Answer(p)) ELSE running
        BY <1>5 DEF TaskDecodes
      <3>2. CASE p.packed
        <4>1. buffer # <<>> /\ p \in FromString(buffer)
          BY <3>2
        <4> QED  BY <3>1, <3>2, <4>1, Decoded
      <3> QED  BY <3>1, <3>2
    <2>3. running' \in Seq(Packets)
      <3>1. ASSUME NEW a \in Packets PROVE Append(running, a) \in Seq(Packets)
        BY AppendProperties
      <3> QED  BY <2>2, <3>1, Answered
    <2> QED  BY <1>1, <2>1, <2>3
  <1>6. ASSUME NEW i \in DOMAIN running, TaskWrites(i) PROVE WireInv'
    <2>1. i \in 1 .. Len(running) /\ running[i] \in Packets
      BY LenProperties, ElementOfSeq
    <2>2. /\ UNCHANGED <<toServer, buffer>> /\ running' = RemoveAt(running, i)
          /\ \/ toClient' = toClient
             \/ \E k \in 1 .. 2 : toClient' = toClient \o SubSeq(Units(running[i]), 1, k)
      BY <1>6 DEF TaskWrites
    <2>3. running' \in Seq(Packets)
      <3>1. i - 1 \in Nat /\ i \in Nat /\ i - 1 <= Len(running)
        BY <1>1, <2>1
      <3>2. SubSeq(running, 1, i - 1) \in Seq(Packets) /\ SubSeq(running, i + 1, Len(running)) \in Seq(Packets)
        BY <3>1, Pieces
      <3> QED  BY <2>2, <3>2, ConcatProperties DEF RemoveAt
    <2>4. toClient' \in Seq(Wire)
      <3>1. Units(running[i]) \in Seq(Wire) /\ Len(Units(running[i])) = 2
        BY <2>1, OnWire DEF Units
      <3>2. ASSUME NEW u \in Seq(Wire), Len(u) = 2, NEW k \in 1 .. 2
            PROVE  SubSeq(u, 1, k) \in Seq(Wire)
        <4>1. k \in Nat /\ k <= Len(u)
          BY <3>2
        <4> QED  BY <4>1, Pieces
      <3> QED  BY <2>2, <3>1, <3>2, ConcatProperties
    <2> QED  BY <1>1, <2>2, <2>3, <2>4
  <1>7. CASE SetToken \/ SetTarget \/ DisconnectFromHost \/ Break \/ ReadError \/ ReadEof
             \/ SessionGoes \/ UNCHANGED vars
    <2>1. /\ toServer' \in {toServer, <<>>} /\ toClient' \in {toClient, <<>>}
          /\ buffer' \in {buffer, <<>>} /\ running' = running
      BY <1>7 DEF SetToken, SetTarget, DisconnectFromHost, Break, ReadError, ReadEof, SessionGoes,
                  vars, serverVars
    <2> QED  BY <1>1, <2>1
  <1> QED
    BY <1>2, <1>3, <1>4, <1>5, <1>6, <1>7 DEF Next, Server

-----------------------------------------------------------------------------
(* Joining.                                                                  *)

\* The first t parts.
LEMMA Prefix ==
    ASSUME NEW S, NEW t \in Nat \ {0}, NEW v, \A i \in 1 .. t : v[i] \in S
    PROVE  /\ SubSeq(v, 1, t) \in Seq(S) /\ Len(SubSeq(v, 1, t)) = t
           /\ \A i \in 1 .. t : SubSeq(v, 1, t)[i] = v[i]
  <1>1. 1 \in Int /\ t \in Int /\ t - 1 + 1 = t /\ 1 <= t /\ \A i \in 1 .. t : 1 + i - 1 = i
    OBVIOUS
  <1> QED  BY <1>1, SubSeqProperties

\* What was kept stays kept when the callback is told more and parts are added.
LEMMA KeptOn ==
    ASSUME NEW n \in Sizes, NEW v \in Seq(ChunksOf(n)), Kept(n, v, got), got \in Seq(Deliveries),
           NEW g, g = got \/ \E d \in Deliveries : g = Append(got, d)
    PROVE  /\ Kept(n, v, g)
           /\ \A p \in ChunksOf(n) : Len(v) # TotalCount(n) - 1 => Kept(n, Append(v, p), g)
  <1> DEFINE t == TotalCount(n)
  <1>1. t \in Nat \ {0} /\ Len(v) \in Nat /\ \A i \in 1 .. Len(v) : v[i] \in ChunksOf(n)
    BY Counts, LenProperties, ElementOfSeq
  <1>2. Range(got) \subseteq Range(g)
    <2>1. ASSUME NEW d \in Deliveries, g = Append(got, d) PROVE Range(got) \subseteq Range(g)
      <3>1. /\ DOMAIN got = 1 .. Len(got) /\ DOMAIN g = 1 .. Len(g) /\ Len(g) = Len(got) + 1
            /\ Len(got) \in Nat /\ \A i \in 1 .. Len(got) : g[i] = got[i]
        BY <2>1, AppendProperties, LenProperties
      <3>2. \A i \in 1 .. Len(got) : i \in 1 .. Len(g)
        BY <3>1
      <3> QED  BY <3>1, <3>2 DEF Range
    <2> QED  BY <2>1
  <1>3. ASSUME NEW w, Len(w) >= t => Len(v) >= t /\ SubSeq(w, 1, t) = SubSeq(v, 1, t)
        PROVE  Kept(n, w, g)
    <2> SUFFICES ASSUME Len(w) >= t
                 PROVE  \E s \in Seq(ChunksOf(n)) :
                            /\ Len(s) = TotalCount(n)
                            /\ SubSeq(w, 1, TotalCount(n)) = FromSubpackets(s)
                            /\ [req |-> n, split |-> TRUE, whole |-> Joins(FromSubpackets(s))] \in Range(g)
      BY Zenon DEF Kept
    <2>1. PICK s \in Seq(ChunksOf(n)) :
            /\ Len(s) = TotalCount(n)
            /\ SubSeq(v, 1, TotalCount(n)) = FromSubpackets(s)
            /\ [req |-> n, split |-> TRUE, whole |-> Joins(FromSubpackets(s))] \in Range(got)
      BY <1>3, Zenon DEF Kept
    <2> QED  BY <1>2, <1>3, <2>1, Zenon
  <1>4. ASSUME NEW p \in ChunksOf(n), Len(v) # t - 1, Len(Append(v, p)) >= t
        PROVE  Len(v) >= t /\ SubSeq(Append(v, p), 1, t) = SubSeq(v, 1, t)
    <2>1. Len(Append(v, p)) = Len(v) + 1 /\ \A i \in 1 .. Len(v) : Append(v, p)[i] = v[i]
      BY AppendProperties
    <2>2. Len(v) >= t
      BY <1>1, <1>4, <2>1
    <2>3. \A i \in 1 .. t : v[i] \in ChunksOf(n) /\ Append(v, p)[i] = v[i]
      BY <1>1, <2>1, <2>2
    <2>4. /\ SubSeq(v, 1, t) \in Seq(ChunksOf(n)) /\ Len(SubSeq(v, 1, t)) = t
          /\ \A i \in 1 .. t : SubSeq(v, 1, t)[i] = v[i]
      BY <1>1, <2>3, Prefix
    <2> DEFINE w == Append(v, p)
    <2>5. \A i \in 1 .. t : w[i] \in ChunksOf(n) /\ w[i] = v[i]
      BY <2>3
    <2> HIDE DEF w
    <2>6. /\ SubSeq(w, 1, t) \in Seq(ChunksOf(n)) /\ Len(SubSeq(w, 1, t)) = t
          /\ \A i \in 1 .. t : SubSeq(w, 1, t)[i] = v[i]
      BY <1>1, <2>5, Prefix
    <2>7. SubSeq(w, 1, t) = SubSeq(v, 1, t)
      BY <2>4, <2>6, SeqEqual
    <2> QED  BY <2>2, <2>7 DEF w
  <1> HIDE DEF t
  <1>5. Kept(n, v, g)
    BY <1>3
  <1>6. ASSUME NEW p \in ChunksOf(n), Len(v) # t - 1 PROVE Kept(n, Append(v, p), g)
    BY <1>3, <1>4, <1>6
  <1> QED  BY <1>5, <1>6 DEF t

\* The callback is given something that was not joined.
LEMMA WholeDelivered ==
    ASSUME PartsInv, JoinedOnce, JoinInv, parts' = parts, NEW d \in Deliveries, ~d.split,
           got' = Append(got, d)
    PROVE  PartsInv' /\ JoinedOnce' /\ JoinInv'
  <1>1. /\ got' \in Seq(Deliveries)
        /\ \A i \in DOMAIN got' :
                \/ i \in DOMAIN got /\ got'[i] = got[i]
                \/ got'[i] = d
    BY AppendProperties, LenProperties DEF PartsInv
  <1>2. PartsInv' /\ JoinedOnce'
    BY <1>1 DEF PartsInv, JoinedOnce, Deliveries
  <1>3. \A n \in Sizes : Kept(n, parts[n], got')
    BY KeptOn DEF PartsInv, JoinInv
  <1> QED  BY <1>2, <1>3 DEF JoinInv

\* The part arrives that makes the parts as many as the request has: they are
\* sorted and joined.
LEMMA KeptNow ==
    ASSUME NEW n \in Sizes, NEW s \in Seq(ChunksOf(n)), Len(s) = TotalCount(n), NEW g,
           [req |-> n, split |-> TRUE, whole |-> Joins(FromSubpackets(s))] \in Range(g)
    PROVE  Kept(n, FromSubpackets(s), g)
  <1> DEFINE f == FromSubpackets(s)
             t == TotalCount(n)
  <1>1. f \in Seq(ChunksOf(n)) /\ Len(f) = t /\ t \in Nat \ {0}
    <2>1. \A p \in ChunksOf(n) : p.no \in Int
      BY ChunkFields
    <2> QED  BY <2>1, Sorted, Counts
  <1> HIDE DEF f
  <1>2. SubSeq(f, 1, t) = f
    <2>1. \A i \in 1 .. t : f[i] \in ChunksOf(n)
      BY <1>1, ElementOfSeq
    <2>2. /\ SubSeq(f, 1, t) \in Seq(ChunksOf(n)) /\ Len(SubSeq(f, 1, t)) = t
          /\ \A i \in 1 .. t : SubSeq(f, 1, t)[i] = f[i]
      BY <1>1, <2>1, Prefix
    <2> QED  BY <1>1, <2>2, SeqEqual
  <1>3. SubSeq(FromSubpackets(s), 1, TotalCount(n)) = FromSubpackets(s)
    BY <1>2 DEF f
  <1> QED  BY <1>3, Zenon DEF Kept

\* A part arrives.  Only the one that makes the number of parts that of the
\* request calls the callback, and every later one exceeds it.
LEMMA PartArrives ==
    ASSUME PartsInv, JoinedOnce, JoinInv, NEW p \in Packets, p.total # 0, ProcessSubpacket(p)
    PROVE  PartsInv' /\ JoinedOnce' /\ JoinInv'
  <1> DEFINE n == p.req
             s == Append(parts[n], p)
             joined == FromSubpackets(s)
             d == [req |-> n, split |-> TRUE, whole |-> Joins(joined)]
  <1>1. n \in Sizes /\ p \in ChunksOf(n)
    BY Zenon DEF Packets
  <1>2. p.total = TotalCount(n) /\ TotalCount(n) \in Nat \ {0}
    <2>1. \A k : Chunk(n, k).total = TotalCount(n)
      BY DEF Chunk
    <2>2. p.total = TotalCount(n)
      BY <1>1, <2>1, Zenon DEF ChunksOf
    <2> QED  BY <1>1, <2>2, Counts
  <1>3. /\ s \in Seq(ChunksOf(n)) /\ Len(s) = Len(parts[n]) + 1 /\ Len(parts[n]) \in Nat
        /\ parts[n] \in Seq(ChunksOf(n)) /\ Kept(n, parts[n], got)
    BY <1>1, AppendProperties, LenProperties DEF PartsInv, JoinInv
  <1>4. Len(joined) = Len(s) /\ joined \in Seq(ChunksOf(n))
    <2>1. \A q \in ChunksOf(n) : q.no \in Int
      BY <1>1, ChunkFields
    <2> QED  BY <1>3, <2>1, Sorted
  <1>5. d \in Deliveries /\ d.split /\ d.req = n
    BY <1>1 DEF Deliveries, Joins
  <1>6. \/ /\ Len(s) = TotalCount(n) /\ parts' = [parts EXCEPT ![n] = joined]
           /\ got' = Append(got, d)
        \/ Len(s) # TotalCount(n) /\ parts' = [parts EXCEPT ![n] = s] /\ got' = got
    BY <1>2 DEF ProcessSubpacket, Callback
  <1>7. Len(s) = TotalCount(n) /\ got' = Append(got, d) => Kept(n, joined, got')
    <2> SUFFICES ASSUME Len(s) = TotalCount(n), got' = Append(got, d) PROVE Kept(n, joined, got')
      OBVIOUS
    <2>1. d \in Range(got')
      <3> HIDE DEF d
      <3>1. got' \in Seq(Deliveries) /\ Len(got') = Len(got) + 1 /\ got'[Len(got) + 1] = d
        BY <1>5, AppendProperties DEF PartsInv
      <3>2. Len(got) + 1 \in DOMAIN got'
        BY <3>1, LenProperties DEF PartsInv
      <3> QED  BY <3>1, <3>2 DEF Range
    <2> QED  BY <1>1, <1>3, <2>1, KeptNow
  <1>8. Len(s) # TotalCount(n) => Kept(n, s, got)
    <2>1. Len(s) # TotalCount(n) => Len(parts[n]) # TotalCount(n) - 1
      BY <1>2, <1>3
    <2>2. got \in Seq(Deliveries)
      BY DEF PartsInv
    <2> QED  BY <1>1, <1>3, <2>1, <2>2, KeptOn
  <1>9. \A m \in Sizes : Kept(m, parts[m], got')
    <2>1. got \in Seq(Deliveries) /\ \A m \in Sizes : parts[m] \in Seq(ChunksOf(m)) /\ Kept(m, parts[m], got)
      BY DEF PartsInv, JoinInv
    <2>2. got' = got \/ \E e \in Deliveries : got' = Append(got, e)
      BY <1>5, <1>6
    <2> QED  BY <2>1, <2>2, KeptOn
  <1> HIDE DEF n, s, joined, d
  <1>10. PICK v : /\ parts' = [parts EXCEPT ![n] = v] /\ v \in Seq(ChunksOf(n))
                  /\ Len(v) = Len(parts[n]) + 1 /\ Kept(n, v, got')
                  /\ \/ Len(v) = TotalCount(n) /\ got' = Append(got, d)
                     \/ got' = got
    BY <1>3, <1>4, <1>6, <1>7, <1>8
  <1>11. /\ DOMAIN parts' = Sizes /\ parts'[n] = v
         /\ \A m \in Sizes : m # n => parts'[m] = parts[m]
    BY <1>1, <1>10 DEF PartsInv
  <1>12. \A m \in Sizes : parts'[m] \in Seq(ChunksOf(m)) /\ Kept(m, parts'[m], got')
    BY <1>9, <1>10, <1>11 DEF PartsInv
  <1>13. CASE got' = got
    BY <1>1, <1>2, <1>3, <1>10, <1>11, <1>12, <1>13 DEF PartsInv, JoinedOnce, JoinInv, Deliveries
  <1>14. CASE Len(v) = TotalCount(n) /\ got' = Append(got, d)
    <2>1. \A i \in DOMAIN got : ~(got[i].split /\ got[i].req = n)
      BY <1>1, <1>2, <1>3, <1>10, <1>14 DEF PartsInv
    <2>2. /\ got' \in Seq(Deliveries)
          /\ \A i \in DOMAIN got' :
                \/ i \in DOMAIN got /\ got'[i] = got[i]
                \/ i = Len(got) + 1 /\ got'[i] = d
      BY <1>5, <1>14, AppendProperties, LenProperties DEF PartsInv
    <2>3. JoinedOnce'
      BY <1>5, <2>1, <2>2 DEF JoinedOnce
    <2>4. ASSUME NEW i \in DOMAIN got', got'[i].split
          PROVE  got'[i].req \in Sizes /\ Len(parts'[got'[i].req]) >= TotalCount(got'[i].req)
      BY <1>1, <1>2, <1>5, <1>11, <1>14, <2>1, <2>2, <2>4 DEF PartsInv
    <2> QED  BY <1>11, <1>12, <2>2, <2>3, <2>4 DEF PartsInv, JoinInv, Deliveries
  <1> QED  BY <1>10, <1>13, <1>14

LEMMA PartsStep == IndInv /\ [Next]_vars => PartsInv' /\ JoinedOnce' /\ JoinInv'
  <1> SUFFICES ASSUME IndInv, [Next]_vars PROVE PartsInv' /\ JoinedOnce' /\ JoinInv'
    OBVIOUS
  <1>0. UNCHANGED <<parts, got>> => PartsInv' /\ JoinedOnce' /\ JoinInv'
    BY DEF IndInv, PartsInv, JoinedOnce, JoinInv, Deliveries
  <1>1. ASSUME NEW k \in 1 .. Len(toClient), GotResponse(k) PROVE PartsInv' /\ JoinedOnce' /\ JoinInv'
    <2> DEFINE text == SubSeq(toClient, 1, k)
    <2>1. PICK p \in FromString(text) :
            \/ ~p.packed /\ UNCHANGED <<parts, got>>
            \/ p.packed /\ p.total # 0 /\ ProcessSubpacket(p)
            \/ /\ p.packed /\ p.total = 0
               /\ Callback([req |-> p.req, split |-> FALSE, whole |-> ~p.byServer], FALSE)
               /\ UNCHANGED parts
      BY <1>1 DEF GotResponse
    <2>2. text \in Seq(Wire) /\ text # <<>>
      <3>1. Len(toClient) \in Nat /\ \A i \in 1 .. k : toClient[i] \in Wire
        BY ElementOfSeq, LenProperties DEF IndInv, WireInv
      <3>2. text \in Seq(Wire) /\ Len(text) = k
        BY <3>1, SubSeqProperties
      <3> QED  BY <3>1, <3>2, EmptySeq
    <2> HIDE DEF text
    <2>3. p.packed => p \in Packets
      BY <2>2, Decoded
    <2>4. CASE ~p.packed /\ UNCHANGED <<parts, got>>
      BY <1>0, <2>4
    <2>5. CASE p.packed /\ p.total # 0 /\ ProcessSubpacket(p)
      BY <2>3, <2>5, PartArrives DEF IndInv
    <2>6. CASE /\ p.packed
               /\ Callback([req |-> p.req, split |-> FALSE, whole |-> ~p.byServer], FALSE)
               /\ UNCHANGED parts
      <3> DEFINE d == [req |-> p.req, split |-> FALSE, whole |-> ~p.byServer]
      <3>1. d \in Deliveries /\ ~d.split
        BY <2>3, <2>6 DEF Packets, Deliveries
      <3>2. got' = Append(got, d)
        BY <2>6 DEF Callback
      <3> HIDE DEF d
      <3> QED  BY <2>6, <3>1, <3>2, WholeDelivered DEF IndInv
    <2> QED  BY <2>1, <2>4, <2>5, <2>6
  <1>2. CASE ~\E k \in 1 .. Len(toClient) : GotResponse(k)
    <2>1. UNCHANGED <<parts, got>>
      BY <1>2 DEF Next, Server, SetToken, SetTarget, DisconnectFromHost, Break, Request, ReadSome,
                  ReadError, ReadEof, TaskDecodes, TaskWrites, SessionGoes, vars, clientVars
    <2> QED  BY <1>0, <2>1
  <1> QED  BY <1>1, <1>2

-----------------------------------------------------------------------------

\* No packet on the wire has a token, and a request that was joined has had all
\* its parts.
THEOREM Inductive == Spec => []IndInv
  <1>1. Init => IndInv
    <2> SUFFICES ASSUME Init PROVE IndInv
      OBVIOUS
    <2>1. /\ <<>> \in Seq(Wire) /\ <<>> \in Seq(Packets) /\ <<>> \in Seq(Deliveries)
          /\ \A n \in Sizes : <<>> \in Seq(ChunksOf(n))
      BY EmptySeq
    <2>2. PartsInv
      BY <2>1 DEF Init, PartsInv
    <2>3. ASSUME NEW n \in Sizes PROVE Kept(n, parts[n], got)
      <3>1. ~(Len(parts[n]) >= TotalCount(n))
        BY Counts DEF Init
      <3> QED  BY <3>1, Zenon DEF Kept
    <2> QED  BY <2>1, <2>2, <2>3 DEF Init, IndInv, WireInv, JoinedOnce, JoinInv
  <1>2. IndInv /\ [Next]_vars => IndInv'
    BY WireStep, PartsStep DEF IndInv
  <1> QED  BY <1>1, <1>2, PTL DEF Spec

\* Whatever clients send, the server's callback is never asked: every packet it
\* sends is one that was sent to it.
THEOREM OnlyEchoesHolds == Spec => []OnlyEchoes
  <1>1. IndInv => OnlyEchoes
    <2> SUFFICES ASSUME IndInv PROVE OnlyEchoes
      OBVIOUS
    <2>1. Range(running) \subseteq Packets /\ Range(toClient) \subseteq Wire
      BY ElementOfSeq, LenProperties DEF IndInv, WireInv, Range
    <2> QED  BY <2>1 DEF OnlyEchoes, Wire, Packets
  <1> QED  BY <1>1, Inductive, PTL

\* The callback is given a joined request at most once, for requests of any size
\* in any number of parts, whatever comes back and in whatever order.
THEOREM JoinedOnceHolds == Spec => []JoinedOnce
  <1>1. IndInv => JoinedOnce
    BY DEF IndInv
  <1> QED  BY <1>1, Inductive, PTL

\* What toSubpackets() cuts and the server sends back, fromSubpackets() joins, for
\* requests of any size in any number of parts and for any MAX_PACKET_SIZE_B: once as
\* many parts have come as the request has, the callback has been given the request if
\* none of them came twice and the size is no multiple of the packet's, and has been
\* given something else if not.
THEOREM JoinedIsWholeHolds == Spec => []JoinedIsWhole
  <1>1. IndInv => JoinedIsWhole
    <2> SUFFICES ASSUME IndInv, NEW n \in Sizes, Len(parts[n]) >= TotalCount(n)
                 PROVE  [req |-> n, split |-> TRUE,
                         whole |-> IsInjective(FirstParts(n)) /\ n % MaxPacket # 0] \in Range(got)
      BY Zenon DEF JoinedIsWhole
    <2> DEFINE t == TotalCount(n)
    <2>1. PICK s \in Seq(ChunksOf(n)) :
            /\ Len(s) = TotalCount(n)
            /\ SubSeq(parts[n], 1, TotalCount(n)) = FromSubpackets(s)
            /\ [req |-> n, split |-> TRUE, whole |-> Joins(FromSubpackets(s))] \in Range(got)
      BY Zenon DEF IndInv, JoinInv, Kept
    <2> DEFINE f == FromSubpackets(s)
    <2>2. Len(f) = t /\ f \in Seq(ChunksOf(n)) /\ t \in Nat \ {0}
      <3>1. \A p \in ChunksOf(n) : p.no \in Int
        BY ChunkFields
      <3> QED  BY <2>1, <3>1, Sorted, Counts
    <2>3. \A i \in 1 .. t : f[i] \in ChunksOf(n) /\ f[i] = parts[n][i]
      <3>1. parts[n] \in Seq(ChunksOf(n)) /\ Len(parts[n]) \in Nat
        BY LenProperties DEF IndInv, PartsInv
      <3>2. \A i \in 1 .. t : parts[n][i] \in ChunksOf(n)
        BY <2>2, <3>1, ElementOfSeq
      <3>3. \A i \in 1 .. t : SubSeq(parts[n], 1, t)[i] = parts[n][i]
        BY <2>2, <3>2, Prefix
      <3> QED  BY <2>1, <3>2, <3>3
    <2>4. IsInjective(FirstParts(n)) <=> \A i, j \in 1 .. t : f[i].no = f[j].no => i = j
      BY <2>3 DEF IsInjective, FirstParts
    <2>5. f = FromSubpackets(s)
      OBVIOUS
    <2> HIDE DEF f
    <2>6. ASSUME IsInjective(FirstParts(n)) PROVE Joins(f) = (n % MaxPacket # 0)
      <3>1. \A i \in 1 .. TotalCount(n) : f[i] = Chunk(n, i)
        BY ONLY n \in Sizes, s \in Seq(ChunksOf(n)), <2>1, <2>4, <2>5, <2>6, SortedInOrder
      <3> QED  BY <2>2, <3>1, JoinsWhole
    <2>7. ASSUME Joins(f) PROVE IsInjective(FirstParts(n))
      <3>1. \A i \in 1 .. t : f[i].no = i - 1
        BY <2>2, <2>3, <2>7, JoinsAll
      <3>2. \A i, j \in 1 .. t : i - 1 = j - 1 => i = j
        BY <2>2
      <3> QED  BY <2>4, <3>1, <3>2
    <2>8. Joins(f) \in BOOLEAN
      BY DEF Joins
    <2>9. Joins(f) = (IsInjective(FirstParts(n)) /\ n % MaxPacket # 0)
      BY <2>6, <2>7, <2>8
    <2> QED  BY <2>1, <2>5, <2>9, Zenon
  <1> QED  BY <1>1, Inductive, PTL

=============================================================================
