---------------------------- MODULE Fat32Proofs ----------------------------
(***************************************************************************)
(* Safety of the FAT32 driver for disks, tables and names of any size.     *)
(* The first half is about a disk at rest: what the table links, which     *)
(* clusters an allocation takes, which directories can be reached, and     *)
(* what a change to one table or to clusters set aside does to the tree.   *)
(* The second half is the inductive invariant and its preservation.        *)
(***************************************************************************)
EXTENDS Fat32Power, TLAPS, FiniteSetTheorems, SequenceTheorems, WellFoundedInduction

\* The numbers of the disk: what they are, and that they differ.
LEMMA Constants ==
  /\ NClusters \in Nat /\ NClusters >= 3 /\ NSlots \in Nat /\ NSlots >= 2
  /\ Root \in Clusters /\ Clusters \subseteq 2 .. NClusters - 1
  /\ \A c \in Clusters : c \in Nat /\ c # Boot /\ c # FatNumber /\ c # Free
                         /\ c # Eof /\ c # Beyond /\ c \in 0 .. NClusters - 1
                         /\ c \in 0 .. Beyond
  /\ Eof # Free /\ Eof # Beyond /\ Beyond # Free
  /\ Eof \in 0 .. Beyond /\ Free \in 0 .. Beyond /\ Beyond \in 0 .. Beyond
  /\ Boot # FatNumber /\ Boot # Beyond /\ FatNumber # Beyond
  /\ 0 \in Slots /\ 1 \in Slots /\ Slots \subseteq Nat
BY Fat32Assumption DEF Root, Clusters, Boot, FatNumber, Free, Eof, Beyond, Slots

LEMMA LeastNumber ==
  ASSUME NEW S \in SUBSET Nat, S # {}
  PROVE  \E n \in S : \A k \in S : n <= k
<1>1. PICK n \in S : \A k \in S : ~(<<k, n>> \in OpToRel(<, Nat))
  BY WFMin, NatLessThanWellFounded, Zenon
<1>2. \A k \in S : ~(k < n)
  BY <1>1 DEF OpToRel
<1>3. QED BY <1>2

\* Induction up to a bound, for a set instead of a predicate.
LEMMA UpTo ==
  ASSUME NEW n \in Nat, NEW S, 0 \in S, \A m \in 0 .. n - 1 : m \in S => m + 1 \in S
  PROVE  \A m \in 0 .. n : m \in S
<1> DEFINE Bad == {m \in 0 .. n : m \notin S}
<1>1. SUFFICES ASSUME Bad # {} PROVE FALSE
  OBVIOUS
<1>2. Bad \in SUBSET Nat
  OBVIOUS
<1>3. PICK m \in Bad : \A k \in Bad : m <= k
  BY ONLY <1>1, <1>2, LeastNumber
<1>4. m - 1 \in 0 .. n - 1 /\ m - 1 \notin Bad
  BY <1>3
<1>5. QED BY <1>3, <1>4

LEMMA LeastIs ==
  ASSUME NEW S \in SUBSET Nat, S # {}
  PROVE  Least(S) \in S /\ \A k \in S : Least(S) <= k
<1>1. \E n \in S : \A k \in S : n <= k
  BY LeastNumber
<1>2. QED BY <1>1 DEF Least

-----------------------------------------------------------------------------
(* Chains.                                                                 *)

Maps == [0 .. NClusters - 1 -> 0 .. Beyond]

\* The clusters of s are linked by the table from c to the end.
Links(map, c, s) ==
  /\ s \in Seq(Clusters) /\ Len(s) \in 1 .. NClusters
  /\ s[1] = c
  /\ \A k \in 1 .. Len(s) - 1 : map[s[k]] = s[k + 1]
  /\ map[s[Len(s)]] = Eof

\* The chains of all clusters, followed for n clusters, from those followed
\* for one less.
Further(map, n, shorter) ==
  [c \in 0 .. Beyond |->
     IF n = 0 \/ c = Eof THEN <<>>
     ELSE IF c = Beyond THEN <<Beyond>>
     ELSE <<c>> \o shorter[map[c]]]

\* The chains of all clusters, followed for m clusters at most.
Walk(f, map, m) == f = [n \in 0 .. m |-> Further(map, n, f[n - 1])]

LEMMA WalksExist ==
  ASSUME NEW map, NEW n \in Nat
  PROVE  \E f : Walk(f, map, n)
<1> DEFINE Bad == {k \in Nat : ~ \E f : Walk(f, map, k)}
<1>1. SUFFICES ASSUME Bad # {} PROVE FALSE
  OBVIOUS
<1>2. PICK m \in Bad : \A k \in Bad : m <= k
  BY <1>1, LeastNumber
<1>3. m # 0
  <2> DEFINE g == [k \in 0 .. 0 |-> Further(map, 0, <<>>)]
  <2>1. \A q : Further(map, 0, q) = Further(map, 0, <<>>)
    BY DEF Further
  <2>2. \A k \in 0 .. 0 : Further(map, 0, <<>>) = Further(map, k, g[k - 1])
    BY <2>1
  <2>3. Walk(g, map, 0)
    BY <2>2, Zenon DEF Walk
  <2>4. QED BY <2>3
<1>4. m - 1 \in Nat /\ m - 1 \notin Bad
  BY <1>2, <1>3
<1>5. PICK f : Walk(f, map, m - 1)
  BY <1>4
<1> DEFINE g == [k \in 0 .. m |-> IF k < m THEN f[k] ELSE Further(map, m, f[m - 1])]
<1>6. ASSUME NEW k \in 0 .. m
      PROVE  g[k] = Further(map, k, g[k - 1])
  <2>1. CASE k = m
    BY <1>3, <2>1
  <2>2. CASE k < m
    <3>1. k \in 0 .. m - 1 /\ g[k] = f[k]
      BY <2>2
    <3>2. f[k] = Further(map, k, f[k - 1])
      BY <1>5, <3>1 DEF Walk
    <3>3. CASE k = 0
      BY <3>1, <3>2, <3>3 DEF Further
    <3>4. CASE k # 0
      BY <2>2, <3>1, <3>2, <3>4
    <3>5. QED BY <3>3, <3>4
  <2>3. QED BY <2>1, <2>2
<1>7. Walk(g, map, m)
  BY <1>6 DEF Walk
<1>8. QED BY <1>7

LEMMA ChainFromIs ==
  ASSUME NEW map
  PROVE  \E f : Walk(f, map, NClusters) /\ ChainFrom(map) = f[NClusters]
<1> DEFINE walk == CHOOSE f : Walk(f, map, NClusters)
<1>1. Walk(walk, map, NClusters)
  BY WalksExist, Constants
<1>2. ChainFrom(map) = walk[NClusters]
  BY DEF ChainFrom, Walk, Further
<1>3. QED BY <1>1, <1>2

LEMMA Prefixed ==
  ASSUME NEW S, NEW s \in Seq(S), NEW k \in 1 .. Len(s)
  PROVE  /\ k # Len(s) => SubSeq(s, k, Len(s)) = <<s[k]>> \o SubSeq(s, k + 1, Len(s))
         /\ k = Len(s) => SubSeq(s, k, Len(s)) = <<s[k]>> \o <<>>
         /\ SubSeq(s, 1, Len(s)) = s
<1>1. Len(s) \in k .. Len(s) /\ Len(s) \in Int /\ k + 1 \in Int
  BY LenProperties
<1>2. SubSeq(s, k, Len(s)) = <<s[k]>> \o SubSeq(s, k + 1, Len(s))
  BY <1>1, SubSeqRecursiveFirst
<1>3. k = Len(s) => SubSeq(s, k + 1, Len(s)) = <<>>
  BY <1>1, SubSeqEmpty
<1>4. QED BY <1>2, <1>3, SubSeqFull

\* There is only one sequence of clusters that the table links, and ChainFrom
\* finds it.
LEMMA ChainIs ==
  ASSUME NEW map, NEW c, NEW s, Links(map, c, s)
  PROVE  ChainFrom(map)[c] = s
<1> DEFINE n == Len(s)
<1>1. /\ s \in Seq(Clusters) /\ n \in 1 .. NClusters /\ n \in Nat /\ s[1] = c
      /\ \A k \in 1 .. n - 1 : map[s[k]] = s[k + 1]
      /\ map[s[n]] = Eof
  BY Constants DEF Links
<1>2. PICK f : Walk(f, map, NClusters) /\ ChainFrom(map) = f[NClusters]
  BY ChainFromIs
<1>3. \A k \in 1 .. n : s[k] \in Clusters
  BY <1>1, ElementOfSeq
<1> DEFINE Right(m) == \A k \in 1 .. n : n - k + 1 <= m => f[m][s[k]] = SubSeq(s, k, n)
           Good == {m \in Nat : Right(m)}
<1> HIDE DEF n
<1>4. 0 \in Good
  BY <1>1
<1>5. ASSUME NEW m \in 0 .. NClusters - 1, m \in Good PROVE m + 1 \in Good
  <2>1. m + 1 \in 0 .. NClusters /\ m \in 0 .. NClusters /\ m + 1 # 0 /\ m + 1 - 1 = m /\ m + 1 \in Nat
    BY Constants
  <2>2. f[m + 1] = Further(map, m + 1, f[m])
    BY <1>2, <2>1 DEF Walk
  <2>3. f[m] = Further(map, m, f[m - 1])
    BY <1>2, <2>1 DEF Walk
  <2>4. ASSUME NEW k \in 1 .. n, n - k + 1 <= m + 1
        PROVE  f[m + 1][s[k]] = SubSeq(s, k, n)
    <3>1. s[k] \in 0 .. Beyond /\ s[k] # Eof /\ s[k] # Beyond
      BY <1>3, Constants
    <3>2. f[m + 1][s[k]] = <<s[k]>> \o f[m][map[s[k]]]
      BY <2>1, <2>2, <3>1 DEF Further
    <3>3. CASE k = n
      <4>1. f[m][Eof] = <<>>
        BY <2>3, Constants DEF Further
      <4>2. QED BY <1>1, <3>2, <3>3, <4>1, Prefixed DEF n
    <3>4. CASE k # n
      <4>1. k + 1 \in 1 .. n /\ n - (k + 1) + 1 <= m /\ k \in 1 .. n - 1
        BY <1>1, <2>1, <2>4, <3>4
      <4>2. f[m][s[k + 1]] = SubSeq(s, k + 1, n)
        BY <1>5, <4>1
      <4>3. SubSeq(s, k, n) = <<s[k]>> \o SubSeq(s, k + 1, n)
        BY <1>1, <3>4, Prefixed DEF n
      <4>4. map[s[k]] = s[k + 1]
        BY <1>1, <4>1
      <4>5. QED BY <3>2, <4>2, <4>3, <4>4, Zenon
    <3>5. QED BY <3>3, <3>4
  <2>5. QED BY <2>1, <2>4
<1> HIDE DEF Good
<1>6. NClusters \in Good
  <2>1. NClusters \in Nat /\ NClusters \in 0 .. NClusters
    BY Constants
  <2>2. QED BY <1>4, <1>5, <2>1, UpTo
<1>7. 1 \in 1 .. n /\ n - 1 + 1 <= NClusters
  BY <1>1, Constants
<1>8. f[NClusters][s[1]] = SubSeq(s, 1, n)
  BY <1>6, <1>7 DEF Good
<1>9. SubSeq(s, 1, n) = s
  BY <1>1, <1>7, Prefixed DEF n
<1>10. QED BY <1>1, <1>2, <1>8, <1>9

Chain(map, c) == ChainFrom(map)[c]

\* A cluster has a chain.
Linked(map, c) == Links(map, c, Chain(map, c))

LEMMA LinkedIs ==
  ASSUME NEW map, NEW c, NEW s, Links(map, c, s)
  PROVE  Linked(map, c) /\ Chain(map, c) = s
BY ChainIs DEF Linked, Chain

\* What a chain is as a set of clusters.
LEMMA LinkedSound ==
  ASSUME NEW map, NEW c, Linked(map, c)
  PROVE  LET s == Chain(map, c)
         IN  /\ s \in Seq(Clusters) /\ Len(s) \in Nat /\ Len(s) >= 1
             /\ \A k \in 1 .. Len(s) : s[k] \in ToSet(s) /\ s[k] \in Clusters
             /\ ToSet(s) \subseteq Clusters
             /\ \A x \in ToSet(s) : \E k \in 1 .. Len(s) : x = s[k]
             /\ c \in ToSet(s) /\ c \in Clusters
             /\ \A x \in ToSet(s) : map[x] # Free
<1> DEFINE s == Chain(map, c)
<1>1. /\ s \in Seq(Clusters) /\ Len(s) \in Nat /\ Len(s) >= 1 /\ s[1] = c
      /\ \A k \in 1 .. Len(s) - 1 : map[s[k]] = s[k + 1]
      /\ map[s[Len(s)]] = Eof
  BY Constants DEF Linked, Links
<1>2. /\ \A k \in 1 .. Len(s) : s[k] \in ToSet(s) /\ s[k] \in Clusters
      /\ ToSet(s) \subseteq Clusters
      /\ \A x \in ToSet(s) : \E k \in 1 .. Len(s) : x = s[k]
  BY <1>1 DEF ToSet
<1>3. c \in ToSet(s) /\ c \in Clusters
  BY <1>1, <1>2
<1>4. ASSUME NEW k \in 1 .. Len(s) PROVE map[s[k]] # Free
  <2>1. CASE k = Len(s)
    BY <1>1, <2>1, Constants
  <2>2. CASE k # Len(s)
    <3>1. k \in 1 .. Len(s) - 1 /\ k + 1 \in 1 .. Len(s)
      BY <1>1, <2>2
    <3>2. QED BY <1>1, <1>2, <3>1, Constants
  <2>3. QED BY <2>1, <2>2
<1>5. QED BY <1>1, <1>2, <1>3, <1>4

\* A chain is not affected by what happens to the table elsewhere.
LEMMA LinkedElsewhere ==
  ASSUME NEW map, NEW other, NEW c, Linked(map, c),
         \A x \in ToSet(Chain(map, c)) : other[x] = map[x]
  PROVE  Linked(other, c) /\ Chain(other, c) = Chain(map, c)
<1> DEFINE s == Chain(map, c)
<1>1. \A k \in 1 .. Len(s) : s[k] \in ToSet(s)
  BY LinkedSound
<1>2. Links(map, c, s) /\ Len(s) \in Nat /\ Len(s) >= 1
  BY LinkedSound DEF Linked
<1>3. \A k \in 1 .. Len(s) : other[s[k]] = map[s[k]]
  BY <1>1
<1>4. Links(other, c, s)
  BY <1>2, <1>3 DEF Links
<1>5. QED BY <1>4, LinkedIs

-----------------------------------------------------------------------------
(* Allocation.                                                             *)

\* The elements of a finite set of numbers in ascending order.
LEMMA RankExists ==
  ASSUME NEW F \in SUBSET Nat, IsFiniteSet(F)
  PROVE  \A i \in Nat : i < Cardinality(F) =>
           \E c \in F : Cardinality({x \in F : x < c}) = i
<1> DEFINE Below(c) == {x \in F : x < c}
           Good == {i \in Nat : i < Cardinality(F) => \E c \in F : Cardinality(Below(c)) = i}
<1>1. Cardinality(F) \in Nat
  BY FS_CardinalityType
<1>2. ASSUME NEW c \in F PROVE IsFiniteSet(Below(c)) /\ Cardinality(Below(c)) \in Nat
  BY FS_Subset, FS_CardinalityType
<1>3. 0 \in Good
  <2>1. SUFFICES ASSUME 0 < Cardinality(F) PROVE \E c \in F : Cardinality(Below(c)) = 0
    OBVIOUS
  <2>2. F # {}
    BY <2>1, FS_EmptySet
  <2>3. PICK c \in F : \A x \in F : c <= x
    BY <2>2, LeastNumber
  <2>4. ASSUME NEW x \in F PROVE ~(x < c)
    <3>1. c \in Nat /\ x \in Nat /\ c <= x
      BY <2>3
    <3>2. QED BY <3>1
  <2>5. Below(c) = {}
    BY <2>4
  <2>6. QED BY <2>5, FS_EmptySet
<1>4. ASSUME NEW i \in Nat, i \in Good PROVE i + 1 \in Good
  <2>1. SUFFICES ASSUME i + 1 < Cardinality(F)
                 PROVE  \E c \in F : Cardinality(Below(c)) = i + 1
    OBVIOUS
  <2>2. PICK c \in F : Cardinality(Below(c)) = i
    BY <1>1, <1>4, <2>1
  <2> DEFINE U == Below(c) \cup {c}
  <2>3. c \notin Below(c)
    OBVIOUS
  <2>4. IsFiniteSet(U) /\ Cardinality(U) = i + 1
    BY <1>2, <2>2, <2>3, FS_AddElement
  <2>5. F \ U # {}
    BY <2>1, <2>4
  <2>6. (F \ U) \in SUBSET Nat
    OBVIOUS
  <2> HIDE DEF U
  <2>7. PICK d \in F \ U : \A x \in F \ U : d <= x
    BY <2>5, <2>6, LeastNumber
  <2>8. ASSUME NEW x \in F PROVE x < d <=> x \in U
    <3>1. x \in Nat /\ d \in Nat /\ c \in Nat /\ d \in F
      BY <2>7
    <3>2. \A y \in F : y \in U <=> y < c \/ y = c
      BY DEF U
    <3>3. ~(d < c) /\ d # c
      BY <2>7, <3>1, <3>2
    <3>4. x \notin U => d <= x
      BY <2>7
    <3>5. QED BY <3>1, <3>2, <3>3, <3>4
  <2>9. U \subseteq F
    BY DEF U
  <2>10. Below(d) = U
    BY <2>8, <2>9
  <2>11. QED BY <2>4, <2>7, <2>10
<1> HIDE DEF Good
<1>5. ASSUME NEW n \in Nat PROVE n \in Good
  <2>1. \A m \in 0 .. n - 1 : m \in Good => m + 1 \in Good
    BY <1>4
  <2>2. QED BY <1>3, <2>1, UpTo
<1>6. QED BY <1>5 DEF Good

\* Distinct free clusters are handed out, as many as asked for.
LEMMA TakenSound ==
  ASSUME NEW n \in Nat, n >= 1, n <= Cardinality(FreeClusters)
  PROVE  /\ Taken(n) \in Seq(Clusters) /\ Len(Taken(n)) = n /\ n \in 1 .. NClusters
         /\ \A i \in 1 .. n : Taken(n)[i] \in FreeClusters
         /\ \A i, j \in 1 .. n : Taken(n)[i] = Taken(n)[j] => i = j
<1> DEFINE Rank(c) == Cardinality({x \in FreeClusters : x < c})
           nth(i) == CHOOSE c \in FreeClusters : Rank(c) = i - 1
<1>1. FreeClusters \in SUBSET Nat /\ FreeClusters \in SUBSET (2 .. NClusters - 1)
      /\ FreeClusters \subseteq Clusters
  BY Constants DEF FreeClusters
<1>2. /\ IsFiniteSet(FreeClusters) /\ Cardinality(FreeClusters) \in Nat
      /\ Cardinality(FreeClusters) <= NClusters
  <2>1. IsFiniteSet(2 .. NClusters - 1) /\ Cardinality(2 .. NClusters - 1) = NClusters - 2
    <3>1. 2 \in Int /\ NClusters - 1 \in Int /\ ~(2 > NClusters - 1)
          /\ NClusters - 1 - 2 + 1 = NClusters - 2
      BY Constants
    <3>2. QED BY ONLY <3>1, FS_Interval
  <2>2. IsFiniteSet(FreeClusters) /\ Cardinality(FreeClusters) <= NClusters - 2
    BY <1>1, <2>1, FS_Subset
  <2>3. QED BY <2>2, FS_CardinalityType, Constants
<1>3. ASSUME NEW i \in 1 .. n PROVE nth(i) \in FreeClusters /\ Rank(nth(i)) = i - 1
  <2>1. i - 1 \in Nat /\ i - 1 < Cardinality(FreeClusters)
    BY <1>2
  <2>2. \E c \in FreeClusters : Rank(c) = i - 1
    BY <1>1, <1>2, <2>1, RankExists
  <2>3. QED BY <2>2
<1>4. Taken(n) = [i \in 1 .. n |-> nth(i)]
  BY DEF Taken
<1> HIDE DEF nth
<1>5. \A i \in 1 .. n : Taken(n)[i] = nth(i)
  BY <1>4
<1>6. Taken(n) \in Seq(Clusters) /\ Len(Taken(n)) = n
  <2>1. \A i \in 1 .. n : nth(i) \in Clusters
    BY <1>1, <1>3
  <2>2. QED BY <1>4, <2>1
<1>7. n \in 1 .. NClusters
  BY <1>2, Constants
<1>8. ASSUME NEW i \in 1 .. n, NEW j \in 1 .. n, Taken(n)[i] = Taken(n)[j] PROVE i = j
  <2>1. Rank(nth(i)) = i - 1 /\ Rank(nth(j)) = j - 1 /\ nth(i) = nth(j)
    BY <1>3, <1>5, <1>8
  <2>2. i - 1 = j - 1
    BY <2>1, Zenon
  <2>3. QED BY <2>2
<1>9. QED BY <1>3, <1>5, <1>6, <1>7, <1>8

\* The table links the clusters handed out, and no other entry of it changes.
LEMMA ChainedSound ==
  ASSUME fat \in Maps, NEW taken \in Seq(Clusters), NEW n, n = Len(taken), n \in 1 .. NClusters,
         \A i, j \in 1 .. n : taken[i] = taken[j] => i = j
  PROVE  /\ Chained(taken) \in Maps
         /\ Links(Chained(taken), taken[1], taken)
         /\ \A c \in 0 .. NClusters - 1 : c \notin ToSet(taken) => Chained(taken)[c] = fat[c]
<1>1. /\ DOMAIN fat = 0 .. NClusters - 1 /\ DOMAIN taken = 1 .. n /\ n \in Nat /\ n >= 1
      /\ \A i \in 1 .. n : taken[i] \in Clusters /\ taken[i] \in ToSet(taken)
                           /\ taken[i] \in 0 .. NClusters - 1 /\ taken[i] \in 0 .. Beyond
  <2>1. DOMAIN taken = 1 .. n /\ n \in Nat /\ n >= 1
    BY Constants, LenProperties
  <2>2. \A i \in 1 .. n : taken[i] \in Clusters
    BY ElementOfSeq
  <2>3. QED BY <2>1, <2>2, Constants DEF Maps, ToSet
<1>2. Last(taken) = taken[n]
  BY DEF Last
<1> DEFINE succ(c) == CHOOSE i \in DOMAIN taken : i > 1 /\ taken[i - 1] = c
<1>3. ASSUME NEW k \in 1 .. n - 1 PROVE succ(taken[k]) = k + 1
  <2>1. k + 1 \in DOMAIN taken /\ k + 1 > 1 /\ taken[k + 1 - 1] = taken[k]
    BY <1>1
  <2>2. \A i \in DOMAIN taken : i > 1 /\ taken[i - 1] = taken[k] => i = k + 1
    BY <1>1
  <2>3. QED BY <2>1, <2>2
<1> HIDE DEF succ
<1>4. Chained(taken) = [c \in 0 .. NClusters - 1 |->
                          IF c \notin ToSet(taken) THEN fat[c]
                          ELSE IF c = taken[n] THEN Eof ELSE taken[succ(c)]]
  BY <1>1, <1>2 DEF Chained, succ
<1>5. ASSUME NEW k \in 1 .. n
      PROVE  Chained(taken)[taken[k]] = IF k = n THEN Eof ELSE taken[k + 1]
  <2>1. Chained(taken)[taken[k]] = IF taken[k] = taken[n] THEN Eof ELSE taken[succ(taken[k])]
    BY <1>1, <1>4
  <2>2. taken[k] = taken[n] <=> k = n
    BY <1>1
  <2>3. k # n => succ(taken[k]) = k + 1
    BY <1>1, <1>3
  <2>4. QED BY <2>1, <2>2, <2>3
<1>6. Chained(taken) \in Maps
  <2>1. ASSUME NEW c \in 0 .. NClusters - 1 PROVE Chained(taken)[c] \in 0 .. Beyond
    <3>1. CASE c \notin ToSet(taken)
      BY <1>4, <3>1 DEF Maps
    <3>2. CASE c \in ToSet(taken)
      <4>1. PICK k \in 1 .. n : c = taken[k]
        BY <1>1, <3>2 DEF ToSet
      <4>2. k # n => k + 1 \in 1 .. n
        BY <1>1
      <4>3. QED BY <1>1, <1>5, <4>1, <4>2, Constants
    <3>3. QED BY <3>1, <3>2
  <2>2. QED BY <1>4, <2>1 DEF Maps
<1>7. Links(Chained(taken), taken[1], taken)
  BY <1>1, <1>5 DEF Links
<1>8. QED BY <1>4, <1>6, <1>7

-----------------------------------------------------------------------------
(* Directories.                                                            *)

\* A slot of a directory's table holds an entry.
InUse(st, d, s) == s \in Slots \ {0} /\ st[d].table[s].used

\* A folder in a directory.
Child(st, d, c) ==
  \E s \in Slots : InUse(st, d, s) /\ st[d].table[s].dir /\ st[d].table[s].cluster = c

Closed(st, C) == \A d \in C, c \in Clusters : Child(st, d, c) => c \in C

\* D are the directories that can be reached from top: the least set that is
\* closed under the folders in it.
Reached(D, st, top) ==
  /\ top \in D /\ D \subseteq Clusters /\ Closed(st, D)
  /\ \A C \in SUBSET Clusters : top \in C /\ Closed(st, C) => D \subseteq C

LEMMA ReachedOnce ==
  ASSUME NEW st, NEW top, NEW D, NEW E, Reached(D, st, top), Reached(E, st, top)
  PROVE  D = E
BY DEF Reached

\* A directory that can be reached is the top or in one that can be reached.
LEMMA ReachedFrom ==
  ASSUME NEW st, NEW top, NEW D, Reached(D, st, top), NEW d \in D, d # top
  PROVE  \E p \in D : Child(st, p, d)
<1> DEFINE C == D \ {d}
<1>1. SUFFICES ASSUME \A p \in D : ~Child(st, p, d) PROVE FALSE
  OBVIOUS
<1>2. C \in SUBSET Clusters /\ top \in C
  BY DEF Reached
<1>3. Closed(st, C)
  BY <1>1 DEF Closed, Reached
<1>4. D \subseteq C
  BY <1>2, <1>3 DEF Reached
<1>5. QED BY <1>4

\* The folders of a set of directories.
LEMMA SubdirsAre ==
  ASSUME NEW D
  PROVE  SubdirsOf(D) \cap Clusters = {c \in Clusters : \E d \in D : Child(store, d, c)}
BY DEF SubdirsOf, EntriesOf, UsedSlots, Child, InUse

Level(n, above) == above \cup {c \in Clusters : \E d \in above : Child(store, d, c)}

Layers(f, top, m) == f = [n \in 0 .. m |-> IF n = 0 THEN {top} ELSE Level(n, f[n - 1])]

LEMMA LevelsExist ==
  ASSUME NEW top, NEW n \in Nat
  PROVE  \E f : Layers(f, top, n)
<1> DEFINE Good == {k \in Nat : \E f : Layers(f, top, k)}
<1>1. 0 \in Good
  <2> DEFINE g == [k \in 0 .. 0 |-> {top}]
  <2>1. Layers(g, top, 0)
    BY DEF Layers
  <2>2. QED BY <2>1
<1>2. ASSUME NEW m \in Nat, m \in Good PROVE m + 1 \in Good
  <2>1. PICK f : Layers(f, top, m)
    BY <1>2
  <2> DEFINE g == [k \in 0 .. m + 1 |-> IF k <= m THEN f[k] ELSE Level(k, f[m])]
  <2>2. ASSUME NEW k \in 0 .. m + 1
        PROVE  g[k] = IF k = 0 THEN {top} ELSE Level(k, g[k - 1])
    <3>1. CASE k = m + 1
      BY <3>1
    <3>2. CASE k # m + 1
      <4>1. k \in 0 .. m /\ g[k] = f[k]
        BY <3>2
      <4>2. f[k] = IF k = 0 THEN {top} ELSE Level(k, f[k - 1])
        BY <2>1, <4>1 DEF Layers
      <4>3. k # 0 => g[k - 1] = f[k - 1]
        BY <4>1
      <4>4. QED BY <4>1, <4>2, <4>3
    <3>3. QED BY <3>1, <3>2
  <2>3. Layers(g, top, m + 1)
    BY <2>2 DEF Layers
  <2>4. QED BY <2>3
<1>3. \A m \in 0 .. n - 1 : m \in Good => m + 1 \in Good
  BY <1>2
<1> HIDE DEF Good
<1>4. n \in 0 .. n /\ n \in Good
  BY <1>1, <1>3, UpTo
<1>5. QED BY <1>4 DEF Good

LEMMA DirectoriesFromIs ==
  ASSUME NEW top
  PROVE  \E f : Layers(f, top, NClusters - 3) /\ DirectoriesFrom(top) = f[NClusters - 3]
<1> DEFINE Within(f) ==
      f = [n \in 0 .. NClusters - 3 |->
             IF n = 0 THEN {top} ELSE f[n - 1] \cup (SubdirsOf(f[n - 1]) \cap Clusters)]
    within == CHOOSE f : Within(f)
<1>1. ASSUME NEW f PROVE Within(f) <=> Layers(f, top, NClusters - 3)
  BY SubdirsAre, Zenon DEF Layers, Level
<1>2. NClusters - 3 \in Nat
  BY Constants
<1>3. \E f : Within(f)
  BY <1>1, <1>2, LevelsExist
<1>4. Within(within)
  BY <1>3
<1>5. DirectoriesFrom(top) = within[NClusters - 3]
  BY DEF DirectoriesFrom
<1>6. Layers(within, top, NClusters - 3)
  BY <1>1, <1>4
<1>7. QED BY <1>5, <1>6

\* There are not enough clusters for a level to find something new each time.
LEMMA DirectoriesFromReached ==
  ASSUME NEW top \in Clusters
  PROVE  Reached(DirectoriesFrom(top), store, top)
<1> DEFINE N == NClusters - 3
<1>1. PICK f : Layers(f, top, N) /\ DirectoriesFrom(top) = f[N]
  BY DirectoriesFromIs
<1>2. N \in Nat /\ N \in 0 .. N /\ 0 \in 0 .. N
  BY Constants
<1> HIDE DEF N
<1>3. /\ f[0] = {top}
      /\ \A n \in 0 .. N - 1 : f[n + 1] = Level(n + 1, f[n])
  <2>1. \A n \in 0 .. N : f[n] = IF n = 0 THEN {top} ELSE Level(n, f[n - 1])
    BY <1>1 DEF Layers
  <2>2. QED BY <1>2, <2>1
<1> DEFINE Sound(n) ==
      /\ top \in f[n] /\ f[n] \subseteq Clusters
      /\ Closed(store, f[n]) \/ Cardinality(f[n]) >= n + 1
      /\ \A C \in SUBSET Clusters : top \in C /\ Closed(store, C) => f[n] \subseteq C
    Good == {n \in Nat : Sound(n)}
<1>4. ASSUME NEW D \in SUBSET Clusters
      PROVE  IsFiniteSet(D) /\ Cardinality(D) \in Nat /\ Cardinality(D) <= NClusters - 2
             /\ (Cardinality(D) = NClusters - 2 => D = Clusters)
  <2>1. 2 \in Int /\ NClusters - 1 \in Int /\ ~(2 > NClusters - 1)
        /\ NClusters - 1 - 2 + 1 = NClusters - 2
    BY Constants
  <2>2. IsFiniteSet(2 .. NClusters - 1) /\ Cardinality(2 .. NClusters - 1) = NClusters - 2
    BY ONLY <2>1, FS_Interval
  <2>3. Clusters = 2 .. NClusters - 1
    BY DEF Clusters
  <2>4. QED BY <2>2, <2>3, FS_Subset, FS_CardinalityType
<1>5. 0 \in Good
  <2>1. Cardinality(f[0]) = 1
    BY <1>3, FS_Singleton
  <2>2. QED BY <1>3, <2>1
<1>6. ASSUME NEW n \in 0 .. N - 1, n \in Good PROVE n + 1 \in Good
  <2>1. Sound(n)
    BY <1>6
  <2>2. f[n + 1] = f[n] \cup {c \in Clusters : \E d \in f[n] : Child(store, d, c)}
    BY <1>3 DEF Level
  <2>3. top \in f[n + 1] /\ f[n + 1] \subseteq Clusters /\ n + 1 \in Nat
    BY <2>1, <2>2
  <2>4. ASSUME NEW C \in SUBSET Clusters, top \in C, Closed(store, C) PROVE f[n + 1] \subseteq C
    BY <2>1, <2>2, <2>4 DEF Closed
  <2>5. Closed(store, f[n + 1]) \/ Cardinality(f[n + 1]) >= n + 1 + 1
    <3>1. CASE Closed(store, f[n])
      <4>1. f[n + 1] = f[n]
        BY <2>2, <3>1 DEF Closed
      <4>2. QED BY <3>1, <4>1
    <3>2. CASE ~Closed(store, f[n])
      <4>1. PICK c \in Clusters : c \notin f[n] /\ c \in f[n + 1]
        BY <2>2, <3>2 DEF Closed
      <4>2. f[n] \cup {c} \in SUBSET f[n + 1]
        BY <2>2, <4>1
      <4>3. Cardinality(f[n] \cup {c}) = Cardinality(f[n]) + 1
        BY <1>4, <2>1, <4>1, FS_AddElement
      <4>4. Cardinality(f[n] \cup {c}) <= Cardinality(f[n + 1])
        BY <1>4, <2>3, <4>2, FS_Subset
      <4>5. Cardinality(f[n]) >= n + 1 /\ Cardinality(f[n]) \in Nat /\ Cardinality(f[n + 1]) \in Nat
        BY <1>4, <2>1, <2>3, <3>2
      <4>6. QED BY <4>3, <4>4, <4>5
    <3>3. QED BY <3>1, <3>2
  <2>6. QED BY <2>3, <2>4, <2>5
<1> HIDE DEF Good
<1>7. N \in Good
  BY <1>2, <1>5, <1>6, UpTo
<1>8. Sound(N)
  BY <1>7 DEF Good
<1>9. Closed(store, f[N])
  <2>1. CASE Cardinality(f[N]) >= N + 1
    <3>1. Cardinality(f[N]) = NClusters - 2
      BY <1>4, <1>8, <2>1, Constants DEF N
    <3>2. f[N] = Clusters
      BY <1>4, <1>8, <3>1
    <3>3. QED BY <3>2 DEF Closed
  <2>2. QED BY <1>8, <2>1
<1>10. QED BY <1>1, <1>8, <1>9 DEF Reached

LEMMA DirectoriesReached == Reached(Directories, store, Root)
BY DirectoriesFromReached, Constants DEF Directories

-----------------------------------------------------------------------------
(* The tree.  gone: slots whose entries are on their way out.  aside: the  *)
(* clusters that the current call is about, not yet or no longer in the    *)
(* tree.                                                                   *)

StoreOK(st) ==
  /\ st = [c \in Clusters |-> st[c]]
  /\ \A c \in Clusters : st[c].table \in [Slots -> Entry]

\* Slots hold a named entry or nothing, and no name twice.
Tidy(table) ==
  /\ \A s \in Slots \ {0} :
       IF table[s].used THEN table[s].name \in Names ELSE table[s] = EmptyEntry
  /\ \A s, t \in Slots \ {0} :
       table[s].used /\ table[t].used /\ table[s].name = table[t].name => s = t

LEMMA EmptyEntryIs ==
  ~EmptyEntry.used /\ ~EmptyEntry.dir /\ EmptyEntry.name = NoName /\ EmptyEntry \in Entry
BY Constants DEF EmptyEntry, Entry

\* A slot is filled with an entry of a new name, or emptied.
SlotSet(table, slot, e, other) ==
  \A s \in Slots \ {0} : other[s] = IF s = slot THEN e ELSE table[s]

NewName(table, e) ==
  /\ e.used /\ e.name \in Names
  /\ \A s \in Slots \ {0} : table[s].used => table[s].name # e.name

LEMMA TidyChanged ==
  ASSUME NEW table, Tidy(table), NEW slot \in Slots \ {0}, NEW e, NEW other,
         SlotSet(table, slot, e, other), e = EmptyEntry \/ NewName(table, e)
  PROVE  Tidy(other)
<1> USE DEF SlotSet, NewName
<1>1. \A s \in Slots \ {0} :
        IF other[s].used THEN other[s].name \in Names ELSE other[s] = EmptyEntry
  BY EmptyEntryIs DEF Tidy
<1>2. ASSUME NEW s \in Slots \ {0}, NEW t \in Slots \ {0},
             other[s].used, other[t].used, other[s].name = other[t].name
      PROVE  s = t
  <2>1. CASE s = slot
    BY <1>2, <2>1, EmptyEntryIs
  <2>2. CASE t = slot
    BY <1>2, <2>2, EmptyEntryIs
  <2>3. CASE s # slot /\ t # slot
    BY <1>2, <2>3 DEF Tidy
  <2>4. QED BY <2>1, <2>2, <2>3
<1>3. QED BY <1>1, <1>2 DEF Tidy

\* The clusters of an entry.
Owned(map, e) == ToSet(Chain(map, e.cluster))

\* The k-th cluster of a file is not zeroed, and holds what Written has put
\* there if the files are the driver's own.
Sound(own, d, name, k, data) ==
  data # Nobody /\ (own => data = <<d, name, k>>)

\* An entry of directory d is whole and a file holds its data.
Held(own, st, map, d, e) ==
  /\ Linked(map, e.cluster)
  /\ e.dir => map[e.cluster] = Eof /\ e.length = 0
  /\ ~e.dir =>
       /\ Len(Chain(map, e.cluster)) = e.length
       /\ \A k \in 1 .. e.length : Sound(own, d, e.name, k, st[Chain(map, e.cluster)[k]].data)

\* A table whose first entry is about the directory.
Headed(table) == table[0].used /\ table[0].dir

Stays(st, gone, d, s) == InUse(st, d, s) /\ <<d, s>> \notin gone

Tree(own, D, st, map, gone, aside) ==
  /\ \A d \in D : Tidy(st[d].table) /\ (d \notin aside => Headed(st[d].table))
  /\ map[Root] = Eof /\ Root \notin aside
  /\ \A d \in D, s \in Slots : InUse(st, d, s) /\ <<d, s>> \in gone =>
       st[d].table[s].cluster \in aside
  /\ \A d \in D, s \in Slots : Stays(st, gone, d, s) =>
       /\ Held(own, st, map, d, st[d].table[s])
       /\ Owned(map, st[d].table[s]) \cap aside = {}
       /\ Root \notin Owned(map, st[d].table[s])
  /\ \A d, p \in D, s, t \in Slots :
       Stays(st, gone, d, s) /\ Stays(st, gone, p, t) /\ (d # p \/ s # t) =>
         Owned(map, st[d].table[s]) \cap Owned(map, st[p].table[t]) = {}

\* Every allocated cluster is the root's, set aside or an entry's.
Accounted(D, st, map, gone, aside) ==
  \A c \in Clusters : map[c] # Free =>
    \/ c = Root \/ c \in aside
    \/ \E d \in D, s \in Slots : Stays(st, gone, d, s) /\ c \in Owned(map, st[d].table[s])

\* What a directory occupies is in no file.
LEMMA DirNotInFile ==
  ASSUME NEW own \in BOOLEAN,
         NEW D, NEW st, NEW map, NEW gone, NEW aside,
         Tree(own, D, st, map, gone, aside), Reached(D, st, Root),
         NEW d \in D, NEW p \in D, NEW s \in Slots, Stays(st, gone, p, s), ~st[p].table[s].dir
  PROVE  d \notin Owned(map, st[p].table[s])
<1>1. CASE d = Root
  BY <1>1 DEF Tree
<1>2. CASE d # Root
  <2>1. PICK q \in D : Child(st, q, d)
    BY <1>2, ReachedFrom
  <2>2. PICK t \in Slots : InUse(st, q, t) /\ st[q].table[t].dir /\ st[q].table[t].cluster = d
    BY <2>1 DEF Child
  <2>3. CASE <<q, t>> \in gone
    <3>1. d \in aside
      BY <2>2, <2>3 DEF Tree
    <3>2. Owned(map, st[p].table[s]) \cap aside = {}
      BY DEF Tree
    <3>3. QED BY <3>1, <3>2
  <2>4. CASE <<q, t>> \notin gone
    <3>1. Stays(st, gone, q, t)
      BY <2>2, <2>4 DEF Stays
    <3>2. d \in Owned(map, st[q].table[t])
      <4>1. Linked(map, d)
        BY <2>2, <3>1 DEF Tree, Held
      <4>2. QED BY <2>2, <4>1, LinkedSound DEF Owned
    <3>3. q # p \/ t # s
      BY <2>2
    <3>4. Owned(map, st[q].table[t]) \cap Owned(map, st[p].table[s]) = {}
      BY <3>1, <3>3 DEF Tree
    <3>5. QED BY <3>2, <3>4
  <2>5. QED BY <2>3, <2>4
<1>3. QED BY <1>1, <1>2

\* The same folders, as far as directories in D go.
LEMMA ReachedSame ==
  ASSUME NEW D, NEW st, NEW other, NEW top, Reached(D, st, top),
         \A d \in D, c \in Clusters : Child(other, d, c) <=> Child(st, d, c)
  PROVE  Reached(D, other, top)
<1>1. top \in D /\ D \subseteq Clusters
  BY DEF Reached
<1>2. Closed(other, D)
  BY DEF Reached, Closed
<1>3. ASSUME NEW C \in SUBSET Clusters, top \in C, Closed(other, C) PROVE D \subseteq C
  <2>1. Closed(st, C \cap D)
    BY <1>3 DEF Closed, Reached
  <2>2. C \cap D \in SUBSET Clusters /\ top \in C \cap D
    BY <1>1, <1>3
  <2>3. D \subseteq C \cap D
    BY <2>1, <2>2 DEF Reached
  <2>4. QED BY <2>3
<1>4. QED BY <1>1, <1>2, <1>3 DEF Reached

\* Changes to clusters and to entries of the table that are set aside, and to
\* what directories hold besides their entries, leave the tree as it is.
LEMMA TreeElsewhere ==
  ASSUME NEW own \in BOOLEAN,
         NEW D, NEW st, NEW map, NEW gone, NEW aside, NEW other, NEW newMap,
         Tree(own, D, st, map, gone, aside), Reached(D, st, Root),
         \A d \in D, s \in Slots \ {0} : other[d].table[s] = st[d].table[s],
         \A d \in D \ aside : Headed(other[d].table),
         \A c \in Clusters \ (aside \cup D) : other[c] = st[c],
         \A c \in Clusters \ aside : newMap[c] = map[c]
  PROVE  /\ Tree(own, D, other, newMap, gone, aside)
         /\ Reached(D, other, Root)
         /\ Accounted(D, st, map, gone, aside) => Accounted(D, other, newMap, gone, aside)
<1>1. /\ \A d \in D, s \in Slots : InUse(other, d, s) <=> InUse(st, d, s)
      /\ \A d \in D, s \in Slots : Stays(other, gone, d, s) <=> Stays(st, gone, d, s)
      /\ \A d \in D, s \in Slots : InUse(st, d, s) => other[d].table[s] = st[d].table[s]
  BY DEF InUse, Stays
<1>2. Reached(D, other, Root)
  <2>1. \A d \in D, c \in Clusters : Child(other, d, c) <=> Child(st, d, c)
    BY <1>1 DEF Child
  <2>2. QED BY <2>1, ReachedSame
<1>3. ASSUME NEW d \in D PROVE Tidy(other[d].table) /\ (d \notin aside => Headed(other[d].table))
  <2>1. Tidy(st[d].table)
    BY DEF Tree
  <2>2. \A s \in Slots \ {0} : other[d].table[s] = st[d].table[s]
    OBVIOUS
  <2>3. QED BY <2>1, <2>2 DEF Tidy
<1>4. newMap[Root] = Eof /\ Root \notin aside
  BY Constants DEF Tree
<1>5. ASSUME NEW d \in D, NEW s \in Slots, Stays(st, gone, d, s)
      PROVE  /\ Held(own, other, newMap, d, other[d].table[s])
             /\ Owned(newMap, other[d].table[s]) = Owned(map, st[d].table[s])
  <2> DEFINE e == st[d].table[s]
             chain == Chain(map, e.cluster)
  <2>1. other[d].table[s] = e
    BY <1>1, <1>5 DEF Stays
  <2>2. Held(own, st, map, d, e) /\ Owned(map, e) \cap aside = {}
    BY <1>5 DEF Tree
  <2>3. Linked(map, e.cluster)
    BY <2>2 DEF Held
  <2>4. \A x \in ToSet(chain) : x \in Clusters \ aside
    BY <2>2, <2>3, LinkedSound DEF Owned
  <2>5. Linked(newMap, e.cluster) /\ Chain(newMap, e.cluster) = chain
    BY <2>3, <2>4, LinkedElsewhere
  <2>6. e.dir => newMap[e.cluster] = Eof /\ e.length = 0
    <3>1. e.cluster \in ToSet(chain)
      BY <2>3, LinkedSound
    <3>2. QED BY <2>2, <2>4, <3>1 DEF Held
  <2>7. ASSUME ~e.dir, NEW k \in 1 .. e.length
        PROVE  Sound(own, d, e.name, k, other[chain[k]].data)
    <3>1. Len(chain) = e.length /\ Sound(own, d, e.name, k, st[chain[k]].data)
      BY <2>2, <2>7 DEF Held
    <3>2. chain[k] \in ToSet(chain)
      BY <2>3, <3>1, LinkedSound
    <3>3. chain[k] \notin D
      BY <1>5, <2>7, <3>2, DirNotInFile DEF Owned
    <3>4. other[chain[k]] = st[chain[k]]
      BY <2>4, <3>2, <3>3
    <3>5. QED BY <3>1, <3>4
  <2>8. ~e.dir => Len(chain) = e.length
    BY <2>2 DEF Held
  <2> HIDE DEF e, chain
  <2>9. Held(own, other, newMap, d, e)
    BY <2>5, <2>6, <2>7, <2>8 DEF Held
  <2>10. Owned(newMap, e) = Owned(map, e)
    BY <2>5 DEF Owned, chain
  <2>11. QED BY <2>1, <2>9, <2>10 DEF e
<1>6. Tree(own, D, other, newMap, gone, aside)
  <2>1. \A d \in D, s \in Slots : InUse(other, d, s) /\ <<d, s>> \in gone =>
          other[d].table[s].cluster \in aside
    BY <1>1 DEF Tree
  <2>2. \A d \in D, s \in Slots : Stays(other, gone, d, s) =>
          /\ Held(own, other, newMap, d, other[d].table[s])
          /\ Owned(newMap, other[d].table[s]) \cap aside = {}
          /\ Root \notin Owned(newMap, other[d].table[s])
    BY <1>1, <1>5 DEF Tree
  <2>3. \A d, p \in D, s, t \in Slots :
          Stays(other, gone, d, s) /\ Stays(other, gone, p, t) /\ (d # p \/ s # t) =>
            Owned(newMap, other[d].table[s]) \cap Owned(newMap, other[p].table[t]) = {}
    BY <1>1, <1>5 DEF Tree
  <2>4. QED BY <1>3, <1>4, <2>1, <2>2, <2>3 DEF Tree
<1>7. ASSUME Accounted(D, st, map, gone, aside) PROVE Accounted(D, other, newMap, gone, aside)
  BY <1>1, <1>5, <1>7 DEF Accounted
<1>8. QED BY <1>2, <1>6, <1>7

\* One slot of one directory changes.
Replaced(D, st, other, parent, slot, e) ==
  /\ other[parent].table[slot] = e
  /\ \A d \in D, s \in Slots : d # parent \/ s # slot => other[d].table[s] = st[d].table[s]
  /\ \A c \in Clusters \ {parent} : other[c] = st[c]

\* An entry that is whole and alone in what it owns may stay.
LEMMA StillHeld ==
  ASSUME NEW own \in BOOLEAN,
         NEW D, NEW st, NEW map, NEW gone, NEW aside, NEW other, NEW parent \in D,
         Tree(own, D, st, map, gone, aside), Reached(D, st, Root),
         \A c \in Clusters \ {parent} : other[c] = st[c],
         NEW d \in D, NEW s \in Slots, Stays(st, gone, d, s)
  PROVE  Held(own, other, map, d, st[d].table[s])
<1> DEFINE e == st[d].table[s]
           chain == Chain(map, e.cluster)
<1>1. Held(own, st, map, d, e)
  BY DEF Tree
<1>2. Linked(map, e.cluster)
  BY <1>1 DEF Held
<1>3. ASSUME ~e.dir, NEW k \in 1 .. e.length PROVE other[chain[k]] = st[chain[k]]
  <2>1. chain[k] \in ToSet(chain) /\ chain[k] \in Clusters
    BY <1>1, <1>2, <1>3, LinkedSound DEF Held
  <2>2. parent \notin ToSet(chain)
    BY <1>3, DirNotInFile DEF Owned
  <2>3. QED BY <2>1, <2>2
<1> HIDE DEF e
<1>4. QED BY <1>1, <1>3 DEF Held, e

\* The tree after the last write of a call.
Becomes(own, D, st, map, gone, aside, E, other) ==
  /\ Tree(own, E, other, map, {}, {})
  /\ Reached(E, other, Root)
  /\ Accounted(D, st, map, gone, aside) => Accounted(E, other, map, {}, {})

LEMMA EntryAppears ==
  ASSUME NEW own \in BOOLEAN,
         NEW D, NEW st, NEW map, NEW other, NEW parent \in D, NEW slot \in Slots \ {0}, NEW e,
         NEW aside, Tree(own, D, st, map, {}, aside), Reached(D, st, Root), aside \cap D = {},
         Replaced(D, st, other, parent, slot, e),
         ~st[parent].table[slot].used,
         e.used, e.name \in Names, e.cluster \in Clusters,
         \A s \in Slots \ {0} : st[parent].table[s].used => st[parent].table[s].name # e.name,
         Held(own, st, map, parent, e), Owned(map, e) = aside,
         e.dir => /\ aside = {e.cluster}
                  /\ \A s \in Slots \ {0} : st[e.cluster].table[s] = EmptyEntry
                  /\ Headed(st[e.cluster].table),
         NEW E, E = D \cup (IF e.dir THEN {e.cluster} ELSE {})
  PROVE  Becomes(own, D, st, map, {}, aside, E, other)
<1>1. /\ D \subseteq Clusters /\ E \subseteq Clusters /\ Root \in D /\ D \subseteq E /\ parent \in Clusters
      /\ other[parent].table[slot] = e
      /\ \A d \in D, s \in Slots : d # parent \/ s # slot => other[d].table[s] = st[d].table[s]
      /\ e.dir => e.cluster \notin D
      /\ slot \in Slots /\ slot # 0
  BY DEF Reached, Replaced
<1>2. ASSUME e.dir
      PROVE  /\ \A s \in Slots \ {0} : other[e.cluster].table[s] = EmptyEntry
             /\ Headed(other[e.cluster].table)
             /\ \A s \in Slots : ~InUse(other, e.cluster, s)
  <2>1. other[e.cluster] = st[e.cluster]
    BY <1>1, <1>2 DEF Replaced
  <2>2. /\ \A s \in Slots \ {0} : other[e.cluster].table[s] = EmptyEntry
        /\ Headed(other[e.cluster].table)
    BY <1>2, <2>1
  <2>3. QED BY <2>2, EmptyEntryIs DEF InUse
<1>3. ASSUME NEW d \in D, NEW s \in Slots
      PROVE  InUse(other, d, s) <=> InUse(st, d, s) \/ (d = parent /\ s = slot)
  BY <1>1 DEF InUse
<1>4. \A d \in E, s \in Slots : InUse(other, d, s) => d \in D
  BY <1>2
<1>5. Reached(E, other, Root)
  <2>1. Closed(other, E)
    <3>1. ASSUME NEW d \in E, NEW c \in Clusters, Child(other, d, c) PROVE c \in E
      <4>1. PICK s \in Slots : InUse(other, d, s) /\ other[d].table[s].dir /\ other[d].table[s].cluster = c
        BY <3>1 DEF Child
      <4>2. d \in D
        BY <1>4, <4>1
      <4>3. CASE d = parent /\ s = slot
        BY <1>1, <4>1, <4>3
      <4>4. CASE ~(d = parent /\ s = slot)
        <5>1. Child(st, d, c)
          BY <1>1, <1>3, <4>1, <4>2, <4>4 DEF Child
        <5>2. QED BY <1>1, <4>2, <5>1 DEF Reached, Closed
      <4>5. QED BY <4>3, <4>4
    <3>2. QED BY <3>1 DEF Closed
  <2>2. ASSUME NEW C \in SUBSET Clusters, Root \in C, Closed(other, C) PROVE E \subseteq C
    <3>1. ASSUME NEW d \in C \cap D, NEW c \in Clusters, Child(st, d, c) PROVE c \in C \cap D
      <4>1. PICK s \in Slots : InUse(st, d, s) /\ st[d].table[s].dir /\ st[d].table[s].cluster = c
        BY <3>1 DEF Child
      <4>2. d # parent \/ s # slot
        BY <4>1 DEF InUse
      <4>3. Child(other, d, c)
        BY <1>1, <1>3, <4>1, <4>2 DEF Child
      <4>4. c \in D
        BY <3>1 DEF Reached, Closed
      <4>5. QED BY <2>2, <4>3, <4>4 DEF Closed
    <3>2. D \subseteq C \cap D
      <4>1. Closed(st, C \cap D) /\ C \cap D \in SUBSET Clusters /\ Root \in C \cap D
        BY <1>1, <2>2, <3>1 DEF Closed
      <4>2. QED BY <4>1 DEF Reached
    <3>3. ASSUME e.dir PROVE e.cluster \in C
      <4>1. Child(other, parent, e.cluster)
        BY <1>1, <1>3, <3>3 DEF Child
      <4>2. QED BY <2>2, <3>2, <4>1 DEF Closed
    <3>4. QED BY <3>2, <3>3
  <2>3. QED BY <1>1, <2>1, <2>2 DEF Reached
<1>6. ASSUME NEW d \in D, NEW s \in Slots, InUse(st, d, s)
      PROVE  /\ other[d].table[s] = st[d].table[s] /\ Stays(st, {}, d, s)
             /\ Held(own, other, map, d, other[d].table[s])
             /\ Root \notin Owned(map, other[d].table[s])
             /\ Owned(map, other[d].table[s]) \cap aside = {}
             /\ ~(d = parent /\ s = slot)
  <2>1. ~(d = parent /\ s = slot)
    BY <1>6 DEF InUse
  <2>2. other[d].table[s] = st[d].table[s]
    BY <1>1, <2>1
  <2>3. Stays(st, {}, d, s)
    BY <1>6 DEF Stays
  <2>4. \A c \in Clusters \ {parent} : other[c] = st[c]
    BY DEF Replaced
  <2>5. Held(own, other, map, d, st[d].table[s])
    BY <2>3, <2>4, StillHeld
  <2>6. QED BY <2>1, <2>2, <2>3, <2>5 DEF Tree
<1>7. /\ Held(own, other, map, parent, e) /\ Root \notin aside
  <2>1. Root \notin aside
    BY DEF Tree
  <2>2. Linked(map, e.cluster) /\ (e.dir => map[e.cluster] = Eof)
        /\ (~e.dir => Len(Chain(map, e.cluster)) = e.length)
    BY DEF Held
  <2>3. ASSUME ~e.dir, NEW k \in 1 .. e.length
        PROVE  Sound(own, parent, e.name, k, other[Chain(map, e.cluster)[k]].data)
    <3>1. Chain(map, e.cluster)[k] \in aside /\ Chain(map, e.cluster)[k] \in Clusters
      BY <2>2, <2>3, LinkedSound DEF Owned
    <3>2. other[Chain(map, e.cluster)[k]] = st[Chain(map, e.cluster)[k]]
      BY <3>1 DEF Replaced
    <3>3. QED BY <2>3, <3>2 DEF Held
  <2>4. QED BY <2>1, <2>2, <2>3 DEF Held
<1>8. ASSUME NEW d \in E PROVE Tidy(other[d].table) /\ Headed(other[d].table)
  <2>1. CASE d \in D /\ d # parent
    <3>1. Tidy(st[d].table) /\ Headed(st[d].table)
      BY <2>1 DEF Tree
    <3>2. other[d].table = st[d].table
      BY <1>1, <2>1 DEF Replaced
    <3>3. QED BY <3>1, <3>2
  <2>2. CASE d = parent
    <3>1. Tidy(st[d].table) /\ Headed(st[d].table)
      BY <2>2 DEF Tree
    <3>2. \A s \in Slots : other[d].table[s] = IF s = slot THEN e ELSE st[d].table[s]
      BY <1>1, <2>2
    <3>3. other[d].table[0] = st[d].table[0]
      <4>1. 0 \in Slots /\ slot # 0
        BY Constants
      <4>2. QED BY <3>2, <4>1
    <3>4. Tidy(other[d].table)
      <4>1. SlotSet(st[d].table, slot, e, other[d].table)
        BY <3>2 DEF SlotSet
      <4>2. NewName(st[d].table, e)
        BY <2>2 DEF NewName
      <4>3. QED BY <3>1, <4>1, <4>2, TidyChanged
    <3>5. Headed(other[d].table)
      BY <3>1, <3>3 DEF Headed
    <3>6. QED BY <3>4, <3>5
  <2>3. CASE d \notin D
    BY <1>2, <2>3, EmptyEntryIs DEF Tidy
  <2>4. QED BY <2>1, <2>2, <2>3
<1>9. ASSUME NEW d \in E, NEW s \in Slots, Stays(other, {}, d, s)
      PROVE  d \in D /\ (InUse(st, d, s) \/ (d = parent /\ s = slot))
  BY <1>3, <1>4, <1>9 DEF Stays
<1>10. Tree(own, E, other, map, {}, {})
  <2>1. \A d \in E, s \in Slots : Stays(other, {}, d, s) =>
          Held(own, other, map, d, other[d].table[s]) /\ Root \notin Owned(map, other[d].table[s])
    BY <1>1, <1>6, <1>7, <1>9
  <2>2. ASSUME NEW d \in E, NEW p \in E, NEW s \in Slots, NEW t \in Slots,
               Stays(other, {}, d, s), Stays(other, {}, p, t), d # p \/ s # t
        PROVE  Owned(map, other[d].table[s]) \cap Owned(map, other[p].table[t]) = {}
    <3>1. CASE InUse(st, d, s) /\ InUse(st, p, t)
      <4>1. d \in D /\ p \in D
        BY <1>9, <2>2
      <4>2. QED BY <1>6, <2>2, <3>1, <4>1 DEF Tree
    <3>2. CASE InUse(st, d, s) /\ p = parent /\ t = slot
      BY <1>1, <1>6, <1>9, <2>2, <3>2
    <3>3. CASE InUse(st, p, t) /\ d = parent /\ s = slot
      BY <1>1, <1>6, <1>9, <2>2, <3>3
    <3>4. QED BY <1>9, <2>2, <3>1, <3>2, <3>3
  <2>3. map[Root] = Eof
    BY DEF Tree
  <2>4. QED BY <1>8, <2>1, <2>2, <2>3 DEF Tree
<1>11. ASSUME Accounted(D, st, map, {}, aside) PROVE Accounted(E, other, map, {}, {})
  <2>1. Stays(other, {}, parent, slot) /\ parent \in E /\ slot \in Slots
    BY <1>1, <1>3 DEF Stays
  <2>2. \A d \in D, s \in Slots : Stays(st, {}, d, s) =>
          d \in E /\ Stays(other, {}, d, s) /\ other[d].table[s] = st[d].table[s]
    BY <1>1, <1>3, <1>6 DEF Stays
  <2>3. ASSUME NEW c \in Clusters, map[c] # Free, c # Root
        PROVE  \E d \in E, s \in Slots : Stays(other, {}, d, s) /\ c \in Owned(map, other[d].table[s])
    <3>1. CASE c \in aside
      BY <1>1, <2>1, <3>1
    <3>2. CASE \E d \in D, s \in Slots : Stays(st, {}, d, s) /\ c \in Owned(map, st[d].table[s])
      BY <2>2, <3>2
    <3>3. QED BY <1>11, <2>3, <3>1, <3>2 DEF Accounted
  <2>4. QED BY <2>3 DEF Accounted
<1>12. QED BY <1>5, <1>10, <1>11 DEF Becomes

LEMMA EntryVanishes ==
  ASSUME NEW own \in BOOLEAN,
         NEW D, NEW st, NEW map, NEW other, NEW parent \in D, NEW slot \in Slots \ {0},
         NEW aside, NEW gone, gone = {<<parent, slot>>},
         Tree(own, D, st, map, gone, aside), Reached(D, st, Root),
         Replaced(D, st, other, parent, slot, EmptyEntry),
         InUse(st, parent, slot),
         NEW e, e = st[parent].table[slot],
         e.dir => aside = {e.cluster} /\ \A s \in Slots : ~InUse(st, e.cluster, s),
         ~e.dir => aside \cap D = {},
         \A c \in aside : map[c] = Free,
         NEW E, E = D \ (IF e.dir THEN {e.cluster} ELSE {})
  PROVE  Becomes(own, D, st, map, gone, aside, E, other)
<1>1. /\ D \subseteq Clusters /\ E \subseteq Clusters /\ Root \in D /\ E \subseteq D /\ parent \in Clusters
      /\ other[parent].table[slot] = EmptyEntry
      /\ \A d \in D, s \in Slots : d # parent \/ s # slot => other[d].table[s] = st[d].table[s]
      /\ slot \in Slots /\ slot # 0
  BY DEF Reached, Replaced
<1>2. /\ Root \in E /\ parent \in E /\ \A d \in E : d \notin aside
      /\ e.dir => e.cluster # parent
  BY <1>1 DEF Tree
<1>3. ASSUME NEW d \in D, NEW s \in Slots
      PROVE  /\ InUse(other, d, s) <=> Stays(st, gone, d, s)
             /\ Stays(other, {}, d, s) <=> Stays(st, gone, d, s)
             /\ Stays(st, gone, d, s) => other[d].table[s] = st[d].table[s]
  <2>1. CASE d = parent /\ s = slot
    BY <1>1, <2>1 DEF InUse, Stays, EmptyEntry
  <2>2. CASE ~(d = parent /\ s = slot)
    BY <1>1, <2>2 DEF InUse, Stays
  <2>3. QED BY <2>1, <2>2
<1>4. ASSUME e.dir, NEW s \in Slots PROVE ~Stays(st, gone, e.cluster, s)
  BY <1>4 DEF Stays
<1>5. Reached(E, other, Root)
  <2>1. Closed(other, E)
    <3>1. ASSUME NEW d \in E, NEW c \in Clusters, Child(other, d, c) PROVE c \in E
      <4>1. PICK s \in Slots : InUse(other, d, s) /\ other[d].table[s].dir /\ other[d].table[s].cluster = c
        BY <3>1 DEF Child
      <4>2. Stays(st, gone, d, s) /\ other[d].table[s] = st[d].table[s] /\ d \in D
        BY <1>1, <1>3, <4>1
      <4>3. Child(st, d, c)
        BY <4>1, <4>2 DEF Child, Stays
      <4>4. c \in D
        BY <4>2, <4>3 DEF Reached, Closed
      <4>5. c \notin aside
        <5>1. Held(own, st, map, d, st[d].table[s]) /\ Owned(map, st[d].table[s]) \cap aside = {}
          BY <4>2 DEF Tree
        <5>2. Linked(map, c)
          BY <4>1, <4>2, <5>1 DEF Held
        <5>3. c \in Owned(map, st[d].table[s])
          BY <4>1, <4>2, <5>2, LinkedSound DEF Owned
        <5>4. QED BY <5>1, <5>3
      <4>6. QED BY <4>4, <4>5
    <3>2. QED BY <3>1 DEF Closed
  <2>2. ASSUME NEW C \in SUBSET Clusters, Root \in C, Closed(other, C) PROVE E \subseteq C
    <3> DEFINE F == (C \cap D) \cup (D \ E)
    <3>1. ASSUME NEW d \in F, NEW c \in Clusters, Child(st, d, c) PROVE c \in F
      <4>1. PICK s \in Slots : InUse(st, d, s) /\ st[d].table[s].dir /\ st[d].table[s].cluster = c
        BY <3>1 DEF Child
      <4>2. d \in D /\ c \in D
        BY <3>1 DEF Reached, Closed
      <4>3. d \in C
        BY <4>1, <4>2
      <4>4. CASE <<d, s>> \in gone
        <5>1. d = parent /\ s = slot
          BY <4>4
        <5>2. QED BY <4>1, <4>2, <5>1
      <4>5. CASE <<d, s>> \notin gone
        <5>1. Child(other, d, c)
          BY <1>3, <4>1, <4>2, <4>5 DEF Child, Stays
        <5>2. QED BY <2>2, <4>2, <4>3, <5>1 DEF Closed
      <4>6. QED BY <4>4, <4>5
    <3>2. F \in SUBSET Clusters /\ Root \in F
      BY <1>1, <2>2
    <3>3. D \subseteq F
      BY <3>1, <3>2 DEF Reached, Closed
    <3>4. QED BY <1>1, <3>3
  <2>3. QED BY <1>1, <1>2, <2>1, <2>2 DEF Reached
<1>6. ASSUME NEW d \in E PROVE Tidy(other[d].table) /\ Headed(other[d].table)
  <2>1. Tidy(st[d].table) /\ Headed(st[d].table) /\ d \in D
    BY <1>1, <1>2 DEF Tree
  <2>2. other[d].table[0] = st[d].table[0]
    BY <1>1, <2>1, Constants
  <2>3. CASE d = parent
    <3>1. \A s \in Slots \ {0} :
            other[d].table[s] = IF s = slot THEN EmptyEntry ELSE st[d].table[s]
      BY <1>1, <2>3
    <3>2. Tidy(other[d].table)
      <4>1. SlotSet(st[d].table, slot, EmptyEntry, other[d].table)
        BY <3>1 DEF SlotSet
      <4>2. QED BY <2>1, <4>1, TidyChanged
    <3>3. Headed(other[d].table)
      BY <2>1, <2>2 DEF Headed
    <3>4. QED BY <3>2, <3>3
  <2>4. CASE d # parent
    <3>1. other[d] = st[d]
      BY <2>1, <2>4, <1>1 DEF Replaced
    <3>2. QED BY <2>1, <3>1
  <2>5. QED BY <2>3, <2>4
<1>7. ASSUME NEW d \in D, NEW s \in Slots, Stays(st, gone, d, s)
      PROVE  Held(own, other, map, d, other[d].table[s]) /\ Root \notin Owned(map, other[d].table[s])
  <2>1. \A c \in Clusters \ {parent} : other[c] = st[c]
    BY DEF Replaced
  <2>2. Held(own, other, map, d, st[d].table[s])
    BY <1>7, <2>1, StillHeld
  <2>3. QED BY <1>3, <1>7, <2>2 DEF Tree
<1>8. Tree(own, E, other, map, {}, {})
  <2>1. ASSUME NEW d \in E, NEW p \in E, NEW s \in Slots, NEW t \in Slots,
               Stays(other, {}, d, s), Stays(other, {}, p, t), d # p \/ s # t
        PROVE  Owned(map, other[d].table[s]) \cap Owned(map, other[p].table[t]) = {}
    <3>1. /\ d \in D /\ Stays(st, gone, d, s) /\ other[d].table[s] = st[d].table[s]
          /\ p \in D /\ Stays(st, gone, p, t) /\ other[p].table[t] = st[p].table[t]
      BY <1>1, <1>3, <2>1
    <3>2. QED BY <2>1, <3>1 DEF Tree
  <2>2. \A d \in E, s \in Slots : Stays(other, {}, d, s) =>
          Held(own, other, map, d, other[d].table[s]) /\ Root \notin Owned(map, other[d].table[s])
    BY <1>1, <1>3, <1>7
  <2>3. map[Root] = Eof
    BY DEF Tree
  <2>4. QED BY <1>6, <2>1, <2>2, <2>3 DEF Tree
<1>9. ASSUME Accounted(D, st, map, gone, aside) PROVE Accounted(E, other, map, {}, {})
  <2>1. ASSUME NEW c \in Clusters, map[c] # Free, c # Root
        PROVE  \E d \in E, s \in Slots : Stays(other, {}, d, s) /\ c \in Owned(map, other[d].table[s])
    <3>1. PICK d \in D, s \in Slots : Stays(st, gone, d, s) /\ c \in Owned(map, st[d].table[s])
      BY <1>9, <2>1 DEF Accounted
    <3>2. d \in E
      BY <1>4, <3>1
    <3>3. QED BY <1>3, <3>1, <3>2
  <2>2. QED BY <2>1 DEF Accounted
<1>10. QED BY <1>5, <1>8, <1>9 DEF Becomes

LEMMA SlotsFinite == IsFiniteSet(Slots \ {0}) /\ Cardinality(Slots \ {0}) = NSlots - 1
<1>1. Slots = 0 .. NSlots - 1 /\ 0 \in Int /\ NSlots - 1 \in Int /\ ~(0 > NSlots - 1)
      /\ NSlots - 1 - 0 + 1 = NSlots /\ 0 \in Slots
  BY Constants DEF Slots
<1>2. IsFiniteSet(0 .. NSlots - 1) /\ Cardinality(0 .. NSlots - 1) = NSlots
  BY ONLY <1>1, FS_Interval
<1>3. QED BY <1>1, <1>2, FS_RemoveElement

\* One slot for every name besides the directory's own.
RoomForNames == IsFiniteSet(Names) /\ Cardinality(Names) < NSlots

\* A table full of other names has used up all names.
LEMMA NeverFull ==
  ASSUME RoomForNames, NEW table, Tidy(table), NEW name \in Names,
         \A s \in Slots \ {0} : table[s].used => table[s].name # name
  PROVE  UsedSlots(table) # Slots
<1>1. SUFFICES ASSUME UsedSlots(table) = Slots PROVE FALSE
  OBVIOUS
<1>2. \A s \in Slots \ {0} : table[s].used
  BY <1>1 DEF UsedSlots
<1> DEFINE f == [s \in Slots \ {0} |-> table[s].name]
<1>3. f \in Injection(Slots \ {0}, Names \ {name})
  <2>1. \A s \in Slots \ {0} : f[s] \in Names \ {name}
    BY <1>2 DEF Tidy
  <2>2. \A s, t \in Slots \ {0} : f[s] = f[t] => s = t
    BY <1>2 DEF Tidy
  <2>3. QED BY <2>1, <2>2 DEF Injection, IsInjective
<1>4. IsFiniteSet(Names \ {name}) /\ Cardinality(Names \ {name}) = Cardinality(Names) - 1
  BY FS_RemoveElement DEF RoomForNames
<1>5. Cardinality(Slots \ {0}) <= Cardinality(Names) - 1
  BY <1>3, <1>4, FS_Injection
<1>6. Cardinality(Names) \in Nat
  BY FS_CardinalityType DEF RoomForNames
<1>7. QED BY <1>5, <1>6, SlotsFinite, Constants DEF RoomForNames

\* Where the new entry goes.
LEMMA WithEntrySound ==
  ASSUME NEW table \in [Slots -> Entry], table[0].used, NEW e \in Entry
  PROVE  /\ WithEntry(table, e) \in [Slots -> Entry]
         /\ UsedSlots(table) = Slots => WithEntry(table, e) = table
         /\ UsedSlots(table) # Slots =>
              \E slot \in Slots \ {0} :
                /\ ~table[slot].used
                /\ \A s \in Slots : WithEntry(table, e)[s] = IF s = slot THEN e ELSE table[s]
<1>1. CASE UsedSlots(table) = Slots
  BY <1>1 DEF WithEntry
<1>2. CASE UsedSlots(table) # Slots
  <2> DEFINE empty == Slots \ UsedSlots(table)
             slot == Least(empty)
  <2>1. empty # {} /\ empty \in SUBSET Nat
    BY <1>2, Constants DEF UsedSlots
  <2> HIDE DEF empty
  <2>2. slot \in empty
    BY <2>1, LeastIs
  <2>3. slot \in Slots \ {0} /\ ~table[slot].used
    BY <2>2 DEF UsedSlots, empty
  <2>4. WithEntry(table, e) = [table EXCEPT ![slot] = e]
    BY <1>2 DEF WithEntry, empty
  <2> HIDE DEF slot
  <2>5. /\ WithEntry(table, e) \in [Slots -> Entry]
        /\ \A s \in Slots : WithEntry(table, e)[s] = IF s = slot THEN e ELSE table[s]
    BY <2>3, <2>4
  <2>6. QED BY <1>2, <2>3, <2>5
<1>3. QED BY <1>1, <1>2

-----------------------------------------------------------------------------
(* The invariant.                                                          *)

\* The memory where write() puts a new directory holds no entries.
BlankStack == \A stale \in StaleTables, s \in Slots \ {0} : stale[s] = EmptyEntry

\* No power failure now, or one outside a delete and a format.
Spared == PowerFailure => mode \notin {"delete", "format"}

\* Power never fails inside a delete or a format, and the stack is blank.
Sheltered == PowerFailsIn \subseteq {"idle", "write", "raw", "off", "hung"} /\ BlankStack

\* The writes of a call, to the clusters of a chain, the table, the parent.
Issued(chain, what, map, parent, table) ==
  [i \in 1 .. Len(chain) + 2 |->
     IF i <= Len(chain) THEN WriteOf(chain[i], what[i])
     ELSE IF i = Len(chain) + 1 THEN WriteOf(FatNumber, map)
     ELSE WriteOf(parent, TableCluster(table))]

\* Those that are left after the first ones.
Rest(writes, n, done) == [i \in 1 .. n - done |-> writes[done + i]]

LEMMA FunctionIsSeq ==
  ASSUME NEW S, NEW m \in Nat, NEW t, t = [i \in 1 .. m |-> t[i]], \A i \in 1 .. m : t[i] \in S
  PROVE  t \in Seq(S) /\ Len(t) = m
OBVIOUS

LEMMA RestIsSeq ==
  ASSUME NEW writes, NEW n \in Nat, NEW done \in 0 .. n, NEW S, \A k \in 1 .. n : writes[k] \in S,
         NEW r, r = Rest(writes, n, done)
  PROVE  r \in Seq(S) /\ Len(r) = n - done
<1>1. n - done \in Nat
  OBVIOUS
<1>2. \A i \in 1 .. n - done : r[i] = writes[done + i] /\ r[i] \in S
  BY DEF Rest
<1>3. r = [i \in 1 .. n - done |-> r[i]]
  BY DEF Rest
<1>4. QED BY <1>1, <1>2, <1>3, FunctionIsSeq

\* The first of them is one write, and the others are left after one more.
IsRest(r, writes, n, done, next) ==
  Head(r) = writes[next] /\ Tail(r) = Rest(writes, n, next) /\ Len(r) = n - done

LEMMA RestSound ==
  ASSUME NEW writes, NEW n \in Nat, NEW done \in 0 .. n - 1, NEW next, next = done + 1,
         NEW r, r = Rest(writes, n, done)
  PROVE  IsRest(r, writes, n, done, next)
<1> DEFINE All == {writes[k] : k \in 1 .. n}
<1>1. PICK S : \A k \in 1 .. n : writes[k] \in S
  <2>1. \A k \in 1 .. n : writes[k] \in All
    OBVIOUS
  <2>2. QED BY <2>1
<1> HIDE DEF All
<1>2. PICK t : t = Rest(writes, n, next)
  OBVIOUS
<1>3. /\ r \in Seq(S) /\ Len(r) = n - done
      /\ \A i \in 1 .. n - done : r[i] = writes[done + i]
  <2>1. done \in 0 .. n
    OBVIOUS
  <2>2. r \in Seq(S) /\ Len(r) = n - done
    BY <1>1, <2>1, RestIsSeq
  <2>3. QED BY <2>2 DEF Rest
<1>4. /\ t \in Seq(S) /\ Len(t) = n - next
      /\ \A i \in 1 .. n - next : t[i] = writes[next + i]
  <2>1. next \in 0 .. n
    OBVIOUS
  <2>2. t \in Seq(S) /\ Len(t) = n - next
    BY ONLY <1>1, <1>2, <2>1, n \in Nat, RestIsSeq
  <2>3. QED BY <1>2, <2>2 DEF Rest
<1>5. r # <<>> /\ n - done >= 1 /\ 1 \in 1 .. n - done
  BY <1>3
<1>6. Head(r) = r[1]
  BY <1>3, <1>5
<1>7. Tail(r) \in Seq(S) /\ Len(Tail(r)) = n - next
      /\ \A i \in 1 .. n - next : Tail(r)[i] = r[i + 1]
  BY <1>3, <1>5, HeadTailProperties
<1>8. ASSUME NEW i \in 1 .. n - next PROVE Tail(r)[i] = t[i]
  <2>1. i + 1 \in 1 .. n - done /\ done + (i + 1) = next + i
    OBVIOUS
  <2>2. r[i + 1] = writes[next + i]
    BY <1>3, <2>1
  <2>3. QED BY <1>4, <1>7, <2>2
<1>9. Tail(r) = t
  BY <1>4, <1>7, <1>8, SeqEqual
<1>10. Head(r) = writes[next]
  BY <1>3, <1>5, <1>6
<1>11. QED BY <1>2, <1>3, <1>9, <1>10 DEF IsRest

LEMMA RestOfNone ==
  ASSUME NEW own \in BOOLEAN, NEW sure \in BOOLEAN,
         NEW writes, NEW n \in Nat
  PROVE  Rest(writes, n, n) = <<>>
BY DEF Rest

Base ==
  /\ signature \in BOOLEAN /\ clean \in BOOLEAN
  /\ diskFat \in Maps /\ fat \in Maps /\ StoreOK(store)
  /\ mode \in {"off", "format", "idle", "write", "delete", "raw"}

\* The tree that a boot would find, and whether nothing was lost of it.
Settled(own, sure, gone, aside) ==
  /\ Tree(own, Directories, store, diskFat, gone, aside)
  /\ sure => Accounted(Directories, store, diskFat, gone, aside)

\* An entry of parent to be, and what its clusters will hold.
Announced(own, parent, e, chain, what) ==
  /\ e \in Entry /\ e.used /\ e.name \in Names /\ e.cluster = chain[1]
  /\ \A s \in Slots \ {0} : store[parent].table[s].used => store[parent].table[s].name # e.name
  /\ \A k \in 1 .. Len(chain) : what[k].table \in [Slots -> Entry]
  /\ e.dir => /\ Len(chain) = 1
              /\ \A s \in Slots \ {0} : what[1].table[s] = EmptyEntry
              /\ Headed(what[1].table) /\ e.length = 0
  /\ ~e.dir => /\ e.length = Len(chain)
               /\ \A k \in 1 .. Len(chain) : Sound(own, parent, e.name, k, what[k].data)

\* A write() that has issued some of its writes: its clusters stay aside until
\* the last one.
WriteJob(own, sure, parent, e, chain, what, done) ==
  /\ parent \in Directories
  /\ Announced(own, parent, e, chain, what)
  /\ Links(fat, chain[1], chain)
  /\ \A i, j \in 1 .. Len(chain) : chain[i] = chain[j] => i = j
  /\ done \in 0 .. Len(chain) + 1
  /\ pending = Rest(Issued(chain, what, fat, parent, WithEntry(store[parent].table, e)),
                    Len(chain) + 2, done)
  /\ \A k \in 1 .. Len(chain) : k <= done => store[chain[k]] = what[k]
  /\ \A c \in 0 .. NClusters - 1 : c \notin ToSet(chain) => fat[c] = diskFat[c]
  /\ done > Len(chain) => diskFat = fat
  /\ ToSet(chain) \cap Directories = {}
  /\ Settled(own, sure, {}, ToSet(chain))

\* A delete() that has issued some of its writes: the entry is on its way out,
\* and its clusters are aside.
DeleteJob(own, sure, parent, slot, e, chain, done) ==
  /\ parent \in Directories /\ slot \in Slots \ {0} /\ parent \notin ToSet(chain)
  /\ InUse(store, parent, slot) /\ e = store[parent].table[slot]
  /\ chain \in Seq(Clusters) /\ Len(chain) \in 1 .. NClusters /\ chain[1] = e.cluster
  /\ done \in 0 .. Len(chain) + 1
  /\ pending = Rest(Issued(chain, [k \in 1 .. Len(chain) |-> ZeroCluster], fat, parent,
                           WithoutEntry(store[parent].table, slot)),
                    Len(chain) + 2, done)
  /\ e.dir => Len(chain) = 1 /\ \A s \in Slots : ~InUse(store, e.cluster, s)
  /\ ~e.dir => ToSet(chain) \cap Directories = {}
  /\ \A c \in 0 .. NClusters - 1 : fat[c] = IF c \in ToSet(chain) THEN Free ELSE diskFat[c]
  /\ done <= Len(chain) => Links(diskFat, e.cluster, chain) /\ (e.dir => diskFat[e.cluster] = Eof)
  /\ done > Len(chain) => diskFat = fat
  /\ done = 0 => Held(own, store, diskFat, parent, e)
  /\ done > 0 => store[chain[1]] = ZeroCluster
  /\ Settled(own, sure, {<<parent, slot>>}, ToSet(chain))

NewRoot == TableCluster(InitDirectoryTable(BlankTable, RootName, Root))

BlankStore == [c \in Clusters |-> ZeroCluster]

\* Formatting, of a disk that has never held anything.
FormatJob ==
  /\ store = BlankStore /\ fat = FormatFat
  /\ \/ /\ pending = <<WriteOf(Boot, TRUE), WriteOf(FatNumber, FormatFat), WriteOf(Root, NewRoot)>>
        /\ ~signature
     \/ pending = <<WriteOf(FatNumber, FormatFat), WriteOf(Root, NewRoot)>> /\ signature
     \/ pending = <<WriteOf(Root, NewRoot)>> /\ signature /\ diskFat = FormatFat

Fat32Inv(own, sure) ==
  /\ Base /\ mode # "raw"
  /\ mode = "off" =>
       /\ pending = <<>>
       /\ IF signature THEN Settled(own, sure, {}, {}) ELSE store = BlankStore
  /\ mode = "format" => FormatJob
  /\ mode = "idle" => pending = <<>> /\ signature /\ fat = diskFat /\ Settled(own, sure, {}, {})
  /\ mode = "write" => /\ signature
                       /\ \E parent, e, chain, what, done : WriteJob(own, sure, parent, e, chain, what, done)
  /\ mode = "delete" => /\ signature
                        /\ \E parent, slot, e, chain, done : DeleteJob(own, sure, parent, slot, e, chain, done)

\* The directories after a step.
LEMMA DirectoriesNext ==
  ASSUME NEW D, Reached(D, store', Root)
  PROVE  Directories' = D
<1>1. Reached(Directories, store, Root)'
  BY DirectoriesReached, PTL
<1>2. Reached(Directories', store', Root)
  BY <1>1 DEF Root
<1>3. QED BY <1>2, ReachedOnce

LEMMA DirectoriesNow == /\ Root \in Directories /\ Directories \subseteq Clusters
                        /\ Reached(Directories, store, Root)
BY DirectoriesReached DEF Reached

-----------------------------------------------------------------------------
(* The disk takes a write.                                                 *)

\* What a write may do to the entries of the tree: nothing, or one appears, or
\* one vanishes.
SameEntries ==
  /\ Directories' = Directories
  /\ \A d \in Directories, s \in Slots \ {0} : store'[d].table[s] = store[d].table[s]

EntryPut(parent, slot, e) ==
  /\ parent \in Directories /\ ~InUse(store, parent, slot)
  /\ Replaced(Directories, store, store', parent, slot, e)
  /\ Directories \subseteq Directories'
  /\ \A d \in Directories', s \in Slots : InUse(store', d, s) => d \in Directories

EntryTaken(parent, slot) ==
  /\ parent \in Directories
  /\ Replaced(Directories, store, store', parent, slot, EmptyEntry)
  /\ Directories' \subseteq Directories
  /\ \A d \in Directories, s \in Slots : InUse(store', d, s) => d \in Directories'

\* Only this one is written to.
OnlyAt(parent) == \A c \in Clusters \ {parent} : store'[c] = store[c]

\* Only these clusters change.
Elsewhere(aside) ==
  \A c \in Clusters \ aside : diskFat'[c] = diskFat[c] /\ store'[c] = store[c]

LEMMA DiskWriteIs ==
  ASSUME DiskWrite, NEW writes, NEW n \in Nat, NEW done \in 0 .. n - 1, NEW next, next = done + 1,
         pending = Rest(writes, n, done),
         NEW to, NEW what, writes[next] = WriteOf(to, what), to # Beyond, to # Boot
  PROVE  /\ signature' = signature /\ fat' = fat /\ clean' = clean
         /\ diskFat' = IF to = FatNumber THEN what ELSE diskFat
         /\ store' = IF to \in Clusters THEN [store EXCEPT ![to] = what] ELSE store
         /\ pending' = Rest(writes, n, next)
         /\ mode' = IF next = n THEN "idle" ELSE mode
<1>1. Head(pending) = writes[next] /\ Tail(pending) = Rest(writes, n, next) /\ Len(pending) = n - done
  <2>1. IsRest(pending, writes, n, done, next)
    BY RestSound
  <2>2. QED BY <2>1 DEF IsRest
<1>2. Head(pending) = WriteOf(to, what)
  BY <1>1
<1>3. Head(pending).to = to /\ Head(pending).what = what
  BY <1>2 DEF WriteOf
<1>4. Len(pending) = 1 <=> next = n
  BY <1>1
<1>5. QED BY <1>1, <1>3, <1>4 DEF DiskWrite

LEMMA StoreTakes ==
  ASSUME NEW st, StoreOK(st), NEW to \in Clusters, NEW what, what.table \in [Slots -> Entry],
         NEW other, other = [st EXCEPT ![to] = what]
  PROVE  StoreOK(other)
<1>1. DOMAIN st = Clusters
  BY DEF StoreOK
<1>2. \A c \in Clusters : other[c] = IF c = to THEN what ELSE st[c]
  BY <1>1
<1>3. other = [c \in Clusters |-> other[c]]
  BY <1>1
<1>4. QED BY <1>2, <1>3 DEF StoreOK

\* Nothing needs to be aside any more.
LEMMA TreeForgotten ==
  ASSUME NEW own \in BOOLEAN,
         NEW D, NEW st, NEW map, NEW aside, Tree(own, D, st, map, {}, aside), aside \cap D = {}
  PROVE  Tree(own, D, st, map, {}, {})
BY DEF Tree

LEMMA IssuedIs ==
  ASSUME NEW chain \in Seq(Clusters), NEW n, n = Len(chain), NEW what, NEW map, NEW parent, NEW table
  PROVE  LET writes == Issued(chain, what, map, parent, table)
         IN  /\ n \in Nat
             /\ \A k \in 1 .. n : writes[k] = WriteOf(chain[k], what[k])
             /\ \A k \in 1 .. n + 2 : k = n + 1 => writes[k] = WriteOf(FatNumber, map)
             /\ \A k \in 1 .. n + 2 : k = n + 2 => writes[k] = WriteOf(parent, TableCluster(table))
<1>1. n \in Nat
  OBVIOUS
<1>2. QED BY <1>1 DEF Issued

\* A write() before its last write.
LEMMA WriteGoesOn ==
  ASSUME NEW own \in BOOLEAN, NEW sure \in BOOLEAN,
         Base, DiskWrite, mode = "write", NEW parent, NEW e, NEW chain, NEW what, NEW done,
         WriteJob(own, sure, parent, e, chain, what, done), done # Len(chain) + 1, NEW next, next = done + 1
  PROVE  /\ WriteJob(own, sure, parent, e, chain, what, next)'
         /\ mode' = "write" /\ signature' = signature /\ Base' /\ SameEntries
         /\ Elsewhere(ToSet(chain)) /\ fat' = fat
<1> DEFINE n == Len(chain)
           aside == ToSet(chain)
           writes == Issued(chain, what, fat, parent, WithEntry(store[parent].table, e))
<1>1. /\ n \in Nat /\ n >= 1 /\ chain \in Seq(Clusters) /\ aside \subseteq Clusters
      /\ \A k \in 1 .. n : chain[k] \in aside /\ chain[k] \in Clusters
      /\ parent \in Directories /\ Directories \subseteq Clusters /\ aside \cap Directories = {}
      /\ done \in 0 .. n /\ next \in 1 .. n + 1 /\ done \in 0 .. (n + 2) - 1
      /\ \A k \in 1 .. n : what[k].table \in [Slots -> Entry]
  <2>1. Linked(fat, chain[1]) /\ Chain(fat, chain[1]) = chain
    BY LinkedIs DEF WriteJob
  <2>2. chain \in Seq(Clusters) /\ n \in Nat /\ n >= 1 /\ aside \subseteq Clusters
        /\ \A k \in 1 .. n : chain[k] \in aside /\ chain[k] \in Clusters
    <3>1. chain \in Seq(Clusters) /\ n \in Nat /\ n >= 1
      BY Constants DEF WriteJob, Links
    <3>2. QED BY <3>1 DEF ToSet
  <2>3. done \in 0 .. n /\ next \in 1 .. n + 1 /\ done \in 0 .. (n + 2) - 1
    BY <2>2 DEF WriteJob
  <2>4. QED BY <2>2, <2>3, DirectoriesNow DEF WriteJob, Announced
<1>2. /\ pending = Rest(writes, n + 2, done) /\ n + 2 \in Nat /\ next # n + 2
      /\ \A k \in 1 .. n : k = next => writes[next] = WriteOf(chain[k], what[k])
      /\ next = n + 1 => writes[next] = WriteOf(FatNumber, fat)
  <2>1. \A k \in 1 .. n : writes[k] = WriteOf(chain[k], what[k])
    BY <1>1, IssuedIs
  <2>2. next = n + 1 => writes[next] = WriteOf(FatNumber, fat)
    <3>1. n + 1 \in 1 .. n + 2
      BY <1>1
    <3>2. QED BY <1>1, <3>1, IssuedIs
  <2>3. QED BY <1>1, <2>1, <2>2 DEF WriteJob
<1> HIDE DEF writes, n
<1>3. /\ signature' = signature /\ fat' = fat /\ clean' = clean /\ mode' = mode
      /\ pending' = Rest(writes, n + 2, next)
      /\ diskFat' = IF next = n + 1 THEN fat ELSE diskFat
      /\ store' = IF next = n + 1 THEN store ELSE [store EXCEPT ![chain[next]] = what[next]]
  <2>1. CASE next = n + 1
    <3>1. FatNumber # Beyond /\ FatNumber # Boot /\ FatNumber \notin Clusters
      BY Constants
    <3>2. QED BY <1>1, <1>2, <2>1, <3>1, DiskWriteIs
  <2>2. CASE next # n + 1
    <3>1. next \in 1 .. n /\ chain[next] \in Clusters
      BY <1>1, <2>2
    <3>2. chain[next] # Beyond /\ chain[next] # Boot /\ chain[next] # FatNumber
      BY <3>1, Constants
    <3>3. writes[next] = WriteOf(chain[next], what[next])
      BY <1>2, <3>1
    <3>4. QED BY <1>1, <1>2, <2>2, <3>1, <3>2, <3>3, DiskWriteIs
  <2>3. QED BY <2>1, <2>2
<1>4. /\ StoreOK(store')
      /\ \A c \in Clusters : store'[c] = IF next # n + 1 /\ c = chain[next] THEN what[next] ELSE store[c]
  <2>1. CASE next = n + 1
    BY <1>3, <2>1 DEF Base
  <2>2. CASE next # n + 1
    <3>1. next \in 1 .. n /\ chain[next] \in Clusters /\ what[next].table \in [Slots -> Entry]
      BY <1>1, <2>2
    <3>2. StoreOK(store) /\ store' = [store EXCEPT ![chain[next]] = what[next]]
      BY <1>3, <2>2 DEF Base
    <3>3. PICK to, w : to = chain[next] /\ w = what[next] /\ to \in Clusters /\ w.table \in [Slots -> Entry]
      BY <3>1
    <3>4. store' = [store EXCEPT ![to] = w]
      BY <3>2, <3>3
    <3>5. StoreOK(store')
      BY <3>2, <3>3, <3>4, StoreTakes
    <3>6. \A c \in Clusters : store'[c] = IF c = to THEN w ELSE store[c]
      <4>1. DOMAIN store = Clusters
        BY <3>2 DEF StoreOK
      <4>2. QED BY ONLY <3>4, <4>1, <3>3
    <3>7. QED BY <2>2, <3>3, <3>5, <3>6
  <2>3. QED BY <2>1, <2>2
<1>5. \A d \in Directories : store'[d] = store[d]
  <2>1. next # n + 1 => chain[next] \in aside
    BY <1>1
  <2>2. QED BY <1>1, <1>4, <2>1
<1>6. \A c \in Clusters \ aside : diskFat'[c] = diskFat[c] /\ store'[c] = store[c]
  <2>1. \A c \in Clusters \ aside : fat[c] = diskFat[c]
    BY Constants DEF WriteJob
  <2>2. next # n + 1 => chain[next] \in aside
    BY <1>1
  <2>3. QED BY <1>3, <1>4, <2>1, <2>2
<1>7. /\ Tree(own, Directories, store', diskFat', {}, aside)
      /\ Reached(Directories, store', Root)
      /\ Accounted(Directories, store, diskFat, {}, aside)
           => Accounted(Directories, store', diskFat', {}, aside)
  <2>1. Tree(own, Directories, store, diskFat, {}, aside)
    BY DEF WriteJob, Settled
  <2>2. \A d \in Directories \ aside : Headed(store'[d].table)
    BY <1>5, <2>1 DEF Tree
  <2>3. QED BY <1>5, <1>6, <2>1, <2>2, DirectoriesNow, TreeElsewhere
<1>8. Directories' = Directories
  BY <1>7, DirectoriesNext
<1>9. Settled(own, sure, {}, aside)'
  BY <1>3, <1>7, <1>8 DEF WriteJob, Settled
<1>10. Announced(own, parent, e, chain, what)'
  BY <1>1, <1>5 DEF WriteJob, Announced
<1>11. \A k \in 1 .. n : k <= next => store'[chain[k]] = what[k]
  <2> SUFFICES ASSUME NEW k \in 1 .. n, k <= next PROVE store'[chain[k]] = what[k]
    OBVIOUS
  <2>1. CASE k = next
    BY <1>1, <1>4, <2>1
  <2>2. CASE k # next
    <3>1. store[chain[k]] = what[k] /\ k <= n
      BY <1>1, <2>2 DEF WriteJob, n
    <3>2. next # n + 1 => chain[k] # chain[next]
      BY <1>1, <2>2 DEF WriteJob, n
    <3>3. QED BY <1>1, <1>4, <3>1, <3>2
  <2>3. QED BY <2>1, <2>2
<1>12. \A c \in 0 .. NClusters - 1 : c \notin aside => fat'[c] = diskFat'[c]
  BY <1>3 DEF WriteJob
<1>13. next > n => diskFat' = fat'
  BY <1>1, <1>3
<1>14. pending' = Rest(Issued(chain, what, fat', parent, WithEntry(store'[parent].table, e)), n + 2, next)
  BY <1>1, <1>3, <1>5 DEF writes
<1>15. next \in 0 .. n + 1
  BY <1>1
<1>16. /\ Links(fat', chain[1], chain) /\ parent \in Directories' /\ aside \cap Directories' = {}
       /\ \A i, j \in 1 .. n : chain[i] = chain[j] => i = j
  BY <1>1, <1>3, <1>8 DEF WriteJob, n
<1>17. WriteJob(own, sure, parent, e, chain, what, next)'
  BY <1>9, <1>10, <1>11, <1>12, <1>13, <1>14, <1>15, <1>16 DEF WriteJob, n
<1>18. Base' /\ SameEntries
  BY <1>3, <1>4, <1>5, <1>8 DEF Base, SameEntries
<1>19. QED BY <1>3, <1>6, <1>17, <1>18 DEF Elsewhere

\* The last write of a write(): the entry goes into the parent's table, if the
\* table is not full.
LEMMA WriteEnds ==
  ASSUME NEW own \in BOOLEAN, NEW sure \in BOOLEAN,
         sure => RoomForNames,
         Base, DiskWrite, mode = "write", NEW parent, NEW e, NEW chain, NEW what, NEW done,
         WriteJob(own, sure, parent, e, chain, what, done), done = Len(chain) + 1
  PROVE  /\ mode' = "idle" /\ pending' = <<>> /\ fat' = diskFat' /\ signature' = signature
         /\ Settled(own, sure, {}, {})' /\ Base' /\ diskFat' = diskFat
         /\ OnlyAt(parent)
         /\ \/ SameEntries /\ ~RoomForNames
            \/ \E slot \in Slots \ {0} : EntryPut(parent, slot, e)
<1> DEFINE n == Len(chain)
           aside == ToSet(chain)
           table == store[parent].table
           new == WithEntry(table, e)
           writes == Issued(chain, what, fat, parent, new)
<1>1. /\ n \in Nat /\ n >= 1 /\ chain \in Seq(Clusters) /\ aside \subseteq Clusters
      /\ \A k \in 1 .. n : chain[k] \in aside /\ chain[k] \in Clusters
      /\ parent \in Directories /\ Directories \subseteq Clusters /\ aside \cap Directories = {}
      /\ parent \in Clusters /\ Linked(fat, chain[1]) /\ Chain(fat, chain[1]) = chain
      /\ diskFat = fat /\ 1 \in 1 .. n
  <2>1. Linked(fat, chain[1]) /\ Chain(fat, chain[1]) = chain
    BY LinkedIs DEF WriteJob
  <2>2. chain \in Seq(Clusters) /\ n \in Nat /\ n >= 1 /\ aside \subseteq Clusters
        /\ \A k \in 1 .. n : chain[k] \in aside /\ chain[k] \in Clusters
    <3>1. chain \in Seq(Clusters) /\ n \in Nat /\ n >= 1
      BY Constants DEF WriteJob, Links
    <3>2. QED BY <3>1 DEF ToSet
  <2>3. diskFat = fat
    BY <2>2 DEF WriteJob
  <2>4. QED BY <2>1, <2>2, <2>3, DirectoriesNow DEF WriteJob, Announced
<1>2. Tree(own, Directories, store, diskFat, {}, aside)
  BY DEF WriteJob, Settled
<1>3. table \in [Slots -> Entry] /\ table[0].used /\ Tidy(table)
  BY <1>1, <1>2 DEF Tree, Base, StoreOK, Headed
<1>4. /\ e \in Entry /\ e.used /\ e.name \in Names /\ e.cluster = chain[1]
      /\ \A s \in Slots \ {0} : table[s].used => table[s].name # e.name
      /\ e.dir => n = 1 /\ (\A s \in Slots \ {0} : store[chain[1]].table[s] = EmptyEntry)
                  /\ Headed(store[chain[1]].table) /\ e.length = 0
      /\ ~e.dir => e.length = n /\ \A k \in 1 .. n : Sound(own, parent, e.name, k, store[chain[k]].data)
  <2>1. \A k \in 1 .. n : store[chain[k]] = what[k]
    BY <1>1 DEF WriteJob
  <2>2. QED BY <1>1, <2>1 DEF WriteJob, Announced
<1>5. /\ new \in [Slots -> Entry]
      /\ UsedSlots(table) = Slots => new = table
      /\ UsedSlots(table) # Slots =>
           \E slot \in Slots \ {0} :
             ~table[slot].used /\ \A s \in Slots : new[s] = IF s = slot THEN e ELSE table[s]
  BY <1>3, <1>4, WithEntrySound
<1> HIDE DEF new
<1>6. /\ pending = Rest(writes, n + 2, done) /\ n + 2 \in Nat /\ done \in 0 .. (n + 2) - 1
      /\ n + 2 = done + 1 /\ writes[n + 2] = WriteOf(parent, TableCluster(new))
  <2>1. n + 2 \in 1 .. n + 2
    BY <1>1
  <2>2. writes[n + 2] = WriteOf(parent, TableCluster(new))
    BY <1>1, <2>1, IssuedIs
  <2>3. pending = Rest(writes, n + 2, done)
    BY DEF WriteJob, new
  <2>4. QED BY <1>1, <2>2, <2>3
<1> HIDE DEF writes, n
<1>7. /\ signature' = signature /\ fat' = fat /\ clean' = clean /\ mode' = "idle"
      /\ pending' = <<>> /\ diskFat' = diskFat
      /\ store' = [store EXCEPT ![parent] = TableCluster(new)]
  <2>1. parent # Beyond /\ parent # Boot /\ parent # FatNumber
    BY <1>1, Constants
  <2>2. pending' = Rest(writes, n + 2, n + 2)
    BY <1>1, <1>6, <2>1, DiskWriteIs
  <2>3. pending' = <<>>
    BY <1>6, <2>2, RestOfNone
  <2>4. QED BY <1>1, <1>6, <2>1, <2>3, DiskWriteIs
<1>8. /\ StoreOK(store')
      /\ \A c \in Clusters : store'[c] = IF c = parent THEN TableCluster(new) ELSE store[c]
      /\ store'[parent].table = new
  <2>1. PICK w : w = TableCluster(new) /\ w.table = new
    <3>1. TableCluster(new).table = new
      BY DEF TableCluster
    <3>2. QED BY <3>1
  <2>2. store' = [store EXCEPT ![parent] = w] /\ StoreOK(store)
    BY <1>7, <2>1 DEF Base
  <2>3. StoreOK(store')
    BY <1>1, <1>5, <2>1, <2>2, StoreTakes
  <2>4. \A c \in Clusters : store'[c] = IF c = parent THEN w ELSE store[c]
    <3>1. DOMAIN store = Clusters
      BY <2>2 DEF StoreOK
    <3>2. parent \in Clusters
      BY <1>1
    <3>3. QED BY ONLY <2>2, <3>1, <3>2
  <2>5. QED BY <1>1, <2>1, <2>3, <2>4
<1>9. (Accounted(Directories, store, diskFat, {}, aside) \/ ~sure) /\ OnlyAt(parent)
  BY <1>8 DEF WriteJob, Settled, OnlyAt
<1>10. CASE UsedSlots(table) = Slots
  <2>1. /\ \A d \in Directories, s \in Slots : store'[d].table[s] = store[d].table[s]
        /\ \A c \in Clusters \ (aside \cup Directories) : store'[c] = store[c]
    BY <1>1, <1>5, <1>8, <1>10
  <2>2. \A d \in Directories \ aside : Headed(store'[d].table)
    BY <1>2, <2>1, Constants DEF Tree, Headed
  <2>3. /\ Tree(own, Directories, store', diskFat', {}, aside)
        /\ Reached(Directories, store', Root)
        /\ Accounted(Directories, store, diskFat, {}, aside)
             => Accounted(Directories, store', diskFat', {}, aside)
    <3>1. /\ \A d \in Directories, s \in Slots \ {0} : store'[d].table[s] = store[d].table[s]
          /\ \A c \in Clusters \ aside : diskFat'[c] = diskFat[c]
      BY <1>7, <2>1
    <3>2. QED BY ONLY <1>2, <2>1, <2>2, <3>1, DirectoriesNow, TreeElsewhere
  <2>4. Tree(own, Directories, store', diskFat', {}, {})
    BY <1>1, <2>3, TreeForgotten
  <2>5. Directories' = Directories
    BY <2>3, DirectoriesNext
  <2>6. ~RoomForNames
    BY <1>3, <1>4, <1>10, NeverFull
  <2>7. Settled(own, sure, {}, {})'
    BY <2>4, <2>5, <2>6 DEF Settled
  <2>8. SameEntries
    BY <2>1, <2>5 DEF SameEntries
  <2>9. QED BY <1>1, <1>7, <1>8, <1>9, <2>6, <2>7, <2>8 DEF Base
<1>11. CASE UsedSlots(table) # Slots
  <2>1. PICK slot \in Slots \ {0} :
          ~table[slot].used /\ \A s \in Slots : new[s] = IF s = slot THEN e ELSE table[s]
    BY <1>5, <1>11
  <2>2. Replaced(Directories, store, store', parent, slot, e)
    BY <1>1, <1>8, <2>1 DEF Replaced
  <2>3. Held(own, store, diskFat, parent, e) /\ Owned(diskFat, e) = aside
    <3>1. Linked(diskFat, e.cluster) /\ Chain(diskFat, e.cluster) = chain
      BY <1>1, <1>4
    <3>2. e.dir => diskFat[e.cluster] = Eof
      BY <1>1, <1>4 DEF WriteJob, Links, n
    <3>3. QED BY <1>4, <3>1, <3>2 DEF Held, Owned, n
  <2>4. e.dir => /\ aside = {e.cluster}
                 /\ \A s \in Slots \ {0} : store[e.cluster].table[s] = EmptyEntry
                 /\ Headed(store[e.cluster].table)
    BY <1>1, <1>4 DEF n, ToSet
  <2>5. e.cluster \in Clusters
    BY <1>1, <1>4
  <2>6. PICK E : E = Directories \cup (IF e.dir THEN {e.cluster} ELSE {})
    OBVIOUS
  <2>7. /\ Tree(own, E, store', diskFat, {}, {})
        /\ Reached(E, store', Root)
        /\ Accounted(Directories, store, diskFat, {}, aside) => Accounted(E, store', diskFat, {}, {})
    <3>1. /\ parent \in Directories /\ aside \cap Directories = {} /\ slot \in Slots \ {0}
          /\ ~store[parent].table[slot].used
          /\ e.used /\ e.name \in Names
          /\ \A s \in Slots \ {0} : store[parent].table[s].used => store[parent].table[s].name # e.name
      BY <1>1, <1>4, <2>1
    <3>2. Becomes(own, Directories, store, diskFat, {}, aside, E, store')
      BY ONLY <1>2, <2>2, <2>3, <2>4, <2>5, <2>6, <3>1, DirectoriesNow, EntryAppears
    <3>3. QED BY <3>2 DEF Becomes
  <2>8. Directories' = E
    BY <2>7, DirectoriesNext
  <2>9. Settled(own, sure, {}, {})'
    BY <1>7, <1>9, <2>7, <2>8 DEF Settled
  <2>10. \A d \in Directories', s \in Slots : InUse(store', d, s) => d \in Directories
    <3> SUFFICES ASSUME e.dir, e.cluster \notin Directories, NEW s \in Slots
                 PROVE  ~InUse(store', e.cluster, s)
      BY <2>6, <2>8
    <3>1. store'[e.cluster] = store[e.cluster]
      BY <1>1, <2>2, <2>5 DEF Replaced
    <3>2. QED BY <2>4, <3>1, EmptyEntryIs DEF InUse
  <2>11. EntryPut(parent, slot, e)
    BY <1>1, <2>1, <2>2, <2>6, <2>8, <2>10 DEF EntryPut, InUse
  <2>12. QED BY <1>1, <1>7, <1>8, <1>9, <2>9, <2>11 DEF Base
<1>12. QED BY <1>10, <1>11

\* What a delete() is about.
DeleteFacts(own, parent, slot, e, chain, done) ==
  LET n == Len(chain)
      aside == ToSet(chain)
      table == store[parent].table
      writes == Issued(chain, [k \in 1 .. n |-> ZeroCluster], fat, parent,
                       WithoutEntry(table, slot))
  IN  /\ n \in Nat /\ n >= 1 /\ chain \in Seq(Clusters) /\ aside \subseteq Clusters
      /\ \A k \in 1 .. n : chain[k] \in aside /\ chain[k] \in Clusters
      /\ parent \in Directories /\ parent \in Clusters /\ parent \notin aside
      /\ Directories \subseteq Clusters
      /\ slot \in Slots \ {0} /\ e = table[slot] /\ e.used
      /\ table \in [Slots -> Entry]
      /\ done \in 0 .. n + 1 /\ done \in 0 .. (n + 2) - 1 /\ n + 2 \in Nat
      /\ pending = Rest(writes, n + 2, done)
      /\ \A k \in 1 .. n : writes[k] = WriteOf(chain[k], ZeroCluster)
      /\ writes[n + 1] = WriteOf(FatNumber, fat)
      /\ writes[n + 2] = WriteOf(parent, TableCluster(WithoutEntry(table, slot)))
      /\ e.dir => /\ n = 1 /\ aside = {e.cluster} /\ chain[1] = e.cluster
                  /\ \A s \in Slots : ~InUse(store, e.cluster, s)
      /\ ~e.dir => aside \cap Directories = {}
      /\ Tree(own, Directories, store, diskFat, {<<parent, slot>>}, aside)

LEMMA DeleteJobIs ==
  ASSUME NEW own \in BOOLEAN, NEW sure \in BOOLEAN,
         Base, NEW parent, NEW slot, NEW e, NEW chain, NEW done, DeleteJob(own, sure, parent, slot, e, chain, done)
  PROVE  DeleteFacts(own, parent, slot, e, chain, done)
<1> DEFINE n == Len(chain)
           aside == ToSet(chain)
           table == store[parent].table
           zeros == [k \in 1 .. n |-> ZeroCluster]
           writes == Issued(chain, zeros, fat, parent, WithoutEntry(table, slot))
<1>1. /\ n \in Nat /\ n >= 1 /\ chain \in Seq(Clusters)
      /\ n + 1 \in 1 .. n + 2 /\ n + 2 \in 1 .. n + 2 /\ n + 2 \in Nat
  BY Constants DEF DeleteJob
<1>2. /\ aside \subseteq Clusters
      /\ \A k \in 1 .. n : chain[k] \in aside /\ chain[k] \in Clusters
  BY <1>1 DEF ToSet
<1>3. /\ parent \in Directories /\ parent \in Clusters /\ parent \notin aside
      /\ Directories \subseteq Clusters
      /\ slot \in Slots \ {0} /\ e = table[slot] /\ e.used
      /\ table \in [Slots -> Entry]
  BY DirectoriesNow DEF DeleteJob, InUse, Base, StoreOK
<1>4. done \in 0 .. n + 1 /\ done \in 0 .. (n + 2) - 1
  BY <1>1 DEF DeleteJob
<1>5. pending = Rest(writes, n + 2, done)
  BY DEF DeleteJob
<1>6. /\ \A k \in 1 .. n : writes[k] = WriteOf(chain[k], zeros[k])
      /\ writes[n + 1] = WriteOf(FatNumber, fat)
      /\ writes[n + 2] = WriteOf(parent, TableCluster(WithoutEntry(table, slot)))
  BY <1>1, IssuedIs
<1>7. \A k \in 1 .. n : zeros[k] = ZeroCluster
  OBVIOUS
<1>8. e.dir => /\ n = 1 /\ aside = {e.cluster} /\ chain[1] = e.cluster
               /\ \A s \in Slots : ~InUse(store, e.cluster, s)
  <2>1. e.dir => n = 1 /\ chain[1] = e.cluster /\ \A s \in Slots : ~InUse(store, e.cluster, s)
    BY DEF DeleteJob
  <2>2. n = 1 => aside = {chain[1]}
    BY <1>1 DEF ToSet
  <2>3. QED BY <2>1, <2>2
<1>9. /\ ~e.dir => aside \cap Directories = {}
      /\ Tree(own, Directories, store, diskFat, {<<parent, slot>>}, aside)
  BY DEF DeleteJob, Settled
<1> HIDE DEF writes, zeros
<1>10. \A k \in 1 .. n : writes[k] = WriteOf(chain[k], ZeroCluster)
  BY <1>6, <1>7
<1>11. QED BY <1>1, <1>2, <1>3, <1>4, <1>5, <1>6, <1>8, <1>9, <1>10 DEF DeleteFacts, writes, zeros

\* A delete() before its last write.
LEMMA DeleteGoesOn ==
  ASSUME NEW own \in BOOLEAN, NEW sure \in BOOLEAN,
         Base, DiskWrite, mode = "delete", NEW parent, NEW slot, NEW e, NEW chain, NEW done,
         DeleteJob(own, sure, parent, slot, e, chain, done), done # Len(chain) + 1, NEW next, next = done + 1
  PROVE  /\ DeleteJob(own, sure, parent, slot, e, chain, next)'
         /\ mode' = "delete" /\ signature' = signature /\ Base' /\ SameEntries
         /\ Elsewhere(ToSet(chain)) /\ fat' = fat
<1> DEFINE n == Len(chain)
           aside == ToSet(chain)
           gone == {<<parent, slot>>}
           table == store[parent].table
           zeros == [k \in 1 .. n |-> ZeroCluster]
           writes == Issued(chain, zeros, fat, parent, WithoutEntry(table, slot))
<1>1. /\ n \in Nat /\ n >= 1 /\ chain \in Seq(Clusters) /\ aside \subseteq Clusters
      /\ \A k \in 1 .. n : chain[k] \in aside /\ chain[k] \in Clusters
      /\ parent \in Directories /\ parent \in Clusters /\ parent \notin aside
      /\ Directories \subseteq Clusters
      /\ slot \in Slots \ {0} /\ e = table[slot] /\ e.used
      /\ done \in 0 .. (n + 2) - 1 /\ n + 2 \in Nat
      /\ pending = Rest(writes, n + 2, done)
      /\ \A k \in 1 .. n : writes[k] = WriteOf(chain[k], ZeroCluster)
      /\ writes[n + 1] = WriteOf(FatNumber, fat)
      /\ e.dir => /\ n = 1 /\ aside = {e.cluster} /\ chain[1] = e.cluster
                  /\ \A s \in Slots : ~InUse(store, e.cluster, s)
      /\ ~e.dir => aside \cap Directories = {}
      /\ Tree(own, Directories, store, diskFat, gone, aside)
  <2>1. DeleteFacts(own, parent, slot, e, chain, done)
    BY DeleteJobIs
  <2>2. QED BY <2>1 DEF DeleteFacts
<1>2. done \in 0 .. n /\ next \in 1 .. n + 1 /\ next # n + 2
  BY <1>1
<1> HIDE DEF writes, n
<1>3. /\ signature' = signature /\ fat' = fat /\ clean' = clean /\ mode' = mode
      /\ pending' = Rest(writes, n + 2, next)
      /\ diskFat' = IF next = n + 1 THEN fat ELSE diskFat
      /\ store' = IF next = n + 1 THEN store ELSE [store EXCEPT ![chain[next]] = ZeroCluster]
  <2>1. CASE next = n + 1
    <3>1. FatNumber # Beyond /\ FatNumber # Boot /\ FatNumber \notin Clusters
      BY Constants
    <3>2. QED BY <1>1, <1>2, <2>1, <3>1, DiskWriteIs
  <2>2. CASE next # n + 1
    <3>1. next \in 1 .. n /\ chain[next] \in Clusters
      BY <1>1, <1>2, <2>2
    <3>2. chain[next] # Beyond /\ chain[next] # Boot /\ chain[next] # FatNumber
      BY <3>1, Constants
    <3>3. writes[next] = WriteOf(chain[next], ZeroCluster)
      BY <1>1, <3>1
    <3>4. QED BY <1>1, <1>2, <2>2, <3>1, <3>2, <3>3, DiskWriteIs
  <2>3. QED BY <2>1, <2>2
<1>4. /\ StoreOK(store')
      /\ \A c \in Clusters : store'[c] = IF next # n + 1 /\ c = chain[next] THEN ZeroCluster ELSE store[c]
  <2>1. CASE next = n + 1
    BY <1>3, <2>1 DEF Base
  <2>2. CASE next # n + 1
    <3>1. next \in 1 .. n /\ chain[next] \in Clusters
      BY <1>1, <1>2, <2>2
    <3>2. StoreOK(store) /\ store' = [store EXCEPT ![chain[next]] = ZeroCluster]
      BY <1>3, <2>2 DEF Base
    <3>3. ZeroCluster.table \in [Slots -> Entry]
      BY EmptyEntryIs DEF ZeroCluster, DataCluster, BlankTable
    <3>4. PICK to, w : to = chain[next] /\ w = ZeroCluster /\ to \in Clusters
      BY <3>1
    <3>5. store' = [store EXCEPT ![to] = w]
      BY <3>2, <3>4
    <3>6. StoreOK(store')
      BY <3>2, <3>3, <3>4, <3>5, StoreTakes
    <3>7. \A c \in Clusters : store'[c] = IF c = to THEN w ELSE store[c]
      <4>1. DOMAIN store = Clusters
        BY <3>2 DEF StoreOK
      <4>2. QED BY ONLY <3>5, <4>1, <3>4
    <3>8. QED BY <2>2, <3>4, <3>6, <3>7
  <2>3. QED BY <2>1, <2>2
<1>5. next # n + 1 => chain[next] \in aside
  BY <1>1, <1>2
<1>6. \A s \in Slots : ZeroCluster.table[s] = EmptyEntry
  BY DEF ZeroCluster, DataCluster, BlankTable
<1>7. \A d \in Directories, s \in Slots \ {0} : store'[d].table[s] = store[d].table[s]
  <2> SUFFICES ASSUME NEW d \in Directories, NEW s \in Slots \ {0}
               PROVE  store'[d].table[s] = store[d].table[s]
    OBVIOUS
  <2>1. CASE next # n + 1 /\ d = chain[next]
    <3>1. ~InUse(store, d, s)
      BY <1>1, <1>5, <2>1
    <3>2. store[d].table[s] = EmptyEntry
      BY <1>1, <3>1 DEF InUse, Tree, Tidy
    <3>3. QED BY <1>1, <1>4, <1>6, <2>1, <3>2
  <2>2. CASE ~(next # n + 1 /\ d = chain[next])
    BY <1>1, <1>4, <2>2
  <2>3. QED BY <2>1, <2>2
<1>8. \A c \in Clusters \ aside : diskFat'[c] = diskFat[c] /\ store'[c] = store[c]
  <2>1. \A c \in Clusters \ aside : fat[c] = diskFat[c]
    BY Constants DEF DeleteJob
  <2>2. QED BY <1>3, <1>4, <1>5, <2>1
<1>9. /\ Tree(own, Directories, store', diskFat', gone, aside)
      /\ Reached(Directories, store', Root)
      /\ Accounted(Directories, store, diskFat, gone, aside)
           => Accounted(Directories, store', diskFat', gone, aside)
  <2>1. \A d \in Directories \ aside : Headed(store'[d].table)
    <3>1. \A d \in Directories \ aside : store'[d] = store[d] /\ Headed(store[d].table)
      <4>1. \A d \in Directories \ aside : d \in Clusters \ aside
        BY <1>1
      <4>2. \A d \in Directories \ aside : store'[d] = store[d]
        BY <1>8, <4>1
      <4>3. \A d \in Directories \ aside : Headed(store[d].table)
        BY <1>1 DEF Tree
      <4>4. QED BY <4>2, <4>3
    <3>2. QED BY <3>1
  <2>2. \A c \in Clusters \ (aside \cup Directories) : store'[c] = store[c]
    BY <1>8
  <2>3. QED BY ONLY <1>1, <1>7, <1>8, <2>1, <2>2, DirectoriesNow, TreeElsewhere
<1>10. Directories' = Directories
  BY <1>9, DirectoriesNext
<1>11. Settled(own, sure, gone, aside)'
  BY <1>3, <1>9, <1>10 DEF DeleteJob, Settled
<1>12. store'[parent] = store[parent]
  BY <1>1, <1>8
<1>13. /\ parent \in Directories' /\ slot \in Slots \ {0} /\ parent \notin aside
       /\ InUse(store', parent, slot) /\ e = store'[parent].table[slot]
       /\ chain \in Seq(Clusters) /\ n \in 1 .. NClusters /\ chain[1] = e.cluster
       /\ next \in 0 .. n + 1
  <2>1. InUse(store', parent, slot) /\ e = store'[parent].table[slot]
    BY <1>1, <1>12 DEF InUse
  <2>2. n \in 1 .. NClusters /\ chain[1] = e.cluster
    BY DEF DeleteJob, n
  <2>3. QED BY <1>1, <1>2, <1>10, <2>1, <2>2
<1>14. pending' = Rest(Issued(chain, [k \in 1 .. Len(chain) |-> ZeroCluster], fat', parent,
                              WithoutEntry(store'[parent].table, slot)), n + 2, next)
  BY <1>3, <1>12 DEF writes, n
<1>15. e.dir => n = 1 /\ \A s \in Slots : ~InUse(store', e.cluster, s)
  <2> SUFFICES ASSUME e.dir, NEW s \in Slots PROVE ~InUse(store', e.cluster, s)
    BY <1>1
  <2>1. e.cluster \in Clusters
    BY <1>1
  <2>2. store'[e.cluster] = ZeroCluster \/ store'[e.cluster] = store[e.cluster]
    BY <1>4, <2>1
  <2>3. ~InUse(store, e.cluster, s)
    BY <1>1
  <2>4. ~ZeroCluster.table[s].used
    BY <1>6, EmptyEntryIs
  <2>5. CASE store'[e.cluster] = ZeroCluster
    BY <2>4, <2>5 DEF InUse
  <2>6. CASE store'[e.cluster] = store[e.cluster]
    BY <2>3, <2>6 DEF InUse
  <2>7. QED BY <2>2, <2>5, <2>6
<1>16. ~e.dir => aside \cap Directories' = {}
  BY <1>1, <1>10
<1>17. \A c \in 0 .. NClusters - 1 : fat'[c] = IF c \in aside THEN Free ELSE diskFat'[c]
  BY <1>3 DEF DeleteJob
<1>18. /\ next <= n => Links(diskFat', e.cluster, chain) /\ (e.dir => diskFat'[e.cluster] = Eof)
       /\ next > n => diskFat' = fat'
  <2>1. done <= n => Links(diskFat, e.cluster, chain) /\ (e.dir => diskFat[e.cluster] = Eof)
    BY DEF DeleteJob, n
  <2>2. QED BY <1>1, <1>2, <1>3, <2>1
<1>19. next # 0 /\ store'[chain[1]] = ZeroCluster
  <2>1. CASE next = 1
    BY <1>1, <1>4, <2>1
  <2>2. CASE next # 1
    <3>1. store[chain[1]] = ZeroCluster
      BY <1>1, <1>2, <2>2 DEF DeleteJob
    <3>2. QED BY <1>1, <1>2, <1>4, <3>1
  <2>3. QED BY <1>2, <2>1, <2>2
<1>20. DeleteJob(own, sure, parent, slot, e, chain, next)'
  BY <1>11, <1>13, <1>14, <1>15, <1>16, <1>17, <1>18, <1>19 DEF DeleteJob, n
<1>21. Base' /\ SameEntries
  BY <1>3, <1>4, <1>7, <1>10 DEF Base, SameEntries
<1>22. QED BY <1>3, <1>8, <1>20, <1>21 DEF Elsewhere

\* The last write of a delete(): the entry leaves the parent's table.
LEMMA DeleteEnds ==
  ASSUME NEW own \in BOOLEAN, NEW sure \in BOOLEAN,
         Base, DiskWrite, mode = "delete", NEW parent, NEW slot, NEW e, NEW chain, NEW done,
         DeleteJob(own, sure, parent, slot, e, chain, done), done = Len(chain) + 1
  PROVE  /\ mode' = "idle" /\ pending' = <<>> /\ fat' = diskFat' /\ signature' = signature
         /\ Settled(own, sure, {}, {})' /\ Base' /\ EntryTaken(parent, slot) /\ diskFat' = diskFat
<1> DEFINE n == Len(chain)
           aside == ToSet(chain)
           gone == {<<parent, slot>>}
           table == store[parent].table
           new == WithoutEntry(table, slot)
           writes == Issued(chain, [k \in 1 .. n |-> ZeroCluster], fat, parent, new)
<1>1. /\ n \in Nat /\ n >= 1 /\ chain \in Seq(Clusters) /\ aside \subseteq Clusters
      /\ parent \in Directories /\ parent \in Clusters
      /\ slot \in Slots \ {0} /\ e = table[slot] /\ e.used
      /\ table \in [Slots -> Entry]
      /\ done \in 0 .. (n + 2) - 1 /\ n + 2 \in Nat
      /\ pending = Rest(writes, n + 2, done)
      /\ writes[n + 2] = WriteOf(parent, TableCluster(new))
      /\ e.dir => /\ aside = {e.cluster}
                  /\ \A s \in Slots : ~InUse(store, e.cluster, s)
      /\ ~e.dir => aside \cap Directories = {}
      /\ Tree(own, Directories, store, diskFat, gone, aside)
  <2>1. DeleteFacts(own, parent, slot, e, chain, done)
    BY DeleteJobIs
  <2>2. QED BY <2>1 DEF DeleteFacts
<1>2. n + 2 = done + 1 /\ diskFat = fat
  BY <1>1 DEF DeleteJob
<1>3. /\ new \in [Slots -> Entry]
      /\ \A s \in Slots : new[s] = IF s = slot THEN EmptyEntry ELSE table[s]
  BY <1>1, EmptyEntryIs DEF WithoutEntry
<1> HIDE DEF writes, n, new
<1>4. /\ signature' = signature /\ fat' = fat /\ clean' = clean /\ mode' = "idle"
      /\ pending' = <<>> /\ diskFat' = diskFat
      /\ store' = [store EXCEPT ![parent] = TableCluster(new)]
  <2>1. parent # Beyond /\ parent # Boot /\ parent # FatNumber
    BY <1>1, Constants
  <2>2. pending' = Rest(writes, n + 2, n + 2)
    BY <1>1, <1>2, <2>1, DiskWriteIs
  <2>3. pending' = <<>>
    BY <1>1, <2>2, RestOfNone
  <2>4. QED BY <1>1, <1>2, <2>1, <2>3, DiskWriteIs
<1>5. /\ StoreOK(store')
      /\ \A c \in Clusters : store'[c] = IF c = parent THEN TableCluster(new) ELSE store[c]
      /\ store'[parent].table = new
  <2>1. PICK w : w = TableCluster(new) /\ w.table = new
    <3>1. TableCluster(new).table = new
      BY DEF TableCluster
    <3>2. QED BY <3>1
  <2>2. store' = [store EXCEPT ![parent] = w] /\ StoreOK(store)
    BY <1>4, <2>1 DEF Base
  <2>3. StoreOK(store')
    BY <1>1, <1>3, <2>1, <2>2, StoreTakes
  <2>4. \A c \in Clusters : store'[c] = IF c = parent THEN w ELSE store[c]
    <3>1. DOMAIN store = Clusters
      BY <2>2 DEF StoreOK
    <3>2. parent \in Clusters
      BY <1>1
    <3>3. QED BY ONLY <2>2, <3>1, <3>2
  <2>5. QED BY <1>1, <2>1, <2>3, <2>4
<1>6. Replaced(Directories, store, store', parent, slot, EmptyEntry)
  BY <1>1, <1>3, <1>5, DirectoriesNow DEF Replaced
<1>7. \A c \in aside : diskFat[c] = Free
  BY <1>1, <1>2, Constants DEF DeleteJob
<1>8. InUse(store, parent, slot)
  BY DEF DeleteJob
<1>9. PICK E : E = Directories \ (IF e.dir THEN {e.cluster} ELSE {})
  OBVIOUS
<1>10. /\ Tree(own, E, store', diskFat, {}, {})
       /\ Reached(E, store', Root)
       /\ Accounted(Directories, store, diskFat, gone, aside) => Accounted(E, store', diskFat, {}, {})
  <2>1. Becomes(own, Directories, store, diskFat, gone, aside, E, store')
    BY <1>1, <1>6, <1>7, <1>8, <1>9, DirectoriesNow, EntryVanishes
  <2>2. QED BY <2>1 DEF Becomes
<1>11. Directories' = E
  BY <1>10, DirectoriesNext
<1>12. Settled(own, sure, {}, {})'
  BY <1>4, <1>10, <1>11 DEF DeleteJob, Settled
<1>13. \A d \in Directories, s \in Slots : InUse(store', d, s) => d \in Directories'
  <2> SUFFICES ASSUME e.dir, e.cluster \in Directories, NEW s \in Slots
               PROVE  ~InUse(store', e.cluster, s)
    BY <1>9, <1>11
  <2>1. parent # e.cluster
    BY <1>1 DEF DeleteJob
  <2>2. store'[e.cluster] = store[e.cluster]
    BY <1>5, <2>1, DirectoriesNow
  <2>3. QED BY <1>1, <2>2 DEF InUse
<1>14. EntryTaken(parent, slot)
  BY <1>1, <1>6, <1>9, <1>11, <1>13 DEF EntryTaken
<1>15. QED BY <1>2, <1>4, <1>5, <1>12, <1>14 DEF Base

-----------------------------------------------------------------------------
(* Booting, formatting and losing power.                                   *)

LEMMA BlankIs ==
  /\ \A s \in Slots : BlankTable[s] = EmptyEntry
  /\ BlankTable \in [Slots -> Entry]
  /\ ZeroCluster.table = BlankTable
  /\ BlankStore = [c \in Clusters |-> BlankStore[c]]
  /\ \A c \in Clusters : BlankStore[c] = ZeroCluster
  /\ StoreOK(BlankStore)
<1>1. /\ \A s \in Slots : BlankTable[s] = EmptyEntry
      /\ BlankTable \in [Slots -> Entry]
  BY EmptyEntryIs DEF BlankTable
<1>2. ZeroCluster.table = BlankTable
  BY DEF ZeroCluster, DataCluster
<1>3. \A c \in Clusters : BlankStore[c] = ZeroCluster
  BY DEF BlankStore
<1>4. BlankStore = [c \in Clusters |-> BlankStore[c]]
  BY DEF BlankStore
<1>5. QED BY <1>1, <1>2, <1>3, <1>4 DEF StoreOK

LEMMA FormatFatIs ==
  /\ FormatFat \in Maps /\ NoFat \in Maps /\ FormatFat[Root] = Eof
  /\ \A c \in Clusters : c # Root => FormatFat[c] = Free
BY Constants DEF FormatFat, NoFat, Maps, Boot, FatNumber, Root, Free, Eof, Beyond, Clusters

\* The first entry of a directory is about itself, and the others stay.
LEMMA InitIs ==
  ASSUME NEW table \in [Slots -> Entry], NEW name \in Names \cup {RootName}, NEW parent \in Clusters,
         NEW new, new = InitDirectoryTable(table, name, parent)
  PROVE  /\ new \in [Slots -> Entry]
         /\ Headed(new)
         /\ \A s \in Slots \ {0} : new[s] = table[s]
<1> DEFINE self == [used |-> TRUE, name |-> name, dir |-> TRUE, cluster |-> parent, length |-> 0]
<1>1. self \in Entry /\ self.used /\ self.dir
  BY Constants DEF Entry
<1>2. new = [table EXCEPT ![0] = self]
  BY DEF InitDirectoryTable
<1> HIDE DEF self
<1>3. QED BY <1>1, <1>2, Constants DEF Headed

LEMMA NewRootIs ==
  /\ NewRoot.table \in [Slots -> Entry] /\ Headed(NewRoot.table)
  /\ \A s \in Slots \ {0} : NewRoot.table[s] = EmptyEntry
<1>1. NewRoot.table = InitDirectoryTable(BlankTable, RootName, Root)
  BY DEF NewRoot, TableCluster
<1>2. PICK new : new = InitDirectoryTable(BlankTable, RootName, Root)
  OBVIOUS
<1>3. new \in [Slots -> Entry] /\ Headed(new) /\ \A s \in Slots \ {0} : new[s] = BlankTable[s]
  BY <1>2, BlankIs, Constants, InitIs
<1>4. QED BY <1>1, <1>2, <1>3, BlankIs

\* A directory without entries is all of the tree.
LEMMA TreeOfOne ==
  ASSUME NEW own \in BOOLEAN,
         NEW st, NEW map, Tidy(st[Root].table), Headed(st[Root].table),
         \A s \in Slots : ~InUse(st, Root, s), map[Root] = Eof
  PROVE  /\ Tree(own, {Root}, st, map, {}, {})
         /\ Reached({Root}, st, Root)
         /\ (\A c \in Clusters : c # Root => map[c] = Free) => Accounted({Root}, st, map, {}, {})
<1>1. Reached({Root}, st, Root)
  BY Constants DEF Reached, Closed, Child
<1>2. \A s \in Slots : ~Stays(st, {}, Root, s)
  BY DEF Stays
<1>3. Tree(own, {Root}, st, map, {}, {})
  BY <1>2 DEF Tree
<1>4. QED BY <1>1, <1>3 DEF Accounted

LEMMA FormatStep ==
  ASSUME NEW own \in BOOLEAN, NEW sure \in BOOLEAN,
         Base, FormatJob, mode = "format", DiskWrite
  PROVE  /\ Base' /\ (signature => signature')
         /\ \A c \in Clusters, s \in Slots : ~InUse(store, c, s) /\ ~InUse(store', c, s)
         /\ \/ mode' = "format" /\ FormatJob'
            \/ mode' = "idle" /\ pending' = <<>> /\ signature' /\ fat' = diskFat' /\ Settled(own, sure, {}, {})'
<1> DEFINE w2 == WriteOf(FatNumber, FormatFat)
           w3 == WriteOf(Root, NewRoot)
<1>1. /\ w2.to = FatNumber /\ w2.what = FormatFat /\ w3.to = Root /\ w3.what = NewRoot
      /\ Boot # Beyond /\ FatNumber # Beyond /\ Root # Beyond /\ Boot # FatNumber
      /\ Boot # Root /\ FatNumber # Root /\ Boot \notin Clusters /\ FatNumber \notin Clusters
      /\ Root \in Clusters
  BY Constants DEF WriteOf
<1>2. store = BlankStore /\ fat = FormatFat /\ fat' = fat /\ clean' = clean
  BY DEF FormatJob, DiskWrite
<1> DEFINE Empty(st) == \A c \in Clusters, s \in Slots : ~InUse(st, c, s)
<1>3. Empty(store)
  BY <1>2, BlankIs, EmptyEntryIs DEF InUse
<1>4. CASE pending = <<WriteOf(Boot, TRUE), w2, w3>> /\ ~signature
  <2>1. Head(pending).to = Boot /\ Head(pending).what = TRUE /\ Tail(pending) = <<w2, w3>>
        /\ Len(pending) # 1
    BY <1>4 DEF WriteOf
  <2>2. signature' = TRUE /\ diskFat' = diskFat /\ store' = store /\ mode' = mode
        /\ pending' = <<w2, w3>>
    BY <1>1, <2>1 DEF DiskWrite
  <2>3. FormatJob'
    BY <1>2, <2>2 DEF FormatJob
  <2>4. Base'
    BY <1>2, <2>2 DEF Base
  <2>5. QED BY <1>3, <2>2, <2>3, <2>4
<1>5. CASE pending = <<w2, w3>> /\ signature
  <2>1. Head(pending) = w2 /\ Tail(pending) = <<w3>> /\ Len(pending) # 1
    BY <1>5
  <2>2. signature' = signature /\ diskFat' = FormatFat /\ store' = store /\ mode' = mode
        /\ pending' = <<w3>>
    BY <1>1, <2>1 DEF DiskWrite
  <2>3. FormatJob'
    BY <1>2, <1>5, <2>2 DEF FormatJob
  <2>4. Base'
    BY <1>2, <2>2, FormatFatIs DEF Base
  <2>5. QED BY <1>3, <2>2, <2>3, <2>4
<1>6. CASE pending = <<w3>> /\ signature /\ diskFat = FormatFat
  <2>1. Head(pending) = w3 /\ Tail(pending) = <<>> /\ Len(pending) = 1
    BY <1>6
  <2>2. signature' = signature /\ diskFat' = diskFat /\ store' = [store EXCEPT ![Root] = NewRoot]
        /\ mode' = "idle" /\ pending' = <<>>
    BY <1>1, <2>1 DEF DiskWrite
  <2>3. StoreOK(store')
    BY <1>1, <2>2, NewRootIs, StoreTakes DEF Base
  <2>4. store'[Root] = NewRoot
    BY <1>1, <1>2, <2>2, BlankIs
  <2>5. Tidy(store'[Root].table) /\ Headed(store'[Root].table)
        /\ \A s \in Slots : ~InUse(store', Root, s)
    BY <2>4, NewRootIs, EmptyEntryIs DEF Tidy, InUse
  <2>6. /\ Tree(own, {Root}, store', diskFat', {}, {}) /\ Reached({Root}, store', Root)
        /\ Accounted({Root}, store', diskFat', {}, {})
    BY <1>6, <2>2, <2>5, FormatFatIs, TreeOfOne
  <2>7. Directories' = {Root}
    BY <2>6, DirectoriesNext
  <2>8. Settled(own, sure, {}, {})'
    BY <2>6, <2>7 DEF Settled
  <2>9. Base'
    BY <1>2, <2>2, <2>3 DEF Base
  <2>10. \A c \in Clusters : c # Root => store'[c] = store[c]
    BY <1>2, <2>2, BlankIs
  <2>11. Empty(store')
    BY <1>3, <2>5, <2>10 DEF InUse
  <2>12. QED BY <1>2, <1>6, <1>3, <2>2, <2>8, <2>9, <2>11
<1>7. QED BY <1>4, <1>5, <1>6 DEF FormatJob

\* While the disk stays as it is, so does the tree.
LEMMA SettledSame ==
  ASSUME NEW own \in BOOLEAN, NEW sure \in BOOLEAN,
         store' = store, diskFat' = diskFat, NEW gone, NEW aside, Settled(own, sure, gone, aside)
  PROVE  Settled(own, sure, gone, aside)' /\ Directories' = Directories
<1>1. Directories' = Directories
  BY DirectoriesNow, DirectoriesNext
<1>2. QED BY <1>1 DEF Settled

LEMMA InitializeSafe ==
  ASSUME NEW own \in BOOLEAN, NEW sure \in BOOLEAN,
         Fat32Inv(own, sure), Initialize
  PROVE  Fat32Inv(own, sure)'
<1>1. /\ Base /\ pending = <<>> /\ signature' = signature /\ diskFat' = diskFat /\ store' = store
      /\ clean' = clean
      /\ IF signature THEN Settled(own, sure, {}, {}) ELSE store = BlankStore
  BY DEF Fat32Inv, Initialize
<1>2. CASE CreateFat32
  <2>1. FormatJob' /\ mode' = "format"
    BY <1>1, <1>2 DEF CreateFat32, FormatJob, NewRoot
  <2>2. Base'
    BY <1>1, <1>2, FormatFatIs DEF CreateFat32, Base
  <2>3. QED BY <2>1, <2>2 DEF Fat32Inv
<1>3. CASE LoadFat
  <2>1. fat' = diskFat' /\ mode' = "idle" /\ pending' = <<>> /\ signature'
    BY <1>1, <1>3 DEF LoadFat
  <2>2. Settled(own, sure, {}, {})'
    BY <1>1, <1>3, SettledSame DEF LoadFat
  <2>3. Base'
    BY <1>1, <2>1 DEF Base
  <2>4. QED BY <2>1, <2>2, <2>3 DEF Fat32Inv
<1>4. QED BY <1>2, <1>3 DEF Initialize

LEMMA PowerFailureSafe ==
  ASSUME NEW own \in BOOLEAN, NEW sure \in BOOLEAN,
         Spared, Fat32Inv(own, sure), PowerFailure, sure => ~Busy
  PROVE  Fat32Inv(own, sure)'
<1>1. /\ Base /\ mode' = "off" /\ pending' = <<>> /\ fat' = NoFat
      /\ clean' = (clean /\ ~Busy)
      /\ signature' = signature /\ diskFat' = diskFat /\ store' = store
  BY DEF Fat32Inv, PowerFailure
<1>2. mode \in {"idle", "write", "off"}
  BY <1>1 DEF Spared, PowerFailure, Base, Fat32Inv
<1>3. Base'
  BY <1>1, FormatFatIs DEF Base
<1>4. ~signature => store' = BlankStore
  BY <1>1, <1>2 DEF Fat32Inv
<1>5. ASSUME signature PROVE Settled(own, sure, {}, {})'
  <2>1. CASE mode # "write"
    <3>1. Settled(own, sure, {}, {})
      BY <1>2, <1>5, <2>1 DEF Fat32Inv
    <3>2. QED BY <1>1, <3>1, SettledSame
  <2>2. CASE mode = "write"
    <3>1. PICK parent, e, chain, what, done : WriteJob(own, sure, parent, e, chain, what, done)
      BY <2>2 DEF Fat32Inv
    <3>2. Tree(own, Directories, store, diskFat, {}, ToSet(chain)) /\ ToSet(chain) \cap Directories = {}
      BY <3>1 DEF WriteJob, Settled
    <3>3. Tree(own, Directories, store, diskFat, {}, {})
      BY <3>2, TreeForgotten
    <3>4. ~sure
      BY <2>2 DEF Busy, Calling
    <3>5. Directories' = Directories
      BY <1>1, DirectoriesNow, DirectoriesNext
    <3>6. QED BY <1>1, <3>3, <3>4, <3>5 DEF Settled
  <2>3. QED BY <2>1, <2>2
<1>6. QED BY <1>1, <1>3, <1>4, <1>5 DEF Fat32Inv

LEMMA StutterSafe ==
  ASSUME NEW own \in BOOLEAN, NEW sure \in BOOLEAN,
         Fat32Inv(own, sure), UNCHANGED vars
  PROVE  Fat32Inv(own, sure)'
<1>1. /\ signature' = signature /\ diskFat' = diskFat /\ store' = store /\ fat' = fat
      /\ pending' = pending /\ mode' = mode /\ clean' = clean
  BY DEF vars
<1>2. Directories' = Directories
  BY <1>1, DirectoriesNow, DirectoriesNext
<1>3. \A gone, aside : Settled(own, sure, gone, aside)' <=> Settled(own, sure, gone, aside)
  BY <1>1, <1>2 DEF Settled, RoomForNames
<1>4. Base'
  BY <1>1 DEF Fat32Inv, Base
<1>5. mode' = "format" => FormatJob'
  BY <1>1 DEF Fat32Inv, FormatJob
<1>6. ASSUME mode = "write"
      PROVE  \E parent, e, chain, what, done : WriteJob(own, sure, parent, e, chain, what, done)'
  <2>1. PICK parent, e, chain, what, done : WriteJob(own, sure, parent, e, chain, what, done)
    BY <1>6 DEF Fat32Inv
  <2>2. WriteJob(own, sure, parent, e, chain, what, done)'
    BY <1>1, <1>2, <1>3, <2>1 DEF WriteJob, Announced
  <2>3. QED BY <2>2
<1>7. ASSUME mode = "delete"
      PROVE  \E parent, slot, e, chain, done : DeleteJob(own, sure, parent, slot, e, chain, done)'
  <2>1. PICK parent, slot, e, chain, done : DeleteJob(own, sure, parent, slot, e, chain, done)
    BY <1>7 DEF Fat32Inv
  <2>2. DeleteJob(own, sure, parent, slot, e, chain, done)'
    BY <1>1, <1>2, <1>3, <2>1 DEF DeleteJob
  <2>3. QED BY <2>2
<1>8. QED BY <1>1, <1>3, <1>4, <1>5, <1>6, <1>7 DEF Fat32Inv

LEMMA DiskWriteSafe ==
  ASSUME NEW own \in BOOLEAN, NEW sure \in BOOLEAN, sure => RoomForNames,
         Fat32Inv(own, sure), DiskWrite
  PROVE  Fat32Inv(own, sure)'
<1>1. Base /\ mode \in {"format", "write", "delete"}
  BY DEF Fat32Inv, Base, DiskWrite, Busy, Calling
<1>2. CASE mode = "format"
  <2>1. FormatJob
    BY <1>2 DEF Fat32Inv
  <2>2. /\ Base'
        /\ \/ mode' = "format" /\ FormatJob'
           \/ mode' = "idle" /\ pending' = <<>> /\ signature' /\ fat' = diskFat' /\ Settled(own, sure, {}, {})'
    BY <1>1, <1>2, <2>1, FormatStep
  <2>3. QED BY <2>2 DEF Fat32Inv
<1>3. CASE mode = "write"
  <2>1. signature /\ \E parent, e, chain, what, done : WriteJob(own, sure, parent, e, chain, what, done)
    BY <1>3 DEF Fat32Inv
  <2>2. PICK parent, e, chain, what, done : WriteJob(own, sure, parent, e, chain, what, done)
    BY <2>1
  <2>3. CASE done = Len(chain) + 1
    <3>1. /\ mode' = "idle" /\ pending' = <<>> /\ fat' = diskFat' /\ signature' = signature
          /\ Settled(own, sure, {}, {})' /\ Base'
      BY <1>1, <1>3, <2>2, <2>3, WriteEnds
    <3>2. QED BY <2>1, <3>1 DEF Fat32Inv
  <2>4. CASE done # Len(chain) + 1
    <3>1. PICK next : next = done + 1
      OBVIOUS
    <3>2. /\ WriteJob(own, sure, parent, e, chain, what, next)'
          /\ mode' = "write" /\ signature' = signature /\ Base'
      BY <1>1, <1>3, <2>2, <2>4, <3>1, WriteGoesOn
    <3>3. \E p, q, r, s, t : WriteJob(own, sure, p, q, r, s, t)'
      BY <3>2
    <3>4. QED BY <2>1, <3>2, <3>3 DEF Fat32Inv
  <2>5. QED BY <2>3, <2>4
<1>4. CASE mode = "delete"
  <2>1. signature /\ \E parent, slot, e, chain, done : DeleteJob(own, sure, parent, slot, e, chain, done)
    BY <1>4 DEF Fat32Inv
  <2>2. PICK parent, slot, e, chain, done : DeleteJob(own, sure, parent, slot, e, chain, done)
    BY <2>1
  <2>3. CASE done = Len(chain) + 1
    <3>1. /\ mode' = "idle" /\ pending' = <<>> /\ fat' = diskFat' /\ signature' = signature
          /\ Settled(own, sure, {}, {})' /\ Base'
      BY <1>1, <1>4, <2>2, <2>3, DeleteEnds
    <3>2. QED BY <2>1, <3>1 DEF Fat32Inv
  <2>4. CASE done # Len(chain) + 1
    <3>1. PICK next : next = done + 1
      OBVIOUS
    <3>2. /\ DeleteJob(own, sure, parent, slot, e, chain, next)'
          /\ mode' = "delete" /\ signature' = signature /\ Base'
      BY <1>1, <1>4, <2>2, <2>4, <3>1, DeleteGoesOn
    <3>3. \E p, q, r, s, t : DeleteJob(own, sure, p, q, r, s, t)'
      BY <3>2
    <3>4. QED BY <2>1, <3>2, <3>3 DEF Fat32Inv
  <2>5. QED BY <2>3, <2>4
<1>5. QED BY <1>1, <1>2, <1>3, <1>4

-----------------------------------------------------------------------------
(* Calls.                                                                  *)

\* No directory and no entry occupies a free cluster, so free clusters may be
\* set aside.
LEMMA FreeIsOutside ==
  ASSUME NEW own \in BOOLEAN,
         NEW D, NEW st, NEW map, Tree(own, D, st, map, {}, {}), Reached(D, st, Root),
         NEW aside, \A c \in aside : map[c] = Free
  PROVE  /\ aside \cap D = {}
         /\ Tree(own, D, st, map, {}, aside)
         /\ Accounted(D, st, map, {}, {}) => Accounted(D, st, map, {}, aside)
<1>1. \A d \in D, s \in Slots : Stays(st, {}, d, s) => Held(own, st, map, d, st[d].table[s])
  BY DEF Tree
<1>2. ASSUME NEW d \in D, NEW s \in Slots, Stays(st, {}, d, s)
      PROVE  \A x \in Owned(map, st[d].table[s]) : map[x] # Free
  <2>1. Linked(map, st[d].table[s].cluster)
    BY <1>1, <1>2 DEF Held
  <2>2. QED BY <2>1, LinkedSound DEF Owned
<1>3. ASSUME NEW d \in D PROVE map[d] # Free
  <2>1. CASE d = Root
    BY <2>1, Constants DEF Tree
  <2>2. CASE d # Root
    <3>1. PICK p \in D : Child(st, p, d)
      BY <2>2, ReachedFrom
    <3>2. PICK s \in Slots : InUse(st, p, s) /\ st[p].table[s].dir /\ st[p].table[s].cluster = d
      BY <3>1 DEF Child
    <3>3. Stays(st, {}, p, s)
      BY <3>2 DEF Stays
    <3>4. map[d] = Eof
      BY <1>1, <3>2, <3>3 DEF Held
    <3>5. QED BY <3>4, Constants
  <2>3. QED BY <2>1, <2>2
<1>4. aside \cap D = {} /\ Root \notin aside
  BY <1>3, Constants DEF Tree
<1>5. \A d \in D, s \in Slots : Stays(st, {}, d, s) => Owned(map, st[d].table[s]) \cap aside = {}
  BY <1>2
<1>6. Tree(own, D, st, map, {}, aside)
  BY <1>4, <1>5 DEF Tree
<1>7. QED BY <1>4, <1>6 DEF Accounted

\* An entry may go, and its clusters be set aside.
LEMMA LetGo ==
  ASSUME NEW own \in BOOLEAN,
         NEW D, NEW st, NEW map, Tree(own, D, st, map, {}, {}), NEW parent \in D, NEW slot \in Slots,
         Stays(st, {}, parent, slot), NEW e, e = st[parent].table[slot],
         NEW aside, aside = Owned(map, e), NEW gone, gone = {<<parent, slot>>}
  PROVE  /\ Tree(own, D, st, map, gone, aside)
         /\ Accounted(D, st, map, {}, {}) => Accounted(D, st, map, gone, aside)
<1>1. \A d \in D, s \in Slots :
        Stays(st, gone, d, s) <=> Stays(st, {}, d, s) /\ (d # parent \/ s # slot)
  BY DEF Stays
<1>2. Held(own, st, map, parent, e) /\ Root \notin aside
  BY DEF Tree
<1>3. e.cluster \in aside
  <2>1. Linked(map, e.cluster)
    BY <1>2 DEF Held
  <2>2. QED BY <2>1, LinkedSound DEF Owned
<1>4. \A d \in D, s \in Slots : InUse(st, d, s) /\ <<d, s>> \in gone => st[d].table[s].cluster \in aside
  BY <1>3
<1>5. \A d \in D, s \in Slots : Stays(st, gone, d, s) =>
        /\ Held(own, st, map, d, st[d].table[s])
        /\ Owned(map, st[d].table[s]) \cap aside = {}
        /\ Root \notin Owned(map, st[d].table[s])
  <2> SUFFICES ASSUME NEW d \in D, NEW s \in Slots, Stays(st, gone, d, s)
               PROVE  /\ Held(own, st, map, d, st[d].table[s])
                      /\ Owned(map, st[d].table[s]) \cap aside = {}
                      /\ Root \notin Owned(map, st[d].table[s])
    OBVIOUS
  <2>1. Stays(st, {}, d, s) /\ (d # parent \/ s # slot)
    BY <1>1
  <2>2. Owned(map, st[d].table[s]) \cap Owned(map, st[parent].table[slot]) = {}
    BY <2>1 DEF Tree
  <2>3. QED BY <2>1, <2>2 DEF Tree
<1>6. \A d, p \in D, s, t \in Slots :
        Stays(st, gone, d, s) /\ Stays(st, gone, p, t) /\ (d # p \/ s # t) =>
          Owned(map, st[d].table[s]) \cap Owned(map, st[p].table[t]) = {}
  BY <1>1 DEF Tree
<1>7. /\ \A d \in D : Tidy(st[d].table) /\ (d \notin aside => Headed(st[d].table))
      /\ map[Root] = Eof
  BY DEF Tree
<1>8. Tree(own, D, st, map, gone, aside)
  BY <1>2, <1>4, <1>5, <1>6, <1>7 DEF Tree
<1>9. ASSUME Accounted(D, st, map, {}, {}) PROVE Accounted(D, st, map, gone, aside)
  <2>1. ASSUME NEW c \in Clusters, map[c] # Free, c # Root, c \notin aside
        PROVE  \E d \in D, s \in Slots : Stays(st, gone, d, s) /\ c \in Owned(map, st[d].table[s])
    <3>1. PICK d \in D, s \in Slots : Stays(st, {}, d, s) /\ c \in Owned(map, st[d].table[s])
      BY <1>9, <2>1 DEF Accounted
    <3>2. d # parent \/ s # slot
      BY <2>1, <3>1
    <3>3. QED BY <1>1, <3>1, <3>2
  <2>2. QED BY <2>1 DEF Accounted
<1>10. QED BY <1>8, <1>9

\* The writes of a call to the clusters of a chain.
Fills(data, chain, what) == data = [i \in 1 .. Len(chain) |-> WriteOf(chain[i], what[i])]

\* The writes of a call before the first of them.
LEMMA CallWrites ==
  ASSUME NEW chain \in Seq(Clusters), NEW n, n = Len(chain), NEW what, NEW map, NEW parent, NEW table,
         NEW data, Fills(data, chain, what),
         NEW writes, writes = Issued(chain, what, map, parent, table)
  PROVE  data \o <<WriteOf(FatNumber, map), WriteOf(parent, TableCluster(table))>>
           = Rest(writes, n + 2, 0)
<1> DEFINE w(i) == WriteOf(chain[i], what[i])
<1>1. PICK a, b : a = WriteOf(FatNumber, map) /\ b = WriteOf(parent, TableCluster(table))
  OBVIOUS
<1>2. n \in Nat
  OBVIOUS
<1>3. data = [i \in 1 .. n |-> w(i)]
  BY DEF Fills
<1>4. Rest(writes, n + 2, 0) =
        [i \in 1 .. n + 2 |-> IF i <= n THEN w(i) ELSE IF i = n + 1 THEN a ELSE b]
  <2>1. \A i \in 1 .. n + 2 : writes[0 + i] = IF i <= n THEN w(i) ELSE IF i = n + 1 THEN a ELSE b
    BY <1>1, <1>2 DEF Issued
  <2>2. n + 2 - 0 = n + 2
    BY <1>2
  <2>3. QED BY <2>1, <2>2 DEF Rest
<1> HIDE DEF w
<1>5. PICK S : \A i \in 1 .. n : w(i) \in S
  <2> DEFINE All == {w(i) : i \in 1 .. n}
  <2>1. \A i \in 1 .. n : w(i) \in All
    OBVIOUS
  <2>2. QED BY <2>1
<1>6. data \in Seq(S) /\ Len(data) = n /\ \A i \in 1 .. n : data[i] = w(i)
  BY <1>2, <1>3, <1>5
<1>7. data \o <<a, b>> = [i \in 1 .. n + 2 |-> IF i <= n THEN w(i) ELSE IF i = n + 1 THEN a ELSE b]
  BY <1>2, <1>6
<1>8. QED BY <1>1, <1>4, <1>7

\* A write() that has its clusters and has yet to issue its first write.
LEMMA WriteStarts ==
  ASSUME NEW own \in BOOLEAN, NEW sure \in BOOLEAN,
         Fat32Inv(own, sure), mode = "idle", store' = store, diskFat' = diskFat, clean' = clean,
         signature' = signature, mode' = "write",
         NEW parent \in Directories, NEW e, NEW chain, NEW n, n = Len(chain), NEW what,
         chain \in Seq(Clusters), n \in 1 .. NClusters,
         \A i, j \in 1 .. n : chain[i] = chain[j] => i = j,
         \A i \in 1 .. n : chain[i] \in FreeClusters,
         Announced(own, parent, e, chain, what),
         fat' \in Maps, Links(fat', chain[1], chain),
         \A c \in 0 .. NClusters - 1 : c \notin ToSet(chain) => fat'[c] = fat[c],
         NEW data, Fills(data, chain, what),
         pending' = data \o <<WriteOf(FatNumber, fat'),
                              WriteOf(parent, TableCluster(WithEntry(store[parent].table, e)))>>
  PROVE  Fat32Inv(own, sure)' /\ WriteJob(own, sure, parent, e, chain, what, 0)'
<1> DEFINE aside == ToSet(chain)
<1>1. /\ Base /\ signature /\ fat = diskFat
      /\ Tree(own, Directories, store, diskFat, {}, {})
      /\ sure => Accounted(Directories, store, diskFat, {}, {})
  BY DEF Fat32Inv, Settled
<1>2. \A c \in aside : diskFat[c] = Free
  BY <1>1 DEF ToSet, FreeClusters
<1>3. /\ aside \cap Directories = {}
      /\ Tree(own, Directories, store, diskFat, {}, aside)
      /\ Accounted(Directories, store, diskFat, {}, {}) => Accounted(Directories, store, diskFat, {}, aside)
  BY <1>1, <1>2, DirectoriesNow, FreeIsOutside
<1>4. Settled(own, sure, {}, aside)
  BY <1>1, <1>3 DEF Settled
<1>5. Settled(own, sure, {}, aside)' /\ Directories' = Directories
  BY <1>4, SettledSame
<1>6. n \in Nat /\ 0 \in 0 .. n + 1
  BY Constants
<1>7. pending' = Rest(Issued(chain, what, fat', parent, WithEntry(store'[parent].table, e)), n + 2, 0)
  <2>1. PICK map, table, writes : /\ map = fat' /\ table = WithEntry(store[parent].table, e)
                                  /\ writes = Issued(chain, what, map, parent, table)
    OBVIOUS
  <2>2. data \o <<WriteOf(FatNumber, map), WriteOf(parent, TableCluster(table))>>
           = Rest(writes, n + 2, 0)
    BY ONLY <2>1, chain \in Seq(Clusters), n = Len(chain), Fills(data, chain, what), CallWrites
  <2>3. QED BY <2>1, <2>2
<1>8. Announced(own, parent, e, chain, what)'
  BY DEF Announced
<1>9. \A c \in 0 .. NClusters - 1 : c \notin aside => fat'[c] = diskFat'[c]
  BY <1>1
<1>10. WriteJob(own, sure, parent, e, chain, what, 0)'
  <2>1. \A k \in 1 .. n : k <= 0 => store'[chain[k]] = what[k]
    BY <1>6
  <2>2. 0 > n => diskFat' = fat'
    BY <1>6
  <2>3. parent \in Directories' /\ aside \cap Directories' = {}
    BY <1>3, <1>5
  <2>4. QED BY <1>5, <1>6, <1>7, <1>8, <1>9, <2>1, <2>2, <2>3 DEF WriteJob
<1>11. Base'
  BY <1>1 DEF Base
<1>12. \E p, q, r, s, t : WriteJob(own, sure, p, q, r, s, t)'
  BY <1>10
<1>13. QED BY <1>1, <1>10, <1>11, <1>12 DEF Fat32Inv

\* The blocks that a write() may be given, and an entry that is to hold them.
BlocksOK(own, parent, name, blocks) ==
  /\ Len(blocks) \in Nat /\ blocks = [k \in 1 .. Len(blocks) |-> blocks[k]]
  /\ \A k \in 1 .. Len(blocks) : Sound(own, parent, name, k, blocks[k])

Puts(e, chain, what, name, blocks) ==
  /\ e.name = name /\ (e.dir <=> blocks = <<>>)
  /\ ~e.dir => Len(chain) = Len(blocks) /\ \A k \in 1 .. Len(blocks) : what[k].data = blocks[k]

\* A write() of them that is about to begin.
WriteBegun(own, sure, parent, name, blocks) ==
  \E e, chain, what :
    WriteJob(own, sure, parent, e, chain, what, 0) /\ Puts(e, chain, what, name, blocks)

\* What the search for the name and the space has shown.
LEMMA NotRefused ==
  ASSUME NEW parent, NEW name, NEW n \in Nat, n >= 1, ~WriteRefused(parent, name, n)
  PROVE  /\ \A s \in Slots \ {0} : store[parent].table[s].name # name
         /\ n <= Cardinality(FreeClusters)
         /\ FreeClusters # {} /\ FreeClusters \in SUBSET Nat /\ FreeClusters \subseteq Clusters
<1>1. FreeClusters \in SUBSET Nat /\ FreeClusters \subseteq Clusters
      /\ FreeClusters \in SUBSET (2 .. NClusters - 1)
  BY Constants DEF FreeClusters
<1>2. IsFiniteSet(FreeClusters) /\ Cardinality(FreeClusters) \in Nat
  <2>1. 2 \in Int /\ NClusters - 1 \in Int
    BY Constants
  <2>2. IsFiniteSet(2 .. NClusters - 1)
    BY ONLY <2>1, FS_Interval
  <2>3. QED BY <1>1, <2>2, FS_Subset, FS_CardinalityType
<1>3. n <= Cardinality(FreeClusters)
  BY <1>2 DEF WriteRefused
<1>4. FreeClusters # {}
  BY <1>2, <1>3, FS_EmptySet
<1>5. \A s \in Slots \ {0} : store[parent].table[s].name # name
  BY DEF WriteRefused, SlotsNamed
<1>6. QED BY <1>1, <1>3, <1>4, <1>5

LEMMA ConcatSmall ==
  ASSUME NEW x, NEW y, NEW z
  PROVE  <<x>> \o <<y, z>> = <<x, y, z>>
<1> DEFINE S == {x, y, z}
           s == <<x>> \o <<y, z>>
<1>1. <<x>> \in Seq(S) /\ <<y, z>> \in Seq(S) /\ <<x, y, z>> \in Seq(S)
  OBVIOUS
<1>2. s \in Seq(S) /\ Len(s) = 3 /\ s[1] = x /\ s[2] = y /\ s[3] = z
  BY <1>1
<1> HIDE DEF s
<1>3. \A i \in 1 .. 3 : s[i] = <<x, y, z>>[i]
  BY <1>2
<1>4. Len(<<x, y, z>>) = 3
  OBVIOUS
<1>5. QED BY <1>1, <1>2, <1>3, <1>4, SeqEqual DEF s

LEMMA WriteFolderSafe ==
  ASSUME NEW own \in BOOLEAN, NEW sure \in BOOLEAN,
         BlankStack, Fat32Inv(own, sure), mode = "idle", store' = store, diskFat' = diskFat, clean' = clean,
         signature' = signature, mode' = "write",
         NEW parent \in Directories, NEW name \in Names,
         ~WriteRefused(parent, name, 1), WriteFolder(parent, name)
  PROVE  Fat32Inv(own, sure)' /\ WriteBegun(own, sure, parent, name, <<>>)'
<1>1. PICK c \in {Least(FreeClusters)}, stale \in StaleTables :
        /\ fat' = [fat EXCEPT ![c] = Eof]
        /\ pending' =
             << WriteOf(c, TableCluster(InitDirectoryTable(stale, name, parent))),
                WriteOf(FatNumber, fat'),
                WriteOf(parent, TableCluster(WithEntry(store[parent].table,
                  [used |-> TRUE, name |-> name, dir |-> TRUE, cluster |-> c, length |-> 0]))) >>
  BY DEF WriteFolder
<1> DEFINE e == [used |-> TRUE, name |-> name, dir |-> TRUE, cluster |-> c, length |-> 0]
           chain == <<c>>
           inner == InitDirectoryTable(stale, name, parent)
           what == <<TableCluster(inner)>>
           data == [i \in 1 .. 1 |-> WriteOf(chain[i], what[i])]
<1>2. /\ \A s \in Slots \ {0} : store[parent].table[s].name # name
      /\ FreeClusters # {} /\ FreeClusters \in SUBSET Nat /\ FreeClusters \subseteq Clusters
  <2>1. 1 \in Nat /\ 1 >= 1
    OBVIOUS
  <2>2. QED BY <2>1, NotRefused
<1>3. c \in FreeClusters /\ c \in Clusters
  <2>1. c = Least(FreeClusters)
    OBVIOUS
  <2>2. QED BY <1>2, <2>1, LeastIs
<1>4. Base /\ fat \in Maps /\ parent \in Clusters
  BY DirectoriesNow DEF Fat32Inv, Base
<1>5. /\ inner \in [Slots -> Entry] /\ Headed(inner)
      /\ \A s \in Slots \ {0} : inner[s] = EmptyEntry
  <2>1. stale \in [Slots -> Entry] /\ \A s \in Slots \ {0} : stale[s] = EmptyEntry
    BY <1>1, Fat32Assumption DEF BlankStack
  <2>2. /\ inner \in [Slots -> Entry] /\ Headed(inner)
        /\ \A s \in Slots \ {0} : inner[s] = stale[s]
    BY <1>4, <2>1, InitIs
  <2>3. QED BY <2>1, <2>2
<1>6. TableCluster(inner).table = inner
  BY DEF TableCluster
<1>7. e \in Entry /\ e.used /\ e.name \in Names /\ e.cluster = c /\ e.dir /\ e.name = name /\ e.length = 0
  BY <1>3, Constants DEF Entry
<1> HIDE DEF inner, e
<1>8. /\ chain \in Seq(Clusters) /\ Len(chain) = 1 /\ chain[1] = c /\ ToSet(chain) = {c}
      /\ 1 \in 1 .. NClusters /\ what[1] = TableCluster(inner)
      /\ \A i \in 1 .. 1 : i = 1
  BY <1>3, Constants DEF ToSet
<1>9. data \o <<WriteOf(FatNumber, fat'), WriteOf(parent, TableCluster(WithEntry(store[parent].table, e)))>>
        = pending'
  <2>1. PICK x, y, z : /\ x = WriteOf(c, TableCluster(inner)) /\ y = WriteOf(FatNumber, fat')
                       /\ z = WriteOf(parent, TableCluster(WithEntry(store[parent].table, e)))
    OBVIOUS
  <2>2. data = <<x>>
    <3>1. \A i \in 1 .. 1 : WriteOf(chain[i], what[i]) = x
      BY <1>8, <2>1
    <3>2. data = [i \in 1 .. 1 |-> x]
      BY <3>1, Zenon
    <3>3. QED BY <3>2
  <2>3. <<x>> \o <<y, z>> = <<x, y, z>>
    BY ConcatSmall
  <2>4. pending' = <<x, y, z>>
    BY <1>1, <2>1 DEF inner, e
  <2>5. QED BY <2>1, <2>2, <2>3, <2>4
<1> HIDE DEF chain, what
<1>10. fat' \in Maps /\ fat'[c] = Eof /\ \A x \in 0 .. NClusters - 1 : x # c => fat'[x] = fat[x]
  BY <1>1, <1>3, <1>4, Constants DEF Maps
<1>11. Links(fat', chain[1], chain)
  BY <1>8, <1>10, Constants DEF Links
<1>12. Announced(own, parent, e, chain, what)
  BY <1>2, <1>5, <1>6, <1>7, <1>8 DEF Announced
<1>13. \A x \in 0 .. NClusters - 1 : x \notin ToSet(chain) => fat'[x] = fat[x]
  BY <1>8, <1>10
<1>14. \A i \in 1 .. 1 : chain[i] \in FreeClusters
  BY <1>3, <1>8
<1> HIDE DEF data
<1>15. Fills(data, chain, what)
  BY <1>8 DEF Fills, data
<1>16. \A i, j \in 1 .. 1 : chain[i] = chain[j] => i = j
  BY <1>8
<1>17. Fat32Inv(own, sure)' /\ WriteJob(own, sure, parent, e, chain, what, 0)'
  BY <1>8, <1>9, <1>10, <1>11, <1>12, <1>13, <1>14, <1>15, <1>16, WriteStarts
<1>18. Puts(e, chain, what, name, <<>>)
  BY <1>7 DEF Puts
<1>19. \E x, y, z : WriteJob(own, sure, parent, x, y, z, 0)' /\ Puts(x, y, z, name, <<>>)
  BY <1>17, <1>18
<1>20. QED BY <1>17, <1>19 DEF WriteBegun

LEMMA WriteFileSafe ==
  ASSUME NEW own \in BOOLEAN, NEW sure \in BOOLEAN,
         Fat32Inv(own, sure), mode = "idle", store' = store, diskFat' = diskFat, clean' = clean,
         signature' = signature, mode' = "write",
         NEW parent \in Directories, NEW name \in Names, NEW n \in Nat, n >= 1,
         NEW blocks, BlocksOK(own, parent, name, blocks), n = Len(blocks), blocks # <<>>,
         ~WriteRefused(parent, name, n), WriteFile(parent, name, blocks)
  PROVE  Fat32Inv(own, sure)' /\ WriteBegun(own, sure, parent, name, blocks)'
<1>0. PICK taken : taken = Taken(n)
  OBVIOUS
<1> DEFINE what == [i \in 1 .. n |-> DataCluster(blocks[i])]
           data == [i \in 1 .. n |-> WriteOf(taken[i], DataCluster(blocks[i]))]
           e == [used |-> TRUE, name |-> name, dir |-> FALSE, cluster |-> taken[1], length |-> n]
<1>1. \A k \in 1 .. n : Sound(own, parent, name, k, blocks[k])
  BY DEF BlocksOK
<1>2. /\ fat' = Chained(taken)
      /\ pending' = data \o <<WriteOf(FatNumber, fat'),
                              WriteOf(parent, TableCluster(WithEntry(store[parent].table, e)))>>
  BY <1>0 DEF WriteFile
<1>3. /\ \A s \in Slots \ {0} : store[parent].table[s].name # name
      /\ n <= Cardinality(FreeClusters)
  BY NotRefused
<1>4. /\ taken \in Seq(Clusters) /\ Len(taken) = n /\ n \in 1 .. NClusters
      /\ \A i \in 1 .. n : taken[i] \in FreeClusters
      /\ \A i, j \in 1 .. n : taken[i] = taken[j] => i = j
  BY <1>0, <1>3, TakenSound
<1>5. fat \in Maps
  BY DEF Fat32Inv, Base
<1>6. /\ fat' \in Maps
      /\ Links(fat', taken[1], taken)
      /\ \A c \in 0 .. NClusters - 1 : c \notin ToSet(taken) => fat'[c] = fat[c]
  BY <1>2, <1>4, <1>5, ChainedSound
<1>7. taken[1] \in Clusters
  BY <1>4
<1>8. /\ e \in Entry /\ e.used /\ e.name = name /\ ~e.dir /\ e.cluster = taken[1] /\ e.length = n
  BY <1>7, Constants DEF Entry
<1>9. \A k \in 1 .. n : what[k].table = BlankTable /\ what[k].data = blocks[k]
  BY DEF DataCluster
<1>10. Fills(data, taken, what)
  BY <1>4 DEF Fills
<1> HIDE DEF e, what, data
<1>11. Announced(own, parent, e, taken, what)
  <2>1. /\ \A k \in 1 .. Len(taken) : what[k].table \in [Slots -> Entry]
        /\ \A k \in 1 .. Len(taken) : Sound(own, parent, name, k, what[k].data)
    BY <1>1, <1>4, <1>9, BlankIs
  <2>2. QED BY <1>3, <1>4, <1>8, <2>1 DEF Announced
<1>12. Fat32Inv(own, sure)' /\ WriteJob(own, sure, parent, e, taken, what, 0)'
  BY <1>2, <1>4, <1>6, <1>10, <1>11, WriteStarts
<1>13. Puts(e, taken, what, name, blocks)
  BY <1>4, <1>8, <1>9 DEF Puts
<1>14. \E x, y, z : WriteJob(own, sure, parent, x, y, z, 0)' /\ Puts(x, y, z, name, blocks)
  BY <1>12, <1>13
<1>15. QED BY <1>12, <1>14 DEF WriteBegun

\* A delete() that has found its entry and has yet to issue its first write.
LEMMA DeleteStarts ==
  ASSUME NEW own \in BOOLEAN, NEW sure \in BOOLEAN,
         Fat32Inv(own, sure), mode = "idle", store' = store, diskFat' = diskFat, clean' => clean,
         clean' \in BOOLEAN, signature' = signature, mode' = "delete",
         NEW parent \in Directories, NEW slot \in Slots \ {0}, NEW e, e = store[parent].table[slot],
         e.used, NEW chain, chain = Chain(diskFat, e.cluster),
         e.dir => Len(chain) = 1 /\ \A s \in Slots : ~InUse(store, e.cluster, s),
         fat' = Released(chain),
         pending' = [i \in DOMAIN chain |-> Zeroed(chain[i])] \o
                      <<WriteOf(FatNumber, fat'),
                        WriteOf(parent, TableCluster(WithoutEntry(store[parent].table, slot)))>>
  PROVE  Fat32Inv(own, sure)' /\ DeleteJob(own, sure, parent, slot, e, chain, 0)'
<1> DEFINE aside == ToSet(chain)
           gone == {<<parent, slot>>}
           n == Len(chain)
           zeros == [k \in 1 .. n |-> ZeroCluster]
           data == [i \in DOMAIN chain |-> Zeroed(chain[i])]
<1>1. /\ Base /\ signature /\ fat = diskFat /\ fat \in Maps
      /\ Tree(own, Directories, store, diskFat, {}, {})
      /\ sure => Accounted(Directories, store, diskFat, {}, {})
      /\ slot \in Slots
  BY DEF Fat32Inv, Settled, Base
<1>2. InUse(store, parent, slot) /\ Stays(store, {}, parent, slot)
  BY DEF InUse, Stays
<1>3. Held(own, store, diskFat, parent, e)
  BY <1>1, <1>2 DEF Tree
<1>4. Linked(diskFat, e.cluster) /\ (e.dir => diskFat[e.cluster] = Eof)
  BY <1>3 DEF Held
<1>5. Links(diskFat, e.cluster, chain)
  BY <1>4 DEF Linked
<1>6. /\ chain \in Seq(Clusters) /\ n \in 1 .. NClusters /\ n \in Nat /\ chain[1] = e.cluster
      /\ DOMAIN chain = 1 .. n /\ 0 \in 0 .. n + 1 /\ ~(0 > n)
      /\ \A k \in 1 .. n : chain[k] \in Clusters /\ chain[k] # Boot
  <2>1. chain \in Seq(Clusters) /\ n \in 1 .. NClusters /\ chain[1] = e.cluster
    BY <1>5 DEF Links
  <2>2. n \in Nat /\ DOMAIN chain = 1 .. n
    BY <2>1, LenProperties
  <2>3. \A k \in 1 .. n : chain[k] \in Clusters
    BY <2>1, ElementOfSeq
  <2>4. \A k \in 1 .. n : chain[k] # Boot
    BY <2>3, Constants
  <2> HIDE DEF n
  <2>5. 0 \in 0 .. n + 1 /\ ~(0 > n)
    BY <2>2
  <2>6. QED BY <2>1, <2>2, <2>3, <2>4, <2>5
<1>7. aside = Owned(diskFat, e)
  BY DEF Owned
<1>8. /\ Tree(own, Directories, store, diskFat, gone, aside)
      /\ Accounted(Directories, store, diskFat, {}, {}) => Accounted(Directories, store, diskFat, gone, aside)
  BY <1>1, <1>2, <1>7, LetGo
<1>9. Settled(own, sure, gone, aside)
  BY <1>1, <1>8 DEF Settled
<1>10. Settled(own, sure, gone, aside)' /\ Directories' = Directories
  BY <1>9, SettledSame
<1>11. ASSUME ~e.dir PROVE aside \cap Directories = {}
  <2>1. SUFFICES ASSUME NEW d \in Directories PROVE d \notin Owned(diskFat, store[parent].table[slot])
    BY <1>7
  <2>2. ~store[parent].table[slot].dir
    BY <1>11
  <2>3. QED BY ONLY <1>1, <1>2, <2>2, parent \in Directories, d \in Directories, DirectoriesNow, DirNotInFile
<1>12. parent \notin aside
  <2>1. CASE e.dir
    <3>1. parent # e.cluster
      BY <1>2, <2>1 DEF InUse
    <3>2. DOMAIN chain = 1 .. 1
      BY <1>6, <2>1
    <3>3. SUFFICES ASSUME NEW x \in aside PROVE x = e.cluster
      BY <3>1
    <3>4. PICK i \in DOMAIN chain : x = chain[i]
      BY DEF ToSet
    <3>5. i = 1
      BY ONLY <3>2, i \in DOMAIN chain
    <3>6. QED BY <1>6, <3>4, <3>5
  <2>2. CASE ~e.dir
    BY <1>11, <2>2
  <2>3. QED BY <2>1, <2>2
<1>13. /\ fat' \in Maps
       /\ \A c \in 0 .. NClusters - 1 : fat'[c] = IF c \in aside THEN Free ELSE diskFat'[c]
  <2>1. DOMAIN fat = 0 .. NClusters - 1 /\ \A c \in 0 .. NClusters - 1 : fat[c] \in 0 .. Beyond
    BY <1>1 DEF Maps
  <2>2. fat' = [c \in 0 .. NClusters - 1 |-> IF c \in aside THEN Free ELSE fat[c]]
    BY <2>1 DEF Released
  <2>3. \A c \in 0 .. NClusters - 1 : fat'[c] = IF c \in aside THEN Free ELSE diskFat'[c]
    BY <1>1, <2>2
  <2>4. QED BY <2>1, <2>2, <2>3, Constants DEF Maps
<1>14. Fills(data, chain, zeros)
  <2>1. \A i \in 1 .. n : Zeroed(chain[i]) = WriteOf(chain[i], zeros[i])
    BY <1>6 DEF Zeroed
  <2>2. QED BY <1>6, <2>1 DEF Fills
<1>15. pending' = Rest(Issued(chain, zeros, fat', parent, WithoutEntry(store'[parent].table, slot)), n + 2, 0)
  <2>1. PICK map, table, writes : /\ map = fat' /\ table = WithoutEntry(store[parent].table, slot)
                                  /\ writes = Issued(chain, zeros, map, parent, table)
    OBVIOUS
  <2> HIDE DEF n, data, zeros
  <2>2. data \o <<WriteOf(FatNumber, map), WriteOf(parent, TableCluster(table))>>
           = Rest(writes, n + 2, 0)
    <3>1. n = Len(chain) /\ chain \in Seq(Clusters)
      BY <1>6 DEF n
    <3>2. QED BY ONLY <1>14, <2>1, <3>1, CallWrites
  <2>3. QED BY <2>1, <2>2 DEF data
<1>16. DeleteJob(own, sure, parent, slot, e, chain, 0)'
  <2> HIDE DEF n, aside, gone, data
  <2>1. n = Len(chain) /\ aside = ToSet(chain) /\ gone = {<<parent, slot>>}
        /\ zeros = [k \in 1 .. Len(chain) |-> ZeroCluster]
    BY DEF n, aside, gone
  <2> HIDE DEF zeros
  <2>2. parent \in Directories' /\ InUse(store', parent, slot) /\ e = store'[parent].table[slot]
    BY <1>2, <1>10
  <2>3. /\ e.dir => n = 1 /\ \A s \in Slots : ~InUse(store', e.cluster, s)
        /\ ~e.dir => aside \cap Directories' = {}
    BY <1>10, <1>11, <2>1
  <2>4. Links(diskFat', e.cluster, chain) /\ (e.dir => diskFat'[e.cluster] = Eof)
    BY <1>4, <1>5
  <2>5. Held(own, store', diskFat', parent, e)
    BY <1>3
  <2>6. /\ parent \in Directories' /\ slot \in Slots \ {0} /\ parent \notin aside
        /\ InUse(store', parent, slot) /\ e = store'[parent].table[slot]
        /\ chain \in Seq(Clusters) /\ Len(chain) \in 1 .. NClusters /\ chain[1] = e.cluster
        /\ 0 \in 0 .. Len(chain) + 1 /\ ~(0 > Len(chain)) /\ ~(0 > 0)
    <3>1. Len(chain) \in 1 .. NClusters /\ 0 \in 0 .. Len(chain) + 1 /\ ~(0 > Len(chain))
      BY <1>6, <2>1
    <3>2. ~(0 > 0) /\ slot \in Slots \ {0} /\ parent \notin aside /\ chain \in Seq(Clusters)
          /\ chain[1] = e.cluster
      BY <1>6, <1>12
    <3>3. QED BY <2>2, <3>1, <3>2
  <2>7. pending' = Rest(Issued(chain, [k \in 1 .. Len(chain) |-> ZeroCluster], fat', parent,
                               WithoutEntry(store'[parent].table, slot)), Len(chain) + 2, 0)
    BY <1>15, <2>1
  <2>8. /\ e.dir => Len(chain) = 1 /\ \A s \in Slots : ~InUse(store', e.cluster, s)
        /\ ~e.dir => ToSet(chain) \cap Directories' = {}
        /\ \A c \in 0 .. NClusters - 1 : fat'[c] = IF c \in ToSet(chain) THEN Free ELSE diskFat'[c]
        /\ Settled(own, sure, {<<parent, slot>>}, ToSet(chain))'
    BY <1>10, <1>13, <2>1, <2>3
  <2>9. QED BY <2>1, <2>4, <2>5, <2>6, <2>7, <2>8 DEF DeleteJob
<1>17. Base'
  BY <1>1, <1>13 DEF Base
<1>18. \E p, q, r, s, t : DeleteJob(own, sure, p, q, r, s, t)'
  BY <1>16
<1>19. QED BY <1>1, <1>16, <1>17, <1>18 DEF Fat32Inv

\* A delete() of that name that is about to begin.
DeleteBegun(own, sure, parent, name) ==
  \E slot, e, chain : DeleteJob(own, sure, parent, slot, e, chain, 0) /\ e.name = name

LEMMA DeleteSafe ==
  ASSUME NEW own \in BOOLEAN, NEW sure \in BOOLEAN,
         Fat32Inv(own, sure), NEW parent \in Directories, NEW name \in Names,
         ~Misjudged(parent, name), Delete(parent, name)
  PROVE  /\ Fat32Inv(own, sure)'
         /\ \/ DeleteRefused(parent, name) /\ UNCHANGED vars
            \/ /\ ~DeleteRefused(parent, name) /\ mode' = "delete"
               /\ UNCHANGED <<signature, diskFat, store>>
               /\ DeleteBegun(own, sure, parent, name)'
<1> DEFINE table == store[parent].table
           named == SlotsNamed(table, name)
           slot == Least(named)
           e == table[slot]
           chain == IF e.dir THEN <<e.cluster>> ELSE ChainFrom(fat)[e.cluster]
           inner == store[e.cluster].table
<1>1. CASE DeleteRefused(parent, name) /\ UNCHANGED vars
  BY <1>1, StutterSafe
<1>2. CASE ~(DeleteRefused(parent, name) /\ UNCHANGED vars)
  <2>1. /\ mode = "idle" /\ ~DeleteRefused(parent, name) /\ fat' = Released(chain)
        /\ pending' = [i \in DOMAIN chain |-> Zeroed(chain[i])] \o
             << WriteOf(FatNumber, fat'), WriteOf(parent, TableCluster(WithoutEntry(table, slot))) >>
        /\ mode' = "delete" /\ clean' = (clean /\ (e.dir => ReallyEmpty(inner)))
        /\ signature' = signature /\ diskFat' = diskFat /\ store' = store
    BY <1>2 DEF Delete
  <2>2. named # {} /\ (e.dir => LooksEmpty(inner))
    BY <2>1 DEF DeleteRefused
  <2>3. slot \in Slots \ {0} /\ e.name = name
    <3>1. named \in SUBSET Nat
      BY Constants DEF SlotsNamed
    <3>2. slot \in named
      BY <2>2, <3>1, LeastIs
    <3>3. QED BY <3>2 DEF SlotsNamed
  <2> HIDE DEF slot
  <2>4. /\ Tree(own, Directories, store, diskFat, {}, {}) /\ fat = diskFat
    BY <2>1 DEF Fat32Inv, Settled
  <2>5. e.used
    <3>1. Tidy(table)
      BY <2>4 DEF Tree
    <3>2. name # NoName
      BY Fat32Assumption
    <3>3. QED BY <2>3, <3>1, <3>2, EmptyEntryIs DEF Tidy
  <2>6. Stays(store, {}, parent, slot)
    BY <2>3, <2>5 DEF Stays, InUse
  <2>7. Held(own, store, diskFat, parent, e)
    BY <2>3, <2>4, <2>6 DEF Tree
  <2>8. ASSUME e.dir
        PROVE  Chain(diskFat, e.cluster) = <<e.cluster>> /\ \A s \in Slots : ~InUse(store, e.cluster, s)
    <3>1. e \in EntriesOf(parent)
      BY <2>3, <2>5 DEF EntriesOf, UsedSlots
    <3>2. ReallyEmpty(inner)
      BY <2>2, <2>3, <2>8, <3>1 DEF Misjudged
    <3>3. diskFat[e.cluster] = Eof /\ e.cluster \in Clusters
      BY <2>7, <2>8, LinkedSound DEF Held
    <3>4. Links(diskFat, e.cluster, <<e.cluster>>)
      BY <3>3, Constants DEF Links
    <3>5. Chain(diskFat, e.cluster) = <<e.cluster>>
      BY <3>4, LinkedIs
    <3>6. QED BY <3>2, <3>5 DEF ReallyEmpty, InUse
  <2>9. chain = Chain(diskFat, e.cluster)
    BY <2>4, <2>8 DEF Chain
  <2>10. e.dir => Len(chain) = 1 /\ \A s \in Slots : ~InUse(store, e.cluster, s)
    BY <2>8
  <2>11. (clean' => clean) /\ clean' \in BOOLEAN
    BY <2>1 DEF Fat32Inv, Base
  <2> HIDE DEF chain
  <2>12. PICK x, y, k : x = e /\ y = chain /\ k = slot
    OBVIOUS
  <2>13. /\ x = store[parent].table[k] /\ x.used /\ k \in Slots \ {0} /\ x.name = name /\ y = Chain(diskFat, x.cluster)
         /\ x.dir => Len(y) = 1 /\ \A s \in Slots : ~InUse(store, x.cluster, s)
         /\ fat' = Released(y)
         /\ pending' = [i \in DOMAIN y |-> Zeroed(y[i])] \o
              <<WriteOf(FatNumber, fat'),
                WriteOf(parent, TableCluster(WithoutEntry(store[parent].table, k)))>>
    BY <2>1, <2>3, <2>5, <2>9, <2>10, <2>12
  <2>14. Fat32Inv(own, sure)' /\ DeleteJob(own, sure, parent, k, x, y, 0)'
    BY <2>1, <2>11, <2>13, DeleteStarts
  <2>15. \E q, r, s : DeleteJob(own, sure, parent, q, r, s, 0)' /\ r.name = name
    BY <2>13, <2>14
  <2>16. QED BY <2>1, <2>14, <2>15 DEF DeleteBegun
<1>3. QED BY <1>1, <1>2

LEMMA WriteSafe ==
  ASSUME NEW own \in BOOLEAN, NEW sure \in BOOLEAN,
         BlankStack, Fat32Inv(own, sure), NEW parent \in Directories, NEW name \in Names,
         NEW blocks, BlocksOK(own, parent, name, blocks), Write(parent, name, blocks)
  PROVE  /\ Fat32Inv(own, sure)'
         /\ \/ WriteRefused(parent, name, ClustersFor(blocks)) /\ UNCHANGED vars
            \/ /\ ~WriteRefused(parent, name, ClustersFor(blocks)) /\ mode' = "write"
               /\ UNCHANGED <<signature, diskFat, store, clean>>
               /\ WriteBegun(own, sure, parent, name, blocks)'
<1> DEFINE n == Len(blocks)
<1>1. n \in Nat /\ blocks = [i \in 1 .. n |-> blocks[i]]
  BY DEF BlocksOK
<1>2. blocks = <<>> <=> n = 0
  <2>1. n = 0 => blocks = <<>>
    <3>1. n = 0 => 1 .. n = {}
      BY <1>1
    <3>2. QED BY <1>1, <3>1
  <2>2. Len(<<>>) = 0
    OBVIOUS
  <2>3. QED BY <2>1, <2>2
<1>3. ClustersFor(blocks) = IF blocks = <<>> THEN 1 ELSE n
  BY DEF ClustersFor
<1>4. CASE WriteRefused(parent, name, ClustersFor(blocks)) /\ UNCHANGED vars
  BY <1>4, StutterSafe
<1>5. CASE ~(WriteRefused(parent, name, ClustersFor(blocks)) /\ UNCHANGED vars)
  <2>1. /\ mode = "idle" /\ ~WriteRefused(parent, name, ClustersFor(blocks)) /\ mode' = "write"
        /\ IF blocks = <<>> THEN WriteFolder(parent, name) ELSE WriteFile(parent, name, blocks)
        /\ signature' = signature /\ diskFat' = diskFat /\ store' = store /\ clean' = clean
    BY <1>5 DEF Write
  <2>2. CASE blocks = <<>>
    <3>1. ~WriteRefused(parent, name, 1) /\ WriteFolder(parent, name)
      BY <1>3, <2>1, <2>2
    <3>2. Fat32Inv(own, sure)' /\ WriteBegun(own, sure, parent, name, <<>>)'
      BY <2>1, <3>1, WriteFolderSafe
    <3>3. QED BY <2>1, <2>2, <3>2
  <2>3. CASE blocks # <<>>
    <3>1. n >= 1 /\ ~WriteRefused(parent, name, n) /\ WriteFile(parent, name, blocks)
      BY <1>1, <1>2, <1>3, <2>1, <2>3
    <3>2. Fat32Inv(own, sure)' /\ WriteBegun(own, sure, parent, name, blocks)'
      BY <1>1, <2>1, <2>3, <3>1, WriteFileSafe
    <3>3. QED BY <2>1, <3>2
  <2>4. QED BY <2>2, <2>3
<1>6. QED BY <1>4, <1>5

\* What a caller of the driver alone writes.
LEMMA WrittenOK ==
  ASSUME NEW parent, NEW name, NEW n \in Lengths \cup {0}, NEW own \in BOOLEAN
  PROVE  BlocksOK(own, parent, name, Written(parent, name, n))
<1> DEFINE blocks == Written(parent, name, n)
<1>1. n \in Nat /\ blocks = [i \in 1 .. n |-> <<parent, name, i>>]
  BY Fat32Assumption DEF Written
<1>2. Len(blocks) = n /\ \A k \in 1 .. n : blocks[k] = <<parent, name, k>>
  BY <1>1
<1>3. \A k : <<parent, name, k>> # <<>>
  <2>1. Len(<<>>) = 0 /\ \A k : Len(<<parent, name, k>>) = 3
    OBVIOUS
  <2>2. QED BY <2>1
<1>4. blocks = [k \in 1 .. n |-> blocks[k]]
  BY <1>1
<1> HIDE DEF blocks
<1>5. \A k \in 1 .. n : Sound(own, parent, name, k, blocks[k])
  BY <1>2, <1>3 DEF Sound, Nobody
<1>6. QED BY <1>1, <1>2, <1>4, <1>5 DEF BlocksOK, blocks

-----------------------------------------------------------------------------
(* What follows.                                                           *)

\* The files are what the driver's callers have written, and nothing is lost
\* as long as NoLeaks says so, in tables with room for every name.
DriverInv ==
  /\ Fat32Inv(TRUE, FALSE)
  /\ clean /\ RoomForNames => Fat32Inv(TRUE, TRUE)

LEMMA InitSafe ==
  ASSUME NEW own \in BOOLEAN, NEW sure \in BOOLEAN, Init
  PROVE  Fat32Inv(own, sure)
<1>1. store = BlankStore /\ StoreOK(store)
  BY BlankIs DEF Init, BlankStore
<1>2. Base
  BY <1>1, FormatFatIs DEF Init, Base
<1>3. QED BY <1>1, <1>2 DEF Init, Fat32Inv

CarefulNext == Initialize \/ DiskWrite \/ PowerFailure \/ CarefulCalls

LEMMA StepSafe ==
  ASSUME NEW own \in BOOLEAN, NEW sure \in BOOLEAN,
         BlankStack, Spared, Fat32Inv(own, sure), [CarefulNext]_vars,
         sure => RoomForNames /\ (PowerFailure => ~Busy)
  PROVE  Fat32Inv(own, sure)'
<1>1. CASE CarefulCalls
  <2>1. PICK parent \in Directories, name \in Names :
          \/ \E n \in Lengths \cup {0} : Write(parent, name, Written(parent, name, n))
          \/ ~Misjudged(parent, name) /\ Delete(parent, name)
    BY <1>1 DEF CarefulCalls
  <2>2. CASE \E n \in Lengths \cup {0} : Write(parent, name, Written(parent, name, n))
    <3>1. PICK n \in Lengths \cup {0} : Write(parent, name, Written(parent, name, n))
      BY <2>2
    <3>2. PICK blocks : blocks = Written(parent, name, n) /\ BlocksOK(own, parent, name, blocks)
      BY WrittenOK
    <3>3. QED BY <3>1, <3>2, WriteSafe
  <2>3. QED BY <2>1, <2>2, DeleteSafe
<1>2. QED BY <1>1, InitializeSafe, DiskWriteSafe, PowerFailureSafe, StutterSafe DEF CarefulNext

\* Nothing that was lost is found again.
LEMMA CleanStep ==
  ASSUME [CarefulNext]_vars, clean \in BOOLEAN, clean'
  PROVE  clean /\ (PowerFailure => ~Busy)
BY DEF CarefulNext, Initialize, DiskWrite, PowerFailure, CarefulCalls, Write, Delete, vars

LEMMA DriverStep ==
  ASSUME BlankStack, Spared, DriverInv, [CarefulNext]_vars
  PROVE  DriverInv'
<1>1. Fat32Inv(TRUE, FALSE)'
  BY StepSafe DEF DriverInv
<1>2. ASSUME clean', RoomForNames PROVE Fat32Inv(TRUE, TRUE)'
  <2>1. clean \in BOOLEAN
    BY DEF DriverInv, Fat32Inv, Base
  <2>2. clean /\ (PowerFailure => ~Busy)
    BY <1>2, <2>1, CleanStep
  <2>3. QED BY <1>2, <2>2, StepSafe DEF DriverInv
<1>3. RoomForNames' <=> RoomForNames
  BY DEF RoomForNames
<1>4. QED BY <1>1, <1>2, <1>3 DEF DriverInv

\* The tree is a tree at every moment that a power failure may choose.
THEOREM TreeSafe == Sheltered => (CarefulSpec => []DriverInv)
<1> SUFFICES ASSUME Sheltered PROVE CarefulSpec => []DriverInv
  OBVIOUS
<1>1. DriverInv /\ [CarefulNext]_vars => DriverInv'
  BY DriverStep DEF Sheltered, Spared, PowerFailure
<1>2. Init => DriverInv
  BY InitSafe DEF DriverInv
<1>3. QED BY <1>1, <1>2, PTL DEF CarefulSpec, CarefulNext

\* The table of an idle or resting disk, for what is said of it below.
LEMMA TreeAtRest ==
  ASSUME NEW own \in BOOLEAN, NEW sure \in BOOLEAN,
         Fat32Inv(own, sure), mode \in {"idle", "off", "write"}, signature
  PROVE  \E aside : Tree(own, Directories, store, diskFat, {}, aside)
<1>1. CASE mode = "write"
  BY <1>1 DEF Fat32Inv, WriteJob, Settled
<1>2. CASE mode # "write"
  BY <1>2 DEF Fat32Inv, Settled
<1>3. QED BY <1>1, <1>2

LEMMA EntryHasSlot ==
  ASSUME NEW d, NEW e \in EntriesOf(d)
  PROVE  \E s \in Slots : Stays(store, {}, d, s) /\ e = store[d].table[s]
BY DEF EntriesOf, UsedSlots, Stays, InUse

\* What an entry holds that is held.
LEMMA HeldIsWhole ==
  ASSUME NEW own \in BOOLEAN,
         NEW d, NEW e, Held(own, store, diskFat, d, e)
  PROVE  /\ Whole(e)
         /\ ~e.dir => /\ Blocks(e) = [k \in 1 .. e.length |-> store[Chain(diskFat, e.cluster)[k]].data]
                      /\ e.length \in Nat
                      /\ BlocksOK(own, d, e.name, Blocks(e)) /\ Len(Blocks(e)) = e.length
                      /\ Blocks(e) # <<>>
<1>1. CASE e.dir
  BY <1>1 DEF Held, Whole
<1>2. CASE ~e.dir
  <2> DEFINE chain == Chain(diskFat, e.cluster)
             n == Len(chain)
             blocks == [k \in DOMAIN chain |-> store[chain[k]].data]
  <2>1. Linked(diskFat, e.cluster) /\ n = e.length
        /\ \A k \in 1 .. n : Sound(own, d, e.name, k, store[chain[k]].data)
    BY <1>2 DEF Held
  <2>2. chain \in Seq(Clusters) /\ n \in Nat /\ ToSet(chain) \subseteq Clusters
    BY <2>1, LinkedSound
  <2>3. DOMAIN chain = 1 .. n
    BY <2>2, LenProperties
  <2>4. DiskChain(e) = chain /\ Blocks(e) = blocks
    BY <1>2 DEF DiskChain, Chain, Blocks
  <2>5. n >= 1
    BY <2>1, LinkedSound DEF n, chain
  <2> HIDE DEF n, chain
  <2>6. blocks = [k \in 1 .. n |-> store[chain[k]].data]
    BY <2>3
  <2>7. /\ DOMAIN blocks = 1 .. n /\ Len(blocks) = n /\ blocks = [k \in 1 .. n |-> blocks[k]]
        /\ \A k \in 1 .. n : Sound(own, d, e.name, k, blocks[k])
    BY <2>1, <2>2, <2>6
  <2> HIDE DEF blocks
  <2>8. Nobody \notin ToSet(blocks)
    BY <2>7 DEF ToSet, Sound
  <2>9. Len(<<>>) = 0
    OBVIOUS
  <2>10. BlocksOK(own, d, e.name, blocks) /\ blocks # <<>>
    BY <2>2, <2>5, <2>7, <2>9 DEF BlocksOK
  <2>11. QED BY <1>2, <2>1, <2>2, <2>4, <2>6, <2>7, <2>8, <2>10 DEF Whole, n, chain
<1>3. QED BY <1>1, <1>2

LEMMA HeldIsIntact ==
  ASSUME NEW d, NEW e, Held(TRUE, store, diskFat, d, e)
  PROVE  Intact(d, e)
<1>1. CASE e.dir
  BY <1>1, HeldIsWhole DEF Intact
<1>2. CASE ~e.dir
  <2>1. /\ Whole(e) /\ e.length \in Nat /\ BlocksOK(TRUE, d, e.name, Blocks(e))
        /\ Len(Blocks(e)) = e.length
    BY <1>2, HeldIsWhole
  <2>2. PICK b : b = Blocks(e)
    OBVIOUS
  <2>3. b = [k \in 1 .. e.length |-> b[k]] /\ \A k \in 1 .. e.length : b[k] = <<d, e.name, k>>
    BY <2>1, <2>2 DEF BlocksOK, Sound
  <2>4. b = Written(d, e.name, e.length)
    BY <2>3 DEF Written
  <2>5. QED BY <2>1, <2>2, <2>4 DEF Intact
<1>3. QED BY <1>1, <1>2

LEMMA InvTypeOK ==
  ASSUME NEW own \in BOOLEAN, NEW sure \in BOOLEAN, Fat32Inv(own, sure)
  PROVE  TypeOK
<1>1. /\ Base /\ mode \in Modes
  BY DEF Fat32Inv, Base, Modes, Calling
<1>2. (\A i \in DOMAIN pending : pending[i].to \in 0 .. Beyond) /\ (Busy <=> pending # <<>>)
  <2>1. CASE mode \in {"off", "idle"}
    BY <2>1 DEF Fat32Inv, Busy, Calling
  <2>2. CASE mode = "format"
    <3>1. FormatJob
      BY <2>2 DEF Fat32Inv
    <3>2. /\ WriteOf(Boot, TRUE).to \in 0 .. Beyond /\ WriteOf(FatNumber, FormatFat).to \in 0 .. Beyond
          /\ WriteOf(Root, NewRoot).to \in 0 .. Beyond
      BY Constants DEF WriteOf, Boot, FatNumber, Root, Beyond
    <3>3. PICK a, b, c : a = WriteOf(Boot, TRUE) /\ b = WriteOf(FatNumber, FormatFat)
                         /\ c = WriteOf(Root, NewRoot)
      OBVIOUS
    <3>4. pending = <<a, b, c>> \/ pending = <<b, c>> \/ pending = <<c>>
      BY <3>1, <3>3 DEF FormatJob
    <3>5. a.to \in 0 .. Beyond /\ b.to \in 0 .. Beyond /\ c.to \in 0 .. Beyond
      BY <3>2, <3>3
    <3>6. CASE pending = <<a, b, c>>
      BY ONLY <3>5, <3>6, <2>2 DEF Busy, Calling
    <3>7. CASE pending = <<b, c>>
      BY ONLY <3>5, <3>7, <2>2 DEF Busy, Calling
    <3>8. CASE pending = <<c>>
      BY ONLY <3>5, <3>8, <2>2 DEF Busy, Calling
    <3>9. QED BY <3>4, <3>6, <3>7, <3>8
  <2>3. ASSUME NEW chain \in Seq(Clusters), NEW what, NEW map, NEW parent \in Clusters, NEW table,
               NEW done \in 0 .. Len(chain) + 1,
               pending = Rest(Issued(chain, what, map, parent, table), Len(chain) + 2, done)
        PROVE  (\A i \in DOMAIN pending : pending[i].to \in 0 .. Beyond) /\ pending # <<>>
    <3> DEFINE n == Len(chain)
               writes == Issued(chain, what, map, parent, table)
    <3>1. n \in Nat /\ \A k \in 1 .. n : chain[k] \in Clusters
      BY LenProperties, ElementOfSeq
    <3>2. \A k \in 1 .. n + 2 : writes[k].to = IF k <= n THEN chain[k]
                                                ELSE IF k = n + 1 THEN FatNumber ELSE parent
      BY <3>1 DEF Issued, WriteOf
    <3> HIDE DEF writes, n
    <3>3. \A k \in 1 .. n + 2 : writes[k].to \in 0 .. Beyond
      <4>1. FatNumber \in 0 .. Beyond
        BY Constants DEF FatNumber, Beyond
      <4>2. \A c \in Clusters : c \in 0 .. Beyond
        BY Constants
      <4>3. parent \in 0 .. Beyond /\ \A k \in 1 .. n : chain[k] \in 0 .. Beyond
        BY <2>3, <3>1, <4>2
      <4>4. \A k \in 1 .. n + 2 : k <= n => k \in 1 .. n
        BY <3>1
      <4>5. QED BY <3>2, <4>1, <4>3, <4>4
    <3>4. pending = [i \in 1 .. n + 2 - done |-> writes[done + i]] /\ done \in 0 .. n + 1
      BY <2>3 DEF Rest, writes, n
    <3>5. \A i \in 1 .. n + 2 - done : done + i \in 1 .. n + 2
      BY <3>1, <3>4
    <3>6. 1 \in DOMAIN pending
      BY <3>1, <3>4
    <3>7. pending # <<>>
      BY <3>6
    <3>8. QED BY <3>3, <3>4, <3>5, <3>7
  <2>4. CASE mode = "write"
    <3>1. PICK parent, e, chain, what, done : WriteJob(own, sure, parent, e, chain, what, done)
      BY <2>4 DEF Fat32Inv
    <3>2. /\ chain \in Seq(Clusters) /\ parent \in Clusters /\ done \in 0 .. Len(chain) + 1
          /\ pending = Rest(Issued(chain, what, fat, parent, WithEntry(store[parent].table, e)),
                            Len(chain) + 2, done)
      BY <3>1, DirectoriesNow DEF WriteJob, Links
    <3>3. QED BY <2>3, <2>4, <3>2 DEF Busy, Calling
  <2>5. CASE mode = "delete"
    <3>1. PICK parent, slot, e, chain, done : DeleteJob(own, sure, parent, slot, e, chain, done)
      BY <2>5 DEF Fat32Inv
    <3>2. /\ chain \in Seq(Clusters) /\ parent \in Clusters /\ done \in 0 .. Len(chain) + 1
          /\ pending = Rest(Issued(chain, [k \in 1 .. Len(chain) |-> ZeroCluster], fat, parent,
                                   WithoutEntry(store[parent].table, slot)),
                            Len(chain) + 2, done)
      BY <3>1, DirectoriesNow DEF DeleteJob
    <3>3. QED BY <2>3, <2>5, <3>2 DEF Busy, Calling
  <2>6. QED BY <1>1, <2>1, <2>2, <2>4, <2>5 DEF Base, Fat32Inv
<1>3. QED BY <1>1, <1>2 DEF TypeOK, Base, Maps, StoreOK

LEMMA InvConsistent == DriverInv => DiskConsistent
<1> SUFFICES ASSUME DriverInv, mode \in {"idle", "off", "write"}, signature,
                    NEW d \in Directories, NEW e \in EntriesOf(d)
             PROVE  Intact(d, e)
  BY DEF DiskConsistent
<1>1. PICK aside : Tree(TRUE, Directories, store, diskFat, {}, aside)
  BY TreeAtRest DEF DriverInv
<1>2. PICK s \in Slots : Stays(store, {}, d, s) /\ e = store[d].table[s]
  BY EntryHasSlot
<1>3. Held(TRUE, store, diskFat, d, e)
  BY <1>1, <1>2 DEF Tree
<1>4. QED BY <1>3, HeldIsIntact

LEMMA InvNoCrossLinks ==
  ASSUME NEW own \in BOOLEAN, NEW sure \in BOOLEAN, Fat32Inv(own, sure)
  PROVE  NoCrossLinks
<1> SUFFICES ASSUME mode \in {"idle", "off", "write"}, signature,
                    NEW d1 \in Directories, NEW d2 \in Directories,
                    NEW e1 \in EntriesOf(d1), NEW e2 \in EntriesOf(d2),
                    ToSet(DiskChain(e1)) \cap ToSet(DiskChain(e2)) # {}
             PROVE  d1 = d2 /\ e1 = e2
  BY DEF NoCrossLinks
<1>1. PICK aside : Tree(own, Directories, store, diskFat, {}, aside)
  BY TreeAtRest
<1>2. PICK s1 \in Slots : Stays(store, {}, d1, s1) /\ e1 = store[d1].table[s1]
  BY EntryHasSlot
<1>3. PICK s2 \in Slots : Stays(store, {}, d2, s2) /\ e2 = store[d2].table[s2]
  BY EntryHasSlot
<1>4. Owned(diskFat, e1) \cap Owned(diskFat, e2) # {}
  BY DEF Owned, Chain, DiskChain
<1>5. ~(d1 # d2 \/ s1 # s2)
  BY <1>1, <1>2, <1>3, <1>4 DEF Tree
<1>6. QED BY <1>2, <1>3, <1>5

LEMMA InvNoLeaks ==
  ASSUME NEW own \in BOOLEAN, mode = "idle" => Fat32Inv(own, TRUE)
  PROVE  NoLeaks
<1> DEFINE Entries == UNION {EntriesOf(d) : d \in Directories}
           Reachable == UNION {ToSet(DiskChain(e)) : e \in Entries}
<1> SUFFICES ASSUME Fat32Inv(own, TRUE), mode = "idle"
             PROVE  {c \in Clusters : fat[c] # Free} = {Root} \cup Reachable
  BY DEF NoLeaks
<1>1. /\ Tree(own, Directories, store, diskFat, {}, {}) /\ fat = diskFat
      /\ Accounted(Directories, store, diskFat, {}, {})
  BY DEF Fat32Inv, Settled
<1>2. ASSUME NEW c \in Clusters, fat[c] # Free PROVE c \in {Root} \cup Reachable
  <2>1. CASE c = Root
    BY <2>1
  <2>2. CASE c # Root
    <3>1. PICK d \in Directories, s \in Slots :
            Stays(store, {}, d, s) /\ c \in Owned(diskFat, store[d].table[s])
      BY <1>1, <1>2, <2>2 DEF Accounted
    <3>2. store[d].table[s] \in EntriesOf(d)
      BY <3>1 DEF Stays, InUse, EntriesOf, UsedSlots
    <3>3. c \in ToSet(DiskChain(store[d].table[s]))
      BY <3>1 DEF Owned, Chain, DiskChain
    <3>4. QED BY <3>2, <3>3
  <2>3. QED BY <2>1, <2>2
<1>3. ASSUME NEW c \in Reachable PROVE c \in Clusters /\ fat[c] # Free
  <2>1. PICK d \in Directories : \E e \in EntriesOf(d) : c \in ToSet(DiskChain(e))
    BY <1>3
  <2> PICK e \in EntriesOf(d) : c \in ToSet(DiskChain(e))
    BY <2>1
  <2>2. PICK s \in Slots : Stays(store, {}, d, s) /\ e = store[d].table[s]
    BY EntryHasSlot
  <2>3. Linked(diskFat, e.cluster)
    BY <1>1, <2>2 DEF Tree, Held
  <2>4. c \in ToSet(Chain(diskFat, e.cluster))
    BY DEF Chain, DiskChain
  <2>5. QED BY <1>1, <2>3, <2>4, LinkedSound
<1>4. Root \in Clusters /\ fat[Root] # Free
  BY <1>1, Constants DEF Tree
<1> HIDE DEF Reachable
<1>5. QED BY <1>2, <1>3, <1>4

LEMMA SignatureStep ==
  ASSUME NEW own \in BOOLEAN, NEW sure \in BOOLEAN,
         sure => RoomForNames, Fat32Inv(own, sure), [CarefulNext]_vars, signature
  PROVE  signature'
<1>1. CASE Initialize \/ PowerFailure \/ CarefulCalls \/ UNCHANGED vars
  BY <1>1 DEF Initialize, PowerFailure, CarefulCalls, Write, Delete, vars
<1>2. CASE DiskWrite
  <2>1. Base /\ mode \in {"format", "write", "delete"}
    BY <1>2 DEF Fat32Inv, Base, DiskWrite, Busy, Calling
  <2>2. CASE mode = "format"
    BY <1>2, <2>1, <2>2, FormatStep DEF Fat32Inv
  <2>3. CASE mode = "write"
    <3>1. PICK parent, e, chain, what, done : WriteJob(own, sure, parent, e, chain, what, done)
      BY <2>3 DEF Fat32Inv
    <3>2. done = Len(chain) + 1 => signature' = signature
      BY <1>2, <2>1, <2>3, <3>1, WriteEnds
    <3>3. PICK next : next = done + 1
      OBVIOUS
    <3>4. done # Len(chain) + 1 => signature' = signature
      BY <1>2, <2>1, <2>3, <3>1, <3>3, WriteGoesOn
    <3>5. QED BY <3>2, <3>4
  <2>4. CASE mode = "delete"
    <3>1. PICK parent, slot, e, chain, done : DeleteJob(own, sure, parent, slot, e, chain, done)
      BY <2>4 DEF Fat32Inv
    <3>2. done = Len(chain) + 1 => signature' = signature
      BY <1>2, <2>1, <2>4, <3>1, DeleteEnds
    <3>3. PICK next : next = done + 1
      OBVIOUS
    <3>4. done # Len(chain) + 1 => signature' = signature
      BY <1>2, <2>1, <2>4, <3>1, <3>3, DeleteGoesOn
    <3>5. QED BY <3>2, <3>4
  <2>5. QED BY <2>1, <2>2, <2>3, <2>4
<1>3. QED BY <1>1, <1>2 DEF CarefulNext

\* Writes go to clusters the disk has, and a call is over when nothing is left
\* to write.
THEOREM DriverTypes == Sheltered => (CarefulSpec => []TypeOK)
<1>1. DriverInv => TypeOK
  BY InvTypeOK DEF DriverInv
<1>2. QED BY <1>1, TreeSafe, PTL

\* The table in memory is the one a boot would load, after every call.
THEOREM MemoryTableCurrent == Sheltered => (CarefulSpec => []MemoryFatCurrent)
<1>1. DriverInv => MemoryFatCurrent
  BY DEF DriverInv, Fat32Inv, MemoryFatCurrent
<1>2. QED BY <1>1, TreeSafe, PTL

\* Wherever a power failure interrupts a write(), every entry that the next
\* boot reaches is whole and holds its own data in order.
THEOREM DiskAlwaysConsistent == Sheltered => (CarefulSpec => []DiskConsistent)
BY TreeSafe, InvConsistent, PTL

\* No cluster is ever in two entries.
THEOREM ClustersNotShared == Sheltered => (CarefulSpec => []NoCrossLinks)
<1>1. DriverInv => NoCrossLinks
  BY InvNoCrossLinks DEF DriverInv
<1>2. QED BY <1>1, TreeSafe, PTL

\* Calls that power does not interrupt lose no cluster, in tables that have
\* room for every name.
THEOREM NothingLeaks == Sheltered /\ RoomForNames => (CarefulSpec => []NoLeaks)
<1> SUFFICES ASSUME Sheltered, RoomForNames PROVE CarefulSpec => []NoLeaks
  OBVIOUS
<1>1. DriverInv => NoLeaks
  <2>1. clean /\ DriverInv => NoLeaks
    BY InvNoLeaks DEF DriverInv
  <2>2. ~clean => NoLeaks
    BY DEF NoLeaks
  <2>3. QED BY <2>1, <2>2
<1>2. CarefulSpec => []DriverInv
  BY TreeSafe
<1>3. QED BY <1>1, <1>2, PTL

\* What holds until power fails inside a delete or a format.
PowerInv == torn \in BOOLEAN /\ (~torn => DriverInv)

LEMMA PowerStep ==
  ASSUME BlankStack, PowerInv, [PowerNext]_powerVars
  PROVE  PowerInv'
<1>1. [CarefulNext]_vars /\ torn' \in BOOLEAN /\ (torn => torn')
  BY DEF PowerInv, PowerNext, CarefulNext, powerVars
<1>2. ASSUME ~torn' PROVE Spared
  BY <1>1, <1>2 DEF PowerInv, PowerNext, powerVars, Spared, vars, PowerFailure, Initialize,
                    DiskWrite, CarefulCalls, Write, Delete
<1>3. ASSUME ~torn' PROVE DriverInv'
  BY <1>1, <1>2, <1>3, DriverStep DEF PowerInv
<1>4. QED BY <1>1, <1>3 DEF PowerInv

\* Whatever moments power fails at, the disk is not formatted a second time
\* unless a failure has hit a delete or a format: no call takes the boot
\* sector's signature, and a failure inside a write() does not either.
THEOREM SignatureKeptUntilTorn == BlankStack => (PowerSpec => SignatureKept)
<1> SUFFICES ASSUME BlankStack PROVE PowerSpec => SignatureKept
  OBVIOUS
<1>1. PowerInit => PowerInv
  BY InitSafe DEF PowerInit, PowerInv, DriverInv
<1>2. PowerInv /\ [PowerNext]_powerVars => PowerInv'
  BY PowerStep
<1>3. PowerInv /\ [PowerNext]_powerVars => [signature /\ ~torn => signature']_powerVars
  <2> SUFFICES ASSUME PowerInv, [PowerNext]_powerVars, signature, ~torn PROVE signature'
    OBVIOUS
  <2>1. [CarefulNext]_vars /\ Fat32Inv(TRUE, FALSE)
    BY DEF PowerNext, CarefulNext, powerVars, PowerInv, DriverInv
  <2>2. QED BY <2>1, SignatureStep
<1>4. QED BY <1>1, <1>2, <1>3, PTL DEF PowerSpec, SignatureKept
=============================================================================
