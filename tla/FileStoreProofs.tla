--------------------------- MODULE FileStoreProofs ---------------------------
(***************************************************************************)
(* The driver implements the dictionary of FileStore.  The entries of the  *)
(* tree that are whole determine the dictionary, and each step of the      *)
(* driver leaves them alone, adds one, or takes one away: a write() adds   *)
(* its entry in its last step, a delete() of a file takes it away when it  *)
(* zeroes the first cluster, and that of a folder when the table is        *)
(* written.                                                                *)
(***************************************************************************)
EXTENDS Fat32Proofs

\* The whole entries, by directory and slot.
Listing == {l \in Directories \X Slots :
              signature /\ InUse(store, l[1], l[2]) /\ Whole(store[l[1]].table[l[2]])}

\* What an entry stands for.
Content(e) == [dir |-> e.dir, blocks |-> Blocks(e)]

Item(d, s) == [name |-> store[d].table[s].name, holds |-> Content(store[d].table[s])]

Listed == [l \in Listing |-> Item(l[1], l[2])]

\* A dictionary and the entries it is made of.
Shows(f, entries) ==
  /\ f = [p \in DOMAIN f |-> f[p]]
  /\ entries = [l \in DOMAIN entries |-> entries[l]]
  /\ DOMAIN f = {<<l[1], entries[l].name>> : l \in DOMAIN entries}
  /\ \A l \in DOMAIN entries : f[<<l[1], entries[l].name>>] = entries[l].holds
  /\ \A k, l \in DOMAIN entries : k[1] = l[1] /\ entries[k].name = entries[l].name => k = l

LEMMA ShowsOnce ==
  ASSUME NEW f, NEW g, NEW entries, Shows(f, entries), Shows(g, entries)
  PROVE  f = g
<1>1. DOMAIN f = DOMAIN g
  BY DEF Shows
<1>2. ASSUME NEW p \in DOMAIN f PROVE f[p] = g[p]
  <2>1. PICK l \in DOMAIN entries : p = <<l[1], entries[l].name>>
    BY DEF Shows
  <2>2. QED BY <2>1 DEF Shows
<1>3. f = [p \in DOMAIN f |-> f[p]] /\ g = [p \in DOMAIN g |-> g[p]]
  BY DEF Shows
<1>4. QED BY <1>1, <1>2, <1>3

\* g is f and one place more.
Added(f, place, what, g) ==
  /\ g = [p \in DOMAIN g |-> g[p]] /\ f = [p \in DOMAIN f |-> f[p]]
  /\ place \notin DOMAIN f /\ DOMAIN g = DOMAIN f \cup {place} /\ g[place] = what
  /\ \A p \in DOMAIN f : g[p] = f[p]

LEMMA AddedExtends ==
  ASSUME NEW f, NEW g, NEW place, NEW what, Added(f, place, what, g)
  PROVE  FS!Extends(g, f)
BY DEF Added, FS!Extends

\* One more entry is one more place.
LEMMA ShowsMore ==
  ASSUME NEW f, NEW g, NEW few, NEW many, Shows(f, few), Shows(g, many),
         NEW l, l \notin DOMAIN few, DOMAIN many = DOMAIN few \cup {l},
         \A k \in DOMAIN few : many[k] = few[k]
  PROVE  Added(f, <<l[1], many[l].name>>, many[l].holds, g)
<1> DEFINE p == <<l[1], many[l].name>>
<1>1. DOMAIN g = {<<k[1], many[k].name>> : k \in DOMAIN many}
  BY DEF Shows
<1>2. DOMAIN f = {<<k[1], few[k].name>> : k \in DOMAIN few}
  BY DEF Shows
<1>3. DOMAIN g = DOMAIN f \cup {p}
  BY <1>1, <1>2
<1>4. p \notin DOMAIN f
  <2>1. SUFFICES ASSUME NEW k \in DOMAIN few, p = <<k[1], few[k].name>> PROVE FALSE
    BY <1>2
  <2>2. l[1] = k[1] /\ many[l].name = many[k].name
    BY <2>1
  <2>3. QED BY <2>2 DEF Shows
<1>5. ASSUME NEW q \in DOMAIN f PROVE g[q] = f[q]
  <2>1. PICK k \in DOMAIN few : q = <<k[1], few[k].name>>
    BY <1>2
  <2>2. f[q] = few[k].holds
    BY <2>1 DEF Shows
  <2>3. g[q] = many[k].holds
    BY <2>1 DEF Shows
  <2>4. QED BY <2>2, <2>3
<1>6. /\ g = [q \in DOMAIN g |-> g[q]] /\ f = [q \in DOMAIN f |-> f[q]]
      /\ g[p] = many[l].holds
  BY DEF Shows
<1>7. QED BY <1>3, <1>4, <1>5, <1>6 DEF Added

-----------------------------------------------------------------------------
(* The dictionary in a state.                                              *)

\* A walk collects numbers of clusters, in the table or not.
LEMMA WalkIsSeq ==
  ASSUME NEW map \in Maps, NEW f, Walk(f, map, NClusters)
  PROVE  \A n \in 0 .. NClusters, c \in 0 .. Beyond : f[n][c] \in Seq(0 .. Beyond)
<1> DEFINE Good == {n \in 0 .. NClusters : \A c \in 0 .. Beyond : f[n][c] \in Seq(0 .. Beyond)}
<1>1. NClusters \in Nat /\ Beyond \in 0 .. Beyond
  BY Constants
<1>2. \A n \in 0 .. NClusters : f[n] = Further(map, n, f[n - 1])
  BY DEF Walk
<1>3. 0 \in Good
  <2>1. f[0] = Further(map, 0, f[0 - 1]) /\ 0 \in 0 .. NClusters
    BY <1>1, <1>2
  <2>2. \A c \in 0 .. Beyond : f[0][c] = <<>>
    BY <2>1 DEF Further
  <2>3. <<>> \in Seq(0 .. Beyond)
    BY EmptySeq
  <2>4. \A c \in 0 .. Beyond : f[0][c] \in Seq(0 .. Beyond)
    BY ONLY <2>2, <2>3
  <2>5. QED BY <2>1, <2>4
<1>4. ASSUME NEW n \in 0 .. NClusters - 1, n \in Good PROVE n + 1 \in Good
  <2>1. n + 1 \in 0 .. NClusters /\ n + 1 # 0 /\ (n + 1) - 1 = n
    BY <1>1
  <2>2. f[n + 1] = Further(map, n + 1, f[n])
    BY <1>2, <2>1
  <2>3. ASSUME NEW c \in 0 .. Beyond PROVE f[n + 1][c] \in Seq(0 .. Beyond)
    <3>1. CASE c = Eof
      BY <2>2, <3>1 DEF Further
    <3>2. CASE c # Eof /\ c = Beyond
      <4>1. f[n + 1][c] = <<Beyond>>
        BY <2>1, <2>2, <3>2 DEF Further
      <4>2. QED BY <1>1, <4>1
    <3>3. CASE c # Eof /\ c # Beyond
      <4>1. c \in 0 .. NClusters - 1
        BY ONLY <1>1, <3>3, c \in 0 .. Beyond DEF Eof, Beyond
      <4>2. f[n][map[c]] \in Seq(0 .. Beyond)
        BY <1>4, <4>1 DEF Maps
      <4>3. f[n + 1][c] = <<c>> \o f[n][map[c]]
        BY <2>1, <2>2, <3>3 DEF Further
      <4>4. PICK first, rest : first = <<c>> /\ rest = f[n][map[c]]
        OBVIOUS
      <4>5. first \in Seq(0 .. Beyond) /\ rest \in Seq(0 .. Beyond)
        BY <4>2, <4>4
      <4>6. first \o rest \in Seq(0 .. Beyond)
        BY ONLY <4>5, ConcatProperties
      <4>7. QED BY <4>3, <4>4, <4>6
    <3>4. QED BY <3>1, <3>2, <3>3
  <2>4. QED BY <2>1, <2>3
<1> HIDE DEF Good
<1>5. \A n \in 0 .. NClusters : n \in Good
  BY <1>1, <1>3, <1>4, UpTo
<1>6. QED BY <1>5 DEF Good

\* A chain begins with its cluster.
LEMMA ChainBegins ==
  ASSUME NEW map \in Maps, NEW c \in Clusters
  PROVE  Chain(map, c)[1] = c /\ 1 \in DOMAIN Chain(map, c)
<1>1. PICK f : Walk(f, map, NClusters) /\ ChainFrom(map) = f[NClusters]
  BY ChainFromIs
<1>2. NClusters \in 0 .. NClusters /\ NClusters # 0 /\ NClusters - 1 \in 0 .. NClusters
      /\ c \in 0 .. Beyond /\ c # Eof /\ c # Beyond /\ c \in 0 .. NClusters - 1
  BY Constants
<1>3. f[NClusters] = Further(map, NClusters, f[NClusters - 1])
  BY <1>1, <1>2 DEF Walk
<1>4. PICK rest : rest = f[NClusters - 1][map[c]]
  OBVIOUS
<1>5. rest \in Seq(0 .. Beyond)
  BY <1>1, <1>2, <1>4, WalkIsSeq DEF Maps
<1>6. Chain(map, c) = <<c>> \o rest
  BY <1>1, <1>2, <1>3, <1>4 DEF Further, Chain
<1>7. QED BY ONLY <1>5, <1>6, <1>2

\* The entry that a delete() is about goes on being whole until the first
\* cluster of a file is zeroed, or the table of a folder is written.
Kept(e, done) == done = 0 \/ (e.dir /\ done = 1)

LEMMA DeletedWhole ==
  ASSUME NEW own \in BOOLEAN, NEW sure \in BOOLEAN,
         Base, NEW parent, NEW slot, NEW e, NEW chain, NEW done,
         DeleteJob(own, sure, parent, slot, e, chain, done)
  PROVE  Whole(e) <=> Kept(e, done)
<1>1. /\ chain[1] = e.cluster /\ e.cluster \in Clusters /\ e.cluster \in ToSet(chain)
      /\ Len(chain) \in Nat /\ Len(chain) >= 1 /\ done \in 0 .. Len(chain) + 1
      /\ e.dir => Len(chain) = 1
  <2>1. DeleteFacts(own, parent, slot, e, chain, done)
    BY DeleteJobIs
  <2>2. QED BY <2>1 DEF DeleteFacts, DeleteJob
<1>2. CASE done = 0
  BY <1>2, HeldIsWhole DEF DeleteJob, Kept
<1>3. CASE e.dir /\ done = 1
  BY <1>1, <1>3 DEF DeleteJob, Kept, Whole
<1>4. CASE e.dir /\ done > 1
  <2>1. diskFat = fat /\ e.cluster \in 0 .. NClusters - 1
    BY <1>1, <1>4, Constants DEF DeleteJob
  <2>2. diskFat[e.cluster] # Eof
    BY <1>1, <2>1, Constants DEF DeleteJob
  <2>3. QED BY <1>4, <2>2 DEF Kept, Whole
<1>5. CASE ~e.dir /\ done > 0
  <2> DEFINE mine == Chain(diskFat, e.cluster)
             blocks == [k \in DOMAIN mine |-> store[mine[k]].data]
  <2>1. mine[1] = e.cluster /\ 1 \in DOMAIN mine
    BY <1>1, ChainBegins DEF Base
  <2>2. store[e.cluster].data = Nobody
    BY <1>1, <1>5 DEF DeleteJob, ZeroCluster, DataCluster
  <2>3. Blocks(e) = blocks
    BY <1>5 DEF Blocks, DiskChain, Chain
  <2>4. Nobody \in ToSet(blocks)
    BY <2>1, <2>2 DEF ToSet
  <2>5. QED BY <1>5, <2>3, <2>4 DEF Kept, Whole
<1>6. QED BY <1>1, <1>2, <1>3, <1>4, <1>5

\* The tables are in order.
Orderly == \A d \in Directories : Tidy(store[d].table)

LEMMA TablesOrderly ==
  ASSUME NEW own \in BOOLEAN, NEW sure \in BOOLEAN, Fat32Inv(own, sure), signature
  PROVE  Orderly
<1> SUFFICES ASSUME NEW d \in Directories PROVE Tidy(store[d].table)
  BY DEF Orderly
<1>1. d \in Clusters /\ Base
  BY DirectoriesNow DEF Fat32Inv
<1>2. CASE mode = "format"
  <2>1. store[d] = ZeroCluster
    BY <1>1, <1>2, BlankIs DEF Fat32Inv, FormatJob
  <2>2. \A s \in Slots : store[d].table[s] = EmptyEntry
    BY <2>1, BlankIs
  <2>3. QED BY <2>2, EmptyEntryIs DEF Tidy
<1>3. CASE mode = "delete"
  <2>1. PICK parent, slot, e, chain, done : DeleteJob(own, sure, parent, slot, e, chain, done)
    BY <1>3 DEF Fat32Inv
  <2>2. Tree(own, Directories, store, diskFat, {<<parent, slot>>}, ToSet(chain))
    BY <2>1 DEF DeleteJob, Settled
  <2>3. QED BY <2>2 DEF Tree
<1>4. CASE mode \in {"off", "idle", "write"}
  <2>1. PICK aside : Tree(own, Directories, store, diskFat, {}, aside)
    BY <1>4, TreeAtRest
  <2>2. QED BY <2>1 DEF Tree
<1>5. QED BY <1>1, <1>2, <1>3, <1>4 DEF Base, Fat32Inv

\* As long as an entry is whole a file holds its own data.
LEMMA WholeIsIntact ==
  ASSUME Fat32Inv(TRUE, FALSE), signature, NEW d \in Directories, NEW s \in Slots,
         InUse(store, d, s), Whole(store[d].table[s])
  PROVE  Intact(d, store[d].table[s])
<1> DEFINE e == store[d].table[s]
<1>1. d \in Clusters /\ Base
  BY DirectoriesNow DEF Fat32Inv
<1>2. CASE mode = "format"
  <2>1. store[d] = ZeroCluster
    BY <1>1, <1>2, BlankIs DEF Fat32Inv, FormatJob
  <2>2. QED BY <2>1, BlankIs, EmptyEntryIs DEF InUse
<1>3. ASSUME NEW gone, NEW aside, Tree(TRUE, Directories, store, diskFat, gone, aside),
             Stays(store, gone, d, s)
      PROVE  Intact(d, e)
  BY <1>3, HeldIsIntact DEF Tree
<1>4. CASE mode = "delete"
  <2>1. PICK parent, slot, x, chain, done : DeleteJob(TRUE, FALSE, parent, slot, x, chain, done)
    BY <1>4 DEF Fat32Inv
  <2>2. Tree(TRUE, Directories, store, diskFat, {<<parent, slot>>}, ToSet(chain))
        /\ x = store[parent].table[slot]
    BY <2>1 DEF DeleteJob, Settled
  <2>3. CASE d = parent /\ s = slot
    <3>1. Kept(x, done)
      BY <1>1, <2>1, <2>2, <2>3, DeletedWhole
    <3>2. CASE done = 0
      BY <2>1, <2>2, <2>3, <3>2, HeldIsIntact DEF DeleteJob
    <3>3. CASE x.dir
      BY <2>2, <2>3, <3>3 DEF Intact
    <3>4. QED BY <3>1, <3>2, <3>3 DEF Kept
  <2>4. CASE ~(d = parent /\ s = slot)
    <3>1. Stays(store, {<<parent, slot>>}, d, s)
      BY <2>4 DEF Stays
    <3>2. QED BY <1>3, <2>2, <3>1
  <2>5. QED BY <2>3, <2>4
<1>5. CASE mode \in {"off", "idle", "write"}
  <2>1. PICK aside : Tree(TRUE, Directories, store, diskFat, {}, aside)
    BY <1>5, TreeAtRest
  <2>2. Stays(store, {}, d, s)
    BY DEF Stays
  <2>3. QED BY <1>3, <2>1, <2>2
<1>6. QED BY <1>1, <1>2, <1>4, <1>5 DEF Base, Fat32Inv

\* What a file system shows that holds these entries.
LEMMA DictionaryIs == (signature => Orderly) => Shows(FilesOnDisk, Listed)
<1> SUFFICES ASSUME signature => Orderly PROVE Shows(FilesOnDisk, Listed)
  OBVIOUS
<1> DEFINE Slot(l) == store[l[1]].table[l[2]]
<1>1. /\ Listed = [l \in DOMAIN Listed |-> Listed[l]] /\ DOMAIN Listed = Listing
      /\ \A l \in Listing : Listed[l] = Item(l[1], l[2])
      /\ FilesOnDisk = [p \in DOMAIN FilesOnDisk |-> FilesOnDisk[p]]
      /\ DOMAIN FilesOnDisk = OccupiedPlaces
  BY DEF Listed, FilesOnDisk
<1>2. ASSUME NEW l \in Listing
      PROVE  /\ signature /\ l[1] \in Directories /\ l[2] \in Slots /\ l = <<l[1], l[2]>>
             /\ InUse(store, l[1], l[2]) /\ Whole(Slot(l))
             /\ Listed[l].name = Slot(l).name /\ Listed[l].holds = Content(Slot(l))
  BY <1>1, <1>2 DEF Listing, Item
<1>3. ASSUME NEW k \in Listing, NEW l \in Listing, k[1] = l[1], Listed[k].name = Listed[l].name
      PROVE  k = l
  <2>1. Tidy(store[k[1]].table)
    BY <1>2 DEF Orderly
  <2>2. k[2] = l[2]
    BY <1>2, <1>3, <2>1 DEF Tidy, InUse
  <2>3. QED BY <1>2, <1>3, <2>2
<1>4. ASSUME NEW l \in Listing PROVE Slot(l) \in WholeEntries(l[1])
  BY <1>2 DEF WholeEntries, EntriesOf, UsedSlots, InUse
<1>5. ASSUME NEW d \in Directories, NEW e \in WholeEntries(d), signature
      PROVE  \E l \in Listing : l[1] = d /\ Slot(l) = e
  <2>1. PICK s \in Slots : InUse(store, d, s) /\ e = store[d].table[s] /\ Whole(e)
    BY <1>5 DEF WholeEntries, EntriesOf, UsedSlots, InUse
  <2>2. <<d, s>> \in Listing
    BY <1>5, <2>1 DEF Listing
  <2>3. QED BY <1>1, <2>1, <2>2
<1>6. OccupiedPlaces = {<<l[1], Listed[l].name>> : l \in Listing}
  <2>1. CASE ~signature
    <3>1. Listing = {} /\ OccupiedPlaces = {}
      BY <2>1 DEF Listing, OccupiedPlaces
    <3>2. QED BY <3>1
  <2>2. CASE signature
    <3>1. ASSUME NEW p \in OccupiedPlaces PROVE \E l \in Listing : p = <<l[1], Listed[l].name>>
      <4>1. PICK d \in Directories : \E e \in WholeEntries(d) : p = <<d, e.name>>
        BY <2>2, <3>1 DEF OccupiedPlaces
      <4>2. PICK e \in WholeEntries(d) : p = <<d, e.name>>
        BY <4>1
      <4>3. PICK l \in Listing : l[1] = d /\ Slot(l) = e
        BY <1>5, <2>2
      <4>4. QED BY <1>2, <4>2, <4>3
    <3>2. ASSUME NEW l \in Listing PROVE <<l[1], Listed[l].name>> \in OccupiedPlaces
      <4>1. l[1] \in Directories /\ Slot(l) \in WholeEntries(l[1]) /\ Listed[l].name = Slot(l).name
        BY <1>2, <1>4
      <4>2. QED BY <2>2, <4>1 DEF OccupiedPlaces
    <3>3. QED BY <3>1, <3>2
  <2>3. QED BY <2>1, <2>2
<1>7. ASSUME NEW l \in Listing PROVE FilesOnDisk[<<l[1], Listed[l].name>>] = Listed[l].holds
  <2> DEFINE d == l[1]
             e == Slot(l)
  <2>1. \A x \in WholeEntries(d) : x.name = e.name => x = e
    <3>1. SUFFICES ASSUME NEW x \in WholeEntries(d), x.name = e.name PROVE x = e
      OBVIOUS
    <3>2. PICK k \in Listing : k[1] = d /\ Slot(k) = x
      BY <1>2, <1>5
    <3>3. k = l
      BY <1>2, <1>3, <3>1, <3>2
    <3>4. QED BY <3>2, <3>3
  <2>2. e \in WholeEntries(d)
    BY <1>4
  <2>3. e = CHOOSE x \in WholeEntries(d) : x.name = e.name
    BY <2>1, <2>2
  <2>4. <<d, e.name>> \in OccupiedPlaces /\ Listed[l].name = e.name /\ Listed[l].holds = Content(e)
    BY <1>2, <1>6
  <2> HIDE DEF d, e
  <2>5. PICK p : p = <<d, e.name>> /\ p[1] = d /\ p[2] = e.name
    <3>1. \A n : <<d, n>>[1] = d /\ <<d, n>>[2] = n
      OBVIOUS
    <3>2. QED BY <3>1
  <2>6. FilesOnDisk[p] = [dir |-> e.dir, blocks |-> Blocks(e)]
    BY <2>3, <2>4, <2>5 DEF FilesOnDisk
  <2>7. FilesOnDisk[<<d, e.name>>] = Content(e)
    BY <2>5, <2>6 DEF Content
  <2>8. QED BY <2>4, <2>7 DEF d
<1>8. QED BY <1>1, <1>3, <1>6, <1>7 DEF Shows

\* All entries of the tree have these places.
LEMMA PlacesAre ==
  ASSUME Orderly, signature, NEW l \in Listing
  PROVE  LET e == store[l[1]].table[l[2]]
         IN  <<l[1], e.name>> \in DOMAIN FilesOnDisk /\ FilesOnDisk[<<l[1], e.name>>] = Content(e)
<1>1. Shows(FilesOnDisk, Listed)
  BY DictionaryIs
<1>2. l \in DOMAIN Listed /\ Listed[l] = Item(l[1], l[2])
  BY DEF Listed
<1>3. QED BY <1>1, <1>2 DEF Shows, Item

\* Places and contents are of the kinds a dictionary has.
LEMMA FilesOfKind ==
  Fat32Inv(TRUE, FALSE) => \A p \in DOMAIN FilesOnDisk : p \in Places /\ FilesOnDisk[p] \in Contents
<1> SUFFICES ASSUME Fat32Inv(TRUE, FALSE), NEW p \in DOMAIN FilesOnDisk
             PROVE  p \in Places /\ FilesOnDisk[p] \in Contents
  OBVIOUS
<1>1. Shows(FilesOnDisk, Listed) /\ DOMAIN Listed = Listing
  BY DictionaryIs, TablesOrderly DEF Listed
<1>2. PICK l \in Listing : p = <<l[1], Listed[l].name>>
  BY <1>1 DEF Shows
<1> DEFINE d == l[1]
           e == store[d].table[l[2]]
           data == [i \in 1 .. e.length |-> <<d, e.name, i>>]
<1>3. /\ signature /\ d \in Directories /\ l[2] \in Slots
      /\ InUse(store, d, l[2]) /\ Whole(e) /\ Listed[l] = Item(d, l[2])
  BY DEF Listing, Listed
<1>4. e \in Entry /\ e.name \in Names /\ d \in Clusters
  BY <1>3, TablesOrderly, DirectoriesNow DEF Orderly, Tidy, InUse, Fat32Inv, Base, StoreOK
<1>5. e.dir \in BOOLEAN /\ e.length \in Nat
  BY <1>4 DEF Entry
<1>6. FilesOnDisk[p] = [dir |-> e.dir, blocks |-> Blocks(e)] /\ p = <<d, e.name>>
  BY <1>1, <1>2, <1>3 DEF Shows, Item, Content
<1>7. ~e.dir => Blocks(e) = data
  <2>1. Whole(e) => Intact(d, e)
    BY <1>3, WholeIsIntact
  <2>2. QED BY <1>3, <2>1 DEF Intact, Written
<1>8. e.dir => Blocks(e) = <<>>
  BY DEF Blocks
<1> HIDE DEF d, e
<1>9. \A i \in 1 .. e.length : <<d, e.name, i>> \in Clusters \X Names \X Nat
  BY <1>4, <1>5
<1>10. data \in Seq(Clusters \X Names \X Nat)
  BY <1>5, <1>9
<1>11. <<>> \in Seq(Clusters \X Names \X Nat)
  BY EmptySeq
<1> HIDE DEF data
<1>12. FilesOnDisk[p] \in Contents
  <2>1. Blocks(e) \in Seq(Clusters \X Names \X Nat)
    BY <1>5, <1>7, <1>8, <1>10, <1>11
  <2>2. QED BY <1>5, <1>6, <2>1 DEF Contents
<1>13. p \in Places
  BY <1>4, <1>6 DEF Places
<1>14. QED BY <1>12, <1>13

-----------------------------------------------------------------------------
(* What a step does to the dictionary.                                     *)

\* Every entry of the tree is whole.
NoneBroken ==
  \A d \in Directories, s \in Slots : InUse(store, d, s) => Whole(store[d].table[s])

LEMMA AllWhole ==
  ASSUME NEW own \in BOOLEAN, NEW sure \in BOOLEAN, Fat32Inv(own, sure), mode \in {"idle", "write"}
  PROVE  signature /\ NoneBroken
<1> SUFFICES ASSUME NEW d \in Directories, NEW s \in Slots, InUse(store, d, s)
             PROVE  Whole(store[d].table[s])
  BY DEF Fat32Inv, NoneBroken
<1>1. PICK aside : Tree(own, Directories, store, diskFat, {}, aside)
  BY TreeAtRest DEF Fat32Inv
<1>2. Held(own, store, diskFat, d, store[d].table[s])
  BY <1>1 DEF Tree, Stays
<1>3. QED BY <1>2, HeldIsWhole

\* Clusters that are set aside may change, and what the tables hold.
Apart(aside) ==
  \A c \in Clusters \ aside :
    diskFat'[c] = diskFat[c] /\ (c \notin Directories => store'[c] = store[c])

\* What an entry that stays stands for is what it stood for.
LEMMA ItemKept ==
  ASSUME NEW own \in BOOLEAN, NEW gone, NEW aside,
         Tree(own, Directories, store, diskFat, gone, aside),
         NEW d \in Directories, NEW s \in Slots, Stays(store, gone, d, s), Apart(aside),
         store'[d].table[s] = store[d].table[s]
  PROVE  Item(d, s)' = Item(d, s) /\ Whole(store[d].table[s]) /\ Whole(store[d].table[s])'
<1>1. PICK e : e = store[d].table[s]
  OBVIOUS
<1>2. Held(own, store, diskFat, d, e) /\ Owned(diskFat, e) \cap aside = {}
  BY <1>1 DEF Tree
<1>3. Whole(e)
  BY <1>2, HeldIsWhole
<1> DEFINE chain == Chain(diskFat, e.cluster)
<1>4. Linked(diskFat, e.cluster)
  BY <1>2 DEF Held
<1>5. \A x \in ToSet(chain) : x \in Clusters \ aside
  BY <1>2, <1>4, LinkedSound DEF Owned
<1>6. Linked(diskFat', e.cluster) /\ Chain(diskFat', e.cluster) = chain
  BY <1>4, <1>5, LinkedElsewhere DEF Apart
<1>7. e.dir => diskFat'[e.cluster] = diskFat[e.cluster]
  <2>1. e.cluster \in ToSet(chain)
    BY <1>4, LinkedSound
  <2>2. QED BY <1>5, <2>1 DEF Apart
<1>8. ~e.dir => \A x \in ToSet(chain) : store'[x] = store[x]
  <2> SUFFICES ASSUME ~e.dir, NEW x \in ToSet(chain) PROVE store'[x] = store[x]
    OBVIOUS
  <2>1. x \notin Directories
    BY <1>1, DirNotInFile, DirectoriesNow DEF Owned
  <2>2. QED BY <1>5, <2>1 DEF Apart
<1>9. DiskChain(e)' = DiskChain(e) /\ DiskChain(e) = chain
  BY <1>6 DEF DiskChain, Chain
<1>10. Blocks(e)' = Blocks(e)
  <2>1. CASE e.dir
    BY <2>1 DEF Blocks
  <2>2. CASE ~e.dir
    <3>1. \A k \in DOMAIN chain : store'[chain[k]] = store[chain[k]]
      BY <1>8, <2>2 DEF ToSet
    <3>2. Blocks(e)' = [k \in DOMAIN DiskChain(e)' |-> store'[DiskChain(e)'[k]].data]
          /\ Blocks(e) = [k \in DOMAIN DiskChain(e) |-> store[DiskChain(e)[k]].data]
      BY <2>2 DEF Blocks
    <3> HIDE DEF chain
    <3>3. QED BY <1>9, <3>1, <3>2
  <2>3. QED BY <2>1, <2>2
<1>11. Whole(e)' <=> Whole(e)
  BY <1>7, <1>9, <1>10 DEF Whole
<1>12. store[d].table[s]' = e
  BY <1>1
<1>13. Content(e)' = Content(e)
  BY <1>10 DEF Content
<1>14. Item(d, s)' = Item(d, s)
  <2>1. Content(store[d].table[s])' = Content(e)'
    BY <1>12 DEF Content, Blocks, DiskChain
  <2>2. QED BY <1>1, <1>12, <1>13, <2>1 DEF Item
<1>15. Whole(store[d].table[s])' <=> Whole(e)'
  BY <1>12 DEF Whole, Blocks, DiskChain
<1>16. QED BY <1>1, <1>3, <1>11, <1>14, <1>15

\* During a delete() all other entries are whole.
OthersWhole(parent, slot, e, done) ==
  \A d \in Directories, s \in Slots : InUse(store, d, s) =>
    (Whole(store[d].table[s]) <=> d # parent \/ s # slot \/ Kept(e, done))

LEMMA DeleteSparesOthers ==
  ASSUME NEW own \in BOOLEAN, NEW sure \in BOOLEAN, Base,
         NEW parent, NEW slot, NEW e, NEW chain, NEW done,
         DeleteJob(own, sure, parent, slot, e, chain, done)
  PROVE  OthersWhole(parent, slot, e, done)
<1> SUFFICES ASSUME NEW d \in Directories, NEW s \in Slots, InUse(store, d, s)
             PROVE  Whole(store[d].table[s]) <=> d # parent \/ s # slot \/ Kept(e, done)
  BY DEF OthersWhole
<1>1. Tree(own, Directories, store, diskFat, {<<parent, slot>>}, ToSet(chain))
      /\ e = store[parent].table[slot]
  BY DEF DeleteJob, Settled
<1>2. CASE d = parent /\ s = slot
  BY <1>1, <1>2, DeletedWhole
<1>3. CASE ~(d = parent /\ s = slot)
  <2>1. Stays(store, {<<parent, slot>>}, d, s)
    BY <1>3 DEF Stays
  <2>2. Held(own, store, diskFat, d, store[d].table[s])
    BY <1>1, <2>1 DEF Tree
  <2>3. QED BY <1>3, <2>2, HeldIsWhole
<1>4. QED BY <1>2, <1>3

LEMMA DeleteSparesThen ==
  ASSUME NEW own \in BOOLEAN, NEW sure \in BOOLEAN, Base',
         NEW parent, NEW slot, NEW e, NEW chain, NEW done,
         DeleteJob(own, sure, parent, slot, e, chain, done)'
  PROVE  OthersWhole(parent, slot, e, done)'
BY DeleteSparesOthers, PTL

\* The dictionary before and after a step.
LEMMA ShowsBoth ==
  ASSUME signature => Orderly, (signature => Orderly)'
  PROVE  /\ Shows(FilesOnDisk, Listed) /\ Shows(FilesOnDisk', Listed')
         /\ DOMAIN Listed = Listing /\ DOMAIN Listed' = Listing'
         /\ \A l \in Listing : Listed[l] = Item(l[1], l[2])
         /\ \A l \in Listing' : Listed'[l] = Item(l[1], l[2])'
<1>1. Shows(FilesOnDisk, Listed)
  BY DictionaryIs
<1>2. ((signature => Orderly) => Shows(FilesOnDisk, Listed))'
  BY DictionaryIs, PTL
<1>3. Shows(FilesOnDisk', Listed')
  BY <1>2 DEF Shows
<1>4. QED BY <1>1, <1>3 DEF Listed

LEMMA ListedSame ==
  ASSUME signature => Orderly, (signature => Orderly)', Listing' = Listing,
         \A l \in Listing : Item(l[1], l[2])' = Item(l[1], l[2])
  PROVE  FilesOnDisk' = FilesOnDisk
<1>1. Shows(FilesOnDisk, Listed) /\ Shows(FilesOnDisk', Listed')
  BY ShowsBoth
<1>2. Listed' = Listed
  <2>1. [l \in Listing |-> Item(l[1], l[2])]' = [l \in Listing |-> Item(l[1], l[2])]
    OBVIOUS
  <2>2. QED BY <2>1 DEF Listed
<1>3. QED BY <1>1, <1>2, ShowsOnce

\* Nothing happens on the disk.
LEMMA DiskUntouched ==
  ASSUME signature' = signature, store' = store, diskFat' = diskFat
  PROVE  FilesOnDisk' = FilesOnDisk /\ Directories' = Directories
<1>1. Directories' = Directories
  BY DirectoriesNow, DirectoriesNext
<1>2. QED
  BY <1>1 DEF FilesOnDisk, OccupiedPlaces, WholeEntries, EntriesOf, UsedSlots, Whole, Blocks, DiskChain

\* One more entry is whole.
LEMMA EntryJoins ==
  ASSUME signature => Orderly, (signature => Orderly)',
         NEW d, NEW s, <<d, s>> \notin Listing, Listing' = Listing \cup {<<d, s>>},
         \A k \in Listing : Item(k[1], k[2])' = Item(k[1], k[2])
  PROVE  Added(FilesOnDisk, <<d, store'[d].table[s].name>>, Content(store[d].table[s])', FilesOnDisk')
<1>1. PICK l : l = <<d, s>> /\ l[1] = d /\ l[2] = s
  <2>1. <<d, s>>[1] = d /\ <<d, s>>[2] = s
    OBVIOUS
  <2>2. QED BY <2>1
<1>2. \A k \in Listing : Listed'[k] = Listed[k]
  BY ShowsBoth
<1>3. Added(FilesOnDisk, <<l[1], Listed'[l].name>>, Listed'[l].holds, FilesOnDisk')
  BY <1>1, <1>2, ShowsBoth, ShowsMore
<1>4. Listed'[l] = Item(d, s)'
  BY <1>1, ShowsBoth
<1>5. QED BY <1>1, <1>3, <1>4 DEF Item

\* One entry is no longer whole.
LEMMA EntryLeaves ==
  ASSUME signature => Orderly, (signature => Orderly)',
         NEW d, NEW s, <<d, s>> \in Listing, Listing' = Listing \ {<<d, s>>},
         \A k \in Listing' : Item(k[1], k[2])' = Item(k[1], k[2])
  PROVE  Added(FilesOnDisk', <<d, store[d].table[s].name>>, Content(store[d].table[s]), FilesOnDisk)
<1>1. PICK l : l = <<d, s>> /\ l[1] = d /\ l[2] = s
  <2>1. <<d, s>>[1] = d /\ <<d, s>>[2] = s
    OBVIOUS
  <2>2. QED BY <2>1
<1>2. \A k \in Listing' : Listed[k] = Listed'[k]
  BY ShowsBoth
<1>3. Listing = Listing' \cup {l} /\ l \notin Listing'
  BY <1>1
<1>4. Added(FilesOnDisk', <<l[1], Listed[l].name>>, Listed[l].holds, FilesOnDisk)
  BY <1>1, <1>2, <1>3, ShowsBoth, ShowsMore
<1>5. Listed[l] = Item(d, s)
  BY <1>1, ShowsBoth
<1>6. QED BY <1>1, <1>4, <1>5 DEF Item

\* An entry is put into a slot that was not in use, all other entries being
\* whole before and after.
LEMMA PutJoins ==
  ASSUME Orderly, Orderly', signature, signature', NEW parent, NEW slot \in Slots \ {0}, NEW e, e.used,
         EntryPut(parent, slot, e),
         \A d \in Directories, s \in Slots : InUse(store, d, s) =>
           Whole(store[d].table[s]) /\ Whole(store[d].table[s])' /\ Item(d, s)' = Item(d, s),
         Whole(store[parent].table[slot])'
  PROVE  Added(FilesOnDisk, <<parent, e.name>>, Content(e)', FilesOnDisk')
<1>1. /\ parent \in Directories /\ slot \in Slots
      /\ ~InUse(store, parent, slot) /\ InUse(store', parent, slot)
      /\ store'[parent].table[slot] = e
      /\ \A d \in Directories, s \in Slots : d # parent \/ s # slot =>
           /\ InUse(store', d, s) <=> InUse(store, d, s)
           /\ store'[d].table[s] = store[d].table[s]
      /\ Directories \subseteq Directories'
      /\ \A d \in Directories', s \in Slots : InUse(store', d, s) => d \in Directories
  BY DEF EntryPut, Replaced, InUse
<1> DEFINE l == <<parent, slot>>
<1>2. l = <<parent, slot>> /\ l[1] = parent /\ l[2] = slot
  OBVIOUS
<1> HIDE DEF l
<1>3. l \notin Listing
  BY <1>1, <1>2 DEF Listing
<1>4. \A k : k \in Listing <=> k \in Directories \X Slots /\ InUse(store, k[1], k[2])
  BY DEF Listing
<1>5. \A k : k \in Listing' <=> k \in Directories' \X Slots /\ InUse(store', k[1], k[2])
  <2>1. ASSUME NEW d \in Directories', NEW s \in Slots, InUse(store', d, s)
        PROVE  Whole(store[d].table[s])'
    <3>1. CASE d = parent /\ s = slot
      BY <3>1
    <3>2. CASE d # parent \/ s # slot
      BY <1>1, <2>1, <3>2
    <3>3. QED BY <3>1, <3>2
  <2>2. QED BY <2>1 DEF Listing
<1>6. \A k \in Listing : k # l /\ k \in Directories \X Slots /\ (k[1] # parent \/ k[2] # slot)
  BY <1>1, <1>2, <1>4
<1>7. ASSUME NEW k PROVE k \in Listing' <=> k \in Listing \/ k = l
  <2>1. CASE k \in Listing
    BY <1>1, <1>4, <1>5, <1>6, <2>1
  <2>2. CASE k = l
    BY <1>1, <1>2, <1>5, <2>2
  <2>3. ASSUME k \in Listing', k # l PROVE k \in Listing
    <3>1. k \in Directories \X Slots /\ InUse(store', k[1], k[2])
      BY <1>1, <1>5, <2>3
    <3>2. k[1] # parent \/ k[2] # slot
      BY <1>2, <2>3, <3>1
    <3>3. QED BY <1>1, <1>4, <3>1, <3>2
  <2>4. QED BY <2>1, <2>2, <2>3
<1>8. Listing' = Listing \cup {l}
  BY <1>7
<1>9. \A k \in Listing : Item(k[1], k[2])' = Item(k[1], k[2])
  BY <1>4
<1>10. Added(FilesOnDisk, <<parent, store'[parent].table[slot].name>>,
             Content(store[parent].table[slot])', FilesOnDisk')
  BY <1>2, <1>3, <1>8, <1>9, EntryJoins
<1>11. Content(store[parent].table[slot])' = Content(e)'
  BY <1>1 DEF Content, Blocks, DiskChain
<1>12. QED BY <1>1, <1>10, <1>11

\* A write() adds its entry, with its last write, or nothing.
LEMMA WriteInDictionary ==
  ASSUME NEW own \in BOOLEAN, NEW sure \in BOOLEAN, sure => RoomForNames,
         Fat32Inv(own, sure), mode = "write", DiskWrite,
         NEW parent, NEW e, NEW chain, NEW what, NEW done,
         WriteJob(own, sure, parent, e, chain, what, done)
  PROVE  \/ FilesOnDisk' = FilesOnDisk /\ (done # Len(chain) + 1 \/ ~RoomForNames)
         \/ /\ done = Len(chain) + 1
            /\ Added(FilesOnDisk, <<parent, e.name>>, Content(e)', FilesOnDisk')
<1>1. Base /\ signature
  BY DEF Fat32Inv
<1>2. Fat32Inv(own, sure)'
  BY DiskWriteSafe
<1>3. /\ Tree(own, Directories, store, diskFat, {}, ToSet(chain))
      /\ parent \in Directories /\ e.used /\ Directories \subseteq Clusters
  BY DirectoriesNow DEF WriteJob, Settled, Announced
<1>4. Orderly /\ (signature' => Orderly')
  <2>1. (signature => Orderly)'
    BY <1>2, TablesOrderly, PTL
  <2>2. QED BY <1>1, <2>1, TablesOrderly
<1>5. /\ mode' \in {"idle", "write"} /\ signature' = signature /\ Apart(ToSet(chain))
      /\ \/ SameEntries /\ (done # Len(chain) + 1 \/ ~RoomForNames)
         \/ done = Len(chain) + 1 /\ \E slot \in Slots \ {0} : EntryPut(parent, slot, e)
  <2>1. CASE done = Len(chain) + 1
    <3>1. mode' = "idle" /\ signature' = signature /\ diskFat' = diskFat /\ OnlyAt(parent)
      BY <1>1, <2>1, WriteEnds
    <3>2. \/ SameEntries /\ ~RoomForNames
          \/ \E slot \in Slots \ {0} : EntryPut(parent, slot, e)
      BY <1>1, <2>1, WriteEnds
    <3>3. Apart(ToSet(chain))
      BY <1>3, <3>1 DEF Apart, OnlyAt
    <3>4. QED BY <2>1, <3>1, <3>2, <3>3
  <2>2. CASE done # Len(chain) + 1
    <3>1. PICK next : next = done + 1
      OBVIOUS
    <3>2. mode' = "write" /\ signature' = signature /\ SameEntries /\ Elsewhere(ToSet(chain))
      BY <1>1, <2>2, <3>1, WriteGoesOn
    <3>3. Apart(ToSet(chain))
      BY <3>2 DEF Apart, Elsewhere
    <3>4. QED BY <2>2, <3>2, <3>3
  <2>3. QED BY <2>1, <2>2
<1>6. ASSUME NEW d \in Directories, NEW s \in Slots, InUse(store, d, s),
             store'[d].table[s] = store[d].table[s]
      PROVE  Whole(store[d].table[s]) /\ Whole(store[d].table[s])' /\ Item(d, s)' = Item(d, s)
  <2>1. Stays(store, {}, d, s)
    BY <1>6 DEF Stays
  <2>2. QED BY <1>3, <1>5, <1>6, <2>1, ItemKept
<1>7. CASE SameEntries /\ (done # Len(chain) + 1 \/ ~RoomForNames)
  <2>1. /\ Directories' = Directories
        /\ \A d \in Directories, s \in Slots :
             /\ InUse(store', d, s) <=> InUse(store, d, s)
             /\ InUse(store, d, s) => store'[d].table[s] = store[d].table[s]
    BY <1>7 DEF SameEntries, InUse
  <2>2. Listing' = Listing
    BY <1>1, <1>5, <1>6, <2>1 DEF Listing
  <2>3. \A l \in Listing : Item(l[1], l[2])' = Item(l[1], l[2])
    BY <1>6, <2>1 DEF Listing
  <2>4. QED BY <1>4, <1>7, <2>2, <2>3, ListedSame
<1>8. CASE done = Len(chain) + 1 /\ \E slot \in Slots \ {0} : EntryPut(parent, slot, e)
  <2>1. PICK slot \in Slots \ {0} : EntryPut(parent, slot, e)
    BY <1>8
  <2>2. \A d \in Directories, s \in Slots : InUse(store, d, s) =>
          store'[d].table[s] = store[d].table[s]
    BY <2>1 DEF EntryPut, Replaced
  <2>3. Whole(store[parent].table[slot])'
    <3>1. (mode \in {"idle", "write"})'
      BY <1>5
    <3>2. NoneBroken'
      BY <1>2, <3>1, AllWhole, PTL
    <3>3. InUse(store', parent, slot) /\ parent \in Directories'
      BY <1>3, <2>1 DEF EntryPut, Replaced, InUse
    <3>4. QED BY <3>2, <3>3 DEF InUse, NoneBroken
  <2>4. QED BY <1>1, <1>3, <1>4, <1>5, <1>6, <1>8, <2>1, <2>2, <2>3, PutJoins
<1>9. QED BY <1>5, <1>7, <1>8

\* A delete() takes its entry away in one step, before its last.
LEMMA DeleteInDictionary ==
  ASSUME NEW own \in BOOLEAN, NEW sure \in BOOLEAN, sure => RoomForNames,
         Fat32Inv(own, sure), mode = "delete", DiskWrite,
         NEW parent, NEW slot, NEW e, NEW chain, NEW done,
         DeleteJob(own, sure, parent, slot, e, chain, done), NEW next, next = done + 1
  PROVE  IF Kept(e, done) /\ ~Kept(e, next)
         THEN /\ done # Len(chain) + 1
              /\ Added(FilesOnDisk', <<parent, e.name>>, Content(e), FilesOnDisk)
         ELSE FilesOnDisk' = FilesOnDisk
<1>1. Base /\ signature
  BY DEF Fat32Inv
<1>2. Fat32Inv(own, sure)'
  BY DiskWriteSafe
<1>3. OthersWhole(parent, slot, e, done)
  BY <1>1, DeleteSparesOthers
<1>4. /\ parent \in Directories /\ slot \in Slots /\ InUse(store, parent, slot)
      /\ Len(chain) \in Nat /\ Len(chain) >= 1 /\ done \in 0 .. Len(chain) + 1
      /\ e.dir => Len(chain) = 1
      /\ e = store[parent].table[slot] /\ Directories \subseteq Clusters
      /\ Tree(own, Directories, store, diskFat, {<<parent, slot>>}, ToSet(chain))
  <2>1. DeleteFacts(own, parent, slot, e, chain, done)
    BY <1>1, DeleteJobIs
  <2>2. QED BY <2>1 DEF DeleteFacts, DeleteJob
<1> DEFINE l == <<parent, slot>>
<1>5. l \in Directories \X Slots /\ l[1] = parent /\ l[2] = slot
  BY <1>4
<1> HIDE DEF l
<1>6. \A k : k \in Directories \X Slots /\ k # l => k[1] # parent \/ k[2] # slot
  BY DEF l
<1>7. Orderly /\ (signature => Orderly)'
  <2>1. (signature => Orderly)'
    BY <1>2, TablesOrderly, PTL
  <2>2. QED BY <1>1, <2>1, TablesOrderly
<1>8. ASSUME NEW d \in Directories, NEW s \in Slots, InUse(store, d, s), d # parent \/ s # slot,
             store'[d].table[s] = store[d].table[s], Apart(ToSet(chain))
      PROVE  Whole(store[d].table[s]) /\ Whole(store[d].table[s])' /\ Item(d, s)' = Item(d, s)
  <2>1. Stays(store, {<<parent, slot>>}, d, s)
    BY <1>8 DEF Stays
  <2>2. QED BY <1>4, <1>8, <2>1, ItemKept
<1>9. CASE done = Len(chain) + 1
  <2>1. /\ mode' = "idle" /\ signature' = signature /\ EntryTaken(parent, slot) /\ diskFat' = diskFat
    BY <1>1, <1>9, DeleteEnds
  <2>2. ~Kept(e, done)
    BY <1>4, <1>9 DEF Kept
  <2>3. Apart(ToSet(chain))
    BY <1>4, <2>1 DEF Apart, EntryTaken, Replaced
  <2>4. /\ ~InUse(store', parent, slot)
        /\ \A d \in Directories, s \in Slots : d # parent \/ s # slot =>
             /\ InUse(store', d, s) <=> InUse(store, d, s)
             /\ store'[d].table[s] = store[d].table[s]
        /\ Directories' \subseteq Directories
        /\ \A d \in Directories, s \in Slots : InUse(store', d, s) => d \in Directories'
    BY <2>1, EmptyEntryIs DEF EntryTaken, Replaced, InUse
  <2>5. \A k : k \in Listing <=>
          k \in Directories \X Slots /\ InUse(store, k[1], k[2]) /\ k # l
    BY <1>1, <1>3, <1>5, <1>6, <2>2 DEF Listing, OthersWhole
  <2>6. \A k : k \in Listing' <=> k \in Directories' \X Slots /\ InUse(store', k[1], k[2])
    <3>1. NoneBroken'
      <4>1. (mode \in {"idle", "write"})'
        BY <2>1
      <4>2. QED BY <1>2, <4>1, AllWhole, PTL
    <3>2. \A d \in Directories', s \in Slots : InUse(store', d, s) => Whole(store[d].table[s])'
      BY <3>1 DEF InUse, NoneBroken
    <3>3. QED BY <1>1, <2>1, <3>2 DEF Listing
  <2>7. ASSUME NEW k PROVE k \in Listing' <=> k \in Listing
    <3>1. CASE k = l
      BY <1>5, <2>4, <2>5, <2>6, <3>1
    <3>2. ASSUME k # l, k \in Directories \X Slots PROVE k \in Listing' <=> k \in Listing
      <4>1. InUse(store', k[1], k[2]) <=> InUse(store, k[1], k[2])
        BY <1>6, <2>4, <3>2
      <4>2. InUse(store', k[1], k[2]) => k \in Directories' \X Slots
        BY <2>4, <3>2
      <4>3. QED BY <2>5, <2>6, <3>2, <4>1, <4>2
    <3>3. CASE k \notin Directories \X Slots
      <4>1. k \notin Directories' \X Slots
        BY <2>4, <3>3
      <4>2. QED BY <2>5, <2>6, <3>3, <4>1
    <3>4. QED BY <3>1, <3>2, <3>3
  <2>8. Listing' = Listing
    <3>1. \A k \in Listing' : k \in Listing
      BY <2>7
    <3>2. \A k \in Listing : k \in Listing'
      BY <2>7
    <3>3. QED BY <3>1, <3>2
  <2>9. ASSUME NEW k \in Listing PROVE Item(k[1], k[2])' = Item(k[1], k[2])
    <3>1. k \in Directories \X Slots /\ InUse(store, k[1], k[2]) /\ (k[1] # parent \/ k[2] # slot)
      BY <1>6, <2>5, <2>9
    <3>2. store'[k[1]].table[k[2]] = store[k[1]].table[k[2]]
      BY <2>4, <3>1
    <3>3. k[1] \in Directories /\ k[2] \in Slots
      BY <3>1
    <3>4. QED BY <1>8, <2>3, <3>1, <3>2, <3>3
  <2>10. QED BY <1>7, <2>2, <2>8, <2>9, ListedSame
<1>10. CASE done # Len(chain) + 1
  <2>1. /\ DeleteJob(own, sure, parent, slot, e, chain, next)' /\ Base' /\ mode' = "delete"
        /\ signature' = signature /\ SameEntries /\ Elsewhere(ToSet(chain))
    BY <1>1, <1>10, DeleteGoesOn
  <2>2. Apart(ToSet(chain))
    BY <2>1 DEF Apart, Elsewhere
  <2>3. OthersWhole(parent, slot, e, next)'
    BY <2>1, DeleteSparesThen
  <2>4. /\ Directories' = Directories
        /\ \A d \in Directories, s \in Slots :
             /\ InUse(store', d, s) <=> InUse(store, d, s)
             /\ InUse(store, d, s) => store'[d].table[s] = store[d].table[s]
    BY <2>1 DEF SameEntries, InUse
  <2>5. \A k : k \in Listing <=>
          k \in Directories \X Slots /\ InUse(store, k[1], k[2]) /\ (k # l \/ Kept(e, done))
    BY <1>1, <1>3, <1>5, <1>6 DEF Listing, OthersWhole
  <2>6. \A k : k \in Listing' <=>
          k \in Directories \X Slots /\ InUse(store, k[1], k[2]) /\ (k # l \/ Kept(e, next))
    <3>1. \A d \in Directories, s \in Slots : InUse(store, d, s) =>
            (Whole(store[d].table[s])' <=> d # parent \/ s # slot \/ Kept(e, next))
      BY <2>3, <2>4 DEF OthersWhole, InUse
    <3>2. \A k : k \in Listing' <=>
            k \in Directories \X Slots /\ InUse(store, k[1], k[2]) /\ Whole(store[k[1]].table[k[2]])'
      BY <1>1, <2>1, <2>4 DEF Listing, InUse
    <3>3. QED BY <1>5, <1>6, <3>1, <3>2
  <2>7. ASSUME NEW k \in Listing', k # l PROVE Item(k[1], k[2])' = Item(k[1], k[2])
    <3>1. k \in Directories \X Slots /\ InUse(store, k[1], k[2]) /\ (k[1] # parent \/ k[2] # slot)
      BY <1>6, <2>6, <2>7
    <3>2. store'[k[1]].table[k[2]] = store[k[1]].table[k[2]] /\ k[1] \in Directories /\ k[2] \in Slots
      BY <2>4, <3>1
    <3>3. QED BY <1>8, <2>2, <3>1, <3>2
  <2>8. Kept(e, next) => Kept(e, done)
    BY <1>4 DEF Kept
  <2>9. CASE Kept(e, done) /\ ~Kept(e, next)
    <3>1. l \in Listing
      BY <1>4, <1>5, <2>5, <2>9
    <3>2. Listing' = Listing \ {l}
      BY <2>5, <2>6, <2>9
    <3>3. \A k \in Listing' : Item(k[1], k[2])' = Item(k[1], k[2])
      BY <2>7, <3>2
    <3>4. Added(FilesOnDisk', <<parent, store[parent].table[slot].name>>,
                Content(store[parent].table[slot]), FilesOnDisk)
      BY <1>7, <3>1, <3>2, <3>3, EntryLeaves DEF l
    <3>5. QED BY <1>4, <1>10, <2>9, <3>4
  <2>10. CASE ~(Kept(e, done) /\ ~Kept(e, next))
    <3>1. Listing' = Listing
      BY <2>5, <2>6, <2>8, <2>10
    <3>2. ASSUME l \in Listing PROVE Item(parent, slot)' = Item(parent, slot)
      <4>1. Kept(e, next) /\ next > 0
        BY <1>4, <2>5, <2>8, <2>10, <3>2
      <4>2. e.dir
        BY <4>1 DEF Kept
      <4>3. store'[parent].table[slot] = e
        BY <1>4, <2>4
      <4>4. Content(e)' = Content(e)
        BY <4>2 DEF Content, Blocks
      <4>5. Content(store[parent].table[slot])' = Content(e)'
        BY <4>3 DEF Content, Blocks, DiskChain
      <4>6. QED BY <1>4, <4>3, <4>4, <4>5 DEF Item
    <3>3. \A k \in Listing : Item(k[1], k[2])' = Item(k[1], k[2])
      BY <1>5, <2>7, <3>1, <3>2
    <3>4. QED BY <1>7, <2>10, <3>1, <3>3, ListedSame
  <2>11. QED BY <2>9, <2>10
<1>11. QED BY <1>9, <1>10

\* A disk that is being formatted has no files.
LEMMA FormatInDictionary ==
  ASSUME NEW own \in BOOLEAN, NEW sure \in BOOLEAN, sure => RoomForNames,
         Fat32Inv(own, sure), mode = "format", DiskWrite
  PROVE  FilesOnDisk' = FilesOnDisk
<1>1. Base /\ FormatJob /\ Fat32Inv(own, sure)'
  BY DiskWriteSafe DEF Fat32Inv
<1>2. \A c \in Clusters, s \in Slots : ~InUse(store, c, s) /\ ~InUse(store', c, s)
  BY <1>1, FormatStep
<1>3. (Directories \subseteq Clusters)'
  BY DirectoriesNow, PTL
<1>4. Listing = {} /\ Listing' = {}
  BY <1>2, <1>3, DirectoriesNow DEF Listing
<1>5. (signature => Orderly)'
  BY <1>1, TablesOrderly, PTL
<1>6. QED BY <1>4, <1>5, TablesOrderly, ListedSame

\* The driver, with power failures between calls and inside write(), on any
\* disk: every step puts one whole file or folder into the dictionary, removes
\* one, or leaves the dictionary alone.
THEOREM DriverIsFileStore == Sheltered => (CarefulSpec => DictionaryOfFiles)
<1> SUFFICES ASSUME Sheltered PROVE CarefulSpec => FS!Spec
  BY DEF DictionaryOfFiles
<1>1. Init => FS!Init
  <2> SUFFICES ASSUME Init PROVE DOMAIN FilesOnDisk = {}
    BY DEF FS!Init
  <2>1. OccupiedPlaces = {}
    BY DEF Init, OccupiedPlaces
  <2>2. QED BY <2>1 DEF FilesOnDisk
<1>2. DriverInv /\ [CarefulNext]_vars => [FS!Next]_FilesOnDisk
  <2> SUFFICES ASSUME DriverInv, [CarefulNext]_vars PROVE FS!Next \/ FilesOnDisk' = FilesOnDisk
    OBVIOUS
  <2>1. Fat32Inv(TRUE, FALSE) /\ Fat32Inv(TRUE, FALSE)'
    BY DriverStep DEF DriverInv, Sheltered, Spared, PowerFailure
  <2>2. CASE DiskWrite
    <3>1. mode \in {"format", "write", "delete"}
      BY <2>1, <2>2 DEF Fat32Inv, Base, DiskWrite, Busy, Calling
    <3>2. CASE mode = "format"
      BY <2>1, <2>2, <3>2, FormatInDictionary
    <3>3. CASE mode = "write"
      <4>1. PICK parent, e, chain, what, done : WriteJob(TRUE, FALSE, parent, e, chain, what, done)
        BY <2>1, <3>3 DEF Fat32Inv
      <4>2. \/ FilesOnDisk' = FilesOnDisk
            \/ Added(FilesOnDisk, <<parent, e.name>>, Content(e)', FilesOnDisk')
        BY <2>1, <2>2, <3>3, <4>1, WriteInDictionary
      <4>3. (\A p \in DOMAIN FilesOnDisk : p \in Places /\ FilesOnDisk[p] \in Contents)'
        BY <2>1, FilesOfKind, PTL
      <4>4. FilesOnDisk' # FilesOnDisk => FS!Extends(FilesOnDisk', FilesOnDisk)
        BY <4>2, AddedExtends
      <4>5. QED BY <4>3, <4>4 DEF FS!Next, FS!Put, Places, Contents
    <3>4. CASE mode = "delete"
      <4>1. PICK parent, slot, e, chain, done : DeleteJob(TRUE, FALSE, parent, slot, e, chain, done)
        BY <2>1, <3>4 DEF Fat32Inv
      <4>2. PICK next : next = done + 1
        OBVIOUS
      <4>3. \/ FilesOnDisk' = FilesOnDisk
            \/ Added(FilesOnDisk', <<parent, e.name>>, Content(e), FilesOnDisk)
        <5>1. IF Kept(e, done) /\ ~Kept(e, next)
              THEN Added(FilesOnDisk', <<parent, e.name>>, Content(e), FilesOnDisk)
              ELSE FilesOnDisk' = FilesOnDisk
          BY <2>1, <2>2, <3>4, <4>1, <4>2, DeleteInDictionary
        <5>2. QED BY <5>1
      <4>4. FilesOnDisk' # FilesOnDisk => FS!Extends(FilesOnDisk, FilesOnDisk')
        BY <4>3, AddedExtends
      <4>5. QED BY <4>4 DEF FS!Next, FS!Remove
    <3>5. QED BY <3>1, <3>2, <3>3, <3>4
  <2>3. CASE Initialize \/ PowerFailure \/ CarefulCalls \/ UNCHANGED vars
    <3>1. signature' = signature /\ store' = store /\ diskFat' = diskFat
      BY <2>3 DEF Initialize, PowerFailure, CarefulCalls, Write, Delete, vars
    <3>2. QED BY <3>1, DiskUntouched
  <2>4. QED BY <2>2, <2>3 DEF CarefulNext
<1>3. QED BY <1>1, <1>2, TreeSafe, PTL DEF CarefulSpec, CarefulNext, FS!Spec
=============================================================================
