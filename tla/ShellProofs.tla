----------------------------- MODULE ShellProofs -----------------------------
(***************************************************************************)
(* Safety of the shell's file commands.  A command is a stage after stage  *)
(* of calls; the invariant says for each stage what is still to be done,   *)
(* so that the files are what the command was asked for once nothing is.   *)
(* The driver's part is Fat32Inv; mv, which goes past the driver, takes an *)
(* entry out of one table and puts it into another by itself.              *)
(***************************************************************************)
EXTENDS Shell, FileStoreProofs

-----------------------------------------------------------------------------
(* Dictionaries.                                                           *)

LEMMA AddedIsWith ==
  ASSUME NEW f, NEW g, NEW place, NEW what, Added(f, place, what, g)
  PROVE  g = With(f, place, what) /\ f = Without(g, place)
<1>1. DOMAIN g = DOMAIN f \cup {place} /\ DOMAIN f = DOMAIN g \ {place}
  BY DEF Added
<1>2. \A p \in DOMAIN g : g[p] = IF p = place THEN what ELSE f[p]
  BY DEF Added
<1>3. \A p \in DOMAIN f : f[p] = g[p]
  BY DEF Added
<1>4. g = [p \in DOMAIN g |-> g[p]] /\ f = [p \in DOMAIN f |-> f[p]]
  BY DEF Added
<1>5. g = With(f, place, what)
  BY <1>1, <1>2, <1>4 DEF With
<1>6. f = Without(g, place)
  BY <1>1, <1>3, <1>4 DEF Without
<1>7. QED BY <1>5, <1>6

\* Only these places differ.
SameBut(f, g, named) ==
  \A p \in (DOMAIN f \cup DOMAIN g) \ named :
    p \in DOMAIN f \cap DOMAIN g /\ f[p] = g[p]

LEMMA SameButWith ==
  ASSUME NEW f, NEW g, NEW named, SameBut(f, g, named), NEW place \in named, NEW what
  PROVE  SameBut(With(f, place, what), g, named) /\ SameBut(Without(f, place), g, named)
<1>1. /\ DOMAIN With(f, place, what) = DOMAIN f \cup {place}
      /\ \A p \in DOMAIN f : p # place => With(f, place, what)[p] = f[p]
  BY DEF With
<1>2. /\ DOMAIN Without(f, place) = DOMAIN f \ {place}
      /\ \A p \in DOMAIN f \ {place} : Without(f, place)[p] = f[p]
  BY DEF Without
<1>3. SameBut(With(f, place, what), g, named)
  BY <1>1 DEF SameBut
<1>4. SameBut(Without(f, place), g, named)
  BY <1>2 DEF SameBut
<1>5. QED BY <1>3, <1>4

LEMMA SameButRefl == ASSUME NEW f, NEW named PROVE SameBut(f, f, named)
BY DEF SameBut

\* Whether a place is emptied before it is filled makes no difference.
LEMMA WithWithout ==
  ASSUME NEW f, NEW place, NEW what
  PROVE  With(Without(f, place), place, what) = With(f, place, what)
<1>1. DOMAIN Without(f, place) = DOMAIN f \ {place}
  BY DEF Without
<1>2. DOMAIN Without(f, place) \cup {place} = DOMAIN f \cup {place}
  BY <1>1
<1>3. \A p \in DOMAIN f \cup {place} : p # place => Without(f, place)[p] = f[p]
  BY DEF Without
<1>4. QED BY <1>2, <1>3 DEF With

\* An entry is struck off a list, and one is entered.
LEMMA ShowsLess ==
  ASSUME NEW f, NEW few, NEW many, Shows(f, many), few = [k \in DOMAIN few |-> few[k]],
         NEW l, l \in DOMAIN many, DOMAIN few = DOMAIN many \ {l},
         \A k \in DOMAIN few : few[k] = many[k]
  PROVE  Shows(Without(f, <<l[1], many[l].name>>), few)
<1>1. PICK place : place = <<l[1], many[l].name>>
  OBVIOUS
<1>2. PICK g : g = Without(f, place)
  OBVIOUS
<1>3. g = [p \in DOMAIN g |-> g[p]] /\ DOMAIN g = DOMAIN f \ {place}
      /\ \A p \in DOMAIN g : g[p] = f[p]
  BY <1>2 DEF Without
<1>4. ASSUME NEW k \in DOMAIN few
      PROVE  /\ k \in DOMAIN many /\ few[k] = many[k]
             /\ <<k[1], few[k].name>> # place /\ <<k[1], few[k].name>> \in DOMAIN f
             /\ f[<<k[1], few[k].name>>] = few[k].holds
  <2>1. k \in DOMAIN many /\ few[k] = many[k] /\ k # l
    OBVIOUS
  <2>2. ~(k[1] = l[1] /\ many[k].name = many[l].name)
    BY <2>1 DEF Shows
  <2>3. <<k[1], many[k].name>> # <<l[1], many[l].name>>
    BY <2>2
  <2>4. <<k[1], many[k].name>> \in DOMAIN f /\ f[<<k[1], many[k].name>>] = many[k].holds
    BY <2>1 DEF Shows
  <2>5. QED BY <1>1, <2>1, <2>3, <2>4
<1>5. ASSUME NEW p \in DOMAIN g PROVE \E k \in DOMAIN few : p = <<k[1], few[k].name>>
  <2>1. p \in DOMAIN f /\ p # place
    BY <1>3
  <2>2. PICK k \in DOMAIN many : p = <<k[1], many[k].name>>
    BY <2>1 DEF Shows
  <2>3. k # l
    BY <1>1, <2>1, <2>2
  <2>4. QED BY <2>2, <2>3
<1>6. DOMAIN g = {<<k[1], few[k].name>> : k \in DOMAIN few}
  BY <1>3, <1>4, <1>5
<1>7. \A k \in DOMAIN few : g[<<k[1], few[k].name>>] = few[k].holds
  BY <1>3, <1>4
<1>8. \A j, k \in DOMAIN few : j[1] = k[1] /\ few[j].name = few[k].name => j = k
  <2>1. SUFFICES ASSUME NEW j \in DOMAIN few, NEW k \in DOMAIN few, j[1] = k[1], few[j].name = few[k].name
                 PROVE  j = k
    OBVIOUS
  <2>2. j \in DOMAIN many /\ k \in DOMAIN many /\ many[j].name = many[k].name
    BY <1>4, <2>1
  <2>3. QED BY <2>1, <2>2 DEF Shows
<1>9. QED BY <1>1, <1>2, <1>3, <1>6, <1>7, <1>8 DEF Shows

LEMMA ShowsPlus ==
  ASSUME NEW f, NEW few, NEW many, Shows(f, few), many = [k \in DOMAIN many |-> many[k]],
         NEW l, l \notin DOMAIN few, DOMAIN many = DOMAIN few \cup {l},
         \A k \in DOMAIN few : many[k] = few[k],
         \A k \in DOMAIN few : k[1] = l[1] => few[k].name # many[l].name
  PROVE  Shows(With(f, <<l[1], many[l].name>>, many[l].holds), many)
<1>1. PICK place : place = <<l[1], many[l].name>>
  OBVIOUS
<1>2. PICK g : g = With(f, place, many[l].holds)
  OBVIOUS
<1>3. /\ g = [p \in DOMAIN g |-> g[p]] /\ DOMAIN g = DOMAIN f \cup {place}
      /\ g[place] = many[l].holds /\ \A p \in DOMAIN f : p # place => g[p] = f[p]
  <2>1. PICK what : what = many[l].holds
    OBVIOUS
  <2>2. g = [p \in DOMAIN f \cup {place} |-> IF p = place THEN what ELSE f[p]]
    BY ONLY <1>2, <2>1 DEF With
  <2>3. DOMAIN g = DOMAIN f \cup {place}
    BY ONLY <2>2
  <2>4. \A p \in DOMAIN f \cup {place} : g[p] = IF p = place THEN what ELSE f[p]
    BY ONLY <2>2
  <2>5. g = [p \in DOMAIN g |-> g[p]]
    BY ONLY <2>2
  <2>6. QED BY ONLY <2>1, <2>3, <2>4, <2>5
<1>4. ASSUME NEW k \in DOMAIN few
      PROVE  /\ many[k] = few[k] /\ k # l
             /\ <<k[1], few[k].name>> # place /\ <<k[1], few[k].name>> \in DOMAIN f
             /\ f[<<k[1], few[k].name>>] = few[k].holds
  <2>1. ~(k[1] = l[1] /\ few[k].name = many[l].name)
    OBVIOUS
  <2>2. <<k[1], few[k].name>> # <<l[1], many[l].name>>
    BY <2>1
  <2>3. <<k[1], few[k].name>> \in DOMAIN f /\ f[<<k[1], few[k].name>>] = few[k].holds
    BY DEF Shows
  <2>4. many[k] = few[k] /\ k # l
    OBVIOUS
  <2>5. QED BY ONLY <1>1, <2>2, <2>3, <2>4
<1>5. ASSUME NEW p \in DOMAIN g PROVE \E k \in DOMAIN many : p = <<k[1], many[k].name>>
  <2>1. CASE p = place
    BY <1>1, <2>1
  <2>2. CASE p # place
    <3>1. PICK k \in DOMAIN few : p = <<k[1], few[k].name>>
      BY <1>3, <2>2 DEF Shows
    <3>2. QED BY <1>4, <3>1
  <2>3. QED BY <2>1, <2>2
<1>6. ASSUME NEW k \in DOMAIN many
      PROVE  <<k[1], many[k].name>> \in DOMAIN g /\ g[<<k[1], many[k].name>>] = many[k].holds
  <2>1. CASE k = l
    BY <1>1, <1>3, <2>1
  <2>2. CASE k # l
    BY <1>3, <1>4, <2>2
  <2>3. QED BY <2>1, <2>2
<1>7. DOMAIN g = {<<k[1], many[k].name>> : k \in DOMAIN many}
  <2>1. \A k \in DOMAIN many : <<k[1], many[k].name>> \in DOMAIN g
    BY ONLY <1>6
  <2>2. \A p \in DOMAIN g : \E k \in DOMAIN many : p = <<k[1], many[k].name>>
    BY ONLY <1>5
  <2>3. QED BY ONLY <2>1, <2>2
<1>8. \A j, k \in DOMAIN many : j[1] = k[1] /\ many[j].name = many[k].name => j = k
  <2>1. SUFFICES ASSUME NEW j \in DOMAIN many, NEW k \in DOMAIN many, j[1] = k[1], many[j].name = many[k].name
                 PROVE  j = k
    OBVIOUS
  <2>2. CASE j \in DOMAIN few /\ k \in DOMAIN few
    BY <1>4, <2>1, <2>2 DEF Shows
  <2>3. CASE j = l \/ k = l
    BY <1>4, <2>1, <2>3
  <2>4. QED BY <2>2, <2>3
<1>9. /\ g = [p \in DOMAIN g |-> g[p]]
      /\ \A k \in DOMAIN many : g[<<k[1], many[k].name>>] = many[k].holds
  BY ONLY <1>3, <1>6
<1>10. many = [k \in DOMAIN many |-> many[k]]
  OBVIOUS
<1>11. Shows(g, many)
  BY ONLY <1>7, <1>8, <1>9, <1>10 DEF Shows
<1>12. QED BY ONLY <1>1, <1>2, <1>11

-----------------------------------------------------------------------------
(* An entry goes from one table to another.                                *)

\* What an entry stands for, and all that a tree shows.
Stored(st, map, e) ==
  [dir |-> e.dir,
   blocks |-> IF e.dir THEN <<>>
              ELSE [k \in DOMAIN Chain(map, e.cluster) |-> st[Chain(map, e.cluster)[k]].data]]

Line(st, map, d, s) == [name |-> st[d].table[s].name, holds |-> Stored(st, map, st[d].table[s])]

Entered(D, st) == {l \in D \X Slots : InUse(st, l[1], l[2])}

Roll(D, st, map) == [l \in Entered(D, st) |-> Line(st, map, l[1], l[2])]

\* Without broken entries the roll is the list.
LEMMA RollIsListed ==
  ASSUME signature, NoneBroken
  PROVE  Listed = Roll(Directories, store, diskFat)
<1>1. Listing = Entered(Directories, store)
  BY DEF Listing, Entered, NoneBroken
<1>2. ASSUME NEW d, NEW s PROVE Item(d, s) = Line(store, diskFat, d, s)
  BY DEF Item, Line, Content, Stored, Blocks, DiskChain, Chain
<1>3. QED BY <1>1, <1>2 DEF Listed, Roll

\* Entries that differ in their names only.
SameBody(e, x) == x.used = e.used /\ x.dir = e.dir /\ x.cluster = e.cluster /\ x.length = e.length

\* They hold the same, under any name in any directory.
SameHeld(st, map, e, p, x) ==
  /\ Held(FALSE, st, map, p, x)
  /\ Owned(map, x) = Owned(map, e)
  /\ Stored(st, map, x) = Stored(st, map, e)

LEMMA BodyHeld ==
  ASSUME NEW st, NEW map, NEW d, NEW e, Held(FALSE, st, map, d, e), NEW p, NEW x, SameBody(e, x)
  PROVE  SameHeld(st, map, e, p, x)
<1>1. Chain(map, x.cluster) = Chain(map, e.cluster) /\ Linked(map, x.cluster)
  BY DEF SameBody, Held
<1>2. Held(FALSE, st, map, p, x)
  <2>1. x.dir => map[x.cluster] = Eof /\ x.length = 0
    BY DEF SameBody, Held
  <2>2. ~x.dir => /\ Len(Chain(map, x.cluster)) = x.length
                  /\ \A k \in 1 .. x.length : Sound(FALSE, p, x.name, k, st[Chain(map, x.cluster)[k]].data)
    BY <1>1 DEF SameBody, Held, Sound
  <2>3. QED BY <1>1, <2>1, <2>2 DEF Held
<1>3. QED BY <1>1, <1>2 DEF SameBody, Owned, Stored, SameHeld

\* What is in the tables is all that may change.
TablesOnly(D, st, other) == \A c \in Clusters \ D : other[c] = st[c]

Untouched(st, map, other, d, e) ==
  Held(FALSE, other, map, d, e) /\ Stored(other, map, e) = Stored(st, map, e)

LEMMA BodyUntouched ==
  ASSUME NEW D, NEW st, NEW map, Tree(FALSE, D, st, map, {}, {}), Reached(D, st, Root),
         NEW other, TablesOnly(D, st, other),
         NEW d \in D, NEW s \in Slots, InUse(st, d, s), NEW e, e = st[d].table[s]
  PROVE  Untouched(st, map, other, d, e)
<1>1. Stays(st, {}, d, s) /\ Held(FALSE, st, map, d, e)
  BY DEF Stays, Tree
<1>2. CASE e.dir
  BY <1>1, <1>2 DEF Held, Stored, Untouched
<1>3. CASE ~e.dir
  <2>1. Linked(map, e.cluster)
    BY <1>1 DEF Held
  <2>2. PICK chain : chain = Chain(map, e.cluster)
    OBVIOUS
  <2>3. /\ Len(chain) \in Nat /\ chain \in Seq(Clusters)
        /\ \A k \in 1 .. Len(chain) : chain[k] \in ToSet(chain) /\ chain[k] \in Clusters
    BY <2>1, <2>2, LinkedSound
  <2>4. ASSUME NEW p \in D PROVE p \notin ToSet(chain)
    BY <1>1, <1>3, <2>2, DirNotInFile DEF Owned
  <2>5. \A k \in 1 .. Len(chain) : other[chain[k]] = st[chain[k]]
    BY <2>3, <2>4 DEF TablesOnly
  <2>6. DOMAIN chain = 1 .. Len(chain)
    BY <2>3
  <2>7. Stored(other, map, e) = Stored(st, map, e)
    BY <1>3, <2>2, <2>5, <2>6 DEF Stored
  <2>8. Held(FALSE, other, map, d, e)
    <3>1. Len(chain) = e.length /\ \A k \in 1 .. e.length : Sound(FALSE, d, e.name, k, st[chain[k]].data)
      BY <1>1, <1>3, <2>2 DEF Held
    <3>2. \A k \in 1 .. e.length : Sound(FALSE, d, e.name, k, other[chain[k]].data)
      BY <2>5, <3>1
    <3>3. QED BY <1>3, <2>1, <2>2, <3>1, <3>2 DEF Held
  <2>9. QED BY <2>7, <2>8 DEF Untouched
<1>4. QED BY <1>2, <1>3

\* An entry is struck from a table.
Struck(D, st, c, s, one) ==
  /\ c \in D /\ InUse(st, c, s)
  /\ Replaced(D, st, one, c, s, EmptyEntry)

\* What that leaves.
LEMMA StruckIs ==
  ASSUME NEW D, NEW st, NEW one, NEW c, NEW s, Struck(D, st, c, s, one), D \subseteq Clusters
  PROVE  /\ s \in Slots \ {0} /\ TablesOnly(D, st, one)
         /\ \A d \in D, r \in Slots : InUse(one, d, r) <=> InUse(st, d, r) /\ (d # c \/ r # s)
         /\ \A d \in D, r \in Slots : d # c \/ r # s => one[d].table[r] = st[d].table[r]
         /\ \A d \in Clusters \ {c} : one[d] = st[d]
<1>1. /\ s \in Slots \ {0} /\ one[c].table[s] = EmptyEntry /\ ~EmptyEntry.used
      /\ \A d \in D, r \in Slots : d # c \/ r # s => one[d].table[r] = st[d].table[r]
      /\ \A d \in Clusters \ {c} : one[d] = st[d]
  BY EmptyEntryIs DEF Struck, Replaced, InUse
<1>2. TablesOnly(D, st, one)
  BY <1>1 DEF Struck, TablesOnly
<1>3. ASSUME NEW d \in D, NEW r \in Slots
      PROVE  InUse(one, d, r) <=> InUse(st, d, r) /\ (d # c \/ r # s)
  <2>1. CASE d # c \/ r # s
    BY <1>1, <2>1 DEF InUse
  <2>2. CASE d = c /\ r = s
    BY <1>1, <2>2 DEF InUse
  <2>3. QED BY <2>1, <2>2
<1>4. QED BY <1>1, <1>2, <1>3

\* The tree without an entry, which need not be all of what is left.
LEMMA StruckTree ==
  ASSUME NEW D, NEW st, NEW map, Tree(FALSE, D, st, map, {}, {}), Reached(D, st, Root),
         NEW one, NEW c, NEW s, Struck(D, st, c, s, one), NEW E, Reached(E, one, Root)
  PROVE  E \subseteq D /\ Tree(FALSE, E, one, map, {}, {})
<1>1. D \subseteq Clusters /\ Root \in D /\ Closed(st, D) /\ Root \in Slots \cup {Root}
  BY DEF Reached
<1>2. /\ s \in Slots \ {0} /\ TablesOnly(D, st, one)
      /\ \A d \in D, r \in Slots : InUse(one, d, r) <=> InUse(st, d, r) /\ (d # c \/ r # s)
      /\ \A d \in D, r \in Slots : d # c \/ r # s => one[d].table[r] = st[d].table[r]
  BY <1>1, StruckIs
<1>3. \A d \in D, r \in Slots : InUse(one, d, r) => InUse(st, d, r) /\ one[d].table[r] = st[d].table[r]
  BY <1>2
<1>4. Closed(one, D)
  <2>1. SUFFICES ASSUME NEW d \in D, NEW q \in Clusters, Child(one, d, q) PROVE q \in D
    BY DEF Closed
  <2>2. Child(st, d, q)
    BY <1>3, <2>1 DEF Child
  <2>3. QED BY <1>1, <2>2 DEF Closed
<1>5. E \subseteq D
  BY <1>1, <1>4 DEF Reached
<1>6. ASSUME NEW d \in E PROVE Tidy(one[d].table) /\ Headed(one[d].table)
  <2>1. d \in D /\ Tidy(st[d].table) /\ Headed(st[d].table) /\ 0 \in Slots /\ s # 0
    BY <1>2, <1>5, Constants DEF Tree
  <2>2. one[d].table[0] = st[d].table[0]
    BY <1>2, <2>1
  <2>3. CASE d # c
    <3>1. SlotSet(st[d].table, s, st[d].table[s], one[d].table)
      BY <1>2, <2>1, <2>3 DEF SlotSet
    <3>2. Tidy(one[d].table)
      BY <2>1, <3>1 DEF Tidy, SlotSet
    <3>3. QED BY <2>1, <2>2, <3>2 DEF Headed
  <2>4. CASE d = c
    <3>1. SlotSet(st[d].table, s, EmptyEntry, one[d].table)
      BY <1>2, <2>1, <2>4 DEF SlotSet, Struck, Replaced
    <3>2. Tidy(one[d].table)
      BY <1>2, <2>1, <3>1, TidyChanged
    <3>3. QED BY <2>1, <2>2, <3>2 DEF Headed
  <2>5. QED BY <2>3, <2>4
<1>7. ASSUME NEW d \in E, NEW r \in Slots, Stays(one, {}, d, r)
      PROVE  /\ d \in D /\ Stays(st, {}, d, r) /\ one[d].table[r] = st[d].table[r]
             /\ Held(FALSE, one, map, d, one[d].table[r])
             /\ Root \notin Owned(map, one[d].table[r])
  <2>1. d \in D /\ InUse(st, d, r) /\ one[d].table[r] = st[d].table[r] /\ Stays(st, {}, d, r)
    BY <1>3, <1>5, <1>7 DEF Stays
  <2>2. Untouched(st, map, one, d, st[d].table[r])
    BY <1>2, <2>1, BodyUntouched
  <2>3. Root \notin Owned(map, st[d].table[r])
    BY <2>1 DEF Tree
  <2>4. QED BY <2>1, <2>2, <2>3 DEF Untouched
<1>8. ASSUME NEW d \in E, NEW p \in E, NEW r \in Slots, NEW t \in Slots,
             Stays(one, {}, d, r), Stays(one, {}, p, t), d # p \/ r # t
      PROVE  Owned(map, one[d].table[r]) \cap Owned(map, one[p].table[t]) = {}
  BY <1>7, <1>8 DEF Tree
<1>9. map[Root] = Eof
  BY DEF Tree
<1>10. QED BY <1>5, <1>6, <1>7, <1>8, <1>9 DEF Tree

\* What is no longer reached is beneath the entry.
LEMMA StruckBeneath ==
  ASSUME NEW D, NEW st, Reached(D, st, Root),
         NEW one, NEW c, NEW s, Struck(D, st, c, s, one), NEW E, Reached(E, one, Root),
         NEW e, e = st[c].table[s], NEW F, e.dir /\ e.cluster \in Clusters => Reached(F, st, e.cluster)
  PROVE  \A d \in D : d \in E \/ (e.dir /\ d \in F)
<1>1. PICK C : C = {d \in Clusters : d \in E \/ (e.dir /\ e.cluster \in Clusters /\ d \in F)}
  OBVIOUS
<1>2. D \subseteq Clusters /\ E \subseteq Clusters /\ Closed(one, E) /\ Root \in E
  BY DEF Reached
<1>3. Closed(st, C)
  <2>1. SUFFICES ASSUME NEW d \in C, NEW q \in Clusters, Child(st, d, q) PROVE q \in C
    BY DEF Closed
  <2>2. CASE e.dir /\ e.cluster \in Clusters /\ d \in F
    BY <1>1, <2>1, <2>2 DEF Reached, Closed
  <2>3. CASE d \in E
    <3>1. PICK r \in Slots : InUse(st, d, r) /\ st[d].table[r].dir /\ st[d].table[r].cluster = q
      BY <2>1 DEF Child
    <3>2. CASE d = c /\ r = s
      BY <1>1, <3>1, <3>2 DEF Reached
    <3>3. CASE d # c
      <4>1. one[d] = st[d]
        BY <1>2, <2>3, <3>3, StruckIs
      <4>2. Child(one, d, q)
        BY <3>1, <4>1 DEF Child, InUse
      <4>3. QED BY <1>1, <1>2, <2>3, <4>2 DEF Closed
    <3>4. CASE d = c /\ r # s
      <4>1. InUse(one, d, r) /\ one[d].table[r] = st[d].table[r]
        BY <1>2, <3>1, <3>4, StruckIs DEF Struck
      <4>2. Child(one, d, q)
        BY <3>1, <4>1 DEF Child
      <4>3. QED BY <1>1, <1>2, <2>3, <4>2 DEF Closed
    <3>5. QED BY <3>2, <3>3, <3>4
  <2>4. QED BY <1>1, <2>2, <2>3
<1>4. Root \in C /\ C \in SUBSET Clusters
  BY <1>1, <1>2
<1>5. D \subseteq C
  BY <1>3, <1>4 DEF Reached
<1>6. QED BY <1>1, <1>5

\* The entry is put into a free slot of a directory that is left, under a name
\* that the table does not have.
Entering(E, one, d, t, e, x, two) ==
  /\ d \in E /\ t \in Slots \ {0} /\ ~one[d].table[t].used
  /\ SameBody(e, x) /\ NewName(one[d].table, x)
  /\ Replaced(E, one, two, d, t, x)

\* An entry that is neither the one that went nor the one that came.
Others(D, st, c, s, d, t, two) ==
  /\ \A p \in D, r \in Slots : InUse(two, p, r) /\ (p # d \/ r # t) =>
       InUse(st, p, r) /\ (p # c \/ r # s) /\ two[p].table[r] = st[p].table[r]
  /\ \A p \in D, r \in Slots : InUse(st, p, r) /\ (p # c \/ r # s) =>
       InUse(two, p, r) /\ (p # d \/ r # t) /\ two[p].table[r] = st[p].table[r]

Moved(D, st, one, c, s, d, t, x, two) ==
  /\ TablesOnly(D, st, two) /\ TablesOnly(D, one, two) /\ d \in D /\ c \in D
  /\ s \in Slots \ {0} /\ t \in Slots \ {0}
  /\ two[d].table[t] = x /\ InUse(two, d, t)
  /\ \A p \in D, r \in Slots : p # d \/ r # t => two[p].table[r] = one[p].table[r]
  /\ \A p \in D : two[p].table[0] = st[p].table[0]
  /\ \A p \in Clusters \ {c, d} : two[p] = st[p]
  /\ Others(D, st, c, s, d, t, two)

LEMMA MovedIs ==
  ASSUME NEW D, D \subseteq Clusters, NEW E, E \subseteq D,
         NEW st, NEW one, NEW c, NEW s, Struck(D, st, c, s, one),
         NEW two, NEW d, NEW t, NEW e, NEW x, Entering(E, one, d, t, e, x, two)
  PROVE  Moved(D, st, one, c, s, d, t, x, two)
<1>1. /\ s \in Slots \ {0} /\ TablesOnly(D, st, one)
      /\ \A p \in D, r \in Slots : InUse(one, p, r) <=> InUse(st, p, r) /\ (p # c \/ r # s)
      /\ \A p \in D, r \in Slots : p # c \/ r # s => one[p].table[r] = st[p].table[r]
      /\ \A p \in Clusters \ {c} : one[p] = st[p]
  BY StruckIs
<1>2. /\ c \in D /\ d \in E /\ d \in D /\ t \in Slots \ {0} /\ two[d].table[t] = x
      /\ \A p \in E, r \in Slots : p # d \/ r # t => two[p].table[r] = one[p].table[r]
      /\ \A p \in Clusters \ {d} : two[p] = one[p]
  BY DEF Struck, Entering, Replaced
<1>3. InUse(two, d, t)
  BY <1>2 DEF InUse, Entering, NewName
<1>4. \A p \in D, r \in Slots : p # d \/ r # t => two[p].table[r] = one[p].table[r]
  BY <1>2
<1>5. TablesOnly(D, st, two) /\ TablesOnly(D, one, two)
  BY <1>1, <1>2 DEF TablesOnly
<1>6. \A p \in D : two[p].table[0] = st[p].table[0]
  BY <1>1, <1>2, <1>4, Constants
<1>7. ~InUse(one, d, t)
  BY DEF Entering, InUse
<1>8. \A p \in D, r \in Slots : p # d \/ r # t => (InUse(two, p, r) <=> InUse(one, p, r))
  BY <1>4 DEF InUse
<1>9. Others(D, st, c, s, d, t, two)
  BY <1>1, <1>2, <1>4, <1>7, <1>8 DEF Others
<1>10. \A p \in Clusters \ {c, d} : two[p] = st[p]
  BY <1>1, <1>2
<1>11. QED BY <1>1, <1>2, <1>3, <1>4, <1>5, <1>6, <1>9, <1>10 DEF Moved

\* Taken from one directory and put into another that is left, an entry makes
\* the tree whole again: above all with what is beneath a folder.
Restored(D, st, map, two) ==
  /\ Tree(FALSE, D, two, map, {}, {}) /\ Reached(D, two, Root)
  /\ Accounted(D, st, map, {}, {}) => Accounted(D, two, map, {}, {})

LEMMA TreeMoved ==
  ASSUME NEW D, NEW st, NEW map, Tree(FALSE, D, st, map, {}, {}), Reached(D, st, Root),
         NEW one, NEW c, NEW s, Struck(D, st, c, s, one), NEW e, e = st[c].table[s],
         NEW E, Reached(E, one, Root),
         NEW two, NEW d, NEW t, NEW x, Entering(E, one, d, t, e, x, two)
  PROVE  Restored(D, st, map, two)
<1>1. E \subseteq D /\ D \subseteq Clusters /\ Root \in D /\ Closed(st, D)
  BY StruckTree DEF Reached
<1>2. /\ TablesOnly(D, st, two) /\ d \in D /\ c \in D /\ s \in Slots \ {0} /\ t \in Slots \ {0}
      /\ two[d].table[t] = x /\ InUse(two, d, t)
      /\ \A p \in D : two[p].table[0] = st[p].table[0]
      /\ \A p \in Clusters \ {c, d} : two[p] = st[p]
      /\ Others(D, st, c, s, d, t, two)
      /\ \A p \in D, r \in Slots : p # d \/ r # t => two[p].table[r] = one[p].table[r]
  <2>1. Moved(D, st, one, c, s, d, t, x, two)
    BY <1>1, MovedIs
  <2>2. QED BY ONLY <2>1 DEF Moved
<1>3. /\ InUse(st, c, s) /\ SameBody(e, x) /\ Stays(st, {}, c, s)
      /\ Held(FALSE, st, map, c, e)
  BY <1>2 DEF Struck, Entering, Tree, Stays
<1>4. Held(FALSE, two, map, c, e)
  BY <1>2, <1>3, BodyUntouched DEF Untouched
<1>5. Held(FALSE, two, map, d, x) /\ Owned(map, x) = Owned(map, e)
  <2>1. SameHeld(two, map, e, d, x)
    BY <1>3, <1>4, BodyHeld
  <2>2. QED BY <2>1 DEF SameHeld
<1>6. ASSUME NEW p \in D, NEW r \in Slots, Stays(two, {}, p, r), p # d \/ r # t
      PROVE  /\ Stays(st, {}, p, r) /\ (p # c \/ r # s) /\ two[p].table[r] = st[p].table[r]
             /\ Held(FALSE, two, map, p, two[p].table[r])
  <2>1. InUse(st, p, r) /\ (p # c \/ r # s) /\ two[p].table[r] = st[p].table[r]
    BY <1>2, <1>6 DEF Others, Stays
  <2>2. Untouched(st, map, two, p, st[p].table[r])
    BY <1>2, <2>1, BodyUntouched
  <2>3. QED BY <2>1, <2>2 DEF Stays, Untouched
<1>7. ASSUME NEW p \in D PROVE Tidy(two[p].table) /\ Headed(two[p].table)
  <2>1. Tidy(st[p].table) /\ Headed(st[p].table)
    BY DEF Tree
  <2>2. Headed(two[p].table)
    BY <1>2, <2>1 DEF Headed
  <2>3. Tidy(one[p].table)
    <3>1. CASE p = c
      <4>1. SlotSet(st[p].table, s, EmptyEntry, one[p].table)
        BY <1>1, <1>2, <3>1, StruckIs DEF SlotSet, Struck, Replaced
      <4>2. QED BY <1>2, <2>1, <4>1, TidyChanged
    <3>2. CASE p # c
      <4>1. one[p] = st[p]
        BY <1>1, <3>2, StruckIs
      <4>2. QED BY <2>1, <4>1
    <3>3. QED BY <3>1, <3>2
  <2>4. CASE p = d
    <3>1. SlotSet(one[p].table, t, x, two[p].table)
      BY <1>2, <2>4 DEF SlotSet
    <3>2. NewName(one[p].table, x)
      BY <2>4 DEF Entering
    <3>3. Tidy(two[p].table)
      BY <1>2, <2>3, <3>1, <3>2, TidyChanged
    <3>4. QED BY <2>2, <3>3
  <2>5. CASE p # d
    <3>1. two[p] = one[p]
      BY <1>1, <2>5 DEF Entering, Replaced
    <3>2. QED BY <2>2, <2>3, <3>1
  <2>6. QED BY <2>4, <2>5
<1>8. ASSUME NEW p \in D, NEW r \in Slots, Stays(two, {}, p, r)
      PROVE  Held(FALSE, two, map, p, two[p].table[r]) /\ Root \notin Owned(map, two[p].table[r])
  <2>1. CASE p = d /\ r = t
    BY <1>2, <1>3, <1>5, <2>1 DEF Tree
  <2>2. CASE p # d \/ r # t
    BY <1>6, <1>8, <2>2 DEF Tree
  <2>3. QED BY <2>1, <2>2
<1>9. ASSUME NEW p \in D, NEW q \in D, NEW r \in Slots, NEW u \in Slots,
             Stays(two, {}, p, r), Stays(two, {}, q, u), p # q \/ r # u
      PROVE  Owned(map, two[p].table[r]) \cap Owned(map, two[q].table[u]) = {}
  <2>1. CASE (p # d \/ r # t) /\ (q # d \/ u # t)
    <3>1. Stays(st, {}, p, r) /\ two[p].table[r] = st[p].table[r]
      BY <1>6, <1>9, <2>1
    <3>2. Stays(st, {}, q, u) /\ two[q].table[u] = st[q].table[u]
      BY <1>6, <1>9, <2>1
    <3>3. Owned(map, st[p].table[r]) \cap Owned(map, st[q].table[u]) = {}
      BY <1>9, <3>1, <3>2 DEF Tree
    <3>4. QED BY <3>1, <3>2, <3>3
  <2>2. CASE p = d /\ r = t
    <3>1. Stays(st, {}, q, u) /\ (q # c \/ u # s) /\ two[q].table[u] = st[q].table[u]
      BY <1>6, <1>9, <2>2
    <3>2. Owned(map, e) \cap Owned(map, st[q].table[u]) = {}
      BY <1>2, <1>3, <3>1 DEF Tree
    <3>3. QED BY <1>2, <1>5, <2>2, <3>1, <3>2
  <2>3. CASE q = d /\ u = t
    <3>1. Stays(st, {}, p, r) /\ (p # c \/ r # s) /\ two[p].table[r] = st[p].table[r]
      BY <1>6, <1>9, <2>3
    <3>2. Owned(map, e) \cap Owned(map, st[p].table[r]) = {}
      BY <1>2, <1>3, <3>1 DEF Tree
    <3>3. QED BY <1>2, <1>5, <2>3, <3>1, <3>2
  <2>4. QED BY <2>1, <2>2, <2>3
<1>10. Tree(FALSE, D, two, map, {}, {})
  <2>1. map[Root] = Eof
    BY DEF Tree
  <2>2. QED BY <1>7, <1>8, <1>9, <2>1 DEF Tree
<1>11. Closed(two, D)
  <2>1. SUFFICES ASSUME NEW p \in D, NEW q \in Clusters, Child(two, p, q) PROVE q \in D
    BY DEF Closed
  <2>2. PICK r \in Slots : InUse(two, p, r) /\ two[p].table[r].dir /\ two[p].table[r].cluster = q
    BY <2>1 DEF Child
  <2>3. CASE p = d /\ r = t
    <3>1. Child(st, c, q)
      BY <1>2, <1>3, <2>2, <2>3 DEF Child, SameBody
    <3>2. QED BY <1>1, <1>2, <3>1 DEF Closed
  <2>4. CASE p # d \/ r # t
    <3>1. InUse(st, p, r) /\ two[p].table[r] = st[p].table[r]
      BY <1>2, <2>2, <2>4 DEF Others
    <3>2. Child(st, p, q)
      BY <2>2, <3>1 DEF Child
    <3>3. QED BY <1>1, <3>2 DEF Closed
  <2>5. QED BY <2>3, <2>4
<1>12. ASSUME NEW C \in SUBSET Clusters, Root \in C, Closed(two, C) PROVE D \subseteq C
  <2>1. Closed(one, C)
    <3>1. SUFFICES ASSUME NEW p \in C, NEW q \in Clusters, Child(one, p, q) PROVE q \in C
      BY DEF Closed
    <3>2. Child(two, p, q)
      <4>1. CASE p = d
        <5>1. PICK r \in Slots : InUse(one, p, r) /\ one[p].table[r].dir /\ one[p].table[r].cluster = q
          BY <3>1 DEF Child
        <5>2. r # t
          BY <4>1, <5>1 DEF Entering, InUse
        <5>3. two[p].table[r] = one[p].table[r]
          BY <1>2, <4>1, <5>1, <5>2
        <5>4. QED BY <5>1, <5>3 DEF Child, InUse
      <4>2. CASE p # d
        <5>1. two[p] = one[p]
          BY <4>2 DEF Entering, Replaced
        <5>2. QED BY <3>1, <5>1 DEF Child, InUse
      <4>3. QED BY <4>1, <4>2
    <3>3. QED BY <1>12, <3>2 DEF Closed
  <2>2. E \subseteq C /\ d \in C
    BY <1>12, <2>1 DEF Reached, Entering
  <2>3. Closed(st, C)
    <3>1. SUFFICES ASSUME NEW p \in C, NEW q \in Clusters, Child(st, p, q) PROVE q \in C
      BY DEF Closed
    <3>2. PICK r \in Slots : InUse(st, p, r) /\ st[p].table[r].dir /\ st[p].table[r].cluster = q
      BY <3>1 DEF Child
    <3>3. CASE p = c /\ r = s
      <4>1. Child(two, d, q)
        BY <1>2, <1>3, <3>2, <3>3 DEF Child, SameBody
      <4>2. QED BY <1>12, <2>2, <4>1 DEF Closed
    <3>4. CASE (p # c \/ r # s) /\ p \in D
      <4>1. InUse(two, p, r) /\ two[p].table[r] = st[p].table[r]
        BY <1>2, <3>2, <3>4 DEF Others
      <4>2. Child(two, p, q)
        BY <3>2, <4>1 DEF Child
      <4>3. QED BY <1>12, <4>2 DEF Closed
    <3>5. CASE p \notin D
      <4>1. two[p] = st[p]
        BY <1>2, <3>5
      <4>2. Child(two, p, q)
        BY <3>1, <4>1 DEF Child, InUse
      <4>3. QED BY <1>12, <4>2 DEF Closed
    <3>6. QED BY <3>3, <3>4, <3>5
  <2>4. QED BY <1>12, <2>3 DEF Reached
<1>13. Reached(D, two, Root)
  BY <1>1, <1>11, <1>12 DEF Reached
<1>14. ASSUME Accounted(D, st, map, {}, {}) PROVE Accounted(D, two, map, {}, {})
  <2>1. SUFFICES ASSUME NEW q \in Clusters, map[q] # Free, q # Root
                 PROVE  \E p \in D, r \in Slots : Stays(two, {}, p, r) /\ q \in Owned(map, two[p].table[r])
    BY DEF Accounted
  <2>2. PICK p \in D, r \in Slots : Stays(st, {}, p, r) /\ q \in Owned(map, st[p].table[r])
    BY <1>14, <2>1 DEF Accounted
  <2>3. CASE p = c /\ r = s
    BY <1>2, <1>3, <1>5, <2>2, <2>3 DEF Stays
  <2>4. CASE p # c \/ r # s
    <3>1. InUse(two, p, r) /\ two[p].table[r] = st[p].table[r]
      BY <1>2, <2>2, <2>4 DEF Others, Stays
    <3>2. QED BY <2>2, <3>1 DEF Stays
  <2>5. QED BY <2>3, <2>4
<1>15. QED BY <1>10, <1>13, <1>14 DEF Restored

\* What a roll is.
IsRoll(roll, D, st, map) ==
  /\ roll = [l \in DOMAIN roll |-> roll[l]] /\ DOMAIN roll = Entered(D, st)
  /\ \A l \in Entered(D, st) :
       /\ l = <<l[1], l[2]>> /\ l[1] \in D /\ l[2] \in Slots /\ InUse(st, l[1], l[2])
       /\ roll[l] = Line(st, map, l[1], l[2])
       /\ roll[l].name = st[l[1]].table[l[2]].name
       /\ roll[l].holds = Stored(st, map, st[l[1]].table[l[2]])

LEMMA RollIs ==
  ASSUME NEW D, NEW st, NEW map, NEW roll, roll = Roll(D, st, map)
  PROVE  IsRoll(roll, D, st, map)
<1>1. roll = [l \in Entered(D, st) |-> Line(st, map, l[1], l[2])]
  BY DEF Roll
<1>2. DOMAIN roll = Entered(D, st) /\ \A l \in Entered(D, st) : roll[l] = Line(st, map, l[1], l[2])
  BY <1>1
<1>3. roll = [l \in DOMAIN roll |-> roll[l]]
  BY <1>1
<1>4. \A l \in Entered(D, st) : l = <<l[1], l[2]>> /\ l[1] \in D /\ l[2] \in Slots /\ InUse(st, l[1], l[2])
  BY DEF Entered
<1>5. \A l \in Entered(D, st) :
        /\ roll[l].name = st[l[1]].table[l[2]].name
        /\ roll[l].holds = Stored(st, map, st[l[1]].table[l[2]])
  BY <1>2 DEF Line
<1>6. QED BY <1>2, <1>3, <1>4, <1>5 DEF IsRoll

\* The roll when an entry has moved.
LEMMA RollMoved ==
  ASSUME NEW D, NEW st, NEW map, Tree(FALSE, D, st, map, {}, {}), Reached(D, st, Root),
         NEW one, NEW c, NEW s, Struck(D, st, c, s, one), NEW e, e = st[c].table[s],
         NEW E, Reached(E, one, Root),
         NEW two, NEW d, NEW t, NEW x, Entering(E, one, d, t, e, x, two),
         NEW f, Shows(f, Roll(D, st, map))
  PROVE  Shows(With(Without(f, <<c, e.name>>), <<d, x.name>>, Stored(st, map, e)), Roll(D, two, map))
<1>1. E \subseteq D /\ D \subseteq Clusters
  BY StruckTree DEF Reached
<1>2. Moved(D, st, one, c, s, d, t, x, two)
  BY <1>1, MovedIs
<1>3. /\ \A p \in D, r \in Slots : InUse(one, p, r) <=> InUse(st, p, r) /\ (p # c \/ r # s)
      /\ \A p \in D, r \in Slots : p # c \/ r # s => one[p].table[r] = st[p].table[r]
      /\ TablesOnly(D, st, one) /\ s \in Slots \ {0}
  BY <1>1, StruckIs
<1>4. c \in D /\ d \in D /\ InUse(st, c, s) /\ t \in Slots \ {0} /\ InUse(two, d, t) /\ two[d].table[t] = x
      /\ TablesOnly(D, st, two)
      /\ \A p \in D, r \in Slots : p # d \/ r # t => two[p].table[r] = one[p].table[r]
  BY <1>2 DEF Moved, Struck
<1>5. PICK few : few = Roll(D, one, map)
  OBVIOUS
<1>6. PICK many : many = Roll(D, st, map)
  OBVIOUS
<1>7. PICK last : last = Roll(D, two, map)
  OBVIOUS
<1>8. IsRoll(few, D, one, map)
  BY <1>5, RollIs
<1>9. IsRoll(many, D, st, map)
  BY <1>6, RollIs
<1>10. IsRoll(last, D, two, map)
  BY <1>7, RollIs
<1>11. PICK a : a = <<c, s>>
  OBVIOUS
<1>12. PICK b : b = <<d, t>>
  OBVIOUS
<1>13. a \in Entered(D, st) /\ Entered(D, one) = Entered(D, st) \ {a}
  <2>1. a \in Entered(D, st)
    BY <1>3, <1>4, <1>11 DEF Entered
  <2>2. ASSUME NEW l \in D \X Slots
        PROVE  InUse(one, l[1], l[2]) <=> InUse(st, l[1], l[2]) /\ l # a
    BY <1>3, <1>11
  <2>3. QED BY <2>1, <2>2 DEF Entered
<1>14. b \notin Entered(D, one) /\ Entered(D, two) = Entered(D, one) \cup {b}
  <2>1. b \in D \X Slots /\ InUse(two, b[1], b[2])
    BY <1>4, <1>12
  <2>2. ~InUse(one, d, t)
    BY DEF Entering, InUse
  <2>3. b \notin Entered(D, one)
    BY <1>12, <2>2 DEF Entered
  <2>4. ASSUME NEW l \in D \X Slots, l # b
        PROVE  InUse(two, l[1], l[2]) <=> InUse(one, l[1], l[2])
    <3>1. l[1] # d \/ l[2] # t
      BY <1>12, <2>4
    <3>2. QED BY <1>4, <3>1 DEF InUse
  <2>5. QED BY <2>1, <2>3, <2>4 DEF Entered
<1>15. ASSUME NEW p \in D, NEW r \in Slots, InUse(one, p, r)
       PROVE  /\ Line(one, map, p, r) = Line(st, map, p, r)
              /\ Line(two, map, p, r) = Line(one, map, p, r)
  <2>1. InUse(st, p, r) /\ one[p].table[r] = st[p].table[r]
    BY <1>3, <1>15
  <2>2. two[p].table[r] = st[p].table[r]
    <3>1. p # d \/ r # t
      BY <1>15 DEF Entering, InUse
    <3>2. QED BY <1>4, <2>1, <3>1
  <2>3. Untouched(st, map, one, p, st[p].table[r])
    BY <1>3, <2>1, BodyUntouched
  <2>4. Untouched(st, map, two, p, st[p].table[r])
    BY <1>4, <2>1, BodyUntouched
  <2>5. QED BY <2>1, <2>2, <2>3, <2>4 DEF Line, Untouched
<1>16. PICK g : g = Without(f, <<c, e.name>>)
  OBVIOUS
<1>17. Shows(g, few)
  <2>1. \A l \in DOMAIN few : few[l] = many[l]
    BY <1>8, <1>9, <1>13, <1>15 DEF IsRoll
  <2>2. Shows(f, many) /\ a \in DOMAIN many /\ DOMAIN few = DOMAIN many \ {a}
    BY <1>6, <1>8, <1>9, <1>13 DEF IsRoll
  <2>3. Shows(Without(f, <<a[1], many[a].name>>), few)
    BY <1>8, <2>1, <2>2, ShowsLess DEF IsRoll
  <2>4. a[1] = c /\ many[a].name = e.name
    BY <1>9, <1>11, <1>13 DEF IsRoll
  <2>5. QED BY <1>16, <2>3, <2>4
<1>18. Stored(two, map, x) = Stored(st, map, e)
  <2>1. SameBody(e, x)
    BY DEF Entering
  <2>2. Untouched(st, map, two, c, e)
    BY <1>3, <1>4, BodyUntouched
  <2>3. SameHeld(two, map, e, d, x)
    BY <2>1, <2>2, BodyHeld DEF Untouched
  <2>4. QED BY <2>2, <2>3 DEF SameHeld, Untouched
<1>19. last[b].name = x.name /\ last[b].holds = Stored(st, map, e) /\ b[1] = d
  BY <1>4, <1>10, <1>12, <1>14, <1>18 DEF IsRoll
<1>20. \A l \in DOMAIN few : last[l] = few[l]
  BY <1>8, <1>10, <1>14, <1>15 DEF IsRoll
<1>21. \A l \in DOMAIN few : l[1] = b[1] => few[l].name # last[b].name
  <2>1. SUFFICES ASSUME NEW l \in DOMAIN few, l[1] = d PROVE few[l].name # x.name
    BY <1>19
  <2>2. InUse(one, d, l[2]) /\ few[l].name = one[d].table[l[2]].name
    BY <1>8, <2>1 DEF IsRoll
  <2>3. QED BY <2>2 DEF Entering, NewName, InUse
<1>22. Shows(With(g, <<b[1], last[b].name>>, last[b].holds), last)
  <2>1. b \notin DOMAIN few /\ DOMAIN last = DOMAIN few \cup {b} /\ last = [l \in DOMAIN last |-> last[l]]
    BY <1>8, <1>10, <1>14 DEF IsRoll
  <2>2. QED BY ONLY <1>17, <1>20, <1>21, <2>1, ShowsPlus
<1>23. QED BY <1>7, <1>16, <1>19, <1>22

\* The roll when an entry has been struck, with what is beneath it.
LEMMA RollStruck ==
  ASSUME NEW D, NEW st, NEW map, Tree(FALSE, D, st, map, {}, {}), Reached(D, st, Root),
         NEW one, NEW c, NEW s, Struck(D, st, c, s, one), NEW e, e = st[c].table[s],
         NEW E, Reached(E, one, Root),
         NEW F, e.dir /\ e.cluster \in Clusters => Reached(F, st, e.cluster),
         NEW f, Shows(f, Roll(D, st, map)), NEW g, Shows(g, Roll(E, one, map)),
         NEW named, <<c, e.name>> \in named, \A p \in DOMAIN f : e.dir /\ p[1] \in F => p \in named
  PROVE  SameBut(g, f, named)
<1>1. E \subseteq D /\ D \subseteq Clusters
  BY StruckTree DEF Reached
<1>2. /\ \A p \in D, r \in Slots : InUse(one, p, r) <=> InUse(st, p, r) /\ (p # c \/ r # s)
      /\ \A p \in D, r \in Slots : p # c \/ r # s => one[p].table[r] = st[p].table[r]
      /\ TablesOnly(D, st, one)
  BY <1>1, StruckIs
<1>3. PICK few : few = Roll(E, one, map)
  OBVIOUS
<1>4. PICK many : many = Roll(D, st, map)
  OBVIOUS
<1>5. IsRoll(few, E, one, map)
  BY <1>3, RollIs
<1>6. IsRoll(many, D, st, map)
  BY <1>4, RollIs
<1>7. ASSUME NEW l \in Entered(E, one)
      PROVE  /\ l \in Entered(D, st) /\ many[l].name = few[l].name /\ many[l].holds = few[l].holds
  <2>1. l[1] \in D /\ l[2] \in Slots /\ InUse(st, l[1], l[2]) /\ l = <<l[1], l[2]>>
        /\ one[l[1]].table[l[2]] = st[l[1]].table[l[2]]
    BY <1>1, <1>2, <1>5 DEF IsRoll
  <2>2. l \in Entered(D, st)
    BY <2>1 DEF Entered
  <2>3. Untouched(st, map, one, l[1], st[l[1]].table[l[2]])
    BY <1>2, <2>1, BodyUntouched
  <2>4. QED BY <1>5, <1>6, <2>1, <2>2, <2>3 DEF Untouched, IsRoll
<1>8. ASSUME NEW p \in DOMAIN g PROVE p \in DOMAIN f /\ f[p] = g[p]
  <2>1. PICK l \in Entered(E, one) : p = <<l[1], few[l].name>> /\ g[p] = few[l].holds
    BY <1>3, <1>5 DEF Shows, IsRoll
  <2>2. p = <<l[1], many[l].name>> /\ l \in DOMAIN many /\ many[l].holds = few[l].holds
    BY <1>6, <1>7, <2>1 DEF IsRoll
  <2>3. QED BY <1>4, <2>1, <2>2 DEF Shows
<1>9. ASSUME NEW p \in DOMAIN f, p \notin named PROVE p \in DOMAIN g
  <2>1. PICK l \in Entered(D, st) : p = <<l[1], many[l].name>>
    BY <1>4, <1>6 DEF Shows, IsRoll
  <2>2. l[1] \in D /\ l[2] \in Slots /\ InUse(st, l[1], l[2]) /\ p[1] = l[1]
    BY <1>6, <2>1 DEF IsRoll
  <2>3. l[1] # c \/ l[2] # s
    BY <1>6, <1>9, <2>1 DEF IsRoll
  <2>4. l[1] \in E
    <3>1. l[1] \in E \/ (e.dir /\ l[1] \in F)
      BY <2>2, StruckBeneath
    <3>2. QED BY <1>9, <2>2, <3>1
  <2>5. l \in Entered(E, one)
    BY <1>2, <1>6, <2>2, <2>3, <2>4 DEF Entered, IsRoll
  <2>6. p = <<l[1], few[l].name>> /\ l \in DOMAIN few
    BY <1>5, <1>7, <2>1, <2>5 DEF IsRoll
  <2>7. QED BY <1>3, <2>6 DEF Shows
<1>10. QED BY <1>8, <1>9 DEF SameBut

-----------------------------------------------------------------------------
(* The directory stack.                                                    *)

Stacked ==
  /\ path \in Seq(Clusters) /\ path # <<>>
  /\ pathNames \in Seq(Names \cup {RootName}) /\ Len(pathNames) = Len(path)
  /\ pathNames[1] = RootName
  /\ PathFollowsTree

\* A directory of the stack is a folder of the one before it.
LEMMA PathStep ==
  ASSUME Stacked, NEW k \in 2 .. Len(path)
  PROVE  \E s \in Slots \ {0} :
           /\ InUse(store, path[k - 1], s) /\ store[path[k - 1]].table[s].dir
           /\ store[path[k - 1]].table[s].cluster = path[k]
           /\ store[path[k - 1]].table[s].name = pathNames[k]
<1>1. PICK e \in EntriesOf(path[k - 1]) : e.dir /\ e.cluster = path[k] /\ e.name = pathNames[k]
  BY DEF Stacked, PathFollowsTree
<1>2. PICK s \in Slots : Stays(store, {}, path[k - 1], s) /\ e = store[path[k - 1]].table[s]
  BY EntryHasSlot
<1>3. QED BY <1>1, <1>2 DEF Stays, InUse

LEMMA PathLength ==
  ASSUME Stacked
  PROVE  /\ Len(path) \in Nat /\ Len(path) >= 1 /\ path[1] = Root
         /\ Cwd = path[Len(path)] /\ \A k \in 1 .. Len(path) : path[k] \in Clusters
         /\ ToSet(path) = {path[k] : k \in 1 .. Len(path)}
<1>1. path \in Seq(Clusters) /\ path # <<>> /\ path[1] = Root
  BY DEF Stacked, PathFollowsTree
<1>2. Len(path) \in Nat /\ Len(path) >= 1 /\ DOMAIN path = 1 .. Len(path)
  BY <1>1
<1>3. QED BY <1>1, <1>2 DEF Cwd, Last, ToSet

LEMMA PathIn ==
  ASSUME Stacked
  PROVE  \A k \in 1 .. Len(path) : path[k] \in Directories
<1>1. PICK n : n = Len(path)
  OBVIOUS
<1>2. n \in Nat /\ n >= 1 /\ path[1] = Root /\ \A k \in 1 .. n : path[k] \in Clusters
  BY <1>1, PathLength
<1>3. Root \in Directories /\ Closed(store, Directories)
  BY DirectoriesNow DEF Reached
<1>4. PICK S : S = {k \in 0 .. n : k = 0 \/ path[k] \in Directories}
  OBVIOUS
<1>5. ASSUME NEW m \in 0 .. n - 1, m \in S PROVE m + 1 \in S
  <2>1. CASE m = 0
    BY <1>2, <1>3, <1>4, <2>1
  <2>2. CASE m # 0
    <3>1. PICK k : k = m + 1
      OBVIOUS
    <3>2. k \in 2 .. n /\ k - 1 = m /\ path[m] \in Directories /\ path[k] \in Clusters
      BY <1>2, <1>4, <1>5, <2>2, <3>1
    <3>3. Child(store, path[m], path[k])
      BY <1>1, <3>2, PathStep DEF Child
    <3>4. QED BY <1>3, <1>4, <3>1, <3>2, <3>3 DEF Closed
  <2>3. QED BY <2>1, <2>2
<1>6. \A m \in 0 .. n : m \in S
  <2>1. 0 \in S /\ \A m \in 0 .. n - 1 : m \in S => m + 1 \in S
    BY <1>2, <1>4, <1>5
  <2>2. QED BY ONLY <1>2, <2>1, UpTo
<1>7. QED BY <1>1, <1>2, <1>4, <1>6

\* The directory so many levels up.
LEMMA DepthIn ==
  ASSUME Stacked, NEW n \in Nat, n < Len(path)
  PROVE  Depth(n) \in Directories /\ Depth(n) \in Clusters /\ Depth(n) \in ToSet(path)
<1>1. Len(path) - n \in 1 .. Len(path)
  BY PathLength
<1>2. QED BY <1>1, PathIn, PathLength DEF Depth

LEMMA CwdIn ==
  ASSUME Stacked
  PROVE  Cwd \in Directories /\ Cwd \in Clusters /\ Cwd \in ToSet(path) /\ Cwd = Depth(0)
<1>1. Len(path) \in 1 .. Len(path) /\ Len(path) - 0 = Len(path)
  BY PathLength
<1>2. QED BY <1>1, PathIn, PathLength DEF Depth

\* Whatever leaves the folders of the stack alone leaves the stack alone.
FoldersKept(P, st, other) ==
  \A d \in Directories, s \in Slots :
    InUse(st, d, s) /\ st[d].table[s].dir /\ st[d].table[s].cluster \in P =>
      other[d].table[s] = st[d].table[s]

LEMMA PathKept ==
  ASSUME Stacked, path' = path, pathNames' = pathNames, FoldersKept(ToSet(path), store, store')
  PROVE  Stacked'
<1>1. ASSUME NEW k \in 2 .. Len(path)
      PROVE  \E e \in EntriesOf(path[k - 1])' : e.dir /\ e.cluster = path[k] /\ e.name = pathNames[k]
  <2>1. PICK d : d = path[k - 1]
    OBVIOUS
  <2>2. PICK s \in Slots \ {0} : /\ InUse(store, d, s) /\ store[d].table[s].dir
                                 /\ store[d].table[s].cluster = path[k]
                                 /\ store[d].table[s].name = pathNames[k]
    BY <2>1, PathStep
  <2>3. k - 1 \in 1 .. Len(path) /\ k \in 1 .. Len(path)
    BY PathLength
  <2>4. d \in Directories /\ path[k] \in ToSet(path)
    BY <2>1, <2>3, PathIn, PathLength
  <2>5. store'[d].table[s] = store[d].table[s]
    BY <2>2, <2>4 DEF FoldersKept
  <2>6. store'[d].table[s] \in EntriesOf(d)'
    BY <2>2, <2>5 DEF EntriesOf, UsedSlots, InUse
  <2>7. QED BY <2>1, <2>2, <2>5, <2>6
<1>2. QED BY <1>1 DEF Stacked, PathFollowsTree

\* No directory is on the stack twice.
LEMMA PathOnce ==
  ASSUME Stacked, NEW own \in BOOLEAN, Tree(own, Directories, store, diskFat, {}, {})
  PROVE  \A i, j \in 1 .. Len(path) : path[i] = path[j] => i = j
<1>1. PICK n : n = Len(path)
  OBVIOUS
<1>2. n \in Nat /\ n >= 1 /\ path[1] = Root /\ \A k \in 1 .. n : path[k] \in Directories
  BY <1>1, PathLength, PathIn
<1>3. ASSUME NEW k \in 2 .. n
      PROVE  \E s \in Slots : /\ Stays(store, {}, path[k - 1], s)
                              /\ path[k] \in Owned(diskFat, store[path[k - 1]].table[s])
                              /\ Root \notin Owned(diskFat, store[path[k - 1]].table[s])
  <2>1. PICK s \in Slots \ {0} : /\ InUse(store, path[k - 1], s)
                                 /\ store[path[k - 1]].table[s].cluster = path[k]
    BY <1>1, PathStep
  <2>2. Stays(store, {}, path[k - 1], s) /\ path[k - 1] \in Directories
    BY <1>2, <2>1 DEF Stays
  <2>3. /\ Held(own, store, diskFat, path[k - 1], store[path[k - 1]].table[s])
        /\ Root \notin Owned(diskFat, store[path[k - 1]].table[s])
    BY <2>2 DEF Tree
  <2>4. path[k] \in Owned(diskFat, store[path[k - 1]].table[s])
    BY <2>1, <2>3, LinkedSound DEF Held, Owned
  <2>5. QED BY <2>2, <2>3, <2>4
<1>4. PICK S : S = {i \in 0 .. n : i = 0 \/ \A j \in 1 .. n : path[i] = path[j] => i = j}
  OBVIOUS
<1>5. ASSUME NEW m \in 0 .. n - 1, m \in S PROVE m + 1 \in S
  <2>1. SUFFICES ASSUME NEW j \in 1 .. n, path[m + 1] = path[j] PROVE m + 1 = j
    BY <1>2, <1>4
  <2>2. CASE m = 0 /\ j # 1
    BY <1>2, <1>3, <2>1, <2>2
  <2>3. CASE m # 0 /\ j = 1
    <3>1. m + 1 \in 2 .. n
      BY <1>2, <2>3
    <3>2. path[m + 1] # Root
      BY <1>3, <3>1
    <3>3. QED BY <1>2, <2>1, <2>3, <3>2
  <2>4. CASE m # 0 /\ j # 1
    <3>1. PICK i : i = m + 1
      OBVIOUS
    <3>2. i \in 2 .. n /\ j \in 2 .. n /\ i - 1 = m /\ j - 1 \in 1 .. n
      BY <1>2, <2>4, <3>1
    <3>3. PICK s \in Slots : /\ Stays(store, {}, path[i - 1], s)
                             /\ path[i] \in Owned(diskFat, store[path[i - 1]].table[s])
      BY <1>3, <3>2
    <3>4. PICK t \in Slots : /\ Stays(store, {}, path[j - 1], t)
                             /\ path[j] \in Owned(diskFat, store[path[j - 1]].table[t])
      BY <1>3, <3>2
    <3>5. path[i - 1] \in Directories /\ path[j - 1] \in Directories
      BY <1>2, <3>2
    <3>6. path[i - 1] = path[j - 1]
      BY <2>1, <3>1, <3>3, <3>4, <3>5 DEF Tree
    <3>7. m = j - 1
      BY <1>4, <1>5, <2>4, <3>2, <3>6
    <3>8. QED BY <1>2, <3>7
  <2>5. QED BY <2>2, <2>3, <2>4
<1>6. \A m \in 0 .. n : m \in S
  <2>1. 0 \in S /\ \A m \in 0 .. n - 1 : m \in S => m + 1 \in S
    BY <1>2, <1>4, <1>5
  <2>2. QED BY ONLY <1>2, <2>1, UpTo
<1>7. QED BY <1>1, <1>2, <1>4, <1>6

\* No folder of the current directory is on the stack.
LEMMA NotOnPath ==
  ASSUME Stacked, NEW own \in BOOLEAN, Tree(own, Directories, store, diskFat, {}, {}),
         NEW s \in Slots, InUse(store, Cwd, s)
  PROVE  store[Cwd].table[s].cluster \notin ToSet(path)
<1>1. PICK c : c = store[Cwd].table[s].cluster
  OBVIOUS
<1>2. SUFFICES ASSUME NEW k \in 1 .. Len(path), path[k] = c PROVE FALSE
  BY <1>1, PathLength
<1>3. Stays(store, {}, Cwd, s) /\ Cwd \in Directories
  BY CwdIn DEF Stays
<1>4. c \in Owned(diskFat, store[Cwd].table[s]) /\ Root \notin Owned(diskFat, store[Cwd].table[s])
  <2>1. /\ Held(own, store, diskFat, Cwd, store[Cwd].table[s])
        /\ Root \notin Owned(diskFat, store[Cwd].table[s])
    BY <1>3 DEF Tree
  <2>2. QED BY <1>1, <2>1, LinkedSound DEF Held, Owned
<1>5. k \in 2 .. Len(path)
  BY <1>2, <1>4, PathLength
<1>6. PICK t \in Slots \ {0} : /\ InUse(store, path[k - 1], t)
                               /\ store[path[k - 1]].table[t].cluster = path[k]
  BY <1>5, PathStep
<1>7. k - 1 \in 1 .. Len(path) /\ Len(path) \in 1 .. Len(path)
  BY <1>5, PathLength
<1>8. Stays(store, {}, path[k - 1], t) /\ path[k - 1] \in Directories
  BY <1>6, <1>7, PathIn DEF Stays
<1>9. c \in Owned(diskFat, store[path[k - 1]].table[t])
  <2>1. Held(own, store, diskFat, path[k - 1], store[path[k - 1]].table[t])
    BY <1>8 DEF Tree
  <2>2. QED BY <1>2, <1>6, <2>1, LinkedSound DEF Held, Owned
<1>10. path[k - 1] = path[Len(path)]
  BY <1>3, <1>4, <1>8, <1>9, PathLength DEF Tree
<1>11. k - 1 = Len(path)
  BY <1>7, <1>10, PathOnce
<1>12. QED BY <1>5, <1>11, PathLength

-----------------------------------------------------------------------------
(* The invariant: how far a command has come.                              *)

\* Power does not fail inside a delete or a format, a table has a slot for
\* every name, and no name begins another.
Assumed == Sheltered /\ RoomForNames /\ PrefixOf = {}

\* The disk at a moment when a boot would lose nothing that is on it.
AtRest(sure) == Base /\ signature /\ fat = diskFat /\ Settled(FALSE, sure, {}, {})

\* A command that is to take the files from before to goal, and has touched
\* only the places named.
Pursued(before, goal, named) ==
  /\ intent = [before |-> before, goal |-> goal, named |-> named]
  /\ named # {}
  /\ SameBut(Files, before, named)

Resting(sure) ==
  mode \in {"idle", "off"} /\ job = NoJob /\ intent = NoIntent /\ Fat32Inv(FALSE, sure)

Ended(sure, before, goal) ==
  /\ mode = "idle" /\ Fat32Inv(FALSE, sure)
  /\ \E ok \in BOOLEAN : job = LastCall(ok) /\ Files = IF ok THEN goal ELSE before

\* The last call is a write() that makes the files what they are to be.
Writing(sure, goal, named) ==
  /\ mode = "write" /\ job = LastCall(TRUE) /\ Fat32Inv(FALSE, sure)
  /\ \E parent, e, chain, what, done, blocks :
       /\ WriteJob(FALSE, sure, parent, e, chain, what, done)
       /\ BlocksOK(FALSE, parent, e.name, blocks) /\ Puts(e, chain, what, e.name, blocks)
       /\ <<parent, e.name>> \in named
       /\ goal = With(Files, <<parent, e.name>>, [dir |-> e.dir, blocks |-> blocks])

\* A delete() of that place, which does not take the ground from under the
\* shell.
Deleting(sure, before, parent, name) ==
  /\ mode = "delete" /\ Fat32Inv(FALSE, sure)
  /\ \E slot, e, chain, done :
       /\ DeleteJob(FALSE, sure, parent, slot, e, chain, done) /\ e.name = name
       /\ e.dir => e.cluster \notin ToSet(path)
       /\ Files = IF Kept(e, done) THEN before ELSE Without(before, <<parent, name>>)

Removing(sure, before, goal, named) ==
  /\ job = LastCall(TRUE)
  /\ \E parent, name :
       /\ Deleting(sure, before, parent, name) /\ <<parent, name>> \in named
       /\ goal = Without(before, <<parent, name>>)

\* What is left of a cp: to write these blocks where a file has been.
CopyJob(before, goal, named, up, name, blocks) ==
  /\ job = [op |-> "cp", blocks |-> blocks, up |-> up, name |-> name]
  /\ up \in Nat /\ up < Len(path) /\ name \in Names
  /\ BlocksOK(FALSE, Depth(up), name, blocks) /\ blocks # <<>>
  /\ Cardinality(FreeClusters) >= Len(blocks)
  /\ <<Depth(up), name>> \in named
  /\ goal = With(before, <<Depth(up), name>>, File(blocks))

Replacing(sure, before, goal, named) ==
  \E up, name, blocks :
    /\ CopyJob(before, goal, named, up, name, blocks)
    /\ Deleting(sure, before, Depth(up), name)

Refilling(sure, before, goal, named) ==
  /\ mode = "idle" /\ Fat32Inv(FALSE, sure)
  /\ \E up, name, blocks :
       /\ CopyJob(before, goal, named, up, name, blocks)
       /\ Files = Without(before, <<Depth(up), name>>)

\* What is left of a mv: to enter e, under this name, so many levels up.
MoveJob(e, up, dest) ==
  /\ job = [op |-> "mv", entry |-> e, up |-> up, name |-> dest, dotted |-> TRUE]
  /\ e \in Entry /\ up \in Nat /\ up < Len(path) /\ dest \in Names
  /\ SlotsNamed(store[Depth(up)].table, dest) = {} /\ ~Renamed(up)

Erasing(sure, before, goal, named) ==
  /\ mode = "raw" /\ AtRest(sure) /\ Files = before
  /\ \E s, e, up, dest :
       /\ MoveJob(e, up, dest) /\ (up = 0 \/ UsedSlots(store[Depth(up)].table) # Slots)
       /\ InUse(store, Cwd, s) /\ e = store[Cwd].table[s]
       /\ pending = <<WriteOf(Cwd, TableCluster(WithoutEntry(store[Cwd].table, s)))>>
       /\ {<<Cwd, e.name>>, <<Depth(up), dest>>} \cup PlacesBeneath(Cwd, e.name) \subseteq named
       /\ goal = With(Without(before, <<Cwd, e.name>>), <<Depth(up), dest>>, Stored(store, diskFat, e))

\* The tree from which e has been taken, and which it is to be entered into
\* again at another place.
Uprooted(sure, before, goal, named, e, d, dest) ==
  \E D, st, c, s :
    /\ Tree(FALSE, D, st, diskFat, {}, {}) /\ Reached(D, st, Root)
    /\ sure => Accounted(D, st, diskFat, {}, {})
    /\ Shows(before, Roll(D, st, diskFat))
    /\ Struck(D, st, c, s, store) /\ e = st[c].table[s]
    /\ <<c, e.name>> \in named /\ <<d, dest>> \in named
    /\ goal = With(Without(before, <<c, e.name>>), <<d, dest>>, Stored(st, diskFat, e))

Moving(sure, before, goal, named) ==
  /\ mode = "idle" /\ Fat32Inv(FALSE, FALSE)
  /\ \E e, up, dest :
       /\ MoveJob(e, up, dest) /\ UsedSlots(store[Depth(up)].table) # Slots
       /\ Uprooted(sure, before, goal, named, e, Depth(up), dest)

Settling(sure, before, goal, named) ==
  /\ mode = "raw" /\ AtRest(FALSE) /\ job = LastCall(TRUE)
  /\ \E e, d, dest, t, x, table :
       /\ Uprooted(sure, before, goal, named, e, d, dest) /\ x.name = dest
       /\ table \in [Slots -> Entry] /\ d \in Clusters
       /\ pending = <<WriteOf(d, TableCluster(table))>>
       /\ Entering(Directories, store, d, t, e, x, [store EXCEPT ![d] = TableCluster(table)])

Stage(sure, before, goal, named) ==
  \/ Ended(sure, before, goal)
  \/ Writing(sure, goal, named)
  \/ Removing(sure, before, goal, named)
  \/ Replacing(sure, before, goal, named)
  \/ Refilling(sure, before, goal, named)
  \/ Erasing(sure, before, goal, named)
  \/ Moving(sure, before, goal, named)
  \/ Settling(sure, before, goal, named)

Underway(sure) == \E before, goal, named : Pursued(before, goal, named) /\ Stage(sure, before, goal, named)

Grounds == Stacked /\ signature /\ store[Root].table[0].name = RootName

ShellInv ==
  /\ Grounds /\ cut \in BOOLEAN
  /\ \E sure \in BOOLEAN : (~cut => sure) /\ (Resting(sure) \/ Underway(sure))

-----------------------------------------------------------------------------
(* The calls of the driver.                                                *)

LEMMA GroundsKept ==
  ASSUME Grounds, path' = path, pathNames' = pathNames, signature' = signature,
         FoldersKept(ToSet(path), store, store'), store'[Root].table[0] = store[Root].table[0]
  PROVE  Grounds'
<1>1. Stacked'
  BY PathKept DEF Grounds
<1>2. QED BY <1>1 DEF Grounds

LEMMA GroundsUntouched ==
  ASSUME Grounds, path' = path, pathNames' = pathNames, signature' = signature, store' = store
  PROVE  Grounds'
BY GroundsKept DEF FoldersKept

\* A disk on which nothing has happened.
LEMMA PursuedStill ==
  ASSUME NEW before, NEW goal, NEW named, Pursued(before, goal, named), intent' = intent,
         signature' = signature, store' = store, diskFat' = diskFat
  PROVE  Pursued(before, goal, named)' /\ Files' = Files
BY DiskUntouched DEF Pursued, Files

\* What a write() has put on the disk.
Filled(st, chain, what) == \A k \in 1 .. Len(chain) : st[chain[k]].data = what[k].data

LEMMA ContentPut ==
  ASSUME NEW e, NEW chain, NEW what, NEW parent, NEW blocks,
         NEW map, map = diskFat', Links(map, e.cluster, chain),
         NEW st, st = store', Filled(st, chain, what),
         BlocksOK(FALSE, parent, e.name, blocks), Puts(e, chain, what, e.name, blocks),
         NEW content, content = [dir |-> e.dir, blocks |-> blocks]
  PROVE  Content(e)' = content
<1>1. ChainFrom(map)[e.cluster] = chain
  BY ChainIs
<1>2. DiskChain(e)' = chain
  BY <1>1 DEF DiskChain
<1>3. CASE e.dir
  BY <1>3 DEF Content, Blocks, Puts
<1>4. CASE ~e.dir
  <2>1. chain \in Seq(Clusters) /\ DOMAIN chain = 1 .. Len(chain)
    BY DEF Links
  <2>2. Len(chain) = Len(blocks) /\ \A k \in 1 .. Len(blocks) : what[k].data = blocks[k]
    BY <1>4 DEF Puts
  <2>3. blocks = [k \in 1 .. Len(blocks) |-> blocks[k]]
    BY DEF BlocksOK
  <2>4. Blocks(e)' = [k \in DOMAIN chain |-> st[chain[k]].data]
    BY <1>2, <1>4 DEF Blocks
  <2>5. Blocks(e)' = blocks
    BY <2>1, <2>2, <2>3, <2>4 DEF Filled
  <2>6. QED BY <2>5 DEF Content
<1>5. QED BY <1>3, <1>4

LEMMA WritingStep ==
  ASSUME Assumed, Grounds, NEW sure \in BOOLEAN, NEW before, NEW goal, NEW named,
         Pursued(before, goal, named), Writing(sure, goal, named), DiskWrite, UNCHANGED shellVars
  PROVE  /\ Grounds' /\ Pursued(before, goal, named)'
         /\ Writing(sure, goal, named)' \/ Ended(sure, before, goal)'
<1>1. /\ mode = "write" /\ job = LastCall(TRUE) /\ Fat32Inv(FALSE, sure) /\ Base
      /\ job' = job /\ intent' = intent /\ path' = path /\ pathNames' = pathNames
      /\ Sheltered /\ RoomForNames
  BY DEF Writing, shellVars, Fat32Inv, Assumed
<1>2. PICK parent, e, chain, what, done, blocks :
        /\ WriteJob(FALSE, sure, parent, e, chain, what, done)
        /\ BlocksOK(FALSE, parent, e.name, blocks) /\ Puts(e, chain, what, e.name, blocks)
        /\ <<parent, e.name>> \in named
        /\ goal = With(Files, <<parent, e.name>>, [dir |-> e.dir, blocks |-> blocks])
  BY DEF Writing
<1>3. Fat32Inv(FALSE, sure)'
  BY <1>1, DiskWriteSafe
<1>4. \/ FilesOnDisk' = FilesOnDisk /\ done # Len(chain) + 1
      \/ /\ done = Len(chain) + 1
         /\ Added(FilesOnDisk, <<parent, e.name>>, Content(e)', FilesOnDisk')
  BY <1>1, <1>2, WriteInDictionary
<1>5. /\ parent \in Directories /\ ToSet(chain) \cap Directories = {}
      /\ Links(fat, chain[1], chain) /\ e.cluster = chain[1]
      /\ Root \in Directories /\ Directories \subseteq Clusters
  BY <1>2, DirectoriesNow DEF WriteJob, Announced
<1>6. chain \in Seq(Clusters) /\ Len(chain) \in Nat /\ DOMAIN chain = 1 .. Len(chain)
      /\ \A k \in 1 .. Len(chain) : chain[k] \in ToSet(chain) /\ chain[k] \in Clusters
  BY <1>5 DEF Links, ToSet
<1>7. CASE done # Len(chain) + 1
  <2>1. PICK next : next = done + 1
    OBVIOUS
  <2>2. /\ WriteJob(FALSE, sure, parent, e, chain, what, next)'
        /\ mode' = "write" /\ signature' = signature /\ SameEntries /\ Elsewhere(ToSet(chain))
    BY <1>1, <1>2, <1>7, <2>1, WriteGoesOn
  <2>3. Files' = Files
    BY <1>4, <1>7 DEF Files
  <2>4. Pursued(before, goal, named)'
    BY <1>1, <2>3 DEF Pursued
  <2>5. Writing(sure, goal, named)'
    BY <1>1, <1>2, <1>3, <2>2, <2>3 DEF Writing
  <2>6. store'[Root] = store[Root]
    BY <1>5, <2>2 DEF Elsewhere
  <2>7. FoldersKept(ToSet(path), store, store')
    BY <2>2 DEF FoldersKept, SameEntries, InUse
  <2>8. Grounds'
    BY <1>1, <2>2, <2>6, <2>7, GroundsKept
  <2>9. QED BY <2>4, <2>5, <2>8
<1>8. CASE done = Len(chain) + 1
  <2>1. /\ mode' = "idle" /\ signature' = signature /\ diskFat' = diskFat /\ OnlyAt(parent)
        /\ \E slot \in Slots \ {0} : EntryPut(parent, slot, e)
    BY <1>1, <1>2, <1>8, WriteEnds
  <2>2. PICK slot \in Slots \ {0} : EntryPut(parent, slot, e)
    BY <2>1
  <2>3. diskFat = fat /\ \A k \in 1 .. Len(chain) : store[chain[k]] = what[k]
    BY <1>2, <1>6, <1>8 DEF WriteJob
  <2>4. \A k \in 1 .. Len(chain) : store'[chain[k]] = what[k]
    BY <1>5, <1>6, <2>1, <2>3 DEF OnlyAt
  <2>5. PICK st : st = store'
    OBVIOUS
  <2>6. PICK map : map = diskFat'
    OBVIOUS
  <2>7. Links(map, e.cluster, chain)
    BY <1>5, <2>1, <2>3, <2>6
  <2>8. Content(e)' = [dir |-> e.dir, blocks |-> blocks]
    <3>1. /\ Filled(st, chain, what)
          /\ BlocksOK(FALSE, parent, e.name, blocks) /\ Puts(e, chain, what, e.name, blocks)
      BY <1>2, <2>4, <2>5 DEF Filled
    <3>2. PICK content : content = [dir |-> e.dir, blocks |-> blocks]
      OBVIOUS
    <3>3. Content(e)' = content
      BY <2>5, <2>6, <2>7, <3>1, <3>2, ContentPut
    <3>4. QED BY <3>2, <3>3
  <2>9. PICK f, g, place, content :
          /\ f = FilesOnDisk /\ g = FilesOnDisk' /\ place = <<parent, e.name>>
          /\ content = [dir |-> e.dir, blocks |-> blocks]
    OBVIOUS
  <2>10. Added(f, place, content, g)
    BY <1>4, <1>8, <2>8, <2>9
  <2>11. g = With(f, place, content)
    BY <2>10, AddedIsWith
  <2>12. Files' = goal
    BY <1>2, <2>9, <2>11 DEF Files
  <2>13. SameBut(g, before, named)
    <3>1. SameBut(f, before, named) /\ place \in named
      BY <1>2, <2>9 DEF Pursued, Files
    <3>2. QED BY <2>11, <3>1, SameButWith
  <2>14. Pursued(before, goal, named)'
    BY <1>1, <2>9, <2>13 DEF Pursued, Files
  <2>15. Ended(sure, before, goal)'
    BY <1>1, <1>3, <2>1, <2>12 DEF Ended
  <2>16. FoldersKept(ToSet(path), store, store') /\ store'[Root].table[0] = store[Root].table[0]
    BY <1>5, <2>2, Constants DEF FoldersKept, EntryPut, Replaced
  <2>17. Grounds'
    BY <1>1, <2>1, <2>16, GroundsKept
  <2>18. QED BY <2>14, <2>15, <2>17
<1>9. QED BY <1>7, <1>8

\* The place is empty.
Emptied(sure, before, parent, name) ==
  mode = "idle" /\ Fat32Inv(FALSE, sure) /\ Files = Without(before, <<parent, name>>)

LEMMA DeletingStep ==
  ASSUME Assumed, Grounds, NEW sure \in BOOLEAN, NEW before, NEW goal, NEW named,
         Pursued(before, goal, named), NEW parent, NEW name, Deleting(sure, before, parent, name),
         <<parent, name>> \in named, DiskWrite, UNCHANGED shellVars
  PROVE  /\ Grounds' /\ Pursued(before, goal, named)' /\ fat' = fat
         /\ Deleting(sure, before, parent, name)' \/ Emptied(sure, before, parent, name)'
<1>1. /\ mode = "delete" /\ Fat32Inv(FALSE, sure) /\ Base
      /\ job' = job /\ intent' = intent /\ path' = path /\ pathNames' = pathNames
      /\ Sheltered /\ RoomForNames
  BY DEF Deleting, shellVars, Fat32Inv, Assumed
<1>2. PICK slot, e, chain, done :
        /\ DeleteJob(FALSE, sure, parent, slot, e, chain, done) /\ e.name = name
        /\ e.dir => e.cluster \notin ToSet(path)
        /\ Files = IF Kept(e, done) THEN before ELSE Without(before, <<parent, name>>)
  BY DEF Deleting
<1>3. Fat32Inv(FALSE, sure)' /\ fat' = fat
  BY <1>1, DiskWriteSafe DEF DiskWrite
<1>4. PICK next : next = done + 1
  OBVIOUS
<1>5. IF Kept(e, done) /\ ~Kept(e, next)
      THEN /\ done # Len(chain) + 1
           /\ Added(FilesOnDisk', <<parent, e.name>>, Content(e), FilesOnDisk)
      ELSE FilesOnDisk' = FilesOnDisk
  BY <1>1, <1>2, <1>4, DeleteInDictionary
<1>6. /\ slot \in Slots \ {0} /\ parent \in Directories /\ e = store[parent].table[slot]
      /\ Root \notin ToSet(chain) /\ Root \in Clusters /\ Root \in Directories
      /\ Len(chain) \in Nat /\ Len(chain) >= 1 /\ done \in 0 .. Len(chain) + 1
  <2>1. /\ slot \in Slots \ {0} /\ parent \in Directories /\ e = store[parent].table[slot]
        /\ Len(chain) \in 1 .. NClusters /\ done \in 0 .. Len(chain) + 1
        /\ Settled(FALSE, sure, {<<parent, slot>>}, ToSet(chain))
    BY <1>2 DEF DeleteJob
  <2>2. Root \notin ToSet(chain)
    BY <2>1 DEF Settled, Tree
  <2>3. QED BY <2>1, <2>2, Constants, DirectoriesNow
<1>7. PICK f, g, place : f = FilesOnDisk /\ g = FilesOnDisk' /\ place = <<parent, name>>
  OBVIOUS
<1>8. Kept(e, next) => Kept(e, done)
  BY <1>4, <1>6 DEF Kept
<1>9. g = IF Kept(e, next) THEN before ELSE Without(before, place)
  <2>1. CASE Kept(e, done) /\ ~Kept(e, next)
    <3>1. PICK content : content = Content(e)
      OBVIOUS
    <3>2. Added(g, place, content, f)
      BY <1>2, <1>5, <1>7, <2>1, <3>1
    <3>3. g = Without(f, place)
      BY <3>2, AddedIsWith
    <3>4. QED BY <1>2, <1>7, <2>1, <3>3 DEF Files
  <2>2. CASE ~(Kept(e, done) /\ ~Kept(e, next))
    BY <1>2, <1>5, <1>7, <1>8, <2>2 DEF Files
  <2>3. QED BY <2>1, <2>2
<1>10. Pursued(before, goal, named)'
  <2>1. SameBut(before, before, named) /\ place \in named
    BY <1>7, SameButRefl
  <2>2. SameBut(Without(before, place), before, named)
    BY <2>1, SameButWith
  <2>3. SameBut(g, before, named)
    BY <1>9, <2>1, <2>2
  <2>4. QED BY <1>1, <1>7, <2>3 DEF Pursued, Files
<1>11. CASE done # Len(chain) + 1
  <2>1. /\ DeleteJob(FALSE, sure, parent, slot, e, chain, next)'
        /\ mode' = "delete" /\ signature' = signature /\ SameEntries /\ Elsewhere(ToSet(chain))
    BY <1>1, <1>2, <1>4, <1>11, DeleteGoesOn
  <2>2. Deleting(sure, before, parent, name)'
    BY <1>1, <1>2, <1>3, <1>7, <1>9, <2>1 DEF Deleting, Files
  <2>3. store'[Root] = store[Root]
    BY <1>6, <2>1 DEF Elsewhere
  <2>4. FoldersKept(ToSet(path), store, store')
    BY <2>1 DEF FoldersKept, SameEntries, InUse
  <2>5. Grounds'
    BY <1>1, <2>1, <2>3, <2>4, GroundsKept
  <2>6. QED BY <1>3, <1>10, <2>2, <2>5
<1>12. CASE done = Len(chain) + 1
  <2>1. mode' = "idle" /\ signature' = signature /\ EntryTaken(parent, slot)
    BY <1>1, <1>2, <1>12, DeleteEnds
  <2>2. ~Kept(e, next)
    BY <1>4, <1>6, <1>12 DEF Kept
  <2>3. Emptied(sure, before, parent, name)'
    BY <1>3, <1>7, <1>9, <2>1, <2>2 DEF Emptied, Files
  <2>4. FoldersKept(ToSet(path), store, store') /\ store'[Root].table[0] = store[Root].table[0]
    BY <1>2, <1>6, <2>1, Constants DEF FoldersKept, EntryTaken, Replaced
  <2>5. Grounds'
    BY <1>1, <2>1, <2>4, GroundsKept
  <2>6. QED BY <1>3, <1>10, <2>3, <2>5
<1>13. QED BY <1>11, <1>12

LEMMA RemovingStep ==
  ASSUME Assumed, Grounds, NEW sure \in BOOLEAN, NEW before, NEW goal, NEW named,
         Pursued(before, goal, named), Removing(sure, before, goal, named), DiskWrite, UNCHANGED shellVars
  PROVE  /\ Grounds' /\ Pursued(before, goal, named)'
         /\ Removing(sure, before, goal, named)' \/ Ended(sure, before, goal)'
<1>1. PICK parent, name :
        /\ Deleting(sure, before, parent, name) /\ <<parent, name>> \in named
        /\ goal = Without(before, <<parent, name>>) /\ job = LastCall(TRUE) /\ job' = job
  BY DEF Removing, shellVars
<1>2. /\ Grounds' /\ Pursued(before, goal, named)'
      /\ Deleting(sure, before, parent, name)' \/ Emptied(sure, before, parent, name)'
  BY <1>1, DeletingStep
<1>3. CASE Deleting(sure, before, parent, name)'
  BY <1>1, <1>2, <1>3 DEF Removing
<1>4. CASE Emptied(sure, before, parent, name)'
  <2>1. Ended(sure, before, goal)'
    BY <1>1, <1>4 DEF Emptied, Ended
  <2>2. QED BY <1>2, <2>1
<1>5. QED BY <1>2, <1>3, <1>4

LEMMA ReplacingStep ==
  ASSUME Assumed, Grounds, NEW sure \in BOOLEAN, NEW before, NEW goal, NEW named,
         Pursued(before, goal, named), Replacing(sure, before, goal, named), DiskWrite, UNCHANGED shellVars
  PROVE  /\ Grounds' /\ Pursued(before, goal, named)'
         /\ Replacing(sure, before, goal, named)' \/ Refilling(sure, before, goal, named)'
<1>1. PICK up, name, blocks :
        /\ CopyJob(before, goal, named, up, name, blocks)
        /\ Deleting(sure, before, Depth(up), name)
  BY DEF Replacing
<1>2. PICK d : d = Depth(up)
  OBVIOUS
<1>3. job' = job /\ path' = path /\ Depth(up)' = d /\ <<d, name>> \in named
  BY <1>1, <1>2 DEF shellVars, Depth, CopyJob
<1>4. /\ Grounds' /\ Pursued(before, goal, named)' /\ fat' = fat
      /\ Deleting(sure, before, d, name)' \/ Emptied(sure, before, d, name)'
  BY <1>1, <1>2, <1>3, DeletingStep
<1>5. FreeClusters' = FreeClusters
  BY <1>4 DEF FreeClusters
<1>6. CopyJob(before, goal, named, up, name, blocks)'
  BY <1>1, <1>2, <1>3, <1>5 DEF CopyJob
<1>7. CASE Deleting(sure, before, d, name)'
  <2>1. Deleting(sure, before, Depth(up), name)'
    BY <1>3, <1>7
  <2>2. QED BY <1>4, <1>6, <2>1 DEF Replacing
<1>8. CASE Emptied(sure, before, d, name)'
  <2>1. Refilling(sure, before, goal, named)'
    BY <1>3, <1>6, <1>8 DEF Emptied, Refilling
  <2>2. QED BY <1>4, <2>1
<1>9. QED BY <1>4, <1>7, <1>8

-----------------------------------------------------------------------------
(* mv, past the driver.                                                    *)

\* Between calls the files are what the tree shows.
LEMMA RestShows ==
  signature /\ Settled(FALSE, FALSE, {}, {}) => Shows(Files, Roll(Directories, store, diskFat))
<1> SUFFICES ASSUME signature, Settled(FALSE, FALSE, {}, {})
             PROVE  Shows(Files, Roll(Directories, store, diskFat))
  OBVIOUS
<1>1. Tree(FALSE, Directories, store, diskFat, {}, {})
  BY DEF Settled
<1>2. Orderly
  BY <1>1 DEF Orderly, Tree
<1>3. NoneBroken
  <2>1. SUFFICES ASSUME NEW d \in Directories, NEW s \in Slots, InUse(store, d, s)
                 PROVE  Whole(store[d].table[s])
    BY DEF NoneBroken
  <2>2. Held(FALSE, store, diskFat, d, store[d].table[s])
    BY <1>1, <2>1 DEF Tree, Stays
  <2>3. QED BY <2>2, HeldIsWhole
<1>4. Listed = Roll(Directories, store, diskFat)
  BY <1>3, RollIsListed
<1>5. QED BY <1>2, <1>4, DictionaryIs DEF Files

\* A write that is a call by itself.
LEMMA RawWrite ==
  ASSUME Base, DiskWrite, mode = "raw", NEW to \in Clusters, NEW table \in [Slots -> Entry],
         pending = <<WriteOf(to, TableCluster(table))>>
  PROVE  /\ signature' = signature /\ diskFat' = diskFat /\ fat' = fat
         /\ mode' = "idle" /\ pending' = <<>> /\ Base'
         /\ store' = [store EXCEPT ![to] = TableCluster(table)]
         /\ store'[to].table = table /\ \A c \in Clusters \ {to} : store'[c] = store[c]
<1>1. PICK what : what = TableCluster(table)
  OBVIOUS
<1>2. Head(pending) = WriteOf(to, what) /\ Len(pending) = 1 /\ Tail(pending) = <<>>
  BY <1>1
<1>3. to # Boot /\ to # FatNumber /\ to # Beyond
  BY Constants
<1>4. /\ signature' = signature /\ diskFat' = diskFat /\ fat' = fat /\ clean' = clean
      /\ mode' = "idle" /\ pending' = <<>> /\ store' = [store EXCEPT ![to] = what]
  <2>1. PICK w : w = Head(pending)
    OBVIOUS
  <2>2. w.to = to /\ w.what = what
    BY <1>2, <2>1 DEF WriteOf
  <2>3. /\ signature' = signature /\ diskFat' = diskFat /\ fat' = fat /\ clean' = clean
        /\ store' = [store EXCEPT ![to] = what]
    BY <1>3, <2>1, <2>2 DEF DiskWrite
  <2>4. pending' = <<>> /\ mode' = "idle"
    BY <1>2, <1>3, <2>1, <2>2 DEF DiskWrite
  <2>5. QED BY <2>3, <2>4
<1>5. what.table = table
  BY <1>1 DEF TableCluster
<1>6. StoreOK(store) /\ StoreOK(store')
  BY <1>4, <1>5, StoreTakes DEF Base
<1>7. store'[to] = what /\ \A c \in Clusters \ {to} : store'[c] = store[c]
  BY <1>4, <1>6 DEF StoreOK
<1>8. Base'
  BY <1>4, <1>6 DEF Base
<1>9. QED BY <1>1, <1>4, <1>5, <1>7, <1>8

\* The entry goes.
LEMMA ErasingStep ==
  ASSUME Assumed, Grounds, NEW sure \in BOOLEAN, NEW before, NEW goal, NEW named,
         Pursued(before, goal, named), Erasing(sure, before, goal, named), DiskWrite, UNCHANGED shellVars
  PROVE  Grounds' /\ Pursued(before, goal, named)' /\ Moving(sure, before, goal, named)'
<1>1. PICK s, e, up, dest :
        /\ MoveJob(e, up, dest) /\ (up = 0 \/ UsedSlots(store[Depth(up)].table) # Slots)
        /\ InUse(store, Cwd, s) /\ e = store[Cwd].table[s]
        /\ pending = <<WriteOf(Cwd, TableCluster(WithoutEntry(store[Cwd].table, s)))>>
        /\ {<<Cwd, e.name>>, <<Depth(up), dest>>} \cup PlacesBeneath(Cwd, e.name) \subseteq named
        /\ goal = With(Without(before, <<Cwd, e.name>>), <<Depth(up), dest>>, Stored(store, diskFat, e))
  BY DEF Erasing
<1>2. /\ mode = "raw" /\ AtRest(sure) /\ Files = before /\ Base /\ signature /\ fat = diskFat
      /\ Settled(FALSE, sure, {}, {}) /\ Stacked
      /\ job' = job /\ intent' = intent /\ path' = path /\ pathNames' = pathNames
  BY DEF Erasing, AtRest, shellVars, Grounds
<1>3. PICK c, d : c = Cwd /\ d = Depth(up)
  OBVIOUS
<1>4. PICK st, map, D : st = store /\ map = diskFat /\ D = Directories
  OBVIOUS
<1>5. c \in D /\ d \in D /\ D \subseteq Clusters /\ c \in Clusters /\ (up = 0 => d = c)
  BY <1>1, <1>2, <1>3, <1>4, CwdIn, DepthIn, DirectoriesNow DEF MoveJob
<1>6. PICK table : table = WithoutEntry(st[c].table, s)
  OBVIOUS
<1>7. /\ s \in Slots \ {0} /\ st[c].table \in [Slots -> Entry] /\ StoreOK(st)
      /\ table \in [Slots -> Entry] /\ table[s] = EmptyEntry
      /\ \A r \in Slots \ {s} : table[r] = st[c].table[r]
  <2>1. s \in Slots \ {0} /\ st[c].table \in [Slots -> Entry] /\ StoreOK(st)
    BY <1>1, <1>2, <1>3, <1>4, <1>5 DEF InUse, Base, StoreOK
  <2>2. QED BY <1>6, <2>1, EmptyEntryIs DEF WithoutEntry
<1>8. /\ signature' = signature /\ diskFat' = diskFat /\ fat' = fat
      /\ mode' = "idle" /\ pending' = <<>> /\ Base'
      /\ store'[c].table = table /\ \A q \in Clusters \ {c} : store'[q] = store[q]
  BY <1>1, <1>2, <1>3, <1>4, <1>5, <1>6, <1>7, RawWrite
<1>9. PICK one, E : one = store' /\ E = Directories'
  OBVIOUS
<1>10. Reached(E, one, Root)
  <2>1. Reached(Directories, store, Root)'
    BY DirectoriesReached, PTL
  <2>2. QED BY <1>9, <2>1 DEF Root
<1>11. Tree(FALSE, D, st, map, {}, {}) /\ Reached(D, st, Root)
  BY <1>2, <1>4, DirectoriesNow DEF Settled
<1>12. Struck(D, st, c, s, one)
  <2>1. one[c].table[s] = EmptyEntry /\ InUse(st, c, s)
    BY <1>1, <1>3, <1>4, <1>7, <1>8, <1>9
  <2>2. \A q \in D, r \in Slots : q # c \/ r # s => one[q].table[r] = st[q].table[r]
    BY <1>4, <1>5, <1>7, <1>8, <1>9
  <2>3. \A q \in Clusters \ {c} : one[q] = st[q]
    BY <1>4, <1>8, <1>9
  <2>4. QED BY <1>5, <2>1, <2>2, <2>3 DEF Struck, Replaced
<1>13. Tree(FALSE, E, one, map, {}, {})
  BY <1>10, <1>11, <1>12, StruckTree
<1>14. Settled(FALSE, FALSE, {}, {})' /\ Fat32Inv(FALSE, FALSE)'
  <2>1. Settled(FALSE, FALSE, {}, {})'
    BY <1>4, <1>8, <1>9, <1>13 DEF Settled
  <2>2. QED BY <1>2, <1>8, <2>1 DEF Fat32Inv
<1>15. PICK f : f = Files
  OBVIOUS
<1>16. PICK g : g = Files'
  OBVIOUS
<1>17. Shows(f, Roll(D, st, map))
  <2>1. Settled(FALSE, FALSE, {}, {})
    BY <1>2 DEF Settled
  <2>2. QED BY <1>2, <1>4, <1>15, <2>1, RestShows
<1>18. Shows(g, Roll(E, one, map))
  <2>1. (signature /\ Settled(FALSE, FALSE, {}, {}) => Shows(Files, Roll(Directories, store, diskFat)))'
    BY RestShows, PTL
  <2>2. Shows(Files, Roll(Directories, store, diskFat))'
    BY <1>2, <1>8, <1>14, <2>1
  <2>3. Shows(Files', Roll(Directories', store', diskFat'))
    BY <2>2
  <2>4. QED BY ONLY <1>4, <1>8, <1>9, <1>16, <2>3
<1>19. PICK F : F = DirectoriesFrom(e.cluster)
  OBVIOUS
<1>20. e.dir /\ e.cluster \in Clusters => Reached(F, st, e.cluster)
  BY <1>4, <1>19, DirectoriesFromReached
<1>21. \A p \in DOMAIN f : e.dir /\ p[1] \in F => p \in named
  <2>1. SUFFICES ASSUME NEW p \in DOMAIN f, e.dir, p[1] \in F PROVE p \in PlacesBeneath(Cwd, e.name)
    BY <1>1
  <2>2. e \in EntriesOf(Cwd)
    BY <1>1 DEF EntriesOf, UsedSlots, InUse
  <2>3. QED BY <1>15, <1>19, <2>1, <2>2 DEF PlacesBeneath
<1>22. e = st[c].table[s] /\ <<c, e.name>> \in named /\ <<d, dest>> \in named
  BY <1>1, <1>3, <1>4
<1>23. SameBut(g, f, named)
  BY <1>10, <1>11, <1>12, <1>17, <1>18, <1>20, <1>21, <1>22, RollStruck
<1>24. Pursued(before, goal, named)'
  BY <1>2, <1>15, <1>16, <1>23 DEF Pursued
<1>25. Uprooted(sure, before, goal, named, e, d, dest)'
  <2>1. sure => Accounted(D, st, map, {}, {})
    BY <1>2, <1>4 DEF Settled
  <2>2. Shows(before, Roll(D, st, map))
    BY <1>2, <1>15, <1>17
  <2>3. goal = With(Without(before, <<c, e.name>>), <<d, dest>>, Stored(st, map, e))
    BY <1>1, <1>3, <1>4
  <2>4. map = diskFat' /\ one = store'
    BY <1>4, <1>8, <1>9
  <2>5. QED BY <1>11, <1>12, <1>22, <2>1, <2>2, <2>3, <2>4 DEF Uprooted
<1>26. \A q \in D : /\ one[q].table[0] = st[q].table[0]
                    /\ UsedSlots(one[q].table) \subseteq UsedSlots(st[q].table)
                    /\ \A r \in Slots : one[q].table[r] = st[q].table[r] \/ one[q].table[r] = EmptyEntry
  BY <1>4, <1>5, <1>7, <1>8, <1>9, Constants, EmptyEntryIs DEF UsedSlots
<1>27. MoveJob(e, up, dest)' /\ UsedSlots(store[Depth(up)].table)' # Slots /\ Depth(up)' = d
  <2>1. Depth(up)' = d /\ dest \in Names /\ dest # NoName
    BY <1>1, <1>2, <1>3, Fat32Assumption DEF Depth, MoveJob
  <2>2. SlotsNamed(st[d].table, dest) = {} /\ ~Renamed(up)
    BY <1>1, <1>3, <1>4 DEF MoveJob
  <2>3. SlotsNamed(one[d].table, dest) = {}
    BY <1>5, <1>26, <2>1, <2>2, EmptyEntryIs DEF SlotsNamed
  <2>4. Renamed(up)' = Renamed(up)
    BY <1>2, <1>3, <1>4, <1>5, <1>9, <1>26, <2>1 DEF Renamed
  <2>5. MoveJob(e, up, dest)'
    BY <1>1, <1>2, <1>9, <2>1, <2>2, <2>3, <2>4 DEF MoveJob
  <2>6. UsedSlots(one[d].table) # Slots
    <3>1. CASE up = 0
      <4>1. s \notin UsedSlots(one[c].table)
        BY <1>7, <1>8, <1>9, EmptyEntryIs DEF UsedSlots
      <4>2. QED BY <1>5, <1>7, <3>1, <4>1
    <3>2. CASE up # 0
      <4>1. UsedSlots(st[d].table) # Slots
        BY <1>1, <1>3, <1>4, <3>2
      <4>2. QED BY <1>5, <1>26, <4>1 DEF UsedSlots
    <3>3. QED BY <3>1, <3>2
  <2>7. QED BY <1>9, <2>1, <2>5, <2>6
<1>28. Moving(sure, before, goal, named)'
  BY <1>8, <1>14, <1>25, <1>27 DEF Moving
<1>29. Grounds'
  <2>1. FoldersKept(ToSet(path), store, store')
    <3>1. SUFFICES ASSUME NEW q \in Directories, NEW r \in Slots, InUse(store, q, r),
                          store[q].table[r].cluster \in ToSet(path)
                   PROVE  store'[q].table[r] = store[q].table[r]
      BY DEF FoldersKept
    <3>2. q # c \/ r # s
      BY <1>2, <1>3, <3>1, NotOnPath DEF Settled
    <3>3. QED BY <1>4, <1>9, <1>12, <3>1, <3>2 DEF Struck, Replaced
  <2>2. store'[Root].table[0] = store[Root].table[0]
    BY <1>4, <1>9, <1>26, DirectoriesNow
  <2>3. QED BY <1>2, <1>8, <2>1, <2>2, GroundsKept
<1>30. QED BY <1>24, <1>28, <1>29

\* The entry comes, and the tree is whole again.
LEMMA SettlingStep ==
  ASSUME Assumed, Grounds, NEW sure \in BOOLEAN, NEW before, NEW goal, NEW named,
         Pursued(before, goal, named), Settling(sure, before, goal, named), DiskWrite, UNCHANGED shellVars
  PROVE  Grounds' /\ Pursued(before, goal, named)' /\ Ended(sure, before, goal)'
<1>1. /\ mode = "raw" /\ AtRest(FALSE) /\ job = LastCall(TRUE) /\ Base /\ signature /\ fat = diskFat
      /\ Stacked /\ job' = job /\ intent' = intent /\ path' = path /\ pathNames' = pathNames
  BY DEF Settling, AtRest, shellVars, Grounds
<1>2. PICK e, d, dest, t, x, table :
        /\ Uprooted(sure, before, goal, named, e, d, dest) /\ x.name = dest
        /\ table \in [Slots -> Entry] /\ d \in Clusters
        /\ pending = <<WriteOf(d, TableCluster(table))>>
        /\ Entering(Directories, store, d, t, e, x, [store EXCEPT ![d] = TableCluster(table)])
  BY DEF Settling
<1>3. /\ signature' = signature /\ diskFat' = diskFat /\ fat' = fat
      /\ mode' = "idle" /\ pending' = <<>> /\ Base'
      /\ store' = [store EXCEPT ![d] = TableCluster(table)]
  BY <1>1, <1>2, RawWrite
<1>4. PICK one, two, map, E : one = store /\ two = store' /\ map = diskFat /\ E = Directories
  OBVIOUS
<1>5. Entering(E, one, d, t, e, x, two) /\ Reached(E, one, Root)
  BY <1>2, <1>3, <1>4, DirectoriesNow
<1>6. PICK D, st, c, s :
        /\ Tree(FALSE, D, st, map, {}, {}) /\ Reached(D, st, Root)
        /\ sure => Accounted(D, st, map, {}, {})
        /\ Shows(before, Roll(D, st, map))
        /\ Struck(D, st, c, s, one) /\ e = st[c].table[s]
        /\ <<c, e.name>> \in named /\ <<d, dest>> \in named
        /\ goal = With(Without(before, <<c, e.name>>), <<d, dest>>, Stored(st, map, e))
  BY <1>2, <1>4 DEF Uprooted
<1>7. /\ Tree(FALSE, D, two, map, {}, {}) /\ Reached(D, two, Root)
      /\ Accounted(D, st, map, {}, {}) => Accounted(D, two, map, {}, {})
  <2>1. Restored(D, st, map, two)
    BY ONLY <1>5, <1>6, TreeMoved
  <2>2. QED BY ONLY <2>1 DEF Restored
<1>8. Directories' = D
  BY <1>4, <1>7, DirectoriesNext
<1>9. Settled(FALSE, sure, {}, {})' /\ Fat32Inv(FALSE, sure)'
  <2>1. Settled(FALSE, sure, {}, {})'
    BY <1>3, <1>4, <1>6, <1>7, <1>8 DEF Settled
  <2>2. QED BY <1>1, <1>3, <2>1 DEF Fat32Inv
<1>10. Shows(goal, Roll(D, two, map))
  <2>1. Shows(With(Without(before, <<c, e.name>>), <<d, x.name>>, Stored(st, map, e)), Roll(D, two, map))
    BY ONLY <1>5, <1>6, RollMoved
  <2>2. QED BY ONLY <1>2, <1>6, <2>1
<1>11. PICK g : g = Files'
  OBVIOUS
<1>12. Shows(g, Roll(D, two, map))
  <2>1. (signature /\ Settled(FALSE, FALSE, {}, {}) => Shows(Files, Roll(Directories, store, diskFat)))'
    BY RestShows, PTL
  <2>2. Settled(FALSE, FALSE, {}, {})'
    BY <1>9 DEF Settled
  <2>3. Shows(Files, Roll(Directories, store, diskFat))'
    BY <1>1, <1>3, <2>1, <2>2
  <2>4. Shows(Files', Roll(Directories', store', diskFat'))
    BY <2>3
  <2>5. QED BY ONLY <1>3, <1>4, <1>8, <1>11, <2>4
<1>13. g = goal
  BY <1>10, <1>12, ShowsOnce
<1>14. SameBut(goal, before, named)
  <2>1. PICK src, dst, content : src = <<c, e.name>> /\ dst = <<d, dest>> /\ content = Stored(st, map, e)
    OBVIOUS
  <2>2. SameBut(Without(before, src), before, named)
    BY <1>6, <2>1, SameButRefl, SameButWith
  <2>3. SameBut(With(Without(before, src), dst, content), before, named)
    BY <1>6, <2>1, <2>2, SameButWith
  <2>4. QED BY <1>6, <2>1, <2>3
<1>15. Pursued(before, goal, named)'
  BY <1>1, <1>11, <1>13, <1>14 DEF Pursued
<1>16. Ended(sure, before, goal)'
  BY <1>1, <1>3, <1>9, <1>11, <1>13 DEF Ended
<1>17. Grounds'
  <2>1. FoldersKept(ToSet(path), store, store') /\ store'[Root].table[0] = store[Root].table[0]
    BY <1>4, <1>5, Constants, DirectoriesNow DEF FoldersKept, Entering, Replaced, InUse
  <2>2. QED BY <1>1, <1>3, <2>1, GroundsKept
<1>18. QED BY <1>15, <1>16, <1>17

\* A directory that still has the name it was made with is found by it.
LEMMA ReadableUnlessRenamed ==
  ASSUME NEW n, 0 \in Slots, Headed(store[Depth(n)].table), ~Renamed(n)
  PROVE  Readable(n)
<1>1. PICK named : named = {s \in Slots : store[Depth(n)].table[s].name = pathNames[Len(pathNames) - n]}
  OBVIOUS
<1>2. 0 \in named
  BY <1>1 DEF Renamed
<1>3. named \in SUBSET Nat /\ named # {} /\ \A k \in named : 0 <= k
  <2>1. named \subseteq Slots
    BY <1>1
  <2>2. Slots \subseteq Nat
    BY Constants
  <2>3. QED BY <1>2, <2>1, <2>2
<1>4. Least(named) = 0
  <2>1. Least(named) \in named /\ \A k \in named : Least(named) <= k
    BY <1>3, LeastIs
  <2>2. Least(named) \in Nat /\ Least(named) <= 0
    BY <1>2, <1>3, <2>1
  <2>3. QED BY <2>2
<1>5. QED BY <1>1, <1>3, <1>4 DEF Readable, DirectoryFound, Headed

\* mv sets out to enter what it carries.
LEMMA MovingStep ==
  ASSUME Assumed, Grounds, NEW sure \in BOOLEAN, NEW before, NEW goal, NEW named,
         Pursued(before, goal, named), Moving(sure, before, goal, named), MvEnter
  PROVE  Grounds' /\ Pursued(before, goal, named)' /\ Settling(sure, before, goal, named)'
<1>1. PICK e, up, dest :
        /\ MoveJob(e, up, dest) /\ UsedSlots(store[Depth(up)].table) # Slots
        /\ Uprooted(sure, before, goal, named, e, Depth(up), dest)
  BY DEF Moving
<1>2. /\ Fat32Inv(FALSE, FALSE) /\ Base /\ signature /\ fat = diskFat /\ Settled(FALSE, FALSE, {}, {})
      /\ Stacked /\ intent' = intent /\ path' = path /\ pathNames' = pathNames
      /\ signature' = signature /\ store' = store /\ diskFat' = diskFat /\ fat' = fat /\ clean' = clean
  BY DEF Moving, Fat32Inv, Grounds, MvEnter
<1>3. PICK d : d = Depth(up)
  OBVIOUS
<1>4. d \in Directories /\ d \in Clusters /\ e \in Entry /\ dest \in Names /\ ~Renamed(up)
      /\ SlotsNamed(store[d].table, dest) = {}
  BY <1>1, <1>2, <1>3, DepthIn DEF MoveJob
<1>5. Headed(store[d].table) /\ Readable(up)
  <2>1. Headed(store[d].table)
    BY <1>2, <1>4 DEF Settled, Tree
  <2>2. QED BY <1>3, <1>4, <2>1, ReadableUnlessRenamed, Constants
<1>6. PICK free : free = Slots \ UsedSlots(store[d].table)
  OBVIOUS
<1>7. PICK t : t = Least(free)
  OBVIOUS
<1>8. free # {} /\ t \in Slots \ {0} /\ ~store[d].table[t].used
  <2>1. free # {} /\ free \in SUBSET Nat
    BY <1>1, <1>3, <1>6, Constants DEF UsedSlots
  <2>2. t \in free
    BY <1>7, <2>1, LeastIs
  <2>3. 0 \notin free
    BY <1>5, <1>6, Constants DEF Headed, UsedSlots
  <2>4. QED BY <1>6, <2>1, <2>2, <2>3 DEF UsedSlots
<1>9. PICK x : x = [e EXCEPT !.name = dest]
  OBVIOUS
<1>10. x \in Entry /\ x.name = dest /\ SameBody(e, x)
  BY <1>4, <1>9 DEF SameBody, Entry
<1>11. PICK table : table = [store[d].table EXCEPT ![t] = x]
  OBVIOUS
<1>12. StoreOK(store) /\ store[d].table \in [Slots -> Entry]
  BY <1>2, <1>4 DEF Base, StoreOK
<1>13. table \in [Slots -> Entry] /\ table[t] = x /\ \A s \in Slots \ {t} : table[s] = store[d].table[s]
  BY <1>8, <1>10, <1>11, <1>12
<1>14. /\ job' = LastCall(TRUE) /\ mode' = "raw"
       /\ pending' = <<WriteOf(d, TableCluster(table))>>
  <2>1. job.up = up /\ job.dotted = TRUE /\ job.entry = e /\ job.name = dest
    BY <1>1 DEF MoveJob
  <2>2. Depth(job.up) = d /\ Readable(job.up)
    BY <1>3, <1>5, <2>1
  <2>3. QED BY <1>6, <1>7, <1>8, <1>9, <1>11, <2>1, <2>2 DEF MvEnter
<1>15. PICK two : two = [store EXCEPT ![d] = TableCluster(table)]
  OBVIOUS
<1>16. two[d].table = table /\ \A q \in Clusters \ {d} : two[q] = store[q]
  BY <1>4, <1>12, <1>15 DEF StoreOK, TableCluster
<1>17. Entering(Directories, store, d, t, e, x, two)
  <2>1. \A q \in Directories, r \in Slots : q # d \/ r # t => two[q].table[r] = store[q].table[r]
    BY <1>13, <1>16, DirectoriesNow
  <2>2. Replaced(Directories, store, two, d, t, x)
    BY <1>13, <1>16, <2>1 DEF Replaced
  <2>3. x.used
    <3>1. \E D, st, c, s : Struck(D, st, c, s, store) /\ e = st[c].table[s]
      BY <1>1 DEF Uprooted
    <3>2. QED BY <1>10, <3>1 DEF Struck, InUse, SameBody
  <2>4. NewName(store[d].table, x)
    BY <1>4, <1>10, <2>3 DEF NewName, SlotsNamed
  <2>5. QED BY <1>4, <1>8, <1>10, <2>2, <2>4 DEF Entering
<1>18. Settled(FALSE, FALSE, {}, {})' /\ Directories' = Directories
  BY <1>2, SettledSame
<1>19. AtRest(FALSE)'
  BY <1>2, <1>14, <1>18 DEF AtRest, Base
<1>20. Uprooted(sure, before, goal, named, e, d, dest)'
  BY <1>1, <1>2, <1>3 DEF Uprooted
<1>21. Entering(Directories', store', d, t, e, x, [store' EXCEPT ![d] = TableCluster(table)])
  BY <1>2, <1>15, <1>17, <1>18
<1>22. Settling(sure, before, goal, named)'
  <2>1. x.name = dest /\ table \in [Slots -> Entry] /\ d \in Clusters
    BY <1>4, <1>10, <1>13
  <2>2. QED BY <1>14, <1>19, <1>20, <1>21, <2>1 DEF Settling
<1>23. Grounds'
  BY <1>2, GroundsUntouched
<1>24. Pursued(before, goal, named)'
  BY <1>2, PursuedStill
<1>25. QED BY <1>22, <1>23, <1>24

-----------------------------------------------------------------------------
(* Commands that begin.                                                    *)

\* A command remembers the files, which it has not yet touched.
LEMMA SetsOut ==
  ASSUME NEW before, before = Files, NEW goal, NEW named, named # {}, Intends(goal, named),
         signature' = signature, store' = store, diskFat' = diskFat
  PROVE  Pursued(before, goal, named)' /\ Files' = before
<1>1. Files' = Files
  BY DiskUntouched DEF Files
<1>2. PICK f : f = Files'
  OBVIOUS
<1>3. SameBut(f, before, named)
  BY <1>1, <1>2, SameButRefl
<1>4. intent' = [before |-> before, goal |-> goal, named |-> named]
  BY DEF Intends
<1>5. Pursued(before, goal, named)'
  BY <1>2, <1>3, <1>4 DEF Pursued
<1>6. QED BY <1>1, <1>5

\* A write() that has not been refused.
LEMMA WritingBegins ==
  ASSUME NEW sure \in BOOLEAN, NEW goal, NEW named, NEW parent, NEW name, NEW blocks,
         BlocksOK(FALSE, parent, name, blocks), WriteBegun(FALSE, sure, parent, name, blocks)',
         Fat32Inv(FALSE, sure)', mode' = "write", job' = LastCall(TRUE), <<parent, name>> \in named,
         goal = With(Files', <<parent, name>>, [dir |-> blocks = <<>>, blocks |-> blocks])
  PROVE  Writing(sure, goal, named)'
<1>1. PICK e, chain, what :
        WriteJob(FALSE, sure, parent, e, chain, what, 0)' /\ Puts(e, chain, what, name, blocks)
  BY DEF WriteBegun
<1>2. e.dir \in BOOLEAN
  BY <1>1 DEF WriteJob, Announced, Entry
<1>3. e.name = name /\ e.dir = (blocks = <<>>)
  BY <1>1, <1>2 DEF Puts
<1>4. goal = With(Files', <<parent, e.name>>, [dir |-> e.dir, blocks |-> blocks])
  BY <1>3
<1>5. BlocksOK(FALSE, parent, e.name, blocks) /\ Puts(e, chain, what, e.name, blocks)
  BY <1>1, <1>3
<1>6. <<parent, e.name>> \in named
  BY <1>3
<1>7. QED BY <1>1, <1>4, <1>5, <1>6 DEF Writing

\* A place that holds nothing has no slot.
LEMMA EmptyPlace ==
  ASSUME NEW sure \in BOOLEAN, Fat32Inv(FALSE, sure), mode = "idle",
         NEW d \in Directories, NEW name \in Names, <<d, name>> \notin DOMAIN Files
  PROVE  SlotsNamed(store[d].table, name) = {}
<1>1. SUFFICES ASSUME NEW s \in SlotsNamed(store[d].table, name) PROVE FALSE
  OBVIOUS
<1>2. signature /\ NoneBroken /\ Orderly
  BY AllWhole, TablesOrderly
<1>3. s \in Slots \ {0} /\ store[d].table[s].name = name /\ name # NoName
  BY <1>1, Fat32Assumption DEF SlotsNamed
<1>4. InUse(store, d, s)
  BY <1>2, <1>3, EmptyEntryIs DEF Orderly, Tidy, InUse
<1>5. <<d, s>> \in Listing
  BY <1>2, <1>3, <1>4 DEF Listing, NoneBroken
<1>6. <<d, name>> \in DOMAIN FilesOnDisk
  BY <1>2, <1>3, <1>5, PlacesAre
<1>7. QED BY <1>6 DEF Files

\* The free clusters can be counted, and the more are free the more there are.
LEMMA FreeCounted == IsFiniteSet(FreeClusters) /\ Cardinality(FreeClusters) \in Nat
<1>1. IsFiniteSet(2 .. NClusters - 1)
  <2>1. 2 \in Int /\ NClusters - 1 \in Int
    BY Constants
  <2>2. QED BY ONLY <2>1, FS_Interval
<1>2. FreeClusters \subseteq 2 .. NClusters - 1
  BY DEF FreeClusters, Clusters
<1>3. QED BY ONLY <1>1, <1>2, FS_Subset, FS_CardinalityType

\* cp goes on to write what it has read.
LEMMA RefillingStep ==
  ASSUME Assumed, Grounds, NEW sure \in BOOLEAN, NEW before, NEW goal, NEW named,
         Pursued(before, goal, named), Refilling(sure, before, goal, named), CpWrite
  PROVE  Grounds' /\ Pursued(before, goal, named)' /\ Writing(sure, goal, named)'
<1>1. mode = "idle" /\ Fat32Inv(FALSE, sure)
  BY DEF Refilling
<1>2. PICK up, name, blocks :
        CopyJob(before, goal, named, up, name, blocks) /\ Files = Without(before, <<Depth(up), name>>)
  BY DEF Refilling
<1>3. PICK d : d = Depth(up)
  OBVIOUS
<1>4. PICK place : place = <<d, name>>
  OBVIOUS
<1>5. /\ up \in Nat /\ up < Len(path) /\ name \in Names
      /\ BlocksOK(FALSE, d, name, blocks) /\ blocks # <<>>
      /\ Cardinality(FreeClusters) >= Len(blocks)
      /\ place \in named /\ goal = With(before, place, File(blocks))
      /\ job.blocks = blocks /\ job.up = up /\ job.name = name
  BY <1>2, <1>3, <1>4 DEF CopyJob
<1>6. d \in Directories
  BY <1>3, <1>5, DepthIn DEF Grounds
<1>7. /\ Write(d, name, blocks)
      /\ job' = LastCall(~WriteRefused(d, name, Len(blocks)))
      /\ path' = path /\ pathNames' = pathNames /\ intent' = intent
  BY <1>3, <1>5 DEF CpWrite
<1>8. SlotsNamed(store[d].table, name) = {}
  <2>1. <<d, name>> \notin DOMAIN Files
    BY <1>2, <1>3 DEF Without
  <2>2. QED BY <1>1, <1>5, <1>6, <2>1, EmptyPlace
<1>9. ~WriteRefused(d, name, Len(blocks))
  <2>1. Cardinality(FreeClusters) \in Nat /\ Len(blocks) \in Nat
    BY <1>5, FreeCounted DEF BlocksOK
  <2>2. d \in Clusters /\ name \in Names
    BY <1>5, <1>6, DirectoriesNow
  <2>3. name # NoName /\ ~(d < Root)
    BY <2>2, Constants, Fat32Assumption DEF Root
  <2>4. QED BY <1>5, <1>8, <2>1, <2>3 DEF WriteRefused
<1>10. ClustersFor(blocks) = Len(blocks)
  BY <1>5 DEF ClustersFor
<1>11. /\ Fat32Inv(FALSE, sure)' /\ mode' = "write" /\ WriteBegun(FALSE, sure, d, name, blocks)'
       /\ UNCHANGED <<signature, diskFat, store, clean>>
  <2>1. BlankStack
    BY DEF Assumed, Sheltered
  <2>2. BlocksOK(FALSE, d, name, blocks) /\ name \in Names
    BY <1>5
  <2>3. QED BY <1>1, <1>6, <1>7, <1>9, <1>10, <2>1, <2>2, WriteSafe
<1>12. job' = LastCall(TRUE)
  BY <1>7, <1>9
<1>13. Pursued(before, goal, named)' /\ Files' = Files
  BY <1>7, <1>11, PursuedStill
<1>14. goal = With(Files', <<d, name>>, [dir |-> blocks = <<>>, blocks |-> blocks])
  <2>1. File(blocks) = [dir |-> blocks = <<>>, blocks |-> blocks]
    BY <1>5 DEF File
  <2>2. Files' = Without(before, place)
    BY <1>2, <1>3, <1>4, <1>13
  <2>3. QED BY <1>4, <1>5, <2>1, <2>2, WithWithout
<1>15. Writing(sure, goal, named)'
  BY <1>4, <1>5, <1>11, <1>12, <1>14, WritingBegins
<1>16. Grounds'
  BY <1>7, <1>11, GroundsUntouched
<1>17. QED BY <1>13, <1>15, <1>16

-----------------------------------------------------------------------------
(* cd.                                                                     *)

\* A stack of directories with their names.
Track(p, names) ==
  /\ p \in Seq(Clusters) /\ p # <<>>
  /\ names \in Seq(Names \cup {RootName}) /\ Len(names) = Len(p)
  /\ names[1] = RootName /\ p[1] = Root
  /\ \A k \in 2 .. Len(p) :
       \E e \in EntriesOf(p[k - 1]) : e.dir /\ e.cluster = p[k] /\ e.name = names[k]

LEMMA StackIsTrack == Stacked <=> Track(path, pathNames)
BY DEF Stacked, Track, PathFollowsTree

\* It may be cut back, and be continued with a folder.
LEMMA TrackCut ==
  ASSUME NEW p, NEW names, Track(p, names), NEW m \in 1 .. Len(p)
  PROVE  Track(SubSeq(p, 1, m), SubSeq(names, 1, m))
<1>1. p \in Seq(Clusters) /\ names \in Seq(Names \cup {RootName}) /\ Len(p) \in Nat /\ Len(names) = Len(p)
  BY DEF Track
<1>2. PICK q, few : q = SubSeq(p, 1, m) /\ few = SubSeq(names, 1, m)
  OBVIOUS
<1>3. /\ q \in Seq(Clusters) /\ Len(q) = m /\ \A k \in 1 .. m : q[k] = p[k]
  BY <1>1, <1>2
<1>4. /\ few \in Seq(Names \cup {RootName}) /\ Len(few) = m /\ \A k \in 1 .. m : few[k] = names[k]
  BY <1>1, <1>2
<1>5. q # <<>> /\ q[1] = Root /\ few[1] = RootName
  BY <1>3, <1>4 DEF Track
<1>6. ASSUME NEW k \in 2 .. Len(q)
      PROVE  \E e \in EntriesOf(q[k - 1]) : e.dir /\ e.cluster = q[k] /\ e.name = few[k]
  <2>1. k \in 2 .. Len(p) /\ q[k] = p[k] /\ q[k - 1] = p[k - 1] /\ few[k] = names[k]
    BY <1>1, <1>3, <1>4
  <2>2. QED BY <2>1 DEF Track
<1>7. QED BY <1>2, <1>3, <1>4, <1>5, <1>6 DEF Track

LEMMA TrackGoesOn ==
  ASSUME NEW p, NEW names, Track(p, names), NEW e \in EntriesOf(p[Len(p)]), e.dir,
         e.cluster \in Clusters, e.name \in Names
  PROVE  Track(Append(p, e.cluster), Append(names, e.name))
<1>1. p \in Seq(Clusters) /\ names \in Seq(Names \cup {RootName}) /\ Len(p) \in Nat /\ Len(p) >= 1
      /\ Len(names) = Len(p)
  BY DEF Track
<1>2. PICK q, more : q = Append(p, e.cluster) /\ more = Append(names, e.name)
  OBVIOUS
<1>3. PICK n : n = Len(p)
  OBVIOUS
<1>4. /\ q \in Seq(Clusters) /\ Len(q) = n + 1 /\ q[n + 1] = e.cluster /\ \A k \in 1 .. n : q[k] = p[k]
  BY <1>1, <1>2, <1>3
<1>5. /\ more \in Seq(Names \cup {RootName}) /\ Len(more) = n + 1 /\ more[n + 1] = e.name
      /\ \A k \in 1 .. n : more[k] = names[k]
  BY <1>1, <1>2, <1>3
<1>6. q # <<>> /\ q[1] = Root /\ more[1] = RootName
  BY <1>1, <1>3, <1>4, <1>5 DEF Track
<1>7. ASSUME NEW k \in 2 .. Len(q)
      PROVE  \E x \in EntriesOf(q[k - 1]) : x.dir /\ x.cluster = q[k] /\ x.name = more[k]
  <2>1. CASE k = n + 1
    <3>1. q[k - 1] = p[n]
      BY <1>1, <1>3, <1>4, <2>1
    <3>2. QED BY <1>3, <1>4, <1>5, <2>1, <3>1
  <2>2. CASE k # n + 1
    <3>1. k \in 2 .. Len(p) /\ q[k] = p[k] /\ q[k - 1] = p[k - 1] /\ more[k] = names[k]
      BY <1>1, <1>3, <1>4, <1>5, <2>2
    <3>2. QED BY <3>1 DEF Track
  <2>3. QED BY <2>1, <2>2
<1>8. QED BY <1>2, <1>4, <1>5, <1>6, <1>7 DEF Track

LEMMA CdStep ==
  ASSUME Assumed, Grounds, NEW sure \in BOOLEAN, Fat32Inv(FALSE, sure), mode = "idle",
         NEW n \in Nat, NEW name, Cd(n, name)
  PROVE  Grounds'
<1>1. PICK up, d, m : up = LevelsUp(n) /\ d = Depth(up) /\ m = Len(path) - up
  OBVIOUS
<1>2. Track(path, pathNames) /\ Len(path) \in Nat /\ Len(path) >= 1 /\ Len(pathNames) = Len(path)
  BY StackIsTrack, PathLength DEF Grounds, Stacked
<1>3. up \in Nat /\ up < Len(path) /\ m \in 1 .. Len(path)
  BY <1>1, <1>2 DEF LevelsUp
<1>4. d \in Directories /\ d = path[m]
  BY <1>1, <1>3, DepthIn DEF Depth, Grounds
<1>5. PICK p, names : p = SubSeq(path, 1, m) /\ names = SubSeq(pathNames, 1, m)
  OBVIOUS
<1>6. Track(p, names)
  BY <1>2, <1>3, <1>5, TrackCut
<1>7. p[Len(p)] = d /\ NamesUp(up) = names
  <2>1. path \in Seq(Clusters)
    BY <1>2 DEF Track
  <2>2. p[Len(p)] = d
    BY <1>2, <1>3, <1>4, <1>5, <2>1
  <2>3. QED BY <1>1, <1>2, <1>5, <2>2 DEF NamesUp
<1>8. signature' = signature /\ store' = store
  BY DEF Cd, vars
<1>9. Track(path', pathNames')
  <2>1. CASE FoldersMatching(d, name) = {}
    <3>1. path' = p /\ pathNames' = names
      BY <1>1, <1>5, <1>7, <2>1 DEF Cd
    <3>2. QED BY <1>6, <3>1
  <2>2. CASE FoldersMatching(d, name) # {}
    <3>1. PICK folders : folders = FoldersMatching(d, name)
      OBVIOUS
    <3>2. folders \in SUBSET Nat /\ folders # {}
      BY <2>2, <3>1, Constants DEF FoldersMatching
    <3>3. PICK s : s = Least(folders)
      OBVIOUS
    <3>4. s \in folders
      BY <3>2, <3>3, LeastIs
    <3>5. PICK e : e = store[d].table[s]
      OBVIOUS
    <3>6. s \in Slots \ {0} /\ e.name = name /\ e.dir
      BY <3>1, <3>4, <3>5 DEF FoldersMatching, Matches, Assumed
    <3>7. Tree(FALSE, Directories, store, diskFat, {}, {})
      BY DEF Fat32Inv, Settled
    <3>8. e.used /\ e.name \in Names
      BY <1>4, <3>5, <3>6, <3>7, EmptyEntryIs DEF Tree, Tidy
    <3>9. e \in EntriesOf(d)
      BY <3>5, <3>6, <3>8 DEF EntriesOf, UsedSlots
    <3>10. e.cluster \in Clusters
      <4>1. Stays(store, {}, d, s)
        BY <3>5, <3>6, <3>8 DEF Stays, InUse
      <4>2. Linked(diskFat, e.cluster)
        BY <1>4, <3>5, <3>6, <3>7, <4>1 DEF Tree, Held
      <4>3. QED BY <4>2, LinkedSound
    <3>11. path' = Append(p, e.cluster) /\ pathNames' = Append(names, e.name)
      BY <1>1, <1>5, <1>7, <2>2, <3>1, <3>3, <3>5, <3>6 DEF Cd
    <3>12. QED BY <1>6, <1>7, <3>6, <3>8, <3>9, <3>10, <3>11, TrackGoesOn
  <2>3. QED BY <2>1, <2>2
<1>10. Stacked'
  <2>1. (Stacked <=> Track(path, pathNames))'
    BY StackIsTrack, PTL
  <2>2. Track(path, pathNames)'
    BY <1>8, <1>9 DEF Track, EntriesOf
  <2>3. QED BY <2>1, <2>2
<1>11. QED BY <1>8, <1>10 DEF Grounds

-----------------------------------------------------------------------------
(* mkdir, nano and rm.                                                     *)

Prompted(sure) == mode = "idle" /\ Fat32Inv(FALSE, sure)

\* A call has been refused, and with it the command.
LEMMA RefusedEnds ==
  ASSUME Grounds, NEW sure \in BOOLEAN, Prompted(sure), UNCHANGED vars,
         path' = path, pathNames' = pathNames, job' = LastCall(FALSE),
         NEW goal, NEW named, named # {}, Intends(goal, named)
  PROVE  Grounds' /\ Underway(sure)'
<1>1. PICK before : before = Files
  OBVIOUS
<1>2. signature' = signature /\ store' = store /\ diskFat' = diskFat /\ mode' = mode
  BY DEF vars
<1>3. Pursued(before, goal, named)' /\ Files' = before
  BY <1>1, <1>2, SetsOut
<1>4. Ended(sure, before, goal)'
  <2>1. Fat32Inv(FALSE, sure)'
    BY StutterSafe DEF Prompted
  <2>2. QED BY <1>2, <1>3, <2>1 DEF Ended, Prompted
<1>5. Grounds'
  BY <1>2, GroundsUntouched
<1>6. QED BY <1>3, <1>4, <1>5 DEF Underway, Stage

\* A command that is a write().
LEMMA WriteCommand ==
  ASSUME Assumed, Grounds, NEW sure \in BOOLEAN, Prompted(sure),
         NEW parent \in Directories, NEW name \in Names,
         NEW blocks, BlocksOK(FALSE, parent, name, blocks), Write(parent, name, blocks),
         job' = LastCall(~WriteRefused(parent, name, ClustersFor(blocks))),
         path' = path, pathNames' = pathNames,
         NEW goal, goal = With(Files, <<parent, name>>, [dir |-> blocks = <<>>, blocks |-> blocks]),
         Intends(goal, {<<parent, name>>})
  PROVE  Grounds' /\ Underway(sure)'
<1>1. PICK before, named : before = Files /\ named = {<<parent, name>>}
  OBVIOUS
<1>2. /\ Fat32Inv(FALSE, sure)'
      /\ \/ WriteRefused(parent, name, ClustersFor(blocks)) /\ UNCHANGED vars
         \/ /\ ~WriteRefused(parent, name, ClustersFor(blocks)) /\ mode' = "write"
            /\ UNCHANGED <<signature, diskFat, store, clean>>
            /\ WriteBegun(FALSE, sure, parent, name, blocks)'
  BY WriteSafe DEF Prompted, Assumed, Sheltered
<1>3. CASE WriteRefused(parent, name, ClustersFor(blocks)) /\ UNCHANGED vars
  <2>1. job' = LastCall(FALSE)
    BY <1>3
  <2>2. QED BY <1>1, <1>3, <2>1, RefusedEnds
<1>4. CASE /\ ~WriteRefused(parent, name, ClustersFor(blocks)) /\ mode' = "write"
           /\ UNCHANGED <<signature, diskFat, store, clean>>
           /\ WriteBegun(FALSE, sure, parent, name, blocks)'
  <2>1. job' = LastCall(TRUE)
    BY <1>4
  <2>2. Pursued(before, goal, named)' /\ Files' = before
    BY <1>1, <1>4, SetsOut
  <2>3. goal = With(Files', <<parent, name>>, [dir |-> blocks = <<>>, blocks |-> blocks])
    BY <1>1, <2>2
  <2>4. Writing(sure, goal, named)'
    BY <1>1, <1>2, <1>4, <2>1, <2>3, WritingBegins
  <2>5. Grounds'
    BY <1>4, GroundsUntouched
  <2>6. QED BY <2>2, <2>4, <2>5 DEF Underway, Stage
<1>5. QED BY <1>2, <1>3, <1>4

LEMMA MkdirStep ==
  ASSUME Assumed, Grounds, NEW sure \in BOOLEAN, Prompted(sure), NEW name \in UserNames, Mkdir(name)
  PROVE  Grounds' /\ Underway(sure)'
<1>1. PICK d, goal : d = Cwd /\ goal = With(Files, <<d, name>>, Folder)
  OBVIOUS
<1>2. d \in Directories /\ name \in Names
  BY <1>1, CwdIn, ShellAssumption DEF Grounds
<1>3. BlocksOK(FALSE, d, name, <<>>)
  BY DEF BlocksOK
<1>4. goal = With(Files, <<d, name>>, [dir |-> <<>> = <<>>, blocks |-> <<>>])
  <2>1. Folder = [dir |-> <<>> = <<>>, blocks |-> <<>>]
    BY DEF Folder
  <2>2. QED BY <1>1, <2>1
<1>5. /\ Write(d, name, <<>>) /\ path' = path /\ pathNames' = pathNames
      /\ Intends(goal, {<<d, name>>})
  BY <1>1 DEF Mkdir
<1>6. job' = LastCall(~WriteRefused(d, name, ClustersFor(<<>>)))
  BY <1>1 DEF Mkdir, ClustersFor
<1>7. QED BY <1>2, <1>3, <1>4, <1>5, <1>6, WriteCommand

LEMMA NanoStep ==
  ASSUME Assumed, Grounds, NEW sure \in BOOLEAN, Prompted(sure),
         NEW n \in Nat, NEW name \in UserNames, NEW text \in Texts, Nano(n, name, text)
  PROVE  Grounds' /\ Underway(sure)'
<1>1. PICK d, goal : d = Depth(n) /\ goal = With(Files, <<d, name>>, File(text))
  OBVIOUS
<1>2. d \in Directories /\ name \in Names
  BY <1>1, DepthIn, ShellAssumption DEF Grounds, Nano
<1>3. text # <<>> /\ BlocksOK(FALSE, d, name, text)
  <2>1. text # <<>> /\ text \in Seq(ToSet(text) \ {Nobody})
    <3>1. Len(text) = 1 /\ text \in Seq(ToSet(text) \ {Nobody})
      BY ShellAssumption
    <3>2. text # <<>>
      BY <3>1
    <3>3. QED BY <3>1, <3>2
  <2>2. PICK S : S = ToSet(text) \ {Nobody}
    OBVIOUS
  <2>3. /\ Len(text) \in Nat /\ text = [k \in 1 .. Len(text) |-> text[k]]
        /\ \A k \in 1 .. Len(text) : text[k] \in S
    BY ONLY <2>1, <2>2
  <2>4. \A k \in 1 .. Len(text) : text[k] # Nobody
    BY <2>2, <2>3
  <2>5. QED BY <2>1, <2>3, <2>4 DEF BlocksOK, Sound
<1>4. goal = With(Files, <<d, name>>, [dir |-> text = <<>>, blocks |-> text])
  <2>1. File(text) = [dir |-> text = <<>>, blocks |-> text]
    BY <1>3 DEF File
  <2>2. QED BY <1>1, <2>1
<1>5. /\ Write(d, name, text) /\ path' = path /\ pathNames' = pathNames
      /\ job' = LastCall(~WriteRefused(d, name, ClustersFor(text)))
      /\ Intends(goal, {<<d, name>>})
  BY <1>1 DEF Nano
<1>6. QED BY <1>2, <1>3, <1>4, <1>5, WriteCommand

\* A delete() that has not been refused, of what may go.
LEMMA DeletingBegins ==
  ASSUME Grounds, NEW sure \in BOOLEAN, Prompted(sure), NEW n \in Nat, n < Len(path), NEW name,
         MayGo(n, name), NEW parent, parent = Depth(n), path' = path,
         store' = store, mode' = "delete", Fat32Inv(FALSE, sure)',
         DeleteBegun(FALSE, sure, parent, name)', NEW before, Files' = before
  PROVE  Deleting(sure, before, parent, name)'
<1>1. PICK slot, e, chain : DeleteJob(FALSE, sure, parent, slot, e, chain, 0)' /\ e.name = name
  BY DEF DeleteBegun
<1>2. InUse(store, parent, slot) /\ e = store[parent].table[slot]
  BY <1>1 DEF DeleteJob
<1>3. e.dir => e.cluster \notin ToSet(path)
  <2>1. e \in EntriesOf(parent)
    BY <1>2 DEF EntriesOf, UsedSlots, InUse
  <2>2. QED BY <1>1, <2>1 DEF MayGo
<1>4. e.dir => e.cluster \notin ToSet(path')
  BY <1>3
<1>5. Files' = IF Kept(e, 0) THEN before ELSE Without(before, <<parent, name>>)
  BY DEF Kept
<1>6. QED BY <1>1, <1>4, <1>5 DEF Deleting

\* A delete() of what may go.
LEMMA MayDelete ==
  ASSUME Assumed, Grounds, NEW sure \in BOOLEAN, Prompted(sure), NEW n \in Nat, n < Len(path),
         NEW name \in Names, MayGo(n, name), NEW parent, parent = Depth(n), Delete(parent, name)
  PROVE  /\ Fat32Inv(FALSE, sure)'
         /\ \/ DeleteRefused(parent, name) /\ UNCHANGED vars
            \/ /\ ~DeleteRefused(parent, name) /\ mode' = "delete"
               /\ UNCHANGED <<signature, diskFat, store>>
               /\ DeleteBegun(FALSE, sure, parent, name)'
<1>1. parent \in Directories /\ ~Misjudged(parent, name)
  BY DepthIn DEF Grounds, MayGo
<1>2. QED BY <1>1, DeleteSafe DEF Prompted

LEMMA RmStep ==
  ASSUME Assumed, Grounds, NEW sure \in BOOLEAN, Prompted(sure),
         NEW n \in Nat, NEW name \in UserNames, NEW dotted, MayGo(n, name), Rm(n, name, dotted)
  PROVE  Grounds' /\ Underway(sure)'
<1>1. PICK d, before, goal, named :
        /\ d = Depth(n) /\ before = Files /\ goal = Without(before, <<d, name>>)
        /\ named = {<<d, name>>}
  OBVIOUS
<1>2. n < Len(path) /\ Intends(goal, named) /\ path' = path /\ pathNames' = pathNames
  BY <1>1 DEF Rm
<1>3. name \in Names
  BY ShellAssumption
<1>4. CASE job' = LastCall(FALSE) /\ UNCHANGED vars
  BY <1>1, <1>2, <1>4, RefusedEnds
<1>5. CASE /\ ~DeleteRefused(d, name) /\ mode' = "delete"
           /\ UNCHANGED <<signature, diskFat, store>>
           /\ DeleteBegun(FALSE, sure, d, name)' /\ Fat32Inv(FALSE, sure)'
           /\ job' = LastCall(~DeleteRefused(d, name))
  <2>1. job' = LastCall(TRUE)
    BY <1>5
  <2>2. Pursued(before, goal, named)' /\ Files' = before
    BY <1>1, <1>2, <1>5, SetsOut
  <2>3. Deleting(sure, before, d, name)'
    BY <1>1, <1>2, <1>5, <2>2, DeletingBegins
  <2>4. Removing(sure, before, goal, named)'
    BY <1>1, <2>1, <2>3 DEF Removing
  <2>5. Grounds'
    BY <1>2, <1>5, GroundsUntouched
  <2>6. QED BY <2>2, <2>4, <2>5 DEF Underway, Stage
<1>6. CASE Delete(d, name) /\ job' = LastCall(~DeleteRefused(d, name))
  <2>1. /\ Fat32Inv(FALSE, sure)'
        /\ \/ DeleteRefused(d, name) /\ UNCHANGED vars
           \/ /\ ~DeleteRefused(d, name) /\ mode' = "delete"
              /\ UNCHANGED <<signature, diskFat, store>>
              /\ DeleteBegun(FALSE, sure, d, name)'
    BY <1>1, <1>2, <1>3, <1>6, MayDelete
  <2>2. DeleteRefused(d, name) => job' = LastCall(FALSE)
    BY <1>6
  <2>3. QED BY <1>4, <1>5, <1>6, <2>1, <2>2
<1>7. QED BY <1>1, <1>4, <1>6 DEF Rm

-----------------------------------------------------------------------------
(* cp and mv set out.                                                      *)

\* The entry that a name leads to in a directory.
At(d, name, s, e) ==
  /\ s \in Slots \ {0} /\ e = store[d].table[s] /\ e.used /\ e.name = name
  /\ SlotsNamed(store[d].table, name) = {s}
  /\ Held(FALSE, store, diskFat, d, e)
  /\ <<d, name>> \in DOMAIN Files /\ Files[<<d, name>>] = Content(e)

LEMMA AtSlot ==
  ASSUME NEW sure \in BOOLEAN, Prompted(sure), NEW d \in Directories, NEW name \in Names,
         NEW s \in SlotsNamed(store[d].table, name), NEW e, e = store[d].table[s]
  PROVE  At(d, name, s, e)
<1>1. /\ Tree(FALSE, Directories, store, diskFat, {}, {}) /\ signature /\ NoneBroken /\ Orderly
      /\ Fat32Inv(FALSE, sure)
  <2>1. Fat32Inv(FALSE, sure) /\ mode = "idle"
    BY DEF Prompted
  <2>2. signature /\ NoneBroken /\ Orderly
    BY <2>1, AllWhole, TablesOrderly
  <2>3. QED BY <2>1, <2>2 DEF Fat32Inv, Settled
<1>2. s \in Slots \ {0} /\ e.name = name /\ name # NoName
  BY Fat32Assumption DEF SlotsNamed
<1>3. Tidy(store[d].table)
  BY <1>1 DEF Tree
<1>4. e.used
  BY <1>2, <1>3, EmptyEntryIs DEF Tidy
<1>5. SlotsNamed(store[d].table, name) = {s}
  <2>1. SUFFICES ASSUME NEW t \in SlotsNamed(store[d].table, name) PROVE t = s
    OBVIOUS
  <2>2. t \in Slots \ {0} /\ store[d].table[t].name = name
    BY DEF SlotsNamed
  <2>3. store[d].table[t].used
    BY <1>2, <1>3, <2>2, EmptyEntryIs DEF Tidy
  <2>4. QED BY <1>2, <1>3, <1>4, <2>2, <2>3 DEF Tidy
<1>6. InUse(store, d, s)
  BY <1>2, <1>4 DEF InUse
<1>7. Held(FALSE, store, diskFat, d, e)
  <2>1. Stays(store, {}, d, s)
    BY <1>6 DEF Stays
  <2>2. Held(FALSE, store, diskFat, d, store[d].table[s])
    BY <1>1, <1>2, <2>1 DEF Tree
  <2>3. QED BY <2>2
<1>8. <<d, s>> \in Listing
  BY <1>1, <1>6 DEF Listing, NoneBroken, InUse
<1>9. <<d, name>> \in DOMAIN Files /\ Files[<<d, name>>] = Content(e)
  BY <1>1, <1>2, <1>8, PlacesAre DEF Files
<1>10. QED BY <1>2, <1>4, <1>5, <1>7, <1>9 DEF At

\* What read() gives of a file that is asked for in its whole length.
LEMMA ReadsFile ==
  ASSUME NEW sure \in BOOLEAN, Prompted(sure), NEW d, NEW name, NEW s, NEW e, At(d, name, s, e), ~e.dir
  PROVE  /\ ReadBlocks(d, name, e.length) = Blocks(e)
         /\ e.length \in Nat /\ Len(Blocks(e)) = e.length /\ Blocks(e) # <<>>
         /\ BlocksOK(FALSE, d, name, Blocks(e))
         /\ Content(e).blocks = Blocks(e)
<1>1. fat = diskFat
  BY DEF Prompted, Fat32Inv
<1>2. /\ Blocks(e) = [k \in 1 .. e.length |-> store[Chain(diskFat, e.cluster)[k]].data]
      /\ e.length \in Nat /\ BlocksOK(FALSE, d, e.name, Blocks(e)) /\ Len(Blocks(e)) = e.length
      /\ Blocks(e) # <<>>
  <2>1. Held(FALSE, store, diskFat, d, e)
    BY DEF At
  <2>2. QED BY <2>1, HeldIsWhole
<1>3. Least({s}) = s
  <2>1. {s} \in SUBSET Nat /\ {s} # {}
    BY Constants DEF At
  <2>2. QED BY <2>1, LeastIs
<1>4. store[d].table[Least(SlotsNamed(store[d].table, name))] = e
  BY <1>3 DEF At
<1>5. PICK chain : chain = Chain(diskFat, e.cluster)
  OBVIOUS
<1>6. Len(chain) = e.length
  BY <1>5 DEF At, Held
<1>7. ReadBlocks(d, name, e.length) = [k \in 1 .. e.length |-> store[chain[k]].data]
  BY <1>1, <1>4, <1>5, <1>6 DEF ReadBlocks, Chain
<1>8. e.name = name
  BY DEF At
<1>9. QED BY <1>2, <1>5, <1>7, <1>8 DEF Content

\* Names that do not begin another are found by themselves: in the slots of
\* the entries, and in the directory's own.
LEMMA MatchingIs ==
  ASSUME PrefixOf = {}, NEW table, NEW name
  PROVE  /\ SlotsMatching(table, name) = {s \in Slots : table[s].name = name}
         /\ SlotsMatching(table, name) \ {0} = SlotsNamed(table, name)
BY DEF SlotsMatching, SlotsNamed, Matches

\* The size that cp asks for is the file's.
LEMMA SizeIs ==
  ASSUME Assumed, NEW name, NEW s, NEW e, At(Cwd, name, s, e)
  PROVE  SourceSize(name) = e.length
<1>1. PICK found : found = SlotsMatching(store[Cwd].table, name)
  OBVIOUS
<1>2. found \ {0} = {s} /\ found \subseteq Slots
  BY <1>1, MatchingIs DEF At, Assumed, SlotsMatching
<1>3. s \in Nat /\ s > 0 /\ s \in found
  BY <1>2, Constants DEF At
<1>4. (CHOOSE x \in found : \A t \in found : t <= x) = s
  <2>1. \A t \in found : t <= s
    BY <1>2, <1>3
  <2>2. \A x \in found : (\A t \in found : t <= x) => x = s
    <3>1. SUFFICES ASSUME NEW x \in found, s <= x PROVE x = s
      BY <1>3
    <3>2. x = 0 \/ x = s
      BY <1>2
    <3>3. QED BY <1>3, <3>1, <3>2
  <2>3. QED BY <1>3, <2>1, <2>2
<1>5. found # {}
  BY <1>3
<1>6. QED BY <1>1, <1>4, <1>5 DEF SourceSize, Carried, At

\* What a delete frees in memory can be handed out at once.
LEMMA FreeOnceDeleted ==
  ASSUME NEW sure \in BOOLEAN, Prompted(sure), NEW d, NEW name, NEW s, NEW e, At(d, name, s, e),
         Delete(d, name), ~DeleteRefused(d, name)
  PROVE  FreeClusters \cup Occupied(e) \subseteq FreeClusters'
<1> DEFINE slot == Least(SlotsNamed(store[d].table, name))
           at == store[d].table[slot]
           chain == IF at.dir THEN <<at.cluster>> ELSE ChainFrom(fat)[at.cluster]
<1>1. fat' = Released(chain)
  <2>1. ~(DeleteRefused(d, name) /\ UNCHANGED vars)
    OBVIOUS
  <2>2. QED BY ONLY <2>1, Delete(d, name), ZenonT(30) DEF Delete
<1>2. at = e
  <2>1. {s} \in SUBSET Nat /\ {s} # {}
    BY Constants DEF At
  <2>2. Least({s}) = s
    BY <2>1, LeastIs
  <2>3. QED BY <2>2 DEF At
<1>3. fat \in Maps /\ fat = diskFat
  BY DEF Prompted, Fat32Inv, Base
<1>4. Linked(fat, e.cluster)
  BY <1>3 DEF At, Held
<1>5. e.cluster \in Clusters /\ ToSet(ChainFrom(fat)[e.cluster]) \subseteq Clusters
  <2>1. PICK c : c = e.cluster
    OBVIOUS
  <2>2. PICK w : w = Chain(fat, c)
    OBVIOUS
  <2>3. w \in Seq(Clusters) /\ Len(w) \in 1 .. NClusters /\ w[1] = c
    BY <1>4, <2>1, <2>2 DEF Linked, Links
  <2>4. ToSet(w) \subseteq Clusters
    BY <2>3 DEF ToSet
  <2>5. c \in Clusters
    BY <2>3, Constants
  <2>6. QED BY <2>1, <2>2, <2>4, <2>5 DEF Chain
<1>6. Occupied(e) = ToSet(chain) /\ Occupied(e) \subseteq Clusters
  <2>1. ToSet(<<e.cluster>>) = {e.cluster}
    BY DEF ToSet
  <2>2. QED BY <1>2, <1>5, <2>1 DEF Occupied
<1>7. \A c \in Clusters : c \in DOMAIN fat
  BY <1>3, Constants DEF Maps
<1> HIDE DEF chain
<1>8. QED BY <1>1, <1>6, <1>7 DEF Released, FreeClusters

LEMMA CpDeleteStep ==
  ASSUME Assumed, Grounds, NEW sure \in BOOLEAN, Prompted(sure),
         NEW n \in Nat, NEW name \in UserNames, NEW dest \in UserNames, NEW dotted,
         MayCopy(name, n, dest), CpDelete(name, n, dest, dotted)
  PROVE  Grounds' /\ Underway(sure)'
<1>1. PICK c, d, size : c = Cwd /\ d = Depth(n) /\ size = SourceSize(name)
  OBVIOUS
<1>2. PICK before, goal, named :
        /\ before = Files /\ named = {<<d, dest>>}
        /\ goal = IF <<c, name>> \in DOMAIN Files
                  THEN With(Files, <<d, dest>>, Files[<<c, name>>]) ELSE Files
  OBVIOUS
<1>3. /\ n < Len(path) /\ path' = path /\ pathNames' = pathNames /\ Intends(goal, named)
      /\ name \in Names /\ dest \in Names
      /\ MayGo(n, dest)
      /\ \A x \in EntriesOf(d) :
           x.name = dest => Cardinality(FreeClusters \cup Occupied(x)) >= size
  <2>1. n < Len(path)
    BY DEF CpDelete
  <2>2. /\ MayGo(n, dest)
        /\ \A x \in EntriesOf(d) :
             x.name = dest => Cardinality(FreeClusters \cup Occupied(x)) >= size
    BY <1>1, <2>1 DEF MayCopy
  <2>3. QED BY <1>1, <1>2, <2>1, <2>2, ShellAssumption DEF CpDelete
<1>4. CASE UNCHANGED vars /\ job' = LastCall(FALSE)
  BY <1>2, <1>3, <1>4, RefusedEnds
<1>5. CASE /\ ReadSucceeds(c, name, size) /\ Delete(d, dest) /\ ~DeleteRefused(d, dest)
           /\ job' = [op |-> "cp", blocks |-> ReadBlocks(c, name, size), up |-> n, name |-> dest]
  <2>1. c \in Directories /\ d \in Directories
    BY <1>1, <1>3, CwdIn, DepthIn DEF Grounds
  <2>2. PICK s : s \in SlotsNamed(store[c].table, name)
    BY <1>5 DEF ReadSucceeds
  <2>3. PICK e : e = store[c].table[s]
    OBVIOUS
  <2>4. At(c, name, s, e)
    BY <1>3, <2>1, <2>2, <2>3, AtSlot
  <2>5. size = e.length /\ size > 0
    BY <1>1, <1>5, <2>4, SizeIs DEF ReadSucceeds
  <2>6. ~e.dir /\ e.dir \in BOOLEAN
    <3>1. ~e.dir
      BY <2>4, <2>5 DEF At, Held
    <3>2. e \in Entry
      BY <2>1, <2>4, DirectoriesNow DEF At, Prompted, Fat32Inv, Base, StoreOK
    <3>3. QED BY <3>1, <3>2 DEF Entry
  <2>7. PICK blocks : blocks = Blocks(e)
    OBVIOUS
  <2>8. /\ ReadBlocks(c, name, size) = blocks /\ Len(blocks) = size /\ blocks # <<>>
        /\ BlocksOK(FALSE, c, name, blocks)
    BY <2>4, <2>5, <2>6, <2>7, ReadsFile
  <2>9. Files[<<c, name>>] = File(blocks) /\ <<c, name>> \in DOMAIN Files
    BY <2>4, <2>6, <2>7 DEF At, Content, File
  <2>10. goal = With(before, <<d, dest>>, File(blocks))
    BY <1>2, <2>9
  <2>11. BlocksOK(FALSE, d, dest, blocks)
    BY <2>8 DEF BlocksOK, Sound
  <2>12. /\ Fat32Inv(FALSE, sure)' /\ mode' = "delete"
         /\ UNCHANGED <<signature, diskFat, store>>
         /\ DeleteBegun(FALSE, sure, d, dest)'
    BY <1>1, <1>3, <1>5, MayDelete
  <2>13. Pursued(before, goal, named)' /\ Files' = before
    BY <1>2, <1>3, <2>12, SetsOut
  <2>14. Deleting(sure, before, d, dest)'
    BY <1>1, <1>3, <2>12, <2>13, DeletingBegins
  <2>15. Depth(n)' = d
    BY <1>1, <1>3 DEF Depth
  <2>16. Cardinality(FreeClusters') >= Len(blocks)
    <3>1. PICK t : t \in SlotsNamed(store[d].table, dest)
      BY <1>5 DEF DeleteRefused
    <3>2. PICK x : x = store[d].table[t]
      OBVIOUS
    <3>3. At(d, dest, t, x)
      BY <1>3, <2>1, <3>1, <3>2, AtSlot
    <3>4. x \in EntriesOf(d) /\ x.name = dest
      BY <3>3 DEF At, EntriesOf, UsedSlots
    <3>5. Cardinality(FreeClusters \cup Occupied(x)) >= size
      BY <1>3, <3>4
    <3>6. FreeClusters \cup Occupied(x) \subseteq FreeClusters'
      BY <1>5, <3>3, FreeOnceDeleted
    <3>7. (IsFiniteSet(FreeClusters) /\ Cardinality(FreeClusters) \in Nat)'
      BY FreeCounted, PTL
    <3>8. IsFiniteSet(FreeClusters') /\ Cardinality(FreeClusters') \in Nat
      BY <3>7
    <3>9. /\ Cardinality(FreeClusters \cup Occupied(x)) \in Nat
          /\ Cardinality(FreeClusters \cup Occupied(x)) <= Cardinality(FreeClusters')
      BY ONLY <3>6, <3>8, FS_Subset, FS_CardinalityType
    <3>10. size \in Nat
      BY <2>8, <2>11 DEF BlocksOK
    <3>11. QED BY <2>8, <3>5, <3>8, <3>9, <3>10
  <2>17. CopyJob(before, goal, named, n, dest, blocks)'
    <3>1. job' = [op |-> "cp", blocks |-> blocks, up |-> n, name |-> dest]
      BY <1>5, <2>8
    <3>2. n \in Nat /\ n < Len(path') /\ dest \in Names
      BY <1>3
    <3>3. <<d, dest>> \in named
      BY <1>2
    <3>4. QED BY <2>8, <2>10, <2>11, <2>15, <2>16, <3>1, <3>2, <3>3 DEF CopyJob
  <2>18. Replacing(sure, before, goal, named)'
    BY <2>14, <2>15, <2>17 DEF Replacing
  <2>19. Grounds'
    BY <1>3, <2>12, GroundsUntouched
  <2>20. QED BY <2>13, <2>18, <2>19 DEF Underway, Stage
<1>6. CASE Delete(d, dest) /\ DeleteRefused(d, dest) /\ job' = LastCall(FALSE)
  <2>1. UNCHANGED vars
    BY <1>6 DEF Delete
  <2>2. QED BY <1>4, <1>6, <2>1
<1>7. QED BY <1>1, <1>4, <1>5, <1>6 DEF CpDelete

\* An entry found by itself is erased with one write.
LEMMA ErasesOne ==
  ASSUME NEW d, NEW s \in Slots, store[d].table \in [Slots -> Entry]
  PROVE  /\ Erasures(d, {s}) = <<WriteOf(d, TableCluster(WithoutEntry(store[d].table, s)))>>
         /\ Carried(d, {s}) = store[d].table[s]
<1>1. Cardinality({s}) = 1
  BY FS_Singleton
<1>2. Cardinality({t \in {s} : t < s}) = 0
  <2>1. {t \in {s} : t < s} = {}
    BY Constants
  <2>2. QED BY <2>1, FS_EmptySet
<1>3. [r \in Slots |-> IF r \in {s} /\ Cardinality({t \in {s} : t < r}) < 1
                       THEN EmptyEntry ELSE store[d].table[r]]
        = WithoutEntry(store[d].table, s)
  <2>1. ASSUME NEW r \in Slots
        PROVE  (r \in {s} /\ Cardinality({t \in {s} : t < r}) < 1) <=> r = s
    <3>1. CASE r = s
      <4>1. Cardinality({t \in {s} : t < r}) = 0
        BY <1>2, <3>1
      <4>2. QED BY <3>1, <4>1
    <3>2. QED BY <3>1
  <2>2. QED BY <2>1 DEF WithoutEntry
<1>4. Erasures(d, {s}) = [k \in 1 .. 1 |-> WriteOf(d, TableCluster(WithoutEntry(store[d].table, s)))]
  <2>1. \A k \in 1 .. 1 : k = 1
    OBVIOUS
  <2>2. QED BY <1>1, <1>3, <2>1 DEF Erasures
<1>5. Carried(d, {s}) = store[d].table[s]
  <2>1. (CHOOSE x \in {s} : \A t \in {s} : t <= x) = s
    <3>1. s \in {s} /\ \A t \in {s} : t <= s
      BY Constants
    <3>2. QED BY ONLY <3>1
  <2>2. QED BY <2>1 DEF Carried
<1>6. QED BY <1>4, <1>5

LEMMA MvEraseStep ==
  ASSUME Assumed, Grounds, NEW sure \in BOOLEAN, Prompted(sure),
         NEW n \in Nat, NEW name \in UserNames, NEW dest \in UserNames,
         MayMove(name, n, dest), MvErase(name, n, dest, TRUE)
  PROVE  Grounds' /\ Underway(sure)'
<1>1. PICK c, d, found, before : c = Cwd /\ d = Depth(n) /\ before = Files
                                 /\ found = SlotsMatching(store[c].table, name)
  OBVIOUS
<1>2. PICK goal, named :
        /\ named = {<<c, name>>, <<d, dest>>} \cup PlacesBeneath(c, name)
        /\ goal = IF <<c, name>> \in DOMAIN before
                  THEN With(Without(before, <<c, name>>), <<d, dest>>, before[<<c, name>>])
                  ELSE before
  OBVIOUS
<1>3. /\ n < Len(path) /\ path' = path /\ pathNames' = pathNames /\ Intends(goal, named)
      /\ name \in Names /\ dest \in Names
  BY <1>1, <1>2, ShellAssumption DEF MvErase
<1>4. CASE ~Readable(0) /\ UNCHANGED vars /\ job' = LastCall(FALSE)
  <2>1. named # {}
    BY <1>2
  <2>2. QED BY <1>3, <1>4, <2>1, RefusedEnds
<1>5. CASE /\ Readable(0) /\ pending' = Erasures(c, found)
           /\ mode' = IF found = {} THEN "idle" ELSE "raw"
           /\ job' = [op |-> "mv", entry |-> Carried(c, found), up |-> n, name |-> dest, dotted |-> TRUE]
           /\ UNCHANGED <<signature, diskFat, store, fat, clean>>
  <2>1. PICK s \in Slots \ {0} : found = {s}
    BY <1>1, <1>3, <1>5 DEF MayMove
  <2>2. /\ SlotsNamed(store[d].table, dest) = {} /\ (n = 0 \/ UsedSlots(store[d].table) # Slots)
        /\ ~Renamed(n)
    BY <1>1, <1>3, <1>5 DEF MayMove
  <2>3. c \in Directories /\ c \in Clusters /\ d \in Directories
    BY <1>1, <1>3, CwdIn, DepthIn DEF Grounds
  <2>4. PICK e : e = store[c].table[s]
    OBVIOUS
  <2>5. s \in SlotsNamed(store[c].table, name)
    BY <1>1, <2>1, MatchingIs DEF Assumed
  <2>6. At(c, name, s, e)
    BY <1>3, <2>3, <2>4, <2>5, AtSlot
  <2>7. e.name = name /\ InUse(store, c, s)
    BY <2>4, <2>6 DEF At, InUse
  <2>8. store[c].table \in [Slots -> Entry]
    BY <2>3 DEF Prompted, Fat32Inv, Base, StoreOK
  <2>9. /\ pending' = <<WriteOf(c, TableCluster(WithoutEntry(store[c].table, s)))>>
        /\ mode' = "raw" /\ Carried(c, found) = e
    BY <1>5, <2>1, <2>4, <2>8, ErasesOne
  <2>10. e \in Entry
    BY <2>4, <2>8
  <2>11. Pursued(before, goal, named)' /\ Files' = before
    <3>1. named # {}
      BY <1>2
    <3>2. QED BY <1>1, <1>3, <1>5, <3>1, SetsOut
  <2>12. AtRest(sure)'
    <3>1. Base /\ signature /\ fat = diskFat /\ Settled(FALSE, sure, {}, {})
      BY DEF Prompted, Fat32Inv
    <3>2. Settled(FALSE, sure, {}, {})'
      BY <1>5, <3>1, SettledSame
    <3>3. QED BY <1>5, <2>9, <3>1, <3>2 DEF AtRest, Base
  <2>13. Cwd' = c /\ Depth(n)' = d
    BY <1>1, <1>3 DEF Depth, Cwd
  <2>14. MoveJob(e, n, dest)'
    <3>1. job' = [op |-> "mv", entry |-> e, up |-> n, name |-> dest, dotted |-> TRUE]
      BY <1>5, <2>9
    <3>2. (~Renamed(n))'
      BY <1>3, <1>5, <2>2 DEF Renamed, Depth
    <3>3. QED BY <1>3, <1>5, <2>2, <2>10, <2>13, <3>1, <3>2 DEF MoveJob
  <2>15. PlacesBeneath(c, name)' = PlacesBeneath(c, name)
    <3>1. Files' = Files
      BY <1>1, <2>11
    <3>2. /\ \A x : DirectoriesFrom(x)' = DirectoriesFrom(x)
          /\ \A x : EntriesOf(x)' = EntriesOf(x)
      BY <1>5 DEF EntriesOf, DirectoriesFrom, SubdirsOf
    <3>3. QED BY <3>1, <3>2 DEF PlacesBeneath
  <2>16. goal = With(Without(before, <<c, e.name>>), <<d, dest>>, Stored(store, diskFat, e))
    <3>1. <<c, name>> \in DOMAIN before /\ before[<<c, name>>] = Content(e)
      BY <1>1, <2>6 DEF At
    <3>2. Content(e) = Stored(store, diskFat, e)
      BY DEF Content, Stored, Blocks, DiskChain, Chain
    <3>3. QED BY <1>2, <2>7, <3>1, <3>2
  <2>17. Erasing(sure, before, goal, named)'
    <3>1. (InUse(store, c, s) /\ e = store[c].table[s])'
      BY <1>5, <2>4, <2>7 DEF InUse
    <3>2. pending' = <<WriteOf(c, TableCluster(WithoutEntry(store'[c].table, s)))>>
      BY <1>5, <2>9
    <3>3. {<<c, e.name>>, <<d, dest>>} \cup PlacesBeneath(c, e.name)' \subseteq named
      BY <1>2, <2>7, <2>15
    <3>4. goal = With(Without(before, <<c, e.name>>), <<d, dest>>, Stored(store', diskFat', e))
      BY <1>5, <2>16
    <3>5. n = 0 \/ UsedSlots(store'[d].table) # Slots
      BY <1>5, <2>2
    <3>6. QED BY <2>9, <2>11, <2>12, <2>13, <2>14, <3>1, <3>2, <3>3, <3>4, <3>5 DEF Erasing
  <2>18. Grounds'
    BY <1>3, <1>5, GroundsUntouched
  <2>19. QED BY <2>11, <2>17, <2>18 DEF Underway, Stage
<1>6. QED BY <1>1, <1>4, <1>5 DEF MvErase

-----------------------------------------------------------------------------
(* Every step.                                                             *)

\* A disk of which nothing is lost is a disk.
LEMMA Unsure ==
  ASSUME NEW sure \in BOOLEAN, Fat32Inv(FALSE, sure)
  PROVE  Fat32Inv(FALSE, FALSE)
<1>1. ASSUME NEW gone, NEW aside, Settled(FALSE, sure, gone, aside) PROVE Settled(FALSE, FALSE, gone, aside)
  BY <1>1 DEF Settled
<1>2. ASSUME NEW parent, NEW e, NEW chain, NEW what, NEW done,
             WriteJob(FALSE, sure, parent, e, chain, what, done)
      PROVE  WriteJob(FALSE, FALSE, parent, e, chain, what, done)
  BY <1>1, <1>2 DEF WriteJob
<1>3. ASSUME NEW parent, NEW slot, NEW e, NEW chain, NEW done,
             DeleteJob(FALSE, sure, parent, slot, e, chain, done)
      PROVE  DeleteJob(FALSE, FALSE, parent, slot, e, chain, done)
  BY <1>1, <1>3 DEF DeleteJob
<1>4. mode = "write" => \E parent, e, chain, what, done : WriteJob(FALSE, FALSE, parent, e, chain, what, done)
  BY <1>2 DEF Fat32Inv
<1>5. mode = "delete" => \E parent, slot, e, chain, done : DeleteJob(FALSE, FALSE, parent, slot, e, chain, done)
  BY <1>3 DEF Fat32Inv
<1>6. QED BY <1>1, <1>4, <1>5 DEF Fat32Inv

\* What the disk is doing at each stage of a command, and what the shell waits
\* for.
Busied(does, op) == mode = does /\ job.op = op

LEMMA StageKinds ==
  ASSUME NEW sure \in BOOLEAN, NEW before, NEW goal, NEW named, Stage(sure, before, goal, named)
  PROVE  \/ Ended(sure, before, goal) /\ Busied("idle", "last")
         \/ Writing(sure, goal, named) /\ Busied("write", "last")
         \/ Removing(sure, before, goal, named) /\ Busied("delete", "last")
         \/ Replacing(sure, before, goal, named) /\ Busied("delete", "cp")
         \/ Refilling(sure, before, goal, named) /\ Busied("idle", "cp")
         \/ Erasing(sure, before, goal, named) /\ Busied("raw", "mv")
         \/ Moving(sure, before, goal, named) /\ Busied("idle", "mv")
         \/ Settling(sure, before, goal, named) /\ Busied("raw", "last")
<1>1. \A ok : LastCall(ok).op = "last"
  BY DEF LastCall
<1>2. Ended(sure, before, goal) => Busied("idle", "last")
  BY <1>1 DEF Ended, Busied
<1>3. Writing(sure, goal, named) => Busied("write", "last")
  BY <1>1 DEF Writing, Busied
<1>4. Removing(sure, before, goal, named) => Busied("delete", "last")
  BY <1>1 DEF Removing, Deleting, Busied
<1>5. \A up, name, blocks : CopyJob(before, goal, named, up, name, blocks) => job.op = "cp"
  BY DEF CopyJob
<1>6. Replacing(sure, before, goal, named) => Busied("delete", "cp")
  BY <1>5 DEF Replacing, Deleting, Busied
<1>7. Refilling(sure, before, goal, named) => Busied("idle", "cp")
  BY <1>5 DEF Refilling, Busied
<1>8. \A e, up, dest : MoveJob(e, up, dest) => job.op = "mv"
  BY DEF MoveJob
<1>9. Erasing(sure, before, goal, named) => Busied("raw", "mv")
  BY <1>8 DEF Erasing, Busied
<1>10. Moving(sure, before, goal, named) => Busied("idle", "mv")
  BY <1>8 DEF Moving, Busied
<1>11. Settling(sure, before, goal, named) => Busied("raw", "last")
  BY <1>1 DEF Settling, Busied
<1>12. QED BY ONLY Stage(sure, before, goal, named), <1>2, <1>3, <1>4, <1>6, <1>7, <1>9, <1>10, <1>11
              DEF Stage

\* A command that is under way has a job and, at any of its stages, a disk
\* that a boot may find.
LEMMA StageIs ==
  ASSUME NEW sure \in BOOLEAN, NEW before, NEW goal, NEW named, Stage(sure, before, goal, named)
  PROVE  /\ job # NoJob /\ job.op \in {"last", "mv", "cp"}
         /\ mode \in {"idle", "write", "delete", "raw"}
         /\ mode # "raw" => Fat32Inv(FALSE, FALSE)
         /\ mode = "raw" => AtRest(FALSE)
<1>1. job.op \in {"last", "mv", "cp"} /\ mode \in {"idle", "write", "delete", "raw"}
  BY StageKinds DEF Busied
<1>2. job # NoJob
  BY <1>1 DEF NoJob
<1>3. mode # "raw" => \E some \in BOOLEAN : Fat32Inv(FALSE, some)
  BY DEF Stage, Ended, Writing, Removing, Replacing, Refilling, Erasing, Moving, Settling, Deleting
<1>4. mode # "raw" => Fat32Inv(FALSE, FALSE)
  BY <1>3, Unsure
<1>5. mode = "raw" => AtRest(FALSE)
  BY DEF Stage, Ended, Writing, Removing, Replacing, Refilling, Erasing, Moving, Settling, Deleting,
         AtRest, Settled
<1>6. QED BY <1>1, <1>2, <1>4, <1>5

LEMMA UnderwayIs ==
  ASSUME NEW sure \in BOOLEAN, Underway(sure)
  PROVE  /\ job # NoJob /\ job.op \in {"last", "mv", "cp"}
         /\ mode \in {"idle", "write", "delete", "raw"}
         /\ mode # "raw" => Fat32Inv(FALSE, FALSE)
         /\ mode = "raw" => AtRest(FALSE)
BY StageIs DEF Underway

LEMMA DiskStep ==
  ASSUME Assumed, Grounds, NEW sure \in BOOLEAN, Underway(sure), Disk
  PROVE  Grounds' /\ Underway(sure)'
<1>1. PICK before, goal, named : Pursued(before, goal, named) /\ Stage(sure, before, goal, named)
  BY DEF Underway
<1>2. DiskWrite /\ UNCHANGED shellVars /\ mode # "idle"
  BY DEF Disk, DiskWrite, Busy, Calling
<1>3. Grounds' /\ Pursued(before, goal, named)' /\ Stage(sure, before, goal, named)'
  <2>1. CASE Writing(sure, goal, named)
    <3>1. /\ Grounds' /\ Pursued(before, goal, named)'
          /\ Writing(sure, goal, named)' \/ Ended(sure, before, goal)'
      BY <1>1, <1>2, <2>1, WritingStep
    <3>2. QED BY <3>1 DEF Stage
  <2>2. CASE Removing(sure, before, goal, named)
    <3>1. /\ Grounds' /\ Pursued(before, goal, named)'
          /\ Removing(sure, before, goal, named)' \/ Ended(sure, before, goal)'
      BY <1>1, <1>2, <2>2, RemovingStep
    <3>2. QED BY <3>1 DEF Stage
  <2>3. CASE Replacing(sure, before, goal, named)
    <3>1. /\ Grounds' /\ Pursued(before, goal, named)'
          /\ Replacing(sure, before, goal, named)' \/ Refilling(sure, before, goal, named)'
      BY <1>1, <1>2, <2>3, ReplacingStep
    <3>2. QED BY <3>1 DEF Stage
  <2>4. CASE Erasing(sure, before, goal, named)
    <3>1. Grounds' /\ Pursued(before, goal, named)' /\ Moving(sure, before, goal, named)'
      BY <1>1, <1>2, <2>4, ErasingStep
    <3>2. QED BY <3>1 DEF Stage
  <2>5. CASE Settling(sure, before, goal, named)
    <3>1. Grounds' /\ Pursued(before, goal, named)' /\ Ended(sure, before, goal)'
      BY <1>1, <1>2, <2>5, SettlingStep
    <3>2. QED BY <3>1 DEF Stage
  <2>6. CASE Ended(sure, before, goal) \/ Refilling(sure, before, goal, named)
             \/ Moving(sure, before, goal, named)
    BY <1>2, <2>6 DEF Ended, Refilling, Moving
  <2>7. QED BY <1>1, <2>1, <2>2, <2>3, <2>4, <2>5, <2>6 DEF Stage
<1>4. QED BY <1>3 DEF Underway

LEMMA MvEnterStep ==
  ASSUME Assumed, Grounds, NEW sure \in BOOLEAN, Underway(sure), MvEnter
  PROVE  Grounds' /\ Underway(sure)'
<1>1. PICK before, goal, named : Pursued(before, goal, named) /\ Stage(sure, before, goal, named)
  BY DEF Underway
<1>2. mode = "idle" /\ job.op = "mv"
  BY DEF MvEnter
<1>3. Moving(sure, before, goal, named)
  BY <1>1, <1>2, StageKinds DEF Busied
<1>4. Grounds' /\ Pursued(before, goal, named)' /\ Settling(sure, before, goal, named)'
  BY <1>1, <1>3, MovingStep
<1>5. QED BY <1>4 DEF Underway, Stage

LEMMA CpWriteStep ==
  ASSUME Assumed, Grounds, NEW sure \in BOOLEAN, Underway(sure), CpWrite
  PROVE  Grounds' /\ Underway(sure)'
<1>1. PICK before, goal, named : Pursued(before, goal, named) /\ Stage(sure, before, goal, named)
  BY DEF Underway
<1>2. mode = "idle" /\ job.op = "cp"
  BY DEF CpWrite
<1>3. Refilling(sure, before, goal, named)
  BY <1>1, <1>2, StageKinds DEF Busied
<1>4. Grounds' /\ Pursued(before, goal, named)' /\ Writing(sure, goal, named)'
  BY <1>1, <1>3, RefillingStep
<1>5. QED BY <1>4 DEF Underway, Stage

LEMMA NextPromptStep ==
  ASSUME Assumed, Grounds, NEW sure \in BOOLEAN, Underway(sure), NextPrompt
  PROVE  Grounds' /\ Resting(sure)'
<1>1. PICK before, goal, named : Stage(sure, before, goal, named)
  BY DEF Underway
<1>2. mode = "idle" /\ job.op = "last" /\ UNCHANGED vars
  BY DEF NextPrompt
<1>3. Ended(sure, before, goal)
  BY <1>1, <1>2, StageKinds DEF Busied
<1>4. Fat32Inv(FALSE, sure)'
  BY <1>2, <1>3, StutterSafe DEF Ended
<1>5. mode' = mode /\ store' = store /\ signature' = signature
  BY <1>2 DEF vars
<1>6. Grounds'
  BY <1>5, GroundsUntouched DEF NextPrompt
<1>7. QED BY <1>2, <1>4, <1>5, <1>6 DEF Resting, NextPrompt

\* The shell that a boot starts is in the root.
LEMMA TrackOfRoot == path = <<Root>> /\ pathNames = <<RootName>> => Stacked
<1>1. SUFFICES ASSUME path = <<Root>>, pathNames = <<RootName>> PROVE Stacked
  OBVIOUS
<1>2. Root \in Clusters
  BY Constants
<1>3. PICK p, names : p = <<Root>> /\ names = <<RootName>>
  OBVIOUS
<1>4. /\ p \in Seq(Clusters) /\ p # <<>> /\ Len(p) = 1 /\ p[1] = Root
      /\ names \in Seq(Names \cup {RootName}) /\ Len(names) = 1 /\ names[1] = RootName
  BY <1>2, <1>3
<1>5. Track(p, names)
  BY <1>4 DEF Track
<1>6. QED BY <1>1, <1>3, <1>5, StackIsTrack

LEMMA RestartStep ==
  ASSUME Assumed, Grounds, NEW sure \in BOOLEAN, Resting(sure) \/ Underway(sure), Restart
  PROVE  /\ Grounds'
         /\ \E less \in BOOLEAN : Resting(less)' /\ less = (sure /\ job = NoJob)
<1>1. /\ PowerFailure /\ path' = <<Root>> /\ pathNames' = <<RootName>>
      /\ job' = NoJob /\ intent' = NoIntent /\ mode' = "off"
      /\ signature' = signature /\ store' = store /\ diskFat' = diskFat
  BY DEF Restart, PowerFailure
<1>2. Grounds'
  <2>1. (path = <<Root>> /\ pathNames = <<RootName>> => Stacked)'
    BY TrackOfRoot, PTL
  <2>2. Stacked'
    BY <1>1, <2>1
  <2>3. QED BY <1>1, <2>2 DEF Grounds
<1>3. Spared
  BY <1>1 DEF Assumed, Sheltered, Spared, PowerFailure
<1>4. CASE Resting(sure)
  <2>1. job = NoJob /\ Fat32Inv(FALSE, sure) /\ ~Busy
    BY <1>4 DEF Resting, Busy, Calling
  <2>2. Fat32Inv(FALSE, sure)'
    BY <1>1, <1>3, <2>1, PowerFailureSafe
  <2>3. QED BY <1>1, <1>2, <2>1, <2>2 DEF Resting
<1>5. CASE Underway(sure)
  <2>1. /\ job # NoJob
        /\ mode # "raw" => Fat32Inv(FALSE, FALSE)
        /\ mode = "raw" => AtRest(FALSE)
    BY <1>5, UnderwayIs
  <2>2. Fat32Inv(FALSE, FALSE)'
    <3>1. CASE mode = "raw"
      <4>1. Base /\ signature /\ Settled(FALSE, FALSE, {}, {})
        BY <2>1, <3>1 DEF AtRest
      <4>2. Settled(FALSE, FALSE, {}, {})'
        BY <1>1, <4>1, SettledSame
      <4>3. fat' \in Maps /\ pending' = <<>> /\ clean' \in BOOLEAN
        BY <1>1, <4>1, FormatFatIs DEF PowerFailure, Base
      <4>4. QED BY <1>1, <4>1, <4>2, <4>3 DEF Fat32Inv, Base
    <3>2. CASE mode # "raw"
      <4>1. Fat32Inv(FALSE, FALSE) /\ PowerFailure
        BY <1>1, <2>1, <3>2
      <4>2. FALSE => ~Busy
        OBVIOUS
      <4>3. QED BY ONLY <1>3, <4>1, <4>2, PowerFailureSafe
    <3>3. QED BY <3>1, <3>2
  <2>3. Resting(FALSE)'
    BY <1>1, <2>2 DEF Resting
  <2>4. FALSE = (sure /\ job = NoJob)
    BY <2>1
  <2>5. QED BY <1>2, <2>3, <2>4
<1>6. QED BY <1>4, <1>5

LEMMA BootsStep ==
  ASSUME Assumed, Grounds, NEW sure \in BOOLEAN, Resting(sure), Boots
  PROVE  Grounds' /\ Resting(sure)'
<1>1. Initialize /\ UNCHANGED shellVars /\ signature
  BY DEF Boots, Grounds
<1>2. LoadFat /\ store' = store /\ signature' = signature
  BY <1>1 DEF Initialize, CreateFat32
<1>3. Fat32Inv(FALSE, sure)'
  BY <1>1, InitializeSafe DEF Resting
<1>4. Grounds'
  BY <1>1, <1>2, GroundsUntouched DEF shellVars
<1>5. QED BY <1>1, <1>2, <1>3, <1>4 DEF Resting, LoadFat, shellVars

LEMMA CommandStep ==
  ASSUME Assumed, Grounds, NEW sure \in BOOLEAN, Resting(sure), CarefulCommand
  PROVE  Grounds' /\ cut' = cut /\ (Resting(sure)' \/ Underway(sure)')
<1>1. ASSUME mode = "idle" PROVE Prompted(sure)
  BY <1>1 DEF Prompted, Resting
<1>2. Levels \subseteq Nat
  BY PathLength DEF Levels, Grounds
<1>3. CASE \E n \in Levels, name \in Typed : Cd(n, name)
  <2>1. PICK n \in Levels, name \in Typed : Cd(n, name)
    BY <1>3
  <2>2. mode = "idle" /\ UNCHANGED vars /\ job' = job /\ intent' = intent /\ cut' = cut
    BY <2>1 DEF Cd, AtPrompt
  <2>3. Fat32Inv(FALSE, sure) /\ job = NoJob /\ intent = NoIntent /\ mode \in {"idle", "off"}
    BY DEF Resting
  <2>4. Grounds'
    BY <1>2, <2>1, <2>2, <2>3, CdStep
  <2>5. Fat32Inv(FALSE, sure)' /\ mode' = mode
    BY <2>2, <2>3, StutterSafe DEF vars
  <2>6. QED BY <2>2, <2>3, <2>4, <2>5 DEF Resting
<1>4. CASE \E name \in PlainNames : Mkdir(name)
  <2>1. PICK name \in UserNames : Mkdir(name)
    BY <1>4 DEF PlainNames
  <2>2. mode = "idle" /\ cut' = cut
    BY <2>1 DEF Mkdir, AtPrompt
  <2>3. QED BY <1>1, <2>1, <2>2, MkdirStep
<1>5. CASE \E n \in Levels, name \in UserNames, text \in Texts : Nano(n, name, text)
  <2>1. PICK n \in Levels, name \in UserNames, text \in Texts : Nano(n, name, text)
    BY <1>5
  <2>2. mode = "idle" /\ cut' = cut
    BY <2>1 DEF Nano, AtPrompt
  <2>3. QED BY <1>1, <1>2, <2>1, <2>2, NanoStep
<1>6. CASE \E n \in Levels, name \in UserNames : \E dotted \in Dots(name) :
             MayGo(n, name) /\ Rm(n, name, dotted)
  <2>1. PICK n \in Levels, name \in UserNames : \E dotted : MayGo(n, name) /\ Rm(n, name, dotted)
    BY <1>6
  <2>2. PICK dotted : MayGo(n, name) /\ Rm(n, name, dotted)
    BY <2>1
  <2>3. mode = "idle" /\ cut' = cut
    BY <2>2 DEF Rm, AtPrompt
  <2>4. QED BY <1>1, <1>2, <2>2, <2>3, RmStep
<1>7. CASE \E name \in UserNames, n \in Levels, dest \in UserNames :
             \/ MayMove(name, n, dest) /\ MvErase(name, n, dest, TRUE)
             \/ MayMove(name, n, dest) /\ MvErase(name, n, dest, TRUE)
             \/ \E dotted \in Dots(dest) : MayCopy(name, n, dest) /\ CpDelete(name, n, dest, dotted)
  <2>1. PICK name \in UserNames, n \in Levels, dest \in UserNames :
          \/ MayMove(name, n, dest) /\ MvErase(name, n, dest, TRUE)
          \/ \E dotted : MayCopy(name, n, dest) /\ CpDelete(name, n, dest, dotted)
    BY <1>7
  <2>2. n \in Nat
    BY <1>2
  <2>3. CASE MayMove(name, n, dest) /\ MvErase(name, n, dest, TRUE)
    <3>1. mode = "idle" /\ cut' = cut
      BY <2>3 DEF MvErase, AtPrompt
    <3>2. QED BY <1>1, <2>2, <2>3, <3>1, MvEraseStep
  <2>4. CASE \E dotted : MayCopy(name, n, dest) /\ CpDelete(name, n, dest, dotted)
    <3>1. PICK dotted : MayCopy(name, n, dest) /\ CpDelete(name, n, dest, dotted)
      BY <2>4
    <3>2. mode = "idle" /\ cut' = cut
      BY <3>1 DEF CpDelete, AtPrompt
    <3>3. QED BY <1>1, <2>2, <3>1, <3>2, CpDeleteStep
  <2>5. QED BY <2>1, <2>3, <2>4
<1>8. QED BY <1>3, <1>4, <1>5, <1>6, <1>7 DEF CarefulCommand

\* Nothing happens.
LEMMA UnderwayStill ==
  ASSUME NEW sure \in BOOLEAN, Underway(sure), UNCHANGED allVars
  PROVE  Underway(sure)'
<1>1. /\ UNCHANGED vars /\ path' = path /\ pathNames' = pathNames /\ job' = job /\ intent' = intent
      /\ signature' = signature /\ store' = store /\ diskFat' = diskFat /\ fat' = fat
      /\ pending' = pending /\ mode' = mode /\ clean' = clean
  BY DEF allVars, shellVars, vars
<1>2. PICK before, goal, named : Pursued(before, goal, named) /\ Stage(sure, before, goal, named)
  BY DEF Underway
<1>3. Pursued(before, goal, named)' /\ Files' = Files /\ Directories' = Directories
  BY <1>1, <1>2, PursuedStill, DiskUntouched
<1>4. \A some \in BOOLEAN : Fat32Inv(FALSE, some) => Fat32Inv(FALSE, some)'
  BY <1>1, StutterSafe
<1>5. \A gone, aside, some : Settled(FALSE, some, gone, aside)' = Settled(FALSE, some, gone, aside)
  BY <1>1, <1>3 DEF Settled
<1>6. \A n : Depth(n)' = Depth(n) /\ Cwd' = Cwd /\ (Renamed(n)' = Renamed(n))
  BY <1>1 DEF Depth, Cwd, Renamed
<1>7. \A c, name : PlacesBeneath(c, name)' = PlacesBeneath(c, name)
  <2>1. /\ \A x : DirectoriesFrom(x)' = DirectoriesFrom(x)
        /\ \A x : EntriesOf(x)' = EntriesOf(x)
    BY <1>1 DEF EntriesOf, DirectoriesFrom, SubdirsOf
  <2>2. QED BY <1>3, <2>1 DEF PlacesBeneath
<1>8. \A e, d, dest : Uprooted(sure, before, goal, named, e, d, dest)
                        => Uprooted(sure, before, goal, named, e, d, dest)'
  <2>1. SUFFICES ASSUME NEW e, NEW d, NEW dest, Uprooted(sure, before, goal, named, e, d, dest)
                 PROVE  Uprooted(sure, before, goal, named, e, d, dest)'
    OBVIOUS
  <2>2. PICK D, st, c, s :
          /\ Tree(FALSE, D, st, diskFat, {}, {}) /\ Reached(D, st, Root)
          /\ sure => Accounted(D, st, diskFat, {}, {})
          /\ Shows(before, Roll(D, st, diskFat))
          /\ Struck(D, st, c, s, store) /\ e = st[c].table[s]
          /\ <<c, e.name>> \in named /\ <<d, dest>> \in named
          /\ goal = With(Without(before, <<c, e.name>>), <<d, dest>>, Stored(st, diskFat, e))
    BY <2>1 DEF Uprooted
  <2>3. PICK map, one : map = diskFat /\ one = store
    OBVIOUS
  <2>4. map = diskFat' /\ one = store'
    BY <1>1, <2>3
  <2>5. /\ Tree(FALSE, D, st, diskFat', {}, {}) /\ Reached(D, st, Root)
        /\ sure => Accounted(D, st, diskFat', {}, {})
        /\ Shows(before, Roll(D, st, diskFat'))
        /\ Struck(D, st, c, s, store')
        /\ goal = With(Without(before, <<c, e.name>>), <<d, dest>>, Stored(st, diskFat', e))
    BY ONLY <2>2, <2>3, <2>4
  <2>6. QED BY <2>2, <2>5 DEF Uprooted
<1>9. \A e, up, dest : MoveJob(e, up, dest) => MoveJob(e, up, dest)'
  BY <1>1, <1>6 DEF MoveJob
<1>10. \A up, name, blocks : CopyJob(before, goal, named, up, name, blocks)
                               => CopyJob(before, goal, named, up, name, blocks)'
  BY <1>1, <1>6 DEF CopyJob, FreeClusters
<1>11. \A parent, name : Deleting(sure, before, parent, name) => Deleting(sure, before, parent, name)'
  <2>1. SUFFICES ASSUME NEW parent, NEW name, Deleting(sure, before, parent, name)
                 PROVE  Deleting(sure, before, parent, name)'
    OBVIOUS
  <2>2. PICK slot, e, chain, done :
          /\ DeleteJob(FALSE, sure, parent, slot, e, chain, done) /\ e.name = name
          /\ e.dir => e.cluster \notin ToSet(path)
          /\ Files = IF Kept(e, done) THEN before ELSE Without(before, <<parent, name>>)
    BY <2>1 DEF Deleting
  <2>3. DeleteJob(FALSE, sure, parent, slot, e, chain, done)'
    BY <1>1, <1>3, <1>5, <2>2 DEF DeleteJob
  <2>4. /\ e.dir => e.cluster \notin ToSet(path')
        /\ Files' = IF Kept(e, done) THEN before ELSE Without(before, <<parent, name>>)
    BY <1>1, <1>3, <2>2
  <2>5. mode' = "delete" /\ Fat32Inv(FALSE, sure)'
    BY <1>1, <1>4, <2>1 DEF Deleting
  <2>6. QED BY <2>2, <2>3, <2>4, <2>5 DEF Deleting
<1>12. \A some \in BOOLEAN : AtRest(some) => AtRest(some)'
  BY <1>1, <1>5 DEF AtRest, Base
<1>13. ASSUME Ended(sure, before, goal) PROVE Ended(sure, before, goal)'
  BY <1>1, <1>3, <1>4, <1>13 DEF Ended
<1>14. ASSUME Writing(sure, goal, named) PROVE Writing(sure, goal, named)'
  <2>1. PICK parent, e, chain, what, done, blocks :
          /\ WriteJob(FALSE, sure, parent, e, chain, what, done)
          /\ BlocksOK(FALSE, parent, e.name, blocks) /\ Puts(e, chain, what, e.name, blocks)
          /\ <<parent, e.name>> \in named
          /\ goal = With(Files, <<parent, e.name>>, [dir |-> e.dir, blocks |-> blocks])
    BY <1>14 DEF Writing
  <2>2. WriteJob(FALSE, sure, parent, e, chain, what, done)'
    <3>1. Announced(FALSE, parent, e, chain, what)'
      BY <1>1, <2>1 DEF WriteJob, Announced
    <3>2. Settled(FALSE, sure, {}, ToSet(chain))'
      BY <1>5, <2>1 DEF WriteJob
    <3>3. QED BY <1>1, <1>3, <2>1, <3>1, <3>2 DEF WriteJob
  <2>3. goal = With(Files', <<parent, e.name>>, [dir |-> e.dir, blocks |-> blocks])
    BY <1>3, <2>1
  <2>4. mode' = "write" /\ job' = LastCall(TRUE) /\ Fat32Inv(FALSE, sure)'
    BY <1>1, <1>4, <1>14 DEF Writing
  <2>5. QED BY <2>1, <2>2, <2>3, <2>4 DEF Writing
<1>15. ASSUME Removing(sure, before, goal, named) PROVE Removing(sure, before, goal, named)'
  BY <1>1, <1>11, <1>15 DEF Removing
<1>16. ASSUME Replacing(sure, before, goal, named) PROVE Replacing(sure, before, goal, named)'
  BY <1>6, <1>10, <1>11, <1>16 DEF Replacing
<1>17. ASSUME Refilling(sure, before, goal, named) PROVE Refilling(sure, before, goal, named)'
  BY <1>1, <1>3, <1>4, <1>6, <1>10, <1>17 DEF Refilling
<1>18. ASSUME Erasing(sure, before, goal, named) PROVE Erasing(sure, before, goal, named)'
  BY <1>1, <1>3, <1>6, <1>7, <1>9, <1>12, <1>18 DEF Erasing
<1>19. ASSUME Moving(sure, before, goal, named) PROVE Moving(sure, before, goal, named)'
  BY <1>1, <1>4, <1>6, <1>8, <1>9, <1>19 DEF Moving
<1>20. ASSUME Settling(sure, before, goal, named) PROVE Settling(sure, before, goal, named)'
  BY <1>1, <1>3, <1>8, <1>12, <1>20 DEF Settling
<1>21. Stage(sure, before, goal, named)'
  BY <1>2, <1>13, <1>14, <1>15, <1>16, <1>17, <1>18, <1>19, <1>20 DEF Stage
<1>22. QED BY <1>3, <1>21 DEF Underway

LEMMA ShellStep ==
  ASSUME Assumed, ShellInv, [CarefulCommand \/ Machine]_allVars
  PROVE  ShellInv'
<1>1. Grounds /\ cut \in BOOLEAN
  BY DEF ShellInv
<1>2. PICK sure \in BOOLEAN : (~cut => sure) /\ (Resting(sure) \/ Underway(sure))
  BY DEF ShellInv
<1>3. ASSUME job = NoJob PROVE Resting(sure)
  BY <1>2, <1>3, UnderwayIs
<1>4. ASSUME job # NoJob \/ mode \notin {"idle", "off"} PROVE Underway(sure)
  BY <1>2, <1>4 DEF Resting
<1>5. NoJob.op = "none"
  BY DEF NoJob
<1>6. CASE CarefulCommand
  <2>1. job = NoJob
    <3>1. ASSUME NEW n, NEW name, Cd(n, name) PROVE job = NoJob
      BY <3>1 DEF Cd, AtPrompt
    <3>2. ASSUME NEW name, Mkdir(name) PROVE job = NoJob
      BY <3>2 DEF Mkdir, AtPrompt
    <3>3. ASSUME NEW n, NEW name, NEW text, Nano(n, name, text) PROVE job = NoJob
      BY <3>3 DEF Nano, AtPrompt
    <3>4. ASSUME NEW n, NEW name, NEW dotted, Rm(n, name, dotted) PROVE job = NoJob
      BY <3>4 DEF Rm, AtPrompt
    <3>5. ASSUME NEW name, NEW n, NEW dest, NEW dotted,
                 MvErase(name, n, dest, dotted) \/ CpDelete(name, n, dest, dotted)
          PROVE  job = NoJob
      BY <3>5 DEF MvErase, CpDelete, AtPrompt
    <3>6. QED BY <1>6, <3>1, <3>2, <3>3, <3>4, <3>5 DEF CarefulCommand
  <2>2. Grounds' /\ cut' = cut /\ (Resting(sure)' \/ Underway(sure)')
    BY <1>1, <1>3, <1>6, <2>1, CommandStep
  <2>3. QED BY <1>1, <1>2, <2>2 DEF ShellInv
<1>7. CASE Disk
  <2>1. mode \notin {"idle", "off"} /\ cut' = cut
    BY <1>7 DEF Disk, DiskWrite, Busy, Calling, shellVars
  <2>2. Grounds' /\ Underway(sure)'
    BY <1>1, <1>4, <1>7, <2>1, DiskStep
  <2>3. QED BY <1>1, <1>2, <2>1, <2>2 DEF ShellInv
<1>8. CASE Restart
  <2>1. PICK less \in BOOLEAN : Grounds' /\ Resting(less)' /\ less = (sure /\ job = NoJob)
    BY <1>1, <1>2, <1>8, RestartStep
  <2>2. cut' = (cut \/ job # NoJob)
    BY <1>8 DEF Restart
  <2>3. cut' \in BOOLEAN /\ (~cut' => less)
    BY <1>1, <1>2, <2>1, <2>2
  <2>4. QED BY <2>1, <2>3 DEF ShellInv
<1>9. CASE Boots
  <2>1. mode = "off" /\ cut' = cut
    BY <1>9 DEF Boots, Initialize, shellVars
  <2>2. Resting(sure)
    BY <1>2, <2>1, UnderwayIs
  <2>3. Grounds' /\ Resting(sure)'
    BY <1>1, <1>9, <2>2, BootsStep
  <2>4. QED BY <1>1, <1>2, <2>1, <2>3 DEF ShellInv
<1>10. CASE MvEnter
  <2>1. job # NoJob /\ cut' = cut
    BY <1>5, <1>10 DEF MvEnter
  <2>2. Grounds' /\ Underway(sure)'
    BY <1>1, <1>4, <1>10, <2>1, MvEnterStep
  <2>3. QED BY <1>1, <1>2, <2>1, <2>2 DEF ShellInv
<1>11. CASE CpWrite
  <2>1. job # NoJob /\ cut' = cut
    BY <1>5, <1>11 DEF CpWrite
  <2>2. Grounds' /\ Underway(sure)'
    BY <1>1, <1>4, <1>11, <2>1, CpWriteStep
  <2>3. QED BY <1>1, <1>2, <2>1, <2>2 DEF ShellInv
<1>12. CASE NextPrompt
  <2>1. job # NoJob /\ cut' = cut
    BY <1>5, <1>12 DEF NextPrompt
  <2>2. Grounds' /\ Resting(sure)'
    BY <1>1, <1>4, <1>12, <2>1, NextPromptStep
  <2>3. QED BY <1>1, <1>2, <2>1, <2>2 DEF ShellInv
<1>13. CASE UNCHANGED allVars
  <2>1. /\ UNCHANGED vars /\ path' = path /\ pathNames' = pathNames /\ job' = job
        /\ intent' = intent /\ cut' = cut
        /\ signature' = signature /\ store' = store /\ diskFat' = diskFat /\ fat' = fat
        /\ pending' = pending /\ mode' = mode /\ clean' = clean
    BY <1>13 DEF allVars, shellVars, vars
  <2>2. Grounds'
    BY <1>1, <2>1, GroundsUntouched
  <2>3. Resting(sure) => Resting(sure)'
    BY <2>1, StutterSafe DEF Resting
  <2>4. Underway(sure) => Underway(sure)'
    BY <1>13, UnderwayStill
  <2>5. QED BY <1>1, <1>2, <2>1, <2>2, <2>3, <2>4 DEF ShellInv
<1>14. QED BY <1>6, <1>7, <1>8, <1>9, <1>10, <1>11, <1>12, <1>13 DEF Machine

-----------------------------------------------------------------------------
(* The disk that the shell finds first.                                    *)

\* The programs of the inserter, one after the other.
Placed(n) ==
  /\ n \in Nat /\ n >= 1 /\ n < NSlots
  /\ DOMAIN Programs = 1 .. n /\ DOMAIN Starts = 1 .. n + 1
  /\ \A k \in 1 .. n : Programs[k] \in Names
  /\ \A j, k \in 1 .. n : Programs[j] = Programs[k] => j = k
  /\ \A k \in 1 .. n + 1 : Starts[k] \in Root + 1 .. NClusters
  /\ Starts[1] = Root + 1
  /\ \A j, k \in 1 .. n + 1 : j < k => Starts[j] < Starts[k]
  /\ Inserted = Root + 1 .. Starts[n + 1] - 1

LEMMA ProgramsPlaced == \E n : Placed(n)
<1>1. PICK n : n = Len(Programs)
  OBVIOUS
<1>2. n \in Nat /\ DOMAIN Programs = 1 .. n /\ n < NSlots /\ \A k \in 1 .. n : Programs[k] \in Names
  BY <1>1, ShellAssumption
<1>3. n >= 1
  BY <1>2, ShellAssumption
<1>4. /\ Starts \in [1 .. n + 1 -> Root + 1 .. NClusters] /\ Starts[1] = Root + 1
      /\ \A j, k \in DOMAIN Starts : j < k => Starts[j] < Starts[k]
      /\ \A j, k \in 1 .. n : Programs[j] = Programs[k] => j = k
  BY <1>1, <1>2, ShellAssumption
<1>5. Inserted = Root + 1 .. Starts[n + 1] - 1
  BY <1>1, <1>4 DEF Inserted
<1>6. QED BY <1>2, <1>3, <1>4, <1>5 DEF Placed

\* The clusters of a program, and its entry.
Image(k) == [i \in 1 .. Starts[k + 1] - Starts[k] |-> Starts[k] + i - 1]

ImageClusters(k) == Starts[k] .. Starts[k + 1] - 1

ProgramEntry(k) ==
  [used |-> TRUE, name |-> Programs[k], dir |-> FALSE,
   cluster |-> Starts[k], length |-> Starts[k + 1] - Starts[k]]

LEMMA ImageIs ==
  ASSUME NEW n, Placed(n), NEW k \in 1 .. n
  PROVE  /\ Image(k) \in Seq(Clusters) /\ Len(Image(k)) = Starts[k + 1] - Starts[k]
         /\ Len(Image(k)) \in 1 .. NClusters /\ Image(k)[1] = Starts[k]
         /\ \A i \in 1 .. Len(Image(k)) : Image(k)[i] = Starts[k] + i - 1
         /\ ToSet(Image(k)) = ImageClusters(k)
         /\ ImageClusters(k) \subseteq Inserted /\ Inserted \subseteq Clusters
         /\ Starts[k] \in Nat /\ Starts[k + 1] \in Nat
<1> DEFINE size == Starts[k + 1] - Starts[k]
           s == Image(k)
<1>1. /\ n \in Nat /\ k \in Nat /\ k \in 1 .. n + 1 /\ k + 1 \in 1 .. n + 1 /\ n + 1 \in 1 .. n + 1
      /\ Root = 2 /\ NClusters \in Nat /\ 1 \in 1 .. n + 1
  BY Constants DEF Placed, Root
<1>2. /\ Starts[k] \in Root + 1 .. NClusters /\ Starts[k + 1] \in Root + 1 .. NClusters
      /\ Starts[n + 1] \in Root + 1 .. NClusters /\ Starts[k] < Starts[k + 1]
  BY <1>1 DEF Placed
<1>3. k = n \/ Starts[k + 1] < Starts[n + 1]
  <2>1. k # n => k + 1 < n + 1
    BY <1>1
  <2>2. QED BY <1>1, <2>1 DEF Placed
<1>4. Starts[k + 1] <= Starts[n + 1]
  BY <1>2, <1>3
<1>5. size \in 1 .. NClusters
  BY <1>1, <1>2
<1>6. s = [i \in 1 .. size |-> Starts[k] + i - 1]
  BY DEF Image
<1>7. \A i \in 1 .. size : Starts[k] + i - 1 \in ImageClusters(k)
  BY <1>1, <1>2 DEF ImageClusters
<1>8. Inserted \subseteq Clusters
  BY <1>1, <1>2 DEF Placed, Clusters
<1>9. ImageClusters(k) \subseteq Inserted
  BY <1>1, <1>2, <1>4 DEF Placed, ImageClusters
<1> HIDE DEF size, s
<1>10. \A i \in 1 .. size : s[i] = Starts[k] + i - 1 /\ s[i] \in Clusters
  BY <1>6, <1>7, <1>8, <1>9
<1>11. s = [i \in 1 .. size |-> s[i]]
  BY <1>6
<1>12. s \in Seq(Clusters) /\ Len(s) = size
  BY <1>5, <1>10, <1>11, FunctionIsSeq
<1>13. s[1] = Starts[k]
  BY <1>2, <1>5, <1>10
<1>14. ToSet(s) = ImageClusters(k)
  <2>1. DOMAIN s = 1 .. size
    BY <1>6
  <2>2. ASSUME NEW c \in ImageClusters(k) PROVE \E i \in 1 .. size : c = s[i]
    <3>1. PICK i : i = c - Starts[k] + 1
      OBVIOUS
    <3>2. i \in 1 .. size /\ c = Starts[k] + i - 1
      BY <1>2, <2>2, <3>1 DEF ImageClusters, size
    <3>3. QED BY <1>10, <3>2
  <2>3. QED BY <1>7, <1>10, <2>1, <2>2 DEF ToSet
<1>15. Starts[k] \in Nat /\ Starts[k + 1] \in Nat
  BY <1>1, <1>2
<1>16. QED BY <1>5, <1>8, <1>9, <1>10, <1>12, <1>13, <1>14, <1>15 DEF s, size

\* A program's clusters are linked, and no cluster is in two programs.
LEMMA ImageLinked ==
  ASSUME NEW n, Placed(n), NEW k \in 1 .. n
  PROVE  Links(InsertedFat, Starts[k], Image(k))
<1>1. PICK map, s, size : map = InsertedFat /\ s = Image(k) /\ size = Starts[k + 1] - Starts[k]
  OBVIOUS
<1>2. /\ s \in Seq(Clusters) /\ Len(s) = size /\ size \in 1 .. NClusters /\ s[1] = Starts[k]
      /\ \A i \in 1 .. size : s[i] = Starts[k] + i - 1 /\ s[i] \in Clusters
      /\ Starts[k] \in Nat /\ Starts[k + 1] \in Nat
      /\ ImageClusters(k) \subseteq Inserted /\ Inserted \subseteq Clusters
  <2>1. /\ s \in Seq(Clusters) /\ Len(s) = size /\ size \in 1 .. NClusters /\ s[1] = Starts[k]
        /\ \A i \in 1 .. size : s[i] = Starts[k] + i - 1
        /\ Starts[k] \in Nat /\ Starts[k + 1] \in Nat
        /\ ImageClusters(k) \subseteq Inserted /\ Inserted \subseteq Clusters
    BY <1>1, ImageIs
  <2>2. \A i \in 1 .. size : s[i] \in Clusters
    BY <2>1
  <2>3. QED BY <2>1, <2>2
<1>3. ASSUME NEW c \in ImageClusters(k)
      PROVE  map[c] = IF \E j \in DOMAIN Starts : c + 1 = Starts[j] THEN Eof ELSE c + 1
  <2>1. c \in Inserted /\ c \in 0 .. NClusters - 1
    BY <1>2, <1>3, Constants
  <2>2. DOMAIN FormatFat = 0 .. NClusters - 1
    BY FormatFatIs DEF Maps
  <2>3. QED BY <1>1, <2>1, <2>2 DEF InsertedFat
<1>4. \A i \in 1 .. size : s[i] \in ImageClusters(k)
  BY <1>1, <1>2 DEF ImageClusters
<1>5. ASSUME NEW i \in 1 .. size - 1 PROVE map[s[i]] = s[i + 1]
  <2>1. i \in 1 .. size /\ i + 1 \in 1 .. size
    BY <1>2
  <2>2. s[i] = Starts[k] + i - 1 /\ s[i + 1] = s[i] + 1 /\ s[i] \in Nat
    BY <1>2, <2>1
  <2>3. ASSUME NEW j \in DOMAIN Starts PROVE s[i] + 1 # Starts[j]
    <3>1. j \in 1 .. n + 1 /\ n \in Nat /\ j \in Nat /\ k \in 1 .. n + 1 /\ k + 1 \in 1 .. n + 1
          /\ Starts[j] \in Root + 1 .. NClusters
      BY DEF Placed
    <3>2. j <= k => Starts[j] <= Starts[k]
      <4>1. j = k \/ j < k \/ j > k
        BY <3>1
      <4>2. j < k => Starts[j] < Starts[k]
        BY <3>1 DEF Placed
      <4>3. Starts[j] \in Int /\ Starts[k] \in Int
        BY <1>2, <3>1 DEF Root
      <4>4. QED BY <3>1, <4>1, <4>2, <4>3
    <3>3. j > k => Starts[k + 1] <= Starts[j]
      <4>1. j > k => j = k + 1 \/ k + 1 < j
        BY <3>1
      <4>2. k + 1 < j => Starts[k + 1] < Starts[j]
        BY <3>1 DEF Placed
      <4>3. Starts[j] \in Int /\ Starts[k + 1] \in Int
        BY <1>2, <3>1 DEF Root
      <4>4. QED BY <3>1, <4>1, <4>2, <4>3
    <3>4. s[i] + 1 > Starts[k] /\ s[i] + 1 < Starts[k + 1]
      BY <1>1, <1>2, <2>1, <2>2
    <3>5. Starts[j] \in Int
      BY <3>1 DEF Root
    <3>6. j <= k \/ j > k
      BY <3>1
    <3>7. CASE j <= k
      <4>1. Starts[j] < s[i] + 1
        BY <1>2, <2>2, <3>2, <3>4, <3>5, <3>7
      <4>2. QED BY <2>2, <3>5, <4>1
    <3>8. CASE j > k
      <4>1. s[i] + 1 < Starts[j]
        BY <1>2, <2>2, <3>3, <3>4, <3>5, <3>8
      <4>2. QED BY <2>2, <3>5, <4>1
    <3>9. QED BY <3>6, <3>7, <3>8
  <2>4. map[s[i]] = s[i] + 1
    BY <1>3, <1>4, <2>1, <2>3
  <2>5. QED BY <2>2, <2>4
<1>6. map[s[size]] = Eof
  <2>1. size \in 1 .. size /\ s[size] = Starts[k] + size - 1 /\ s[size] + 1 = Starts[k + 1]
    BY <1>1, <1>2
  <2>2. k + 1 \in DOMAIN Starts
    BY DEF Placed
  <2>3. QED BY <1>3, <1>4, <2>1, <2>2
<1>7. QED BY <1>1, <1>2, <1>5, <1>6 DEF Links

LEMMA ImagesApart ==
  ASSUME NEW n, Placed(n), NEW j \in 1 .. n, NEW k \in 1 .. n, j # k
  PROVE  ImageClusters(j) \cap ImageClusters(k) = {}
<1>1. ASSUME NEW a \in 1 .. n, NEW b \in 1 .. n, a < b
      PROVE  ImageClusters(a) \cap ImageClusters(b) = {}
  <2>1. n \in Nat /\ a \in Nat /\ b \in Nat /\ a + 1 \in 1 .. n + 1 /\ b \in 1 .. n + 1
    BY DEF Placed
  <2>2. a + 1 = b \/ a + 1 < b
    BY <1>1, <2>1
  <2>3. a + 1 < b => Starts[a + 1] < Starts[b]
    BY <2>1 DEF Placed
  <2>4. /\ Starts[a] \in Nat /\ Starts[a + 1] \in Nat /\ Starts[b] \in Nat /\ Starts[b + 1] \in Nat
    BY ImageIs
  <2>5. Starts[a + 1] <= Starts[b]
    BY <2>2, <2>3, <2>4
  <2>6. QED BY <2>4, <2>5 DEF ImageClusters
<1>2. j < k \/ k < j
  BY DEF Placed
<1>3. QED BY <1>1, <1>2

LEMMA ImagesCover ==
  ASSUME NEW n, Placed(n), NEW c \in Inserted
  PROVE  \E k \in 1 .. n : c \in ImageClusters(k)
<1> DEFINE Later == {k \in 1 .. n : c < Starts[k + 1]}
<1>1. n \in Nat /\ n >= 1 /\ c \in Root + 1 .. Starts[n + 1] - 1 /\ Starts[1] = Root + 1 /\ Root = 2
      /\ Starts[n + 1] \in Nat /\ NClusters \in Nat
  <2>1. n \in 1 .. n
    BY DEF Placed
  <2>2. Starts[n + 1] \in Nat
    BY <2>1, ImageIs
  <2>3. QED BY <2>2, Constants DEF Placed, Root
<1>2. n \in Later /\ Later \in SUBSET Nat
  BY <1>1
<1>3. PICK k \in Later : \A j \in Later : k <= j
  BY <1>2, LeastNumber
<1>4. k \in 1 .. n /\ c < Starts[k + 1] /\ c \in Nat /\ k \in Nat
  BY <1>1, <1>3
<1>5. Starts[k] <= c
  <2>1. CASE k = 1
    BY <1>1, <2>1
  <2>2. CASE k # 1
    <3>1. k - 1 \in 1 .. n /\ k - 1 \notin Later /\ (k - 1) + 1 = k
      BY <1>1, <1>3, <1>4, <2>2
    <3>2. ~(c < Starts[k])
      BY <3>1
    <3>3. QED BY <1>4, <3>2, ImageIs
  <2>3. QED BY <2>1, <2>2
<1>6. Starts[k] \in Nat /\ Starts[k + 1] \in Nat
  BY <1>4, ImageIs
<1>7. QED BY <1>4, <1>5, <1>6 DEF ImageClusters

LEMMA InsertedIs ==
  ASSUME NEW n, Placed(n)
  PROVE  /\ Inserted \subseteq Clusters /\ Root \notin Inserted
         /\ InsertedRoot \in [Slots -> Entry] /\ Headed(InsertedRoot) /\ InsertedRoot[0].name = RootName
         /\ \A s \in 1 .. n : s \in Slots \ {0} /\ InsertedRoot[s] = ProgramEntry(s)
                              /\ ProgramEntry(s).name \in Names
         /\ \A s \in Slots \ {0} : s \notin 1 .. n => InsertedRoot[s] = EmptyEntry
<1>1. /\ n \in Nat /\ n >= 1 /\ n < NSlots /\ Root = 2 /\ NClusters \in Nat /\ NSlots \in Nat
      /\ DOMAIN Programs = 1 .. n
  BY Constants DEF Placed, Root
<1>2. Inserted \subseteq Clusters /\ Root \notin Inserted
  <2>1. n \in 1 .. n
    BY <1>1
  <2>2. Inserted \subseteq Clusters /\ Starts[n + 1] \in Nat
    BY <2>1, ImageIs
  <2>3. Root \notin Inserted
    BY <1>1, <2>2 DEF Placed
  <2>4. QED BY <2>2, <2>3
<1>3. PICK head : head = InitDirectoryTable(BlankTable, RootName, Root)
  OBVIOUS
<1>4. head \in [Slots -> Entry] /\ Headed(head) /\ head[0].name = RootName
  <2>1. RootName \in Names \cup {RootName} /\ Root \in Clusters
    BY Constants
  <2>2. head \in [Slots -> Entry] /\ Headed(head)
    BY <1>3, <2>1, BlankIs, InitIs
  <2>3. QED BY <1>3, <2>2, BlankIs, Constants DEF InitDirectoryTable
<1>5. ASSUME NEW s \in 1 .. n
      PROVE  s \in Slots \ {0} /\ ProgramEntry(s) \in Entry /\ ProgramEntry(s).name \in Names
  <2>1. s \in Slots \ {0}
    BY <1>1 DEF Slots
  <2>2. Programs[s] \in Names
    BY DEF Placed
  <2>3. /\ Starts[s] \in 0 .. NClusters - 1 /\ Starts[s + 1] - Starts[s] \in Nat
    <3>1. /\ Starts[s] \in Nat /\ Starts[s + 1] \in Nat /\ Starts[s + 1] - Starts[s] \in 1 .. NClusters
      BY ImageIs
    <3>2. Starts[s + 1] <= NClusters
      BY <1>1 DEF Placed
    <3>3. QED BY <1>1, <3>1, <3>2
  <2>4. QED BY <2>1, <2>2, <2>3 DEF ProgramEntry, Entry
<1>6. InsertedRoot = [s \in Slots |-> IF s = 0 THEN head[0] ELSE IF s \in 1 .. n THEN ProgramEntry(s)
                                      ELSE EmptyEntry]
  BY <1>1, <1>3 DEF InsertedRoot, ProgramEntry
<1>7. 0 \in Slots
  BY Constants
<1>8. InsertedRoot \in [Slots -> Entry]
  BY <1>4, <1>5, <1>6, <1>7, EmptyEntryIs
<1>9. Headed(InsertedRoot) /\ InsertedRoot[0].name = RootName
  BY <1>4, <1>6, <1>7 DEF Headed
<1>10. \A s \in 1 .. n : s # 0 /\ InsertedRoot[s] = ProgramEntry(s)
  BY <1>5, <1>6
<1>11. \A s \in Slots \ {0} : s \notin 1 .. n => InsertedRoot[s] = EmptyEntry
  BY <1>6
<1>12. QED BY <1>2, <1>5, <1>8, <1>9, <1>10, <1>11

LEMMA InsertedFatIs ==
  ASSUME NEW n, Placed(n)
  PROVE  /\ InsertedFat \in Maps /\ InsertedFat[Root] = Eof
         /\ \A c \in Clusters : c # Root /\ c \notin Inserted => InsertedFat[c] = Free
<1>1. DOMAIN FormatFat = 0 .. NClusters - 1
  BY FormatFatIs DEF Maps
<1>2. Inserted \subseteq Clusters /\ Root \notin Inserted /\ Root \in Clusters
      /\ Clusters \subseteq 0 .. NClusters - 1
  BY InsertedIs, Constants
<1>3. \A c \in Clusters : c + 1 \in 0 .. Beyond
  BY Constants DEF Clusters, Beyond
<1>4. InsertedFat \in Maps
  BY <1>1, <1>2, <1>3, FormatFatIs, Constants DEF InsertedFat, Maps
<1>5. \A c \in Clusters : c \notin Inserted => InsertedFat[c] = FormatFat[c]
  BY <1>1, <1>2 DEF InsertedFat
<1>6. QED BY <1>2, <1>4, <1>5, FormatFatIs

LEMMA InitShellSafe ==
  ASSUME ShellInit
  PROVE  ShellInv
<1>1. PICK n : Placed(n)
  BY ProgramsPlaced
<1>2. PICK table, programs, map : table = InsertedRoot /\ programs = Inserted /\ map = InsertedFat
  OBVIOUS
<1>3. /\ programs \subseteq Clusters /\ Root \notin programs
      /\ table \in [Slots -> Entry] /\ Headed(table) /\ table[0].name = RootName
      /\ \A s \in 1 .. n : s \in Slots \ {0} /\ table[s] = ProgramEntry(s)
                           /\ ProgramEntry(s).name \in Names
      /\ \A s \in Slots \ {0} : s \notin 1 .. n => table[s] = EmptyEntry
  BY <1>1, <1>2, InsertedIs
<1>4. n \in Nat /\ Root = 2 /\ Root \in Clusters
  BY <1>1, Constants DEF Placed, Root
<1>5. /\ signature = TRUE /\ fat = map /\ diskFat = fat /\ pending = <<>> /\ mode = "idle" /\ clean = TRUE
      /\ path = <<Root>> /\ pathNames = <<RootName>> /\ job = NoJob /\ intent = NoIntent /\ cut = FALSE
  BY <1>2 DEF ShellInit
<1>6. store = [c \in Clusters |->
                 CASE c = Root -> TableCluster(table)
                   [] c \in programs -> DataCluster(<<"image", c>>)
                   [] OTHER -> ZeroCluster]
  BY <1>2 DEF ShellInit
<1>7. /\ diskFat \in Maps /\ diskFat[Root] = Eof
      /\ \A c \in Clusters : c # Root /\ c \notin programs => diskFat[c] = Free
  BY <1>1, <1>2, <1>5, InsertedFatIs
<1>8. /\ store[Root] = TableCluster(table)
      /\ \A c \in programs : store[c].data # Nobody
      /\ \A c \in Clusters : c # Root => store[c].table = BlankTable
  <2>1. store[Root] = TableCluster(table)
    <3>1. Root \in Clusters
      BY <1>4
    <3>2. QED BY <1>3, <1>6, <3>1
  <2>2. \A c \in programs : store[c] = DataCluster(<<"image", c>>)
    BY <1>3, <1>4, <1>6
  <2>3. \A c \in Clusters : c # Root /\ c \notin programs => store[c] = ZeroCluster
    BY <1>6
  <2>4. ZeroCluster.table = BlankTable
        /\ \A data : DataCluster(data).table = BlankTable /\ DataCluster(data).data = data
    BY BlankIs DEF DataCluster
  <2>5. \A c : <<"image", c>> # Nobody
    <3>1. \A c : Len(<<"image", c>>) = 2 /\ Len(<<>>) = 0
      OBVIOUS
    <3>2. QED BY <3>1 DEF Nobody
  <2>6. QED BY <2>1, <2>2, <2>3, <2>4, <2>5
<1>9. store[Root].table = table
  BY <1>8 DEF TableCluster
<1>10. Base
  <2>1. store = [c \in Clusters |-> store[c]]
    BY <1>6
  <2>2. \A c \in Clusters : store[c].table \in [Slots -> Entry]
    BY <1>3, <1>8, <1>9, BlankIs
  <2>3. QED BY <1>5, <1>7, <2>1, <2>2 DEF Base, StoreOK
<1>11. \A s \in Slots : InUse(store, Root, s) => s \in 1 .. n
  BY <1>3, <1>9, EmptyEntryIs DEF InUse
<1>12. \A s \in 1 .. n : /\ store[Root].table[s] = ProgramEntry(s) /\ ~ProgramEntry(s).dir
                         /\ ProgramEntry(s).cluster = Starts[s]
                         /\ ProgramEntry(s).length = Starts[s + 1] - Starts[s]
                         /\ ProgramEntry(s).name = Programs[s] /\ ProgramEntry(s).used
  BY <1>3, <1>9 DEF ProgramEntry
<1>13. Reached({Root}, store, Root)
  <2>1. \A c \in Clusters : ~Child(store, Root, c)
    BY <1>11, <1>12 DEF Child
  <2>2. Closed(store, {Root})
    BY <2>1 DEF Closed
  <2>3. QED BY <1>4, <2>2 DEF Reached
<1>14. Directories = {Root}
  BY <1>13, DirectoriesReached, ReachedOnce
<1>15. ASSUME NEW s \in 1 .. n
       PROVE  /\ Held(FALSE, store, diskFat, Root, ProgramEntry(s))
              /\ Owned(diskFat, ProgramEntry(s)) = ImageClusters(s)
  <2>1. PICK c, chain, e : c = Starts[s] /\ chain = Image(s) /\ e = ProgramEntry(s)
    OBVIOUS
  <2>2. Links(diskFat, c, chain)
    BY <1>1, <1>2, <1>5, <2>1, ImageLinked
  <2>3. Linked(diskFat, c) /\ Chain(diskFat, c) = chain
    BY <2>2, LinkedIs
  <2>4. /\ Len(chain) = Starts[s + 1] - Starts[s] /\ ToSet(chain) = ImageClusters(s)
        /\ ImageClusters(s) \subseteq programs
    BY <1>1, <1>2, <2>1, ImageIs
  <2>5. e.cluster = c /\ ~e.dir /\ e.length = Len(chain)
    BY <1>12, <2>1, <2>4
  <2>6. \A k \in 1 .. Len(chain) : chain[k] \in programs
    BY <2>3, <2>4, LinkedSound
  <2>7. \A k \in 1 .. e.length : store[chain[k]].data # Nobody
    BY <1>8, <2>5, <2>6
  <2>8. Held(FALSE, store, diskFat, Root, e)
    BY <2>3, <2>5, <2>7 DEF Held, Sound
  <2>9. Owned(diskFat, e) = ImageClusters(s)
    BY <2>3, <2>4, <2>5 DEF Owned
  <2>10. QED BY <2>1, <2>8, <2>9
<1>16. Tidy(table)
  <2>1. \A s, t \in 1 .. n : table[s].name = table[t].name => s = t
    <3>1. \A s \in 1 .. n : table[s].name = Programs[s]
      BY <1>9, <1>12
    <3>2. \A s, t \in 1 .. n : Programs[s] = Programs[t] => s = t
      BY <1>1 DEF Placed
    <3>3. QED BY <3>1, <3>2
  <2>2. \A s \in Slots \ {0} : table[s].used => s \in 1 .. n
    BY <1>3, EmptyEntryIs
  <2>3. \A s \in Slots \ {0} : IF table[s].used THEN table[s].name \in Names ELSE table[s] = EmptyEntry
    <3>1. \A s \in 1 .. n : table[s].used /\ table[s].name \in Names
      BY <1>3, <1>9, <1>12
    <3>2. QED BY <1>3, <2>2, <3>1
  <2>4. QED BY <2>1, <2>2, <2>3 DEF Tidy
<1>17. Tree(FALSE, {Root}, store, diskFat, {}, {})
  <2>1. \A s \in Slots : Stays(store, {}, Root, s) => s \in 1 .. n
    BY <1>11 DEF Stays
  <2>2. \A s \in Slots : Stays(store, {}, Root, s) =>
          /\ Held(FALSE, store, diskFat, Root, store[Root].table[s])
          /\ Owned(diskFat, store[Root].table[s]) = ImageClusters(s) /\ Root \notin ImageClusters(s)
    <3>1. SUFFICES ASSUME NEW s \in 1 .. n
                   PROVE  /\ Held(FALSE, store, diskFat, Root, store[Root].table[s])
                          /\ Owned(diskFat, store[Root].table[s]) = ImageClusters(s)
                          /\ Root \notin ImageClusters(s)
      BY <2>1
    <3>2. store[Root].table[s] = ProgramEntry(s)
      BY <1>12
    <3>3. /\ Held(FALSE, store, diskFat, Root, ProgramEntry(s))
          /\ Owned(diskFat, ProgramEntry(s)) = ImageClusters(s)
      BY <1>15
    <3>4. Root \notin ImageClusters(s)
      BY <1>1, <1>2, <1>3, ImageIs
    <3>5. QED BY <3>2, <3>3, <3>4
  <2>3. \A s, t \in 1 .. n : s # t => ImageClusters(s) \cap ImageClusters(t) = {}
    BY <1>1, ImagesApart
  <2>4. Tidy(store[Root].table) /\ Headed(store[Root].table)
    BY <1>3, <1>9, <1>16
  <2>5. \A s, t \in Slots : Stays(store, {}, Root, s) /\ Stays(store, {}, Root, t) /\ s # t =>
          Owned(diskFat, store[Root].table[s]) \cap Owned(diskFat, store[Root].table[t]) = {}
    BY <2>1, <2>2, <2>3
  <2>6. \A s \in Slots : Stays(store, {}, Root, s) => Root \notin Owned(diskFat, store[Root].table[s])
    BY <2>2
  <2>7. PICK D : D = {Root}
    OBVIOUS
  <2>8. \A d \in D : Tidy(store[d].table) /\ Headed(store[d].table)
    BY <2>4, <2>7
  <2>9. \A d \in D, s \in Slots : Stays(store, {}, d, s) =>
          /\ Held(FALSE, store, diskFat, d, store[d].table[s])
          /\ Owned(diskFat, store[d].table[s]) \cap {} = {}
          /\ Root \notin Owned(diskFat, store[d].table[s])
    BY <2>2, <2>6, <2>7
  <2>10. \A d, p \in D, s, t \in Slots :
           Stays(store, {}, d, s) /\ Stays(store, {}, p, t) /\ (d # p \/ s # t) =>
             Owned(diskFat, store[d].table[s]) \cap Owned(diskFat, store[p].table[t]) = {}
    <3>1. \A d, p \in D : d = Root /\ p = Root
      BY <2>7
    <3>2. QED BY <2>5, <3>1
  <2>11. Tree(FALSE, D, store, diskFat, {}, {})
    BY <1>7, <2>8, <2>9, <2>10 DEF Tree
  <2>12. QED BY <2>7, <2>11
<1>18. Accounted({Root}, store, diskFat, {}, {})
  <2>1. SUFFICES ASSUME NEW c \in Clusters, diskFat[c] # Free, c # Root
                 PROVE  \E s \in Slots : Stays(store, {}, Root, s) /\ c \in Owned(diskFat, store[Root].table[s])
    BY DEF Accounted
  <2>2. c \in Inserted
    BY <1>2, <1>7, <2>1
  <2>3. PICK s \in 1 .. n : c \in ImageClusters(s)
    BY <1>1, <2>2, ImagesCover
  <2>4. Stays(store, {}, Root, s)
    BY <1>3, <1>12, <2>3 DEF Stays, InUse
  <2>5. s \in Slots
    BY <1>3
  <2>6. store[Root].table[s] = ProgramEntry(s)
    BY <1>12
  <2>7. Owned(diskFat, ProgramEntry(s)) = ImageClusters(s)
    BY <1>15
  <2>8. c \in Owned(diskFat, store[Root].table[s])
    BY <2>3, <2>6, <2>7
  <2>9. QED BY <2>4, <2>5, <2>8
<1>19. Fat32Inv(FALSE, TRUE)
  BY <1>5, <1>10, <1>14, <1>17, <1>18 DEF Fat32Inv, Settled
<1>20. Grounds
  BY <1>3, <1>5, <1>9, TrackOfRoot DEF Grounds
<1>21. Resting(TRUE)
  BY <1>5, <1>19 DEF Resting
<1>22. QED BY <1>5, <1>20, <1>21 DEF ShellInv

-----------------------------------------------------------------------------
(* What follows.                                                           *)

\* The writes of mv are one at a time, to a cluster that the disk has.
LEMMA RawTypes ==
  ASSUME AtRest(FALSE), mode = "raw", NEW d \in Clusters, NEW what, pending = <<WriteOf(d, what)>>
  PROVE  TypeOK
<1>1. /\ signature \in BOOLEAN /\ diskFat \in Maps /\ fat \in Maps /\ StoreOK(store)
  BY DEF AtRest, Base
<1>2. DOMAIN pending = {1} /\ pending[1].to = d /\ pending # <<>>
  BY DEF WriteOf
<1>3. d \in 0 .. Beyond
  BY Constants
<1>4. \A i \in DOMAIN pending : pending[i].to \in 0 .. Beyond
  BY <1>2, <1>3
<1>5. mode \in Modes /\ Busy
  BY DEF Modes, Busy, Calling
<1>6. QED BY <1>1, <1>2, <1>4, <1>5 DEF TypeOK, StoreOK, Maps

LEMMA InvShellTypes ==
  ASSUME ShellInv
  PROVE  ShellTypeOK
<1>1. PICK sure \in BOOLEAN : Grounds /\ (Resting(sure) \/ Underway(sure))
  BY DEF ShellInv
<1>2. /\ path \in Seq(Clusters) /\ path # <<>>
      /\ pathNames \in Seq(Names \cup {RootName}) /\ Len(pathNames) = Len(path)
  BY <1>1 DEF Grounds, Stacked
<1>3. CASE Resting(sure)
  <2>1. TypeOK
    BY <1>3, InvTypeOK DEF Resting
  <2>2. job = NoJob /\ intent = NoIntent /\ job.op = "none"
    BY <1>3 DEF Resting, NoJob
  <2>3. QED BY <1>2, <2>1, <2>2 DEF ShellTypeOK
<1>4. CASE Underway(sure)
  <2>1. PICK before, goal, named : Pursued(before, goal, named) /\ Stage(sure, before, goal, named)
    BY <1>4 DEF Underway
  <2>2. job # NoJob /\ job.op \in {"last", "mv", "cp"}
    BY <1>4, UnderwayIs
  <2>3. intent # NoIntent
    <3>1. intent.named # {}
      BY <2>1 DEF Pursued
    <3>2. QED BY <3>1 DEF NoIntent
  <2>4. TypeOK
    <3>1. CASE mode # "raw"
      <4>1. Fat32Inv(FALSE, FALSE)
        BY <1>4, <3>1, UnderwayIs
      <4>2. QED BY <4>1, InvTypeOK
    <3>2. CASE mode = "raw"
      <4>1. AtRest(FALSE)
        BY <1>4, <3>2, UnderwayIs
      <4>2. Erasing(sure, before, goal, named) \/ Settling(sure, before, goal, named)
        BY <2>1, <3>2, StageKinds DEF Busied
      <4>3. \E d \in Clusters : \E what : pending = <<WriteOf(d, what)>>
        <5>1. Cwd \in Clusters
          BY <1>1, CwdIn DEF Grounds
        <5>2. QED BY <4>2, <5>1 DEF Erasing, Settling
      <4>4. QED BY <3>2, <4>1, <4>3, RawTypes
    <3>3. QED BY <3>1, <3>2
  <2>5. QED BY <1>2, <2>2, <2>3, <2>4 DEF ShellTypeOK
<1>5. QED BY <1>1, <1>3, <1>4

LEMMA InvCommandsTakeEffect ==
  ASSUME ShellInv
  PROVE  CommandsTakeEffect
<1>1. SUFFICES ASSUME mode = "idle", job.op = "last"
               PROVE  Files = IF job.ok THEN intent.goal ELSE intent.before
  BY DEF CommandsTakeEffect
<1>2. PICK sure \in BOOLEAN : Resting(sure) \/ Underway(sure)
  BY DEF ShellInv
<1>3. Underway(sure)
  <2>1. NoJob.op # "last"
    BY DEF NoJob
  <2>2. job # NoJob
    BY <1>1, <2>1
  <2>3. QED BY <1>2, <2>2 DEF Resting
<1>4. PICK before, goal, named : Pursued(before, goal, named) /\ Stage(sure, before, goal, named)
  BY <1>3 DEF Underway
<1>5. Ended(sure, before, goal)
  BY <1>1, <1>4, StageKinds DEF Busied
<1>6. PICK ok \in BOOLEAN : job = LastCall(ok) /\ Files = IF ok THEN goal ELSE before
  BY <1>5 DEF Ended
<1>7. job.ok = ok /\ intent.goal = goal /\ intent.before = before
  BY <1>4, <1>6 DEF LastCall, Pursued
<1>8. QED BY <1>6, <1>7

LEMMA InvOthersUndamaged ==
  ASSUME ShellInv
  PROVE  OthersUndamaged
<1>1. SUFFICES ASSUME job # NoJob
               PROVE  \A p \in (DOMAIN Files \cup DOMAIN intent.before) \ intent.named :
                        /\ p \in DOMAIN Files \cap DOMAIN intent.before
                        /\ Files[p] = intent.before[p]
  BY DEF OthersUndamaged
<1>2. PICK sure \in BOOLEAN : Resting(sure) \/ Underway(sure)
  BY DEF ShellInv
<1>3. PICK before, goal, named : Pursued(before, goal, named)
  BY <1>1, <1>2 DEF Resting, Underway
<1>4. intent.before = before /\ intent.named = named /\ SameBut(Files, before, named)
  BY <1>3 DEF Pursued
<1>5. QED BY <1>4 DEF SameBut

LEMMA InvShellCrossLinks ==
  ASSUME ShellInv
  PROVE  NoCrossLinks
<1>1. PICK sure \in BOOLEAN : Resting(sure) \/ Underway(sure)
  BY DEF ShellInv
<1>2. mode # "raw" => \E some \in BOOLEAN : Fat32Inv(FALSE, some)
  BY <1>1, UnderwayIs DEF Resting
<1>3. CASE mode = "raw"
  BY <1>3 DEF NoCrossLinks
<1>4. QED BY <1>2, <1>3, InvNoCrossLinks

LEMMA InvNothingLeaked ==
  ASSUME ShellInv
  PROVE  NothingLeaked
<1>1. SUFFICES ASSUME job = NoJob, ~cut PROVE NoLeaks
  BY DEF NothingLeaked
<1>2. PICK sure \in BOOLEAN : (~cut => sure) /\ (Resting(sure) \/ Underway(sure))
  BY DEF ShellInv
<1>3. Fat32Inv(FALSE, TRUE)
  BY <1>1, <1>2, UnderwayIs DEF Resting
<1>4. QED BY <1>3, InvNoLeaks

\* A directory is found by its own name in its own table, and by the name of
\* its entry in another.
LEMMA FoundByName ==
  ASSUME NEW sure \in BOOLEAN, Prompted(sure), NEW d \in Directories,
         NEW s \in Slots, NEW name, store[d].table[s].name = name,
         s = 0 \/ (InUse(store, d, s) /\ store[d].table[s].dir)
  PROVE  DirectoryFound(d, name)
<1>1. Tidy(store[d].table) /\ Headed(store[d].table)
  BY DEF Prompted, Fat32Inv, Settled, Tree
<1>2. PICK named : named = {t \in Slots : store[d].table[t].name = name}
  OBVIOUS
<1>3. named \in SUBSET Nat /\ named # {}
  BY <1>2, Constants
<1>4. PICK t : t = Least(named)
  OBVIOUS
<1>5. t \in named /\ \A k \in named : t <= k
  BY <1>3, <1>4, LeastIs
<1>6. t \in Slots /\ t \in Nat /\ store[d].table[t].name = name
  BY <1>2, <1>5, Constants
<1>7. store[d].table[t].dir
  <2>1. CASE t = 0
    BY <1>1, <2>1 DEF Headed
  <2>2. CASE t # 0
    <3>1. s # 0 /\ s \in Slots \ {0} /\ InUse(store, d, s) /\ store[d].table[s].dir
      <4>1. s \in named
        BY <1>2
      <4>2. s # 0
        BY <1>5, <1>6, <2>2, <4>1
      <4>3. QED BY <4>2
    <3>2. name \in Names /\ name # NoName
      BY <1>1, <3>1, Fat32Assumption DEF Tidy, InUse
    <3>3. store[d].table[t].used
      BY <1>1, <1>6, <2>2, <3>2, EmptyEntryIs DEF Tidy
    <3>4. t = s
      BY <1>1, <1>6, <2>2, <3>1, <3>3 DEF Tidy, InUse
    <3>5. QED BY <3>1, <3>4
  <2>3. QED BY <2>1, <2>2
<1>8. QED BY <1>2, <1>3, <1>4, <1>7 DEF DirectoryFound

LEMMA InvReadsBack ==
  ASSUME Assumed, ShellInv
  PROVE  ReadsBack
<1>1. SUFFICES ASSUME mode = "idle", job = NoJob
               PROVE  /\ Ls = {e.name : e \in EntriesOf(Cwd)}
                      /\ Readable(0) =>
                           \A e \in EntriesOf(Cwd) :
                             (~e.dir /\ SlotsMatching(store[Cwd].table, e.name) \cap {0} = {}) =>
                               /\ e.name \in TextNames /\ e.length = 1 =>
                                    Cat(0, e.name) = Given(Files[<<Cwd, e.name>>].blocks)
                               /\ ~Matches(ShellName, e.name) =>
                                    Exec(0, e.name) = Given(Files[<<Cwd, e.name>>].blocks)
  BY DEF ReadsBack, AtPrompt
<1>2. PICK sure \in BOOLEAN : Resting(sure) \/ Underway(sure)
  BY DEF ShellInv
<1>3. Prompted(sure)
  BY <1>1, <1>2, UnderwayIs DEF Resting, Prompted
<1>4. Grounds /\ Stacked
  BY DEF ShellInv, Grounds
<1>5. PICK c : c = Cwd
  OBVIOUS
<1>6. c \in Directories /\ c = Depth(0) /\ Root \in Directories /\ 0 \in Slots
  BY <1>4, <1>5, CwdIn, DirectoriesNow, Constants
<1>7. Ls = {e.name : e \in EntriesOf(c)}
  <2>1. PICK n, parent, name : n = Len(path) /\ name = Last(pathNames)
                               /\ parent = IF n = 1 THEN Root ELSE Depth(1)
    OBVIOUS
  <2>2. n \in Nat /\ n >= 1 /\ name = pathNames[n] /\ pathNames[1] = RootName
    BY <1>4, <2>1, PathLength DEF Stacked, Last
  <2>3. DirectoryFound(parent, name)
    <3>1. CASE n = 1
      <4>1. store[Root].table[0].name = name
        BY <1>4, <2>2, <3>1 DEF Grounds
      <4>2. QED BY <1>3, <1>6, <2>1, <3>1, <4>1, FoundByName
    <3>2. CASE n # 1
      <4>1. n \in 2 .. Len(path) /\ parent = path[n - 1]
        BY <2>1, <2>2, <3>2 DEF Depth
      <4>2. PICK s \in Slots \ {0} :
              /\ InUse(store, parent, s) /\ store[parent].table[s].dir
              /\ store[parent].table[s].name = name
        BY <1>4, <2>2, <4>1, PathStep
      <4>3. parent \in Directories
        BY <1>4, <2>1, <2>2, <3>2, DepthIn
      <4>4. QED BY <1>3, <4>2, <4>3, FoundByName
    <3>3. QED BY <3>1, <3>2
  <2>4. Ls = {store[c].table[s].name : s \in UsedSlots(store[c].table) \ {0}}
    BY <1>5, <2>1, <2>3 DEF Ls
  <2>5. QED BY <2>4 DEF EntriesOf
<1>8. ASSUME Readable(0), NEW e \in EntriesOf(c), ~e.dir,
             SlotsMatching(store[c].table, e.name) \cap {0} = {}
      PROVE  /\ e.name \in TextNames /\ e.length = 1 =>
                  Cat(0, e.name) = Given(Files[<<c, e.name>>].blocks)
             /\ ~Matches(ShellName, e.name) =>
                  Exec(0, e.name) = Given(Files[<<c, e.name>>].blocks)
  <2>1. PICK name, found : name = e.name /\ found = SlotsMatching(store[c].table, name)
    OBVIOUS
  <2>2. PICK s : s \in Slots \ {0} /\ InUse(store, c, s) /\ e = store[c].table[s]
    <3>1. \E s \in Slots : Stays(store, {}, c, s) /\ e = store[c].table[s]
      BY <1>8, EntryHasSlot
    <3>2. QED BY <3>1 DEF Stays, InUse
  <2>3. name \in Names
    BY <1>3, <1>6, <2>1, <2>2 DEF Prompted, Fat32Inv, Settled, Tree, Tidy, InUse
  <2>4. s \in SlotsNamed(store[c].table, name)
    BY <2>1, <2>2 DEF SlotsNamed
  <2>5. At(c, name, s, e)
    BY <1>3, <1>6, <2>2, <2>3, <2>4, AtSlot
  <2>6. /\ ReadBlocks(c, name, e.length) = Blocks(e)
        /\ e.length \in Nat /\ Len(Blocks(e)) = e.length /\ Blocks(e) # <<>>
        /\ BlocksOK(FALSE, c, name, Blocks(e)) /\ Content(e).blocks = Blocks(e)
    BY <1>3, <1>8, <2>5, ReadsFile
  <2>7. e.length > 0
    BY <2>6 DEF BlocksOK
  <2>8. found = {s}
    <3>1. found \ {0} = SlotsNamed(store[c].table, name) /\ found \subseteq Slots
      BY <2>1, MatchingIs DEF Assumed, SlotsMatching
    <3>2. 0 \notin found
      BY <1>8, <2>1
    <3>3. QED BY <2>5, <3>1, <3>2 DEF At
  <2>9. store[c].table[Least(found)] = e
    <3>1. {s} \in SUBSET Nat /\ {s} # {}
      BY <2>2, Constants
    <3>2. Least({s}) = s
      BY <3>1, LeastIs
    <3>3. QED BY <2>2, <2>8, <3>2
  <2>10. ReadSucceeds(c, name, e.length)
    BY <2>4, <2>6, <2>7 DEF ReadSucceeds
  <2>11. found # {} /\ SlotsNamed(store[c].table, name) # {}
    BY <2>4, <2>8
  <2>12. ~(0 >= Len(path))
    BY <1>4, PathLength
  <2>13. ASSUME name \in TextNames, e.length = 1 PROVE Cat(0, name) = Given(Blocks(e))
    <3>1. {t \in found : store[c].table[t].name \in TextNames} = {s}
      BY <2>1, <2>2, <2>8, <2>13
    <3>2. store[c].table[Least({s})] = e
      BY <2>8, <2>9
    <3>3. {t \in SlotsMatching(store[c].table, name) : store[c].table[t].name \in TextNames} = {s}
      BY <2>1, <3>1
    <3>4. {s} # {} /\ ~(e.length > 1)
      BY <2>13
    <3>5. QED BY <1>6, <1>8, <2>6, <2>10, <2>12, <2>13, <3>2, <3>3, <3>4, Zenon DEF Cat
  <2>14. ASSUME ~Matches(ShellName, name) PROVE Exec(0, name) = Given(Blocks(e))
    BY <1>6, <1>8, <2>1, <2>6, <2>9, <2>11, <2>12, <2>14 DEF Exec
  <2>15. Files[<<c, name>>].blocks = Blocks(e)
    BY <2>5, <2>6 DEF At
  <2>16. QED BY <2>1, <2>13, <2>14, <2>15
<1>9. QED BY <1>5, <1>7, <1>8

-----------------------------------------------------------------------------
(* The queue of find.                                                      *)

\* One place further in the ring.
LEMMA NextInRing ==
  ASSUME NEW m \in Nat \ {0}, NEW k \in -1 .. m - 1
  PROVE  (k + 1) % m = IF k = m - 1 THEN 0 ELSE k + 1
<1>1. CASE k = m - 1
  BY <1>1
<1>2. CASE k # m - 1
  <2>1. k + 1 \in 0 .. m - 1
    BY <1>2
  <2>2. QED BY <1>2, <2>1
<1>3. QED BY <1>1, <1>2

\* Where the k-th of those that wait is.
Place(front, k) ==
  IF front + k - 1 < MaxQueue THEN front + k - 1 ELSE front + k - 1 - MaxQueue

LEMMA InRing ==
  ASSUME NEW front \in 0 .. MaxQueue - 1, NEW k \in 1 .. MaxQueue
  PROVE  /\ Place(front, k) \in 0 .. MaxQueue - 1 /\ Place(front, 1) = front
         /\ Place(front, k) = front => k = 1
         /\ k < MaxQueue => (Place(front, k) + 1) % MaxQueue = Place(front, k + 1)
         /\ k < MaxQueue => Place((front + 1) % MaxQueue, k) = Place(front, k + 1)
         /\ \A j \in 1 .. MaxQueue : Place(front, j) = Place(front, k) => j = k
<1>1. MaxQueue \in Nat \ {0}
  BY ShellAssumption
<1>2. (front + 1) % MaxQueue = IF front = MaxQueue - 1 THEN 0 ELSE front + 1
  BY <1>1, NextInRing
<1>3. Place(front, k) \in 0 .. MaxQueue - 1
  BY <1>1 DEF Place
<1>4. (Place(front, k) + 1) % MaxQueue =
        IF Place(front, k) = MaxQueue - 1 THEN 0 ELSE Place(front, k) + 1
  <2>1. PICK p : p = Place(front, k)
    OBVIOUS
  <2>2. p \in -1 .. MaxQueue - 1
    BY <1>1, <1>3, <2>1
  <2>3. (p + 1) % MaxQueue = IF p = MaxQueue - 1 THEN 0 ELSE p + 1
    BY <1>1, <2>2, NextInRing
  <2>4. QED BY <2>1, <2>3
<1>5. k < MaxQueue => (Place(front, k) + 1) % MaxQueue = Place(front, k + 1)
  BY <1>1, <1>4 DEF Place
<1>6. k < MaxQueue => Place((front + 1) % MaxQueue, k) = Place(front, k + 1)
  BY <1>1, <1>2 DEF Place
<1>7. /\ Place(front, 1) = front
      /\ Place(front, k) = front => k = 1
      /\ \A j \in 1 .. MaxQueue : Place(front, j) = Place(front, k) => j = k
  BY <1>1 DEF Place
<1>8. QED BY <1>3, <1>5, <1>6, <1>7, Zenon

\* The directories in line, the one to visit next first.
InLine(queue, line) ==
  /\ queue = [items |-> queue.items, front |-> queue.front, rear |-> queue.rear]
  /\ queue.items = [k \in 0 .. MaxQueue - 1 |-> queue.items[k]]
  /\ IF line = <<>> THEN queue.front = -1 /\ queue.rear = -1
     ELSE /\ Len(line) \in 1 .. MaxQueue
          /\ queue.front \in 0 .. MaxQueue - 1
          /\ queue.rear = Place(queue.front, Len(line))
          /\ \A k \in 1 .. Len(line) : queue.items[Place(queue.front, k)] = line[k]

LEMMA NobodyInLine == InLine(NoQueue, <<>>)
BY DEF InLine, NoQueue

\* As long as there is room one more joins at the end.
LEMMA LineGrows ==
  ASSUME NEW queue, NEW S, NEW line \in Seq(S), NEW item \in S,
         InLine(queue, line), Len(line) < MaxQueue
  PROVE  InLine(Enqueue(queue, item), Append(line, item))
<1>1. MaxQueue \in Nat \ {0}
  BY ShellAssumption
<1>2. PICK next, front : /\ next = (queue.rear + 1) % MaxQueue
                         /\ front = IF queue.front = -1 THEN 0 ELSE queue.front
  OBVIOUS
<1>3. PICK more : more = Append(line, item)
  OBVIOUS
<1>4. /\ more # <<>> /\ Len(more) = Len(line) + 1 /\ Len(more) \in 1 .. MaxQueue
      /\ Len(line) \in Nat /\ more[Len(more)] = item /\ \A k \in 1 .. Len(line) : more[k] = line[k]
  BY <1>1, <1>3
<1>5. /\ front \in 0 .. MaxQueue - 1 /\ next = Place(front, Len(more)) /\ next # queue.front
      /\ \A k \in 1 .. Len(line) : queue.items[Place(front, k)] = line[k]
  <2>1. CASE line = <<>>
    <3>1. queue.front = -1 /\ queue.rear = -1 /\ front = 0
      BY <1>2, <2>1 DEF InLine
    <3>2. next = 0
      <4>1. -1 \in -1 .. MaxQueue - 1 /\ -1 # MaxQueue - 1
        BY <1>1
      <4>2. (-1 + 1) % MaxQueue = 0
        BY <1>1, <4>1, NextInRing
      <4>3. QED BY <1>2, <3>1, <4>2
    <3>3. Len(line) = 0 /\ 0 \in 0 .. MaxQueue - 1 /\ 1 \in 1 .. MaxQueue
      BY <1>1, <2>1
    <3>4. Place(0, 1) = 0
      BY <3>3, InRing
    <3>5. QED BY <1>4, <3>1, <3>2, <3>3, <3>4
  <2>2. CASE line # <<>>
    <3>1. /\ Len(line) \in 1 .. MaxQueue /\ queue.front \in 0 .. MaxQueue - 1
          /\ queue.rear = Place(queue.front, Len(line))
          /\ \A k \in 1 .. Len(line) : queue.items[Place(queue.front, k)] = line[k]
      BY <2>2 DEF InLine
    <3>2. front = queue.front
      BY <1>2, <3>1
    <3>3. next = Place(front, Len(line) + 1)
      BY <1>2, <3>1, <3>2, InRing
    <3>4. next # front
      <4>1. Len(line) + 1 # 1 /\ Len(line) + 1 \in 1 .. MaxQueue
        BY <1>4, <3>1
      <4>2. QED BY <3>1, <3>2, <3>3, <4>1, InRing
    <3>5. QED BY <1>4, <3>1, <3>2, <3>3, <3>4
  <2>3. QED BY <2>1, <2>2
<1>6. PICK other : other = Enqueue(queue, item)
  OBVIOUS
<1>7. other = [items |-> [queue.items EXCEPT ![next] = item], rear |-> next, front |-> front]
  BY <1>2, <1>5, <1>6 DEF Enqueue, QueueFull
<1>8. /\ other = [items |-> other.items, front |-> other.front, rear |-> other.rear]
      /\ other.rear = next /\ other.front = front
      /\ other.items = [queue.items EXCEPT ![next] = item]
  BY <1>7
<1>9. next \in 0 .. MaxQueue - 1
  BY <1>4, <1>5, InRing
<1>10. /\ other.items = [k \in 0 .. MaxQueue - 1 |-> other.items[k]]
       /\ \A k \in 0 .. MaxQueue - 1 : other.items[k] = IF k = next THEN item ELSE queue.items[k]
  <2>1. queue.items = [k \in 0 .. MaxQueue - 1 |-> queue.items[k]]
    BY DEF InLine
  <2>2. QED BY <1>8, <2>1
<1>11. ASSUME NEW k \in 1 .. Len(more)
       PROVE  other.items[Place(front, k)] = more[k]
  <2>1. CASE k = Len(more)
    BY <1>4, <1>5, <1>9, <1>10, <2>1
  <2>2. CASE k # Len(more)
    <3>1. k \in 1 .. Len(line) /\ k \in 1 .. MaxQueue
      BY <1>1, <1>4, <1>11, <2>2
    <3>2. Place(front, k) \in 0 .. MaxQueue - 1 /\ Place(front, k) # next
      BY <1>4, <1>5, <2>2, <3>1, InRing
    <3>3. QED BY <1>4, <1>5, <1>10, <3>1, <3>2
  <2>3. QED BY <2>1, <2>2
<1>12. InLine(other, more)
  BY <1>4, <1>5, <1>8, <1>10, <1>11 DEF InLine
<1>13. QED BY <1>3, <1>6, <1>12

LEMMA EmptyLine == ASSUME NEW S, NEW line \in Seq(S) PROVE line = <<>> <=> Len(line) = 0
OBVIOUS

\* The first one leaves.
LEMMA LineMoves ==
  ASSUME NEW queue, NEW S, NEW line \in Seq(S), InLine(queue, line), line # <<>>
  PROVE  /\ InLine(Dequeue(queue), Tail(line))
         /\ queue.items[queue.front] = line[1] /\ ~IsEmpty(queue)
<1>1. MaxQueue \in Nat \ {0}
  BY ShellAssumption
<1>2. /\ Len(line) \in 1 .. MaxQueue /\ queue.front \in 0 .. MaxQueue - 1
      /\ queue.rear = Place(queue.front, Len(line))
      /\ \A k \in 1 .. Len(line) : queue.items[Place(queue.front, k)] = line[k]
      /\ queue = [items |-> queue.items, front |-> queue.front, rear |-> queue.rear]
      /\ queue.items = [k \in 0 .. MaxQueue - 1 |-> queue.items[k]]
  BY DEF InLine
<1>3. 1 \in 1 .. MaxQueue /\ 1 \in 1 .. Len(line)
  BY <1>1, <1>2
<1>4. queue.items[queue.front] = line[1] /\ ~IsEmpty(queue)
  <2>1. Place(queue.front, 1) = queue.front
    BY <1>2, <1>3, InRing
  <2>2. queue.items[Place(queue.front, 1)] = line[1]
    BY <1>2, <1>3
  <2>3. queue.front # -1
    BY <1>1, <1>2
  <2>4. QED BY <2>1, <2>2, <2>3 DEF IsEmpty
<1>5. PICK rest : rest = Tail(line)
  OBVIOUS
<1>6. /\ Len(rest) = Len(line) - 1 /\ (rest = <<>> <=> Len(line) = 1)
      /\ \A k \in 1 .. Len(rest) : rest[k] = line[k + 1]
  <2>1. Len(rest) = Len(line) - 1 /\ rest \in Seq(S)
    BY <1>5
  <2>2. \A k \in 1 .. Len(rest) : rest[k] = line[k + 1]
    BY <1>5, <2>1
  <2>3. rest = <<>> <=> Len(rest) = 0
    BY <2>1, EmptyLine
  <2>4. QED BY <1>2, <2>1, <2>2, <2>3
<1>7. PICK other : other = Dequeue(queue)
  OBVIOUS
<1>8. queue.front = queue.rear <=> Len(line) = 1
  <2>1. Place(queue.front, 1) = queue.front
    BY <1>2, <1>3, InRing
  <2>2. Place(queue.front, Len(line)) = queue.front => Len(line) = 1
    BY <1>2, InRing
  <2>3. QED BY <1>2, <2>1, <2>2
<1>9. CASE Len(line) = 1
  <2>1. other = [queue EXCEPT !.front = -1, !.rear = -1]
    BY <1>7, <1>8, <1>9 DEF Dequeue
  <2>2. other = [items |-> queue.items, front |-> -1, rear |-> -1]
    BY <1>2, <2>1
  <2>3. /\ other = [items |-> other.items, front |-> other.front, rear |-> other.rear]
        /\ other.front = -1 /\ other.rear = -1 /\ other.items = queue.items
    BY <2>2
  <2>4. InLine(other, rest)
    BY <1>2, <1>6, <1>9, <2>3 DEF InLine
  <2>5. QED BY <1>4, <1>5, <1>7, <2>4
<1>10. CASE Len(line) # 1
  <2>1. PICK next : next = (queue.front + 1) % MaxQueue
    OBVIOUS
  <2>2. other = [items |-> queue.items, front |-> next, rear |-> queue.rear]
    BY <1>2, <1>7, <1>8, <1>10, <2>1 DEF Dequeue
  <2>3. /\ other = [items |-> other.items, front |-> other.front, rear |-> other.rear]
        /\ other.front = next /\ other.rear = queue.rear /\ other.items = queue.items
    BY <2>2
  <2>4. next \in 0 .. MaxQueue - 1
    BY <1>1, <1>2, <2>1, NextInRing
  <2>5. /\ Len(rest) \in 1 .. MaxQueue - 1 /\ rest # <<>>
        /\ \A k \in 1 .. Len(rest) : k \in 1 .. MaxQueue /\ k < MaxQueue /\ k + 1 \in 1 .. Len(line)
    BY <1>1, <1>2, <1>6, <1>10
  <2>6. \A k \in 1 .. Len(rest) : Place(next, k) = Place(queue.front, k + 1)
    BY <1>2, <2>1, <2>5, InRing
  <2>7. /\ Len(rest) \in 1 .. MaxQueue
        /\ other.rear = Place(next, Len(rest))
        /\ \A k \in 1 .. Len(rest) : other.items[Place(next, k)] = rest[k]
    <3>1. Len(rest) \in 1 .. Len(rest) /\ Len(rest) + 1 = Len(line) /\ Len(rest) \in 1 .. MaxQueue
      BY <1>2, <1>6, <2>5
    <3>2. QED BY <1>2, <1>6, <2>3, <2>5, <2>6, <3>1
  <2>8. InLine(other, rest)
    BY <1>2, <2>3, <2>4, <2>5, <2>7 DEF InLine
  <2>9. QED BY <1>4, <1>5, <1>7, <2>8
<1>11. QED BY <1>9, <1>10

LEMMA LineEnds ==
  ASSUME NEW queue, NEW line, InLine(queue, line)
  PROVE  IsEmpty(queue) <=> line = <<>>
BY DEF InLine, IsEmpty

-----------------------------------------------------------------------------
(* What find has seen.                                                     *)

FolderAt(d, s) == InUse(store, d, s) /\ store[d].table[s].dir

\* Each folder is a directory with one entry, which is not about the root.
LEMMA FolderOnce ==
  ASSUME NEW own \in BOOLEAN, Tree(own, Directories, store, diskFat, {}, {}),
         NEW d \in Directories, NEW s \in Slots, FolderAt(d, s)
  PROVE  /\ store[d].table[s].cluster \in Directories \ {Root}
         /\ store[d].table[s].name \in Names
         /\ \A p \in Directories, t \in Slots :
              FolderAt(p, t) /\ store[p].table[t].cluster = store[d].table[s].cluster => p = d /\ t = s
<1>1. PICK c : c = store[d].table[s].cluster
  OBVIOUS
<1>2. ASSUME NEW p \in Directories, NEW t \in Slots, FolderAt(p, t)
      PROVE  /\ Stays(store, {}, p, t)
             /\ store[p].table[t].cluster \in Owned(diskFat, store[p].table[t])
             /\ store[p].table[t].cluster \in Clusters
             /\ Root \notin Owned(diskFat, store[p].table[t])
  <2>1. Stays(store, {}, p, t)
    BY <1>2 DEF FolderAt, Stays
  <2>2. Held(own, store, diskFat, p, store[p].table[t]) /\ Root \notin Owned(diskFat, store[p].table[t])
    BY <2>1 DEF Tree
  <2>3. QED BY <2>1, <2>2, LinkedSound DEF Held, Owned
<1>3. c \in Clusters /\ c # Root /\ c \in Owned(diskFat, store[d].table[s]) /\ Stays(store, {}, d, s)
  BY <1>1, <1>2
<1>4. c \in Directories
  <2>1. Child(store, d, c)
    BY <1>1 DEF Child, FolderAt
  <2>2. QED BY <1>3, <2>1, DirectoriesNow DEF Reached, Closed
<1>5. store[d].table[s].name \in Names
  BY DEF Tree, Tidy, FolderAt, InUse
<1>6. ASSUME NEW p \in Directories, NEW t \in Slots, FolderAt(p, t), store[p].table[t].cluster = c
      PROVE  p = d /\ t = s
  <2>1. Stays(store, {}, p, t) /\ c \in Owned(diskFat, store[p].table[t])
    BY <1>2, <1>6
  <2>2. c \in Owned(diskFat, store[d].table[s]) \cap Owned(diskFat, store[p].table[t])
    BY <1>3, <2>1
  <2>3. QED BY <1>3, <2>1, <2>2 DEF Tree
<1>7. QED BY <1>1, <1>3, <1>4, <1>5, <1>6

Items == [cluster : Directories, parent : Directories, name : Names \cup {RootName}]

Awaited(line) == {line[k].cluster : k \in 1 .. Len(line)}

Single(line) == \A j, k \in 1 .. Len(line) : line[j].cluster = line[k].cluster => j = k

\* From the slots seen, find knows these directories, each of them once.
Explored(seen, visited, line) ==
  /\ visited \subseteq Directories /\ line \in Seq(Items)
  /\ \A k \in 1 .. Len(line) : DirectoryFound(line[k].parent, line[k].name)
  /\ Awaited(line) \cap visited = {}
  /\ Single(line)
  /\ \A c : c \in visited \cup Awaited(line) <=>
       \/ c = Root
       \/ \E d \in Directories, s \in Slots :
            <<d, s>> \in seen /\ FolderAt(d, s) /\ store[d].table[s].cluster = c

LEMMA SingleCounts ==
  ASSUME NEW S, NEW line \in Seq(S), Single(line)
  PROVE  IsFiniteSet(Awaited(line)) /\ Cardinality(Awaited(line)) = Len(line)
<1> DEFINE n == Len(line)
<1> DEFINE f == [k \in 1 .. n |-> line[k].cluster]
<1>1. n \in Nat
  OBVIOUS
<1>2. f \in Bijection(1 .. n, Awaited(line))
  <2>1. f \in [1 .. n -> Awaited(line)]
    BY DEF Awaited
  <2>2. \A j, k \in 1 .. n : f[j] = f[k] => j = k
    BY DEF Single
  <2>3. \A c \in Awaited(line) : \E k \in 1 .. n : f[k] = c
    BY DEF Awaited
  <2>4. QED BY <2>1, <2>2, <2>3 DEF Bijection, Injection, Surjection, IsInjective
<1>3. IsFiniteSet(1 .. n) /\ Cardinality(1 .. n) = n
  BY <1>1, FS_Interval
<1>4. ExistsBijection(1 .. n, Awaited(line))
  BY <1>2 DEF ExistsBijection
<1>5. QED BY <1>3, <1>4, FS_Bijection

LEMMA OneMoreAwaited ==
  ASSUME NEW S, NEW line \in Seq(S), NEW item \in S, item.cluster \notin Awaited(line), Single(line)
  PROVE  LET more == Append(line, item)
         IN  /\ Awaited(more) = Awaited(line) \cup {item.cluster} /\ Single(more)
             /\ more \in Seq(S) /\ Len(more) = Len(line) + 1 /\ more[Len(line) + 1] = item
             /\ \A k \in 1 .. Len(line) : more[k] = line[k]
<1>1. PICK more, n : more = Append(line, item) /\ n = Len(line)
  OBVIOUS
<1>2. /\ n \in Nat /\ Len(more) = n + 1 /\ more[n + 1] = item
      /\ \A k \in 1 .. n : more[k] = line[k]
      /\ more \in Seq(S)
  BY <1>1
<1>3. \A k \in 1 .. n + 1 : k \in 1 .. n \/ k = n + 1
  BY <1>2
<1>4. \A k \in 1 .. n : k \in 1 .. n + 1 /\ k # n + 1 /\ line[k].cluster # item.cluster
  BY <1>1, <1>2 DEF Awaited
<1>5. Single(more)
  BY <1>1, <1>2, <1>3, <1>4 DEF Single
<1>6. Awaited(more) = Awaited(line) \cup {item.cluster}
  <2>1. n + 1 \in 1 .. n + 1
    BY <1>2
  <2>2. QED BY <1>1, <1>2, <1>3, <1>4, <2>1 DEF Awaited
<1>7. QED BY <1>1, <1>2, <1>5, <1>6

LEMMA OneLessAwaited ==
  ASSUME NEW S, NEW line \in Seq(S), line # <<>>, Single(line)
  PROVE  LET rest == Tail(line)
         IN  /\ Awaited(rest) = Awaited(line) \ {line[1].cluster} /\ line[1].cluster \in Awaited(line)
             /\ Single(rest) /\ rest \in Seq(S) /\ Len(rest) = Len(line) - 1 /\ Len(line) >= 1
             /\ \A k \in 1 .. Len(rest) : rest[k] = line[k + 1] /\ k + 1 \in 1 .. Len(line)
<1>1. PICK rest, n : rest = Tail(line) /\ n = Len(line)
  OBVIOUS
<1>2. n \in Nat /\ n >= 1
  BY <1>1, EmptyLine
<1>3. rest \in Seq(S) /\ Len(rest) = n - 1 /\ \A k \in 1 .. n - 1 : rest[k] = line[k + 1]
  <2>1. rest \in Seq(S) /\ Len(rest) = n - 1
    BY <1>1, <1>2
  <2>2. QED BY <1>1, <2>1
<1>4. \A k \in 1 .. n - 1 : k + 1 \in 1 .. n /\ k + 1 # 1
  BY <1>2
<1>5. \A k \in 1 .. n : k = 1 \/ (k - 1 \in 1 .. n - 1 /\ (k - 1) + 1 = k)
  BY <1>2
<1>6. Single(rest)
  <2>1. SUFFICES ASSUME NEW j \in 1 .. n - 1, NEW k \in 1 .. n - 1,
                        rest[j].cluster = rest[k].cluster
                 PROVE  j = k
    BY <1>3 DEF Single
  <2>2. j + 1 = k + 1
    BY <1>1, <1>3, <1>4, <2>1 DEF Single
  <2>3. QED BY <2>2
<1>7. 1 \in 1 .. n /\ line[1].cluster \in Awaited(line)
  BY <1>1, <1>2 DEF Awaited
<1>8. ASSUME NEW c PROVE c \in Awaited(rest) <=> c \in Awaited(line) /\ c # line[1].cluster
  <2>1. ASSUME c \in Awaited(rest) PROVE c \in Awaited(line) /\ c # line[1].cluster
    <3>1. PICK k \in 1 .. n - 1 : c = line[k + 1].cluster
      BY <1>3, <2>1 DEF Awaited
    <3>2. QED BY <1>1, <1>4, <1>7, <3>1 DEF Awaited, Single
  <2>2. ASSUME c \in Awaited(line), c # line[1].cluster PROVE c \in Awaited(rest)
    <3>1. PICK k \in 1 .. n : c = line[k].cluster
      BY <1>1, <2>2 DEF Awaited
    <3>2. k - 1 \in 1 .. n - 1 /\ rest[k - 1] = line[k]
      <4>1. k - 1 \in 1 .. n - 1 /\ (k - 1) + 1 = k
        BY <1>5, <2>2, <3>1
      <4>2. QED BY <1>3, <4>1
    <3>3. QED BY <1>3, <3>1, <3>2 DEF Awaited
  <2>3. QED BY <2>1, <2>2
<1>9. QED BY <1>1, <1>2, <1>3, <1>4, <1>6, <1>7, <1>8

FolderItem(d, s) ==
  [cluster |-> store[d].table[s].cluster, parent |-> d, name |-> store[d].table[s].name]

\* A directory has a finite number of others above it.
LEMMA DirectoriesFinite == IsFiniteSet(Directories) /\ IsFiniteSet(Clusters)
                           /\ Cardinality(Directories) \in Nat /\ Cardinality(Clusters) = NClusters - 2
<1>1. NClusters \in Nat /\ NClusters - 1 \in Int /\ 2 \in Int /\ NClusters >= 3
  BY Fat32Assumption
<1>2. IsFiniteSet(2 .. NClusters - 1) /\ Cardinality(2 .. NClusters - 1) = NClusters - 2
  BY <1>1, FS_Interval
<1>3. IsFiniteSet(Clusters) /\ Cardinality(Clusters) = NClusters - 2
  BY <1>2 DEF Clusters
<1>4. IsFiniteSet(Directories)
  BY <1>3, DirectoriesNow, FS_Subset
<1>5. QED BY <1>3, <1>4, FS_CardinalityType

\* There is room for a folder that find does not know yet.
LEMMA RoomInLine ==
  ASSUME NEW seen, NEW visited, NEW line, Explored(seen, visited, line), Root \in visited,
         Cardinality(Directories) <= MaxQueue + 1,
         NEW c \in Directories, c \notin visited \cup Awaited(line)
  PROVE  Len(line) < MaxQueue
<1>1. line \in Seq(Items) /\ Single(line)
  BY DEF Explored
<1>2. IsFiniteSet(Awaited(line)) /\ Cardinality(Awaited(line)) = Len(line) /\ Len(line) \in Nat
  BY <1>1, SingleCounts
<1>3. Awaited(line) \subseteq Directories
  <2>1. \A k \in 1 .. Len(line) : line[k] \in Items
    BY <1>1
  <2>2. QED BY <2>1 DEF Awaited, Items
<1>4. PICK rest : rest = Awaited(line) \cup {c}
  OBVIOUS
<1>5. IsFiniteSet(rest) /\ Cardinality(rest) = Len(line) + 1
  BY <1>2, <1>4, FS_AddElement
<1>6. IsFiniteSet(rest \cup {Root}) /\ Cardinality(rest \cup {Root}) = Len(line) + 2
  <2>1. Root \notin rest
    <3>1. Awaited(line) \cap visited = {} /\ Root \in visited
      BY DEF Explored
    <3>2. QED BY <1>4, <3>1
  <2>2. /\ IsFiniteSet(rest \cup {Root})
        /\ Cardinality(rest \cup {Root}) = Cardinality(rest) + 1
    BY <1>5, <2>1, FS_AddElement
  <2>3. QED BY <1>2, <1>5, <2>2
<1>7. rest \cup {Root} \subseteq Directories
  BY <1>3, <1>4, DirectoriesNow
<1>8. Cardinality(rest \cup {Root}) <= Cardinality(Directories)
  BY <1>7, DirectoriesFinite, FS_Subset
<1>9. QED BY <1>2, <1>6, <1>8, DirectoriesFinite, ShellAssumption

\* Of a directory visited, one more folder joins.
LEMMA OneJoins ==
  ASSUME NEW sure \in BOOLEAN, Prompted(sure), Cardinality(Directories) <= MaxQueue + 1,
         NEW queue, NEW line, NEW seen, NEW visited, NEW d \in visited, NEW s \in Slots,
         InLine(queue, line), Explored(seen, visited, line), Root \in visited,
         FolderAt(d, s), <<d, s>> \notin seen
  PROVE  \E more : /\ InLine(Enqueue(queue, FolderItem(d, s)), more)
                   /\ Explored(seen \cup {<<d, s>>}, visited, more)
<1>1. PICK item : item = FolderItem(d, s)
  OBVIOUS
<1>2. d \in Directories /\ line \in Seq(Items) /\ Single(line)
  BY DEF Explored
<1>3. Tree(FALSE, Directories, store, diskFat, {}, {})
  BY DEF Prompted, Fat32Inv, Settled
<1>4. PICK c : c = store[d].table[s].cluster
  OBVIOUS
<1>5. /\ c \in Directories \ {Root} /\ store[d].table[s].name \in Names
      /\ \A p \in Directories, t \in Slots :
           FolderAt(p, t) /\ store[p].table[t].cluster = c => p = d /\ t = s
  BY <1>2, <1>3, <1>4, FolderOnce
<1>6. /\ item.cluster = c /\ item.parent = d /\ item.name = store[d].table[s].name
      /\ item \in Items
  BY <1>1, <1>2, <1>4, <1>5 DEF FolderItem, Items
<1>7. c \notin visited \cup Awaited(line)
  BY <1>5 DEF Explored
<1>8. Len(line) < MaxQueue
  BY <1>5, <1>7, RoomInLine
<1>9. PICK more : more = Append(line, item)
  OBVIOUS
<1>10. InLine(Enqueue(queue, item), more)
  BY <1>2, <1>6, <1>8, <1>9, LineGrows
<1>11. /\ Awaited(more) = Awaited(line) \cup {c} /\ Single(more)
       /\ more \in Seq(Items) /\ Len(more) = Len(line) + 1 /\ more[Len(line) + 1] = item
       /\ \A k \in 1 .. Len(line) : more[k] = line[k]
  BY <1>2, <1>6, <1>7, <1>9, OneMoreAwaited
<1>12. DirectoryFound(d, item.name)
  BY <1>2, <1>6, FoundByName DEF FolderAt
<1>13. \A k \in 1 .. Len(more) : DirectoryFound(more[k].parent, more[k].name)
  <2>1. \A k \in 1 .. Len(more) : k \in 1 .. Len(line) \/ k = Len(line) + 1
    BY <1>2, <1>11
  <2>2. \A k \in 1 .. Len(line) : DirectoryFound(line[k].parent, line[k].name)
    BY DEF Explored
  <2>3. QED BY <1>6, <1>11, <1>12, <2>1, <2>2
<1>14. ASSUME NEW x
       PROVE  x \in visited \cup Awaited(more) <=>
                \/ x = Root
                \/ \E p \in Directories, t \in Slots :
                     <<p, t>> \in seen \cup {<<d, s>>} /\ FolderAt(p, t) /\ store[p].table[t].cluster = x
  <2>1. x \in visited \cup Awaited(line) <=>
          \/ x = Root
          \/ \E p \in Directories, t \in Slots :
               <<p, t>> \in seen /\ FolderAt(p, t) /\ store[p].table[t].cluster = x
    BY DEF Explored
  <2>2. x \in visited \cup Awaited(more) <=> x \in visited \cup Awaited(line) \/ x = c
    BY <1>11
  <2>3. (\E p \in Directories, t \in Slots :
           <<p, t>> \in seen \cup {<<d, s>>} /\ FolderAt(p, t) /\ store[p].table[t].cluster = x)
        <=> x = c \/ (\E p \in Directories, t \in Slots :
                        <<p, t>> \in seen /\ FolderAt(p, t) /\ store[p].table[t].cluster = x)
    BY <1>2, <1>4
  <2>4. QED BY <2>1, <2>2, <2>3
<1>15. Awaited(more) \cap visited = {}
  BY <1>7, <1>11 DEF Explored
<1>16. Explored(seen \cup {<<d, s>>}, visited, more)
  BY <1>11, <1>13, <1>14, <1>15 DEF Explored
<1>17. QED BY <1>1, <1>10, <1>16

\* The queues that a directory's slots go through.
Joins(f, queue, d, listed, n) ==
  f = [s \in 0 .. n |->
         IF s = 0 THEN queue
         ELSE IF s \in listed /\ store[d].table[s].dir
         THEN Enqueue(f[s - 1], FolderItem(d, s)) ELSE f[s - 1]]

LEMMA JoinsExist ==
  ASSUME NEW queue, NEW d, NEW listed, NEW n \in Nat
  PROVE  \E f : Joins(f, queue, d, listed, n)
<1> DEFINE Bad == {k \in Nat : ~ \E f : Joins(f, queue, d, listed, k)}
<1>1. SUFFICES ASSUME Bad # {} PROVE FALSE
  OBVIOUS
<1>2. PICK m \in Bad : \A k \in Bad : m <= k
  BY <1>1, LeastNumber
<1>3. m # 0
  <2>1. Joins([k \in 0 .. 0 |-> queue], queue, d, listed, 0)
    BY DEF Joins
  <2>2. QED BY <2>1
<1>4. m - 1 \in Nat /\ m - 1 \notin Bad
  BY <1>2, <1>3
<1>5. PICK f : Joins(f, queue, d, listed, m - 1)
  BY <1>4
<1> DEFINE Joining(s, q) ==
      IF s \in listed /\ store[d].table[s].dir THEN Enqueue(q, FolderItem(d, s)) ELSE q
<1> DEFINE g == [k \in 0 .. m |-> IF k < m THEN f[k] ELSE Joining(m, f[m - 1])]
<1>6. ASSUME NEW k \in 0 .. m - 1
      PROVE  f[k] = IF k = 0 THEN queue ELSE Joining(k, f[k - 1])
  BY <1>5 DEF Joins
<1> HIDE DEF Joining
<1>7. ASSUME NEW k \in 0 .. m
      PROVE  g[k] = IF k = 0 THEN queue ELSE Joining(k, g[k - 1])
  <2>1. CASE k = m
    BY <1>3, <2>1
  <2>2. CASE k < m
    <3>1. k \in 0 .. m - 1 /\ g[k] = f[k] /\ (k # 0 => g[k - 1] = f[k - 1])
      BY <2>2
    <3>2. QED BY <1>6, <3>1
  <2>3. QED BY <2>1, <2>2
<1>8. g = [k \in 0 .. m |-> IF k = 0 THEN queue ELSE Joining(k, g[k - 1])]
  BY <1>7
<1>9. Joins(g, queue, d, listed, m)
  BY <1>8 DEF Joins, Joining
<1>10. QED BY <1>9

LEMMA JoinedIs ==
  ASSUME NEW queue, NEW d, NEW listed
  PROVE  \E f : Joins(f, queue, d, listed, NSlots - 1) /\ Joined(queue, d, listed) = f[NSlots - 1]
<1> DEFINE after == CHOOSE f : Joins(f, queue, d, listed, NSlots - 1)
<1>1. Joins(after, queue, d, listed, NSlots - 1)
  BY JoinsExist, Fat32Assumption
<1>2. Joined(queue, d, listed) = after[NSlots - 1]
  BY DEF Joined, Joins, FolderItem, Slots
<1>3. QED BY <1>1, <1>2

\* What has been seen matters as far as there are folders.
LEMMA SeenTheSame ==
  ASSUME NEW seen, NEW other, NEW visited, NEW line, Explored(seen, visited, line),
         \A p \in Directories, t \in Slots :
           FolderAt(p, t) => (<<p, t>> \in other <=> <<p, t>> \in seen)
  PROVE  Explored(other, visited, line)
<1>1. ASSUME NEW c
      PROVE  (\E p \in Directories, t \in Slots :
                <<p, t>> \in other /\ FolderAt(p, t) /\ store[p].table[t].cluster = c)
             <=> (\E p \in Directories, t \in Slots :
                    <<p, t>> \in seen /\ FolderAt(p, t) /\ store[p].table[t].cluster = c)
  OBVIOUS
<1>2. ASSUME NEW c
      PROVE  c \in visited \cup Awaited(line) <=>
               \/ c = Root
               \/ \E p \in Directories, t \in Slots :
                    <<p, t>> \in other /\ FolderAt(p, t) /\ store[p].table[t].cluster = c
  BY <1>1 DEF Explored
<1>3. QED BY <1>2 DEF Explored

\* The slots seen when find is at the s-th of directory d.
Seen(old, d, s) == (old \X Slots) \cup ({d} \X (0 .. s))

LEMMA SeenIs ==
  ASSUME NEW old, NEW d, NEW s \in Slots
  PROVE  \A p, t : <<p, t>> \in Seen(old, d, s) <=>
                     (p \in old /\ t \in Slots) \/ (p = d /\ t \in 0 .. s)
<1>1. TAKE p, t
<1>2. <<p, t>> \in {d} \X (0 .. s) <=> p = d /\ t \in 0 .. s
  OBVIOUS
<1>3. <<p, t>> \in old \X Slots <=> p \in old /\ t \in Slots
  OBVIOUS
<1>4. QED BY <1>2, <1>3 DEF Seen

\* When the slots of a directory have been seen all its folders have joined.
LEMMA FoldersJoin ==
  ASSUME NEW sure \in BOOLEAN, Prompted(sure), Cardinality(Directories) <= MaxQueue + 1,
         NEW queue, NEW line, NEW old, NEW d \in Directories \ old, NEW listed,
         InLine(queue, line), Explored(old \X Slots, old \cup {d}, line),
         Root \in old \cup {d},
         \A s \in Slots : FolderAt(d, s) <=> s \in listed /\ store[d].table[s].dir
  PROVE  \E more : /\ InLine(Joined(queue, d, listed), more)
                   /\ Explored((old \cup {d}) \X Slots, old \cup {d}, more)
<1>1. PICK visited : visited = old \cup {d}
  OBVIOUS
<1>2. PICK f : Joins(f, queue, d, listed, NSlots - 1) /\ Joined(queue, d, listed) = f[NSlots - 1]
  BY JoinedIs
<1> DEFINE S ==
      {s \in Slots : \E more : InLine(f[s], more) /\ Explored(Seen(old, d, s), visited, more)}
<1>3. NSlots - 1 \in Nat /\ Slots = 0 .. NSlots - 1
  BY Fat32Assumption DEF Slots
<1>4. \A s \in Slots : f[s] = IF s = 0 THEN queue
                              ELSE IF s \in listed /\ store[d].table[s].dir
                              THEN Enqueue(f[s - 1], FolderItem(d, s)) ELSE f[s - 1]
  BY <1>2, <1>3 DEF Joins
<1>5. 0 \in S
  <2>1. f[0] = queue /\ 0 \in Slots
    BY <1>3, <1>4
  <2>2. \A p \in Directories, t \in Slots :
          FolderAt(p, t) => (<<p, t>> \in Seen(old, d, 0) <=> <<p, t>> \in old \X Slots)
    <3>1. ASSUME NEW p, NEW t \in Slots, FolderAt(p, t) PROVE t \notin 0 .. 0
      BY <3>1 DEF FolderAt, InUse
    <3>2. QED BY <2>1, <3>1, SeenIs
  <2>3. Explored(Seen(old, d, 0), visited, line)
    BY <1>1, <2>2, SeenTheSame
  <2>4. QED BY <2>1, <2>3
<1>6. ASSUME NEW m \in 0 .. NSlots - 1 - 1, m \in S
      PROVE  m + 1 \in S
  <2>1. PICK s : s = m + 1
    OBVIOUS
  <2>2. s \in Slots /\ s # 0 /\ s - 1 = m /\ m \in Slots
    BY <1>3, <2>1
  <2>3. PICK more : InLine(f[m], more) /\ Explored(Seen(old, d, m), visited, more)
    BY <1>6
  <2>4. \A p, t : <<p, t>> \in Seen(old, d, s) <=> <<p, t>> \in Seen(old, d, m) \/ (p = d /\ t = s)
    <3>1. \A t : t \in 0 .. s <=> t \in 0 .. m \/ t = s
      BY <1>3, <2>1, <2>2
    <3>2. ASSUME NEW p, NEW t
          PROVE  <<p, t>> \in Seen(old, d, s) <=> <<p, t>> \in Seen(old, d, m) \/ (p = d /\ t = s)
      <4>1. <<p, t>> \in Seen(old, d, s) <=> (p \in old /\ t \in Slots) \/ (p = d /\ t \in 0 .. s)
        BY <2>2, SeenIs
      <4>2. <<p, t>> \in Seen(old, d, m) <=> (p \in old /\ t \in Slots) \/ (p = d /\ t \in 0 .. m)
        BY <2>2, SeenIs
      <4>3. QED BY <3>1, <4>1, <4>2, Zenon
    <3>3. QED BY <3>2
  <2>5. CASE FolderAt(d, s)
    <3>1. f[s] = Enqueue(f[m], FolderItem(d, s))
      BY <1>4, <2>2, <2>5
    <3>2. <<d, s>> \notin Seen(old, d, m)
      <4>1. s \notin 0 .. m
        BY <1>3, <2>1, <2>2
      <4>2. QED BY <2>2, <4>1, SeenIs
    <3>3. PICK longer : /\ InLine(Enqueue(f[m], FolderItem(d, s)), longer)
                        /\ Explored(Seen(old, d, m) \cup {<<d, s>>}, visited, longer)
      BY <1>1, <2>2, <2>3, <2>5, <3>2, OneJoins
    <3>4. Explored(Seen(old, d, s), visited, longer)
      <4>1. \A p, t : <<p, t>> \in Seen(old, d, m) \cup {<<d, s>>} <=>
                        <<p, t>> \in Seen(old, d, m) \/ (p = d /\ t = s)
        OBVIOUS
      <4>2. QED BY <2>4, <3>3, <4>1, SeenTheSame
    <3>5. QED BY <2>1, <2>2, <3>1, <3>3, <3>4
  <2>6. CASE ~FolderAt(d, s)
    <3>1. f[s] = f[m]
      BY <1>4, <2>2, <2>6
    <3>2. \A p \in Directories, t \in Slots :
            FolderAt(p, t) => (<<p, t>> \in Seen(old, d, s) <=> <<p, t>> \in Seen(old, d, m))
      BY <2>4, <2>6
    <3>3. Explored(Seen(old, d, s), visited, more)
      BY <2>3, <3>2, SeenTheSame
    <3>4. QED BY <2>1, <2>2, <2>3, <3>1, <3>3
  <2>7. QED BY <2>5, <2>6
<1>7. NSlots - 1 \in S
  <2>1. \A m \in 0 .. NSlots - 1 : m \in S
    BY ONLY <1>3, <1>5, <1>6, UpTo
  <2>2. QED BY <1>3, <2>1
<1>8. PICK more : InLine(f[NSlots - 1], more) /\ Explored(Seen(old, d, NSlots - 1), visited, more)
  BY <1>7
<1>9. Explored(visited \X Slots, visited, more)
  <2>1. \A p, t : <<p, t>> \in visited \X Slots <=> (p \in old /\ t \in Slots) \/ (p = d /\ t \in Slots)
    BY <1>1
  <2>2. NSlots - 1 \in Slots
    BY <1>3
  <2>3. \A p, t : <<p, t>> \in Seen(old, d, NSlots - 1) <=>
                    (p \in old /\ t \in Slots) \/ (p = d /\ t \in 0 .. NSlots - 1)
    <3>1. PICK last \in Slots : last = NSlots - 1
      BY <2>2
    <3>2. \A p, t : <<p, t>> \in Seen(old, d, last) <=>
                      (p \in old /\ t \in Slots) \/ (p = d /\ t \in 0 .. last)
      BY SeenIs
    <3>3. QED BY ONLY <3>1, <3>2, Zenon
  <2>4. \A p, t : <<p, t>> \in visited \X Slots <=> <<p, t>> \in Seen(old, d, NSlots - 1)
    BY <1>3, <2>1, <2>3, Zenon
  <2>5. QED BY <1>8, <2>4, SeenTheSame
<1>10. QED BY <1>1, <1>2, <1>8, <1>9

\* The shell is still in the first slot of the root.
Seat(table) == table[1].used /\ ~table[1].dir /\ table[1].name = ShellName

\* A user who does not name the shell.
ShellStays == ShellName \notin UserNames

\* The entries of that name in these directories.
Named(name, D) ==
  {p \in D \X (Slots \ {0}) : LET e == store[p[1]].table[p[2]] IN e.used /\ e.name = name}

\* How far find has come: it has visited as many directories as it has gone
\* round, or has come to an end.
Searching(search, name, n) ==
  \E line :
    /\ InLine(search.queue, line)
    /\ Explored(search.visited \X Slots, search.visited, line)
    /\ search.first <=> search.visited = {}
    /\ search.visited = {} \/ Root \in search.visited
    /\ search.found = Named(name, search.visited)
    /\ line = <<>> \/ Cardinality(search.visited) = n

FindStart ==
  [queue |-> Enqueue(NoQueue, [cluster |-> Root, parent |-> Root, name |-> RootName]),
   first |-> TRUE, visited |-> {}, found |-> {}]

LEMMA FindBegins ==
  ASSUME NEW sure \in BOOLEAN, Prompted(sure), Grounds, NEW name
  PROVE  Searching(FindStart, name, 0)
<1>1. PICK item : item = [cluster |-> Root, parent |-> Root, name |-> RootName]
  OBVIOUS
<1>2. Root \in Directories
  BY DirectoriesNow
<1>3. item \in Items /\ item.cluster = Root /\ item.parent = Root /\ item.name = RootName
  BY <1>1, <1>2 DEF Items
<1>4. PICK line : line = <<item>>
  OBVIOUS
<1>5. /\ line \in Seq(Items) /\ Len(line) = 1 /\ line[1] = item /\ line = Append(<<>>, item)
      /\ \A k \in 1 .. Len(line) : k = 1
  BY <1>3, <1>4
<1>6. InLine(Enqueue(NoQueue, item), line)
  <2>1. <<>> \in Seq(Items) /\ Len(<<>>) = 0 /\ 0 < MaxQueue
    BY ShellAssumption
  <2>2. QED BY <1>3, <1>5, <2>1, NobodyInLine, LineGrows
<1>7. DirectoryFound(Root, RootName)
  BY <1>2, Constants, FoundByName DEF Grounds
<1>8. Awaited(line) = {Root} /\ Single(line)
  <2>1. 1 \in 1 .. Len(line)
    BY <1>5
  <2>2. QED BY <1>3, <1>5, <2>1 DEF Awaited, Single
<1>9. Explored({} \X Slots, {}, line)
  <2>1. \A k \in 1 .. Len(line) : DirectoryFound(line[k].parent, line[k].name)
    BY <1>3, <1>5, <1>7
  <2>2. \A p, t : <<p, t>> \notin {} \X Slots
    OBVIOUS
  <2>3. QED BY <1>5, <1>8, <2>1, <2>2 DEF Explored
<1>10. PICK start : start = FindStart
  OBVIOUS
<1>11. start.queue = Enqueue(NoQueue, item) /\ start.first /\ start.visited = {} /\ start.found = {}
  BY <1>1, <1>10 DEF FindStart
<1>12. Cardinality({}) = 0
  BY FS_EmptySet
<1>13. Named(name, {}) = {}
  BY DEF Named
<1>14. Searching(start, name, 0)
  BY <1>6, <1>9, <1>11, <1>12, <1>13 DEF Searching
<1>15. QED BY <1>10, <1>14

\* What find lists of a directory are its entries, but for the seat.
LEMMA ListedAre ==
  ASSUME NEW sure \in BOOLEAN, Prompted(sure), Seat(store[Root].table), NEW d \in Directories,
         NEW first \in BOOLEAN, first => d = Root, NEW name, name # ShellName, NEW s \in Slots,
         NEW listed, listed = {x \in UsedSlots(store[d].table) : x >= FirstListed(first)}
  PROVE  /\ FolderAt(d, s) <=> s \in listed /\ store[d].table[s].dir
         /\ InUse(store, d, s) /\ store[d].table[s].name = name
            <=> s \in listed /\ store[d].table[s].name = name
         /\ s \in listed => s # 0
<1>1. listed = {x \in UsedSlots(store[d].table) : x >= FirstListed(first)}
  OBVIOUS
<1>2. s \in Nat
  BY Constants
<1>3. s \in listed <=> store[d].table[s].used /\ s # 0 /\ ~(first /\ s = 1)
  BY <1>1, <1>2 DEF UsedSlots, FirstListed
<1>4. first /\ s = 1 =>
        ~store[d].table[s].dir /\ store[d].table[s].name # name
  BY DEF Seat
<1>5. InUse(store, d, s) <=> store[d].table[s].used /\ s # 0
  BY DEF InUse
<1>6. QED BY <1>1, <1>3, <1>4, <1>5, Zenon DEF FolderAt

\* The directory that comes next is one that find has not visited.
LEMMA NextInLine ==
  ASSUME NEW visited, NEW line, Explored(visited \X Slots, visited, line), line # <<>>,
         visited = {} \/ Root \in visited
  PROVE  /\ line[1].cluster \in Directories \ visited
         /\ DirectoryFound(line[1].parent, line[1].name)
         /\ visited = {} <=> line[1].cluster = Root
         /\ Explored(visited \X Slots, visited \cup {line[1].cluster}, Tail(line))
         /\ Tail(line) \in Seq(Items)
<1>1. line \in Seq(Items) /\ Single(line) /\ Awaited(line) \cap visited = {} /\ visited \subseteq Directories
  BY DEF Explored
<1>2. PICK rest, d : rest = Tail(line) /\ d = line[1].cluster
  OBVIOUS
<1>3. /\ Awaited(rest) = Awaited(line) \ {d} /\ d \in Awaited(line)
      /\ Single(rest) /\ rest \in Seq(Items) /\ Len(rest) = Len(line) - 1 /\ Len(line) >= 1
      /\ \A k \in 1 .. Len(rest) : rest[k] = line[k + 1] /\ k + 1 \in 1 .. Len(line)
  BY <1>1, <1>2, OneLessAwaited
<1>4. 1 \in 1 .. Len(line) /\ line[1] \in Items
  BY <1>1, <1>3
<1>5. d \in Directories \ visited
  BY <1>1, <1>2, <1>3, <1>4 DEF Items
<1>6. \A k \in 1 .. Len(line) : DirectoryFound(line[k].parent, line[k].name)
  BY DEF Explored
<1>7. visited = {} => d = Root
  <2>1. ASSUME visited = {} PROVE d = Root
    <3>1. \A p, t : <<p, t>> \notin visited \X Slots
      BY <2>1
    <3>2. QED BY <1>3, <3>1 DEF Explored
  <2>2. QED BY <2>1
<1>8. (visited \cup {d}) \cup Awaited(rest) = visited \cup Awaited(line)
  BY <1>3
<1>9. Explored(visited \X Slots, visited \cup {d}, rest)
  <2>1. visited \cup {d} \subseteq Directories
    BY <1>1, <1>5
  <2>2. \A k \in 1 .. Len(rest) : DirectoryFound(rest[k].parent, rest[k].name)
    BY <1>3, <1>6
  <2>3. Awaited(rest) \cap (visited \cup {d}) = {}
    BY <1>1, <1>3
  <2>4. \A c : c \in (visited \cup {d}) \cup Awaited(rest) <=>
          \/ c = Root
          \/ \E p \in Directories, s \in Slots :
               <<p, s>> \in visited \X Slots /\ FolderAt(p, s) /\ store[p].table[s].cluster = c
    BY <1>8 DEF Explored
  <2>5. QED BY <1>3, <2>1, <2>2, <2>3, <2>4 DEF Explored
<1>10. QED BY <1>2, <1>3, <1>4, <1>5, <1>6, <1>7, <1>9

LEMMA VisitStep ==
  ASSUME NEW sure \in BOOLEAN, Prompted(sure), Seat(store[Root].table), PrefixOf = {},
         Cardinality(Directories) <= MaxQueue + 1,
         NEW name, name # ShellName, NEW search, NEW n \in Nat,
         Searching(search, name, n), ~IsEmpty(search.queue)
  PROVE  Searching(Visit(search, name), name, n + 1)
<1>1. PICK line :
        /\ InLine(search.queue, line)
        /\ Explored(search.visited \X Slots, search.visited, line)
        /\ search.first <=> search.visited = {}
        /\ search.visited = {} \/ Root \in search.visited
        /\ search.found = Named(name, search.visited)
        /\ line = <<>> \/ Cardinality(search.visited) = n
  BY DEF Searching
<1>2. PICK visited : visited = search.visited
  OBVIOUS
<1>3. line # <<>> /\ line \in Seq(Items) /\ Cardinality(visited) = n
  BY <1>1, <1>2, LineEnds DEF Explored
<1>4. PICK item, d : item = line[1] /\ d = item.cluster
  OBVIOUS
<1>5. /\ d \in Directories \ visited /\ DirectoryFound(item.parent, item.name)
      /\ visited = {} <=> d = Root
      /\ Explored(visited \X Slots, visited \cup {d}, Tail(line)) /\ Tail(line) \in Seq(Items)
  BY <1>1, <1>2, <1>3, <1>4, NextInLine
<1>6. InLine(Dequeue(search.queue), Tail(line)) /\ search.queue.items[search.queue.front] = item
  BY <1>1, <1>3, <1>4, LineMoves
<1>7. PICK first \in BOOLEAN : first <=> search.first
  OBVIOUS
<1>8. PICK listed : listed = {x \in UsedSlots(store[d].table) : x >= FirstListed(first)}
  OBVIOUS
<1>9. \A s \in Slots :
        /\ FolderAt(d, s) <=> s \in listed /\ store[d].table[s].dir
        /\ InUse(store, d, s) /\ store[d].table[s].name = name
           <=> s \in listed /\ store[d].table[s].name = name
        /\ s \in listed => s # 0
  <2>1. first => d = Root
    BY <1>1, <1>2, <1>5, <1>7
  <2>2. ASSUME NEW s \in Slots
        PROVE  /\ FolderAt(d, s) <=> s \in listed /\ store[d].table[s].dir
               /\ InUse(store, d, s) /\ store[d].table[s].name = name
                  <=> s \in listed /\ store[d].table[s].name = name
               /\ s \in listed => s # 0
    <3>1. d \in Directories
      BY <1>5
    <3>2. QED BY <1>8, <2>1, <3>1, ListedAre
  <2>3. QED BY <2>2
<1>10. listed \subseteq Slots
  BY <1>8 DEF UsedSlots
<1>11. PICK next : next = Visit(search, name)
  OBVIOUS
<1>12. /\ next.queue = Joined(Dequeue(search.queue), d, listed)
       /\ next.first = FALSE /\ next.visited = visited \cup {d}
       /\ next.found = search.found \cup
            {<<d, s>> : s \in {x \in listed : Matches(store[d].table[x].name, name)}}
  <2>1. FirstListed(first) = FirstListed(search.first)
    BY <1>7 DEF FirstListed
  <2>2. listed = {x \in UsedSlots(store[d].table) : x >= FirstListed(search.first)}
    BY <1>8, <2>1
  <2>3. QED BY <1>2, <1>4, <1>5, <1>6, <1>11, <2>2 DEF Visit
<1>13. PICK more : /\ InLine(next.queue, more)
                   /\ Explored((visited \cup {d}) \X Slots, visited \cup {d}, more)
  <2>1. Root \in visited \cup {d}
    BY <1>1, <1>2, <1>5
  <2>2. \A s \in Slots : FolderAt(d, s) <=> s \in listed /\ store[d].table[s].dir
    BY <1>9
  <2>3. PICK queue, rest : queue = Dequeue(search.queue) /\ rest = Tail(line)
    OBVIOUS
  <2>4. InLine(queue, rest) /\ Explored(visited \X Slots, visited \cup {d}, rest)
    BY <1>5, <1>6, <2>3
  <2>5. \E more : /\ InLine(Joined(queue, d, listed), more)
                  /\ Explored((visited \cup {d}) \X Slots, visited \cup {d}, more)
    BY <1>5, <2>1, <2>2, <2>4, FoldersJoin
  <2>6. QED BY <1>12, <2>3, <2>5
<1>14. next.found = Named(name, visited \cup {d})
  <2>1. ASSUME NEW s PROVE s \in listed /\ Matches(store[d].table[s].name, name)
                           <=> s \in Slots \ {0} /\ store[d].table[s].used /\ store[d].table[s].name = name
    BY <1>9, <1>10 DEF Matches, InUse
  <2>2. {x \in listed : Matches(store[d].table[x].name, name)} =
          {s \in Slots \ {0} : store[d].table[s].used /\ store[d].table[s].name = name}
    BY <2>1
  <2>3. Named(name, visited \cup {d}) = Named(name, visited) \cup
          {<<d, s>> : s \in {x \in Slots \ {0} : store[d].table[x].used /\ store[d].table[x].name = name}}
    BY DEF Named
  <2>4. QED BY <1>1, <1>2, <1>12, <2>2, <2>3
<1>15. Cardinality(visited \cup {d}) = n + 1
  <2>1. IsFiniteSet(visited)
    BY <1>1, <1>2, DirectoriesFinite, FS_Subset DEF Explored
  <2>2. QED BY <1>3, <1>5, <2>1, FS_AddElement
<1>16. Root \in visited \cup {d} /\ visited \cup {d} # {}
  BY <1>1, <1>2, <1>5
<1>17. Searching(next, name, n + 1)
  BY <1>12, <1>13, <1>14, <1>15, <1>16 DEF Searching
<1>18. QED BY <1>11, <1>17

\* Once find has come to an end it has visited every directory.
LEMMA FindEnds ==
  ASSUME NEW search, NEW name, Searching(search, name, NClusters)
  PROVE  IsEmpty(search.queue) /\ search.visited = Directories /\ search.found = Named(name, Directories)
<1>1. PICK line :
        /\ InLine(search.queue, line)
        /\ Explored(search.visited \X Slots, search.visited, line)
        /\ search.found = Named(name, search.visited)
        /\ line = <<>> \/ Cardinality(search.visited) = NClusters
  BY DEF Searching
<1>2. PICK visited : visited = search.visited
  OBVIOUS
<1>3. visited \subseteq Directories /\ visited \subseteq Clusters
  BY <1>1, <1>2, DirectoriesNow DEF Explored
<1>4. Cardinality(visited) <= NClusters - 2 /\ NClusters \in Nat
  BY <1>3, DirectoriesFinite, FS_Subset, Fat32Assumption
<1>5. line = <<>>
  <2>1. Cardinality(visited) \in Nat
    BY <1>3, DirectoriesFinite, FS_Subset, FS_CardinalityType
  <2>2. QED BY <1>1, <1>2, <1>4, <2>1
<1>6. Awaited(line) = {}
  BY <1>5 DEF Awaited
<1>7. \A c : c \in visited <=>
        \/ c = Root
        \/ \E d \in Directories, s \in Slots :
             <<d, s>> \in visited \X Slots /\ FolderAt(d, s) /\ store[d].table[s].cluster = c
  <2>1. \A c : c \in visited <=> c \in visited \cup Awaited(line)
    BY <1>6
  <2>2. Explored(visited \X Slots, visited, line)
    BY <1>1, <1>2
  <2>3. QED BY <2>1, <2>2, Zenon DEF Explored
<1>8. Closed(store, visited)
  <2>1. SUFFICES ASSUME NEW d \in visited, NEW c \in Clusters, Child(store, d, c) PROVE c \in visited
    BY DEF Closed
  <2>2. PICK s \in Slots : FolderAt(d, s) /\ store[d].table[s].cluster = c
    BY <2>1 DEF Child, FolderAt
  <2>3. QED BY <1>3, <1>7, <2>2
<1>9. Directories \subseteq visited
  BY <1>3, <1>7, <1>8, DirectoriesNow DEF Reached
<1>10. visited = Directories
  BY <1>3, <1>9
<1>11. QED BY <1>1, <1>2, <1>5, <1>10, LineEnds

\* The rounds of find.
Rounds(f, name, n) ==
  f = [k \in 0 .. n |->
         IF k = 0 THEN FindStart
         ELSE IF IsEmpty(f[k - 1].queue) THEN f[k - 1] ELSE Visit(f[k - 1], name)]

LEMMA RoundsExist ==
  ASSUME NEW name, NEW n \in Nat
  PROVE  \E f : Rounds(f, name, n)
<1> DEFINE Bad == {k \in Nat : ~ \E f : Rounds(f, name, k)}
<1>1. SUFFICES ASSUME Bad # {} PROVE FALSE
  OBVIOUS
<1>2. PICK m \in Bad : \A k \in Bad : m <= k
  BY <1>1, LeastNumber
<1>3. m # 0
  <2>1. Rounds([k \in 0 .. 0 |-> FindStart], name, 0)
    BY DEF Rounds
  <2>2. QED BY <2>1
<1>4. m - 1 \in Nat /\ m - 1 \notin Bad
  BY <1>2, <1>3
<1>5. PICK f : Rounds(f, name, m - 1)
  BY <1>4
<1> DEFINE Going(search) == IF IsEmpty(search.queue) THEN search ELSE Visit(search, name)
<1> DEFINE g == [k \in 0 .. m |-> IF k < m THEN f[k] ELSE Going(f[m - 1])]
<1>6. ASSUME NEW k \in 0 .. m - 1
      PROVE  f[k] = IF k = 0 THEN FindStart ELSE Going(f[k - 1])
  BY <1>5 DEF Rounds
<1> HIDE DEF Going
<1>7. ASSUME NEW k \in 0 .. m
      PROVE  g[k] = IF k = 0 THEN FindStart ELSE Going(g[k - 1])
  <2>1. CASE k = m
    BY <1>3, <2>1
  <2>2. CASE k < m
    <3>1. k \in 0 .. m - 1 /\ g[k] = f[k] /\ (k # 0 => g[k - 1] = f[k - 1])
      BY <2>2
    <3>2. QED BY <1>6, <3>1
  <2>3. QED BY <2>1, <2>2
<1>8. g = [k \in 0 .. m |-> IF k = 0 THEN FindStart ELSE Going(g[k - 1])]
  BY <1>7
<1>9. Rounds(g, name, m)
  BY <1>8 DEF Rounds, Going
<1>10. QED BY <1>9

LEMMA FindIs ==
  ASSUME NEW name
  PROVE  \E f : Rounds(f, name, NClusters) /\ Find(name) = f[NClusters]
<1> DEFINE after == CHOOSE f : Rounds(f, name, NClusters)
<1>1. Rounds(after, name, NClusters)
  BY RoundsExist, Constants
<1>2. Find(name) = after[NClusters]
  BY DEF Find, Rounds, FindStart
<1>3. QED BY <1>1, <1>2

\* On a disk at rest find sees it all.
LEMMA FindsAll ==
  ASSUME NEW sure \in BOOLEAN, Prompted(sure), Grounds, Seat(store[Root].table), PrefixOf = {},
         Cardinality(Directories) <= MaxQueue + 1, NEW name, name # ShellName
  PROVE  /\ IsEmpty(Find(name).queue) /\ Find(name).visited = Directories
         /\ Find(name).found = Named(name, Directories)
<1>1. PICK f : Rounds(f, name, NClusters) /\ Find(name) = f[NClusters]
  BY FindIs
<1>2. NClusters \in Nat
  BY Fat32Assumption
<1>3. \A k \in 0 .. NClusters :
        f[k] = IF k = 0 THEN FindStart
               ELSE IF IsEmpty(f[k - 1].queue) THEN f[k - 1] ELSE Visit(f[k - 1], name)
  BY <1>1 DEF Rounds
<1> DEFINE S == {k \in 0 .. NClusters : Searching(f[k], name, k)}
<1>4. 0 \in S
  <2>1. f[0] = FindStart /\ 0 \in 0 .. NClusters
    BY <1>2, <1>3
  <2>2. QED BY <2>1, FindBegins
<1>5. ASSUME NEW m \in 0 .. NClusters - 1, m \in S
      PROVE  m + 1 \in S
  <2>1. m + 1 \in 0 .. NClusters /\ m + 1 # 0 /\ (m + 1) - 1 = m /\ m \in Nat
    BY <1>2
  <2>2. Searching(f[m], name, m)
    BY <1>5
  <2>3. CASE IsEmpty(f[m].queue)
    <3>1. f[m + 1] = f[m]
      BY <1>3, <2>1, <2>3
    <3>2. Searching(f[m], name, m + 1)
      BY <2>2, <2>3, LineEnds DEF Searching
    <3>3. QED BY <2>1, <3>1, <3>2
  <2>4. CASE ~IsEmpty(f[m].queue)
    <3>1. f[m + 1] = Visit(f[m], name)
      BY <1>3, <2>1, <2>4
    <3>2. Searching(Visit(f[m], name), name, m + 1)
      BY <2>1, <2>2, <2>4, VisitStep
    <3>3. QED BY <2>1, <3>1, <3>2
  <2>5. QED BY <2>3, <2>4
<1>6. NClusters \in S
  <2>1. \A m \in 0 .. NClusters : m \in S
    BY ONLY <1>2, <1>4, <1>5, UpTo
  <2>2. QED BY <1>2, <2>1
<1>7. QED BY <1>1, <1>6, FindEnds

LEMMA InvFindComplete ==
  ASSUME ShellInv, Seat(store[Root].table), PrefixOf = {}, ShellStays
  PROVE  FindComplete
<1>1. SUFFICES ASSUME AtPrompt, Cardinality(Directories) <= MaxQueue + 1, NEW name \in UserNames
               PROVE  /\ IsEmpty(Find(name).queue) /\ Find(name).visited = Directories
                      /\ Find(name).found = Named(name, Directories)
  BY DEF FindComplete, Named
<1>2. PICK sure \in BOOLEAN : Resting(sure) \/ Underway(sure)
  BY DEF ShellInv
<1>3. Prompted(sure)
  <2>1. job = NoJob /\ mode = "idle"
    BY <1>1 DEF AtPrompt
  <2>2. CASE Resting(sure)
    BY <2>1, <2>2 DEF Resting, Prompted
  <2>3. CASE Underway(sure)
    BY <1>2, <2>1, <2>3, UnderwayIs
  <2>4. QED BY <1>2, <2>2, <2>3
<1>4. name # ShellName
  BY DEF ShellStays
<1>5. QED BY <1>1, <1>3, <1>4, FindsAll DEF ShellInv

-----------------------------------------------------------------------------
(* The seat of the shell.                                                  *)

\* These writes leave it as it is.
SeatSpared(writes) ==
  \A i \in 1 .. Len(writes) : writes[i].to = Root => Seat(writes[i].what.table)

Seated == Seat(store[Root].table) /\ SeatSpared(pending)

\* The writes that are left of a call.
InSequence(writes) == \E S : writes \in Seq(S) /\ Len(writes) >= 1

LEMMA OneInSequence ==
  ASSUME NEW w
  PROVE  InSequence(<<w>>)
<1>1. PICK S : S = {w}
  OBVIOUS
<1>2. w \in S
  BY <1>1
<1>3. <<w>> \in Seq(S) /\ Len(<<w>>) >= 1
  BY <1>2
<1>4. QED BY <1>3 DEF InSequence

LEMMA OneWrite ==
  ASSUME NEW to, NEW what, to = Root => Seat(what.table)
  PROVE  SeatSpared(<<WriteOf(to, what)>>) /\ InSequence(<<WriteOf(to, what)>>)
<1>1. PICK w : w = WriteOf(to, what)
  OBVIOUS
<1>2. w.to = to /\ w.what = what
  BY <1>1 DEF WriteOf
<1>3. Len(<<w>>) = 1 /\ <<w>>[1] = w
  OBVIOUS
<1>4. \A i \in 1 .. Len(<<w>>) : i = 1
  BY <1>3
<1>5. SeatSpared(<<w>>)
  BY <1>2, <1>3, <1>4 DEF SeatSpared
<1>6. QED BY <1>1, <1>5, OneInSequence

LEMMA IssuedInSequence ==
  ASSUME NEW chain \in Seq(Clusters), NEW what, NEW map, NEW parent, NEW table,
         NEW done \in 0 .. Len(chain) + 1, NEW writes,
         writes = Rest(Issued(chain, what, map, parent, table), Len(chain) + 2, done)
  PROVE  InSequence(writes) /\ Len(writes) = Len(chain) + 2 - done
<1>1. PICK n, all : n = Len(chain) + 2 /\ all = Issued(chain, what, map, parent, table)
  OBVIOUS
<1>2. n \in Nat /\ done \in 0 .. n /\ n - done >= 1
  BY <1>1
<1>3. PICK S : \A k \in 1 .. n : all[k] \in S
  <2>1. \A k \in 1 .. n : all[k] \in {all[i] : i \in 1 .. n}
    OBVIOUS
  <2>2. QED BY <2>1
<1>4. writes = Rest(all, n, done)
  BY <1>1
<1>5. writes \in Seq(S) /\ Len(writes) = n - done
  BY ONLY <1>2, <1>3, <1>4, RestIsSeq
<1>6. QED BY <1>1, <1>2, <1>5 DEF InSequence

\* The writes of a write() and a delete() spare it if the last one does.
LEMMA IssuedSpare ==
  ASSUME NEW chain \in Seq(Clusters), Root \notin ToSet(chain), NEW what, NEW map, NEW parent, NEW table,
         parent = Root => Seat(table), NEW done \in 0 .. Len(chain) + 1, NEW writes,
         writes = Rest(Issued(chain, what, map, parent, table), Len(chain) + 2, done)
  PROVE  SeatSpared(writes) /\ InSequence(writes)
<1>1. PICK n, all : n = Len(chain) /\ all = Issued(chain, what, map, parent, table)
  OBVIOUS
<1>2. /\ n \in Nat
      /\ \A k \in 1 .. n : all[k] = WriteOf(chain[k], what[k])
      /\ \A k \in 1 .. n + 2 : k = n + 1 => all[k] = WriteOf(FatNumber, map)
      /\ \A k \in 1 .. n + 2 : k = n + 2 => all[k] = WriteOf(parent, TableCluster(table))
  <2>1. n = Len(chain)
    BY <1>1
  <2>2. LET w == Issued(chain, what, map, parent, table)
        IN  /\ n \in Nat
            /\ \A k \in 1 .. n : w[k] = WriteOf(chain[k], what[k])
            /\ \A k \in 1 .. n + 2 : k = n + 1 => w[k] = WriteOf(FatNumber, map)
            /\ \A k \in 1 .. n + 2 : k = n + 2 => w[k] = WriteOf(parent, TableCluster(table))
    BY <2>1, IssuedIs
  <2>3. QED BY <1>1, <2>2
<1>3. \A k \in 1 .. n : chain[k] # Root
  BY <1>1 DEF ToSet
<1>4. FatNumber # Root
  BY DEF FatNumber, Root
<1>5. ASSUME NEW k \in 1 .. n + 2, all[k].to = Root
      PROVE  Seat(all[k].what.table)
  <2>1. CASE k \in 1 .. n
    <3>1. all[k] = WriteOf(chain[k], what[k]) /\ chain[k] # Root
      BY <1>2, <1>3, <2>1
    <3>2. all[k].to = chain[k]
      BY <3>1 DEF WriteOf
    <3>3. QED BY <1>5, <3>1, <3>2
  <2>2. CASE k = n + 1
    BY <1>2, <1>4, <1>5, <2>2 DEF WriteOf
  <2>3. CASE k = n + 2
    <3>1. all[k].to = parent /\ all[k].what.table = table
      BY <1>2, <2>3 DEF WriteOf, TableCluster
    <3>2. QED BY <1>5, <3>1
  <2>4. QED BY <1>2, <2>1, <2>2, <2>3
<1>6. InSequence(writes) /\ Len(writes) = Len(chain) + 2 - done
  BY IssuedInSequence
<1>7. n + 2 \in Nat /\ done \in 0 .. n + 2
  BY <1>1, <1>2
<1>8. Len(writes) = (n + 2) - done
  BY <1>1, <1>6
<1>9. ASSUME NEW i \in 1 .. Len(writes)
      PROVE  writes[i] = all[done + i] /\ done + i \in 1 .. n + 2
  BY <1>1, <1>2, <1>7, <1>8 DEF Rest
<1>10. SeatSpared(writes)
  BY <1>5, <1>9 DEF SeatSpared
<1>11. QED BY <1>6, <1>10

\* An entry that joins a directory, or one that leaves it under another name.
LEMMA SeatKept ==
  ASSUME NEW table \in [Slots -> Entry], Seat(table)
  PROVE  /\ \A e : Seat(WithEntry(table, e))
         /\ \A s \in Slots \ {1} : \A e : Seat([table EXCEPT ![s] = e])
         /\ \A s \in Slots : table[s].name # ShellName => s # 1
         /\ Slots \ UsedSlots(table) # {} => Least(Slots \ UsedSlots(table)) \in Slots \ {1}
<1>1. 1 \in UsedSlots(table) /\ DOMAIN table = Slots /\ 1 \in Slots /\ Slots \subseteq Nat
  BY Constants DEF Seat, UsedSlots
<1>2. \A s \in Slots \ {1} : \A e : Seat([table EXCEPT ![s] = e])
  BY <1>1 DEF Seat
<1>3. Slots \ UsedSlots(table) # {} => Least(Slots \ UsedSlots(table)) \in Slots \ {1}
  BY <1>1, LeastIs
<1>4. \A e : Seat(WithEntry(table, e))
  <2>1. UsedSlots(table) # Slots => Slots \ UsedSlots(table) # {}
    BY DEF UsedSlots
  <2>2. QED BY <1>2, <1>3, <2>1 DEF WithEntry
<1>5. QED BY <1>2, <1>3, <1>4 DEF Seat

\* What the disk is at when the shell's invariant holds.
LEMMA JobOfDriver ==
  ShellInv =>
    /\ StoreOK(store)
    /\ mode \in {"off", "idle", "write", "delete", "raw"}
    /\ mode = "write" => \E parent, e, chain, what, done :
                           WriteJob(FALSE, FALSE, parent, e, chain, what, done)
    /\ mode = "delete" => \E parent, slot, e, chain, done :
                            DeleteJob(FALSE, FALSE, parent, slot, e, chain, done)
    /\ mode = "raw" => \E to, what : pending = <<WriteOf(to, what)>>
<1> SUFFICES ASSUME ShellInv
             PROVE  /\ StoreOK(store)
                    /\ mode \in {"off", "idle", "write", "delete", "raw"}
                    /\ mode = "write" => \E parent, e, chain, what, done :
                                           WriteJob(FALSE, FALSE, parent, e, chain, what, done)
                    /\ mode = "delete" => \E parent, slot, e, chain, done :
                                            DeleteJob(FALSE, FALSE, parent, slot, e, chain, done)
                    /\ mode = "raw" => \E to, what : pending = <<WriteOf(to, what)>>
  OBVIOUS
<1>1. PICK sure \in BOOLEAN : Resting(sure) \/ Underway(sure)
  BY DEF ShellInv
<1>2. CASE Resting(sure)
  BY <1>2 DEF Resting, Fat32Inv, Base
<1>3. CASE Underway(sure)
  <2>1. /\ mode \in {"idle", "write", "delete", "raw"}
        /\ mode # "raw" => Fat32Inv(FALSE, FALSE)
        /\ mode = "raw" => AtRest(FALSE)
    BY <1>3, UnderwayIs
  <2>2. CASE mode # "raw"
    BY <2>1, <2>2 DEF Fat32Inv, Base
  <2>3. CASE mode = "raw"
    <3>1. PICK before, goal, named : Stage(sure, before, goal, named)
      BY <1>3 DEF Underway
    <3>2. Erasing(sure, before, goal, named) \/ Settling(sure, before, goal, named)
      BY <2>3, <3>1, StageKinds DEF Busied
    <3>3. \E to, what : pending = <<WriteOf(to, what)>>
      BY <3>2 DEF Erasing, Settling
    <3>4. QED BY <2>1, <2>3, <3>3 DEF AtRest, Base
  <2>4. QED BY <2>2, <2>3
<1>4. QED BY <1>1, <1>2, <1>3

\* The driver's calls and the disk spare the seat.
LEMMA JobSpares ==
  ShellInv /\ Seat(store[Root].table) =>
    /\ mode = "write" => SeatSpared(pending)
    /\ mode \in {"write", "delete", "raw"} => InSequence(pending)
<1> SUFFICES ASSUME ShellInv, Seat(store[Root].table)
             PROVE  /\ mode = "write" => SeatSpared(pending)
                    /\ mode \in {"write", "delete", "raw"} => InSequence(pending)
  OBVIOUS
<1>1. CASE mode = "write"
  <2>1. PICK parent, e, chain, what, done : WriteJob(FALSE, FALSE, parent, e, chain, what, done)
    BY <1>1, JobOfDriver
  <2>2. /\ chain \in Seq(Clusters) /\ done \in 0 .. Len(chain) + 1 /\ ToSet(chain) \cap Directories = {}
        /\ pending = Rest(Issued(chain, what, fat, parent, WithEntry(store[parent].table, e)),
                          Len(chain) + 2, done)
    BY <2>1 DEF WriteJob, Links
  <2>3. Root \notin ToSet(chain) /\ Root \in Clusters
    BY <2>2, DirectoriesNow
  <2>4. store[Root].table \in [Slots -> Entry]
    BY <2>3, JobOfDriver DEF StoreOK
  <2>5. PICK table : table = WithEntry(store[parent].table, e)
    OBVIOUS
  <2>6. parent = Root => Seat(table)
    BY <2>4, <2>5, SeatKept
  <2>7. SeatSpared(pending) /\ InSequence(pending)
    BY <2>2, <2>3, <2>5, <2>6, IssuedSpare
  <2>8. QED BY <2>7
<1>2. CASE mode = "delete"
  <2>1. PICK parent, slot, e, chain, done : DeleteJob(FALSE, FALSE, parent, slot, e, chain, done)
    BY <1>2, JobOfDriver
  <2>2. PICK what, table :
          /\ chain \in Seq(Clusters) /\ done \in 0 .. Len(chain) + 1
          /\ pending = Rest(Issued(chain, what, fat, parent, table), Len(chain) + 2, done)
    BY <2>1 DEF DeleteJob
  <2>3. InSequence(pending)
    BY <2>2, IssuedInSequence
  <2>4. QED BY <1>2, <2>3
<1>3. CASE mode = "raw"
  <2>1. PICK to, what : pending = <<WriteOf(to, what)>>
    BY <1>3, JobOfDriver
  <2>2. InSequence(<<WriteOf(to, what)>>)
    BY OneInSequence
  <2>3. QED BY <1>3, <2>1, <2>2
<1>4. QED BY <1>1, <1>2, <1>3

LEMMA DiskSpares ==
  ASSUME StoreOK(store), Seated, InSequence(pending), DiskWrite
  PROVE  Seated'
<1>1. PICK S : pending \in Seq(S) /\ Len(pending) >= 1
  BY DEF InSequence
<1>2. PICK w : w = Head(pending)
  OBVIOUS
<1>3. w = pending[1] /\ 1 \in 1 .. Len(pending)
  BY <1>1, <1>2
<1>4. /\ store' = IF w.to \in Clusters THEN [store EXCEPT ![w.to] = w.what] ELSE store
      /\ pending' = IF w.to = Beyond THEN <<>> ELSE Tail(pending)
  BY <1>2 DEF DiskWrite
<1>5. Root \in Clusters /\ DOMAIN store = Clusters
  BY Constants DEF StoreOK
<1>6. Seat(store'[Root].table)
  <2>1. store'[Root] = IF w.to = Root THEN w.what ELSE store[Root]
    BY <1>4, <1>5
  <2>2. w.to = Root => Seat(w.what.table)
    BY <1>3 DEF Seated, SeatSpared
  <2>3. QED BY <2>1, <2>2 DEF Seated
<1>7. SeatSpared(pending')
  <2>1. CASE w.to = Beyond
    <3>1. pending' = <<>> /\ Len(<<>>) = 0
      BY <1>4, <2>1
    <3>2. \A i \in 1 .. Len(pending') : FALSE
      BY <3>1
    <3>3. QED BY <3>2 DEF SeatSpared
  <2>2. CASE w.to # Beyond
    <3>1. pending' = Tail(pending)
      BY <1>4, <2>2
    <3>2. \A i \in 1 .. Len(pending') : pending'[i] = pending[i + 1] /\ i + 1 \in 1 .. Len(pending)
      BY <1>1, <3>1, HeadTailProperties
    <3>3. QED BY <3>2 DEF Seated, SeatSpared
  <2>3. QED BY <2>1, <2>2
<1>8. QED BY <1>6, <1>7 DEF Seated

LEMMA WriteSpares ==
  ASSUME Seated, ShellInv', NEW parent, NEW name, NEW blocks, Write(parent, name, blocks)
  PROVE  Seated'
<1>1. CASE UNCHANGED vars
  BY <1>1 DEF vars, Seated
<1>2. CASE mode' = "write" /\ store' = store
  <2>1. Seat(store'[Root].table)
    BY <1>2 DEF Seated
  <2>2. (ShellInv /\ Seat(store[Root].table) =>
           /\ mode = "write" => SeatSpared(pending)
           /\ mode \in {"write", "delete", "raw"} => InSequence(pending))'
    BY JobSpares, PTL
  <2>3. SeatSpared(pending')
    BY <1>2, <2>1, <2>2
  <2>4. QED BY <2>1, <2>3 DEF Seated
<1>3. QED BY <1>1, <1>2 DEF Write

LEMMA DeleteSpares ==
  ASSUME Assumed, ShellStays, Grounds, Seated, NEW sure \in BOOLEAN, Prompted(sure),
         NEW n \in Nat, n < Len(path), NEW name \in UserNames, MayGo(n, name), Delete(Depth(n), name)
  PROVE  Seated'
<1>1. PICK parent : parent = Depth(n)
  OBVIOUS
<1>2. name \in Names /\ name # ShellName
  BY ShellAssumption DEF ShellStays
<1>3. CASE UNCHANGED vars
  BY <1>3 DEF vars, Seated
<1>4. CASE store' = store /\ DeleteBegun(FALSE, sure, parent, name)'
  <2>1. PICK slot, e, chain : DeleteJob(FALSE, sure, parent, slot, e, chain, 0)' /\ e.name = name
    BY <1>4 DEF DeleteBegun
  <2>2. /\ slot \in Slots \ {0} /\ store'[parent].table[slot] = e
        /\ chain \in Seq(Clusters) /\ 0 \in 0 .. Len(chain) + 1
        /\ pending' = Rest(Issued(chain, [k \in 1 .. Len(chain) |-> ZeroCluster], fat', parent,
                                  WithoutEntry(store'[parent].table, slot)), Len(chain) + 2, 0)
    BY <2>1 DEF DeleteJob
  <2>3. Root \notin ToSet(chain)
    BY <2>1 DEF DeleteJob, Settled, Tree, Root
  <2>4. PICK table : table = WithoutEntry(store[parent].table, slot)
    OBVIOUS
  <2>5. parent = Root => Seat(table)
    <3>1. store[Root].table \in [Slots -> Entry] /\ Seat(store[Root].table)
      BY Constants DEF Prompted, Fat32Inv, Base, StoreOK, Seated
    <3>2. CASE parent = Root
      <4>1. slot # 1
        BY <1>2, <1>4, <2>1, <2>2, <3>1, <3>2 DEF Seat
      <4>2. QED BY <2>2, <2>4, <3>1, <3>2, <4>1, SeatKept DEF WithoutEntry
    <3>3. QED BY <3>2
  <2>6. PICK what, map : pending' = Rest(Issued(chain, what, map, parent, table), Len(chain) + 2, 0)
    BY <1>4, <2>2, <2>4
  <2>7. SeatSpared(pending')
    BY <2>2, <2>3, <2>5, <2>6, IssuedSpare
  <2>8. QED BY <1>4, <2>7 DEF Seated
<1>5. QED BY <1>1, <1>2, <1>3, <1>4, MayDelete

\* What mv takes away is not in the seat, and what it enters is not put there.
LEMMA MvEraseSpares ==
  ASSUME PrefixOf = {}, ShellStays, StoreOK(store), Seated, NEW n, NEW name \in UserNames, NEW dest,
         MayMove(name, n, dest), MvErase(name, n, dest, TRUE)
  PROVE  Seated'
<1>1. PICK found, c : found = SlotsMatching(store[Cwd].table, name) /\ c = Cwd
  OBVIOUS
<1>2. CASE UNCHANGED vars
  BY <1>2 DEF vars, Seated
<1>3. CASE Readable(0) /\ pending' = Erasures(c, found) /\ store' = store
  <2>1. PICK s \in Slots \ {0} : found = {s}
    <3>1. n < Len(path)
      BY DEF MvErase
    <3>2. QED BY <1>1, <1>3, <3>1 DEF MayMove
  <2>2. Cardinality(found) = 1
    BY <2>1, FS_Singleton
  <2>3. PICK writes : writes = Erasures(c, found)
    OBVIOUS
  <2>4. DOMAIN writes = 1 .. 1 /\ Len(writes) = 1
    BY <2>2, <2>3 DEF Erasures
  <2>5. ASSUME NEW k \in 1 .. 1, writes[k].to = Root
        PROVE  Seat(writes[k].what.table)
    <3>1. PICK gone : \A t \in Slots : t \in gone <=>
                        t \in found /\ Cardinality({r \in found : r < t}) < k
      <4>1. PICK gone : gone = {t \in Slots : t \in found /\ Cardinality({r \in found : r < t}) < k}
        OBVIOUS
      <4>2. QED BY <4>1
    <3>2. PICK table : table = [t \in Slots |->
                         IF t \in found /\ Cardinality({r \in found : r < t}) < k
                         THEN EmptyEntry ELSE store[c].table[t]]
      OBVIOUS
    <3>3. writes[k] = WriteOf(c, TableCluster(table))
      BY <2>2, <2>3, <3>2 DEF Erasures
    <3>4. writes[k].to = c /\ writes[k].what.table = table
      BY <3>3 DEF WriteOf, TableCluster
    <3>5. c = Root /\ Seat(store[c].table)
      BY <2>5, <3>4 DEF Seated
    <3>6. 1 \in Slots /\ 1 \notin found
      <4>1. store[c].table[1].name # name
        BY <3>5 DEF Seat, ShellStays
      <4>2. QED BY <1>1, <4>1, Constants DEF SlotsMatching, Matches
    <3>7. table[1] = store[c].table[1]
      BY <3>2, <3>6
    <3>8. QED BY <3>4, <3>5, <3>7 DEF Seat
  <2>6. SeatSpared(pending')
    BY <1>3, <2>3, <2>4, <2>5 DEF SeatSpared
  <2>7. QED BY <1>3, <2>6 DEF Seated
<1>4. QED BY <1>1, <1>2, <1>3 DEF MvErase

LEMMA NoWrites == SeatSpared(<<>>)
<1>1. \A i \in 1 .. Len(<<>>) : FALSE
  OBVIOUS
<1>2. QED BY <1>1 DEF SeatSpared

LEMMA MvEnterSpares ==
  ASSUME StoreOK(store), Seated, MvEnter
  PROVE  Seated'
<1>1. PICK d, free : d = Depth(job.up) /\ free = Slots \ UsedSlots(store[d].table)
  OBVIOUS
<1>2. store' = store
  BY DEF MvEnter
<1>3. CASE pending' = <<>>
  BY <1>2, <1>3, NoWrites DEF Seated
<1>4. ASSUME NEW table, NEW e, free # {}, table = [store[d].table EXCEPT ![Least(free)] = e],
             pending' = <<WriteOf(d, TableCluster(table))>>
      PROVE  Seated'
  <2>1. d = Root => Seat(table)
    <3>1. store[Root].table \in [Slots -> Entry] /\ Seat(store[Root].table)
      BY Constants DEF StoreOK, Seated
    <3>2. QED BY <1>1, <1>4, <3>1, SeatKept
  <2>2. TableCluster(table).table = table
    BY DEF TableCluster
  <2>3. SeatSpared(pending')
    BY <1>4, <2>1, <2>2, OneWrite
  <2>4. QED BY <1>2, <2>3 DEF Seated
<1>5. pending' # <<>> => \E e : /\ free # {}
                                /\ pending' = <<WriteOf(d, TableCluster([store[d].table EXCEPT ![Least(free)] = e]))>>
  BY <1>1 DEF MvEnter
<1>6. QED BY <1>3, <1>4, <1>5

LEMMA InitSeated ==
  ASSUME ShellInit
  PROVE  Seated
<1>1. PICK n : Placed(n)
  BY ProgramsPlaced
<1>2. 1 \in 1 .. n
  BY <1>1 DEF Placed
<1>3. Seat(InsertedRoot)
  <2>1. InsertedRoot[1] = ProgramEntry(1)
    BY <1>1, <1>2, InsertedIs
  <2>2. ProgramEntry(1).used /\ ~ProgramEntry(1).dir /\ ProgramEntry(1).name = Programs[1]
    BY DEF ProgramEntry
  <2>3. QED BY <2>1, <2>2 DEF Seat, ShellName
<1>4. store[Root] = TableCluster(InsertedRoot) /\ pending = <<>>
  <2>1. PICK table, programs : table = InsertedRoot /\ programs = Inserted
    OBVIOUS
  <2>2. store = [c \in Clusters |->
                  CASE c = Root -> TableCluster(table)
                    [] c \in programs -> DataCluster(<<"image", c>>)
                    [] OTHER -> ZeroCluster]
    BY <2>1 DEF ShellInit
  <2>3. Root \in Clusters /\ Root \notin programs
    BY <1>1, <2>1, InsertedIs, Constants
  <2>4. store[Root] = TableCluster(table)
    BY <2>2, <2>3
  <2>5. QED BY <2>1, <2>4 DEF ShellInit
<1>5. QED BY <1>3, <1>4, NoWrites DEF Seated, TableCluster

LEMMA SeatedStep ==
  ASSUME Assumed, ShellStays, ShellInv, ShellInv', Seated, [CarefulCommand \/ Machine]_allVars
  PROVE  Seated'
<1>1. StoreOK(store) /\ Grounds /\ PrefixOf = {}
  BY JobOfDriver DEF ShellInv, Assumed
<1>2. Levels \subseteq Nat
  BY <1>1, PathLength DEF Levels, Grounds
<1>3. ASSUME AtPrompt PROVE \E sure \in BOOLEAN : Prompted(sure)
  BY <1>3, UnderwayIs DEF ShellInv, AtPrompt, Resting, Prompted
<1>4. ASSUME UNCHANGED vars PROVE Seated'
  BY <1>4 DEF vars, Seated
<1>5. CASE CarefulCommand
  <2>1. CASE \E n \in Levels, name \in Typed : Cd(n, name)
    BY <1>4, <2>1 DEF Cd
  <2>2. CASE \E name \in PlainNames : Mkdir(name)
    BY <2>2, WriteSpares DEF Mkdir
  <2>3. CASE \E n \in Levels, name \in UserNames, text \in Texts : Nano(n, name, text)
    BY <2>3, WriteSpares DEF Nano
  <2>4. ASSUME NEW n \in Levels, NEW name \in UserNames, NEW dotted,
               MayGo(n, name), Rm(n, name, dotted)
        PROVE  Seated'
    <3>1. AtPrompt /\ n < Len(path) /\ (UNCHANGED vars \/ Delete(Depth(n), name))
      BY <2>4 DEF Rm
    <3>2. PICK sure \in BOOLEAN : Prompted(sure)
      BY <1>3, <3>1
    <3>3. QED BY <1>1, <1>2, <1>4, <2>4, <3>1, <3>2, DeleteSpares
  <2>5. ASSUME NEW n \in Levels, NEW name \in UserNames, NEW dest \in UserNames,
               MayMove(name, n, dest), MvErase(name, n, dest, TRUE)
        PROVE  Seated'
    BY <1>1, <2>5, MvEraseSpares
  <2>6. ASSUME NEW n \in Levels, NEW name \in UserNames, NEW dest \in UserNames, NEW dotted,
               MayCopy(name, n, dest), CpDelete(name, n, dest, dotted)
        PROVE  Seated'
    <3>1. AtPrompt /\ n < Len(path) /\ (UNCHANGED vars \/ Delete(Depth(n), dest))
      BY <2>6 DEF CpDelete
    <3>2. PICK sure \in BOOLEAN : Prompted(sure)
      BY <1>3, <3>1
    <3>3. MayGo(n, dest)
      BY <2>6, <3>1 DEF MayCopy
    <3>4. QED BY <1>1, <1>2, <1>4, <3>1, <3>2, <3>3, DeleteSpares
  <2>7. QED BY <1>5, <2>1, <2>2, <2>3, <2>4, <2>5, <2>6 DEF CarefulCommand
<1>6. CASE Disk
  <2>1. DiskWrite /\ mode \in Calling
    BY <1>6 DEF Disk, DiskWrite, Busy
  <2>2. mode \in {"write", "delete", "raw"}
    BY <2>1, JobOfDriver DEF Calling
  <2>3. InSequence(pending)
    BY <2>2, JobSpares DEF Seated
  <2>4. QED BY <1>1, <2>1, <2>3, DiskSpares
<1>7. CASE Restart
  <2>1. store' = store /\ pending' = <<>>
    BY <1>7 DEF Restart, PowerFailure
  <2>2. QED BY <2>1, NoWrites DEF Seated
<1>8. CASE Boots
  <2>1. store' = store /\ pending' = pending
    BY <1>1, <1>8 DEF Boots, Initialize, CreateFat32, LoadFat, Grounds
  <2>2. QED BY <2>1 DEF Seated
<1>9. CASE MvEnter
  BY <1>1, <1>9, MvEnterSpares
<1>10. CASE CpWrite
  BY <1>10, WriteSpares DEF CpWrite
<1>11. CASE NextPrompt
  BY <1>4, <1>11 DEF NextPrompt
<1>12. CASE UNCHANGED allVars
  BY <1>4, <1>12 DEF allVars
<1>13. QED BY <1>5, <1>6, <1>7, <1>8, <1>9, <1>10, <1>11, <1>12 DEF Machine

-----------------------------------------------------------------------------
(* A careful user, power failures between and inside the commands except   *)
(* inside a delete(), and any disk, path and files.                        *)

\* Every command is always at one of its stages.
THEOREM ShellSafe == Assumed => (CarefulShellSpec => []ShellInv)
<1> SUFFICES ASSUME Assumed PROVE CarefulShellSpec => []ShellInv
  OBVIOUS
<1>1. ShellInit => ShellInv
  BY InitShellSafe
<1>2. ShellInv /\ [CarefulCommand \/ Machine]_allVars => ShellInv'
  BY ShellStep
<1>3. QED BY <1>1, <1>2, PTL DEF CarefulShellSpec

\* The shell waits for nothing but its own calls: what it keeps is of the
\* right kind, and it knows what it is doing exactly while it does it.
THEOREM ShellTypes == Assumed => (CarefulShellSpec => []ShellTypeOK)
<1> SUFFICES ASSUME Assumed PROVE CarefulShellSpec => []ShellTypeOK
  OBVIOUS
<1>1. CarefulShellSpec => []ShellInv
  BY ShellSafe
<1>2. ShellInv => ShellTypeOK
  BY InvShellTypes
<1>3. QED BY <1>1, <1>2, PTL

\* mkdir, nano, rm, cp and mv do to the files what they were asked to do, or
\* nothing.
THEOREM CommandsDoAsTold == Assumed => (CarefulShellSpec => []CommandsTakeEffect)
<1> SUFFICES ASSUME Assumed PROVE CarefulShellSpec => []CommandsTakeEffect
  OBVIOUS
<1>1. CarefulShellSpec => []ShellInv
  BY ShellSafe
<1>2. ShellInv => CommandsTakeEffect
  BY InvCommandsTakeEffect
<1>3. QED BY <1>1, <1>2, PTL

\* Whenever power fails in a command, files that it does not name are as they
\* were.
THEOREM OtherFilesSafe == Assumed => (CarefulShellSpec => []OthersUndamaged)
<1> SUFFICES ASSUME Assumed PROVE CarefulShellSpec => []OthersUndamaged
  OBVIOUS
<1>1. CarefulShellSpec => []ShellInv
  BY ShellSafe
<1>2. ShellInv => OthersUndamaged
  BY InvOthersUndamaged
<1>3. QED BY <1>1, <1>2, PTL

\* The directory stack of cd stays a path of the tree on the disk, also while
\* the entry that mv carries is in no table.
THEOREM PathStaysInTree == Assumed => (CarefulShellSpec => []PathFollowsTree)
<1> SUFFICES ASSUME Assumed PROVE CarefulShellSpec => []PathFollowsTree
  OBVIOUS
<1>1. CarefulShellSpec => []ShellInv
  BY ShellSafe
<1>2. ShellInv => PathFollowsTree
  BY DEF ShellInv, Grounds, Stacked
<1>3. QED BY <1>1, <1>2, PTL

\* At the prompt ls gives what is on the disk, and, unless the folder was
\* renamed, so do cat of a text file of at most a cluster and the loading of a
\* file other than the shell.
THEOREM ReadsAreTrue == Assumed => (CarefulShellSpec => []ReadsBack)
<1> SUFFICES ASSUME Assumed PROVE CarefulShellSpec => []ReadsBack
  OBVIOUS
<1>1. CarefulShellSpec => []ShellInv
  BY ShellSafe
<1>2. ShellInv => ReadsBack
  BY InvReadsBack
<1>3. QED BY <1>1, <1>2, PTL

\* No command makes two entries share a cluster, not even mv, which writes the
\* tables by itself.
THEOREM CommandsShareNothing == Assumed => (CarefulShellSpec => []NoCrossLinks)
<1> SUFFICES ASSUME Assumed PROVE CarefulShellSpec => []NoCrossLinks
  OBVIOUS
<1>1. CarefulShellSpec => []ShellInv
  BY ShellSafe
<1>2. ShellInv => NoCrossLinks
  BY InvShellCrossLinks
<1>3. QED BY <1>1, <1>2, PTL

\* Commands that power does not interrupt lose no cluster.
THEOREM CommandsLeakNothing == Assumed => (CarefulShellSpec => []NothingLeaked)
<1> SUFFICES ASSUME Assumed PROVE CarefulShellSpec => []NothingLeaked
  OBVIOUS
<1>1. CarefulShellSpec => []ShellInv
  BY ShellSafe
<1>2. ShellInv => NothingLeaked
  BY InvNothingLeaked
<1>3. QED BY <1>1, <1>2, PTL

\* find comes to an end, has visited every directory, and reports the entries
\* of that name and no others, as long as the directories but one have room
\* in its queue.  The user leaves the shell's file alone, so that what it skips
\* in the root is still that.
THEOREM FindSeesAll == Assumed /\ ShellStays => (CarefulShellSpec => []FindComplete)
<1> SUFFICES ASSUME Assumed, ShellStays PROVE CarefulShellSpec => []FindComplete
  OBVIOUS
<1>1. CarefulShellSpec => []ShellInv
  BY ShellSafe
<1>2. ShellInit => Seated
  BY InitSeated
<1>3. ShellInv /\ ShellInv' /\ Seated /\ [CarefulCommand \/ Machine]_allVars => Seated'
  BY SeatedStep
<1>4. ShellInv /\ Seated => FindComplete
  BY InvFindComplete DEF Seated, Assumed
<1>5. QED BY <1>1, <1>2, <1>3, <1>4, PTL DEF CarefulShellSpec
=============================================================================
