-------------------------------- MODULE Fat32 --------------------------------
(***************************************************************************)
(* The FAT32 driver of fat32.c over a disk that takes one cluster at a     *)
(* time and may lose power between two of them.                            *)
(*                                                                         *)
(* A system call of the driver runs with interrupts off, so calls do not   *)
(* interleave; a call computes the file allocation table in memory and a   *)
(* list of cluster writes, and the writes reach the disk in that order.    *)
(* Sizes are counted in clusters, and a write of one cluster is atomic.    *)
(***************************************************************************)
EXTENDS Integers, FiniteSets, Sequences, SequencesExt

CONSTANTS
  NClusters,    \* CLUSTER_MAP_SIZE, and the clusters of the disk
  NSlots,       \* entries of a directory table, slot 0 included
  Names,        \* names (with extension) a request may carry
  Lengths,      \* file lengths a request may carry, in clusters
  StaleTables,  \* what the stack may hold where write() puts its newDir
  PowerFailsIn  \* the modes in which power may fail (see Modes)

Boot      == 0                      \* BOOT_SECTOR
FatNumber == 1                      \* FAT_CLUSTER_NUMBER
Root      == 2                      \* ROOT_CLUSTER_NUMBER
Clusters  == 2 .. NClusters - 1
Eof       == NClusters              \* FAT32_FAT_END_OF_FILE
Free      == 0                      \* FAT32_FAT_EMPTY_ENTRY
Beyond    == NClusters + 1          \* CLUSTER_0_VALUE, far beyond the disk
Slots     == 0 .. NSlots - 1
NoName    == ""
RootName  == "ROOT"

Entry == [used: BOOLEAN, name: Names \cup {NoName, RootName}, dir: BOOLEAN,
          cluster: 0 .. NClusters - 1, length: Nat]

ASSUME Fat32Assumption ==
  /\ NClusters \in Nat /\ NClusters >= 3
  /\ NSlots \in Nat /\ NSlots >= 2
  /\ NoName \notin Names
  /\ Lengths \subseteq Nat \ {0}
  /\ StaleTables \subseteq [Slots -> Entry]

VARIABLES
  signature,  \* disk: the boot sector holds fs_signature
  diskFat,    \* disk: cluster 1, the file allocation table
  store,      \* disk: the clusters from 2 on
  fat,        \* driver_state.fat_table
  pending,    \* the cluster writes the current call has yet to issue
  mode,       \* what the driver is doing, see Modes
  clean       \* history: nothing has yet been leaked by design (see NoLeaks)

vars == <<signature, diskFat, store, fat, pending, mode, clean>>

Nobody    == <<>>                   \* the contents of a zeroed cluster

\* Idle, inside a call, between a power failure and the next boot, or walking
\* a chain that has left the table (see DiskWrite).
Calling == {"format", "write", "delete", "raw"}
Modes   == Calling \cup {"off", "idle", "hung"}

Busy == mode \in Calling

\* A zeroed entry.
EmptyEntry == [used |-> FALSE, name |-> NoName, dir |-> FALSE, cluster |-> 0, length |-> 0]

BlankTable == [s \in Slots |-> EmptyEntry]

\* A cluster, read as a directory table and as file data.
TableCluster(table) == [table |-> table, data |-> Nobody]
DataCluster(data)   == [table |-> BlankTable, data |-> data]
ZeroCluster         == DataCluster(Nobody)

\* A cluster write, and the sequence of those that a call issues.
WriteOf(to, what) == [to |-> to, what |-> what]

NoFat == [c \in 0 .. NClusters - 1 |-> Free]

TypeOK ==
  /\ signature \in BOOLEAN
  /\ diskFat \in [0 .. NClusters - 1 -> 0 .. Beyond]
  /\ fat \in [0 .. NClusters - 1 -> 0 .. Beyond]
  /\ \A c \in Clusters : store[c].table \in [Slots -> Entry]
  /\ \A i \in DOMAIN pending : pending[i].to \in 0 .. Beyond
  /\ mode \in Modes
  /\ Busy <=> pending # <<>>

\* A new disk: no signature, every cluster zero.
Init ==
  /\ signature = FALSE
  /\ diskFat = NoFat
  /\ store = [c \in Clusters |-> ZeroCluster]
  /\ fat = NoFat
  /\ pending = <<>>
  /\ mode = "off"
  /\ clean = TRUE

-----------------------------------------------------------------------------
(* Booting, formatting, and the disk.                                      *)

\* init_directory_table: slot 0 is about the directory itself and leads to
\* its parent; the other slots keep what the memory held.
InitDirectoryTable(table, name, parent) ==
  [table EXCEPT ![0] = [used |-> TRUE, name |-> name, dir |-> TRUE,
                        cluster |-> parent, length |-> 0]]

FormatFat == [NoFat EXCEPT ![Boot] = Beyond, ![FatNumber] = Eof, ![Root] = Eof]

\* create_fat32
CreateFat32 ==
  /\ ~signature
  /\ fat' = FormatFat
  /\ pending' =
       << WriteOf(Boot, TRUE),
          WriteOf(FatNumber, FormatFat),
          WriteOf(Root, TableCluster(InitDirectoryTable(BlankTable, RootName, Root))) >>
  /\ mode' = "format"

LoadFat ==
  /\ signature
  /\ fat' = diskFat
  /\ mode' = "idle"
  /\ UNCHANGED pending

\* initialize_filesystem_fat32
Initialize ==
  /\ mode = "off"
  /\ CreateFat32 \/ LoadFat
  /\ UNCHANGED <<signature, diskFat, store, clean>>

\* The next write of the current call.  Cluster 0 holds the boot sector.  A
\* write beyond the disk is rejected by the disk; it occurs only in a walk
\* that then reads its next cluster from far outside the table, and nothing
\* is said about that machine but that it can be switched off.
DiskWrite ==
  /\ Busy
  /\ LET w == Head(pending)
     IN  /\ signature' = IF w.to = Boot THEN w.what ELSE signature
         /\ diskFat' = IF w.to = FatNumber THEN w.what ELSE diskFat
         /\ store' = IF w.to \in Clusters THEN [store EXCEPT ![w.to] = w.what] ELSE store
         /\ pending' = IF w.to = Beyond THEN <<>> ELSE Tail(pending)
         /\ mode' = CASE w.to = Beyond      -> "hung"
                      [] Len(pending) = 1  -> "idle"
                      [] OTHER             -> mode
  /\ UNCHANGED <<fat, clean>>

PowerFailure ==
  /\ mode \in PowerFailsIn
  /\ mode' = "off"
  /\ pending' = <<>>
  /\ fat' = NoFat
  /\ clean' = (clean /\ ~Busy)
  /\ UNCHANGED <<signature, diskFat, store>>

-----------------------------------------------------------------------------
(* write                                                                   *)

UsedSlots(table) == {s \in Slots : table[s].used}

Least(S) == CHOOSE x \in S : \A y \in S : x <= y

\* The slots searched for a name: all but the directory's own.
SlotsNamed(table, name) == {s \in Slots \ {0} : table[s].name = name}

\* Mutant: the search for a free cluster goes one entry too far.
FreeClustersPastEnd == {c \in 2 .. NClusters : c = NClusters \/ fat[c] = Free}

FreeClusters == {c \in Clusters : fat[c] = Free}

\* Mutant: clusters are handed out without looking at the table.
TakenFromStart(n) == [i \in 1 .. n |-> Root + i]

\* The first n free clusters, in ascending order.
Taken(n) ==
  [i \in 1 .. n |->
     CHOOSE c \in FreeClusters : Cardinality({x \in FreeClusters : x < c}) = i - 1]

\* Mutant: the new entry always goes to slot 1.
WithEntryInSlotOne(table, entry) == [table EXCEPT ![1] = entry]

\* The parent's table with the new entry in its first empty slot.  In a full
\* table the entry is written behind the copy of the table and is lost.
WithEntry(table, entry) ==
  IF UsedSlots(table) = Slots THEN table
  ELSE [table EXCEPT ![Least(Slots \ UsedSlots(table))] = entry]

\* No name, a parent that cannot be a directory, a name that exists, or not
\* enough space; nothing has been changed.
WriteRefused(parent, name, n) ==
  \/ name = NoName
  \/ parent < Root
  \/ SlotsNamed(store[parent].table, name) # {}
  \/ Cardinality(FreeClusters) < n

\* Mutant: the allocation of a folder is not written to the disk.
WriteFolderWithoutFat(parent, name) ==
  \E c \in {Least(FreeClusters)}, stale \in StaleTables :
    /\ fat' = [fat EXCEPT ![c] = Eof]
    /\ pending' =
         << WriteOf(c, TableCluster(InitDirectoryTable(stale, name, parent))),
            WriteOf(parent, TableCluster(WithEntry(store[parent].table,
              [used |-> TRUE, name |-> name, dir |-> TRUE, cluster |-> c, length |-> 0]))) >>

\* A folder: its table first, then the allocation, then the parent's entry.
WriteFolder(parent, name) ==
  \E c \in {Least(FreeClusters)}, stale \in StaleTables :
    /\ fat' = [fat EXCEPT ![c] = Eof]
    /\ pending' =
         << WriteOf(c, TableCluster(InitDirectoryTable(stale, name, parent))),
            WriteOf(FatNumber, fat'),
            WriteOf(parent, TableCluster(WithEntry(store[parent].table,
              [used |-> TRUE, name |-> name, dir |-> TRUE, cluster |-> c, length |-> 0]))) >>

\* Each cluster of a file leads to the next and the last one is the end.
Chained(taken) ==
  [c \in DOMAIN fat |->
     IF c \notin ToSet(taken) THEN fat[c]
     ELSE IF c = Last(taken) THEN Eof
     ELSE taken[CHOOSE i \in DOMAIN taken : i > 1 /\ taken[i - 1] = c]]

\* Mutant: the parent's entry is written before the allocation.
WriteFileEntryFirst(parent, name, blocks) ==
  LET n     == Len(blocks)
      taken == Taken(n)
      data  == [i \in 1 .. n |-> WriteOf(taken[i], DataCluster(blocks[i]))]
      entry == [used |-> TRUE, name |-> name, dir |-> FALSE,
                cluster |-> taken[1], length |-> n]
  IN  /\ fat' = Chained(taken)
      /\ pending' = data \o
           << WriteOf(parent, TableCluster(WithEntry(store[parent].table, entry))),
              WriteOf(FatNumber, fat') >>

\* A file: its data first, then the allocation, then the parent's entry.
WriteFile(parent, name, blocks) ==
  LET n     == Len(blocks)
      taken == Taken(n)
      data  == [i \in 1 .. n |-> WriteOf(taken[i], DataCluster(blocks[i]))]
      entry == [used |-> TRUE, name |-> name, dir |-> FALSE,
                cluster |-> taken[1], length |-> n]
  IN  /\ fat' = Chained(taken)
      /\ pending' = data \o
           << WriteOf(FatNumber, fat'),
              WriteOf(parent, TableCluster(WithEntry(store[parent].table, entry))) >>

\* A buffer of length 0 asks for a folder.
ClustersFor(blocks) == IF blocks = <<>> THEN 1 ELSE Len(blocks)

Write(parent, name, blocks) ==
  /\ mode = "idle"
  /\ \/ WriteRefused(parent, name, ClustersFor(blocks)) /\ UNCHANGED vars
     \/ /\ ~WriteRefused(parent, name, ClustersFor(blocks))
        /\ mode' = "write"
        /\ IF blocks = <<>> THEN WriteFolder(parent, name) ELSE WriteFile(parent, name, blocks)
        /\ UNCHANGED <<signature, diskFat, store, clean>>

-----------------------------------------------------------------------------
(* delete                                                                  *)

\* The emptiness check stops at the first empty slot: it looks at slot 1.
LooksEmpty(table) == ~table[1].used

ReallyEmpty(table) == \A s \in Slots \ {0} : ~table[s].used

\* The clusters that deleting a file zeroes: its chain, or, from an entry
\* that points to a free cluster, that cluster, the boot sector and a cluster that
\* the disk does not have.  Chain by the number of clusters looked at: no chain
\* passes through a cluster twice.
ChainFrom(map) ==
  LET chain[n \in 0 .. NClusters] ==
        [c \in 0 .. Beyond |->
           IF n = 0 \/ c = Eof THEN <<>>
           ELSE IF c = Beyond THEN <<Beyond>>
           ELSE <<c>> \o chain[n - 1][map[c]]]
  IN  chain[NClusters]

Zeroed(c) == WriteOf(c, IF c = Boot THEN FALSE ELSE ZeroCluster)

\* Mutant: only the first cluster of a chain is released.
ReleasedHead(chain) == [fat EXCEPT ![chain[1]] = Free]

\* The table once the clusters of a chain are released.
Released(chain) == [c \in DOMAIN fat |-> IF c \in ToSet(chain) THEN Free ELSE fat[c]]

\* Mutant: the entry stays in the parent's table.
EntryKept(table, s) == table

WithoutEntry(table, s) == [table EXCEPT ![s] = EmptyEntry]

\* There is no such entry, or it is a folder that does not look empty.
DeleteRefused(parent, name) ==
  LET table == store[parent].table
      found == SlotsNamed(table, name)
  IN  found # {} =>
        table[Least(found)].dir /\ ~LooksEmpty(store[table[Least(found)].cluster].table)

Delete(parent, name) ==
  LET table == store[parent].table
      slot  == Least(SlotsNamed(table, name))
      first == table[slot].cluster
      chain == IF table[slot].dir THEN <<first>> ELSE ChainFrom(fat)[first]
      inner == store[first].table
  IN  /\ mode = "idle"
      /\ \/ DeleteRefused(parent, name) /\ UNCHANGED vars
         \/ /\ ~DeleteRefused(parent, name)
            /\ fat' = Released(chain)
            /\ pending' = [i \in DOMAIN chain |-> Zeroed(chain[i])] \o
                 << WriteOf(FatNumber, fat'),
                    WriteOf(parent, TableCluster(WithoutEntry(table, slot))) >>
            /\ mode' = "delete"
            /\ clean' = (clean /\ (table[slot].dir => ReallyEmpty(inner)))
            /\ UNCHANGED <<signature, diskFat, store>>

-----------------------------------------------------------------------------
(* read_directory and read, which change nothing.                          *)

\* read_directory finds a folder of that name, slot 0 included.
DirectoryFound(parent, name) ==
  LET named == {s \in Slots : store[parent].table[s].name = name}
  IN  named # {} /\ store[parent].table[Least(named)].dir

\* The clusters that read returns: those of the chain, n at most.
ReadBlocks(parent, name, n) ==
  LET table == store[parent].table
      chain == ChainFrom(fat)[table[Least(SlotsNamed(table, name))].cluster]
  IN  [i \in 1 .. (IF n < Len(chain) THEN n ELSE Len(chain)) |-> store[chain[i]].data]

\* read gives code 0.  It compares whole clusters, so that a missing last one
\* goes unnoticed unless the size is a multiple of a cluster: sizes are counted
\* in clusters here, and the last one may always be missing.  Asked for nothing
\* it takes the file for a folder.
ReadSucceeds(parent, name, n) ==
  /\ n > 0
  /\ SlotsNamed(store[parent].table, name) # {}
  /\ Len(ReadBlocks(parent, name, n)) + 1 >= n

-----------------------------------------------------------------------------
(* The tree on the disk, as the driver finds it after a boot.              *)

EntriesOf(d) == {store[d].table[s] : s \in UsedSlots(store[d].table) \ {0}}

SubdirsOf(D) == {e.cluster : e \in {x \in UNION {EntriesOf(d) : d \in D} : x.dir}}

\* A directory and those beneath it.
DirectoriesFrom(top) ==
  LET within[n \in 0 .. NClusters - 3] ==
        IF n = 0 THEN {top}
        ELSE within[n - 1] \cup (SubdirsOf(within[n - 1]) \cap Clusters)
  IN  within[NClusters - 3]

Directories == DirectoriesFrom(Root)

\* What a caller of Fat32 alone puts into a file.
Written(parent, name, n) == [i \in 1 .. n |-> <<parent, name, i>>]

\* Callers name as parent a directory they have reached from the root.
Calls ==
  \E parent \in Directories, name \in Names :
    \/ \E n \in Lengths \cup {0} : Write(parent, name, Written(parent, name, n))
    \/ Delete(parent, name)

Next == Initialize \/ DiskWrite \/ PowerFailure \/ Calls

Spec == Init /\ [][Next]_vars

\* A caller that makes sure, before it deletes a directory, that what the
\* driver takes for an empty directory is empty.
Misjudged(parent, name) ==
  \E e \in EntriesOf(parent) :
    e.name = name /\ e.dir /\ LooksEmpty(store[e.cluster].table)
                  /\ ~ReallyEmpty(store[e.cluster].table)

CarefulCalls ==
  \E parent \in Directories, name \in Names :
    \/ \E n \in Lengths \cup {0} : Write(parent, name, Written(parent, name, n))
    \/ ~Misjudged(parent, name) /\ Delete(parent, name)

CarefulSpec == Init /\ [][Initialize \/ DiskWrite \/ PowerFailure \/ CarefulCalls]_vars

-----------------------------------------------------------------------------
(* Properties.                                                             *)

DiskChain(e) == ChainFrom(diskFat)[e.cluster]

\* The data of a file.
Blocks(e) == IF e.dir THEN <<>>
             ELSE [k \in DOMAIN DiskChain(e) |-> store[DiskChain(e)[k]].data]

\* A file has as many clusters as its length says, and none of them has been
\* zeroed; a folder has one cluster.
Whole(e) ==
  IF e.dir THEN diskFat[e.cluster] = Eof
  ELSE /\ Len(DiskChain(e)) = e.length
       /\ ToSet(DiskChain(e)) \subseteq Clusters
       /\ Nobody \notin ToSet(Blocks(e))

\* An entry is whole, and a file holds its own data in order.
Intact(d, e) == Whole(e) /\ (~e.dir => Blocks(e) = Written(d, e.name, e.length))

\* The disk as a power failure at this instant would leave it, except inside
\* a delete or a format, is consistent: every entry that can be reached is
\* whole.  It is what the order of the writes in write() is for.
DiskConsistent ==
  mode \in {"idle", "off", "write"} /\ signature =>
    \A d \in Directories : \A e \in EntriesOf(d) : Intact(d, e)

\* No cluster belongs to two entries, in one directory or in two.
NoCrossLinks ==
  mode \in {"idle", "off", "write"} /\ signature =>
    \A d1, d2 \in Directories : \A e1 \in EntriesOf(d1), e2 \in EntriesOf(d2) :
      ToSet(DiskChain(e1)) \cap ToSet(DiskChain(e2)) # {} => d1 = d2 /\ e1 = e2

\* Between calls the table in memory, from which clusters are handed out, is
\* the one on the disk, from which the next boot will load it.
MemoryFatCurrent == mode = "idle" => fat = diskFat

\* As long as no power failure interrupted a call, between calls every
\* allocated cluster belongs to an entry: refused and completed calls leak
\* nothing.
NoLeaks ==
  clean /\ mode = "idle" =>
    {c \in Clusters : fat[c] # Free} =
      {Root} \cup UNION {ToSet(DiskChain(e)) : e \in UNION {EntriesOf(d) : d \in Directories}}

\* Documented in fat32.h (228): delete takes away one entry of a directory,
\* so it can never take away the boot sector's signature, whose loss makes
\* the next boot format the disk.
SignatureStays == [][signature => signature']_vars

\* Documented in fat32.h (228, 231): delete refuses a folder that is not
\* empty, so a folder never goes while it has an entry.
OnlyEmptyFoldersDeleted ==
  [][(mode = "idle" /\ mode' = "delete") =>
       \A c \in Directories :
         (fat[c] # Free /\ fat'[c] = Free) => ReallyEmpty(store[c].table)]_vars

-----------------------------------------------------------------------------
(* Refinement: the disk as a dictionary of whole files and folders.        *)

Places   == Clusters \X Names
Contents == [dir: BOOLEAN, blocks: Seq(Clusters \X Names \X Nat)]

WholeEntries(d) == {e \in EntriesOf(d) : Whole(e)}

OccupiedPlaces ==
  IF signature
  THEN UNION {{<<d, e.name>> : e \in WholeEntries(d)} : d \in Directories}
  ELSE {}

FilesOnDisk ==
  [p \in OccupiedPlaces |->
     LET e == CHOOSE x \in WholeEntries(p[1]) : x.name = p[2]
     IN  [dir |-> e.dir, blocks |-> Blocks(e)]]

FS == INSTANCE FileStore WITH files <- FilesOnDisk

\* The driver implements the dictionary: a file appears whole, in the step
\* that writes its entry, or not at all.
DictionaryOfFiles == FS!Spec
=============================================================================
