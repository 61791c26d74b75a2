---------------------------- MODULE KernelProofs ----------------------------
(***************************************************************************)
(* Proofs about Kernel: types, the accounts of frames, directories and     *)
(* processes, the separation of address spaces, and the consistency of the *)
(* CPU with the process table, for every number of frames, directories and *)
(* processes.                                                              *)
(***************************************************************************)
EXTENDS Kernel, PagingProofs

USE DEF Frames, UserFrames, Dirs, NoFrame, NullDir, KernelDir, Slots

-----------------------------------------------------------------------------
(* The inductive invariant.                                                *)

\* An unused directory has been cleared, or never written.
UnusedDirsEmpty ==
  \A d \in Dirs, v \in Pages : ~dirUsed[d] => dirTable[d][v] = NoFrame

\* A block carries its own index from its first use on; before that it is
\* zero-filled, and process_destroy(0) may pick it up.
BlocksNumbered ==
  \A i \in Slots :
    \/ pcb[i].pid = i
    \/ pcb[i].pid = 0 /\ pcb[i].dir = NullDir /\ ~listed[i]

LiveHaveDirectories ==
  \A i \in Slots : listed[i] =>
    pcb[i].dir \in Dirs /\ dirUsed[pcb[i].dir] /\ pcb[i].page \in UserPages

UsedDirs == {d \in Dirs : dirUsed[d]}

\* Each directory in use has cost two frames, or was given the last one.
FramesPayForDirectories ==
  FreeFrames(pageManager) # {} =>
    2 * Cardinality(UsedDirs) + Cardinality(FreeFrames(pageManager)) <= NFrames - 1

TableInv ==
  /\ TypeOK
  /\ PagingInv
  /\ UnusedDirsEmpty
  /\ ActiveCountExact
  /\ BlocksNumbered
  /\ LiveHaveDirectories
  /\ DirectoriesDistinct
  /\ FramesPayForDirectories

\* The CPU translates through the kernel's own directory until the first
\* switch, and through a process directory from then on.
ActiveDirectory ==
  /\ mode \in {"boot", "booted"} => cr3 = KernelDir
  /\ mode = "user" => cr3 \in Dirs

\* A live process whose directory is active is the running one.
ActiveIsRunning ==
  mode = "user" => \A i \in Slots : (listed[i] /\ pcb[i].dir = cr3) => Running(i)

CpuInv ==
  /\ ActiveDirectory
  /\ RunningBlockOwnsCpu
  /\ ActiveIsRunning
  /\ ResumesWhereInterrupted

IInv == TableInv /\ CpuInv /\ ImageIntact

-----------------------------------------------------------------------------
(* Searches of the process table.                                          *)

LEMMA InactiveIndexIsFree ==
  ASSUME InactiveSlots # {}
  PROVE  InactiveIndex \in Slots /\ ~listed[InactiveIndex]
<1>1. InactiveSlots \subseteq Nat
  BY ProcessAssumption DEF InactiveSlots
<1>2. \E i \in InactiveSlots : \A j \in InactiveSlots : i <= j
  BY <1>1, LeastElement
<1> QED
  BY <1>2 DEF InactiveIndex, InactiveSlots

LEMMA RunningSlotRuns ==
  ASSUME NEW blocks, RunningSlots(blocks) # {}
  PROVE  RunningSlot(blocks) \in Slots /\ blocks[RunningSlot(blocks)].state = "RUNNING"
<1>1. RunningSlots(blocks) \subseteq Nat
  BY ProcessAssumption DEF RunningSlots
<1>2. \E i \in RunningSlots(blocks) : \A j \in RunningSlots(blocks) : i <= j
  BY <1>1, LeastElement
<1> QED
  BY <1>2 DEF RunningSlot, RunningSlots

LEMMA NextSlotIsListed ==
  ASSUME NEW pid \in Slots, ListedSlots # {}
  PROVE  NextSlot(pid) \in Slots /\ listed[NextSlot(pid)]
<1> DEFINE Distances == {SearchDistance(pid, i) : i \in ListedSlots}
<1>1. \A i \in Slots : SearchDistance(pid, i) \in Nat
  BY ProcessAssumption DEF SearchDistance
<1>2. Distances \subseteq Nat /\ Distances # {}
  BY <1>1 DEF ListedSlots
<1>3. PICK x \in Distances : \A y \in Distances : x <= y
  <2> HIDE DEF Distances
  <2> QED BY <1>2, LeastElement
<1>4. \E i \in ListedSlots : \A j \in ListedSlots :
        SearchDistance(pid, i) <= SearchDistance(pid, j)
  BY <1>3
<1> QED
  BY <1>4 DEF NextSlot, ListedSlots

LEMMA SlotsFinite ==
  /\ IsFiniteSet(Slots) /\ Cardinality(Slots) = NProcs
  /\ \A S \in SUBSET Slots :
       IsFiniteSet(S) /\ Cardinality(S) \in Nat /\ Cardinality(S) <= NProcs
<1>1. IsFiniteSet(Slots) /\ Cardinality(Slots) = NProcs
  BY ProcessAssumption, FS_Interval
<1> QED
  BY <1>1, FS_Subset, FS_CardinalityType

\* While the count is below the size of the table there is a slot to take.
LEMMA SlotAvailable ==
  ASSUME ActiveCountExact, active < NProcs
  PROVE  InactiveSlots # {}
<1> SUFFICES ASSUME InactiveSlots = {} PROVE FALSE
  OBVIOUS
<1>1. ListedSlots = Slots
  BY DEF InactiveSlots, ListedSlots
<1> QED
  BY <1>1, SlotsFinite, ProcessAssumption DEF ActiveCountExact

\* Only the block of a live process carries its identifier, unless the
\* identifier is 0: then it may also be the last block never used.
LEMMA PcbOfIs ==
  ASSUME TypeOK, BlocksNumbered, NEW pid \in Slots, listed[pid]
  PROVE  /\ PcbOf(pid) \in Slots
         /\ \/ PcbOf(pid) = pid
            \/ pid = 0 /\ pcb[PcbOf(pid)].dir = NullDir /\ ~listed[PcbOf(pid)]
<1> DEFINE S == {i \in Slots : pcb[i].pid = pid}
           M == {NProcs - i : i \in S}
<1>1. pid \in S
  BY DEF BlocksNumbered
<1>2. M \subseteq Nat /\ M # {}
  BY <1>1, ProcessAssumption
<1>3. PICK x \in M : \A y \in M : x <= y
  <2> HIDE DEF M
  <2> QED BY <1>2, LeastElement
<1>4. \E i \in S : \A j \in S : j <= i
  BY <1>3, ProcessAssumption
<1>5. PcbOf(pid) \in Slots /\ pcb[PcbOf(pid)].pid = pid
  BY <1>4 DEF PcbOf
<1> QED
  BY <1>5 DEF BlocksNumbered

\* Setting the state of a block changes nothing else in it.
LEMMA OnlyTheState ==
  ASSUME NEW b \in PcbType, NEW s \in {"READY", "RUNNING"}
  PROVE  LET c == [b EXCEPT !.state = s]
         IN  /\ c \in PcbType /\ c.state = s /\ c.pid = b.pid /\ c.name = b.name
             /\ c.page = b.page /\ c.step = b.step /\ c.dir = b.dir
BY DEF PcbType

-----------------------------------------------------------------------------
(* Creation.                                                               *)

LEMMA CeilDivPositive ==
  ASSUME NEW n \in Nat, n >= 1, NEW m \in Nat, m >= 1
  PROVE  CeilDiv(n, m) \in Nat /\ CeilDiv(n, m) >= 1
<1>1. n + m - 1 \in Nat /\ n + m - 1 >= m
  OBVIOUS
<1>2. \A k \in Nat : k >= m => k \div m \in Nat /\ k \div m >= 1
  OBVIOUS
<1> QED
  BY <1>1, <1>2 DEF CeilDiv

\* A request that is not refused finds a free slot, a user page to load at,
\* a free frame and, with FramesPayForDirectories, an unused directory.
LEMMA AcceptedRequest ==
  ASSUME TableInv, NEW req, req.size \in Nat, req.page \in Pages, ~CreateRefused(req)
  PROVE  /\ InactiveSlots # {}
         /\ req.page \in UserPages
         /\ FreeFrames(pageManager) # {}
         /\ UnusedDirs # {}
<1>1. InactiveSlots # {}
  <2>1. active < NProcs
    BY ProcessAssumption DEF CreateRefused, TableInv, TypeOK, ProcessTypeOK
  <2> QED BY <2>1, SlotAvailable DEF TableInv
<1>2. req.page \in UserPages
  BY PagingAssumption DEF CreateRefused, Pages, UserPages, StackPage
<1>3. FreeFrames(pageManager) # {}
  <2> DEFINE needed == PageFrameCountNeeded(req.size)
  <2>1. needed \in Nat /\ needed >= 1
    BY PagingAssumption, CeilDivPositive DEF PageFrameCountNeeded
  <2>2. CeilDiv(needed, FrameSize) \in Nat /\ CeilDiv(needed, FrameSize) >= 1
    <3> HIDE DEF needed
    <3> QED BY <2>1, PagingAssumption, CeilDivPositive
  <2>3. pageManager.free_page_frame_count >= CeilDiv(needed, FrameSize)
    BY DEF CreateRefused, AllocateCheck
  <2> HIDE DEF needed
  <2>4. Cardinality(FreeFrames(pageManager)) >= 1
    BY <2>2, <2>3, FreeFramesFinite DEF TableInv, PagingInv, FreeCountExact
  <2> QED BY <2>4, FS_EmptySet
<1>4. UnusedDirs # {}
  <2> SUFFICES ASSUME UnusedDirs = {} PROVE FALSE
    OBVIOUS
  <2>1. UsedDirs = Dirs
    BY DEF UnusedDirs, UsedDirs
  <2>2. Cardinality(Dirs) = NDirs
    BY PagingAssumption, FS_Interval
  <2>3. Cardinality(FreeFrames(pageManager)) >= 1
    BY <1>3, FreeFramesFinite
  <2> QED
    BY <1>3, <2>1, <2>2, <2>3, FreeFramesFinite, PoolAssumption, PagingAssumption
       DEF TableInv, FramesPayForDirectories
<1> QED
  BY <1>1, <1>2, <1>3, <1>4

\* The table of the new directory, entry by entry.
LEMMA NewTableIs ==
  ASSUME TableInv, NEW req, req.page \in UserPages,
         FreeFrames(pageManager) # {}, UnusedDirs # {}
  PROVE  /\ NewTable(req) \in TableType
         /\ NewTable(req)[KernelPage] = 0
         /\ NewTable(req)[req.page] # NoFrame
         /\ NewTable(req)[StackPage] = NoFrame => FreeFrames(Allocated(pageManager)) = {}
<1> USE UserPagesArePages
<1> DEFINE t0  == KernelEntry(dirTable[NewDir])
           t1  == Mapped(t0, pageManager, req.page)
           pm1 == Allocated(pageManager)
           f   == FirstFreeFrame(pageManager)
           g   == FirstFreeFrame(pm1)
<1>1. /\ NewDir \in Dirs /\ pageManager \in PageManagerType
      /\ dirTable \in [Dirs -> TableType]
  BY NewDirIsUnused DEF TableInv, PagingInv, PagingTypeOK
<1>2. t0 \in TableType /\ t0[KernelPage] = 0
  BY <1>1, PagingAssumption DEF TableType, KernelEntry
<1>3. f \in UserFrames
  BY FirstFreeFrameIsFree DEF FreeFrames
<1>4. t1 = [t0 EXCEPT ![req.page] = f]
  BY DEF Mapped
<1> HIDE DEF t0, f
<1>5. t1 \in TableType /\ t1[KernelPage] = 0 /\ t1[req.page] = f
  BY <1>2, <1>3, <1>4 DEF TableType
<1> HIDE DEF t1
<1>6. NewTable(req) = Mapped(t1, pm1, StackPage)
  BY DEF NewTable, t1, t0
<1>7. CASE FreeFrames(pm1) = {}
  BY <1>3, <1>5, <1>6, <1>7 DEF Mapped
<1>8. CASE FreeFrames(pm1) # {}
  <2>1. g \in UserFrames
    BY <1>8, FirstFreeFrameIsFree DEF FreeFrames
  <2>2. NewTable(req) = [t1 EXCEPT ![StackPage] = g]
    BY <1>6, <1>8 DEF Mapped
  <2> HIDE DEF g, pm1
  <2> QED
    BY <1>3, <1>5, <1>8, <2>1, <2>2 DEF TableType
<1> QED
  BY <1>7, <1>8

\* The new directory changes no other directory's table.
LEMMA OtherTablesKept ==
  ASSUME TableInv, NEW req, CreateWithDirectory(req), NEW e \in Dirs
  PROVE  dirTable'[e] = IF e = NewDir THEN NewTable(req) ELSE dirTable[e]
<1>1. dirTable \in [Dirs -> TableType] /\ NewDir \in Dirs
  BY NewDirIsUnused DEF TableInv, PagingInv, PagingTypeOK, CreateWithDirectory
<1> QED
  BY <1>1 DEF CreateWithDirectory

LEMMA NewDirMarked ==
  ASSUME TableInv, NEW req, CreateWithDirectory(req), NEW e \in Dirs
  PROVE  dirUsed'[e] <=> e = NewDir \/ dirUsed[e]
<1>1. dirUsed \in [Dirs -> BOOLEAN] /\ NewDir \in Dirs
  BY NewDirIsUnused DEF TableInv, PagingInv, PagingTypeOK, CreateWithDirectory
<1> QED
  BY <1>1, Zenon DEF CreateWithDirectory

\* Creation keeps every frame mapped once: it is a directory creation
\* followed by two allocations.
LEMMA CreateKeepsPaging ==
  ASSUME TableInv, NEW req, req.page \in UserPages,
         FreeFrames(pageManager) # {}, CreateWithDirectory(req)
  PROVE  PagingInv'
<1> USE UserPagesArePages
<1> DEFINE pm  == pageManager
           pm1 == Allocated(pm)
           t0  == KernelEntry(dirTable[NewDir])
           T0  == [dirTable EXCEPT ![NewDir] = t0]
           T1  == [T0 EXCEPT ![NewDir] = Mapped(T0[NewDir], pm, req.page)]
           T2  == [T1 EXCEPT ![NewDir] = Mapped(T1[NewDir], pm1, StackPage)]
<1>1. /\ NewDir \in Dirs /\ pm \in PageManagerType /\ pm1 \in PageManagerType
      /\ dirTable \in [Dirs -> TableType] /\ UnusedDirs # {}
  BY NewDirIsUnused, AllocatedType
     DEF TableInv, PagingInv, PagingTypeOK, CreateWithDirectory
<1>2. t0 \in TableType
  BY <1>1, PagingAssumption DEF TableType, KernelEntry
<1>3. T0 \in [Dirs -> TableType] /\ T0[NewDir] = t0
  <2> HIDE DEF t0
  <2> QED BY <1>1, <1>2
<1>4. T1 \in [Dirs -> TableType] /\ T1[NewDir] = Mapped(t0, pm, req.page)
  <2> HIDE DEF t0, T0
  <2> QED BY <1>1, <1>2, <1>3, MappedType
<1>5. dirTable' = T2
  <2>1. T2[NewDir] = NewTable(req)
    BY <1>1, <1>4 DEF NewTable
  <2>2. T2 = [dirTable EXCEPT ![NewDir] = NewTable(req)]
    BY <1>1, <1>4 DEF NewTable
  <2> QED BY <2>2 DEF CreateWithDirectory
<1>6. Sound(pm, dirTable)
  BY SoundIsInvariants DEF TableInv, PagingInv
<1>7. Sound(pm, T0)
  <2>1. \A d \in Dirs, v \in UserPages : T0[d][v] = dirTable[d][v]
    BY <1>1 DEF KernelEntry, TableType
  <2> HIDE DEF T0
  <2> QED BY <1>6, <2>1, SubmappingSound
<1>8. Sound(pm1, T1)
  <2> HIDE DEF T0
  <2> QED BY <1>1, <1>3, <1>7, AllocationSound
<1>9. Sound(Allocated(pm1), T2)
  <2> HIDE DEF T1, pm1
  <2> QED BY <1>1, <1>4, <1>8, AllocationSound
<1>10. MappedFramesAllocated' /\ FrameMappedOnce'
  <2>1. pageManager' = Allocated(pm1)
    BY DEF CreateWithDirectory
  <2> HIDE DEF T2, pm1
  <2>2. Sound(pageManager', dirTable')
    BY <1>5, <1>9, <2>1
  <2> QED BY <2>2 DEF Sound, MappedFramesAllocated, FrameMappedOnce
<1>11. PagingTypeOK'
  <2>1. pageManager' \in PageManagerType
    BY <1>1, AllocatedType DEF CreateWithDirectory
  <2>2. dirTable' \in [Dirs -> TableType]
    BY <1>1, NewTableIs DEF CreateWithDirectory
  <2>3. dirUsed' \in [Dirs -> BOOLEAN] /\ cr3' = cr3
    BY DEF CreateWithDirectory, TableInv, PagingInv, PagingTypeOK
  <2> QED BY <2>1, <2>2, <2>3 DEF TableInv, PagingInv, PagingTypeOK
<1>12. FreeCountExact'
  <2>1. CountExact(pm)
    BY DEF TableInv, PagingInv, FreeCountExact, CountExact
  <2>2. CountExact(Allocated(pm1))
    BY <1>1, <2>1, AllocatedCount
  <2> QED BY <2>2 DEF CreateWithDirectory, FreeCountExact, CountExact
<1>13. KernelEntryIffUsed'
  <2> SUFFICES ASSUME NEW d \in Dirs
               PROVE  dirTable'[d][KernelPage] = (IF dirUsed'[d] THEN 0 ELSE NoFrame)
    BY DEF KernelEntryIffUsed
  <2>1. dirTable[d][KernelPage] = (IF dirUsed[d] THEN 0 ELSE NoFrame)
    BY DEF TableInv, PagingInv, KernelEntryIffUsed
  <2> QED
    BY <1>1, <2>1, OtherTablesKept, NewDirMarked, NewTableIs
<1> QED
  BY <1>10, <1>11, <1>12, <1>13 DEF PagingInv

LEMMA UsedDirsFinite ==
  IsFiniteSet(UsedDirs) /\ Cardinality(UsedDirs) \in Nat
<1>1. IsFiniteSet(Dirs)
  BY PagingAssumption, FS_Interval
<1>2. UsedDirs \subseteq Dirs
  BY DEF UsedDirs
<1> QED
  BY <1>1, <1>2, FS_Subset, FS_CardinalityType

\* A creation takes two free frames, or the last one, for one directory.
LEMMA CreateKeepsPayment ==
  ASSUME TableInv, NEW req, FreeFrames(pageManager) # {}, CreateWithDirectory(req)
  PROVE  FramesPayForDirectories'
<1> DEFINE pm  == pageManager
           pm1 == Allocated(pm)
           pm2 == Allocated(pm1)
<1>1. /\ NewDir \in Dirs /\ ~dirUsed[NewDir] /\ UnusedDirs # {}
      /\ pm \in PageManagerType /\ pm1 \in PageManagerType
  BY NewDirIsUnused, AllocatedType
     DEF TableInv, PagingInv, PagingTypeOK, CreateWithDirectory
<1>2. Cardinality(FreeFrames(pm1)) = Cardinality(FreeFrames(pm)) - 1
  BY <1>1, AllocatedFreeFrames, FirstFreeFrameIsFree, FreeFramesFinite, FS_RemoveElement
<1>3. FreeFrames(pm2) # {} =>
        /\ FreeFrames(pm1) # {}
        /\ Cardinality(FreeFrames(pm2)) = Cardinality(FreeFrames(pm1)) - 1
  <2>1. CASE FreeFrames(pm1) = {}
    BY <2>1 DEF Allocated
  <2>2. CASE FreeFrames(pm1) # {}
    <3> HIDE DEF pm1
    <3> QED BY <1>1, <2>2, AllocatedFreeFrames, FirstFreeFrameIsFree,
               FreeFramesFinite, FS_RemoveElement
  <2> QED BY <2>1, <2>2
<1>4. UsedDirs' = UsedDirs \cup {NewDir} /\ NewDir \notin UsedDirs
  BY <1>1, NewDirMarked DEF UsedDirs
<1>5. IsFiniteSet(UsedDirs) /\ Cardinality(UsedDirs) \in Nat
  BY UsedDirsFinite
<1>6. Cardinality(UsedDirs') = Cardinality(UsedDirs) + 1
  BY <1>4, <1>5, FS_AddElement
<1>7. pageManager' = pm2
  BY DEF CreateWithDirectory
<1>8. 2 * Cardinality(UsedDirs) + Cardinality(FreeFrames(pm)) <= NFrames - 1
  BY DEF TableInv, FramesPayForDirectories
<1>9. SUFFICES ASSUME FreeFrames(pm2) # {}
               PROVE  2 * Cardinality(UsedDirs') + Cardinality(FreeFrames(pm2)) <= NFrames - 1
  BY <1>7 DEF FramesPayForDirectories
<1>10. /\ Cardinality(FreeFrames(pm)) \in Nat /\ Cardinality(FreeFrames(pm1)) \in Nat
       /\ Cardinality(FreeFrames(pm2)) \in Nat
  BY FreeFramesFinite
<1> HIDE DEF pm, pm1, pm2
<1> QED
  BY <1>2, <1>3, <1>5, <1>6, <1>8, <1>9, <1>10, PagingAssumption

\* The block that a creation fills in, and the others.
LEMMA CreatedBlock ==
  ASSUME TableInv, NEW req, InactiveSlots # {}, CreateWithDirectory(req), NEW i \in Slots
  PROVE  /\ pcb'[i] = IF i = InactiveIndex
                     THEN [pid |-> InactiveIndex, state |-> "READY", name |-> req.name,
                           page |-> req.page, step |-> 0, dir |-> NewDir]
                     ELSE pcb[i]
         /\ listed'[i] <=> i = InactiveIndex \/ listed[i]
<1>1. /\ pcb \in [Slots -> PcbType] /\ listed \in [Slots -> BOOLEAN]
      /\ InactiveIndex \in Slots
  BY InactiveIndexIsFree DEF TableInv, TypeOK, ProcessTypeOK
<1>2. pcb'[i] = IF i = InactiveIndex
                THEN [pid |-> InactiveIndex, state |-> "READY", name |-> req.name,
                      page |-> req.page, step |-> 0, dir |-> NewDir]
                ELSE pcb[i]
  BY <1>1 DEF CreateWithDirectory, NewBlock
<1>3. listed'[i] <=> i = InactiveIndex \/ listed[i]
  BY <1>1, Zenon DEF CreateWithDirectory
<1> QED
  BY <1>2, <1>3

\* Creation keeps the process table in order: the new process has a directory
\* that no live process has, and the count follows.
LEMMA CreateKeepsTable ==
  ASSUME TableInv, NEW req \in [name: Programs, page: Pages, size: Nat],
         ~CreateRefused(req), CreateWithDirectory(req)
  PROVE  PagingInv' /\ ProcessTypeOK' /\ UnusedDirsEmpty' /\ ActiveCountExact'
         /\ BlocksNumbered' /\ LiveHaveDirectories' /\ DirectoriesDistinct'
         /\ FramesPayForDirectories'
<1> DEFINE p == InactiveIndex
           d == NewDir
<1>1. /\ InactiveSlots # {} /\ req.page \in UserPages
      /\ FreeFrames(pageManager) # {} /\ UnusedDirs # {}
  BY AcceptedRequest
<1>2. p \in Slots /\ ~listed[p] /\ d \in Dirs /\ ~dirUsed[d]
  BY <1>1, InactiveIndexIsFree, NewDirIsUnused
<1>3. PagingInv' /\ FramesPayForDirectories'
  BY <1>1, CreateKeepsPaging, CreateKeepsPayment
<1> HIDE DEF p, d
<1>4. \A i \in Slots :
        /\ pcb'[i] = IF i = p
                    THEN [pid |-> p, state |-> "READY", name |-> req.name,
                          page |-> req.page, step |-> 0, dir |-> d]
                    ELSE pcb[i]
        /\ listed'[i] <=> i = p \/ listed[i]
  BY <1>1, CreatedBlock DEF p, d
<1>5. ProcessTypeOK'
  <2>1. [pid |-> p, state |-> "READY", name |-> req.name,
         page |-> req.page, step |-> 0, dir |-> d] \in PcbType
    BY <1>2 DEF PcbType
  <2>2. pcb' \in [Slots -> PcbType]
    BY <2>1 DEF CreateWithDirectory, NewBlock, TableInv, TypeOK, ProcessTypeOK, p, d
  <2>3. listed' \in [Slots -> BOOLEAN]
    BY DEF CreateWithDirectory, TableInv, TypeOK, ProcessTypeOK
  <2>5. active' \in Int
    BY DEF CreateWithDirectory, TableInv, TypeOK, ProcessTypeOK
  <2>4. content' \in [Frames -> Programs \cup {NoName}]
    BY DEF CreateWithDirectory, TableInv, TypeOK, ProcessTypeOK
  <2> QED BY <2>2, <2>3, <2>4, <2>5 DEF ProcessTypeOK
<1>6. UnusedDirsEmpty'
  BY <1>1, OtherTablesKept, NewDirMarked DEF TableInv, UnusedDirsEmpty
<1>7. ActiveCountExact'
  <2>1. ListedSlots' = ListedSlots \cup {p} /\ p \notin ListedSlots
    BY <1>2, <1>4 DEF ListedSlots
  <2>2. Cardinality(ListedSlots') = Cardinality(ListedSlots) + 1
    <3>1. IsFiniteSet(ListedSlots)
      BY SlotsFinite DEF ListedSlots
    <3> QED BY <2>1, <3>1, FS_AddElement
  <2>3. active' = active + 1
    BY DEF CreateWithDirectory
  <2> QED BY <2>2, <2>3 DEF TableInv, ActiveCountExact
<1>8. BlocksNumbered'
  <2> SUFFICES ASSUME NEW i \in Slots
               PROVE  \/ pcb'[i].pid = i
                      \/ pcb'[i].pid = 0 /\ pcb'[i].dir = NullDir /\ ~listed'[i]
    BY DEF BlocksNumbered
  <2>1. CASE i = p
    BY <1>4, <2>1
  <2>2. CASE i # p
    BY <1>4, <2>2 DEF TableInv, BlocksNumbered
  <2> QED BY <2>1, <2>2
<1>9. \A e \in Dirs : dirUsed'[e] <=> e = d \/ dirUsed[e]
  BY NewDirMarked DEF d
<1>10. LiveHaveDirectories'
  <2> SUFFICES ASSUME NEW i \in Slots, listed'[i]
               PROVE  pcb'[i].dir \in Dirs /\ dirUsed'[pcb'[i].dir] /\ pcb'[i].page \in UserPages
    BY DEF LiveHaveDirectories
  <2>1. CASE i = p
    BY <1>1, <1>2, <1>4, <1>9, <2>1
  <2>2. CASE i # p
    BY <1>4, <1>9, <2>2 DEF TableInv, LiveHaveDirectories
  <2> QED BY <2>1, <2>2
<1>11. DirectoriesDistinct'
  <2>1. \A i \in Slots : listed[i] => pcb[i].dir # d
    BY <1>2 DEF TableInv, LiveHaveDirectories
  <2>2. \A i \in Slots \ {p} : listed'[i] => listed[i] /\ pcb'[i].dir = pcb[i].dir
    BY <1>4
  <2>3. pcb'[p].dir = d
    BY <1>2, <1>4
  <2> SUFFICES ASSUME NEW i \in Slots, NEW j \in Slots, listed'[i], listed'[j],
                      pcb'[i].dir \in Dirs, pcb'[i].dir = pcb'[j].dir
               PROVE  i = j
    BY DEF DirectoriesDistinct, HasDirectory
  <2>4. CASE i # p /\ j # p
    BY <2>2, <2>4 DEF TableInv, DirectoriesDistinct, HasDirectory
  <2>5. CASE i = p \/ j = p
    BY <2>1, <2>2, <2>3, <2>5
  <2> QED BY <2>4, <2>5
<1> QED
  BY <1>3, <1>5, <1>6, <1>7, <1>8, <1>10, <1>11

-----------------------------------------------------------------------------
(* Destruction.                                                            *)

\* Destruction returns one block to READY and takes one slot off the list.
LEMMA DestroyedBlock ==
  ASSUME TableInv, NEW pid \in ListedSlots, DestroyListed(pid), NEW i \in Slots
  PROVE  /\ pcb'[i] = IF i = PcbOf(pid) THEN [pcb[i] EXCEPT !.state = "READY"] ELSE pcb[i]
         /\ listed'[i] <=> i # pid /\ listed[i]
<1>1. /\ pcb \in [Slots -> PcbType] /\ listed \in [Slots -> BOOLEAN]
      /\ pid \in Slots
  BY DEF TableInv, TypeOK, ProcessTypeOK, ListedSlots
<1>2. PcbOf(pid) \in Slots
  BY PcbOfIs DEF TableInv, ListedSlots
<1>3. pcb'[i] = IF i = PcbOf(pid) THEN [pcb[i] EXCEPT !.state = "READY"] ELSE pcb[i]
  <2> HIDE DEF PcbType
  <2> QED BY <1>1, <1>2 DEF DestroyListed
<1>4. listed' = [listed EXCEPT ![pid] = FALSE]
  BY DEF DestroyListed
<1>5. listed'[i] <=> i # pid /\ listed[i]
  BY <1>1, <1>4, Zenon
<1> QED
  BY <1>3, <1>5

\* The directory released, if any, is that of the process destroyed.
LEMMA ReleasedIsTargets ==
  ASSUME TableInv, NEW pid \in ListedSlots, pcb[PcbOf(pid)].dir = 0
  PROVE  PcbOf(pid) = pid /\ pcb[pid].dir = 0
BY PcbOfIs DEF TableInv, ListedSlots

LEMMA DestroyKeepsPaging ==
  ASSUME TableInv, NEW pid \in ListedSlots, DestroyListed(pid)
  PROVE  PagingInv' /\ UnusedDirsEmpty' /\ FramesPayForDirectories'
<1> USE UserPagesArePages
<1> DEFINE d == pcb[PcbOf(pid)].dir
<1>1. PagingInv /\ PagingTypeOK
  BY DEF TableInv, PagingInv
<1>2. /\ dirUsed' = ReleasedUsed(d) /\ dirTable' = ReleasedTable(d)
      /\ pageManager' = pageManager /\ cr3' = cr3
  BY DEF DestroyListed
<1>3. PagingInv'
  <2>1. CASE d = 0
    <3>1. d \in Dirs /\ dirUsed[d]
      BY <2>1, ReleasedIsTargets DEF TableInv, LiveHaveDirectories, ListedSlots
    <3>2. FreePageDirectory(d)
      BY <1>2, <3>1 DEF FreePageDirectory
    <3> HIDE DEF d
    <3> QED BY <1>1, <3>1, <3>2, FreeDirectoryKeepsInv
  <2>2. CASE d # 0
    <3>1. dirUsed' = dirUsed /\ dirTable' = dirTable
      BY <1>2, <2>2 DEF ReleasedUsed, ReleasedTable, ReleasesDirectory
    <3> QED
      BY <1>1, <1>2, <3>1
         DEF PagingInv, PagingTypeOK, FreeCountExact, MappedFramesAllocated,
             FrameMappedOnce, KernelEntryIffUsed
  <2> QED BY <2>1, <2>2
<1> HIDE DEF d
<1>4. UnusedDirsEmpty'
  <2> SUFFICES ASSUME NEW e \in Dirs, NEW v \in Pages, ~dirUsed'[e]
               PROVE  dirTable'[e][v] = NoFrame
    BY DEF UnusedDirsEmpty
  <2>1. dirTable'[e][v] = IF d = 0 /\ e = d THEN NoFrame ELSE dirTable[e][v]
    BY <1>1, <1>2, ReleasedTableIs
  <2>2. dirUsed'[e] = IF d = 0 /\ e = d THEN FALSE ELSE dirUsed[e]
    BY <1>1, <1>2, ReleasedUsedIs
  <2> QED BY <2>1, <2>2 DEF TableInv, UnusedDirsEmpty
<1>5. FramesPayForDirectories'
  <2>1. \A e \in Dirs : dirUsed'[e] => dirUsed[e]
    BY <1>1, <1>2, ReleasedUsedIs
  <2>2. UsedDirs' \subseteq UsedDirs
    BY <2>1 DEF UsedDirs
  <2>3. IsFiniteSet(UsedDirs)
    BY UsedDirsFinite
  <2>4. /\ Cardinality(UsedDirs') <= Cardinality(UsedDirs)
        /\ Cardinality(UsedDirs') \in Nat /\ Cardinality(UsedDirs) \in Nat
    BY <2>2, <2>3, FS_Subset, FS_CardinalityType
  <2>5. SUFFICES ASSUME FreeFrames(pageManager) # {}
                 PROVE  2 * Cardinality(UsedDirs') + Cardinality(FreeFrames(pageManager))
                          <= NFrames - 1
    BY <1>2 DEF FramesPayForDirectories
  <2>6. 2 * Cardinality(UsedDirs) + Cardinality(FreeFrames(pageManager)) <= NFrames - 1
    BY <2>5 DEF TableInv, FramesPayForDirectories
  <2> QED
    BY <2>4, <2>6, FreeFramesFinite, PagingAssumption
<1> QED
  BY <1>3, <1>4, <1>5

\* Destruction keeps the process table in order, even when process_destroy(0)
\* picks the block of a process that was never created.
LEMMA DestroyKeepsTable ==
  ASSUME TableInv, NEW pid \in ListedSlots, DestroyListed(pid)
  PROVE  ProcessTypeOK' /\ ActiveCountExact' /\ BlocksNumbered'
         /\ LiveHaveDirectories' /\ DirectoriesDistinct'
<1>1. \A i \in Slots :
        /\ pcb'[i] = IF i = PcbOf(pid) THEN [pcb[i] EXCEPT !.state = "READY"] ELSE pcb[i]
        /\ listed'[i] <=> i # pid /\ listed[i]
  BY DestroyedBlock
<1>2. /\ pcb \in [Slots -> PcbType] /\ listed \in [Slots -> BOOLEAN]
      /\ active \in Int /\ content \in [Frames -> Programs \cup {NoName}]
      /\ pid \in Slots /\ listed[pid] /\ PagingTypeOK
  BY DEF TableInv, TypeOK, ProcessTypeOK, ListedSlots
<1>3. \A i \in Slots :
        /\ pcb'[i].pid = pcb[i].pid /\ pcb'[i].dir = pcb[i].dir
        /\ pcb'[i].page = pcb[i].page /\ pcb'[i].name = pcb[i].name
        /\ pcb'[i].step = pcb[i].step
  <2> SUFFICES ASSUME NEW i \in Slots
               PROVE  /\ pcb'[i].pid = pcb[i].pid /\ pcb'[i].dir = pcb[i].dir
                      /\ pcb'[i].page = pcb[i].page /\ pcb'[i].name = pcb[i].name
                      /\ pcb'[i].step = pcb[i].step
    OBVIOUS
  <2>1. pcb[i] \in PcbType
    BY <1>2
  <2>2. CASE i = PcbOf(pid)
    <3>1. pcb'[i] = [pcb[i] EXCEPT !.state = "READY"]
      BY <1>1, <2>2
    <3> HIDE DEF PcbType
    <3> QED BY <2>1, <3>1, OnlyTheState
  <2>3. CASE i # PcbOf(pid)
    BY <1>1, <2>3
  <2> QED BY <2>2, <2>3
<1>4. ProcessTypeOK'
  <2>1. pcb' \in [Slots -> PcbType]
    BY <1>2 DEF DestroyListed, PcbType
  <2>2. listed' \in [Slots -> BOOLEAN]
    BY <1>2 DEF DestroyListed
  <2>3. active' \in Int /\ content' = content
    BY <1>2 DEF DestroyListed
  <2> QED BY <1>2, <2>1, <2>2, <2>3 DEF ProcessTypeOK
<1>5. ActiveCountExact'
  <2>1. ListedSlots' = ListedSlots \ {pid} /\ pid \in ListedSlots
    BY <1>1 DEF ListedSlots
  <2>2. IsFiniteSet(ListedSlots)
    BY SlotsFinite DEF ListedSlots
  <2>3. Cardinality(ListedSlots') = Cardinality(ListedSlots) - 1
    BY <2>1, <2>2, FS_RemoveElement
  <2>4. active' = active - 1
    BY DEF DestroyListed
  <2> QED BY <2>3, <2>4 DEF TableInv, ActiveCountExact
<1>6. BlocksNumbered'
  BY <1>1, <1>3 DEF TableInv, BlocksNumbered
<1>7. LiveHaveDirectories'
  <2> SUFFICES ASSUME NEW i \in Slots, listed'[i]
               PROVE  pcb'[i].dir \in Dirs /\ dirUsed'[pcb'[i].dir] /\ pcb'[i].page \in UserPages
    BY DEF LiveHaveDirectories
  <2> DEFINE d == pcb[PcbOf(pid)].dir
  <2>1. /\ listed[i] /\ i # pid
        /\ pcb[i].dir \in Dirs /\ dirUsed[pcb[i].dir] /\ pcb[i].page \in UserPages
    BY <1>1 DEF TableInv, LiveHaveDirectories
  <2>2. ~(d = 0 /\ pcb[i].dir = 0)
    BY <1>2, <2>1, ReleasedIsTargets DEF TableInv, DirectoriesDistinct, HasDirectory
  <2>3. dirUsed'[pcb[i].dir] = IF d = 0 /\ pcb[i].dir = d THEN FALSE ELSE dirUsed[pcb[i].dir]
    <3>1. dirUsed' = ReleasedUsed(d)
      BY DEF DestroyListed
    <3> HIDE DEF d
    <3> QED BY <1>2, <2>1, <3>1, ReleasedUsedIs
  <2> HIDE DEF d
  <2> QED BY <1>3, <2>1, <2>2, <2>3
<1>8. DirectoriesDistinct'
  <2>1. \A i \in Slots : HasDirectory(i)' => HasDirectory(i)
    BY <1>1, <1>3 DEF HasDirectory
  <2> SUFFICES ASSUME NEW i \in Slots, NEW j \in Slots,
                      HasDirectory(i)', HasDirectory(j)', pcb'[i].dir = pcb'[j].dir
               PROVE  i = j
    BY DEF DirectoriesDistinct
  <2> QED BY <1>3, <2>1 DEF TableInv, DirectoriesDistinct
<1> QED
  BY <1>4, <1>5, <1>6, <1>7, <1>8

-----------------------------------------------------------------------------
(* Scheduling.                                                             *)

\* A step that only moves execution points and states of blocks keeps the
\* accounts and the images.
LEMMA SameTable ==
  ASSUME TableInv, ImageIntact,
         pcb' \in [Slots -> PcbType],
         \A i \in Slots : /\ pcb'[i].pid = pcb[i].pid /\ pcb'[i].dir = pcb[i].dir
                          /\ pcb'[i].page = pcb[i].page /\ pcb'[i].name = pcb[i].name,
         UNCHANGED <<pageManager, dirUsed, dirTable, listed, active, content>>,
         cr3' \in Dirs \cup {NullDir, KernelDir}, mode' \in Modes,
         eip' \in Point, progress' \in [Dirs -> Nat], exited' \in BOOLEAN
  PROVE  TableInv' /\ ImageIntact'
<1>1. PagingInv'
  BY DEF TableInv, PagingInv, PagingTypeOK, FreeCountExact, MappedFramesAllocated,
         FrameMappedOnce, KernelEntryIffUsed
<1>2. TypeOK'
  <2>1. PagingTypeOK'
    BY <1>1 DEF PagingInv
  <2>2. ProcessTypeOK'
    BY DEF TableInv, TypeOK, ProcessTypeOK
  <2> QED BY <2>1, <2>2 DEF TypeOK
<1>3. UnusedDirsEmpty' /\ ActiveCountExact' /\ FramesPayForDirectories'
  BY DEF TableInv, UnusedDirsEmpty, ActiveCountExact, ListedSlots,
         FramesPayForDirectories, UsedDirs
<1>4. BlocksNumbered'
  BY DEF TableInv, BlocksNumbered
<1>5. LiveHaveDirectories'
  BY DEF TableInv, LiveHaveDirectories
<1>6. DirectoriesDistinct'
  BY DEF TableInv, DirectoriesDistinct, HasDirectory
<1>7. ImageIntact'
  BY DEF ImageIntact, HasDirectory
<1> QED
  BY <1>1, <1>2, <1>3, <1>4, <1>5, <1>6, <1>7 DEF TableInv

\* A process table whose live blocks all hold the points their programs have
\* reached, and that differs from the current one in nothing else.
UpToDate(blocks) ==
  /\ blocks \in [Slots -> PcbType]
  /\ \A i \in Slots :
       /\ blocks[i].pid = pcb[i].pid /\ blocks[i].dir = pcb[i].dir
       /\ blocks[i].page = pcb[i].page /\ blocks[i].name = pcb[i].name
       /\ listed[i] => blocks[i].step = progress[blocks[i].dir]
  /\ \A i, j \in Slots :
       (blocks[i].state = "RUNNING" /\ blocks[j].state = "RUNNING") => i = j

\* Before the first switch no block is running, so the table is up to date.
LEMMA BootTableUpToDate ==
  ASSUME IInv, mode = "booted"
  PROVE  UpToDate(pcb)
<1>1. \A i \in Slots : ~Running(i)
  BY DEF IInv, CpuInv, RunningBlockOwnsCpu
<1>2. \A i \in Slots : listed[i] => pcb[i].step = progress[pcb[i].dir]
  BY <1>1 DEF IInv, TableInv, LiveHaveDirectories, CpuInv, ResumesWhereInterrupted, HasDirectory
<1>3. pcb \in [Slots -> PcbType]
  BY DEF IInv, TableInv, TypeOK, ProcessTypeOK
<1> QED
  BY <1>1, <1>2, <1>3 DEF UpToDate, Running

\* Saving the interrupted context brings the table up to date: the running
\* block is the one of the program interrupted.
LEMMA SavedTableUpToDate ==
  ASSUME IInv, mode = "user"
  PROVE  UpToDate(SavedContext)
<1> DEFINE r == RunningSlot(pcb)
<1>1. /\ pcb \in [Slots -> PcbType] /\ eip \in Point /\ cr3 \in Dirs
      /\ eip.step = progress[cr3]
  BY DEF IInv, TableInv, TypeOK, ProcessTypeOK, CpuInv, ActiveDirectory, ResumesWhereInterrupted
<1>2. \A i \in Slots : (listed[i] /\ ~Running(i)) => pcb[i].step = progress[pcb[i].dir]
  BY DEF IInv, TableInv, LiveHaveDirectories, CpuInv, ResumesWhereInterrupted, HasDirectory
<1>3. \A i, j \in Slots : (Running(i) /\ Running(j)) => i = j
  BY DEF IInv, CpuInv, RunningBlockOwnsCpu
<1>4. CASE RunningSlots(pcb) = {}
  <2>1. SavedContext = pcb
    BY <1>4 DEF SavedContext
  <2>2. \A i \in Slots : ~Running(i)
    BY <1>4 DEF RunningSlots, Running
  <2>3. \A i \in Slots : pcb[i].state # "RUNNING"
    BY <2>2 DEF Running
  <2>4. \A i \in Slots : listed[i] => pcb[i].step = progress[pcb[i].dir]
    BY <1>2, <2>2
  <2> QED BY <1>1, <2>1, <2>3, <2>4 DEF UpToDate
<1>5. CASE RunningSlots(pcb) # {}
  <2>1. r \in Slots /\ pcb[r].state = "RUNNING"
    BY <1>5, RunningSlotRuns
  <2>2. pcb[r].dir = cr3 /\ pcb[r].page = eip.page
    BY <2>1 DEF IInv, CpuInv, RunningBlockOwnsCpu, Running
  <2> DEFINE saved == [pcb[r] EXCEPT !.state = "RUNNING", !.page = eip.page,
                                     !.step = eip.step, !.dir = cr3]
  <2>3. /\ saved \in PcbType /\ saved.pid = pcb[r].pid /\ saved.dir = pcb[r].dir
        /\ saved.page = pcb[r].page /\ saved.name = pcb[r].name
        /\ saved.step = eip.step
    <3>1. pcb[r] \in PcbType
      BY <1>1, <2>1
    <3> QED BY <1>1, <2>2, <3>1 DEF PcbType, Point
  <2>4. SavedContext = [pcb EXCEPT ![r] = saved]
    BY <1>5 DEF SavedContext
  <2>5. \A i \in Slots \ {r} : ~Running(i)
    BY <1>3, <2>1 DEF Running
  <2> HIDE DEF saved, r
  <2>6. /\ SavedContext \in [Slots -> PcbType] /\ SavedContext[r] = saved
        /\ \A i \in Slots \ {r} : SavedContext[i] = pcb[i]
    BY <1>1, <2>1, <2>3, <2>4
  <2>7. \A i \in Slots :
          /\ SavedContext[i].pid = pcb[i].pid /\ SavedContext[i].dir = pcb[i].dir
          /\ SavedContext[i].page = pcb[i].page /\ SavedContext[i].name = pcb[i].name
    BY <2>3, <2>6
  <2>8. \A i \in Slots : listed[i] => SavedContext[i].step = progress[SavedContext[i].dir]
    BY <1>1, <1>2, <2>2, <2>3, <2>5, <2>6
  <2>9. \A i \in Slots : SavedContext[i].state = "RUNNING" => i = r
    BY <2>5, <2>6 DEF Running
  <2> QED BY <2>6, <2>7, <2>8, <2>9 DEF UpToDate
<1> QED
  BY <1>4, <1>5

\* From a table that is up to date, the switch puts exactly one live process
\* on the CPU, at the point it had reached, or finds none and hangs.
LEMMA SwitchKeepsInv ==
  ASSUME IInv, NEW blocks, UpToDate(blocks), SwitchToNext(blocks),
         UNCHANGED <<pageManager, dirUsed, dirTable, listed, active, content, progress,
                     exited>>
  PROVE  IInv'
<1> DEFINE current == CurrentSlot(blocks)
           stopped == [blocks EXCEPT ![current].state = "READY"]
           next    == NextSlot(blocks[current].pid)
<1>1. current \in Slots /\ \A i \in Slots : blocks[i].state = "RUNNING" => i = current
  BY RunningSlotRuns, ProcessAssumption DEF CurrentSlot, UpToDate, RunningSlots
<1>2. blocks \in [Slots -> PcbType] /\ blocks[current] \in PcbType
  BY <1>1 DEF UpToDate
<1>3. blocks[current].pid \in Slots
  BY <1>2 DEF PcbType
<1>4. \/ ListedSlots = {} /\ pcb' = stopped /\ mode' = "hung" /\ UNCHANGED <<cr3, eip>>
      \/ /\ ListedSlots # {} /\ pcb' = [stopped EXCEPT ![next].state = "RUNNING"]
         /\ mode' = "user" /\ cr3' = stopped[next].dir
         /\ eip' = [page |-> stopped[next].page, step |-> stopped[next].step]
  BY DEF SwitchToNext
<1>5. ListedSlots # {} => next \in Slots /\ listed[next]
  <2> HIDE DEF current
  <2> QED BY <1>3, NextSlotIsListed
<1> HIDE DEF current, next
<1>6. stopped \in [Slots -> PcbType]
  <2> DEFINE c == [blocks[current] EXCEPT !.state = "READY"]
  <2>1. c \in PcbType
    BY <1>2, OnlyTheState
  <2>2. stopped = [blocks EXCEPT ![current] = c]
    OBVIOUS
  <2> HIDE DEF c, stopped
  <2> QED BY <1>1, <1>2, <2>1, <2>2
<1>7. \A i \in Slots :
        /\ stopped[i].state = "READY"
        /\ stopped[i].pid = pcb[i].pid /\ stopped[i].dir = pcb[i].dir
        /\ stopped[i].page = pcb[i].page /\ stopped[i].name = pcb[i].name
        /\ listed[i] => stopped[i].step = progress[stopped[i].dir]
  <2> SUFFICES ASSUME NEW i \in Slots
               PROVE  /\ stopped[i].state = "READY"
                      /\ stopped[i].pid = pcb[i].pid /\ stopped[i].dir = pcb[i].dir
                      /\ stopped[i].page = pcb[i].page /\ stopped[i].name = pcb[i].name
                      /\ listed[i] => stopped[i].step = progress[stopped[i].dir]
    OBVIOUS
  <2>1. CASE i = current
    <3>1. stopped[i] = [blocks[i] EXCEPT !.state = "READY"]
      BY <1>1, <1>2, <2>1
    <3>2. blocks[i] \in PcbType
      BY <1>2
    <3> HIDE DEF stopped
    <3>3. /\ stopped[i].state = "READY" /\ stopped[i].pid = blocks[i].pid
          /\ stopped[i].dir = blocks[i].dir /\ stopped[i].page = blocks[i].page
          /\ stopped[i].name = blocks[i].name /\ stopped[i].step = blocks[i].step
      BY <3>1, <3>2, OnlyTheState
    <3> QED BY <3>3 DEF UpToDate
  <2>2. CASE i # current
    <3>1. stopped[i] = blocks[i]
      BY <1>2, <2>2
    <3>2. blocks[i].state = "READY"
      BY <1>1, <1>2, <2>2 DEF PcbType
    <3> HIDE DEF stopped
    <3> QED BY <3>1, <3>2 DEF UpToDate
  <2> QED BY <2>1, <2>2
<1> HIDE DEF stopped
<1>8. /\ LiveHaveDirectories /\ DirectoriesDistinct /\ TableInv /\ ImageIntact
      /\ progress \in [Dirs -> Nat] /\ exited' \in BOOLEAN
      /\ cr3 \in Dirs \cup {NullDir, KernelDir} /\ eip \in Point
  BY DEF IInv, TableInv, TypeOK, PagingTypeOK
<1>9. CASE ListedSlots = {}
  <2>1. pcb' = stopped /\ mode' = "hung" /\ cr3' = cr3 /\ eip' = eip
    BY <1>4, <1>9
  <2>2. TableInv' /\ ImageIntact'
    BY <1>6, <1>7, <1>8, <2>1, SameTable DEF Modes
  <2>3. CpuInv'
    <3>1. \A i \in Slots : ~listed[i]
      BY <1>9 DEF ListedSlots
    <3> QED
      BY <1>7, <2>1, <3>1 DEF CpuInv, ActiveDirectory, RunningBlockOwnsCpu, ActiveIsRunning,
                          ResumesWhereInterrupted, Running, HasDirectory
  <2> QED BY <2>2, <2>3 DEF IInv
<1>10. CASE ListedSlots # {}
  <2> DEFINE chosen == [stopped[next] EXCEPT !.state = "RUNNING"]
  <2>1. /\ pcb' = [stopped EXCEPT ![next] = chosen] /\ mode' = "user"
        /\ cr3' = stopped[next].dir
        /\ eip' = [page |-> stopped[next].page, step |-> stopped[next].step]
        /\ next \in Slots /\ listed[next]
    BY <1>4, <1>5, <1>10
  <2>2. stopped[next] \in PcbType
    BY <1>6, <2>1
  <2>3. /\ chosen \in PcbType /\ chosen.state = "RUNNING"
        /\ chosen.pid = stopped[next].pid /\ chosen.dir = stopped[next].dir
        /\ chosen.page = stopped[next].page /\ chosen.name = stopped[next].name
        /\ chosen.step = stopped[next].step
    BY <2>2, OnlyTheState
  <2> HIDE DEF chosen
  <2>4. pcb' \in [Slots -> PcbType] /\ \A i \in Slots : pcb'[i] = IF i = next THEN chosen ELSE stopped[i]
    BY <1>6, <2>1, <2>3
  <2>5. \A i \in Slots :
          /\ pcb'[i].pid = pcb[i].pid /\ pcb'[i].dir = pcb[i].dir
          /\ pcb'[i].page = pcb[i].page /\ pcb'[i].name = pcb[i].name
          /\ pcb'[i].step = stopped[i].step
          /\ Running(i)' <=> i = next
    BY <1>7, <2>3, <2>4 DEF Running
  <2>6. cr3' = pcb[next].dir /\ cr3' \in Dirs
    BY <1>7, <1>8, <2>1 DEF LiveHaveDirectories
  <2>7. eip' \in Point
    BY <2>1, <2>2 DEF Point, PcbType
  <2>8. TableInv' /\ ImageIntact'
    BY <1>8, <2>1, <2>4, <2>5, <2>6, <2>7, SameTable DEF Modes
  <2>9. RunningBlockOwnsCpu'
    BY <1>7, <2>1, <2>5, <2>6 DEF RunningBlockOwnsCpu
  <2>10. ActiveDirectory'
    BY <2>1, <2>6 DEF ActiveDirectory
  <2>11. ActiveIsRunning'
    BY <1>8, <2>1, <2>5, <2>6 DEF ActiveIsRunning, DirectoriesDistinct, HasDirectory
  <2>12. ResumesWhereInterrupted'
    <3>1. \A i \in Slots : HasDirectory(i)' => pcb'[i].step = progress[pcb'[i].dir]
      BY <1>7, <2>5 DEF HasDirectory
    <3>2. eip'.step = progress[cr3']
      BY <1>7, <2>1
    <3> QED BY <3>1, <3>2 DEF ResumesWhereInterrupted
  <2> QED BY <2>8, <2>9, <2>10, <2>11, <2>12 DEF IInv, CpuInv
<1> QED
  BY <1>9, <1>10

LEMMA TimerInterruptKeepsInv ==
  ASSUME IInv, TimerInterrupt
  PROVE  IInv'
BY SavedTableUpToDate, SwitchKeepsInv DEF TimerInterrupt

LEMMA BootSwitchKeepsInv ==
  ASSUME IInv, BootSwitch
  PROVE  IInv'
BY BootTableUpToDate, SwitchKeepsInv DEF BootSwitch

-----------------------------------------------------------------------------
(* User code, and a CPU that loses the kernel.                             *)

LEMMA UserStepKeepsInv ==
  ASSUME IInv, UserStep
  PROVE  IInv'
<1>1. /\ UNCHANGED <<pagingVars, processVars, mode, exited>> /\ mode = "user"
      /\ eip' = [eip EXCEPT !.step = (@ + 1) % NSteps]
      /\ progress' = [progress EXCEPT ![cr3] = (@ + 1) % NSteps]
  BY DEF UserStep, CanExecute
<1>2. UNCHANGED <<pageManager, dirUsed, dirTable, cr3, pcb, listed, active, content>>
  BY <1>1 DEF pagingVars, processVars
<1>3. /\ eip \in Point /\ progress \in [Dirs -> Nat] /\ cr3 \in Dirs
      /\ pcb \in [Slots -> PcbType] /\ eip.step = progress[cr3]
  BY <1>1 DEF IInv, TableInv, TypeOK, ProcessTypeOK, CpuInv, ActiveDirectory,
              ResumesWhereInterrupted
<1>4. /\ eip' \in Point /\ eip'.page = eip.page /\ eip'.step = (eip.step + 1) % NSteps
      /\ progress' \in [Dirs -> Nat] /\ progress'[cr3] = (progress[cr3] + 1) % NSteps
      /\ \A d \in Dirs \ {cr3} : progress'[d] = progress[d]
  BY <1>1, <1>3, KernelAssumption DEF Point
<1>5. TableInv' /\ ImageIntact'
  <2>1. cr3' \in Dirs \cup {NullDir, KernelDir} /\ mode' \in Modes /\ exited' \in BOOLEAN
    BY <1>1, <1>2, <1>3 DEF Modes, IInv, TableInv, TypeOK
  <2> QED BY <1>2, <1>3, <1>4, <2>1, SameTable DEF IInv
<1>6. RunningBlockOwnsCpu' /\ ActiveIsRunning' /\ ActiveDirectory'
  BY <1>1, <1>2, <1>4
     DEF IInv, CpuInv, RunningBlockOwnsCpu, ActiveIsRunning, ActiveDirectory, Running
<1>7. ResumesWhereInterrupted'
  <2>1. \A i \in Slots : (HasDirectory(i) /\ ~Running(i)) =>
          pcb[i].dir \in Dirs \ {cr3} /\ pcb[i].step = progress[pcb[i].dir]
    BY <1>1 DEF IInv, CpuInv, ActiveIsRunning, ResumesWhereInterrupted, HasDirectory
  <2> QED
    BY <1>1, <1>2, <1>3, <1>4, <2>1 DEF ResumesWhereInterrupted, HasDirectory, Running
<1> QED
  BY <1>5, <1>6, <1>7 DEF IInv, CpuInv

LEMMA TripleFaultKeepsInv ==
  ASSUME IInv, TripleFault
  PROVE  IInv'
<1>1. UNCHANGED <<pageManager, dirUsed, dirTable, cr3, pcb, listed, active, content,
                  eip, progress, exited>> /\ mode = "user" /\ mode' = "down"
  BY DEF TripleFault, pagingVars, processVars
<1>2. TableInv' /\ ImageIntact'
  <2>1. /\ eip \in Point /\ progress \in [Dirs -> Nat] /\ exited \in BOOLEAN
        /\ pcb \in [Slots -> PcbType] /\ cr3 \in Dirs \cup {NullDir, KernelDir}
    BY DEF IInv, TableInv, TypeOK, ProcessTypeOK, PagingTypeOK
  <2> QED BY <1>1, <2>1, SameTable DEF IInv, Modes
<1>3. CpuInv'
  BY <1>1 DEF IInv, CpuInv, ActiveDirectory, RunningBlockOwnsCpu, ActiveIsRunning,
              ResumesWhereInterrupted, Running, HasDirectory
<1> QED
  BY <1>2, <1>3 DEF IInv

-----------------------------------------------------------------------------
(* Creation and destruction, as the CPU sees them.                         *)

\* A program that can execute runs in a directory that is in use.
LEMMA ExecutingInUsedDirectory ==
  ASSUME IInv, CanExecute
  PROVE  mode = "user" /\ cr3 \in Dirs /\ dirUsed[cr3]
<1>1. cr3 \in Dirs /\ dirTable[cr3][StackPage] # NoFrame /\ mode = "user"
  BY DEF CanExecute, Faulting
<1>2. StackPage \in Pages
  BY PagingAssumption DEF StackPage, Pages
<1> QED
  BY <1>1, <1>2 DEF IInv, TableInv, UnusedDirsEmpty

\* What a creation does to the CPU's side of the invariant, at boot or from
\* a program that executes.
LEMMA CreateWithDirectoryKeepsInv ==
  ASSUME IInv, NEW req \in [name: Programs, page: Pages, size: Nat],
         ~CreateRefused(req), CreateWithDirectory(req), ResetProgress, eip' = eip,
         exited' = exited,
         \/ mode = "boot" /\ mode' = "booted"
         \/ mode = "user" /\ mode' = "user" /\ cr3 \in Dirs /\ dirUsed[cr3]
  PROVE  IInv'
<1> DEFINE p == InactiveIndex
           d == NewDir
<1>1. /\ InactiveSlots # {} /\ req.page \in UserPages
      /\ FreeFrames(pageManager) # {} /\ UnusedDirs # {} /\ TableInv
  BY AcceptedRequest DEF IInv
<1>2. p \in Slots /\ ~listed[p] /\ d \in Dirs /\ ~dirUsed[d]
  BY <1>1, InactiveIndexIsFree, NewDirIsUnused
<1>3. \A e \in Dirs : dirUsed'[e] <=> e = d \/ dirUsed[e]
  BY <1>1, NewDirMarked
<1>4. \A e \in Dirs : dirTable'[e] = IF e = d THEN NewTable(req) ELSE dirTable[e]
  BY <1>1, OtherTablesKept
<1>5. \A i \in Slots :
        /\ pcb'[i] = IF i = p
                    THEN [pid |-> p, state |-> "READY", name |-> req.name,
                          page |-> req.page, step |-> 0, dir |-> d]
                    ELSE pcb[i]
        /\ listed'[i] <=> i = p \/ listed[i]
  BY <1>1, CreatedBlock
<1>6. /\ cr3' = cr3
      /\ content' = [f \in Frames |-> IF f = LoadFrame(req) THEN req.name ELSE content[f]]
  BY DEF CreateWithDirectory
<1>7. PagingInv' /\ ProcessTypeOK' /\ UnusedDirsEmpty' /\ ActiveCountExact'
      /\ BlocksNumbered' /\ LiveHaveDirectories' /\ DirectoriesDistinct'
      /\ FramesPayForDirectories'
  BY <1>1, CreateKeepsTable
<1>8. /\ NewTable(req) \in TableType /\ NewTable(req)[req.page] # NoFrame
      /\ LoadFrame(req) = NewTable(req)[req.page]
  BY <1>1, NewTableIs DEF LoadFrame
<1> HIDE DEF p, d
<1>9. /\ progress' \in [Dirs -> Nat]
      /\ progress'[d] = 0
      /\ \A e \in Dirs : dirUsed[e] => progress'[e] = progress[e]
  <2>1. progress \in [Dirs -> Nat]
    BY DEF IInv, TableInv, TypeOK
  <2>2. progress' = [e \in Dirs |-> IF dirUsed'[e] /\ ~dirUsed[e] THEN 0 ELSE progress[e]]
    BY DEF ResetProgress
  <2>3. dirUsed'[d]
    BY <1>2, <1>3
  <2> QED BY <1>2, <2>1, <2>2, <2>3
<1>10. TypeOK'
  BY <1>7, <1>9 DEF PagingInv, TypeOK, IInv, TableInv, Modes
<1>11. RunningBlockOwnsCpu'
  <2>1. \A i \in Slots : Running(i)' => Running(i) /\ pcb'[i] = pcb[i]
    BY <1>5 DEF Running
  <2> QED BY <1>6, <2>1 DEF IInv, CpuInv, RunningBlockOwnsCpu
<1>12. ActiveDirectory'
  BY <1>6 DEF IInv, CpuInv, ActiveDirectory
<1>13. ActiveIsRunning'
  <2> SUFFICES ASSUME mode' = "user", NEW i \in Slots, listed'[i], pcb'[i].dir = cr3
               PROVE  Running(i)'
    BY <1>6 DEF ActiveIsRunning
  <2>1. i # p
    BY <1>2, <1>5
  <2> QED BY <1>5, <2>1 DEF IInv, CpuInv, ActiveIsRunning, Running
<1>14. \A i \in Slots : HasDirectory(i)' =>
         \/ i = p /\ pcb'[i].dir = d
         \/ i # p /\ HasDirectory(i) /\ pcb'[i] = pcb[i] /\ dirUsed[pcb[i].dir]
            /\ pcb[i].dir # d /\ pcb[i].page \in UserPages
  BY <1>1, <1>2, <1>5 DEF HasDirectory, TableInv, LiveHaveDirectories
<1>15. ResumesWhereInterrupted'
  <2>1. ASSUME NEW i \in Slots, HasDirectory(i)', ~Running(i)'
        PROVE  pcb'[i].step = progress'[pcb'[i].dir]
    <3>1. CASE i = p
      BY <1>5, <1>9, <2>1, <3>1
    <3>2. CASE i # p
      <4>1. HasDirectory(i) /\ pcb'[i] = pcb[i] /\ dirUsed[pcb[i].dir] /\ ~Running(i)
        BY <1>14, <2>1, <3>2 DEF Running
      <4> QED
        BY <1>9, <4>1 DEF IInv, CpuInv, ResumesWhereInterrupted, HasDirectory
    <3> QED BY <3>1, <3>2
  <2>2. (mode' = "user" /\ cr3' \in Dirs) => eip'.step = progress'[cr3']
    BY <1>6, <1>9 DEF IInv, CpuInv, ResumesWhereInterrupted
  <2> QED BY <2>1, <2>2 DEF ResumesWhereInterrupted
<1>16. ImageIntact'
  <2> SUFFICES ASSUME NEW i \in Slots, HasDirectory(i)'
               PROVE  /\ dirTable'[pcb'[i].dir][pcb'[i].page] # NoFrame
                      /\ content'[dirTable'[pcb'[i].dir][pcb'[i].page]] = pcb'[i].name
    BY DEF ImageIntact
  <2>1. dirTable'[d] = NewTable(req) /\ LoadFrame(req) \in Frames
    BY <1>1, <1>2, <1>4, <1>8, UserPagesArePages DEF TableType
  <2>2. CASE i = p
    BY <1>2, <1>5, <1>6, <1>8, <2>1, <2>2
  <2>3. CASE i # p
    <3>1. /\ HasDirectory(i) /\ pcb'[i] = pcb[i] /\ pcb[i].dir # d
          /\ pcb[i].page \in UserPages
      BY <1>14, <2>3
    <3>2. /\ dirTable'[pcb[i].dir] = dirTable[pcb[i].dir]
          /\ dirTable[pcb[i].dir][pcb[i].page] # NoFrame
          /\ content[dirTable[pcb[i].dir][pcb[i].page]] = pcb[i].name
      BY <1>4, <3>1 DEF IInv, ImageIntact, HasDirectory
    <3>3. dirTable[pcb[i].dir][pcb[i].page] # LoadFrame(req)
      <4>1. FrameMappedOnce'
        BY <1>7 DEF PagingInv
      <4>2. dirTable'[d][req.page] = LoadFrame(req) /\ pcb[i].dir \in Dirs
        BY <1>8, <2>1, <3>1 DEF HasDirectory
      <4> QED BY <1>1, <1>2, <3>1, <3>2, <4>1, <4>2 DEF FrameMappedOnce
    <3>4. dirTable[pcb[i].dir][pcb[i].page] \in Frames
      <4>1. dirTable \in [Dirs -> TableType]
        BY <1>1 DEF TableInv, PagingInv, PagingTypeOK
      <4> QED BY <3>1, <3>2, <4>1, UserPagesArePages DEF HasDirectory, TableType
    <3> QED BY <1>6, <3>1, <3>2, <3>3, <3>4
  <2> QED BY <2>2, <2>3
<1> QED
  BY <1>7, <1>10, <1>11, <1>12, <1>13, <1>15, <1>16 DEF IInv, TableInv, CpuInv

\* A refused request changes nothing, and no request meets a full pool of
\* directories.
LEMMA CreateKeepsInv ==
  ASSUME IInv, NEW req \in [name: Programs, page: Pages, size: Nat],
         CreateUserProcess(req), ResetProgress, eip' = eip, exited' = exited,
         \/ mode = "boot" /\ mode' = "booted"
         \/ mode = "user" /\ mode' = "user" /\ cr3 \in Dirs /\ dirUsed[cr3]
  PROVE  IInv'
<1>1. CASE CreateRefused(req)
  <2>1. UNCHANGED <<pageManager, dirUsed, dirTable, cr3, pcb, listed, active, content>>
    BY <1>1 DEF CreateUserProcess, pagingVars, processVars
  <2>2. progress \in [Dirs -> Nat] /\ exited' \in BOOLEAN
    BY DEF IInv, TableInv, TypeOK
  <2>3. progress' = progress
    BY <2>1, <2>2 DEF ResetProgress
  <2>4. TableInv' /\ ImageIntact'
    <3>1. /\ eip \in Point /\ pcb \in [Slots -> PcbType]
          /\ cr3 \in Dirs \cup {NullDir, KernelDir} /\ mode' \in Modes
      BY DEF IInv, TableInv, TypeOK, ProcessTypeOK, PagingTypeOK, Modes
    <3> QED BY <2>1, <2>2, <2>3, <3>1, SameTable DEF IInv
  <2>5. CpuInv'
    BY <2>1, <2>3 DEF IInv, CpuInv, ActiveDirectory, RunningBlockOwnsCpu,
                      ActiveIsRunning, ResumesWhereInterrupted, Running, HasDirectory
  <2> QED BY <2>4, <2>5 DEF IInv
<1>2. CASE ~CreateRefused(req)
  <2>1. UnusedDirs # {}
    BY <1>2, AcceptedRequest DEF IInv
  <2>2. CreateWithDirectory(req)
    BY <1>2, <2>1 DEF CreateUserProcess, CreateWithoutDirectory
  <2> QED BY <1>2, <2>2, CreateWithDirectoryKeepsInv
<1> QED
  BY <1>1, <1>2

\* Destruction takes no running block but its target's out of service, and no
\* directory but its target's out of use.
LEMMA DestroyKeepsInv ==
  ASSUME IInv, NEW pid, Destroy(pid), mode' = mode, eip' = eip, progress' = progress,
         exited' \in BOOLEAN
  PROVE  IInv'
<1>1. /\ TableInv /\ eip \in Point /\ pcb \in [Slots -> PcbType]
      /\ cr3 \in Dirs \cup {NullDir, KernelDir} /\ mode \in Modes
      /\ progress \in [Dirs -> Nat] /\ PagingTypeOK
  BY DEF IInv, TableInv, TypeOK, ProcessTypeOK, PagingTypeOK
<1>2. CASE DestroyRefused(pid)
  <2>1. UNCHANGED <<pageManager, dirUsed, dirTable, cr3, pcb, listed, active, content>>
    BY <1>2 DEF Destroy, pagingVars, processVars
  <2>2. TableInv' /\ ImageIntact'
    BY <1>1, <2>1, SameTable DEF IInv
  <2>3. CpuInv'
    BY <2>1 DEF IInv, CpuInv, ActiveDirectory, RunningBlockOwnsCpu, ActiveIsRunning,
                ResumesWhereInterrupted, Running, HasDirectory
  <2> QED BY <2>2, <2>3 DEF IInv
<1>3. CASE ~DestroyRefused(pid)
  <2> DEFINE d == pcb[PcbOf(pid)].dir
  <2>1. /\ pid \in ListedSlots /\ pid \in Slots /\ listed[pid] /\ DestroyListed(pid)
    BY <1>3 DEF Destroy, DestroyRefused, ListedSlots
  <2>2. /\ PagingInv' /\ UnusedDirsEmpty' /\ FramesPayForDirectories' /\ ProcessTypeOK'
        /\ ActiveCountExact' /\ BlocksNumbered' /\ LiveHaveDirectories'
        /\ DirectoriesDistinct'
    BY <1>1, <2>1, DestroyKeepsPaging, DestroyKeepsTable
  <2>3. /\ cr3' = cr3 /\ content' = content /\ dirTable' = ReleasedTable(d)
    BY <2>1 DEF DestroyListed
  <2>4. PcbOf(pid) = pid \/ ~listed[PcbOf(pid)]
    BY <1>1, <2>1, PcbOfIs DEF TableInv
  <2>5. \A i \in Slots : /\ i = PcbOf(pid) => pcb'[i] = [pcb[i] EXCEPT !.state = "READY"]
                         /\ i # PcbOf(pid) => pcb'[i] = pcb[i]
                         /\ listed'[i] <=> i # pid /\ listed[i]
    BY <1>1, <2>1, DestroyedBlock
  <2>6. \A i \in Slots : listed'[i] => listed[i] /\ i # pid /\ pcb'[i] = pcb[i]
    BY <2>4, <2>5
  <2>7. \A i \in Slots : Running(i)' => Running(i) /\ pcb'[i] = pcb[i]
    <3> SUFFICES ASSUME NEW i \in Slots, Running(i)'
                 PROVE  Running(i) /\ pcb'[i] = pcb[i]
      OBVIOUS
    <3>1. i # PcbOf(pid)
      <4>1. pcb[i] \in PcbType
        BY <1>1
      <4> QED BY <2>5, <4>1, OnlyTheState DEF Running
    <3> QED BY <2>5, <3>1 DEF Running
  <2>8. TypeOK'
    BY <1>1, <2>2 DEF TypeOK, PagingInv
  <2>9. RunningBlockOwnsCpu'
    BY <2>3, <2>7 DEF IInv, CpuInv, RunningBlockOwnsCpu
  <2>10. ActiveDirectory' /\ ActiveIsRunning'
    BY <2>3, <2>6 DEF IInv, CpuInv, ActiveDirectory, ActiveIsRunning, Running
  <2>11. ResumesWhereInterrupted'
    BY <2>3, <2>6 DEF IInv, CpuInv, ResumesWhereInterrupted, HasDirectory, Running
  <2>12. ImageIntact'
    <3> SUFFICES ASSUME NEW i \in Slots, HasDirectory(i)'
                 PROVE  /\ dirTable'[pcb'[i].dir][pcb'[i].page] # NoFrame
                        /\ content'[dirTable'[pcb'[i].dir][pcb'[i].page]] = pcb'[i].name
      BY DEF ImageIntact
    <3>1. HasDirectory(i) /\ i # pid /\ pcb'[i] = pcb[i]
      BY <2>6 DEF HasDirectory
    <3>2. ~(d = 0 /\ pcb[i].dir = 0)
      BY <1>1, <2>1, <3>1, ReleasedIsTargets DEF TableInv, DirectoriesDistinct, HasDirectory
    <3>3. pcb[i].page \in Pages /\ pcb[i].dir \in Dirs
      BY <1>1, <3>1 DEF PcbType, HasDirectory
    <3> HIDE DEF d
    <3>4. dirTable'[pcb[i].dir][pcb[i].page] = dirTable[pcb[i].dir][pcb[i].page]
      BY <1>1, <2>3, <3>2, <3>3, ReleasedTableIs
    <3> QED BY <2>3, <3>1, <3>4 DEF IInv, ImageIntact
  <2> QED
    BY <2>2, <2>8, <2>9, <2>10, <2>11, <2>12 DEF IInv, TableInv, CpuInv
<1> QED
  BY <1>2, <1>3

-----------------------------------------------------------------------------
(* The invariant.                                                          *)

LEMMA InitInv == Init => IInv
<1> SUFFICES ASSUME Init PROVE IInv
  OBVIOUS
<1>1. PagingInv
  BY PagingInitInv DEF Init
<1>2. /\ \A i \in Slots : /\ pcb[i] = [pid |-> 0, state |-> "READY", name |-> NoName,
                                       page |-> 0, step |-> 0, dir |-> NullDir]
                          /\ ~listed[i]
      /\ active = 0 /\ mode = "boot" /\ cr3 = KernelDir
      /\ eip = [page |-> 0, step |-> 0]
  BY DEF Init, ProcessInit, PagingInit
<1>3. TypeOK
  <2>1. [pid |-> 0, state |-> "READY", name |-> NoName, page |-> 0, step |-> 0,
         dir |-> NullDir] \in PcbType
    BY ProcessAssumption, PagingAssumption DEF PcbType, Pages
  <2>2. ProcessTypeOK
    BY <2>1 DEF Init, ProcessInit, ProcessTypeOK
  <2>3. eip \in Point
    BY <1>2, PagingAssumption DEF Point, Pages
  <2> QED
    BY <1>1, <2>2, <2>3 DEF PagingInv, TypeOK, Init, Modes
<1>4. UnusedDirsEmpty
  BY DEF Init, PagingInit, UnusedDirsEmpty, EmptyTable
<1>5. ActiveCountExact
  <2>1. ListedSlots = {}
    BY <1>2 DEF ListedSlots
  <2> QED BY <1>2, <2>1, FS_EmptySet DEF ActiveCountExact
<1>6. BlocksNumbered /\ LiveHaveDirectories /\ DirectoriesDistinct /\ ImageIntact
  BY <1>2 DEF BlocksNumbered, LiveHaveDirectories, DirectoriesDistinct, ImageIntact, HasDirectory
<1>7. FramesPayForDirectories
  <2>1. UsedDirs = {}
    BY DEF Init, PagingInit, UsedDirs
  <2>2. Cardinality(FreeFrames(pageManager)) = NFrames - 1
    BY <1>1 DEF PagingInv, FreeCountExact, Init, PagingInit
  <2> QED BY <2>1, <2>2, FS_EmptySet, PagingAssumption DEF FramesPayForDirectories
<1>8. CpuInv
  BY <1>2 DEF CpuInv, ActiveDirectory, RunningBlockOwnsCpu, ActiveIsRunning,
              ResumesWhereInterrupted, Running, HasDirectory
<1> QED
  BY <1>1, <1>3, <1>4, <1>5, <1>6, <1>7, <1>8 DEF IInv, TableInv

LEMMA StutterKeepsInv ==
  ASSUME IInv, UNCHANGED vars
  PROVE  IInv'
<1>1. UNCHANGED <<pageManager, dirUsed, dirTable, cr3, pcb, listed, active, content,
                  mode, eip, progress, exited>>
  BY DEF vars
<1>2. TableInv' /\ ImageIntact'
  <2>1. /\ eip \in Point /\ pcb \in [Slots -> PcbType] /\ mode \in Modes
        /\ cr3 \in Dirs \cup {NullDir, KernelDir} /\ progress \in [Dirs -> Nat]
        /\ exited \in BOOLEAN
    BY DEF IInv, TableInv, TypeOK, ProcessTypeOK, PagingTypeOK
  <2> QED BY <1>1, <2>1, SameTable DEF IInv
<1>3. CpuInv'
  BY <1>1 DEF IInv, CpuInv, ActiveDirectory, RunningBlockOwnsCpu, ActiveIsRunning,
              ResumesWhereInterrupted, Running, HasDirectory
<1> QED
  BY <1>2, <1>3 DEF IInv

LEMMA NextKeepsInv == IInv /\ [Next]_vars => IInv'
<1> SUFFICES ASSUME IInv, [Next]_vars PROVE IInv'
  OBVIOUS
<1>1. CASE BootCreateShell
  <2>1. ShellRequest \in [name: Programs, page: Pages, size: Nat]
    BY ProcessAssumption, PagingAssumption DEF ShellRequest, Pages
  <2> QED BY <1>1, <2>1, CreateKeepsInv DEF BootCreateShell
<1>2. CASE BootSwitch
  BY <1>2, BootSwitchKeepsInv
<1>3. CASE TimerInterrupt
  BY <1>3, TimerInterruptKeepsInv
<1>4. CASE UserStep
  BY <1>4, UserStepKeepsInv
<1>5. CASE TripleFault
  BY <1>5, TripleFaultKeepsInv
<1>6. ASSUME NEW req \in Request, SysProcessCreate(req) PROVE IInv'
  <2>1. req \in [name: Programs, page: Pages, size: Nat]
    BY ProcessAssumption DEF Request
  <2> QED BY <1>6, <2>1, CreateKeepsInv, ExecutingInUsedDirectory DEF SysProcessCreate
<1>7. CASE SysCreateClock
  <2>1. ClockRequest \in [name: Programs, page: Pages, size: Nat]
    BY ProcessAssumption, PagingAssumption DEF ClockRequest, Pages
  <2> QED BY <1>7, <2>1, CreateKeepsInv, ExecutingInUsedDirectory DEF SysCreateClock
<1>8. ASSUME NEW pid \in 0 .. NProcs, SysProcessDestroy(pid) PROVE IInv'
  BY <1>8, DestroyKeepsInv DEF SysProcessDestroy
<1>9. ASSUME NEW pid \in 0 .. NProcs, SysKill(pid) PROVE IInv'
  <2>1. CASE Destroy(pid)
    <3>1. exited' \in BOOLEAN
      BY <1>9 DEF SysKill, IInv, TableInv, TypeOK
    <3> QED BY <1>9, <2>1, <3>1, DestroyKeepsInv DEF SysKill
  <2>2. CASE UNCHANGED <<pagingVars, processVars>>
    <3>1. UNCHANGED vars
      BY <1>9, <2>2 DEF SysKill, vars, pagingVars, processVars
    <3> QED BY <3>1, StutterKeepsInv
  <2> QED BY <1>9, <2>1, <2>2 DEF SysKill
<1>10. CASE UNCHANGED vars
  BY <1>10, StutterKeepsInv
<1> QED
  BY <1>1, <1>2, <1>3, <1>4, <1>5, <1>6, <1>7, <1>8, <1>9, <1>10
     DEF Next, MachineStep, ShippedCall, ExitCall

LEMMA InvariantHolds == Spec => []IInv
BY InitInv, NextKeepsInv, PTL DEF Spec

-----------------------------------------------------------------------------
(* The results.                                                            *)

\* Every variable keeps its type: frames, entries, blocks and execution
\* points stay within their tables.
THEOREM TypeCorrect == Spec => []TypeOK
BY InvariantHolds, PTL DEF IInv, TableInv

\* The free-frame count of paging.c is exact, whatever the programs do.
THEOREM FreeCountCorrect == Spec => []FreeCountExact
BY InvariantHolds, PTL DEF IInv, TableInv, PagingInv

\* The process count of process.c is exact, so an accepted creation always
\* finds a slot.
THEOREM ActiveCountCorrect == Spec => []ActiveCountExact
BY InvariantHolds, PTL DEF IInv, TableInv

\* No physical frame is mapped by two user pages: processes are isolated.
THEOREM FramesIsolated == Spec => []FrameMappedOnce
BY InvariantHolds, PTL DEF IInv, TableInv, PagingInv

\* No two live processes share a page directory.
THEOREM DirectoriesIsolated == Spec => []DirectoriesDistinct
BY InvariantHolds, PTL DEF IInv, TableInv

\* The running block is the one of the program on the CPU, so the timer
\* handler saves the interrupted context where it belongs.
THEOREM ContextSavedToOwner == Spec => []RunningBlockOwnsCpu
BY InvariantHolds, PTL DEF IInv, CpuInv

\* A process that was interrupted resumes where it was.
THEOREM ResumptionExact == Spec => []ResumesWhereInterrupted
BY InvariantHolds, PTL DEF IInv, CpuInv

\* The code page of a live process holds its own program.
THEOREM ImagesIntact == Spec => []ImageIntact
BY InvariantHolds, PTL DEF IInv

\* While there is a free frame there is a free directory: the error path that
\* leaks a slot is unreachable when the pool is as large as PoolAssumption says.
THEOREM SlotLeakUnreachable == Spec => []DirectoryAvailable
<1>1. ASSUME IInv PROVE DirectoryAvailable
  <2> SUFFICES ASSUME pageManager.free_page_frame_count >= 1, UnusedDirs = {}
               PROVE  FALSE
    BY DEF DirectoryAvailable
  <2>1. Cardinality(FreeFrames(pageManager)) >= 1
    BY <1>1 DEF IInv, TableInv, PagingInv, FreeCountExact
  <2>2. FreeFrames(pageManager) # {}
    BY <2>1, FS_EmptySet
  <2>3. UsedDirs = Dirs
    BY DEF UnusedDirs, UsedDirs
  <2>4. Cardinality(Dirs) = NDirs
    BY PagingAssumption, FS_Interval
  <2>5. 2 * NDirs + Cardinality(FreeFrames(pageManager)) <= NFrames - 1
    BY <1>1, <2>2, <2>3, <2>4 DEF IInv, TableInv, FramesPayForDirectories
  <2> QED
    BY <2>1, <2>5, FreeFramesFinite, PoolAssumption, PagingAssumption
<1> QED
  BY <1>1, InvariantHolds, PTL
=============================================================================
