---------------------------- MODULE PagingProofs ----------------------------
(***************************************************************************)
(* Proofs about Paging: what the frame search and the directory search     *)
(* return, what an allocation preserves, and the safety of the functions   *)
(* of paging.c called in any order.  The first part is stated over         *)
(* arbitrary frame managers and directory tables, because the process      *)
(* manager composes several allocations in one step.                       *)
(***************************************************************************)
EXTENDS Paging, TLAPS, WellFoundedInduction, FiniteSetTheorems

USE DEF Frames, UserFrames, Dirs, NoFrame, NullDir, KernelDir

-----------------------------------------------------------------------------
(* Searches.                                                               *)

\* A non-empty set of natural numbers has a least element; every first-fit
\* loop of the kernel is a search for one.
LEMMA LeastElement ==
  ASSUME NEW T, T \subseteq Nat, T # {}
  PROVE  \E x \in T : \A y \in T : x <= y
<1> DEFINE Less == OpToRel(<, Nat)
<1>1. IsWellFoundedOn(Less, Nat)
  BY NatLessThanWellFounded, Zenon
<1>2. PICK x \in T : \A y \in T : ~ (<<y, x>> \in Less)
  <2> HIDE DEF Less
  <2> QED BY <1>1, WFMin, Zenon
<1>3. \A y \in T : <<y, x>> \in Less <=> y < x
  BY Zenon DEF OpToRel
<1>4. \A y \in T : ~(y < x)
  BY <1>2, <1>3
<1> QED
  BY <1>4

\* The frame search of paging_allocate_user_page_frame returns a free frame.
LEMMA FirstFreeFrameIsFree ==
  ASSUME NEW pm, FreeFrames(pm) # {}
  PROVE  FirstFreeFrame(pm) \in FreeFrames(pm)
<1>1. FreeFrames(pm) \subseteq Nat
  BY PagingAssumption DEF FreeFrames
<1>2. \E f \in FreeFrames(pm) : \A g \in FreeFrames(pm) : f <= g
  BY <1>1, LeastElement
<1> QED
  BY <1>2 DEF FirstFreeFrame

\* The search of paging_create_new_page_directory returns an unused directory.
LEMMA NewDirIsUnused ==
  ASSUME UnusedDirs # {}
  PROVE  NewDir \in Dirs /\ ~dirUsed[NewDir]
<1>1. UnusedDirs \subseteq Nat
  BY PagingAssumption DEF UnusedDirs
<1>2. \E d \in UnusedDirs : \A e \in UnusedDirs : d <= e
  BY <1>1, LeastElement
<1> QED
  BY <1>2 DEF NewDir, UnusedDirs

-----------------------------------------------------------------------------
(* One allocation.                                                         *)

LEMMA AllocatedType ==
  ASSUME NEW pm \in PageManagerType
  PROVE  Allocated(pm) \in PageManagerType
<1>1. CASE FreeFrames(pm) = {}
  BY <1>1 DEF Allocated
<1>2. CASE FreeFrames(pm) # {}
  <2>1. [pm.page_frame_map EXCEPT ![FirstFreeFrame(pm)] = TRUE] \in [Frames -> BOOLEAN]
    BY DEF PageManagerType
  <2>2. pm.free_page_frame_count - 1 \in Int
    BY DEF PageManagerType
  <2> QED
    BY <1>2, <2>1, <2>2 DEF Allocated, PageManagerType
<1> QED BY <1>1, <1>2

LEMMA MappedType ==
  ASSUME NEW pm \in PageManagerType, NEW table \in TableType, NEW v \in Pages
  PROVE  Mapped(table, pm, v) \in TableType
<1>1. CASE FreeFrames(pm) = {}
  BY <1>1 DEF Mapped
<1>2. CASE FreeFrames(pm) # {}
  <2>1. FirstFreeFrame(pm) \in Frames
    BY <1>2, FirstFreeFrameIsFree DEF FreeFrames
  <2> QED BY <1>2, <2>1 DEF Mapped, TableType
<1> QED BY <1>1, <1>2

\* An allocation marks the frame it maps, and no other.
LEMMA AllocatedMap ==
  ASSUME NEW pm \in PageManagerType, FreeFrames(pm) # {}, NEW g \in UserFrames
  PROVE  Allocated(pm).page_frame_map[g]
           <=> g = FirstFreeFrame(pm) \/ pm.page_frame_map[g]
<1> DEFINE f == FirstFreeFrame(pm)
<1>1. Allocated(pm).page_frame_map = [pm.page_frame_map EXCEPT ![f] = TRUE]
  BY DEF Allocated
<1>2. pm.page_frame_map \in [Frames -> BOOLEAN] /\ g \in Frames
  BY DEF PageManagerType
<1>3. [pm.page_frame_map EXCEPT ![f] = TRUE][g]
        = (IF g = f THEN TRUE ELSE pm.page_frame_map[g])
  BY <1>2, Zenon
<1> QED
  BY <1>1, <1>3, Zenon

\* An allocation takes exactly the frame it maps out of the free frames.
LEMMA AllocatedFreeFrames ==
  ASSUME NEW pm \in PageManagerType, FreeFrames(pm) # {}
  PROVE  FreeFrames(Allocated(pm)) = FreeFrames(pm) \ {FirstFreeFrame(pm)}
BY AllocatedMap, Zenon DEF FreeFrames

\* The number of free frames is finite, and zero only when none is free.
LEMMA FreeFramesFinite ==
  ASSUME NEW pm
  PROVE  /\ IsFiniteSet(FreeFrames(pm))
         /\ Cardinality(FreeFrames(pm)) \in Nat
         /\ Cardinality(FreeFrames(pm)) = 0 <=> FreeFrames(pm) = {}
<1>1. IsFiniteSet(UserFrames)
  BY PagingAssumption, FS_Interval
<1>2. FreeFrames(pm) \subseteq UserFrames
  BY DEF FreeFrames
<1>3. IsFiniteSet(FreeFrames(pm))
  BY <1>1, <1>2, FS_Subset
<1> QED
  BY <1>3, FS_CardinalityType, FS_EmptySet

\* The counter stays equal to the number of free frames.
CountExact(pm) == pm.free_page_frame_count = Cardinality(FreeFrames(pm))

LEMMA AllocatedCount ==
  ASSUME NEW pm \in PageManagerType, CountExact(pm)
  PROVE  CountExact(Allocated(pm))
<1>1. CASE FreeFrames(pm) = {}
  BY <1>1 DEF Allocated
<1>2. CASE FreeFrames(pm) # {}
  <2> DEFINE f == FirstFreeFrame(pm)
  <2>1. f \in FreeFrames(pm)
    BY <1>2, FirstFreeFrameIsFree
  <2>2. Cardinality(FreeFrames(pm) \ {f}) = Cardinality(FreeFrames(pm)) - 1
    BY <2>1, FreeFramesFinite, FS_RemoveElement
  <2>3. Allocated(pm).free_page_frame_count = pm.free_page_frame_count - 1
    BY <1>2 DEF Allocated
  <2> QED
    BY <1>2, <2>2, <2>3, AllocatedFreeFrames DEF CountExact
<1> QED BY <1>1, <1>2

-----------------------------------------------------------------------------
(* Frames and the pages that map them.                                     *)

\* FrameMappedOnce and MappedFramesAllocated, of any manager and any tables.
Sound(pm, tables) ==
  /\ \A d \in Dirs, v \in UserPages :
       tables[d][v] # NoFrame =>
         tables[d][v] \in UserFrames /\ pm.page_frame_map[tables[d][v]]
  /\ \A d, e \in Dirs, v, w \in UserPages :
       (tables[d][v] # NoFrame /\ tables[d][v] = tables[e][w]) => d = e /\ v = w

LEMMA SoundIsInvariants ==
  Sound(pageManager, dirTable) <=> MappedFramesAllocated /\ FrameMappedOnce
BY DEF Sound, MappedFramesAllocated, FrameMappedOnce

LEMMA UserPagesArePages == UserPages \subseteq Pages /\ KernelPage \in Pages
                           /\ KernelPage \notin UserPages /\ StackPage \in UserPages
BY PagingAssumption DEF UserPages, Pages, StackPage

\* Mapping a newly allocated frame at a user page keeps frames separate.
LEMMA AllocationSound ==
  ASSUME NEW pm \in PageManagerType, NEW tables \in [Dirs -> TableType],
         Sound(pm, tables), NEW d \in Dirs, NEW v \in UserPages
  PROVE  Sound(Allocated(pm), [tables EXCEPT ![d] = Mapped(tables[d], pm, v)])
<1>1. CASE FreeFrames(pm) = {}
  BY <1>1 DEF Allocated, Mapped
<1>2. CASE FreeFrames(pm) # {}
  <2> DEFINE f  == FirstFreeFrame(pm)
             T2 == [tables EXCEPT ![d] = Mapped(tables[d], pm, v)]
  <2>1. f \in UserFrames /\ ~pm.page_frame_map[f]
    BY <1>2, FirstFreeFrameIsFree DEF FreeFrames
  <2>2. \A e \in Dirs, w \in UserPages :
          T2[e][w] = IF e = d /\ w = v THEN f ELSE tables[e][w]
    BY <1>2, UserPagesArePages DEF Mapped, TableType
  <2>3. \A g \in UserFrames :
          Allocated(pm).page_frame_map[g] <=> g = f \/ pm.page_frame_map[g]
    BY <1>2, AllocatedMap
  <2>4. \A e \in Dirs, w \in UserPages : tables[e][w] # f
    BY <2>1, PagingAssumption DEF Sound
  <2> HIDE DEF T2, f
  <2>5. \A e \in Dirs, w \in UserPages :
          T2[e][w] # NoFrame =>
            T2[e][w] \in UserFrames /\ Allocated(pm).page_frame_map[T2[e][w]]
    BY <2>1, <2>2, <2>3 DEF Sound
  <2>6. ASSUME NEW e1 \in Dirs, NEW e2 \in Dirs,
               NEW w1 \in UserPages, NEW w2 \in UserPages,
               T2[e1][w1] # NoFrame, T2[e1][w1] = T2[e2][w2]
        PROVE  e1 = e2 /\ w1 = w2
    BY <2>2, <2>4, <2>6 DEF Sound
  <2>7. Sound(Allocated(pm), T2)
    BY <2>5, <2>6 DEF Sound
  <2> QED BY <2>7 DEF T2
<1> QED BY <1>1, <1>2

\* Changing only the kernel's entry of a directory, or clearing a directory,
\* takes no user mapping into account that was not there.
LEMMA SubmappingSound ==
  ASSUME NEW pm, NEW tables, Sound(pm, tables), NEW t2,
         \A d \in Dirs, v \in UserPages : t2[d][v] \in {NoFrame, tables[d][v]}
  PROVE  Sound(pm, t2)
BY DEF Sound

-----------------------------------------------------------------------------
(* The functions of paging.c, called in any order.                         *)

\* What every call preserves.
PagingInv ==
  /\ PagingTypeOK
  /\ FreeCountExact
  /\ MappedFramesAllocated
  /\ FrameMappedOnce
  /\ KernelEntryIffUsed

LEMMA PagingInitInv == PagingInit => PagingInv
<1> SUFFICES ASSUME PagingInit PROVE PagingInv
  OBVIOUS
<1> USE PagingAssumption
<1>1. pageManager \in PageManagerType
  BY DEF PagingInit, PageManagerType
<1>2. dirTable \in [Dirs -> TableType] /\ EmptyTable \in TableType
  BY DEF PagingInit, TableType, EmptyTable
<1>3. PagingTypeOK
  BY <1>1, <1>2 DEF PagingInit, PagingTypeOK
<1>4. FreeCountExact
  <2>1. FreeFrames(pageManager) = UserFrames
    <3>1. \A f \in UserFrames : f \in Frames /\ f # 0
      OBVIOUS
    <3>2. pageManager.page_frame_map = [f \in Frames |-> f = 0]
      BY DEF PagingInit
    <3>3. \A f \in UserFrames : ~pageManager.page_frame_map[f]
      BY <3>1, <3>2, Zenon
    <3> QED BY <3>3, Zenon DEF FreeFrames
  <2>2. Cardinality(1 .. NFrames - 1) = NFrames - 1
    BY FS_Interval
  <2> QED BY <2>1, <2>2 DEF PagingInit, FreeCountExact
<1>5. \A d \in Dirs, v \in Pages : dirTable[d][v] = NoFrame
  BY DEF PagingInit, EmptyTable
<1>6. MappedFramesAllocated /\ FrameMappedOnce
  BY <1>5, UserPagesArePages DEF MappedFramesAllocated, FrameMappedOnce
<1>7. KernelEntryIffUsed
  BY <1>5, UserPagesArePages DEF PagingInit, KernelEntryIffUsed
<1> QED
  BY <1>3, <1>4, <1>6, <1>7 DEF PagingInv

\* paging_allocate_user_page_frame
LEMMA AllocateKeepsInv ==
  ASSUME PagingInv, NEW d \in Dirs, NEW v \in UserPages, AllocateUserPageFrame(d, v)
  PROVE  PagingInv'
<1> USE UserPagesArePages DEF AllocateUserPageFrame
<1>1. pageManager \in PageManagerType /\ dirTable \in [Dirs -> TableType]
  BY DEF PagingInv, PagingTypeOK
<1>2. Mapped(dirTable[d], pageManager, v) \in TableType
  BY <1>1, MappedType
<1>3. PagingTypeOK'
  BY <1>1, <1>2, AllocatedType DEF PagingInv, PagingTypeOK
<1>4. FreeCountExact'
  BY <1>1, AllocatedCount DEF PagingInv, FreeCountExact, CountExact
<1>5. (MappedFramesAllocated /\ FrameMappedOnce)'
  <2>1. Sound(pageManager, dirTable)
    BY SoundIsInvariants DEF PagingInv
  <2>2. Sound(pageManager', dirTable')
    BY <1>1, <2>1, AllocationSound
  <2> QED BY <2>2 DEF Sound, MappedFramesAllocated, FrameMappedOnce
<1>6. KernelEntryIffUsed'
  <2>1. Mapped(dirTable[d], pageManager, v)[KernelPage] = dirTable[d][KernelPage]
    BY <1>1 DEF Mapped, TableType
  <2>2. \A e \in Dirs : dirTable'[e][KernelPage] = dirTable[e][KernelPage]
    BY <1>1, <2>1
  <2> QED BY <2>2 DEF PagingInv, KernelEntryIffUsed
<1> QED
  BY <1>3, <1>4, <1>5, <1>6 DEF PagingInv

\* paging_free_user_page_frame
LEMMA FreeFrameKeepsInv ==
  ASSUME PagingInv, NEW d \in Dirs, NEW v \in UserPages, FreeUserPageFrame(d, v)
  PROVE  PagingInv'
<1> USE UserPagesArePages DEF FreeUserPageFrame
<1> DEFINE f == dirTable[d][v]
<1>1. /\ pageManager \in PageManagerType /\ dirTable \in [Dirs -> TableType]
      /\ f \in UserFrames /\ pageManager.page_frame_map[f]
  BY DEF PagingInv, PagingTypeOK, MappedFramesAllocated
<1>2. \A g \in UserFrames :
        pageManager'.page_frame_map[g]
          = IF g = f THEN FALSE ELSE pageManager.page_frame_map[g]
  <2>1. pageManager.page_frame_map \in [Frames -> BOOLEAN] /\ UserFrames \subseteq Frames
    BY <1>1 DEF PageManagerType
  <2>2. pageManager'.page_frame_map = [pageManager.page_frame_map EXCEPT ![f] = FALSE]
    BY DEF Deallocated
  <2> HIDE DEF f
  <2> QED BY <2>1, <2>2, Zenon
<1>3. PagingTypeOK'
  <2>1. Deallocated(pageManager, f) \in PageManagerType
    <3>1. [pageManager.page_frame_map EXCEPT ![f] = FALSE] \in [Frames -> BOOLEAN]
      BY <1>1 DEF PageManagerType
    <3>2. pageManager.free_page_frame_count + 1 \in Int
      BY <1>1 DEF PageManagerType
    <3> QED BY <3>1, <3>2 DEF Deallocated, PageManagerType
  <2>2. dirTable' \in [Dirs -> TableType]
    BY <1>1 DEF TableType
  <2> QED BY <2>1, <2>2 DEF PagingInv, PagingTypeOK
<1>4. FreeCountExact'
  <2> HIDE DEF f
  <2>1. FreeFrames(pageManager') = FreeFrames(pageManager) \cup {f}
    BY <1>1, <1>2, Zenon DEF FreeFrames
  <2>2. f \notin FreeFrames(pageManager)
    BY <1>1 DEF FreeFrames
  <2>3. Cardinality(FreeFrames(pageManager'))
          = Cardinality(FreeFrames(pageManager)) + 1
    BY <2>1, <2>2, FreeFramesFinite, FS_AddElement
  <2>4. pageManager'.free_page_frame_count = pageManager.free_page_frame_count + 1
    BY DEF Deallocated
  <2> QED BY <2>3, <2>4 DEF PagingInv, FreeCountExact
<1>5. (MappedFramesAllocated /\ FrameMappedOnce)'
  <2>1. \A e \in Dirs, w \in UserPages :
          dirTable'[e][w] = IF e = d /\ w = v THEN NoFrame ELSE dirTable[e][w]
    BY <1>1 DEF TableType
  <2>2. \A e \in Dirs, w \in UserPages :
          dirTable[e][w] = f => e = d /\ w = v
    BY <1>1 DEF PagingInv, FrameMappedOnce
  <2> HIDE DEF f
  <2>3. FrameMappedOnce'
    BY <2>1 DEF PagingInv, FrameMappedOnce
  <2>4. ASSUME NEW e \in Dirs, NEW w \in UserPages, dirTable'[e][w] # NoFrame
        PROVE  dirTable'[e][w] \in UserFrames
               /\ pageManager'.page_frame_map[dirTable'[e][w]]
    <3>1. dirTable'[e][w] = dirTable[e][w] /\ dirTable[e][w] # f
      BY <2>1, <2>2, <2>4
    <3>2. dirTable[e][w] \in UserFrames
          /\ pageManager.page_frame_map[dirTable[e][w]]
      BY <3>1, <2>4 DEF PagingInv, MappedFramesAllocated
    <3>3. pageManager'.page_frame_map[dirTable[e][w]]
      BY <1>2, <3>1, <3>2, Zenon
    <3> QED BY <3>1, <3>2, <3>3
  <2> QED BY <2>3, <2>4 DEF MappedFramesAllocated
<1>6. KernelEntryIffUsed'
  BY <1>1 DEF PagingInv, KernelEntryIffUsed, TableType
<1> QED
  BY <1>3, <1>4, <1>5, <1>6 DEF PagingInv

\* paging_create_new_page_directory
LEMMA CreateDirectoryKeepsInv ==
  ASSUME PagingInv, CreateNewPageDirectory
  PROVE  PagingInv'
<1> USE UserPagesArePages DEF CreateNewPageDirectory, KernelEntry
<1>1. pageManager \in PageManagerType /\ dirTable \in [Dirs -> TableType]
      /\ NewDir \in Dirs
  BY NewDirIsUnused DEF PagingInv, PagingTypeOK
<1>2. PagingTypeOK'
  <2>1. 0 \in Frames
    BY PagingAssumption
  <2>2. KernelEntry(dirTable[NewDir]) \in TableType
    BY <1>1, <2>1 DEF TableType
  <2>3. dirTable' \in [Dirs -> TableType]
    BY <1>1, <2>2
  <2>4. dirUsed' \in [Dirs -> BOOLEAN]
    BY DEF PagingInv, PagingTypeOK
  <2> QED BY <1>1, <2>3, <2>4 DEF PagingInv, PagingTypeOK
<1>3. FreeCountExact'
  BY DEF PagingInv, FreeCountExact
<1>4. (MappedFramesAllocated /\ FrameMappedOnce)'
  <2>1. \A e \in Dirs, v \in UserPages : dirTable'[e][v] = dirTable[e][v]
    BY <1>1 DEF TableType
  <2> QED BY <2>1 DEF PagingInv, MappedFramesAllocated, FrameMappedOnce
<1>5. KernelEntryIffUsed'
  <2>1. \A e \in Dirs : dirTable'[e][KernelPage]
          = IF e = NewDir THEN 0 ELSE dirTable[e][KernelPage]
    BY <1>1 DEF TableType
  <2>2. dirUsed'[NewDir] /\ \A e \in Dirs \ {NewDir} : dirUsed'[e] = dirUsed[e]
    BY <1>1, Zenon DEF PagingInv, PagingTypeOK
  <2> QED BY <2>1, <2>2 DEF PagingInv, KernelEntryIffUsed
<1> QED
  BY <1>2, <1>3, <1>4, <1>5 DEF PagingInv

\* What paging_free_page_directory does to the tables.
LEMMA ReleasedTableIs ==
  ASSUME PagingTypeOK, NEW d, NEW e \in Dirs, NEW v \in Pages
  PROVE  ReleasedTable(d)[e][v] = IF d = 0 /\ e = d THEN NoFrame ELSE dirTable[e][v]
<1>1. dirTable \in [Dirs -> TableType]
  BY DEF PagingTypeOK
<1> QED
  BY <1>1 DEF ReleasedTable, ReleasesDirectory, EmptyTable

\* ... and to the record of the directories in use.
LEMMA ReleasedUsedIs ==
  ASSUME PagingTypeOK, NEW d, NEW e \in Dirs
  PROVE  ReleasedUsed(d)[e] = IF d = 0 /\ e = d THEN FALSE ELSE dirUsed[e]
<1>1. dirUsed \in [Dirs -> BOOLEAN]
  BY DEF PagingTypeOK
<1> QED
  BY <1>1, Zenon DEF ReleasedUsed, ReleasesDirectory

LEMMA ReleasedType ==
  ASSUME PagingTypeOK, NEW d
  PROVE  /\ ReleasedTable(d) \in [Dirs -> TableType]
         /\ ReleasedUsed(d) \in [Dirs -> BOOLEAN]
<1>1. EmptyTable \in TableType
  BY DEF EmptyTable, TableType
<1>2. dirTable \in [Dirs -> TableType] /\ dirUsed \in [Dirs -> BOOLEAN]
  BY DEF PagingTypeOK
<1> QED
  BY <1>1, <1>2 DEF ReleasedTable, ReleasedUsed

\* paging_free_page_directory
LEMMA FreeDirectoryKeepsInv ==
  ASSUME PagingInv, NEW d \in Dirs, FreePageDirectory(d)
  PROVE  PagingInv'
<1> USE UserPagesArePages DEF FreePageDirectory
<1>0. PagingTypeOK
  BY DEF PagingInv
<1>1. PagingTypeOK'
  BY <1>0, ReleasedType DEF PagingTypeOK
<1>2. FreeCountExact'
  BY DEF PagingInv, FreeCountExact
<1>3. (MappedFramesAllocated /\ FrameMappedOnce)'
  <2>1. Sound(pageManager, dirTable)
    BY SoundIsInvariants DEF PagingInv
  <2>2. \A e \in Dirs, v \in UserPages : dirTable'[e][v] \in {NoFrame, dirTable[e][v]}
    BY <1>0, ReleasedTableIs
  <2>3. Sound(pageManager, dirTable')
    BY <2>1, <2>2, SubmappingSound
  <2> QED BY <2>3 DEF Sound, MappedFramesAllocated, FrameMappedOnce
<1>4. KernelEntryIffUsed'
  <2> SUFFICES ASSUME NEW e \in Dirs
               PROVE  dirTable'[e][KernelPage] = (IF dirUsed'[e] THEN 0 ELSE NoFrame)
    BY DEF KernelEntryIffUsed
  <2>1. dirTable'[e][KernelPage]
          = IF d = 0 /\ e = d THEN NoFrame ELSE dirTable[e][KernelPage]
    BY <1>0, ReleasedTableIs
  <2>2. dirUsed'[e] = IF d = 0 /\ e = d THEN FALSE ELSE dirUsed[e]
    BY <1>0, ReleasedUsedIs
  <2>3. dirTable[e][KernelPage] = (IF dirUsed[e] THEN 0 ELSE NoFrame)
    BY DEF PagingInv, KernelEntryIffUsed
  <2> QED BY <2>1, <2>2, <2>3
<1> QED
  BY <1>1, <1>2, <1>3, <1>4 DEF PagingInv

\* Whatever the order in which the functions of paging.c are called, the free
\* count is exact, no two user pages share a frame, every mapped frame is
\* marked allocated, and the kernel is mapped in exactly the directories in
\* use.
THEOREM PagingSafe == PagingSpec => []PagingInv
<1>1. PagingInit => PagingInv
  BY PagingInitInv
<1>2. PagingInv /\ [PagingNext]_pagingVars => PagingInv'
  <2> SUFFICES ASSUME PagingInv, [PagingNext]_pagingVars PROVE PagingInv'
    OBVIOUS
  <2>1. CASE CreateNewPageDirectory
    BY <2>1, CreateDirectoryKeepsInv
  <2>2. ASSUME NEW d \in Dirs, FreePageDirectory(d) PROVE PagingInv'
    BY <2>2, FreeDirectoryKeepsInv
  <2>3. ASSUME NEW d \in Dirs, UsePageDirectory(d) PROVE PagingInv'
    BY <2>3 DEF UsePageDirectory, PagingInv, PagingTypeOK, FreeCountExact,
                MappedFramesAllocated, FrameMappedOnce, KernelEntryIffUsed
  <2>4. ASSUME NEW d \in Dirs, NEW v \in UserPages, AllocateUserPageFrame(d, v)
        PROVE  PagingInv'
    BY <2>4, AllocateKeepsInv
  <2>5. ASSUME NEW d \in Dirs, NEW v \in UserPages, FreeUserPageFrame(d, v)
        PROVE  PagingInv'
    BY <2>5, FreeFrameKeepsInv
  <2>6. CASE UNCHANGED pagingVars
    BY <2>6 DEF pagingVars, PagingInv, PagingTypeOK, FreeCountExact,
                MappedFramesAllocated, FrameMappedOnce, KernelEntryIffUsed
  <2> QED
    BY <2>1, <2>2, <2>3, <2>4, <2>5, <2>6 DEF PagingNext
<1> QED
  BY <1>1, <1>2, PTL DEF PagingSpec

\* Called in any order, the functions of paging.c never map a frame twice.
THEOREM PagingMapsOnce == PagingSpec => []FrameMappedOnce
BY PagingSafe, PTL DEF PagingInv

\* Called in any order, they keep the count of free frames exact.
THEOREM PagingCountExact == PagingSpec => []FreeCountExact
BY PagingSafe, PTL DEF PagingInv

\* No user page of any directory points to a frame that the next allocation
\* could hand out again, or to the kernel's frame.
THEOREM PagingFramesAllocated == PagingSpec => []MappedFramesAllocated
BY PagingSafe, PTL DEF PagingInv

\* An interrupt taken in a directory in use finds the kernel mapped.
THEOREM PagingKernelReachable == PagingSpec => []KernelEntryIffUsed
BY PagingSafe, PTL DEF PagingInv
=============================================================================
