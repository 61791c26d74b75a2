------------------------------- MODULE Paging -------------------------------
(***************************************************************************)
(* The physical-frame manager and the page-directory pool of paging.c.     *)
(*                                                                         *)
(* A frame is a 4 MiB piece of physical memory; frame 0 holds the kernel   *)
(* and is never handed out.  A page directory maps virtual 4 MiB pages to  *)
(* frames.  Pages are numbered 0..KernelPage, where KernelPage stands for  *)
(* entry 0x300 (the higher-half kernel) and the page below it holds the    *)
(* user stack.  Entries above 0x300 are never written and are left out.    *)
(*                                                                         *)
(* The operators that compute a new value (Allocated, Mapped, Released...) *)
(* are what the process manager composes in one system call; the actions   *)
(* at the end of the module offer the same functions one call at a time.   *)
(***************************************************************************)
EXTENDS Integers, FiniteSets

CONSTANTS
  NFrames,     \* PAGE_FRAME_MAX_COUNT
  NDirs,       \* PAGING_DIRECTORY_TABLE_MAX_COUNT
  KernelPage,  \* 0x300, the directory entry of the kernel's higher half
  FrameSize    \* PAGE_FRAME_SIZE, in bytes

ASSUME PagingAssumption ==
  /\ NFrames \in Nat /\ NFrames >= 3     \* the boot shell needs two frames
  /\ NDirs \in Nat /\ NDirs >= 1
  /\ KernelPage \in Nat /\ KernelPage >= 2
  /\ FrameSize \in Nat /\ FrameSize >= 1

VARIABLES
  pageManager,  \* page_manager_state: the frame map and the free-frame count
  dirUsed,      \* page_directory_manager.page_directory_used
  dirTable,     \* page_directory_list: the entries of every directory
  cr3           \* the directory the CPU is translating through

pagingVars == <<pageManager, dirUsed, dirTable, cr3>>

Frames     == 0 .. NFrames - 1
UserFrames == 1 .. NFrames - 1
Dirs       == 0 .. NDirs - 1
Pages      == 0 .. KernelPage
StackPage  == KernelPage - 1
NoFrame    == -1             \* a cleared entry (present_bit = 0)
NullDir    == -1             \* a NULL struct PageDirectory*
KernelDir  == NDirs          \* _paging_kernel_page_directory, outside the pool

EmptyTable == [v \in Pages |-> NoFrame]

PageManagerType ==
  [page_frame_map: [Frames -> BOOLEAN], free_page_frame_count: Int]

TableType == [Pages -> Frames \cup {NoFrame}]

PagingTypeOK ==
  /\ pageManager \in PageManagerType
  /\ dirUsed \in [Dirs -> BOOLEAN]
  /\ dirTable \in [Dirs -> TableType]
  /\ cr3 \in Dirs \cup {NullDir, KernelDir}

PagingInit ==
  /\ pageManager = [page_frame_map |-> [f \in Frames |-> f = 0],
                    free_page_frame_count |-> NFrames - 1]
  /\ dirUsed = [d \in Dirs |-> FALSE]
  /\ dirTable = [d \in Dirs |-> EmptyTable]
  /\ cr3 = KernelDir

-----------------------------------------------------------------------------
(* Frames.                                                                 *)

\* Integer form of ceil32(amount / PAGE_FRAME_SIZE) and of ceil_div.
CeilDiv(n, m) == (n + m - 1) \div m

FreeFrames(pm) == {f \in UserFrames : ~pm.page_frame_map[f]}

FirstFreeFrame(pm) ==
  CHOOSE f \in FreeFrames(pm) : \A g \in FreeFrames(pm) : f <= g

\* Mutants: the count, or both the map and the count, are not updated.
AllocatedUncounted(pm) ==
  IF FreeFrames(pm) = {} THEN pm
  ELSE [pm EXCEPT !.page_frame_map[FirstFreeFrame(pm)] = TRUE]

AllocatedUnmarked(pm) == pm

\* Mutant: the comparison with the amount is off by one.
AllocateCheckOffByOne(pm, amount) ==
  pm.free_page_frame_count >= CeilDiv(amount, FrameSize) - 1

AllocateCheck(pm, amount) ==
  pm.free_page_frame_count >= CeilDiv(amount, FrameSize)

\* The frame manager after paging_allocate_user_page_frame: with no free
\* frame the function changes nothing, and still returns true.
Allocated(pm) ==
  IF FreeFrames(pm) = {} THEN pm
  ELSE [page_frame_map |->
          [pm.page_frame_map EXCEPT ![FirstFreeFrame(pm)] = TRUE],
        free_page_frame_count |-> pm.free_page_frame_count - 1]

\* The directory it maps page v in, after the same call.
Mapped(table, pm, v) ==
  IF FreeFrames(pm) = {} THEN table
  ELSE [table EXCEPT ![v] = FirstFreeFrame(pm)]

\* Mutant: the frame is freed but not counted.
DeallocatedUncounted(pm, f) ==
  [pm EXCEPT !.page_frame_map[f] = FALSE]

\* The frame manager after paging_free_user_page_frame of the page mapped to f.
Deallocated(pm, f) ==
  [page_frame_map |-> [pm.page_frame_map EXCEPT ![f] = FALSE],
   free_page_frame_count |-> pm.free_page_frame_count + 1]

-----------------------------------------------------------------------------
(* Directories.                                                            *)

UnusedDirs == {d \in Dirs : ~dirUsed[d]}

\* Mutant: the flag of use is not looked at.
NewDirWhateverUse == CHOOSE d \in Dirs : \A e \in Dirs : d <= e

\* The directory paging_create_new_page_directory returns, if there is one.
NewDir == CHOOSE d \in UnusedDirs : \A e \in UnusedDirs : d <= e

KernelEntry(table) == [table EXCEPT ![KernelPage] = 0]

\* Mutant: the loop runs to its end and releases any directory.
ReleasesAnyDirectory(d) == d \in Dirs

\* The loop of paging_free_page_directory returns at the end of its first
\* iteration, so only the directory at index 0 is ever matched.
ReleasesDirectory(d) == d = 0

ReleasedUsed(d) ==
  IF ReleasesDirectory(d) THEN [dirUsed EXCEPT ![d] = FALSE] ELSE dirUsed

\* Mutant: the entries of a released directory are not cleared.
ReleasedTableKept(d) == dirTable

ReleasedTable(d) ==
  IF ReleasesDirectory(d) THEN [dirTable EXCEPT ![d] = EmptyTable] ELSE dirTable

\* Whether the kernel itself is reachable through directory d.
KernelMapped(d) ==
  \/ d = KernelDir
  \/ d \in Dirs /\ dirTable[d][KernelPage] = 0

-----------------------------------------------------------------------------
(* The functions of paging.c as calls of their own.  A caller passes a     *)
(* directory it obtained from paging_create_new_page_directory, a user     *)
(* page, and asks to free only a page that is mapped.                      *)

UserPages == 0 .. StackPage

AllocateUserPageFrame(d, v) ==
  /\ dirUsed[d]
  /\ pageManager' = Allocated(pageManager)
  /\ dirTable' = [dirTable EXCEPT ![d] = Mapped(@, pageManager, v)]
  /\ UNCHANGED <<dirUsed, cr3>>

\* Mutant: the entry of a freed frame keeps pointing to it.
FreeFrameKeepingEntry(d, v) ==
  /\ dirUsed[d]
  /\ dirTable[d][v] # NoFrame
  /\ pageManager' = Deallocated(pageManager, dirTable[d][v])
  /\ UNCHANGED <<dirUsed, dirTable, cr3>>

FreeUserPageFrame(d, v) ==
  /\ dirUsed[d]
  /\ dirTable[d][v] # NoFrame
  /\ pageManager' = Deallocated(pageManager, dirTable[d][v])
  /\ dirTable' = [dirTable EXCEPT ![d][v] = NoFrame]
  /\ UNCHANGED <<dirUsed, cr3>>

CreateNewPageDirectory ==
  /\ UnusedDirs # {}
  /\ dirUsed' = [dirUsed EXCEPT ![NewDir] = TRUE]
  /\ dirTable' = [dirTable EXCEPT ![NewDir] = KernelEntry(@)]
  /\ UNCHANGED <<pageManager, cr3>>

FreePageDirectory(d) ==
  /\ dirUsed[d]
  /\ dirUsed' = ReleasedUsed(d)
  /\ dirTable' = ReleasedTable(d)
  /\ UNCHANGED <<pageManager, cr3>>

UsePageDirectory(d) ==
  /\ dirUsed[d]
  /\ cr3' = d
  /\ UNCHANGED <<pageManager, dirUsed, dirTable>>

PagingNext ==
  \/ CreateNewPageDirectory
  \/ \E d \in Dirs :
       \/ FreePageDirectory(d)
       \/ UsePageDirectory(d)
       \/ \E v \in UserPages : AllocateUserPageFrame(d, v) \/ FreeUserPageFrame(d, v)

PagingSpec == PagingInit /\ [][PagingNext]_pagingVars

-----------------------------------------------------------------------------
(* Properties.                                                             *)

\* The count paging_allocate_check trusts is the number of frames that the
\* first-fit search of paging_allocate_user_page_frame would find free.
FreeCountExact ==
  pageManager.free_page_frame_count = Cardinality(FreeFrames(pageManager))

\* Every frame a user entry points to is marked in the frame map, so the
\* next allocation cannot hand it out again, and it is not the kernel's.
MappedFramesAllocated ==
  \A d \in Dirs, v \in UserPages :
    dirTable[d][v] # NoFrame =>
      /\ dirTable[d][v] \in UserFrames
      /\ pageManager.page_frame_map[dirTable[d][v]]

\* No two user pages, of one directory or of two, share a physical frame:
\* this is what keeps one process out of another's memory.
FrameMappedOnce ==
  \A d, e \in Dirs, v, w \in UserPages :
    (dirTable[d][v] # NoFrame /\ dirTable[d][v] = dirTable[e][w])
      => d = e /\ v = w

\* A directory maps the kernel's higher half exactly while it is in use, so
\* an interrupt taken in any directory in use finds the kernel's code.
KernelEntryIffUsed ==
  \A d \in Dirs : dirTable[d][KernelPage] = (IF dirUsed[d] THEN 0 ELSE NoFrame)
=============================================================================
