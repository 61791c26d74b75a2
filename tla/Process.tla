------------------------------- MODULE Process -------------------------------
(***************************************************************************)
(* The process manager of process.c on top of the frames and directories   *)
(* of Paging: the table of process control blocks, process creation and    *)
(* process destruction.                                                    *)
(*                                                                         *)
(* Every function here runs inside an interrupt gate with interrupts off   *)
(* (process.h: "This procedure assumes no reentrancy in ISR"), so one call *)
(* is one step.  A program is its name; its execution point is the page it *)
(* was loaded at and a step counter.                                       *)
(***************************************************************************)
EXTENDS Paging

CONSTANTS
  NProcs,            \* PROCESS_COUNT_MAX
  MaxFramesPerProc,  \* PROCESS_PAGE_FRAME_COUNT_MAX
  Programs,          \* the names of executables a request may carry
  Sizes              \* the buffer sizes a request may carry, in bytes

ASSUME ProcessAssumption ==
  /\ NProcs \in Nat /\ NProcs >= 1
  /\ MaxFramesPerProc \in Nat /\ MaxFramesPerProc >= 2
  /\ {"shell", "clock"} \subseteq Programs
  /\ Sizes \subseteq Nat

VARIABLES
  pcb,      \* _process_list
  listed,   \* process_manager_state.list_of_process
  active,   \* process_manager_state.active_process_count
  content   \* per frame, the program image last loaded into it

processVars == <<pcb, listed, active, content>>

Slots  == 0 .. NProcs - 1
NoName == ""                     \* the zero-filled name of a PCB never used

PcbType ==
  [pid: Slots, state: {"READY", "RUNNING"}, name: Programs \cup {NoName},
   page: Pages, step: Nat, dir: Dirs \cup {NullDir, KernelDir}]

ProcessTypeOK ==
  /\ pcb \in [Slots -> PcbType]
  /\ listed \in [Slots -> BOOLEAN]
  /\ active \in Int
  /\ content \in [Frames -> Programs \cup {NoName}]

\* The table is zero-initialised: every block, used or not, carries pid 0.
ProcessInit ==
  /\ pcb = [i \in Slots |-> [pid |-> 0, state |-> "READY", name |-> NoName,
                             page |-> 0, step |-> 0, dir |-> NullDir]]
  /\ listed = [i \in Slots |-> FALSE]
  /\ active = 0
  /\ content = [f \in Frames |-> NoName]

ListedSlots == {i \in Slots : listed[i]}

InactiveSlots == {i \in Slots : ~listed[i]}

\* Mutant: the count of processes is taken for the next free slot.
InactiveIndexByCount == active

\* process_list_get_inactive_index
InactiveIndex == CHOOSE i \in InactiveSlots : \A j \in InactiveSlots : i <= j

RunningSlots(blocks) == {i \in Slots : blocks[i].state = "RUNNING"}

\* process_get_current_running_pcb_pointer, when there is a running block
RunningSlot(blocks) ==
  CHOOSE i \in RunningSlots(blocks) : \A j \in RunningSlots(blocks) : i <= j

-----------------------------------------------------------------------------
(* process_create_user_process                                             *)

Request == [name: Programs, page: Pages, size: Sizes]

PageFrameCountNeeded(size) == CeilDiv(size + FrameSize, FrameSize)

\* The three refusals that precede any change of state.  The amount handed
\* to paging_allocate_check is a number of frames, not of bytes.
CreateRefused(req) ==
  LET needed == PageFrameCountNeeded(req.size)
  IN  \/ active >= NProcs
      \/ req.page >= KernelPage
      \/ ~AllocateCheck(pageManager, needed)
      \/ needed > MaxFramesPerProc

\* No unused directory: the function returns with the slot already taken.
CreateWithoutDirectory ==
  /\ UnusedDirs = {}
  /\ pcb' = [pcb EXCEPT ![InactiveIndex].pid = InactiveIndex]
  /\ listed' = [listed EXCEPT ![InactiveIndex] = TRUE]
  /\ active' = active + 1
  /\ UNCHANGED <<pagingVars, content>>

\* Mutant: the first frame is not marked before the second is searched.
NewTableWithoutMarking(req) ==
  Mapped(Mapped(KernelEntry(dirTable[NewDir]), pageManager, req.page), pageManager, StackPage)

\* The new directory, after the code page and then the stack page have been
\* allocated in it.
NewTable(req) ==
  LET withKernel == KernelEntry(dirTable[NewDir])
      withCode   == Mapped(withKernel, pageManager, req.page)
  IN  Mapped(withCode, Allocated(pageManager), StackPage)

\* Mutant: the file is loaded without switching to the new directory.
LoadFrameOfCaller(req) == IF cr3 \in Dirs THEN dirTable[cr3][req.page] ELSE NewTable(req)[req.page]

\* The frame read(request) writes to: the buffer's page, translated through
\* the new directory, which is the active one while the file is loaded.
LoadFrame(req) == NewTable(req)[req.page]

\* Mutant: identifiers start from 1.
NewBlockFromOne(req) ==
  [pid |-> InactiveIndex + 1, state |-> "READY", name |-> req.name,
   page |-> req.page, step |-> 0, dir |-> NewDir]

\* The block of the new process: metadata and initial context.
NewBlock(req) ==
  [pid |-> InactiveIndex, state |-> "READY", name |-> req.name,
   page |-> req.page, step |-> 0, dir |-> NewDir]

CreateWithDirectory(req) ==
  /\ UnusedDirs # {}
  /\ dirUsed' = [dirUsed EXCEPT ![NewDir] = TRUE]
  /\ dirTable' = [dirTable EXCEPT ![NewDir] = NewTable(req)]
  /\ pageManager' = Allocated(Allocated(pageManager))
  /\ cr3' = cr3                      \* saved, switched and restored
  /\ content' = [f \in Frames |-> IF f = LoadFrame(req) THEN req.name ELSE content[f]]
  /\ listed' = [listed EXCEPT ![InactiveIndex] = TRUE]
  /\ active' = active + 1
  /\ pcb' = [pcb EXCEPT ![InactiveIndex] = NewBlock(req)]

CreateUserProcess(req) ==
  \/ CreateRefused(req) /\ UNCHANGED <<pagingVars, processVars>>
  \/ ~CreateRefused(req) /\ (CreateWithDirectory(req) \/ CreateWithoutDirectory)

-----------------------------------------------------------------------------
(* process_destroy                                                         *)

\* Refused when pid is beyond the table, or names no process.
DestroyRefused(pid) == pid \notin ListedSlots

\* The search over the whole table keeps the last block whose pid matches;
\* blocks that were never used match pid 0.
PcbOf(pid) ==
  CHOOSE i \in Slots :
    /\ pcb[i].pid = pid
    /\ \A j \in Slots : pcb[j].pid = pid => j <= i

\* Mutant: the count of processes is not decremented.
DestroyUncounted(pid) ==
  /\ pcb' = [pcb EXCEPT ![PcbOf(pid)].state = "READY"]
  /\ dirUsed' = ReleasedUsed(pcb[PcbOf(pid)].dir)
  /\ dirTable' = ReleasedTable(pcb[PcbOf(pid)].dir)
  /\ listed' = [listed EXCEPT ![pid] = FALSE]
  /\ UNCHANGED <<pageManager, cr3, content, active>>

DestroyListed(pid) ==
  /\ pcb' = [pcb EXCEPT ![PcbOf(pid)].state = "READY"]
  /\ dirUsed' = ReleasedUsed(pcb[PcbOf(pid)].dir)
  /\ dirTable' = ReleasedTable(pcb[PcbOf(pid)].dir)
  /\ listed' = [listed EXCEPT ![pid] = FALSE]
  /\ active' = active - 1
  /\ UNCHANGED <<pageManager, cr3, content>>

Destroy(pid) ==
  \/ DestroyRefused(pid) /\ UNCHANGED <<pagingVars, processVars>>
  \/ ~DestroyRefused(pid) /\ DestroyListed(pid)
=============================================================================
