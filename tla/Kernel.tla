-------------------------------- MODULE Kernel --------------------------------
(***************************************************************************)
(* The running kernel: kernel_setup, the system calls and the timer        *)
(* interrupt of interrupt.c that create, destroy and schedule processes,   *)
(* and the scheduler of scheduler.c, on top of Process and Paging.         *)
(*                                                                         *)
(* All gates are interrupt gates, so a handler runs to its iret without    *)
(* being interrupted, and the only interleaving is of handlers with user   *)
(* instructions.  The CPU is the active directory cr3 (of Paging) and the  *)
(* execution point eip.                                                    *)
(***************************************************************************)
EXTENDS Process

CONSTANT NSteps   \* bound: user execution points are counted modulo NSteps

ASSUME KernelAssumption == NSteps \in Nat /\ NSteps >= 1

\* The pool of directories is large enough for the memory: with 32 of each,
\* the frames run out first (see DirectoryAvailable).
ASSUME PoolAssumption == NFrames <= 2 * NDirs + 1

\* The process table is large enough for the memory: with 32 frames and 16
\* blocks, the frames have run out once every block has been used (see
\* KernelLostOnlyBySelfDestruction).
ASSUME BlocksAssumption == NFrames <= 2 * NProcs + 1

VARIABLES
  mode,      \* what the CPU is doing, see Modes
  eip,       \* the user execution point in the CPU
  progress,  \* history: the point reached by the program of each directory
  exited     \* history: a program has called process_destroy

vars == <<pageManager, dirUsed, dirTable, cr3, pcb, listed, active, content,
          mode, eip, progress, exited>>

\* "boot" and "booted" are the steps of kernel_setup before and after it
\* creates the shell; "user" is user code; "hung" is the search loop of the
\* scheduler with nothing to find, interrupts off; "down" is a CPU that can
\* no longer fetch the kernel's handlers and resets.
Modes == {"boot", "booted", "user", "hung", "down"}

Steps == 0 .. NSteps - 1

Point == [page: Pages, step: Nat]

TypeOK ==
  /\ PagingTypeOK
  /\ ProcessTypeOK
  /\ mode \in Modes
  /\ eip \in Point
  /\ progress \in [Dirs -> Nat]
  /\ exited \in BOOLEAN

Init ==
  /\ PagingInit
  /\ ProcessInit
  /\ mode = "boot"
  /\ eip = [page |-> 0, step |-> 0]
  /\ progress = [d \in Dirs |-> 0]
  /\ exited = FALSE

-----------------------------------------------------------------------------
(* The scheduler.                                                          *)

\* Mutant: nothing is saved.
SavedNothing == pcb

\* scheduler_save_context_to_current_running_pcb, with the context that the
\* timer handler gathers: the interrupted point and the active directory.
SavedContext ==
  IF RunningSlots(pcb) = {} THEN pcb
  ELSE [pcb EXCEPT ![RunningSlot(pcb)] =
          [@ EXCEPT !.state = "RUNNING", !.page = eip.page,
                    !.step = eip.step, !.dir = cr3]]

\* Block 0 stands in when no block is running.
CurrentSlot(blocks) == IF RunningSlots(blocks) = {} THEN 0 ELSE RunningSlot(blocks)

\* Distance of slot i in the circular search that starts after pid.
SearchDistance(pid, i) == (i - pid - 1) % NProcs

\* Mutant: the search starts from the beginning of the table.
NextSlotFirst(pid) == CHOOSE i \in ListedSlots : \A j \in ListedSlots : i <= j

NextSlot(pid) ==
  CHOOSE i \in ListedSlots :
    \A j \in ListedSlots : SearchDistance(pid, i) <= SearchDistance(pid, j)

\* Mutant: the block that leaves the CPU stays RUNNING.
SwitchWithoutStopping(blocks) ==
  LET next == NextSlot(blocks[CurrentSlot(blocks)].pid)
  IN  \/ /\ ListedSlots = {}
         /\ pcb' = blocks
         /\ mode' = "hung"
         /\ UNCHANGED <<cr3, eip>>
      \/ /\ ListedSlots # {}
         /\ pcb' = [blocks EXCEPT ![next].state = "RUNNING"]
         /\ mode' = "user"
         /\ cr3' = blocks[next].dir
         /\ eip' = [page |-> blocks[next].page, step |-> blocks[next].step]

\* scheduler_switch_to_next_process, from the process table `blocks`.
SwitchToNext(blocks) ==
  LET current == CurrentSlot(blocks)
      stopped == [blocks EXCEPT ![current].state = "READY"]
      next    == NextSlot(blocks[current].pid)
  IN  \/ /\ ListedSlots = {}
         /\ pcb' = stopped
         /\ mode' = "hung"
         /\ UNCHANGED <<cr3, eip>>
      \/ /\ ListedSlots # {}
         /\ pcb' = [stopped EXCEPT ![next].state = "RUNNING"]
         /\ mode' = "user"
         /\ cr3' = stopped[next].dir
         /\ eip' = [page |-> stopped[next].page, step |-> stopped[next].step]

\* main_interrupt_handler, case PIC1_OFFSET + IRQ_TIMER.
TimerInterrupt ==
  /\ mode = "user"
  /\ SwitchToNext(SavedContext)
  /\ UNCHANGED <<pageManager, dirUsed, dirTable, listed, active, content, progress,
                 exited>>

-----------------------------------------------------------------------------
(* kernel_setup                                                            *)

ShellRequest == [name |-> "shell", page |-> 0, size |-> 1]

ResetProgress ==
  progress' = [d \in Dirs |-> IF dirUsed'[d] /\ ~dirUsed[d] THEN 0 ELSE progress[d]]

BootCreateShell ==
  /\ mode = "boot"
  /\ CreateUserProcess(ShellRequest)
  /\ mode' = "booted"
  /\ ResetProgress
  /\ UNCHANGED <<eip, exited>>

BootSwitch ==
  /\ mode = "booted"
  /\ SwitchToNext(pcb)
  /\ UNCHANGED <<pageManager, dirUsed, dirTable, listed, active, content, progress,
                 exited>>

-----------------------------------------------------------------------------
(* User code.  It runs in whatever directory is active, whether or not its *)
(* process is still listed: process_destroy of the caller returns to it.   *)

\* The page fault of an instruction that misses its code or its stack is
\* ignored by main_interrupt_handler and raised again on return.
Faulting(d, v) ==
  d \notin Dirs \/ dirTable[d][v] = NoFrame \/ dirTable[d][StackPage] = NoFrame

CanExecute == mode = "user" /\ ~Faulting(cr3, eip.page)

UserStep ==
  /\ CanExecute
  /\ eip' = [eip EXCEPT !.step = (@ + 1) % NSteps]
  /\ progress' = [progress EXCEPT ![cr3] = (@ + 1) % NSteps]
  /\ UNCHANGED <<pagingVars, processVars, mode, exited>>

\* The kernel cannot be fetched through the active directory: the first miss
\* in the TLB resets the machine.
TripleFault ==
  /\ mode = "user"
  /\ ~KernelMapped(cr3)
  /\ mode' = "down"
  /\ UNCHANGED <<pagingVars, processVars, eip, progress, exited>>

-----------------------------------------------------------------------------
(* System calls.                                                           *)

\* syscall 13
SysProcessCreate(req) ==
  /\ CanExecute
  /\ CreateUserProcess(req)
  /\ ResetProgress
  /\ UNCHANGED <<mode, eip, exited>>

ClockRequest == [name |-> "clock", page |-> 0, size |-> 1]

\* syscall 16
SysCreateClock ==
  /\ CanExecute
  /\ CreateUserProcess(ClockRequest)
  /\ ResetProgress
  /\ UNCHANGED <<mode, eip, exited>>

\* syscall 14; crt0 issues it with the value main returned as the pid.
SysProcessDestroy(pid) ==
  /\ CanExecute
  /\ Destroy(pid)
  /\ exited' = TRUE
  /\ UNCHANGED <<mode, eip, progress>>

\* strcmp stops at the end of its first argument, so every prefix matches;
\* it compares one character at least, so the empty name does not.
MatchesShell(name) == name \in {"s", "sh", "she", "shel", "shell"}

\* Mutant: no process is protected.
KillRefusedNever(pid) == FALSE

\* syscall 21: the argument is one or two digits; beyond the table it reads
\* past _process_list, and process_destroy then refuses.
KillRefused(pid) == pid \in Slots /\ MatchesShell(pcb[pid].name)

SysKill(pid) ==
  /\ CanExecute
  /\ \/ KillRefused(pid) /\ UNCHANGED <<pagingVars, processVars>>
     \/ ~KillRefused(pid) /\ Destroy(pid)
  /\ UNCHANGED <<mode, eip, progress, exited>>

-----------------------------------------------------------------------------
\* The machine, whatever the programs do: boot, the timer, user code.
MachineStep ==
  \/ BootCreateShell
  \/ BootSwitch
  \/ TimerInterrupt
  \/ UserStep
  \/ TripleFault

\* The calls that the shipped shell and clock make.
ShippedCall ==
  \/ \E req \in Request : SysProcessCreate(req)
  \/ SysCreateClock
  \/ \E pid \in 0 .. NProcs : SysKill(pid)

\* Any program may also exit, or destroy another process.  The programs of
\* the repository never do: their main functions do not return.
ExitCall == \E pid \in 0 .. NProcs : SysProcessDestroy(pid)

Next == MachineStep \/ ShippedCall \/ ExitCall

Spec == Init /\ [][Next]_vars

\* The two boot steps are straight-line code, and the timer keeps firing: it
\* is unmasked for good by activate_timer_interrupt, every handler returns
\* with interrupts on, and each tick is acknowledged before the switch.
Fairness == WF_vars(BootCreateShell) /\ WF_vars(BootSwitch) /\ WF_vars(TimerInterrupt)

FairSpec == Spec /\ Fairness

-----------------------------------------------------------------------------
(* Safety properties.                                                      *)

Running(i) == pcb[i].state = "RUNNING"

\* A process that has been given an address space of its own.
HasDirectory(i) == listed[i] /\ pcb[i].dir \in Dirs

\* The count that process_create_user_process compares with the size of the
\* table is the number of processes in the table, so a slot is found
\* whenever the count says there is one.
ActiveCountExact == active = Cardinality(ListedSlots)

\* Two live processes never share a page directory.
DirectoriesDistinct ==
  \A i, j \in Slots :
    (HasDirectory(i) /\ HasDirectory(j) /\ pcb[i].dir = pcb[j].dir) => i = j

\* The block the timer handler saves the interrupted context into is the
\* block of the program that was interrupted: at most one block is RUNNING,
\* and it is the one whose directory is active.
RunningBlockOwnsCpu ==
  \A i \in Slots : Running(i) =>
    /\ mode \in {"user", "down"}
    /\ pcb[i].dir = cr3
    /\ pcb[i].page = eip.page
    /\ \A j \in Slots : Running(j) => j = i

\* Saving and restoring lose nothing: a live process that is waiting will
\* resume exactly where its program was interrupted, and the program on the
\* CPU is where its address space left it.
ResumesWhereInterrupted ==
  /\ \A i \in Slots : (HasDirectory(i) /\ ~Running(i)) =>
       pcb[i].step = progress[pcb[i].dir]
  /\ (mode = "user" /\ cr3 \in Dirs) => eip.step = progress[cr3]

\* The code page of a live process holds the program it was created from:
\* no later load, of a file read through another directory, overwrote it.
ImageIntact ==
  \A i \in Slots : HasDirectory(i) =>
    /\ dirTable[pcb[i].dir][pcb[i].page] # NoFrame
    /\ content[dirTable[pcb[i].dir][pcb[i].page]] = pcb[i].name

\* While a frame is free there is an unused directory, so creation never
\* takes the path that returns an error with the slot already taken.
DirectoryAvailable ==
  pageManager.free_page_frame_count >= 1 => UnusedDirs # {}

Stackless == {i \in Slots : HasDirectory(i) /\ dirTable[pcb[i].dir][StackPage] = NoFrame}

\* Creation can leave a process without a stack (its memory check counts in
\* the wrong unit), but only the one creation that takes the last frame.
StacklessOnlyAtTheEnd ==
  Stackless # {} => Cardinality(Stackless) = 1 /\ FreeFrames(pageManager) = {}

\* The kernel disappears from under the CPU only when the first process
\* destroys itself after every frame has been given out: process_destroy(0)
\* then releases the active directory.
KernelLostOnlyBySelfDestruction ==
  ~KernelMapped(cr3) => cr3 = 0 /\ ~listed[0] /\ FreeFrames(pageManager) = {}

\* With the programs in the repository, which only end processes by the kill
\* command, the shell outlives everything: it stays in the table under its
\* name, and the kernel neither hangs in the scheduler nor loses its mapping.
ShellSurvives ==
  mode # "boot" /\ ~exited =>
    /\ listed[0] /\ pcb[0].name = "shell" /\ pcb[0].dir = 0
    /\ mode \notin {"hung", "down"}

\* Documented in process.h (139): destroying a process releases its page
\* directory, so a directory in use belongs to a live process.
DirectoriesReleased ==
  \A d \in Dirs : dirUsed[d] => \E i \in Slots : listed[i] /\ pcb[i].dir = d

\* The comment at process.c:67 says creation checks the memory for the
\* executable and for the user stack, so a live process has both pages.
StackAllocated == Stackless = {}

-----------------------------------------------------------------------------
(* Action properties.                                                      *)

\* A step that creates, destroys or schedules other processes leaves the
\* block, the memory map and the memory of a waiting live process alone.
Undisturbed(i) ==
  (/\ HasDirectory(i) /\ listed'[i]
   /\ ~Running(i) /\ ~Running(i)')
    => /\ pcb'[i] = pcb[i]
       /\ dirTable'[pcb[i].dir] = dirTable[pcb[i].dir]
       /\ \A v \in UserPages :
            LET f == dirTable[pcb[i].dir][v]
            IN  f # NoFrame => content'[f] = content[f]

WaitingProcessesUndisturbed == [][\A i \in Slots : Undisturbed(i)]_vars

-----------------------------------------------------------------------------
(* Liveness.                                                               *)

\* Every live process is given the CPU, or is destroyed, or the machine went
\* down: the circular search of the scheduler passes over nobody.
NoStarvation ==
  \A i \in Slots : listed[i] ~> (Running(i) \/ ~listed[i] \/ mode = "down")

-----------------------------------------------------------------------------
(* Refinement: the process table seen as a set of live processes served in *)
(* circular order.                                                         *)

LiveProcesses == ListedSlots

ServedProcess ==
  IF \E i \in Slots : listed[i] /\ Running(i)
  THEN CHOOSE i \in Slots : listed[i] /\ Running(i)
  ELSE NProcs

RR == INSTANCE RoundRobin WITH
        N <- NProcs, live <- LiveProcesses, served <- ServedProcess

\* The scheduler and the process manager implement round-robin service.
RoundRobinService == RR!Spec
=============================================================================
