------------------------- MODULE KernelSafetyProofs -------------------------
(***************************************************************************)
(* More proofs about Kernel, on top of the invariant of KernelProofs: what *)
(* any step does, the survival of the shell and of the kernel's mapping,   *)
(* the one process that may lack a stack, the peace of a waiting process,  *)
(* and the refinement of RoundRobin.                                       *)
(***************************************************************************)
EXTENDS KernelProofs

USE DEF Frames, UserFrames, Dirs, NoFrame, NullDir, KernelDir, Slots

-----------------------------------------------------------------------------
(* The strengthened invariant.                                             *)

\* Until the shell is created nothing has been handed out.
BootPristine ==
  mode = "boot" =>
    /\ \A i \in Slots : ~listed[i]
    /\ \A d \in Dirs : ~dirUsed[d]
    /\ FreeFrames(pageManager) = UserFrames

\* StacklessOnlyAtTheEnd, without the cardinality.
StacklessFew ==
  Stackless # {} => FreeFrames(pageManager) = {} /\ \A i, j \in Stackless : i = j

\* The directory that process_destroy can release, the first one, is the
\* first process's, and it is released only when no frame is left.
FirstDirectory ==
  /\ \A i \in Slots : (listed[i] /\ pcb[i].dir = 0) => i = 0
  /\ mode # "boot" => dirUsed[0] \/ FreeFrames(pageManager) = {}

UsedBlocks == {i \in Slots : pcb[i].dir # NullDir}

\* Each block that was ever used has cost two frames, or was given the last
\* one; and a block that carries an identifier other than 0 was used.
FramesPayForBlocks ==
  /\ \A i \in Slots : pcb[i].pid # 0 => i \in UsedBlocks
  /\ FreeFrames(pageManager) # {} =>
       2 * Cardinality(UsedBlocks) + Cardinality(FreeFrames(pageManager)) <= NFrames - 1

\* KernelLostOnlyBySelfDestruction, in terms of the record of used directories.
ActiveInUse ==
  cr3 # KernelDir =>
    /\ cr3 \in Dirs
    /\ dirUsed[cr3] \/ (cr3 = 0 /\ ~listed[0] /\ FreeFrames(pageManager) = {})

\* Destruction may leave the first block RUNNING, and no other: it does so
\* when it picks up a block never used in its place.
RunningListedOrFirst == \A i \in Slots : (Running(i) /\ ~listed[i]) => i = 0

SafetyInv ==
  /\ BootPristine
  /\ StacklessFew
  /\ FirstDirectory
  /\ FramesPayForBlocks
  /\ ActiveInUse
  /\ RunningListedOrFirst
  /\ ShellSurvives

-----------------------------------------------------------------------------
(* What a step does to the memory and the process table.                   *)

\* Nothing; or the machine resets.
QuietStep ==
  /\ UNCHANGED <<pageManager, dirUsed, dirTable, cr3, pcb, listed, content>>
  /\ mode' = mode \/ (mode = "user" /\ mode' = "down" /\ ~KernelMapped(cr3))
  /\ exited => exited'

\* The CPU passes to the next live process, and only the block it leaves and
\* the block it goes to may change, in their states and contexts.
SwitchStep ==
  LET next == NextSlot(pcb[CurrentSlot(pcb)].pid)
  IN  /\ UNCHANGED <<pageManager, dirUsed, dirTable, listed, content, exited>>
      /\ mode \in {"booted", "user"}
      /\ \A i \in Slots :
           /\ pcb'[i].pid = pcb[i].pid /\ pcb'[i].dir = pcb[i].dir
           /\ pcb'[i].name = pcb[i].name
           /\ (~Running(i) /\ ~Running(i)') => pcb'[i] = pcb[i]
      /\ \/ /\ ListedSlots = {} /\ mode' = "hung" /\ cr3' = cr3
            /\ \A i \in Slots : ~Running(i)'
         \/ /\ next \in ListedSlots /\ mode' = "user" /\ cr3' = pcb[next].dir
            /\ \A i \in Slots : Running(i)' <=> i = next

\* A process is created: the shell at boot, any one by a program that runs.
CreateStep ==
  \E req \in [name: Programs, page: Pages, size: Nat] :
    /\ ~CreateRefused(req) /\ CreateWithDirectory(req) /\ exited' = exited
    /\ \/ mode = "boot" /\ mode' = "booted" /\ req = ShellRequest
       \/ mode = "user" /\ mode' = "user" /\ cr3 \in Dirs /\ dirUsed[cr3]

\* A process is destroyed, by the kill command unless it was an exit.
DestroyStep ==
  \E pid \in ListedSlots :
    /\ DestroyListed(pid) /\ mode = "user" /\ mode' = "user"
    /\ cr3 \in Dirs /\ dirUsed[cr3]
    /\ exited' \/ (exited' = exited /\ ~KillRefused(pid))

\* Saving the interrupted context touches no block but the running one, and
\* of that one the context only.
Resembles(blocks) ==
  /\ blocks \in [Slots -> PcbType]
  /\ \A i \in Slots :
       /\ blocks[i].pid = pcb[i].pid /\ blocks[i].dir = pcb[i].dir
       /\ blocks[i].name = pcb[i].name /\ blocks[i].state = pcb[i].state
       /\ ~Running(i) => blocks[i] = pcb[i]

LEMMA SavedTableResembles ==
  ASSUME IInv, mode = "user"
  PROVE  Resembles(SavedContext)
<1> DEFINE r == RunningSlot(pcb)
<1>1. pcb \in [Slots -> PcbType] /\ eip \in Point /\ cr3 \in Dirs
  BY DEF IInv, TableInv, TypeOK, ProcessTypeOK, CpuInv, ActiveDirectory
<1>2. CASE RunningSlots(pcb) = {}
  BY <1>1, <1>2 DEF SavedContext, Resembles
<1>3. CASE RunningSlots(pcb) # {}
  <2>1. r \in Slots /\ pcb[r].state = "RUNNING"
    BY <1>3, RunningSlotRuns
  <2>2. pcb[r].dir = cr3
    BY <2>1 DEF IInv, CpuInv, RunningBlockOwnsCpu, Running
  <2> DEFINE saved == [pcb[r] EXCEPT !.state = "RUNNING", !.page = eip.page,
                                     !.step = eip.step, !.dir = cr3]
  <2>3. /\ saved \in PcbType /\ saved.pid = pcb[r].pid /\ saved.dir = pcb[r].dir
        /\ saved.name = pcb[r].name /\ saved.state = pcb[r].state
    <3>1. pcb[r] \in PcbType
      BY <1>1, <2>1
    <3> QED BY <1>1, <2>1, <2>2, <3>1 DEF PcbType, Point
  <2>4. SavedContext = [pcb EXCEPT ![r] = saved]
    BY <1>3 DEF SavedContext
  <2> HIDE DEF saved, r
  <2>5. /\ SavedContext \in [Slots -> PcbType] /\ SavedContext[r] = saved
        /\ \A i \in Slots \ {r} : SavedContext[i] = pcb[i]
    BY <1>1, <2>1, <2>3, <2>4
  <2> QED BY <2>1, <2>3, <2>5 DEF Resembles, Running
<1> QED
  BY <1>2, <1>3

LEMMA SwitchIs ==
  ASSUME IInv, NEW blocks, Resembles(blocks), SwitchToNext(blocks),
         mode \in {"booted", "user"},
         UNCHANGED <<pageManager, dirUsed, dirTable, listed, content, exited>>
  PROVE  SwitchStep
<1> DEFINE current == CurrentSlot(pcb)
           stopped == [blocks EXCEPT ![current].state = "READY"]
           next    == NextSlot(pcb[current].pid)
<1>1. CurrentSlot(blocks) = current
  <2>1. RunningSlots(blocks) = RunningSlots(pcb)
    BY DEF RunningSlots, Resembles
  <2> QED BY <2>1 DEF CurrentSlot, RunningSlot
<1>2. current \in Slots /\ \A i \in Slots : Running(i) => i = current
  <2>1. \A i, j \in Slots : (Running(i) /\ Running(j)) => i = j
    BY DEF IInv, CpuInv, RunningBlockOwnsCpu
  <2>2. CASE RunningSlots(pcb) = {}
    <3>1. current = 0 /\ 0 \in Slots
      BY <2>2, ProcessAssumption DEF CurrentSlot
    <3>2. \A i \in Slots : ~Running(i)
      BY <2>2 DEF RunningSlots, Running
    <3> QED BY <3>1, <3>2
  <2>3. CASE RunningSlots(pcb) # {}
    BY <2>1, <2>3, RunningSlotRuns DEF CurrentSlot, Running
  <2> QED BY <2>2, <2>3
<1>3. blocks \in [Slots -> PcbType] /\ blocks[current] \in PcbType
      /\ blocks[current].pid = pcb[current].pid /\ pcb[current].pid \in Slots
  BY <1>2 DEF Resembles, PcbType
<1>4. \/ ListedSlots = {} /\ pcb' = stopped /\ mode' = "hung" /\ cr3' = cr3
      \/ /\ ListedSlots # {} /\ pcb' = [stopped EXCEPT ![next].state = "RUNNING"]
         /\ mode' = "user" /\ cr3' = stopped[next].dir
  BY <1>1, <1>3 DEF SwitchToNext
<1>5. ListedSlots # {} => next \in Slots /\ listed[next]
  <2> HIDE DEF current
  <2> QED BY <1>3, NextSlotIsListed
<1>6. \A i \in Slots :
        /\ stopped[i] \in PcbType /\ stopped[i].state = "READY"
        /\ stopped[i].pid = pcb[i].pid /\ stopped[i].dir = pcb[i].dir
        /\ stopped[i].name = pcb[i].name
        /\ ~Running(i) => stopped[i] = pcb[i]
  <2> SUFFICES ASSUME NEW i \in Slots
               PROVE  /\ stopped[i] \in PcbType /\ stopped[i].state = "READY"
                      /\ stopped[i].pid = pcb[i].pid /\ stopped[i].dir = pcb[i].dir
                      /\ stopped[i].name = pcb[i].name
                      /\ ~Running(i) => stopped[i] = pcb[i]
    OBVIOUS
  <2>1. blocks[i] \in PcbType
    BY <1>3
  <2>2. CASE i = current
    <3>1. stopped[i] = [blocks[i] EXCEPT !.state = "READY"]
      <4> HIDE DEF current
      <4> QED BY <1>2, <1>3, <2>2
    <3> HIDE DEF stopped, current
    <3> DEFINE c == [blocks[i] EXCEPT !.state = "READY"]
    <3>2. /\ c \in PcbType /\ c.state = "READY"
          /\ c.pid = blocks[i].pid /\ c.dir = blocks[i].dir /\ c.name = blocks[i].name
      BY <2>1, OnlyTheState
    <3>3. ~Running(i) => stopped[i] = pcb[i]
      <4> SUFFICES ASSUME ~Running(i) PROVE stopped[i] = pcb[i]
        OBVIOUS
      <4>1. blocks[i] = pcb[i] /\ blocks[i].state = "READY"
        BY <2>1 DEF Resembles, Running, PcbType
      <4> QED BY <2>1, <3>1, <4>1 DEF PcbType
    <3> QED BY <3>1, <3>2, <3>3 DEF Resembles
  <2>3. CASE i # current
    <3>1. stopped[i] = blocks[i]
      BY <1>3, <2>3
    <3>2. ~Running(i) /\ blocks[i].state = "READY"
      BY <1>2, <2>1, <2>3 DEF Resembles, Running, PcbType
    <3> HIDE DEF stopped, current
    <3> QED BY <2>1, <3>1, <3>2 DEF Resembles
  <2> QED BY <2>2, <2>3
<1>7. stopped \in [Slots -> PcbType]
  <2>1. stopped = [i \in Slots |-> stopped[i]]
    BY <1>3
  <2> HIDE DEF stopped
  <2> QED BY <1>6, <2>1
<1> HIDE DEF current, next, stopped
<1>8. CASE ListedSlots = {}
  <2>1. pcb' = stopped /\ mode' = "hung" /\ cr3' = cr3
    BY <1>4, <1>8
  <2> QED
    BY <1>6, <1>8, <2>1 DEF SwitchStep, Running
<1>9. CASE ListedSlots # {}
  <2> DEFINE chosen == [stopped[next] EXCEPT !.state = "RUNNING"]
  <2>1. /\ pcb' = [stopped EXCEPT ![next] = chosen] /\ mode' = "user"
        /\ cr3' = stopped[next].dir
        /\ next \in Slots /\ listed[next]
    BY <1>4, <1>5, <1>9
  <2>2. /\ chosen.state = "RUNNING" /\ chosen.pid = stopped[next].pid
        /\ chosen.dir = stopped[next].dir /\ chosen.name = stopped[next].name
    BY <1>6, <2>1, OnlyTheState
  <2> HIDE DEF chosen
  <2>3. \A i \in Slots : pcb'[i] = IF i = next THEN chosen ELSE stopped[i]
    BY <1>7, <2>1
  <2>4. \A i \in Slots :
          /\ pcb'[i].pid = pcb[i].pid /\ pcb'[i].dir = pcb[i].dir
          /\ pcb'[i].name = pcb[i].name
          /\ Running(i)' <=> i = next
          /\ (~Running(i) /\ ~Running(i)') => pcb'[i] = pcb[i]
    BY <1>6, <2>2, <2>3 DEF Running
  <2>5. next \in ListedSlots /\ cr3' = pcb[next].dir
    BY <1>6, <2>1 DEF ListedSlots
  <2> QED
    BY <2>1, <2>4, <2>5 DEF SwitchStep, next, current
<1> QED
  BY <1>8, <1>9

\* The first searches of the two pools find their first elements.
LEMMA FirstSlotAndDirectory ==
  ASSUME IInv, BootPristine, mode = "boot"
  PROVE  /\ InactiveSlots = Slots /\ InactiveIndex = 0
         /\ UnusedDirs = Dirs /\ NewDir = 0
<1>1. InactiveSlots = Slots /\ UnusedDirs = Dirs
  BY DEF BootPristine, InactiveSlots, UnusedDirs
<1>2. 0 \in Slots /\ Slots \subseteq Nat /\ 0 \in Dirs /\ Dirs \subseteq Nat
  BY ProcessAssumption, PagingAssumption
<1>3. InactiveIndex = CHOOSE i \in Slots : \A j \in Slots : i <= j
  BY <1>1, Zenon DEF InactiveIndex
<1>4. NewDir = CHOOSE d \in Dirs : \A e \in Dirs : d <= e
  BY <1>1, Zenon DEF NewDir
<1>5. /\ \E i \in Slots : \A j \in Slots : i <= j
      /\ \E d \in Dirs : \A e \in Dirs : d <= e
  BY <1>2
<1>6. InactiveIndex \in Slots /\ InactiveIndex <= 0
  <2> HIDE DEF Slots
  <2> QED BY <1>2, <1>3, <1>5
<1>7. NewDir \in Dirs /\ NewDir <= 0
  <2> HIDE DEF Dirs
  <2> QED BY <1>2, <1>4, <1>5
<1> QED
  BY <1>1, <1>6, <1>7

\* At boot the shell is not refused: the frames asked for, two, are taken for
\* bytes by the check, which then wants two free frames at most.
LEMMA ShellAccepted ==
  ASSUME IInv, BootPristine, mode = "boot"
  PROVE  ~CreateRefused(ShellRequest)
<1>1. active = 0
  <2>1. ListedSlots = {}
    BY DEF BootPristine, ListedSlots
  <2> QED BY <2>1, FS_EmptySet DEF IInv, TableInv, ActiveCountExact
<1>2. PageFrameCountNeeded(1) = 2
  <2>1. PageFrameCountNeeded(1) = (2 * FrameSize) \div FrameSize
    BY PagingAssumption DEF PageFrameCountNeeded, CeilDiv
  <2>2. \A m \in Nat : m >= 1 => (2 * m) \div m = 2
    OBVIOUS
  <2> QED BY <2>1, <2>2, PagingAssumption
<1>3. CeilDiv(2, FrameSize) <= 2
  <2>1. \A m \in Nat : m >= 1 => (2 + m - 1) \div m <= 2
    OBVIOUS
  <2> QED BY <2>1, PagingAssumption DEF CeilDiv
<1>4. pageManager.free_page_frame_count = NFrames - 1
  <2>1. Cardinality(UserFrames) = NFrames - 1
    BY PagingAssumption, FS_Interval
  <2> QED BY <2>1 DEF IInv, TableInv, PagingInv, FreeCountExact, BootPristine
<1>5. AllocateCheck(pageManager, 2)
  <2>1. CeilDiv(2, FrameSize) \in Int
    BY PagingAssumption DEF CeilDiv
  <2> QED BY <1>3, <1>4, <2>1, PagingAssumption DEF AllocateCheck
<1> QED
  BY <1>1, <1>2, <1>5, ProcessAssumption, PagingAssumption DEF CreateRefused, ShellRequest

\* Every step of the kernel is one of the four.
LEMMA StepIs ==
  ASSUME IInv, BootPristine, [Next]_vars
  PROVE  QuietStep \/ SwitchStep \/ CreateStep \/ DestroyStep
<1>1. CASE BootCreateShell
  <2>1. ShellRequest \in [name: Programs, page: Pages, size: Nat]
    BY ProcessAssumption, PagingAssumption DEF ShellRequest, Pages
  <2>2. ~CreateRefused(ShellRequest) /\ UnusedDirs # {}
    <3>1. mode = "boot"
      BY <1>1 DEF BootCreateShell
    <3> QED BY <2>1, <3>1, ShellAccepted, AcceptedRequest DEF IInv
  <2>3. CreateWithDirectory(ShellRequest)
    BY <1>1, <2>2 DEF BootCreateShell, CreateUserProcess, CreateWithoutDirectory
  <2> QED BY <1>1, <2>1, <2>2, <2>3 DEF BootCreateShell, CreateStep
<1>2. CASE BootSwitch
  <2>1. Resembles(pcb)
    BY DEF Resembles, IInv, TableInv, TypeOK, ProcessTypeOK
  <2> QED BY <1>2, <2>1, SwitchIs DEF BootSwitch
<1>3. CASE TimerInterrupt
  BY <1>3, SavedTableResembles, SwitchIs DEF TimerInterrupt
<1>4. CASE UserStep
  BY <1>4 DEF UserStep, QuietStep, pagingVars, processVars
<1>5. CASE TripleFault
  BY <1>5 DEF TripleFault, QuietStep, pagingVars, processVars
<1>6. ASSUME NEW req \in [name: Programs, page: Pages, size: Nat], CanExecute,
             CreateUserProcess(req), UNCHANGED <<mode, eip, exited>>
      PROVE  QuietStep \/ CreateStep
  <2>1. mode = "user" /\ cr3 \in Dirs /\ dirUsed[cr3]
    BY <1>6, ExecutingInUsedDirectory
  <2>2. CASE CreateRefused(req)
    BY <1>6, <2>2 DEF CreateUserProcess, QuietStep, pagingVars, processVars
  <2>3. CASE ~CreateRefused(req)
    <3>1. UnusedDirs # {}
      BY <2>3, AcceptedRequest DEF IInv
    <3>2. CreateWithDirectory(req)
      BY <1>6, <2>3, <3>1 DEF CreateUserProcess, CreateWithoutDirectory
    <3> QED BY <1>6, <2>1, <2>3, <3>2 DEF CreateStep
  <2> QED BY <2>2, <2>3
<1>7. ASSUME NEW req \in Request, SysProcessCreate(req) PROVE QuietStep \/ CreateStep
  <2>1. req \in [name: Programs, page: Pages, size: Nat]
    BY ProcessAssumption DEF Request
  <2> QED BY <1>6, <1>7, <2>1 DEF SysProcessCreate
<1>8. CASE SysCreateClock
  <2>1. ClockRequest \in [name: Programs, page: Pages, size: Nat]
    BY ProcessAssumption, PagingAssumption DEF ClockRequest, Pages
  <2> QED BY <1>6, <1>8, <2>1 DEF SysCreateClock
<1>9. ASSUME NEW pid \in 0 .. NProcs, CanExecute, Destroy(pid), mode' = mode,
             exited' \/ (exited' = exited /\ ~KillRefused(pid)), exited => exited'
      PROVE  QuietStep \/ DestroyStep
  <2>1. mode = "user" /\ cr3 \in Dirs /\ dirUsed[cr3]
    BY <1>9, ExecutingInUsedDirectory
  <2>2. CASE DestroyRefused(pid)
    BY <1>9, <2>2 DEF Destroy, QuietStep, pagingVars, processVars
  <2>3. CASE ~DestroyRefused(pid)
    BY <1>9, <2>1, <2>3 DEF Destroy, DestroyRefused, DestroyStep
  <2> QED BY <2>2, <2>3
<1>10. ASSUME NEW pid \in 0 .. NProcs, SysProcessDestroy(pid) PROVE QuietStep \/ DestroyStep
  BY <1>9, <1>10 DEF SysProcessDestroy
<1>11. ASSUME NEW pid \in 0 .. NProcs, SysKill(pid) PROVE QuietStep \/ DestroyStep
  <2>1. CASE KillRefused(pid) /\ UNCHANGED <<pagingVars, processVars>>
    BY <1>11, <2>1 DEF SysKill, QuietStep, pagingVars, processVars
  <2>2. CASE ~KillRefused(pid) /\ Destroy(pid)
    BY <1>9, <1>11, <2>2 DEF SysKill
  <2> QED BY <1>11, <2>1, <2>2 DEF SysKill
<1>12. CASE UNCHANGED vars
  BY <1>12 DEF vars, QuietStep
<1> QED
  BY <1>1, <1>2, <1>3, <1>4, <1>5, <1>7, <1>8, <1>10, <1>11, <1>12
     DEF Next, MachineStep, ShippedCall, ExitCall

-----------------------------------------------------------------------------
(* The strengthened invariant holds at first and is kept by each step.     *)

LEMMA InitSafety == Init => SafetyInv
<1> SUFFICES ASSUME Init PROVE SafetyInv
  OBVIOUS
<1>1. /\ \A i \in Slots : /\ pcb[i] = [pid |-> 0, state |-> "READY", name |-> NoName,
                                       page |-> 0, step |-> 0, dir |-> NullDir]
                          /\ ~listed[i]
      /\ mode = "boot" /\ cr3 = KernelDir /\ \A d \in Dirs : ~dirUsed[d]
  BY DEF Init, ProcessInit, PagingInit
<1>2. FreeFrames(pageManager) = UserFrames
  <2>1. \A f \in UserFrames : f \in Frames /\ f # 0
    BY PagingAssumption
  <2>2. pageManager.page_frame_map = [f \in Frames |-> f = 0]
    BY DEF Init, PagingInit
  <2>3. \A f \in UserFrames : ~pageManager.page_frame_map[f]
    BY <2>1, <2>2, Zenon
  <2> QED BY <2>3, Zenon DEF FreeFrames
<1>3. UsedBlocks = {}
  BY <1>1 DEF UsedBlocks
<1>4. Cardinality(UserFrames) = NFrames - 1
  BY PagingAssumption, FS_Interval
<1>5. FramesPayForBlocks
  BY <1>1, <1>2, <1>3, <1>4, FS_EmptySet, PagingAssumption DEF FramesPayForBlocks
<1>6. Stackless = {}
  BY <1>1 DEF Stackless, HasDirectory
<1> QED
  BY <1>1, <1>2, <1>5, <1>6
     DEF SafetyInv, BootPristine, StacklessFew, FirstDirectory, ActiveInUse,
         RunningListedOrFirst, ShellSurvives, Running

LEMMA ShellKeepsKernel ==
  ASSUME IInv, SafetyInv, mode = "user", ~exited
  PROVE  KernelMapped(cr3)
<1>1. listed[0] /\ cr3 \in Dirs /\ dirUsed[cr3]
  BY DEF SafetyInv, ShellSurvives, ActiveInUse, IInv, CpuInv, ActiveDirectory
<1> QED
  BY <1>1 DEF KernelMapped, IInv, TableInv, PagingInv, KernelEntryIffUsed

LEMMA QuietKeepsSafety ==
  ASSUME IInv, SafetyInv, QuietStep
  PROVE  SafetyInv'
<1>1. /\ UNCHANGED <<pageManager, dirUsed, dirTable, cr3, pcb, listed, content>>
      /\ mode' = mode \/ (mode = "user" /\ mode' = "down" /\ ~KernelMapped(cr3))
      /\ exited => exited'
  BY DEF QuietStep
<1>2. FirstDirectory' /\ FramesPayForBlocks' /\ StacklessFew'
  BY <1>1 DEF SafetyInv, FirstDirectory, FramesPayForBlocks, UsedBlocks, StacklessFew,
              Stackless, HasDirectory
<1>3. BootPristine' /\ ActiveInUse' /\ RunningListedOrFirst'
  BY <1>1 DEF SafetyInv, BootPristine, ActiveInUse, RunningListedOrFirst, Running
<1>4. ShellSurvives'
  BY <1>1, ShellKeepsKernel DEF SafetyInv, ShellSurvives
<1> QED
  BY <1>2, <1>3, <1>4 DEF SafetyInv

LEMMA SwitchKeepsSafety ==
  ASSUME IInv, SafetyInv, SwitchStep
  PROVE  SafetyInv'
<1> DEFINE next == NextSlot(pcb[CurrentSlot(pcb)].pid)
<1>1. /\ UNCHANGED <<pageManager, dirUsed, dirTable, listed, content, exited>>
      /\ mode \in {"booted", "user"}
      /\ \A i \in Slots : /\ pcb'[i].pid = pcb[i].pid /\ pcb'[i].dir = pcb[i].dir
                          /\ pcb'[i].name = pcb[i].name
      /\ \/ /\ ListedSlots = {} /\ mode' = "hung" /\ cr3' = cr3
            /\ \A i \in Slots : ~Running(i)'
         \/ /\ next \in ListedSlots /\ mode' = "user" /\ cr3' = pcb[next].dir
            /\ \A i \in Slots : Running(i)' <=> i = next
  BY DEF SwitchStep
<1> HIDE DEF next
<1>2. FirstDirectory'
  BY <1>1 DEF SafetyInv, FirstDirectory
<1>3. FramesPayForBlocks'
  <2>1. UsedBlocks' = UsedBlocks
    BY <1>1 DEF UsedBlocks
  <2> QED BY <1>1, <2>1 DEF SafetyInv, FramesPayForBlocks
<1>4. StacklessFew'
  <2>1. Stackless' = Stackless
    BY <1>1 DEF Stackless, HasDirectory
  <2> QED BY <1>1, <2>1 DEF SafetyInv, StacklessFew
<1>5. BootPristine'
  BY <1>1 DEF BootPristine
<1>6. ActiveInUse'
  <2>1. next \in ListedSlots => pcb[next].dir \in Dirs /\ dirUsed[pcb[next].dir]
    BY DEF IInv, TableInv, LiveHaveDirectories, ListedSlots
  <2> QED BY <1>1, <2>1 DEF SafetyInv, ActiveInUse
<1>7. RunningListedOrFirst'
  BY <1>1 DEF RunningListedOrFirst, ListedSlots
<1>8. ShellSurvives'
  <2>1. 0 \in Slots
    BY ProcessAssumption
  <2>2. ~exited => 0 \in ListedSlots
    BY <1>1, <2>1 DEF SafetyInv, ShellSurvives, ListedSlots
  <2> QED BY <1>1, <2>1, <2>2 DEF SafetyInv, ShellSurvives
<1> QED
  BY <1>2, <1>3, <1>4, <1>5, <1>6, <1>7, <1>8 DEF SafetyInv

LEMMA UsedBlocksFinite ==
  IsFiniteSet(UsedBlocks) /\ Cardinality(UsedBlocks) \in Nat
BY SlotsFinite DEF UsedBlocks

\* A destruction that releases the first directory is the first process's
\* own, with every block of the table used and so every frame given out.
LEMMA ReleaseOnlyAtTheEnd ==
  ASSUME IInv, SafetyInv, NEW pid \in ListedSlots, pcb[PcbOf(pid)].dir = 0
  PROVE  pid = 0 /\ FreeFrames(pageManager) = {}
<1>1. pid \in Slots /\ listed[pid] /\ TableInv
  BY DEF ListedSlots, IInv
<1>2. PcbOf(pid) = pid /\ pcb[pid].dir = 0
  BY <1>1, ReleasedIsTargets
<1>3. pid = 0
  BY <1>1, <1>2 DEF SafetyInv, FirstDirectory
<1>4. \A j \in Slots : pcb[j].pid = 0 => j <= 0
  <2> DEFINE M == {NProcs - i : i \in {i \in Slots : pcb[i].pid = 0}}
  <2>1. M \subseteq Nat
    BY ProcessAssumption
  <2>2. CASE M = {}
    BY <2>2
  <2>3. CASE M # {}
    <3>1. PICK x \in M : \A y \in M : x <= y
      <4> HIDE DEF M
      <4> QED BY <2>1, <2>3, LeastElement
    <3>2. \E i \in Slots : pcb[i].pid = 0 /\ \A j \in Slots : pcb[j].pid = 0 => j <= i
      BY <3>1, ProcessAssumption
    <3>3. \A j \in Slots : pcb[j].pid = 0 => j <= PcbOf(0)
      BY <3>2 DEF PcbOf
    <3> QED BY <1>2, <1>3, <3>3
  <2> QED BY <2>2, <2>3
<1>5. UsedBlocks = Slots
  <2>1. \A i \in Slots : i # 0 => i \in UsedBlocks
    BY <1>4 DEF SafetyInv, FramesPayForBlocks
  <2>2. 0 \in UsedBlocks
    BY <1>1, <1>2, <1>3 DEF UsedBlocks
  <2> QED BY <2>1, <2>2 DEF UsedBlocks
<1>6. FreeFrames(pageManager) = {}
  <2> SUFFICES ASSUME FreeFrames(pageManager) # {} PROVE FALSE
    OBVIOUS
  <2>1. Cardinality(FreeFrames(pageManager)) >= 1
    BY FreeFramesFinite
  <2>2. 2 * NProcs + Cardinality(FreeFrames(pageManager)) <= NFrames - 1
    BY <1>5, SlotsFinite DEF SafetyInv, FramesPayForBlocks
  <2> QED BY <2>1, <2>2, FreeFramesFinite, BlocksAssumption, ProcessAssumption, PagingAssumption
<1> QED
  BY <1>3, <1>6

LEMMA DestroyKeepsSafety ==
  ASSUME IInv, SafetyInv, DestroyStep
  PROVE  SafetyInv'
<1>1. PICK pid \in ListedSlots :
        /\ DestroyListed(pid) /\ mode = "user" /\ mode' = "user"
        /\ cr3 \in Dirs /\ dirUsed[cr3]
        /\ exited' \/ (exited' = exited /\ ~KillRefused(pid))
  BY DEF DestroyStep
<1> DEFINE d == pcb[PcbOf(pid)].dir
<1>2. /\ pid \in Slots /\ listed[pid] /\ TableInv /\ PagingTypeOK
      /\ pcb \in [Slots -> PcbType] /\ 0 \in Slots /\ 0 \in Dirs
  BY ProcessAssumption, PagingAssumption
     DEF ListedSlots, IInv, TableInv, TypeOK, ProcessTypeOK
<1>3. /\ UNCHANGED <<pageManager, cr3>>
      /\ dirTable' = ReleasedTable(d) /\ dirUsed' = ReleasedUsed(d)
  BY <1>1 DEF DestroyListed
<1>4. \A i \in Slots :
        /\ pcb'[i] = IF i = PcbOf(pid) THEN [pcb[i] EXCEPT !.state = "READY"] ELSE pcb[i]
        /\ listed'[i] <=> i # pid /\ listed[i]
  BY <1>1, <1>2, DestroyedBlock
<1>5. \A i \in Slots :
        /\ pcb'[i].pid = pcb[i].pid /\ pcb'[i].dir = pcb[i].dir
        /\ pcb'[i].name = pcb[i].name
        /\ Running(i)' => Running(i) /\ i # PcbOf(pid)
  <2> SUFFICES ASSUME NEW i \in Slots
               PROVE  /\ pcb'[i].pid = pcb[i].pid /\ pcb'[i].dir = pcb[i].dir
                      /\ pcb'[i].name = pcb[i].name
                      /\ Running(i)' => Running(i) /\ i # PcbOf(pid)
    OBVIOUS
  <2>1. pcb[i] \in PcbType
    BY <1>2
  <2>2. CASE i = PcbOf(pid)
    <3>1. pcb'[i] = [pcb[i] EXCEPT !.state = "READY"]
      BY <1>4, <2>2
    <3> QED BY <2>1, <3>1, OnlyTheState DEF Running
  <2>3. CASE i # PcbOf(pid)
    BY <1>4, <2>3 DEF Running
  <2> QED BY <2>2, <2>3
<1>6. d = 0 => pid = 0 /\ FreeFrames(pageManager) = {}
  BY <1>1, ReleaseOnlyAtTheEnd
<1>7. PcbOf(pid) = pid \/ pid = 0
  BY <1>2, PcbOfIs DEF TableInv
<1> HIDE DEF d
<1>8. /\ \A e \in Dirs : dirUsed'[e] = IF d = 0 /\ e = d THEN FALSE ELSE dirUsed[e]
      /\ \A e \in Dirs, v \in Pages :
           dirTable'[e][v] = IF d = 0 /\ e = d THEN NoFrame ELSE dirTable[e][v]
  <2>1. \A e \in Dirs : ReleasedUsed(d)[e] = IF d = 0 /\ e = d THEN FALSE ELSE dirUsed[e]
    BY <1>2, ReleasedUsedIs
  <2>2. \A e \in Dirs, v \in Pages :
          ReleasedTable(d)[e][v] = IF d = 0 /\ e = d THEN NoFrame ELSE dirTable[e][v]
    BY <1>2, ReleasedTableIs
  <2> QED BY <1>3, <2>1, <2>2
<1>9. BootPristine'
  BY <1>1 DEF BootPristine
<1>10. FirstDirectory'
  <2>1. \A i \in Slots : (listed'[i] /\ pcb'[i].dir = 0) => i = 0
    <3>1. \A i \in Slots : (listed[i] /\ pcb[i].dir = 0) => i = 0
      BY DEF SafetyInv, FirstDirectory
    <3>2. \A i \in Slots : listed'[i] => listed[i]
      BY <1>4, Zenon
    <3> QED BY <1>5, <3>1, <3>2
  <2>2. dirUsed'[0] \/ FreeFrames(pageManager') = {}
    <3>1. dirUsed[0] \/ FreeFrames(pageManager) = {}
      BY <1>1 DEF SafetyInv, FirstDirectory
    <3>2. CASE d = 0
      BY <1>3, <1>6, <3>2
    <3>3. CASE d # 0
      BY <1>2, <1>3, <1>8, <3>1, <3>3
    <3> QED BY <3>2, <3>3
  <2> QED BY <2>1, <2>2 DEF FirstDirectory
<1>11. StacklessFew'
  <2>1. \A i \in Slots : listed'[i] /\ pcb[i].dir \in Dirs /\ d = 0 => pcb[i].dir # 0
    BY <1>4, <1>6 DEF SafetyInv, FirstDirectory
  <2>2. Stackless' \subseteq Stackless
    <3> SUFFICES ASSUME NEW i \in Slots, HasDirectory(i)',
                        dirTable'[pcb'[i].dir][StackPage] = NoFrame
                 PROVE  HasDirectory(i) /\ dirTable[pcb[i].dir][StackPage] = NoFrame
      BY DEF Stackless
    <3>1. listed'[i] /\ listed[i] /\ pcb'[i].dir = pcb[i].dir /\ pcb[i].dir \in Dirs
      BY <1>4, <1>5 DEF HasDirectory
    <3>2. ~(d = 0 /\ pcb[i].dir = d)
      BY <2>1, <3>1
    <3>3. dirTable'[pcb[i].dir][StackPage] = dirTable[pcb[i].dir][StackPage]
      BY <1>8, <3>1, <3>2, UserPagesArePages
    <3> QED BY <3>1, <3>3 DEF HasDirectory
  <2> QED BY <1>3, <2>2 DEF SafetyInv, StacklessFew
<1>12. FramesPayForBlocks'
  <2>1. UsedBlocks' = UsedBlocks
    BY <1>5 DEF UsedBlocks
  <2> QED BY <1>3, <1>5, <2>1 DEF SafetyInv, FramesPayForBlocks
<1>13. ActiveInUse'
  BY <1>1, <1>2, <1>3, <1>4, <1>6, <1>8 DEF ActiveInUse
<1>14. RunningListedOrFirst'
  BY <1>4, <1>5, <1>7 DEF SafetyInv, RunningListedOrFirst
<1>15. ShellSurvives'
  <2> SUFFICES ASSUME ~exited'
               PROVE  /\ listed'[0] /\ pcb'[0].name = "shell" /\ pcb'[0].dir = 0
                      /\ mode' \notin {"hung", "down"}
    BY DEF ShellSurvives
  <2>1. ~exited /\ ~KillRefused(pid)
    BY <1>1
  <2>2. listed[0] /\ pcb[0].name = "shell" /\ pcb[0].dir = 0
    BY <1>1, <2>1 DEF SafetyInv, ShellSurvives
  <2>3. pid # 0
    BY <1>2, <2>1, <2>2 DEF KillRefused, MatchesShell
  <2> QED BY <1>1, <1>2, <1>4, <1>5, <2>2, <2>3
<1> QED
  BY <1>9, <1>10, <1>11, <1>12, <1>13, <1>14, <1>15 DEF SafetyInv

\* What a creation takes: two frames, or the last one.
LEMMA CreationTakesFrames ==
  ASSUME TableInv, NEW req, FreeFrames(pageManager) # {}, CreateWithDirectory(req)
  PROVE  FreeFrames(pageManager') # {} =>
           Cardinality(FreeFrames(pageManager')) = Cardinality(FreeFrames(pageManager)) - 2
<1> DEFINE pm  == pageManager
           pm1 == Allocated(pm)
           pm2 == Allocated(pm1)
<1>1. pm \in PageManagerType /\ pm1 \in PageManagerType
  BY AllocatedType DEF TableInv, PagingInv, PagingTypeOK
<1>2. Cardinality(FreeFrames(pm1)) = Cardinality(FreeFrames(pm)) - 1
  BY <1>1, AllocatedFreeFrames, FirstFreeFrameIsFree, FreeFramesFinite, FS_RemoveElement
<1>3. FreeFrames(pm2) # {} =>
        Cardinality(FreeFrames(pm2)) = Cardinality(FreeFrames(pm1)) - 1
  <2>1. CASE FreeFrames(pm1) = {}
    BY <2>1 DEF Allocated
  <2>2. CASE FreeFrames(pm1) # {}
    <3> HIDE DEF pm1
    <3> QED BY <1>1, <2>2, AllocatedFreeFrames, FirstFreeFrameIsFree,
               FreeFramesFinite, FS_RemoveElement
  <2> QED BY <2>1, <2>2
<1>4. pageManager' = pm2
  BY DEF CreateWithDirectory
<1>5. Cardinality(FreeFrames(pm)) \in Nat
  BY FreeFramesFinite
<1> HIDE DEF pm, pm1, pm2
<1> QED
  BY <1>2, <1>3, <1>4, <1>5 DEF pm

LEMMA CreateKeepsSafety ==
  ASSUME IInv, SafetyInv, CreateStep
  PROVE  SafetyInv'
<1>1. PICK req \in [name: Programs, page: Pages, size: Nat] :
        /\ ~CreateRefused(req) /\ CreateWithDirectory(req) /\ exited' = exited
        /\ \/ mode = "boot" /\ mode' = "booted" /\ req = ShellRequest
           \/ mode = "user" /\ mode' = "user" /\ cr3 \in Dirs /\ dirUsed[cr3]
  BY DEF CreateStep
<1> DEFINE p == InactiveIndex
           d == NewDir
<1>2. /\ InactiveSlots # {} /\ req.page \in UserPages /\ TableInv
      /\ FreeFrames(pageManager) # {} /\ UnusedDirs # {}
  BY <1>1, AcceptedRequest DEF IInv
<1>3. /\ p \in Slots /\ ~listed[p] /\ d \in Dirs /\ ~dirUsed[d]
      /\ 0 \in Slots /\ 0 \in Dirs
  BY <1>2, InactiveIndexIsFree, NewDirIsUnused, ProcessAssumption, PagingAssumption
<1>4. mode = "boot" => p = 0 /\ d = 0
  BY FirstSlotAndDirectory DEF SafetyInv
<1>5. \A e \in Dirs : /\ dirUsed'[e] <=> e = d \/ dirUsed[e]
                      /\ dirTable'[e] = IF e = d THEN NewTable(req) ELSE dirTable[e]
  BY <1>1, <1>2, NewDirMarked, OtherTablesKept
<1>6. \A i \in Slots :
        /\ pcb'[i] = IF i = p
                    THEN [pid |-> p, state |-> "READY", name |-> req.name,
                          page |-> req.page, step |-> 0, dir |-> d]
                    ELSE pcb[i]
        /\ listed'[i] <=> i = p \/ listed[i]
  BY <1>1, <1>2, CreatedBlock
<1>7. cr3' = cr3 /\ pageManager' = Allocated(Allocated(pageManager))
  BY <1>1 DEF CreateWithDirectory
<1>8. NewTable(req)[StackPage] = NoFrame => FreeFrames(pageManager') = {}
  <2>1. NewTable(req)[StackPage] = NoFrame => FreeFrames(Allocated(pageManager)) = {}
    BY <1>2, NewTableIs
  <2> QED BY <1>7, <2>1 DEF Allocated
<1> HIDE DEF p, d
<1>9. BootPristine'
  BY <1>1 DEF BootPristine
<1>10. StacklessFew'
  <2>1. Stackless = {}
    BY <1>2 DEF SafetyInv, StacklessFew
  <2>2. \A i \in Slots \ {p} : HasDirectory(i)' =>
          /\ HasDirectory(i) /\ pcb'[i].dir = pcb[i].dir /\ pcb[i].dir # d
    <3>1. \A i \in Slots : listed[i] => pcb[i].dir # d
      BY <1>2, <1>3 DEF TableInv, LiveHaveDirectories
    <3> QED BY <1>6, <3>1 DEF HasDirectory
  <2>3. \A i \in Slots \ {p} : i \notin Stackless'
    BY <1>5, <2>1, <2>2 DEF Stackless, HasDirectory
  <2>4. p \in Stackless' => FreeFrames(pageManager') = {}
    BY <1>3, <1>5, <1>6, <1>8 DEF Stackless
  <2> QED BY <2>3, <2>4 DEF StacklessFew, Stackless
<1>11. FirstDirectory'
  <2>1. d = 0 => p = 0
    BY <1>1, <1>2, <1>3, <1>4 DEF SafetyInv, FirstDirectory
  <2>2. dirUsed'[0]
    BY <1>1, <1>2, <1>3, <1>4, <1>5 DEF SafetyInv, FirstDirectory
  <2> QED BY <1>6, <2>1, <2>2 DEF SafetyInv, FirstDirectory
<1>12. FramesPayForBlocks'
  <2>1. UsedBlocks' = UsedBlocks \cup {p}
    BY <1>3, <1>6 DEF UsedBlocks
  <2>2. /\ Cardinality(UsedBlocks') \in Nat
        /\ Cardinality(UsedBlocks') <= Cardinality(UsedBlocks) + 1
    <3>1. CASE p \in UsedBlocks
      <4>1. UsedBlocks' = UsedBlocks
        BY <2>1, <3>1
      <4> QED BY <4>1, UsedBlocksFinite
    <3>2. CASE p \notin UsedBlocks
      <4>1. Cardinality(UsedBlocks \cup {p}) = Cardinality(UsedBlocks) + 1
        BY <3>2, UsedBlocksFinite, FS_AddElement
      <4> QED BY <2>1, <4>1, UsedBlocksFinite
    <3> QED BY <3>1, <3>2
  <2>3. FreeFrames(pageManager)' # {} =>
          Cardinality(FreeFrames(pageManager)') = Cardinality(FreeFrames(pageManager)) - 2
    BY <1>1, <1>2, CreationTakesFrames
  <2>4. \A i \in Slots : pcb'[i].pid # 0 => i \in UsedBlocks'
    BY <1>6, <2>1 DEF SafetyInv, FramesPayForBlocks
  <2>5. 2 * Cardinality(UsedBlocks) + Cardinality(FreeFrames(pageManager)) <= NFrames - 1
    BY <1>2 DEF SafetyInv, FramesPayForBlocks
  <2> QED BY <2>2, <2>3, <2>4, <2>5, UsedBlocksFinite, FreeFramesFinite, PagingAssumption
          DEF FramesPayForBlocks
<1>13. ActiveInUse'
  <2>1. mode = "boot" => cr3 = KernelDir
    BY DEF IInv, CpuInv, ActiveDirectory
  <2> QED BY <1>1, <1>5, <1>7, <2>1 DEF ActiveInUse
<1>14. RunningListedOrFirst'
  BY <1>6 DEF SafetyInv, RunningListedOrFirst, Running
<1>15. ShellSurvives'
  BY <1>1, <1>3, <1>4, <1>6 DEF SafetyInv, ShellSurvives, ShellRequest
<1> QED
  BY <1>9, <1>10, <1>11, <1>12, <1>13, <1>14, <1>15 DEF SafetyInv

LEMMA StepKeepsSafety == IInv /\ SafetyInv /\ [Next]_vars => SafetyInv'
BY StepIs, QuietKeepsSafety, SwitchKeepsSafety, CreateKeepsSafety, DestroyKeepsSafety
   DEF SafetyInv

LEMMA SafetyHolds == Spec => [](IInv /\ SafetyInv)
BY InitInv, InitSafety, NextKeepsInv, StepKeepsSafety, PTL DEF Spec

-----------------------------------------------------------------------------
(* The results on safety.                                                  *)

\* Of all live processes only one can lack a stack, and only once every
\* frame has been given out.
THEOREM StackOnlyMissingAtTheEnd == Spec => []StacklessOnlyAtTheEnd
<1>1. ASSUME SafetyInv PROVE StacklessOnlyAtTheEnd
  <2> SUFFICES ASSUME Stackless # {}
               PROVE  Cardinality(Stackless) = 1 /\ FreeFrames(pageManager) = {}
    BY DEF StacklessOnlyAtTheEnd
  <2>1. FreeFrames(pageManager) = {} /\ \A i, j \in Stackless : i = j
    BY <1>1 DEF SafetyInv, StacklessFew
  <2>2. PICK i \in Stackless : TRUE
    OBVIOUS
  <2>3. Stackless = {i}
    BY <2>1, <2>2
  <2> QED BY <2>1, <2>3, FS_Singleton
<1> QED
  BY <1>1, SafetyHolds, PTL

\* The kernel goes missing only when the first process destroys itself with
\* the memory used up.
THEOREM KernelLostOnlyByItsFirstProcess == Spec => []KernelLostOnlyBySelfDestruction
<1>1. ASSUME IInv, SafetyInv PROVE KernelLostOnlyBySelfDestruction
  <2> SUFFICES ASSUME ~KernelMapped(cr3)
               PROVE  cr3 = 0 /\ ~listed[0] /\ FreeFrames(pageManager) = {}
    BY DEF KernelLostOnlyBySelfDestruction
  <2>1. cr3 \in Dirs
    BY <1>1 DEF SafetyInv, ActiveInUse, KernelMapped
  <2>2. ~dirUsed[cr3]
    BY <1>1, <2>1 DEF KernelMapped, IInv, TableInv, PagingInv, KernelEntryIffUsed
  <2> QED BY <1>1, <2>2 DEF SafetyInv, ActiveInUse, KernelMapped
<1> QED
  BY <1>1, SafetyHolds, PTL

\* With programs that do not exit the shell outlives everything, and the
\* kernel neither hangs nor loses its mapping.
THEOREM ShellOutlives == Spec => []ShellSurvives
BY SafetyHolds, PTL DEF SafetyInv

-----------------------------------------------------------------------------
(* A waiting process is left alone.                                        *)

\* Creation takes frames that no other directory maps.
LEMMA CreationDisturbsNobody ==
  ASSUME IInv, CreateStep, NEW i \in Slots
  PROVE  Undisturbed(i)
<1> SUFFICES ASSUME HasDirectory(i), listed'[i]
             PROVE  /\ pcb'[i] = pcb[i]
                    /\ dirTable'[pcb[i].dir] = dirTable[pcb[i].dir]
                    /\ \A v \in UserPages :
                         LET f == dirTable[pcb[i].dir][v]
                         IN  f # NoFrame => content'[f] = content[f]
  BY DEF Undisturbed
<1>1. PICK req \in [name: Programs, page: Pages, size: Nat] :
        ~CreateRefused(req) /\ CreateWithDirectory(req)
  BY DEF CreateStep
<1> DEFINE p == InactiveIndex
           d == NewDir
           e == pcb[i].dir
<1>2. /\ InactiveSlots # {} /\ req.page \in UserPages /\ TableInv
      /\ FreeFrames(pageManager) # {} /\ UnusedDirs # {}
  BY <1>1, AcceptedRequest DEF IInv
<1>3. ~listed[p] /\ d \in Dirs /\ ~dirUsed[d] /\ dirTable \in [Dirs -> TableType]
  BY <1>2, InactiveIndexIsFree, NewDirIsUnused DEF TableInv, TypeOK, PagingTypeOK
<1>4. e \in Dirs /\ e # d /\ i # p
  BY <1>2, <1>3 DEF HasDirectory, TableInv, LiveHaveDirectories
<1>5. pcb'[i] = pcb[i]
  BY <1>1, <1>2, <1>4, CreatedBlock
<1>6. dirTable'[e] = dirTable[e] /\ dirTable'[d] = NewTable(req)
  BY <1>1, <1>2, <1>3, <1>4, OtherTablesKept
<1>7. NewTable(req)[req.page] # NoFrame /\ LoadFrame(req) = NewTable(req)[req.page]
  BY <1>2, NewTableIs DEF LoadFrame
<1>8. FrameMappedOnce'
  BY <1>1, <1>2, CreateKeepsPaging DEF PagingInv
<1>9. content' = [f \in Frames |-> IF f = LoadFrame(req) THEN req.name ELSE content[f]]
  BY <1>1 DEF CreateWithDirectory
<1>10. ASSUME NEW v \in UserPages, dirTable[e][v] # NoFrame
       PROVE  content'[dirTable[e][v]] = content[dirTable[e][v]]
  <2>1. dirTable[e][v] \in Frames
    BY <1>3, <1>4, <1>10, UserPagesArePages DEF TableType
  <2>2. dirTable[e][v] # LoadFrame(req)
    <3> HIDE DEF d, e
    <3> QED BY <1>2, <1>3, <1>4, <1>6, <1>7, <1>8, <1>10 DEF FrameMappedOnce
  <2> QED BY <1>9, <2>1, <2>2
<1> QED
  BY <1>5, <1>6, <1>10

\* Destruction releases its target's directory or none.
LEMMA DestructionDisturbsNobody ==
  ASSUME IInv, DestroyStep, NEW i \in Slots
  PROVE  Undisturbed(i)
<1> SUFFICES ASSUME HasDirectory(i), listed'[i]
             PROVE  /\ pcb'[i] = pcb[i]
                    /\ dirTable'[pcb[i].dir] = dirTable[pcb[i].dir]
                    /\ \A v \in UserPages :
                         LET f == dirTable[pcb[i].dir][v]
                         IN  f # NoFrame => content'[f] = content[f]
  BY DEF Undisturbed
<1>1. PICK pid \in ListedSlots : DestroyListed(pid)
  BY DEF DestroyStep
<1>2. pid \in Slots /\ listed[pid] /\ TableInv /\ dirTable \in [Dirs -> TableType]
  BY DEF ListedSlots, IInv, TableInv, TypeOK, PagingTypeOK
<1>3. i # pid /\ pcb'[i] = (IF i = PcbOf(pid) THEN [pcb[i] EXCEPT !.state = "READY"] ELSE pcb[i])
  BY <1>1, <1>2, DestroyedBlock
<1>4. i # PcbOf(pid)
  BY <1>2, <1>3, PcbOfIs DEF TableInv, HasDirectory
<1>5. dirTable'[pcb[i].dir] = dirTable[pcb[i].dir]
  <2> DEFINE d == pcb[PcbOf(pid)].dir
  <2>1. ~(d = 0 /\ pcb[i].dir = 0)
    BY <1>2, <1>3, ReleasedIsTargets DEF TableInv, DirectoriesDistinct, HasDirectory
  <2>2. dirTable' = ReleasedTable(d)
    BY <1>1 DEF DestroyListed
  <2>3. pcb[i].dir \in Dirs
    BY DEF HasDirectory
  <2> HIDE DEF d
  <2> QED BY <1>2, <2>1, <2>2, <2>3 DEF ReleasedTable, ReleasesDirectory
<1>6. content' = content
  BY <1>1 DEF DestroyListed
<1> QED
  BY <1>3, <1>4, <1>5, <1>6

LEMMA StepDisturbsNobody ==
  ASSUME IInv, SafetyInv, [Next]_vars, NEW i \in Slots
  PROVE  Undisturbed(i)
<1>1. CASE QuietStep
  BY <1>1 DEF QuietStep, Undisturbed
<1>2. CASE SwitchStep
  BY <1>2 DEF SwitchStep, Undisturbed
<1> QED
  BY <1>1, <1>2, CreationDisturbsNobody, DestructionDisturbsNobody, StepIs DEF SafetyInv

\* Creating, destroying and scheduling other processes leaves the block, the
\* memory map and the memory of a waiting process alone.
THEOREM WaitingUndisturbed == Spec => WaitingProcessesUndisturbed
<1>1. ASSUME IInv, SafetyInv, [Next]_vars
      PROVE  [\A i \in Slots : Undisturbed(i)]_vars
  BY <1>1, StepDisturbsNobody
<1> QED
  BY <1>1, SafetyHolds, PTL DEF Spec, WaitingProcessesUndisturbed
-----------------------------------------------------------------------------
(* The refinement of RoundRobin by Kernel, step by step: the process table *)
(* and the scheduler serve the live processes in circular order.           *)

Served(i) == listed[i] /\ Running(i)

\* The process served is the live process that is running, if there is one.
ServiceExact ==
  /\ \A i \in Slots : ServedProcess = i <=> Served(i)
  /\ ServedProcess \in Slots \cup {NProcs}

LEMMA ServedIs == RunningBlockOwnsCpu => ServiceExact
<1> SUFFICES ASSUME RunningBlockOwnsCpu PROVE ServiceExact
  OBVIOUS
<1>1. \A i, j \in Slots : (Served(i) /\ Served(j)) => i = j
  BY DEF RunningBlockOwnsCpu, Served
<1>2. CASE \E i \in Slots : Served(i)
  <2>1. ServedProcess = CHOOSE i \in Slots : Served(i)
    BY <1>2 DEF ServedProcess, Served
  <2>2. ServedProcess \in Slots /\ Served(ServedProcess)
    BY <1>2, <2>1
  <2> QED BY <1>1, <2>2 DEF ServiceExact
<1>3. CASE ~\E i \in Slots : Served(i)
  <2>1. ServedProcess = NProcs
    BY <1>3 DEF ServedProcess, Served
  <2>2. \A i \in Slots : i # NProcs
    BY ProcessAssumption
  <2> QED BY <1>3, <2>1, <2>2 DEF ServiceExact
<1> QED
  BY <1>2, <1>3

\* A step after which the same processes are served leaves the service alone.
LEMMA SameService ==
  ASSUME RunningBlockOwnsCpu, RunningBlockOwnsCpu',
         \A i \in Slots : Served(i)' <=> Served(i)
  PROVE  ServedProcess' = ServedProcess
<1>1. ServiceExact
  BY ServedIs
<1>2. ServiceExact'
  BY ServedIs, PTL
<1> QED
  BY <1>1, <1>2, Zenon DEF ServiceExact

-----------------------------------------------------------------------------
(* The steps.                                                              *)

LEMMA InitRefines == Init => RR!Init
<1> SUFFICES ASSUME Init PROVE RR!Init
  OBVIOUS
<1>1. \A i \in Slots : ~listed[i]
  BY DEF Init, ProcessInit
<1> QED
  BY <1>1 DEF RR!Init, RR!Nobody, LiveProcesses, ListedSlots, ServedProcess

LEMMA QuietRefines ==
  ASSUME QuietStep
  PROVE  UNCHANGED RR!rrVars
BY DEF QuietStep, RR!rrVars, LiveProcesses, ListedSlots, ServedProcess, Running

\* Creation: a process enters at the lowest free identifier.
LEMMA CreateRefines ==
  ASSUME IInv, IInv', CreateStep
  PROVE  RR!Enter
<1>1. PICK req \in [name: Programs, page: Pages, size: Nat] :
        ~CreateRefused(req) /\ CreateWithDirectory(req)
  BY DEF CreateStep
<1> DEFINE p == InactiveIndex
<1>2. InactiveSlots # {} /\ TableInv
  BY <1>1, AcceptedRequest DEF IInv
<1>3. p \in Slots /\ ~listed[p]
  BY <1>2, InactiveIndexIsFree
<1>4. /\ \A i \in Slots : listed'[i] <=> i = p \/ listed[i]
      /\ \A i \in Slots \ {p} : pcb'[i] = pcb[i]
      /\ pcb'[p].state = "READY"
  <2>1. \A i \in Slots :
        /\ pcb'[i] = IF i = p
                    THEN [pid |-> p, state |-> "READY", name |-> req.name,
                          page |-> req.page, step |-> 0, dir |-> NewDir]
                    ELSE pcb[i]
        /\ listed'[i] <=> i = p \/ listed[i]
    BY <1>1, <1>2, CreatedBlock
  <2> HIDE DEF p
  <2> QED BY <1>3, <2>1
<1>5. \A j \in InactiveSlots : p <= j
  <2>1. InactiveSlots \subseteq Nat
    BY ProcessAssumption DEF InactiveSlots
  <2>2. \E i \in InactiveSlots : \A j \in InactiveSlots : i <= j
    BY <1>2, <2>1, LeastElement
  <2> QED BY <2>2 DEF InactiveIndex
<1> HIDE DEF p
<1>6. InactiveSlots = RR!Pids \ LiveProcesses
  BY DEF InactiveSlots, RR!Pids, LiveProcesses, ListedSlots
<1>7. p \in RR!Pids \ LiveProcesses
  BY <1>3, <1>6 DEF InactiveSlots
<1>8. LiveProcesses' = LiveProcesses \cup {p}
  BY <1>3, <1>4 DEF LiveProcesses, ListedSlots
<1>9. ServedProcess' = ServedProcess
  <2>1. \A i \in Slots : Served(i)' <=> Served(i)
    BY <1>3, <1>4 DEF Served, Running
  <2> QED BY <2>1, SameService DEF IInv, CpuInv
<1> QED
  BY <1>5, <1>6, <1>7, <1>8, <1>9 DEF RR!Enter

\* Destruction: the process leaves, and with it its claim to the CPU, even
\* when process_destroy(0) stops the wrong block.
LEMMA DestroyRefines ==
  ASSUME IInv, IInv', DestroyStep
  PROVE  \E p \in RR!Pids : RR!Leave(p)
<1>1. PICK pid \in ListedSlots : DestroyListed(pid)
  BY DEF DestroyStep
<1>2. pid \in Slots /\ listed[pid] /\ TableInv /\ pcb \in [Slots -> PcbType]
  BY DEF ListedSlots, IInv, TableInv, TypeOK, ProcessTypeOK
<1>3. \A i \in Slots :
        /\ pcb'[i] = IF i = PcbOf(pid) THEN [pcb[i] EXCEPT !.state = "READY"] ELSE pcb[i]
        /\ listed'[i] <=> i # pid /\ listed[i]
  BY <1>1, <1>2, DestroyedBlock
<1>4. PcbOf(pid) = pid \/ ~listed[PcbOf(pid)]
  BY <1>2, PcbOfIs DEF TableInv
<1>5. LiveProcesses' = LiveProcesses \ {pid} /\ pid \in LiveProcesses
  BY <1>2, <1>3 DEF LiveProcesses, ListedSlots
<1>6. \A i \in Slots : Served(i)' <=> i # pid /\ Served(i)
  BY <1>3, <1>4 DEF Served, Running
<1>7. ServiceExact /\ ServiceExact' /\ RunningBlockOwnsCpu /\ RunningBlockOwnsCpu'
  <2>1. RunningBlockOwnsCpu /\ RunningBlockOwnsCpu'
    BY DEF IInv, CpuInv
  <2>2. ServiceExact
    BY <2>1, ServedIs
  <2>3. ServiceExact'
    BY <2>1, ServedIs, PTL
  <2> QED BY <2>1, <2>2, <2>3
<1>8. ServedProcess' = IF ServedProcess = pid THEN NProcs ELSE ServedProcess
  <2>1. CASE ServedProcess = pid
    <3>1. \A i \in Slots : Served(i) => i = pid
      BY <1>7, <2>1 DEF ServiceExact
    <3>2. \A i \in Slots : ~Served(i)'
      BY <1>6, <3>1
    <3> QED BY <1>7, <2>1, <3>2, Zenon DEF ServiceExact
  <2>2. CASE ServedProcess # pid
    <3>1. \A i \in Slots : Served(i)' <=> Served(i)
      BY <1>2, <1>6, <1>7, <2>2 DEF ServiceExact
    <3> QED BY <1>7, <2>2, <3>1, SameService
  <2> QED BY <2>1, <2>2
<1>9. RR!Leave(pid)
  BY <1>5, <1>8 DEF RR!Leave, RR!Nobody
<1> QED
  BY <1>2, <1>9 DEF RR!Pids

\* The identifier after which the search for the next process starts.
LEMMA SearchStartsBehindServed ==
  ASSUME IInv, SafetyInv
  PROVE  pcb[CurrentSlot(pcb)].pid = IF ServedProcess = NProcs THEN 0 ELSE ServedProcess
<1> DEFINE c == CurrentSlot(pcb)
<1>1. ServiceExact /\ 0 \in Slots
  BY ServedIs, ProcessAssumption DEF IInv, CpuInv
<1>2. pcb[0].pid = 0
  BY <1>1 DEF IInv, TableInv, BlocksNumbered
<1>3. CASE RunningSlots(pcb) = {}
  <2>1. c = 0 /\ \A i \in Slots : ~Served(i)
    BY <1>3 DEF CurrentSlot, RunningSlots, Served, Running
  <2>2. ServedProcess = NProcs
    BY <1>1, <2>1 DEF ServiceExact
  <2> QED BY <1>2, <2>1, <2>2
<1>4. CASE RunningSlots(pcb) # {}
  <2>1. c \in Slots /\ Running(c)
    BY <1>4, RunningSlotRuns DEF CurrentSlot, Running
  <2>2. CASE listed[c]
    <3>1. ServedProcess = c
      BY <1>1, <2>1, <2>2 DEF ServiceExact, Served
    <3>2. pcb[c].pid = c /\ c # NProcs
      BY <2>1, <2>2, ProcessAssumption DEF IInv, TableInv, BlocksNumbered
    <3> QED BY <3>1, <3>2
  <2>3. CASE ~listed[c]
    <3>1. c = 0
      BY <2>1, <2>3 DEF SafetyInv, RunningListedOrFirst
    <3>2. \A i \in Slots : ~Served(i)
      BY <2>1, <2>3 DEF IInv, CpuInv, RunningBlockOwnsCpu, Served
    <3>3. ServedProcess = NProcs
      BY <1>1, <3>2 DEF ServiceExact
    <3> QED BY <1>2, <3>1, <3>3
  <2> QED BY <2>2, <2>3
<1> QED
  BY <1>3, <1>4

\* The circular search finds the nearest live process.
LEMMA NextSlotIsNearest ==
  ASSUME NEW pid \in Slots, ListedSlots # {}
  PROVE  \A j \in ListedSlots :
           SearchDistance(pid, NextSlot(pid)) <= SearchDistance(pid, j)
<1> DEFINE Distances == {SearchDistance(pid, i) : i \in ListedSlots}
<1>1. \A i \in Slots : SearchDistance(pid, i) \in Nat
  BY ProcessAssumption DEF SearchDistance
<1>2. Distances \subseteq Nat /\ Distances # {}
  BY <1>1 DEF ListedSlots
<1>3. PICK x \in Distances : \A y \in Distances : x <= y
  <2> HIDE DEF Distances
  <2> QED BY <1>2, LeastElement
<1>4. \E i \in ListedSlots : \A j \in ListedSlots :
        SearchDistance(pid, i) <= SearchDistance(pid, j)
  BY <1>3
<1> QED
  BY <1>4 DEF NextSlot

\* A switch: the CPU passes to the next live process in circular order, or,
\* with none alive, nobody is served as before.
LEMMA SwitchRefines ==
  ASSUME IInv, IInv', SafetyInv, SwitchStep
  PROVE  [RR!Switch]_(RR!rrVars)
<1> DEFINE last == pcb[CurrentSlot(pcb)].pid
           next == NextSlot(last)
<1>1. /\ listed' = listed
      /\ \/ ListedSlots = {} /\ \A i \in Slots : ~Running(i)'
         \/ next \in ListedSlots /\ \A i \in Slots : Running(i)' <=> i = next
  BY DEF SwitchStep
<1>2. ServiceExact /\ ServiceExact'
  <2>1. ServiceExact
    BY ServedIs DEF IInv, CpuInv
  <2>2. RunningBlockOwnsCpu'
    BY DEF IInv, CpuInv
  <2>3. ServiceExact'
    BY <2>2, ServedIs, PTL
  <2> QED BY <2>1, <2>3
<1>3. last = IF ServedProcess = NProcs THEN 0 ELSE ServedProcess
  BY SearchStartsBehindServed
<1>4. last \in Slots
  BY <1>2, <1>3, ProcessAssumption DEF ServiceExact
<1> HIDE DEF last
<1>5. LiveProcesses' = LiveProcesses
  BY <1>1 DEF LiveProcesses, ListedSlots
<1>6. CASE ListedSlots = {}
  <2>1. \A i \in Slots : ~Served(i) /\ ~Served(i)'
    BY <1>1, <1>6 DEF ListedSlots, Served
  <2>2. ServedProcess' = ServedProcess
    BY <1>2, <2>1, Zenon DEF ServiceExact
  <2> QED BY <1>5, <2>2 DEF RR!rrVars
<1>7. CASE ListedSlots # {}
  <2>1. next \in ListedSlots /\ \A i \in Slots : Running(i)' <=> i = next
    BY <1>1, <1>7
  <2>2. \A j \in ListedSlots : SearchDistance(last, next) <= SearchDistance(last, j)
    BY <1>4, <1>7, NextSlotIsNearest
  <2> HIDE DEF next
  <2>3. \A j : RR!Turn(j) = SearchDistance(last, j)
    BY <1>3 DEF RR!Turn, RR!Nobody, SearchDistance
  <2>4. ServedProcess' = next
    <3>1. PICK n \in Slots : n = next
      BY <2>1 DEF ListedSlots
    <3>2. Served(n)'
      BY <1>1, <2>1, <3>1 DEF Served, ListedSlots
    <3> QED BY <1>2, <3>1, <3>2 DEF ServiceExact
  <2>5. RR!Switch
    BY <1>5, <2>1, <2>2, <2>3, <2>4 DEF RR!Switch, LiveProcesses
  <2> QED BY <2>5
<1> QED
  BY <1>6, <1>7

LEMMA StepRefines ==
  ASSUME IInv, SafetyInv, [Next]_vars
  PROVE  [RR!Next]_(RR!rrVars)
<1>1. IInv'
  BY NextKeepsInv
<1>2. QuietStep \/ SwitchStep \/ CreateStep \/ DestroyStep
  BY StepIs DEF SafetyInv
<1> QED
  BY <1>1, <1>2, QuietRefines, SwitchRefines, CreateRefines, DestroyRefines DEF RR!Next

\* The process manager and the scheduler implement round-robin service: at
\* each switch the CPU passes to the next live process in circular order,
\* through creations, exits and kills, and nothing else moves it.
THEOREM KernelImplementsRoundRobin == Spec => RoundRobinService
BY InitRefines, StepRefines, SafetyHolds, PTL DEF Spec, RoundRobinService, RR!Spec
=============================================================================
