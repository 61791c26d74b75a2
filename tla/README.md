# Kerop-OS in TLA+

A model-checked and largely proved description of the kernel of Kerop-OS, a
32-bit x86 teaching operating system: paging, processes, the scheduler, the
FAT32 driver, the keyboard driver, the text screen and the shell. Paths below are relative to `src/src/`.

## The system

| Part | Source | State it keeps | Operations | Talks to |
|---|---|---|---|---|
| Paging | `paging.c` | frame map and free count; 32 page directories with a flag of use; CR3 | check, allocate, free a frame; create, free, use a directory | called by processes, scheduler |
| Process manager | `process.c` | 16 process control blocks, a listed flag per slot, a count | create (with loading), destroy, running block, first free slot | paging, FAT32 `read` |
| Scheduler | `scheduler.c`, `scheduler.s` | none of its own | save the context, switch to the next process | process table, CR3 |
| Interrupts, system calls | `interrupt.c`, `intsetup.s` | the TSS; masks and in-service bits of the interrupt controller | timer, keyboard, `int 0x30` with 23 calls | everything |
| Boot | `kernel.c` | none | GDT, IDT, keyboard, file system, shell, first switch | everything |
| FAT32 driver | `fat32.c` | the allocation table in memory; boot sector, table and clusters on disk | format or load, read, read directory, write, delete | `disk.c` |
| ATA disk | `disk.c` | the disk | read and write blocks, polling | controller |
| Keyboard | `keyboard.c` | input flag, a buffer of one character, two modifiers | the ISR, activate, deactivate, get and flush | interrupt controller, shell |
| Framebuffer | `framebuffer.c` | cursor and screen | putchar, puts, clear, time | system calls of the shell and the clock |
| Shell | `user-shell.c` | stack of directories, command line, queue of find | cd, ls, mkdir, cat, cp, rm, mv, find, exec, ps, kill, clock, nano | system calls, raw cluster access among them |
| Inserter | `external-inserter.c` | the disk image | puts a file into the image before the first boot | FAT32 driver, on the host |
| Clock | `clock.c`, `cmos_driver.c` | none | read the time and draw it | system calls |

All gates are interrupt gates, so a handler is never interrupted: the kernel is
a sequence of atomic handlers, interleaved with user instructions at every
timer tick, with key presses and with power failures. What is hard here is
therefore: the process table, the directories and CR3 after any *sequence* of
creations, kills and exits; limits (the last frame, slot, directory); a context
saved into the wrong block; a power failure *inside* a call of the file system,
which is the one thing that does interrupt a handler; interrupts that arrive
before the code is ready for them; and the shell, whose commands are *several*
system calls, each on what the earlier ones left, over a directory stack that
the tree may change under. What makes each part correct:

* paging: the count agrees with the map, no frame is mapped twice, a directory in use maps the kernel;
* processes: separate directories, intact images, an exact count, released resources;
* scheduler: contexts go to their owners, round-robin order, nobody starves;
* FAT32: after a power failure every entry is whole, no cross-links, no leaks, the signature stays;
* keyboard: characters in the order and case meant, no scancode left behind;
* screen and line editor: what runs is the line the user edited, and what the
  screen shows is that line;
* shell: a command does all of what it says or nothing, touches nothing else even
  if power fails, the directory stack is a path of the tree, and what is read
  back is what is on the disk.

## Modules

| Module | Models | How it corresponds |
|---|---|---|
| `Paging` | `paging.c` | operators compute what a call does to the frame map or a directory; actions offer the functions one call at a time |
| `Process` | `process.c` | composes those operators into `CreateUserProcess` and `Destroy`, one step each because no handler is interrupted |
| `Kernel` | `kernel_setup`, `scheduler.c`, the timer and system calls 13, 14, 16, 21 | adds the CPU (`mode`, `eip`, and `cr3` of `Paging`) and the history `progress` |
| `RoundRobin` | abstract | live processes, served in circular order of their identifiers; implemented by `Kernel` |
| `Fat32` | `fat32.c`, cluster writes of `disk.c` | a call computes the table in memory and a list `pending` of cluster writes; `DiskWrite` issues one; `PowerFailure` may come between two |
| `Fat32Power` | `Fat32` with a history of its power failures | adds `torn`: power has failed inside a delete or a format |
| `FileStore` | abstract | a dictionary of whole files that appear and disappear one at a time; implemented by `Fat32` |
| `Keyboard` | `keyboard.c`, `pic_ack` | the user, the wire, the controller's in-service bits, the ISR and the three system calls |
| `Terminal` | `framebuffer.c`, `exec_command` and `main` of `user-shell.c`, system calls 4 to 9 and 19 | extends `Keyboard` with the screen, the line buffer and the shell's control point (`phase`); every system call is a step, so the clock, interrupts and other programs come between any two |
| `Shell` | the file commands of `user-shell.c`, system calls 0 to 3 and 10 to 12, the disk the inserter leaves | extends `Fat32`, whose cluster writes it issues; `path` and `pathNames` are the directory stack; `job` is what a command has read and carries to its next call |
| `KernelMC`, `PagingMC`, `Fat32MC`, `Fat32PowerMC`, `TerminalMC`, `ShellMC` | instances | values for the constants |
| `PagingProofs`, `KernelProofs`, `KernelSafetyProofs`, `KeyboardProofs`, `TerminalProofs`, `Fat32Proofs`, `FileStoreProofs`, `ShellProofs` | theorems | see below |

`Kernel` extends `Process`, which extends `Paging`; `Terminal` extends `Keyboard`,
and `Shell` and `Fat32Power` extend `Fat32`. The file system and the terminal share no state but
the command line, so they are checked apart: `Terminal` ends with the string the
dispatch gets, and `Shell` begins with any command. The definitions named as
mutants in comments are plausible mistakes in the definition that follows them;
they are used to confirm that each property can fail.

### Abstractions

* Frames of 4 MiB are numbers; a page directory has pages `0..KernelPage`, the
  last standing for entry 0x300. A program is its name, its execution point the
  page it was loaded at and a counter modulo `NSteps`. Registers, the printed
  messages and return codes of the process calls are left out.
* Loading a file always succeeds (`process.h:132` assumes it).
* The TLB is not modelled, except that a directory without the kernel's entry
  may bring the machine down at any moment (`TripleFault`) or a while later.
* Sizes of files are counted in clusters, name and extension are one name, and
  a cluster write (four sectors) is atomic. A cluster can be read as a table or
  as data; data says which part of which file it is.
* Callers name a parent they reached from the root. A write beyond the disk
  happens only in a walk that has left the table, which is undefined behaviour;
  the model says nothing about such a machine except that it can be switched off.
* Keys are one letter, one digit, backspace, enter, shift and caps lock: enough
  to tell the four scancode maps apart and to edit a line. The screen has cells
  and a cursor, without colours, and `ByteColumn` stands for column -1 in eight
  bits. Every keyword is reprinted by the same loop of backspaces and characters,
  so one keyword stands for all. What a command prints is any of `Replies`.
* A typed path is a number of `../` and a name. `Matches` is the `strcmp` of this
  repository, which is satisfied when its first string ends; `PrefixOf` says which
  names begin which. The commands that only read (`Ls`, `Cat`, `Exec`, `Find`) are
  operators on the state in which they are typed. What `find` prints is reduced to
  the entries it reports, what `nano` types to the text it ends with.
* A name stands for its eight characters and its extension: those in `TextNames`
  have `txt`, the others none, and no two names differ in the extension only.
  `mkdir` and `cd` know no extensions. `rm`, the target of `mv` and both names of
  `cp` are refused without a dot; a name without an extension can be typed with a
  dot behind it or not (`Dots`), and as the source of `cp` it is refused either way,
  since its extension is then read out of the next word. `cat` takes text files only.
* `cat` and `nano` have a buffer of one cluster on the shell's stack. A longer file
  read by `cat` runs over it; the model calls the outcome `Overrun` and says no more
  of it. `nano` writes `Texts`, which fit. The buffer of `cp` is as long as the file,
  but `read` fills whole clusters, so what lies behind it is overwritten; the model
  takes this to be harmless, as it is in the build of the makefile (`-m32`, no
  optimisation), where nothing still in use lies there. Where `cp` asks for a size it
  never set, `read` finds no file of the name, whatever the size.
* The inserter puts the programs one after the other behind the root: `Starts` are
  their first clusters.
* `strtok` splits at blanks, for any number of words. The delimiter has no
  terminating zero in the code, so it also splits at what the stack holds behind it.

## Runs

| Run | Question | Bounds |
|---|---|---|
| `Kernel` | isolation, accounting, contexts, round-robin order and starvation under arbitrary programs that create, kill and exit; the survival of the shell until a program calls exit | 6 frames, 3 directories, 3 slots, 2 steps; one small and one oversized program |
| `PagingAPI` | `paging.c` called in any order, including the frame release that nothing calls today | 4 frames, 2 directories, 3 pages |
| `Fat32` | consistency, leaks, the signature and the dictionary with power failures between calls and at every write of `write()` | 6 clusters (3 for files), 2 names, files of 1 or 2 clusters, folders |
| `Terminal` | from keys to characters, to the command that is run, to the screen | 4 key events; a screen of 3 rows and 5 columns, a line buffer of 4 of which 2 are cleared, one keyword, a refused and a clearing command |
| `Shell` | what the file commands do to the tree, with power failures between and inside them; what is read back | 7 clusters, 3 of them the programs `shell` and `clock` (of two), 4 slots; the user types `clock` and `t.txt`; texts of one cluster; a queue of 2 |

Why the bounds are enough: with three slots the table fills, is emptied in any
order and wraps around; six frames run out in the middle of the third creation
(an odd number of user frames, as in the real 31), which is where the memory
check goes wrong; three directories are the fewest that `PoolAssumption` allows,
so `DirectoryAvailable` is tight. Frames are never given back by the process
manager, which makes the behaviours of `Kernel` finite in creations. Six clusters
hold a folder with a file in it, a file of two clusters that is not contiguous,
and a full disk. In `Shell` a folder in a folder, two folders
in the root (all that the queue of `find` holds; its ring wraps around only on
larger disks, which `FindSeesAll` covers), a file of two clusters (the program
`clock`, which the user may move, remove, or under a text file's name copy onto
itself; it is too long for `cat`) and a full disk occur. Once `clock` is out of the
way its name serves for folders, and there is room for three things: enough for a
copy over a file in another directory, and for a folder with a file in it to be
moved up into the root. Four key events include shift,
letter and releases in both orders, caps lock, a keyword (two letters) followed by an erasure or an enter, a second command after
a first, the refused and the clearing command; with the prompt
and the replies the cursor reaches every column and the last row, and the screen
is cleared by a character, by the command and at boot.

Seven more runs are expected to find a violation, each of a statement in the
repository:

| Run | What the code does | Statement |
|---|---|---|
| `KernelStack` | `process.c:69` hands a count of frames to a check that counts bytes, so the creation that takes the last frame makes a process without a stack | comment at `process.c:67`, `paging.h:128` |
| `KernelRelease` | `paging.c:181` returns in the first iteration, so only directory 0 is ever released | `process.h:139` |
| `Fat32Retry` | a delete cut off between its last two writes and repeated after the reboot follows an empty table entry to cluster 0 and wipes the signature | `fat32.h:228` |
| `Fat32Folder` | the emptiness check stops at the first hole, so a folder with entries behind it is deleted | `fat32.h:231` |
| `ShellGone` | `fat32.c:333` refuses a parent below 2 only: after `rm ../a` in `a` the shell writes into a free cluster, and a new folder may get that very cluster | `fat32.h:223` |
| `Console` | `framebuffer.c:88-92` lets a backspace in column 0 and a newline in the last row take the cursor off the screen | `framebuffer.h:18` |
| `KeyboardEarly` | a key pressed before the shell activates the input is never acknowledged, and the keyboard stays silent | `keyboard.h:45` |

The run `Fat32` keeps clear of the two FAT32 defects so as to check everything
else: power does not fail inside `delete` or format (`PowerFailsIn`), and callers
do not delete a folder that only looks empty (`CarefulCalls`). `SignatureKept`
speaks of the steps before the first failure inside a delete or a format, and those
are all the same whether or not such a failure may follow, so the run covers it;
`Fat32Retry` shows how the signature is lost afterwards. In `Terminal` users
type only while the input is on, and no more than the line buffer holds (`Room`:
the code does not check, and beyond it is undefined behaviour), and programs
switch it off only when nothing is on the wire. `CommandExact` exempts the three
ways in which something else than zeros lies behind the line (`tainted`): the
early return after `./shell`, a line longer than what is cleared, and a stack
that was not zero where the first buffer is put. `ScreenShowsLine` exempts a line
that met an edge of the screen (`fits`), about which the run `Console` says what
happens; the cell under the cursor is empty except in the last row, which
`framebuffer_clear` does not clear.
`KernelLostOnlyBySelfDestruction` says precisely when a process can take the
kernel's mapping away; the shipped programs reach process_destroy only by the
kill command, and for them (`~exited`) `ShellSurvives`.

The run `Shell` has users who know the pitfalls of the commands
(`CarefulCommand`), each of which is a precondition that the code does not check: `rm` and the target of `cp` are not a
folder that only looks empty or that the shell is in (`MayGo`); `mv` has exactly
one entry to move, a free slot and a free name with a dot to move it to, and no
renamed folder at either end (`MayMove`); `cp` has the space for the copy once what it replaces has gone (`MayCopy`); `nano`
ends with some text, since an empty one makes a folder; and no name begins
another. `OthersUndamaged` allows for a power failure that the places a command
names are lost, and with a folder what was beneath it: `mv` and `cp` remove before
they write. It does not allow anything else to change.

### Fairness

`FairSpec` assumes that boot steps complete (straight-line code) and that the
timer keeps firing: `activate_timer_interrupt` unmasks it for good, every tick is
acknowledged before the switch, and every handler returns with interrupts on.
Nothing is assumed about programs. In `Terminal`, a request the controller can
deliver is delivered, and the shell makes its first system call (activation).
Where a machine may come to a real stop (`hung`, `down`), deadlock is not checked;
the other runs check it. `Shell` and `Fat32` state no liveness: a call is a finite
list of writes, and what follows it is up to the user.

## Theorems

`PagingProofs` proves, for every number of frames, directories and pages, that
`PagingInv` (types, exact count, mapped frames allocated, no frame mapped twice,
the kernel entry exactly in used directories) is invariant under `PagingSpec`.

`KernelProofs` proves `Spec => []IInv` for every value of the constants and reads
off `TypeOK`, `FreeCountExact`, `ActiveCountExact`, `FrameMappedOnce`,
`DirectoriesDistinct`, `RunningBlockOwnsCpu`, `ResumesWhereInterrupted`,
`ImageIntact` and `DirectoryAvailable`. None of these is inductive by itself;
`IInv` is the conjunction of

* `TableInv`: types and `PagingInv`, plus `UnusedDirsEmpty` (a directory handed
  out again is clean), `BlocksNumbered` (a block carries its own index once used,
  and pid 0 before: without it `process_destroy(0)`, which may pick a block never
  used, cannot be handled), `LiveHaveDirectories`, `DirectoriesDistinct`, and
  `FramesPayForDirectories` (each used directory has cost two frames, or was given
  the last one), from which `DirectoryAvailable` follows;
* `CpuInv`: after the first switch the CPU is in a process directory, at most one
  block is RUNNING and it owns that directory, and a live block in the active
  directory is the running one;
* `ImageIntact`.

The proof has a lemma per function (`AllocationSound`, `CreateKeepsTable`,
`DestroyKeepsTable`, `SwitchKeepsInv`, ...), one per action, and one for `Next`.
Assumptions: `PagingAssumption` (at least three frames, since the boot shell
takes two), `ProcessAssumption`, `KernelAssumption`, and `PoolAssumption`
(`NFrames <= 2 * NDirs + 1`; the real values are 32 and 32).

`KernelSafetyProofs` adds `SafetyInv` on top of `IInv` and reads off
`StacklessOnlyAtTheEnd`, `KernelLostOnlyBySelfDestruction` and `ShellSurvives`.
What makes these inductive: nothing has been handed out before the shell is
created; every block that was ever used has cost two frames or was given the last
one (`FramesPayForBlocks`); and directory 0, the only one that is ever released,
is the first process's, so it goes only when no frame is left to be handed out
with it (`FirstDirectory`). One more assumption on the constants is needed,
`BlocksAssumption` (`NFrames <= 2 * NProcs + 1`; the real values are 32 and 16):
the frames run out no later than the blocks that have never been used.
`WaitingProcessesUndisturbed` is a property of steps; its proof has a lemma per
action about what that action does to a process that is not running.

The same module proves that `Kernel` implements `RoundRobin`
(`RoundRobinService`): creation is an entry at the lowest free identifier, a
switch serves the next live process in circular order, destruction is a
departure, everything else a stutter.

`KeyboardProofs` proves that `KeyboardInv` is kept by every step of patient
users and programs. The scancodes on the wire are the driver's future, so the
invariant says what the driver will have come to after each of them: `Tracks`
gives the modifiers and the number of characters typed at every position of the
wire, and `Embeds` places the characters already read in the text typed so far.

`TerminalProofs` proves `TerminalTypeOK`, `ModifiersFollowKeys`,
`ReceivedInOrder`, `CommandExact` and `ScreenShowsLine` for screens, buffers,
keywords and prompts of any size, from three invariants: `KeyboardInv`;
`EditorInv` (the buffer begins with the line, and if not tainted goes on with
blanks up to some place and then zeros only; the line the user means is the one
in the buffer, or that with the polled character worked in); and `ScreenInv`
(between the cursor and the last row the screen is empty, whatever was printed;
and while a word is reprinted the screen shows a part of the line that shrinks to
nothing and grows again, `Reprinting`). `Puts` and the other recursive functions
are handled by a least counterexample (`LeastNumber`): if a value were not what
the lemma says there would be a first number of characters for which it is not.

`Fat32Proofs` proves `TypeOK`, `MemoryFatCurrent`, `DiskConsistent`,
`NoCrossLinks` and `NoLeaks` for disks, tables, names and trees of any size. The callers are those of `CarefulSpec`, and two more hypotheses are
stated with the theorems:

* `Sheltered`: power fails between calls or inside a `write()`, not inside a
  delete or a format, and the stack memory where `write()` puts `newDir` holds no
  entries. Without the first, `Fat32Retry` is a counterexample; without the
  second, a new folder has entries that nobody made.
* `RoomForNames`, for `NoLeaks` only: a table has a slot for every name besides its
  own. In a full table the new entry is written behind the table and its clusters
  are lost.

The instance of the run `Fat32` satisfies both. `SignatureKeptUntilTorn` does without
the first half of `Sheltered`: power may fail anywhere, and `SignatureKept` speaks of
the steps before it has first failed inside a delete or a format (`torn`). What
holds of a disk after that is not claimed; `Fat32Retry` shows one that loses its
signature. Only the blank stack is assumed (`BlankStack`). `Fat32Assumption` says besides
that there are at least three clusters and two slots, that a name is not empty,
that a file has at least one cluster, and that stale memory can be read as a table.
The argument:

* A chain is what `Links` says: a sequence of clusters, each led to by the one
  before, ending in the end mark. There is only one from a cluster, `ChainFrom`
  finds it (`ChainIs`), and it does not change while its own entries in the table
  do not (`LinkedElsewhere`).
* `Directories` is the least set that contains the root and is closed under the
  folders in it (`DirectoriesReached`), so a set with that property *is* the new
  `Directories` (`DirectoriesNext`), and where a table does not change nothing
  about the tree does.
* `Tree(D, store, table, gone, aside)` is the invariant's core: tables have no name
  twice, every entry is `Held` (its chain is linked, as long as it says, and holds
  its data), chains are disjoint, except for the entry that is on its way out
  (`gone`), and none touches the clusters `aside`, which belong to the call under
  way. `Accounted` adds that every allocated cluster is in the tree or aside.
* `TreeElsewhere` is the lemma about order: writes to clusters that are aside, and
  to the table about them, cannot hurt. `EntryAppears` and `EntryVanishes` are the
  two writes that do change the tree, and each needs what the earlier writes of
  the call have done: that is what data, then table, then entry is for.
* `Fat32Inv` adds for each mode how far the call has come: `WriteJob`, `DeleteJob`
  and `FormatJob` say which writes are pending and what the disk holds already.
  A power failure inside a write leaves the clusters aside allocated and lost
  (`clean`), and the tree as it was.

`FileStoreProofs` proves that the driver implements `FileStore`
(`DictionaryOfFiles`) under the same hypotheses. The dictionary is determined by
the whole entries of the tree (`DictionaryIs`); a write adds its entry in its last
step or, in a full table, never; a delete takes its entry out when it zeroes the
first cluster of a file or, for a folder, when it writes the table
(`DeletedWhole`), and all its other steps are stutters.

`ShellProofs` proves `ShellTypeOK`, `CommandsTakeEffect`, `OthersUndamaged`,
`PathFollowsTree`, `ReadsBack`, `FindComplete`, `NoCrossLinks` and `NothingLeaked` for the careful
users of `CarefulShellSpec`, on any disk, tree, path, names and texts. The
hypothesis is `Assumed`: `Sheltered` and `RoomForNames` as above, and that no name
begins another (`PrefixOf = {}`), since `mv` erases every entry that `strcmp` takes
for the one typed. The run `Shell` satisfies it. `ShellAssumption` adds
that texts are one cluster long and not made of stale memory, and that the inserted
programs have different names, the shell first, lie one after the other behind the
root (`Starts`) and fit in the root and on the disk. The argument:

* A command is several calls of several writes each, so the invariant `ShellInv`
  says how far it has come. The shell is `Resting`, or `Underway` with what the files
  were `before`, the `goal`, and the places `named`; only those may differ now
  (`Pursued`), which is `OthersUndamaged`. A stage (`Stage`) then tells what is
  still to come: `Writing` and `Removing` (the last call is a write or a delete of
  the driver), `Replacing` and `Refilling` (the two halves of `cp`), `Erasing`,
  `Moving` and `Settling` (before, between and in the two raw writes of `mv`), and
  `Ended`, where the files are the goal or, had a call refused, those from before.
  Each stage has a lemma for its steps (`RefillingStep`, `MovingStep`, ...), each
  command one for its start (`MkdirStep`, `RmStep`, ...), and `ShellStep` combines them.
* What a call of the driver is about must be remembered across its writes: `Writing`
  and `Deleting` take the job from `Fat32Inv` and say what the dictionary will
  be with it. `Fat32Inv`, `Tree` and the lemmas about them therefore take two flags.
  `own` says whether data must name the place it is at: it must for the driver
  alone, but `mv` moves entries; then it is enough that a file holds somebody's data,
  and whose it is the dictionary says.
  `sure` says whether every allocated cluster is accounted for, which is not
  so once power has failed inside a call (`cut`).
* `mv` goes past the driver. Between its two writes the entry is in no table, so the
  disk shows a smaller tree, and when power fails there the entry, with all that is
  beneath it, is lost: a tree nevertheless, whose places not named are intact.
  `Uprooted` remembers the tree from which the entry was struck (`Struck`) and
  `Entering` puts it into another table of what is left. The new tree has the old
  one's entries, one of them elsewhere (`Moved`), and so the same chains (`Roll` is the
  list of them); nothing is shared or lost. The destination is still
  reached when the entry is out, because it can only be typed as a directory of the
  shell's own path.
* `Stacked` (`PathFollowsTree` with its types) survives since no command may
  take a folder on the path away: no directory holds itself on a path without
  repetitions (`PathOnce`, `NotOnPath`), and the folders that are removed
  are not in `ToSet(path)`.
* `ReadsBack` speaks of `ls`; of `cat` for text files of at most one cluster, which is
  all that its buffer holds; and of `./` for every file but the shell. It needs that a
  directory is found in its own table by its name (`FoundByName`) and that reading a
  whole chain gives the blocks in order (`ReadsFile`).
* `FindComplete` has a theorem of its own, `FindSeesAll`, with one more hypothesis,
  `ShellStays`: the user does not name the shell's file. `bfs_find` skips slot 1 of the root unseen, so it is right only as long as
  the shell sits there (`Seated`, an invariant beside `ShellInv`: no pending write
  puts anything else into that slot). The ring is a line of directories (`InLine`,
  with `LineGrows` and `LineMoves` for the two ends of it), and `Explored` relates the
  slots seen so far to the directories visited and awaited: these are the root and
  the folders in the slots seen, each known once, because a folder has one entry
  (`FolderOnce`). So there is room for the next (`RoomInLine`), each round visits one
  more directory (`VisitStep`), and when as many rounds have passed as there are
  clusters the line is empty and what was visited is closed under its folders
  (`FindEnds`). The rounds and the slots are recursive functions; `UpTo` is induction
  up to a bound for a set of numbers.

Only model-checked:

* Liveness under fairness (`NoStarvation`, `KeysHandled`): out of the prover's reach.

## Not modelled

* GDT, IDT, port I/O: constant tables and single instructions. The update flag,
  the BCD conversion and the twelve-hour mode of `cmos_driver.c`.
* `ps` and the banner (system calls 20 and 22), which only draw, and system call
  15, which no program makes.
* In the shell: the text of paths that `find` prints (its first one starts from
  an uninitialised array), the characters typed in `nano`, the sizes of the
  directory stack and of the eight-character names, command lines without
  arguments and the empty line (the dispatch then compares a word that was never
  set), and what is overwritten behind the buffers of `cat`, `cp` and `nano`.
* In `fat32.c`: the eight-bit count of clusters. A full table, a stale new folder
  and a power failure while formatting are in the actions (`WithEntry`,
  `StaleTables`, the mode `format`), but no run starts from them: nothing in the
  repository says what should happen, and what happens is plain damage.
* Register contents, the TLB beyond `TripleFault`, the host I/O of the inserter.

The hazards in `PROJECT.json` that no property covers say why.

## Left to do

The clock's conversion as a function against a reference, and `n_cluster` as a
function of a width.
