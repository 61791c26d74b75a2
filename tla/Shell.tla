-------------------------------- MODULE Shell --------------------------------
(***************************************************************************)
(* The file commands of user-shell.c over the driver of Fat32.  The shell  *)
(* is the only caller of the driver; a command is a sequence of system     *)
(* calls, each on what the calls before it left on the disk, and power may *)
(* fail between and inside them.  What a command prints is left out.       *)
(***************************************************************************)
EXTENDS Fat32

CONSTANTS
  UserNames,   \* the names a user types
  TextNames,   \* the names with extension txt; the other names have none
  Texts,       \* what a user writes into a file: nano's buffer is one cluster
  Programs,    \* the files the inserter has put on the disk, the shell first
  Starts,      \* the first cluster of each, and the one behind the last
  PrefixOf,    \* pairs of different names of which the first begins the second
  MaxQueue     \* MAX_QUEUE_SIZE

\* A name stands for eight characters and an extension; no two names differ in
\* the extension only.  The names of folders are without one.
PlainNames == UserNames \ TextNames

\* The names of the disk's first file and of the one user program that the
\* dispatch of exec_command refuses to start.
ShellName == Programs[1]

ASSUME ShellAssumption ==
  /\ UserNames \cup TextNames \subseteq Names
  /\ \A text \in Texts : Len(text) = 1 /\ text \in Seq(ToSet(text) \ {Nobody})
  /\ Programs \in Seq(Names) /\ 1 \in DOMAIN Programs /\ Len(Programs) < NSlots
  /\ \A j, k \in DOMAIN Programs : Programs[j] = Programs[k] => j = k
  /\ Starts \in [1 .. Len(Programs) + 1 -> Root + 1 .. NClusters] /\ Starts[1] = Root + 1
  /\ \A j, k \in DOMAIN Starts : j < k => Starts[j] < Starts[k]
  /\ PrefixOf \subseteq Names \X Names
  /\ MaxQueue \in Nat \ {0}

VARIABLES
  path,       \* DIR_NUMBER_STACK, up to DIR_STACK_INDEX
  pathNames,  \* DIR_NAME_STACK, up to DIR_STACK_INDEX
  job,        \* the command being executed and what it has read
  intent,     \* history: the files before the command, and what it should do
  cut         \* history: power has failed inside a command

shellVars == <<path, pathNames, job, intent, cut>>
allVars   == <<vars, shellVars>>

NoJob    == [op |-> "none"]
NoIntent == [before |-> <<>>, goal |-> <<>>, named |-> {}]

\* The last call of a command, and whether the driver accepted it.
LastCall(ok) == [op |-> "last", ok |-> ok]

AtPrompt == mode = "idle" /\ job = NoJob

Cwd      == Last(path)
Depth(n) == path[Len(path) - n]      \* the directory n levels up

\* strcmp gives 0 once the first string ends.
Matches(entryName, typed) == entryName = typed \/ <<entryName, typed>> \in PrefixOf

ShellTypeOK ==
  /\ TypeOK
  /\ path \in Seq(Clusters) /\ path # <<>>
  /\ pathNames \in Seq(Names \cup {RootName}) /\ Len(pathNames) = Len(path)
  /\ job.op \in {"none", "last", "mv", "cp"}
  /\ job = NoJob <=> intent = NoIntent

\* A formatted disk onto which the inserter has put the programs, one after
\* the other, and a shell that has just been started.
Inserted == Starts[1] .. Starts[Len(Programs) + 1] - 1

InsertedRoot ==
  [s \in Slots |->
     IF s = 0 THEN InitDirectoryTable(BlankTable, RootName, Root)[0]
     ELSE IF s \in DOMAIN Programs
     THEN [used |-> TRUE, name |-> Programs[s], dir |-> FALSE,
           cluster |-> Starts[s], length |-> Starts[s + 1] - Starts[s]]
     ELSE EmptyEntry]

\* A program's clusters lead to one another, up to the start of the next.
InsertedFat ==
  [c \in DOMAIN FormatFat |->
     IF c \notin Inserted THEN FormatFat[c]
     ELSE IF \E k \in DOMAIN Starts : c + 1 = Starts[k] THEN Eof
     ELSE c + 1]

ShellInit ==
  /\ signature = TRUE
  /\ fat = InsertedFat
  /\ diskFat = fat
  /\ store = [c \in Clusters |->
                CASE c = Root        -> TableCluster(InsertedRoot)
                  [] c \in Inserted  -> DataCluster(<<"image", c>>)
                  [] OTHER           -> ZeroCluster]
  /\ pending = <<>> /\ mode = "idle" /\ clean = TRUE
  /\ path = <<Root>> /\ pathNames = <<RootName>>
  /\ job = NoJob /\ intent = NoIntent /\ cut = FALSE

-----------------------------------------------------------------------------
(* cd                                                                      *)

\* Mutant: only the number of a directory is taken off the stack.
NamesKept(n) == pathNames

NamesUp(n) == SubSeq(pathNames, 1, Len(pathNames) - n)

\* cede with n times "../": past the root it stays there.
LevelsUp(n) == IF n >= Len(path) THEN Len(path) - 1 ELSE n

\* Mutant: the search starts from where the command was typed.
FoldersFromCwd(d, name) == {s \in Slots \ {0} : LET e == store[Cwd].table[s]
                                                IN  Matches(e.name, name) /\ e.dir}

FoldersMatching(d, name) == {s \in Slots \ {0} : LET e == store[d].table[s]
                                                 IN  Matches(e.name, name) /\ e.dir}

\* cede: "../" n times and then a name, or "." or nothing, which is no name.
Cd(n, name) ==
  LET up == LevelsUp(n)
      d  == Depth(up)
  IN  /\ AtPrompt
      /\ \/ /\ FoldersMatching(d, name) # {}
            /\ path' = Append(SubSeq(path, 1, Len(path) - up),
                              store[d].table[Least(FoldersMatching(d, name))].cluster)
            /\ pathNames' = Append(NamesUp(up), name)
         \/ /\ FoldersMatching(d, name) = {}
            /\ path' = SubSeq(path, 1, Len(path) - up)
            /\ pathNames' = NamesUp(up)
      /\ UNCHANGED <<vars, job, intent, cut>>

-----------------------------------------------------------------------------
(* Commands of one call.                                                   *)

Files == FilesOnDisk

Folder     == [dir |-> TRUE, blocks |-> <<>>]
File(text) == [dir |-> FALSE, blocks |-> text]

\* The files with one place filled, and with one place emptied.
With(files, place, what) ==
  [p \in DOMAIN files \cup {place} |-> IF p = place THEN what ELSE files[p]]
Without(files, place)    == [p \in DOMAIN files \ {place} |-> files[p]]

\* The command is to take the files from what they are to goal, and names
\* these places.
Intends(goal, named) == intent' = [before |-> Files, goal |-> goal, named |-> named]

\* mkdir_command
Mkdir(name) ==
  /\ AtPrompt
  /\ Write(Cwd, name, <<>>)
  /\ job' = LastCall(~WriteRefused(Cwd, name, 1))
  /\ Intends(With(Files, <<Cwd, name>>, Folder), {<<Cwd, name>>})
  /\ UNCHANGED <<path, pathNames, cut>>

\* nano, once a text of at most a cluster is typed: an empty one makes a
\* folder.
Nano(n, name, text) ==
  /\ AtPrompt /\ n < Len(path)
  /\ Write(Depth(n), name, text)
  /\ job' = LastCall(~WriteRefused(Depth(n), name, ClustersFor(text)))
  /\ Intends(With(Files, <<Depth(n), name>>, File(text)), {<<Depth(n), name>>})
  /\ UNCHANGED <<path, pathNames, cut>>

\* A name is typed with its dot or, if nothing follows the dot, without.
Dots(name) == IF name \in TextNames THEN {TRUE} ELSE BOOLEAN

\* erem, which refuses a name typed without a dot.
Rm(n, name, dotted) ==
  /\ AtPrompt /\ n < Len(path)
  /\ \/ ~dotted /\ job' = LastCall(FALSE) /\ UNCHANGED vars
     \/ /\ dotted
        /\ Delete(Depth(n), name)
        /\ job' = LastCall(~DeleteRefused(Depth(n), name))
  /\ Intends(Without(Files, <<Depth(n), name>>), {<<Depth(n), name>>})
  /\ UNCHANGED <<path, pathNames, cut>>

-----------------------------------------------------------------------------
(* mv                                                                      *)

\* The commands look a directory up in its own table, where slot 0 has the
\* name it was made with.
Readable(n) == DirectoryFound(Depth(n), pathNames[Len(pathNames) - n])

\* emvi looks at every slot, its own directory's included.
SlotsMatching(table, name) == {s \in Slots : Matches(table[s].name, name)}

\* A write of the table for each entry erased from it, in their order.
Erasures(d, found) ==
  [k \in 1 .. Cardinality(found) |->
     WriteOf(d, TableCluster([s \in Slots |->
       IF s \in found /\ Cardinality({t \in found : t < s}) < k
       THEN EmptyEntry ELSE store[d].table[s]]))]

\* What emvi keeps of the entries it erases: the last one, or what the stack
\* held where its uninitialised locals are.
StaleEntry == [EmptyEntry EXCEPT !.used = TRUE, !.cluster = Root]

Carried(d, found) ==
  IF found = {} THEN StaleEntry
  ELSE store[d].table[CHOOSE s \in found : \A t \in found : t <= s]

\* What goes out of reach with a folder of that name.
PlacesBeneath(d, name) ==
  {p \in DOMAIN Files :
     \E e \in EntriesOf(d) : e.name = name /\ e.dir /\ p[1] \in DirectoriesFrom(e.cluster)}

\* emvi up to the end of its first loop.  It writes without the driver's
\* write and delete, a cluster at a time.
MvErase(name, n, dest, dotted) ==
  LET found == SlotsMatching(store[Cwd].table, name)
  IN  /\ AtPrompt /\ n < Len(path)
      /\ \/ /\ ~Readable(0)
            /\ job' = LastCall(FALSE)
            /\ UNCHANGED vars
         \/ /\ Readable(0)
            /\ pending' = Erasures(Cwd, found)
            /\ mode' = IF found = {} THEN "idle" ELSE "raw"
            /\ job' = [op |-> "mv", entry |-> Carried(Cwd, found), up |-> n,
                       name |-> dest, dotted |-> dotted]
            /\ UNCHANGED <<signature, diskFat, store, fat, clean>>
      /\ Intends(IF <<Cwd, name>> \in DOMAIN Files
                 THEN With(Without(Files, <<Cwd, name>>), <<Depth(n), dest>>, Files[<<Cwd, name>>])
                 ELSE Files,
                 {<<Cwd, name>>, <<Depth(n), dest>>} \cup PlacesBeneath(Cwd, name))
      /\ UNCHANGED <<path, pathNames, cut>>

\* emvi from the second read on.  A destination without a dot is refused only
\* here, and a full table not at all.
MvEnter ==
  LET d    == Depth(job.up)
      free == Slots \ UsedSlots(store[d].table)
      ok   == Readable(job.up) /\ free # {} /\ job.dotted
  IN  /\ mode = "idle" /\ job.op = "mv"
      /\ job' = LastCall(ok)
      /\ mode' = IF ok THEN "raw" ELSE "idle"
      /\ pending' =
           IF ok
           THEN << WriteOf(d, TableCluster(
                     [store[d].table EXCEPT ![Least(free)] = [job.entry EXCEPT !.name = job.name]])) >>
           ELSE <<>>
      /\ UNCHANGED <<signature, diskFat, store, fat, clean, path, pathNames, intent, cut>>

-----------------------------------------------------------------------------
(* cp                                                                      *)

\* The size cepe asks for: that of the last entry in its directory whose name
\* begins the source's.  Without one it asks for what the stack holds, and
\* read finds no file of that name.
SourceSize(name) == Carried(Cwd, SlotsMatching(store[Cwd].table, name)).length

\* cepe up to the deletion of the destination, which must exist.  Both names
\* are typed with a dot.  The extension of a source that has none is read out
\* of the next word of the line, and no file has it.  read fills the last
\* cluster, beyond the end of cepe's buffer; only variables that are not yet
\* set or no longer used lie there.
CpDelete(name, n, dest, dotted) ==
  LET size == SourceSize(name)
      ok   == /\ Readable(0)
              /\ name \in TextNames
              /\ ReadSucceeds(Cwd, name, size)
              /\ dotted
  IN  /\ AtPrompt /\ n < Len(path)
      /\ \/ /\ ~ok
            /\ job' = LastCall(FALSE)
            /\ UNCHANGED vars
         \/ /\ ok
            /\ Delete(Depth(n), dest)
            /\ job' = IF DeleteRefused(Depth(n), dest) THEN LastCall(FALSE)
                      ELSE [op |-> "cp", blocks |-> ReadBlocks(Cwd, name, size),
                            up |-> n, name |-> dest]
      /\ Intends(IF <<Cwd, name>> \in DOMAIN Files
                 THEN With(Files, <<Depth(n), dest>>, Files[<<Cwd, name>>])
                 ELSE Files,
                 {<<Depth(n), dest>>})
      /\ UNCHANGED <<path, pathNames, cut>>

\* Mutant: the copy goes to the directory in which the command was typed.
CpWriteHere ==
  /\ mode = "idle" /\ job.op = "cp"
  /\ Write(Cwd, job.name, job.blocks)
  /\ job' = LastCall(~WriteRefused(Cwd, job.name, Len(job.blocks)))
  /\ UNCHANGED <<path, pathNames, intent, cut>>

\* The rest of cepe.
CpWrite ==
  /\ mode = "idle" /\ job.op = "cp"
  /\ Write(Depth(job.up), job.name, job.blocks)
  /\ job' = LastCall(~WriteRefused(Depth(job.up), job.name, Len(job.blocks)))
  /\ UNCHANGED <<path, pathNames, intent, cut>>

-----------------------------------------------------------------------------
(* Commands that only read.                                                *)

\* eles looks the current directory up in its parent, the root in itself.
Ls == IF DirectoryFound(IF Len(path) = 1 THEN Root ELSE Depth(1), Last(pathNames))
      THEN {store[Cwd].table[s].name : s \in UsedSlots(store[Cwd].table) \ {0}}
      ELSE {}

\* What comes of a command that reads a file.  Of an overrun nothing is
\* known: the file has been read over the end of a buffer on the stack.
Refusal       == [outcome |-> "refused", blocks |-> <<>>]
Overrun       == [outcome |-> "overrun", blocks |-> <<>>]
Given(blocks) == [outcome |-> "given", blocks |-> blocks]

\* ket takes the first text file that matches and asks read, by the name
\* typed, for as much as its entry says.  It refuses a name that is not one of
\* a text file.  Its buffer is one cluster, and a longer file runs over it.
Cat(n, name) ==
  LET d     == Depth(n)
      found == {s \in SlotsMatching(store[d].table, name) : store[d].table[s].name \in TextNames}
      size  == store[d].table[Least(found)].length
  IN  IF \/ n >= Len(path)
         \/ name \notin TextNames
         \/ ~Readable(n)
         \/ found = {}
         \/ ~ReadSucceeds(d, name, size)
      THEN Refusal
      ELSE IF size > 1 THEN Overrun ELSE Given(ReadBlocks(d, name, size))

\* eksek asks likewise for a process, by any name but, in the current
\* directory, the shell's.  Its loading has no regard for the reply of read.
Exec(n, name) ==
  LET d     == Depth(n)
      found == SlotsMatching(store[d].table, name)
  IN  IF \/ n >= Len(path)
         \/ n = 0 /\ Matches(ShellName, name)
         \/ ~Readable(n)
         \/ found = {}
         \/ SlotsNamed(store[d].table, name) = {}
      THEN Refusal
      ELSE Given(ReadBlocks(d, name, store[d].table[Least(found)].length))

\* The ring of directories to visit.
NoQueue == [items |-> [k \in 0 .. MaxQueue - 1 |-> <<>>], front |-> -1, rear |-> -1]

\* Mutant: the queue is taken for full one directory early.
QueueFullEarly(queue) == (queue.rear + 2) % MaxQueue = queue.front

QueueFull(queue) == (queue.rear + 1) % MaxQueue = queue.front

\* Into a full queue nothing is put.
Enqueue(queue, item) ==
  IF QueueFull(queue) THEN queue
  ELSE LET rear == (queue.rear + 1) % MaxQueue
       IN  [items |-> [queue.items EXCEPT ![rear] = item], rear |-> rear,
            front |-> IF queue.front = -1 THEN 0 ELSE queue.front]

IsEmpty(queue) == queue.front = -1

Dequeue(queue) ==
  IF queue.front = queue.rear THEN [queue EXCEPT !.front = -1, !.rear = -1]
  ELSE [queue EXCEPT !.front = (@ + 1) % MaxQueue]

\* In the first directory, the root, slot 1 is skipped as well: it is taken
\* for the shell.
FirstListed(first) == IF first THEN 2 ELSE 1

\* The folders of d among the slots listed join the queue, in their order.
Joined(queue, d, listed) ==
  LET e(s) == store[d].table[s]
      after[s \in Slots] ==
        IF s = 0 THEN queue
        ELSE IF s \in listed /\ e(s).dir
        THEN Enqueue(after[s - 1], [cluster |-> e(s).cluster, parent |-> d, name |-> e(s).name])
        ELSE after[s - 1]
  IN  after[NSlots - 1]

\* bfs_find visits the directory at the front.
Visit(search, target) ==
  LET item   == search.queue.items[search.queue.front]
      d      == item.cluster
      listed == IF DirectoryFound(item.parent, item.name)
                THEN {s \in UsedSlots(store[d].table) : s >= FirstListed(search.first)}
                ELSE {}
  IN  [queue   |-> Joined(Dequeue(search.queue), d, listed),
       first   |-> FALSE,
       visited |-> search.visited \cup {d},
       found   |-> search.found \cup
                     {<<d, s>> : s \in {x \in listed : Matches(store[d].table[x].name, target)}}]

\* bfs_find, for as many directories as the disk has room for.
Find(target) ==
  LET start == [queue |-> Enqueue(NoQueue, [cluster |-> Root, parent |-> Root, name |-> RootName]),
                first |-> TRUE, visited |-> {}, found |-> {}]
      after[n \in 0 .. NClusters] ==
        IF n = 0 THEN start
        ELSE LET search == after[n - 1]
             IN  IF IsEmpty(search.queue) THEN search ELSE Visit(search, target)
  IN  after[NClusters]

-----------------------------------------------------------------------------
(* The shell and its users.                                                *)

\* The command has ended and the shell reads the next line.
NextPrompt ==
  /\ mode = "idle" /\ job.op = "last"
  /\ job' = NoJob /\ intent' = NoIntent
  /\ UNCHANGED <<vars, path, pathNames, cut>>

Disk == DiskWrite /\ UNCHANGED shellVars

\* The next boot starts the shell anew, in the root.
Restart ==
  /\ PowerFailure
  /\ path' = <<Root>> /\ pathNames' = <<RootName>>
  /\ job' = NoJob /\ intent' = NoIntent
  /\ cut' = (cut \/ job # NoJob)

Boots == Initialize /\ UNCHANGED shellVars

Levels == 0 .. Len(path)
Typed  == PlainNames \cup {NoName}

AnyCommand ==
  \/ \E n \in Levels, name \in Typed : Cd(n, name)
  \/ \E name \in PlainNames : Mkdir(name)
  \/ \E n \in Levels, name \in UserNames, text \in Texts : Nano(n, name, text)
  \/ \E n \in Levels, name \in PlainNames : Nano(n, name, <<>>)
  \/ \E n \in Levels, name \in UserNames : \E dotted \in Dots(name) : Rm(n, name, dotted)
  \/ \E name \in UserNames, n \in Levels, dest \in UserNames : \E dotted \in Dots(dest) :
       \/ MvErase(name, n, dest, dotted)
       \/ CpDelete(name, n, dest, dotted)

Machine == Disk \/ Restart \/ Boots \/ MvEnter \/ CpWrite \/ NextPrompt

ShellSpec == ShellInit /\ [][AnyCommand \/ Machine]_allVars

\* A user who knows the pitfalls.  What rm and cp take away is not a folder
\* that only looks empty, nor one the shell is in.
MayGo(n, name) ==
  n < Len(path) =>
    /\ ~Misjudged(Depth(n), name)
    /\ \A e \in EntriesOf(Depth(n)) : e.name = name /\ e.dir => e.cluster \notin ToSet(path)

\* A folder on the path no longer has the name it was made with.
Renamed(n) == store[Depth(n)].table[0].name # pathNames[Len(pathNames) - n]

\* mv has one entry to move, which is not its directory's own, and a free
\* place to move it to, under a name with a dot.  Inside a renamed folder
\* it does nothing at all, or loses the entry.
MayMove(name, n, dest) ==
  (n < Len(path) /\ Readable(0)) =>
    /\ \E s \in Slots \ {0} : SlotsMatching(store[Cwd].table, name) = {s}
    /\ SlotsNamed(store[Depth(n)].table, dest) = {}
    /\ n = 0 \/ UsedSlots(store[Depth(n)].table) # Slots
    /\ ~Renamed(0) /\ ~Renamed(n)

\* cp has the space for its copy, once what it copies over has gone.
Occupied(e) == IF e.dir THEN {e.cluster} ELSE ToSet(ChainFrom(fat)[e.cluster])

MayCopy(name, n, dest) ==
  n < Len(path) =>
    /\ MayGo(n, dest)
    /\ \A e \in EntriesOf(Depth(n)) :
         e.name = dest => Cardinality(FreeClusters \cup Occupied(e)) >= SourceSize(name)

CarefulCommand ==
  \/ \E n \in Levels, name \in Typed : Cd(n, name)
  \/ \E name \in PlainNames : Mkdir(name)
  \/ \E n \in Levels, name \in UserNames, text \in Texts : Nano(n, name, text)
  \/ \E n \in Levels, name \in UserNames : \E dotted \in Dots(name) :
       MayGo(n, name) /\ Rm(n, name, dotted)
  \/ \E name \in UserNames, n \in Levels, dest \in UserNames :
       \/ MayMove(name, n, dest) /\ MvErase(name, n, dest, TRUE)
       \/ \E dotted \in Dots(dest) : MayCopy(name, n, dest) /\ CpDelete(name, n, dest, dotted)

CarefulShellSpec == ShellInit /\ [][CarefulCommand \/ Machine]_allVars

-----------------------------------------------------------------------------
(* Properties.                                                             *)

\* When a command has ended the files are what it was asked for, or, if a
\* call of it was refused, what they were before it: also for mv and cp,
\* which are several calls that each rely on what the one before has left.
CommandsTakeEffect ==
  mode = "idle" /\ job.op = "last" =>
    Files = IF job.ok THEN intent.goal ELSE intent.before

\* At any moment of a command, hence also if power fails there, only the
\* places the command names differ from before.
OthersUndamaged ==
  job # NoJob =>
    \A p \in (DOMAIN Files \cup DOMAIN intent.before) \ intent.named :
      /\ p \in DOMAIN Files \cap DOMAIN intent.before
      /\ Files[p] = intent.before[p]

\* The directory stack is a path of the tree on the disk, whatever was moved,
\* removed or interrupted.
PathFollowsTree ==
  /\ path[1] = Root
  /\ \A k \in 2 .. Len(path) :
       \E e \in EntriesOf(path[k - 1]) :
         e.dir /\ e.cluster = path[k] /\ e.name = pathNames[k]

\* At the prompt ls lists what is in the current directory.  Unless the
\* directory was renamed, cat prints the whole of every text file of at most a
\* cluster, and the whole of every file but the shell is loaded for a process,
\* whatever was moved, copied or interrupted.
ReadsBack ==
  AtPrompt =>
    /\ Ls = {e.name : e \in EntriesOf(Cwd)}
    /\ Readable(0) =>
         \A e \in EntriesOf(Cwd) :
           (~e.dir /\ SlotsMatching(store[Cwd].table, e.name) \cap {0} = {}) =>
             /\ e.name \in TextNames /\ e.length = 1 =>
                  Cat(0, e.name) = Given(Files[<<Cwd, e.name>>].blocks)
             /\ ~Matches(ShellName, e.name) =>
                  Exec(0, e.name) = Given(Files[<<Cwd, e.name>>].blocks)

\* find visits every directory, as long as there are no more of them than the
\* queue has room for, comes to an end, and reports exactly the entries of
\* that name.
FindComplete ==
  AtPrompt /\ Cardinality(Directories) <= MaxQueue + 1 =>
    \A name \in UserNames :
      /\ IsEmpty(Find(name).queue)
      /\ Find(name).visited = Directories
      /\ Find(name).found =
           {p \in Directories \X (Slots \ {0}) : LET e == store[p[1]].table[p[2]]
                                                 IN  e.used /\ e.name = name}

\* Between commands every allocated cluster belongs to an entry, unless power
\* failed inside a command.
NothingLeaked == job = NoJob /\ ~cut => NoLeaks

\* Documented in fat32.h (223, "2 invalid parent cluster"): a write whose
\* parent is not a directory is refused, so the table that a write ends with
\* belongs to a directory of the tree.
InvalidParentRefused == mode = "write" => Last(pending).to \in Directories
=============================================================================
