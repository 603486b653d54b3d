# Verification of the OS lab programs

A TLA+ development for the programs of `src/Desktop/OSLabAssign/src`: models
that TLC checks on small instances and theorems that TLAPS proves for every
value of the constants. Paths below are relative to that directory; `readme/`
is the directory of the lab reports beside it.

The core is Lab 3, a single-user file system on a virtual disk (`ex2.c`, about
half of the repository). Labs 1 and 2 are ten to three-hundred-line programs
about processes, threads, signals, pipes, memory allocation and paging.

## 1. Inventory

| part | state | operations | what is hard | what makes it correct |
|---|---|---|---|---|
| **ext2 commands** `Lab3/ex2.c`, `ex2.h` | group descriptor with two free counts, two bitmaps, inode table, directory and file blocks, all written through to the file `./Ext2`; in memory the two allocation hints, the current directory and its path, the table of open files | `mkdir`, `cat` (the command `touch`), `rmdir`, `del` (`rm`), `cd`, `attrib`, `open_file`, `close_file`, `write_file`, `read_file`, `ls`, `format`, `initialize_disk`, `initialize_memory` | allocation failing in the middle of a command; several records that describe the same thing and are written one after the other (bitmap, count, inode, entry, size); loops that depend on counts; a kill | no block has two owners; used blocks and inodes are marked; counts and sizes agree with what they count; the directories form a tree; each command changes the path it names and nothing else |
| **bitmap scan** `alloc_block`, `get_inode` | the bitmap, the hint, the free count | one search per call | wrap-around, a full bitmap, a count that disagrees with the bitmap | the bit taken was clear; the search ends when there is a clear bit |
| **account** `login`, `Newpassword`, end of `initialize_disk` | user name and password in the group descriptor | log in, change the password | input longer than the arrays, `quit` from inside | only the account of the disk gets to the prompt |
| **disk layout, streams** `ex2.h`, `update_*`, `reload_*` | one file, one `FILE *fp` | read and write a record at an address | the stream opened by every `update_*` is never closed; the inode table is longer than the room before the data area | every address has one meaning |
| **command loop** `Lab3/sim.c`, `sim.h` | none of its own | dispatch, `quit` | words left over in the input | - |
| **memory allocation** `Lab2/MAR.c` | free list, list of processes, algorithm | set size, choose first/best/worst fit, new process, kill process | the last free block; order of the list during merge and search; results of functions that return none | free and allocated pieces partition the memory, neighbours are merged |
| **paging** `Lab2/pagefifo.c`, `pagelru.c` | frames (a ring or a list), counters | one reference | unused frames that look like page 0; counters kept apart from lists | the resident set and the misses are those of FIFO and LRU |
| **signals** `Lab2/kill1617.c`, `alarm.c` | parent and two children | `fork`, `signal`, `kill`, `pause`, `wait` | a signal before its handler, or between `signal` and `pause` | both children announce their end, and the parent ends after them |
| **pipe** `Lab2/pipe.c` | a pipe, a lock on its write end | 2000 one-byte writes by each child, one read | mixing of the writers, the size of the buffer | blocks of ones and twos do not mix |
| **threads** `Lab1/D_OP_Thread.c`, `PV1.c`, `Mutex.c` | one counter, a semaphore or a spin lock | 5000 increments against 5000 decrements | lost updates, a thread that is not created | the counter is 0 at the end |
| **processes** other files of `Lab1` | a copied variable, the program that runs | `fork`, `exec*`, `system`, `wait` | order of parent and child; `exec` in a thread replaces the process | copies do not share |

How they interact: `sim.c` calls the functions of `ex2.c` one at a time and
prints the global `current_path`; the functions share the buffers `inode_area`,
`dir`, `bitbuf`, `ibuf` and the record `gdt`. The disk is the only thing that
survives a restart. The other programs do not interact with each other.

## 2. What is modelled

```
Ext2Bitmap            the bit that a search takes, as a function
  |-- BitmapScan      the two search loops, one action per iteration (run in LabPrograms)
  |-- Ext2            the file system: one action per command
        |-- Ext2Props      invariants, action properties, refinement mapping
              |-- FileTree      (INSTANCE) the tree of paths a user is promised
              |-- Ext2MC        definitions for TLC
              |-- Ext2Crash     death between any two writes, and the next start
                    |-- Ext2CrashMC   (with Ext2MC) definitions for TLC
Ext2Layout            addresses of inodes and blocks

Ext2BitmapProofs      the search takes a clear bit
  |-- Ext2DiskProofs  every turn of BitmapScan's loops keeps to it; Ext2Layout's records
  |-- Ext2Proofs      types, the tree without paths, what each helper does to them
        |-- Ext2StepProofs    every step keeps the disk in order
              |-- Ext2SafetyProofs  the properties of Ext2Props, FileTree
                    |-- Ext2CrashProofs   what the disks of Ext2Crash keep

MemoryParams          sizes and algorithms
  |-- MemoryMap       which addresses belong to which process
  |-- MemAlloc        the allocator of Lab 2: one action per menu choice,
        |             shown to implement MemoryMap (INSTANCE)
        |-- MemoryProofs   the sort, the merge and the allocator on lists of
                           any length; no address belongs to two processes

LabPrograms           the small programs and BitmapScan, one of them in each behaviour:
  |-- Counter         two threads and a counter under three guards
  |-- Pipe            two writers, lockf, one reader
  |-- Signals         kill1617.c and alarm.c
  |-- ExecThreads     execl and system in threads
  |-- PageFIFO        shown to implement Pager (INSTANCE), a queue
  |-- PageLRU         with the string of references as a history
  |-- Session         the account and the stream of Lab 3
  |-- LabProofs       (with Ext2DiskProofs) the theorems about all of them
PageParams            what the user of the two page programs types
```

### Ext2: state and code

| model | code |
|---|---|
| `fs.bg_free_blocks_count`, `fs.bg_free_inodes_count` | the two counts of `gdt`; `update_group_desc` follows every change |
| `fs.block_bitmap`, `fs.inode_bitmap` | the sets of block and inode numbers whose bit is 1, on the disk |
| `fs.last_alloc_block`, `fs.last_alloc_inode` | the hints, reset by `initialize_memory` |
| `fs.inode_table[n]` | `i_mode & 7` as a set of letters, `i_size`, and `i_block` cut to its first `i_blocks` elements |
| `fs.data[b]` | the 32 entries of a block: `inode`, `file_type`, `name`; `Text` in a block of a file |
| `current_dir`, `current_path`, `fopen_table` | the variables of the same names; `current_path` as the sequence of names in it |
| `mode`, `call` | a command that does not return (`"hung"`), and the locals of a `write_file` in progress |

`cd`, `mkdir`, `cat`, `rmdir`, `del`, `attrib`, `open_file`, `close_file`,
`format` are one action each, named as in the code, with the whole handler in
it: every test and early return as a guard (a refused command is a stuttering
step), every helper it calls as an operator from file system to file system
with the name of the helper, composed in the order of the calls. `write_file`
takes a step up to its loops (`WriteBegin`), one for each block it adds or
gives back (`WriteGrow`, `WriteShrink`) and one for the rest (`WriteEnd`).
`Restart` is `quit`, or a kill at the prompt, and a new start of the program;
`KillHung` ends a command that does not return.

The bit a search takes is not an arbitrary clear bit: `FirstClear` is the first
one in the order in which the code looks (whole bytes from the byte of the hint
on, the most significant bit of that byte first). `BitmapScan` runs the two
loops of the code and checks that they compute it.

**Faults.** Several handlers go on with a result that means failure: block 0 or
inode 0 from a full disk, the index behind the open table, slot 0 of an empty
block as the place for a time stamp. The step is modelled, whole, and leaves a
mark in `fs.faults`. What it does to the modelled disk is in the next state, and
`CommandsKeepTheTree`, which no mark excuses, is refuted by it: the root written
over, a name without an inode, a block of entries lost. The other properties are
claimed only while no such mark is set (`Followed`), because the damage breaks
them at once: a block with two owners, a root that is no directory of its own. After the command only `format` is followed. For the
faults that store outside what is modelled (the tail of the inode bitmap, which
is "inode 0", or whatever lies behind an array) the model has no bytes to go on
with. For a failed `alloc_block` and the overwritten last block it would have them;
what further commands do on such a disk is left out. A command killed in an
endless loop leaves the mark `"killed"`, which stops nothing: the properties hold after it, in the weaker form that each
of them states.

**Left out of Ext2.** `ls`, `read_file` and `check_disk` change nothing. Time
stamps never influence another field except through "inode 0". The account is
the module `Session`. Files have no contents: a block of a file is either
`Text` or what it was before. `name_len`, `current_dirlen` and `rec_len`
decide nothing except the test `dir[k-1].name_len` of `cd`, which asks whether
the directory is the root, and the cut of the path by the length of its last
name, which is the removal of the last element.

### Ext2Crash

Every `update_*` is a write of the disk, and a command is a sequence of them.
For each command the module has its *cuts*, the disks that stand between its
first and its last write, in the order of the calls: `AllocCuts` for
`alloc_block` (bitmap, then count), `InodeCuts`, `RemoveCuts`, `PrepareCuts`,
and from these `AddCuts` (`mkdir`, `touch`), `RmdirCuts`, `DelCuts`,
`WriteCuts`. A death takes one cut of the command to `initialize_memory`. Two
things can cause it: a kill, and `fopen` returning NULL in an `update_*` after
some thousand writes, since no update closes its stream; the next `fseek` then
ends the program. In `DieAt` they are one action, so no stream is counted here
(`Session` does).

`torn` says that the cut has left an inode of the tree with a block that the
bitmap calls free. That happens only while blocks are given back: `remove_block`
clears the bit first and the inode is written last. The next allocation may
give the block to a second owner, so, as after a fault, only `format` is
followed then; `TearIsOneInode` bounds the damage at that moment. A crash of
`format` itself is in `Session`, as far as the account is concerned, and not
here: every block may be half written.

### Session

| model | code |
|---|---|
| `volume`, `account` | `bg_volume_name` (equal to `VOLUME_NAME`, or not, or no file), `bg_usrname` and `bg_password` on the disk |
| `gdt` | the same two words in the record in memory |
| `fp`, `streams` | the stream last opened, and how many are open in the process |
| `stage` | the `scanf` that waits: of `initialize_disk`, of `sim.c`, of `login`, of `Newpassword` |
| `known`, `cut` | history: what the user has proved to know; whether this disk's creation was cut short |

`initialize_disk` writes the volume name with its first update and the account
with its last one, after two questions. Between them eight updates take eight
streams (`FirstUpdates`). It closes `fp` at its end: `format` goes on to
`initialize_memory`, which opens it again, but a first start returns to the
prompt, and a `login` or `pwd` then reads from a closed stream, which either
ends the program or reads nothing; both are outcomes of `Reload`. A user name or
password `q` can be created and cannot be typed at a login. Words that are longer than
their arrays are left out. `Update` stands for the updates of all other
commands, whose effects are those of Ext2.

### Ext2Layout

The addresses of `ex2.h`, without variables. Ext2 keeps inode table and data
area apart; so do the addresses for inodes up to 2048, because the data area was placed for
inodes of 64 bytes. The theorems of `Ext2DiskProofs` say both.

### FileTree

The promise to the user: sets of paths `dirs` and `files`, and `cwd`. The
mapping in `Ext2Props` follows entries from the root. A refused command, `open`,
`close`, `attrib`, the steps of a write and a hung sweep are stuttering; a
removal that hangs has already removed the name. A fault maps to `Break`, after
which the tree is unspecified until `Format`.

### MemAlloc and MemoryMap

`free_block` is the free list, a sequence of start and size;
`allocated_block_head` the processes, a set, since no function depends on the
order of that list; `mem_size`, `ma_algorithm`, `pid` and `flag` are the
variables of the same names. `ret` keeps the result of the last `new_process`.
Each choice of the menu is one action: the program reads nothing in between,
except the numbers, which are the parameters of the actions. The three
`rearrange` functions are the exchange sort of the code, element by element, as
it is not stable and equal blocks change places.

A null pointer is followed when the last free block is taken whole: the action
then ends in `mode = "crashed"`. A process of a size that is not positive keeps
whatever `malloc` left in its record: a positive leftover is a request of that
size, any other ends the model in `mode = "unset"`. The second search of
`allocate_mem` is made with a list already in order and finds nothing the first
did not; under worst fit the missing return value of `rearrange_WF` decides
whether it is made at all, which therefore changes nothing.

`MemoryMap` has no lists: the pieces in use, and the gaps computed from them. A
new process gets a gap that its algorithm prefers, or is refused when none is
large enough. Ties among gaps of one size are open there; the code decides them
by its sort.

### The small programs

`LabPrograms` puts them side by side, and the loops of `BitmapScan` with them;
`program` says which of them runs in a behaviour, the others stay at their
beginning. They share no state, so nothing is lost by that, and one run checks
them all.

- **Counter** (`D_OP_Thread.c`, `PV1.c`, `Mutex.c`). `guard` is the difference
  between the three programs. `temp++` is a load and a store, as the compiler
  translates it without optimisation. The exchange of the spin lock is one step;
  its unsuccessful rounds change nothing and are stuttering. `main` goes through
  its calls. A `pthread_create` may fail (`CreateFails`): `Mutex.c` exits, and so do all
  three at the second one; at the first one `PV1.c` and `D_OP_Thread.c` go on, run the
  second thread alone, and come to join a thread number that was never set
  (`JoinUnset`). That is undefined: the process dies, or the call comes back at any
  time, and then `main` joins the second thread and prints, or it never comes back.
- **Pipe** (`pipe.c`). A byte is the number of the child that wrote it. `lockf`
  on the write end of a pipe is taken as Linux has it, a lock per process. The
  read of 4000 bytes into 1000 either goes on or crashes (`ReadAll`).
- **Signals** (`kill1617.c`, `alarm.c`). Each call of a child is a step, and
  `Fate` says what the signal does at each of them: a child may be killed
  before it has a handler, or handle its signal before it pauses and then wait for ever. Sleeps may end at any time:
  the programs depend on their length for the children to be ready, and nothing
  guarantees it. `signal` is BSD's, as in glibc: a wait goes on after a handler.
  The sources name variables `pid` and `pid2` that do not exist; they are read
  as `pid1` and `pid2`, without which neither compiles. `alarm(left1)` sets two
  seconds for the second alarm though the message says four; times are not in
  the model, and the alarm may ring before, in or after the sleep anyway. A
  `^C` comes at most once (`breaks`).
- **ExecThreads** (`Texec.c`, `Tsystem.c`). `execl` replaces the process with
  its other threads; `system` starts a child and returns.
- **PageFIFO**, **PageLRU**. A chain of nodes is a sequence, a pointer a
  position. A number of frames 0 makes a chain of one node in `init` and ends in
  a division by zero at the first replacement (`divided`); in `pagelru.c` it
  passes through `cpn = -1`. `Pager` is a queue of pages; its one weakness
  is that page 0 counts as present while a frame is unused, because `search`
  does not look at `status`. LRU is compared with its definition: `string` is the
  history, and the properties say by the last use of each page what memory must
  hold and which references were misses.

### Not modelled

- `read_file` prints `i_size - flag*512` characters of a buffer of 512 for each
  block: contents are not in Ext2, and the command changes nothing.
- `attrib` with `-`: the mask `7776` is decimal, so more bits go than asked
  for; Ext2 has the mask as it is and no property about it.
- Names, passwords and paths longer than their arrays; the tokenising of the
  command line; the text of `ls`, of menus and of reports.
- `D_OP_Process.c` (two processes print variables of their own), `showpid.c`
  (prints a line), `Pexec.c` and `Psystem.c` (call `excel` and `sys`, which no
  library has, and do not link).
- Stamps of time, except where they are written to inode 0.

## 3. Runs

| run | what is asked | size |
|---|---|---|
| `ext2_files` | ownership of blocks, sizes, inode bitmap and count, freshness of inodes; the open table holds live files, each once | 156,000 states, 1 min |
| `ext2_tree` | shape of the tree, sizes of directories, the path in the prompt, implementation of `FileTree` | 38,000 states, 2 min |
| `mem_alloc` | the free list is the gaps, in order; implementation of `MemoryMap` | 37,000 states, 40 s |
| `ext2_crash` | after up to two deaths in the middle of commands: ownership, marks, sizes, all or nothing | 129,000 states, 1-2 min |
| `programs` | locks, pipe and signals, and when they end; both page replacements; the account; the loops compute `FirstClear`, and end when a bit is clear | 124,000 states, 15 s |
| `inode_bits` | counterexample: `rmdir` leaves the inode bit | 3 steps |
| `hanging_sweep` | counterexample: a removal that never returns | 4 steps |
| `mkdir_overwrites` | counterexample: `mkdir` destroys the last block of the directory | 5 steps |
| `rm_leaves_open` | counterexample: a removed file is still open | needs the last slot of the open table |
| `mem_last_block` | counterexample: taking the only free block crashes | 2 steps |
| `first_create_fails` | counterexample: `PV1.c` without its first thread does not print 0 | short |
| `signals_race` | counterexample: a child misses its signal, and the parent waits for it for ever | under the fairness below |

**Bounds.** No counter is cut off: every bound is a size of the disk, and the
state space is finite because the disk is.

- `EntriesPerBlock = 3` (32): a directory has "." and "..", so one free slot in
  its first block; the third entry makes it grow. That is the least number at
  which a block can be partly full.
- `MaxBlocks = 2` (8): with two blocks a directory can be full (`HasRoom` is
  false), has a second block for the sweep to look at and a last block that is
  not the first. A third block would add the shift of `i_block` by more than
  none; `SweptTo` has it for any number.
- `BlockCount` 3 or 4, `InodeCount` 4 or 6 (4096): the disk runs full of blocks
  before inodes and of inodes before blocks, both in reach; two bytes in every
  bitmap, so that the search wraps.
- `OpenSlots` 2 or 3 (16): one or two slots that `test_fd` sees and the last,
  which it does not. `ext2_files` has three, for the files of that name in the
  root and below it. `rm_leaves_open` has three file names for three slots, blocks
  of five entries for them and one block per directory.
- `Texts = {0, 2, 5}`: no block, one block, and a text one short of the maximum,
  which the code takes for the maximum. In a text the unit is one character.
- Names: `ext2_tree` has two names, one of them for files too, so that a
  directory can hold both and paths reach depth three; `ext2_files` has one.

- `mem_alloc`: `MaxPid = 5` processes started in one run, with requests of 1 to
  3 in a memory of 5 or 8 units and `MinSlice = 1` (10). Three gaps of
  different sizes with a process between any two fit in, so that the three
  orders of the list differ, a freed piece can have a free neighbour on both
  sides, a request can be refused, and a remainder can be on either side of the
  slice.

- `ext2_crash`: one name for a file and a directory, `InodeCount = 3`,
  `BlockCount = 4`, blocks of three entries, two blocks per directory and
  `MaxCrashes = 2`: the directory grows to a second block and shrinks, a write
  adds and gives back two blocks, and a second death can come in the middle of
  a command on the disk that the first one left. Two is where the drift of
  counts and sizes is seen to add up, one for each death.
- The search for a bit (in `programs`): every set of bits and every hint of a
  bitmap of `Size = 9` (4096) bits in bytes of three, so that there is a byte
  between the first and the last.
- `programs`: `Iterations = 4` (5000) rounds for each thread, enough for either to
  be overtaken within a round and between rounds; `Count = 3` (2000) bytes in
  a pipe that holds both children's six, as the real one holds 4000, and in
  `Room = 4` too small for them; `Pages` 0 to 3 in at most `MaxFrames = 3` frames and
  strings of `References = 7`, in which every page can be evicted and
  come back; `Words` with two ordinary words and `q`; `StreamLimit = 12` (1021),
  which leaves three streams after the nine of a creation, so that each update,
  each change of the password and a format can be the one that gets none.

`Visible` is a view, not an abstraction: it hides the contents of blocks whose
bit is clear and the table entries of inodes nothing names, which every command
writes before it reads. All properties of these runs depend on what the view shows.
No run uses symmetry, and the violation runs no view. Those of Ext2 choose sizes
of the disk at which the case in question is the first thing that goes wrong: in
`mkdir_overwrites` six blocks and six inodes, so that neither runs out before a
directory has its second block.

**Fairness.** Ext2 and MemAlloc are checked for safety only: nothing makes a user
type. The one liveness claim of the file system, that every command returns, is the
invariant `CommandsReturn`, since a command is either one step or visibly
hung. `LabPrograms` assumes `WF` of the loops of `BitmapScan`, a single process
that goes on whenever it can, and `WF` of each thread and process of the program that
runs, and that an alarm rings; that is the scheduler of the system. There is no
fairness for a particular waiter of a lock: each thread as a whole is weakly
fair, the lock may be taken by the other one in every round, and `ProgramsEnd`
holds because the other one has only so many rounds. Nothing makes a key be
pressed or a user type, and nothing makes `JoinUnset` happen: that join may
block for ever. `CreateFails` shares the fairness of `main`: the call returns, one way or
the other.

`ProgramsEnd` says under which condition each program ends: `pipe.c` and the
programs with `exec` and `system` always; the counter unless `main` joins a thread it
could not create; the parent of the signals unless a child missed its signal. That
the last condition is needed is the run `signals_race`.

## 4. Proofs

Every theorem holds for all values of the constants. The proofs about Ext2
assume `SizesAssumption` and `ByteBitsAssumption`: the sizes are positive, whole
bytes of bits, room for two entries in a block, and no more blocks in an inode
than entries in a block. The program's numbers satisfy them.

### The file system

The invariants of `Ext2Props` are written as a user would check them: they
follow entries from the root. None is inductive alone. A `mkdir` keeps the tree
only if the inode and the block it takes belong to nobody, and that is known
only through the marks of everything in the tree; a `rmdir` keeps the marks only
if the tree has the entry nowhere else. So one invariant carries all of them.
`Ordered` (`Ext2StepProofs`) says: while the disk is followed there are a set
`D` of directories, a set `F` of files, a parent `up` and a path `path` for every
directory, such that `InOrder(D, F, up, path)`. Its parts:

| part | says | needed because |
|---|---|---|
| `Marked` | `D` and `F` are disjoint and have their bits set | a new inode has a clear bit, so it is in neither |
| `Pathed` | paths are shorter than the number of marked inodes | the recursion of `DirPaths` then reaches all of `D` |
| `Dotted` | the first two entries are "." and ".." | `cd ..` goes to `up`; `rmdir` recognises an empty directory by its size 2 |
| `Closed`, `HasName`, `OneName` | entries lead to `D` and `F`, every inode but the root has one, and only one | removing an entry removes the inode from the tree, and no other |
| `Distinct` | no two entries of one name and type | the path of a directory is its own; the search that `mkdir` makes first keeps it |
| `Owned`, `Exact` | no two places have one block, all are marked, the count counts them; nothing else is marked while no command was killed | `alloc_block` gives a block nobody has |
| `DirSized` | entries are at most, or exactly, the size; a second block is never empty | `Partial` finds a slot; see below |
| `FileSized` | blocks as the size needs | the loops of `write_file` |
| `Writing` | the file of a write in progress is in `F` | its own list of blocks stands for `i_block` until `WriteEnd` |
| `OpenNames`, `Here` | the open table is within `F`; `current_path` is the path of `current_dir` | `rm` closes the file it deletes if `test_fd` sees it; `rmdir` removes a child of the current directory and never that directory |

That a second block is never empty was not planned: without it the
invariant is not inductive, and the reason is the finding about the sweep. A
removal from a directory of two blocks never returns while the second one holds an
entry, and when it took the last one out, the stamp that belongs to it goes to
inode 0, a fault. So in a followed step that does return no directory gives a block
back, and its blocks can only grow.

TLC checked `Ordered`, with `D`, `F`, `up` and `path` read off the disk, as an
invariant of the passing runs of Ext2 before it was proved. The proof has
three layers:

1. `Ext2Proofs`: what Shape means for the recursive `DirPaths` (`ShapeReaches`,
   by induction on the depth, in the form of a set of numbers that contains 0
   and successors, since the induction theorem itself takes an operator); and
   what each helper does to `Shape` and `Stored`: an entry more, an entry
   less, a block taken or given back.
2. `Ext2StepProofs`: one lemma per action. Each says `TreeStep`: the same tree,
   or one directory or file more or less. `NextOrdered` combines them and
   `DiskInOrder` is `Spec => []Ordered`.
3. `Ext2SafetyProofs`: `InOrder` implies each invariant (`...Holds`), `TreeStep`
   implies the action properties and the step of `FileTree`.

| theorem | property |
|---|---|
| `DiskInOrder` | `Ordered` itself |
| `BlocksAreOwned` | `BlockOwnership` |
| `DirectoriesFormATree` | `TreeShape` |
| `SizesFitBlocks`, `SizesCountEntries`, `PartialDirsHaveRoom` | `SizeFitsBlocks`, `SizeCountsEntries`, `PartialHasFreeSlot` |
| `LiveInodesAreMarked`, `OpenFilesAreLive`, `PromptShowsCurrentDir` | `LiveInodesMarked`, `OpenTableLive`, `PathNamesCurrentDir` |
| `FreshInodes`, `OthersAreKept` | the action properties `NewInodesAreFresh`, `OthersKeepEntries` |
| `FileSystemIsATree` | `Spec => ImplementsFileTree` |
| `TypeCorrect` (`Ext2Proofs`) | `TypeOK`, inductive by itself: each helper maps a file system to a file system. That inode 0 and block 0 stay in range as numbers when an allocation fails is part of it, and that `initialize_disk` gets inode 1 and not 0 |
| `FreeCountAlwaysCovers` | `FreeCountCovers`, from `TypeOK`: each command composes helpers that leave the bitmap and the count alone with at most one `get_inode`, which moves one bit and one count, or one `remove_inode`, which adds to the count and clears nothing |

For `FileSystemIsATree` the paths of the refinement mapping are the values of
`path` and their extensions by the names of files (`TreePaths`). A step with the
same tree is a stutter, or a `cd` when `current_dir` moves; one directory or file
more is `Mkdir` or `Touch` of exactly that path, one less is `Rmdir` or `Rm`; a
step into a fault is `Break`, and `format` leads to the empty tree from anything.

### Crashes

The proofs of `Ext2CrashProofs` are for any sizes of the disk and any number of
crashes (`MaxCrashesAssumption`: it is a number). `Ordered` does not survive a
crash: a `mkdir` that dies before its last write leaves a directory without "."
and "..", which can then get other entries in their place; a count or a size that was
to be written next stays behind. The invariant is `CrashOrdered`:

| part | says | needed because |
|---|---|---|
| `Linked` | `Shape` without parents: every entry is the name of a file or a directory, a "." or a "..", and "." and ".." may be missing; still one name for each inode, all marked, paths as before | `cd` and `rmdir` work in a directory that was never finished |
| `Blank` | an inode with a clear bit has no blocks and size 0 | the name of a directory is on the disk before its inode, so what the inode held before counts; no command clears a bit, so it held nothing since the format |
| `Held` | `Owned` with the number of clear bits for the count | the next `alloc_block` still gives a block nobody has |
| `Extra` | the free count exceeds the clear bits by at most `crashes` | `alloc_block` writes the bitmap first |
| `Near` | entries are at most the size and `crashes` | the size is written after the entry |
| `Mid`, `Follows` | in `write_file`, the list of the call starts like the one of the inode; where it is shorter, the blocks it lacks are unmarked | a death before the inode is written leaves a good disk if the list grew, a torn one if it shrank |
| `OneTorn` | after a tear: a linked tree, and all inodes but one have their blocks marked | nothing but `format` follows |

`Good` is the first five parts. For each command the argument is the same: every
cut is either *aside* (`GoodAside`: marks are added, blocks nobody owns are
written), or it has the one write that makes the name appear or disappear
(`GoodFilled`, `GoodAppended`, `GoodCleared`) and is good again, with a margin
of one more where the size or the count was to be written next; or it has given
back blocks whose owner is not written yet, and tears that owner only
(`ShorterTorn`). `AddCutsWhole` has no third kind, which is why growth is safe;
`RmdirCutsLeft`, `DelCutsLeft` and `CallCutsLeft` have all three. The steps between two
crashes keep the same margin (`NextSurvives`), and a sweep that returns has
found an empty second block, so its directory has the entries it had
(`MovedSecond`). Here the sweep can return, as it cannot in `Ordered`: a crash may
have left an empty second block.

| theorem | property |
|---|---|
| `CrashTypeCorrect` | `CrashTypeOK`, for the cuts too |
| `CrashOrderKept` | `CrashOrdered` itself |
| `OwnershipOutlivesCrashes`, `SizesOutliveCrashes` | `OwnershipSurvives`, `SizesSurvive` |
| `MarkedOutlivesCrashes` | `LiveInodesMarked`, after a tear too |
| `TearsAreOneInode` | `TearIsOneInode` |
| `GrowthIsSafe` | the action property `GrowthNeverTears` |
| `CrashesAreAllOrNothing` | the action property `CrashIsAllOrNothing` |

For the last one the lemmas above also say what becomes of `TypedPaths(fs)`.
That set is defined by a search from the root; `PathsLinked` turns it into the
paths of `Linked`: those of `D`, and for each file the path of its directory
with its name. A write that changes no entry keeps the set (`PathsSame`). The
one that makes a name appear adds just that path (`PathsGained`). Where the name
of a file disappears just its path goes (`PathsLoseFile`); where the name of a
directory does, everything below it goes as well (`PathsLoseDir`), because after
a crash `rmdir` may find a directory of size 2 that has entries. `AddingIsWhole`,
`RmdirIsWhole`, `DelIsWhole` and `WriteKeepsPaths` put the cuts of each command
together, those that tear an inode among them: a block given back loses its bit,
not yet its contents, so the names in it are still found.

### The search for a bit, and addresses

- `FirstClearIsClear` (`Ext2BitmapProofs`): for any bitmap with a clear bit and
  any hint, `FirstClear` is a clear bit inside the bitmap. The rank of a bit in
  the order of the search is a natural number, so a least one exists.
- `ScanIsFirstClear` (`LabProofs`, from `ScanStep` of `Ext2DiskProofs`): the loops
  of `BitmapScan` mark that bit and no other. The invariant (`Scanning`): no byte
  already passed has a clear bit, the byte the first loop stopped at has one, and
  none before `flag`. Since no two bits have the same rank (`RankDiffers`) the bit
  found is the one `FirstClear` chooses. With it the step from the loops to the
  one-step search of Ext2 is proved and no longer only checked.
- `RecordsApart`, `LowInodesApart`, `HighInodesCollide` (`Ext2DiskProofs`): plain
  arithmetic about the addresses of `ex2.h`.

### Memory

The allocator is proved for any size of the memory, any slice, any number of
processes and free lists of any length; `MemoryAssumption` asks for positive sizes
only. The inductive invariant is `MemoryInv`:

| part | says | needed because |
|---|---|---|
| `Describes` | the blocks of the list have a positive size, lie in the memory apart from each other and from the processes, do not touch, and with the processes cover every address | the gaps of the map are then exactly the listed blocks |
| `Placed` | processes lie in the memory and apart from each other | a freed piece meets nothing it could be merged with but its neighbours |
| distinct numbers | no two processes have one `pid` | `kill_process` by number and the map agree on which piece goes |
| `Sorted` | no block of the list should come after a later one | the first block large enough is then the one the algorithm prefers |
| `flag` | as long as the size may be changed, no process has memory and the list is one block, all of it | `set_mem_size` overwrites a list that describes the whole memory |

`ListInOrder` and `FreeListIsGaps` alone are not inductive: the first says nothing
of where the blocks are, and the second speaks of the set of gaps, where a step
needs the list. The argument goes along the code:

1. Sort and merge are recursive functions (`pass`, `rearrange`, `merge`), one
   value for each turn of a loop. The prover cannot use the library's induction,
   so `IterationExists` and `IterationValues` derive from the well-founded order of
   the naturals that such a function has the values its equation says, once for
   all of them.
2. `RearrangeSorts`: the exchange sort leaves no two elements out of order and
   keeps the elements; the inner loop puts in front an element that no later one
   should precede (`PassKeeps`), though it is not stable.
3. `MergeJoins`: over blocks that are in the order of the addresses and apart, the
   loop of `free_mem` gives blocks that cover the same addresses and of which no
   two touch.
4. `RemainingDescribes`, `FreedDescribes`: what `allocate_mem` cuts from a block
   and what `free_mem` puts back leave a list that describes the memory.
5. `GapsAreListed`, `FirstFitIsPreferred`: the gaps that `MemoryMap` computes from
   the pieces are the listed blocks, and the block found first is one that the
   algorithm prefers. `SecondSearchFindsNothing`: the search after `rearrange`
   finds nothing, so its missing return value decides nothing.

| theorem | property |
|---|---|
| `MemTypeCorrect`, `FreeListInOrder`, `FreeBlocksAreGaps` | `TypeOK`, `ListInOrder`, `FreeListIsGaps` |
| `ListsImplementMap` | `ImplementsMemoryMap`: each choice of the menu is the step of `MemoryMap` of that name, or a stutter |
| `PiecesDisjoint` | `Map!Disjoint`: every process lies inside the memory, no two overlap and none has two pieces |
| `MapTypeCorrect`, `MapKeepsApart` | the same of `MemoryMap` itself: every address of a gap is free, so a piece that met the new one would hold the first address of one of the two |

### The small programs

All in `LabProofs`; `ProgramsInv` is the conjunction of the invariants, and the
step of one program is a stutter of the others.

- `RaceIsBounded`, `LocksLoseNothing`: for any number of rounds, at least
  one. The first needs that a loaded value stays in the range of the rounds
  done, which only grows. The second needs mutual exclusion: the thread in the
  critical section is the only one, the lock is 0 while it is there, and the
  value it has loaded is still `temp`. The value printed then follows from what `main`
  has joined (`Calls`): both threads have ended, or the first was never created and has
  done no round.
- `PipeBlocksArrive`: for any number of bytes and any size of the pipe. `HolderInv` ties the lock to
  the one writing child and says that before its turn a child has written
  nothing and after it everything; so the pipe is all bytes of one child and
  then some of the other (`Blocks`), and when the parent reads it is all of both.
- `SignalsAreSettled`: `SignalFates`, strengthened by where the parent must be
  while a child has not got its signal (`Unsent`) and which of the two programs
  it then is.
- `ExecTakesAll`: `ExecRunsOnce`. No worker waits in `system` when the call is
  `execl`; one that has ended proves that there is no file; and main joins what
  it has started.
- `LruIsByLastUse`: for any number of frames and any references. `LruInv` says
  that memory lists pages in the order of their last uses and that whatever is
  not in memory was used earlier (`Stacked`). A reference moves one page to the
  front and keeps the order of the others. The count of faults then follows by
  counting: all pages used since the last use of a page in memory stand before
  it in the list (`HitIsNoFault`), and they fill the list for one outside it
  (`MissIsFault`).
- `FifoIsAQueue`: `FifoSpec => ImplementsPager` for any number of
  frames and any references. The inductive invariant (`FifoInv`) says that the
  first `m` frames are used, the rest unused with number 0, and that `repos` is
  0 while `m` is less than the length; without it `find_free` could be anywhere and
  the chain from `repos` on would not be the queue. Each step is then a hit, a
  fill or a replacement of `Pager` (`HitIsHit`, `FillIsMiss`, `ReplaceIsMiss`).
  Pages are integers and 0 is one of them, since `init` writes it into every
  frame.
- `PromptKnowsAccount`, `LockoutIsACut`: for any words and any
  number of streams. `SessionInv` adds that from the question for the name on
  `gdt` is the account of the disk, which is why a login through a closed stream
  cannot let in a stale one; that the name typed at the password question is the
  one on the disk; and that whoever is past it has typed a word, so that a
  blank account stops everybody.
- `ProgramsKeepTypes`: the ranges of all variables of the programs, and of the
  search for a bit: its loops stay inside the bitmap and inside the byte.

### Only model-checked

- **Termination**: `ScanEnds`, `ProgramsEnd`. Liveness under
  fairness and ENABLED are beyond the prover.

Every invariant and every action property of a passing run is a theorem.

## 5. Where code and documents disagree

Each of these is a property that TLC refutes; `PROJECT.json` quotes the lines.

1. `remove_inode` clears a bit in the wrong buffer: the report says the bit of
   the inode is set to 0, the disk keeps it (`inode_bits`). With the count raised
   and the bits set, `get_inode` in the end searches a full bitmap for ever, the
   other way to refute `CommandsReturn` (with two inodes it comes first).
2. The loop that gives back empty blocks does not advance past a block in use
   (`hanging_sweep`).
3. `mkdir` writes the block it changed over the last block of the directory
   (`mkdir_overwrites`).
4. `test_fd` does not see the last slot, so that `rm` can leave a file open
   (`rm_leaves_open`).
5. `allocate_mem` sorts the free list after it has taken the last block from it
   (`mem_last_block`).
6. `PV1.c` prints minus the rounds if its first `pthread_create` failed and the join
   came back; the report says the result is 0 (`first_create_fails`).
7. A child of the signal programs can miss its signal, and the parent then waits for it
   for ever; and the first child of `kill1617.c` can be killed without a word. The
   report says that each child announces its end, and that the parent waits for
   them and ends (`signals_race`).

`CommandsKeepTheTree`, the property of `mkdir_overwrites`, is also refuted where the
disk is full, on disks that are small enough for it to come first. With two blocks
(of four entries) the second `mkdir` gets block 0 for its "." and
".." and writes them over the root (line 199). With two inodes the second `mkdir`
stores a name that no search finds (line 479). And a text of two blocks on a disk
that has one left is written over the root (line 990).

Two more are plain to see in the code and have no property. A file opened when
the table is full is stored behind it (line 849): that is memory outside the
model, the fault `openslot`. Overwriting a file with an empty text gives its blocks
back and leaves its size (line 1015), which only `ls` shows, since reads go by
the blocks; the rule is in `WriteEnd`.

## 6. Plan

What there is to add: the contents of files, if `read_file` is to be modelled, and
the commands after a failed `alloc_block`, whose damage the runs show only at the
command that does it.
