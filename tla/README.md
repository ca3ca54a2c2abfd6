# hoo: models, checks and proofs

hoo is a small 32-bit x86 kernel for one CPU: preemptive tasks, a keyboard, an
ATA disk, a file system, paged memory and a shell. This directory holds TLA+ models of its
concurrent core, its memory and its file system, the TLC runs that check them on small instances,
and TLAPS proofs for every instance. The reference is the source, at the lines that
`PROJECT.json` gives for each definition; paths below are relative to `src/`.

    cd tla
    tlc -workers 2 -config MCTasks_safety.cfg MCTasks
    tlapm TasksProofs.tla

## 1. The system

### How code is interleaved

Everything below follows from four facts about the kernel.

- There is one CPU. Code that runs with `EFLAGS.IF` clear is interrupted by
  nothing.
- Every interrupt goes through an interrupt gate (IF is cleared), except the
  system call, vector 0x80, which is a trap gate: **system calls run with
  interrupts enabled** and can be preempted between any two instructions.
- `wait` of a spinlock (`utilities/spinlock.c`) spins and does not disable
  interrupts. An interrupt handler that waits for a lock held by the code it
  interrupted spins for ever.
- `switch_to` (`sched/switch.S`) changes the kernel stack and the page directory (CR3);
  IF comes back with the `iret` or `enable_intr` of the code that is resumed. An
  interrupt handler runs on both of the task it interrupts: an address below the
  kernel's means that task's memory.

### Components

| Component | State | Operations | Correct when |
|---|---|---|---|
| Tasks and scheduler (`sched/tasks.c`, `pcb.c`, `switch.S`) | ready, running, sleeping and expired lists, `__sl_tasks`, the PCBs | `scheduler`, `sleep`, `wakeup`, `task_ready`, `fork`, `wait_child`, `exit`, `kill` | no task is lost or in two lists; the caller is the current task; the lock never leaves the CPU; an ended task never runs again; nobody starves |
| Keyboard (`driver/8042`, `utilities/circular_buffer.c`) | shift and caps flags, ring of characters, its lock | `ps2_intr`, `cclbuff_put`, `cclbuff_get` | a FIFO; a reader never takes what is not there, and is woken |
| Shell (`user/builtin_shell.c`) | `command[]` and its index | one loop | the index stays in the array; the end of the line fits |
| ATA driver, IRQ mode (`driver/ata/ata_irq.c`, `ata_device.c`, `ata.c`) | queue of requests, two locks, one request per task, the registers of the device | `ata_driver_rw`, `ata_irq_intr` | each request is finished once, by its own data, and its task comes back |
| ATA polling and detection (`ata_polling.c`, `ata_identify.c`) | device table | at boot | (hardware protocol) |
| Physical pages (`mem/pm.c`, `utilities/bitmap.c`, `page/`) | bitmap, next-fit position, lock, page tables | `phy_alloc_page`, `phy_release_page`, `phy_release_vpage`, `set_mapping` | a page has one owner, or the owners that fork made |
| Virtual address spaces (`mem/vm.c`, `vspace.c`, `vm_kern.c`, `metadata.c`) | chain of areas of each task, each with a list of allocations | `vir_alloc_pages`, `vir_release_pages`, `release_vspace` | allocations do not overlap; areas are ordered and hold what is allocated |
| Dynamic memory (`dyn/dynamic.c`, `mem/format_list.c`, `bucket.c`) | chains of pages cut into chunks, by size | `dyn_alloc`, `dyn_free`, `fmtlist_alloc`, `fmtlist_release` | a chunk has one owner; a page goes when its last chunk does |
| Page fault, exec (`intr/routine.c`, `fs/exec.c`) | page tables | `page_fault`, `exec` | copy on write after fork |
| Directories and inodes (`fs/dir.c`, `inodes.c`, `free.c`, `super_block.c`) | two bitmaps, inodes, directory blocks, in memory and on disk | create, find, push, remove, traverse | a block has one owner; every entry names a live inode; what is on the disk after a power cut can be mounted |
| Open files (`fs/files.c`, `fmngr.c`) | global table with counters, descriptors of each task | open, close, read, write, create, remove | a descriptor leads to the file it was opened for |
| Log cache (`utilities/cache_buff.c`, `module/log.c`) | a buffer | write, redirect, flush | the log keeps its order and stays in its buffer |
| Tables of the threads (`hoo/`) | tids, PCBs, file tables, directories | by tid | a tid in use has one owner |
| Paths (`utilities/curdir.c`, `dir_change`) | the current directory of each task | `cd`, `pwd` | it is a directory of the tree, and a `cd` is seen by the task and its parent only |
| Everything else (system call stubs, user programs, screen, format, interrupt controller, clock, GDT, boot) | little | once, or one call | |

### How they interact

A tick calls `scheduler` from the `timer` handler. The keyboard and the disk
handler call `wakeup` and with it `task_ready`. A system call may end in
`sleep(resource, lock)`, which releases the resource's lock, switches away, and
takes the lock again when it is resumed. The shell reads characters through
`files_read` and `cclbuff_get`, forks, and waits in `wait_child`; the child runs
`exec`, then `exit`, whose `wakeup` is for the parent. `hoo`, the boot thread,
loads the programs from the disk, forks the shell and calls `kill` for ever. All
calls of the file system come down to `ata_driver_rw`.

### What is hard

Ticks at every instruction of a system call; lists walked by index without a
lock while handlers change them; a check and a sleep that are two steps; locks
taken by handlers; an exit that runs on the stack of a task that no list knows
any more; the order of disk writes. `PROJECT.json` lists these hazards at their
lines, with the properties that cover them, or the reason why none does.

## 2. Modules

| Module | Models | Extends |
|---|---|---|
| `Tasks` | tasks and scheduler | |
| `Lifecycle` | abstract: the life of a task and one queue served in order | |
| `TasksProofs` | theorems about `Tasks` | `Tasks`, `DataLemmas` |
| `MCTasks` | instance | `Tasks` |
| `Keyboard` | PS/2 handler, circular buffer, readers | |
| `BoundedFifo` | abstract: a queue that refuses when full | |
| `Shell` | the shell on top of the keyboard | `Keyboard` |
| `ShellProofs` | theorems about `Keyboard` and `Shell` | `Shell` |
| `MCShell` | instance with its key map | `Shell` |
| `AtaIrq` | disk requests in IRQ mode, and the device | |
| `AtaIrqProofs` | theorems about `AtaIrq` | `AtaIrq`, `DataLemmas` |
| `MCAtaIrq` | instance | `AtaIrq` |
| `FsDir` | bitmaps, inodes, directory and file blocks, as operators | `Bitmap` |
| `FileSystem` | calls, sector writes, power cuts, boots | `FsDir` |
| `FsProofs` | theorems about `FsDir` and `FileSystem` | `FileSystem`, `DataLemmas` |
| `MCFileSystem` | instance | `FileSystem` |
| `Bitmap` | a bitmap with its next-fit scan, as operators | |
| `DataLemmas` | facts about sequences without repetition, the scan of a bitmap and loops | `Bitmap` |
| `VSpace` | the chain of areas of an address space, as operators | |
| `FmtList` | frames, metadata pages, page tables and lists of chunks, as operators | `Bitmap` |
| `Heap` | one program that allocates and frees, from `exec` to `exit` | `FmtList`, `VSpace` |
| `MCHeap` | instance | `Heap` |
| `HeapProofs` | theorems about `Heap`: types and areas | `Heap`, `DataLemmas` |
| `HeldProofs` | theorems about `Heap`: what the program holds | `HeapProofs` |
| `Curdir` | paths and the current directory, as operators | |
| `FdTable` | the global table of open files and the descriptors of a task, as operators | `Bitmap` |
| `Threads` | tids, and what fork, exec, open, cd, exit and kill do with what belongs to a tid | `Curdir`, `FdTable` |
| `ThreadsProofs` | theorems about `Threads` | `Threads`, `DataLemmas` |
| `MCThreads` | instance | `Threads` |

Definitions named `X_Something` next to a definition `X` are variants with a
plausible slip. Nothing uses them; `PROJECT.json` ("mutants") says which property
of which run fails when the variant takes the place of `X`.

### Tasks

A **frame** is a thread of code: the kernel code of a task, named by the task, or
the device interrupt handler `Isr`. `pc[f]` is its next step. The CPU is on the
stack of task `ctx`; it executes the handler when there is one, else the timer
frames on that stack (`tails[ctx]` of them have still to return), else the code of
the task (`Cpu`, `At`). `esp[t]` is the task on whose stack the stack pointer
saved in the PCB of `t` lies: `t` itself, unless something went wrong, and then
the switch that follows it sets `halt` to `"wild"` and the model stops.

Steps, by what is atomic in the code:

- a timer interrupt from its arrival to `switch_to`, with IF=0, is one step
  (`TimerTick`, `TimerIdle`, `TimerSwitch`); its return on the other side is
  `TimerReturn`. `scheduler` gives up when `__sl_tasks` is held;
- the part of `sleep` from `disable_intr` to `switch_to` is one step (`Sleep`);
  then come the last signal and `enable_intr` (`Awake`), and the clearing of
  `sleep_` (`SleepReturn`), with a tick possible between the two;
- `wakeup` goes through its loop one access at a time, both in a handler and in
  `exit`: the test of the index, `list_find`, the comparison, `list_remove`,
  `task_ready` with its wait and its signal;
- `fork`, `exit` and `kill` are cut at each lock, unlock and access of a list.

One call of a list or queue function is one step. The functions are a few
statements on a linked list; what a tick inside them can do is listed as a hazard
(`tasks.c:391`) and not modelled. `Reschedule` takes the `sleep_` fields as a
parameter because `sleep` writes the field in the same step before it calls
`scheduler`.

Not in `Tasks`: the page tables, stacks and tables that `fork` fills and `exit` and
`kill` free, and the second life of a tid and its PCB, which are in `Threads` (in `Tasks` a task that
is `dead` is not forked again);
the lock of the resource in `sleep`, which is in `Keyboard` and `AtaIrq`.

### Keyboard and Shell

`ps2_intr` runs with IF=0 and is one step: a shift key, caps lock, or a key with a
character, chosen by `result` from the flags and the key map. `cclbuff_get` is cut at
each test, lock and access (`Check`, `Wait`, `Sleep`, `Resume`, `Signal`, `Read`,
`Advance`), so a key falls between any two. A reader that is woken may be sent to
sleep once more by a tick before `sleep_` is cleared (`SleepAgain`): that is what
`Tasks` does between `Awake` and `SleepReturn`. Keys that find the buffer full are
refused, which changes nothing.

`Shell` extends it with `main_shell`: characters, backspace, enter, the line that is
too long, the child. A character is printable, backspace, newline or something else;
nothing more of it matters. The parsing and printing are left out.

### AtaIrq

A task goes through `ata_driver_rw` and `ata_irq_rw` one lock or port access at a
time, save that the registers before the command register are one step. A task
stands for its request, its queue node (`__mdata_node + tid`) and the sector it
asks for, so that data in the wrong buffer shows as `data[t] # t`. `atabuff[t]` is the
request: the command, the number of sectors, and whether the buffer is the kernel's or at an
address of the task's own, as `temp_buf` of `files_read` and the program that `exec` loads are.
A read is of one sector; only the map of the blocks is longer, and it is read while hoo still polls.

The device is external: it ignores registers and commands while it is busy, starts a read at the
command and a write when it has got its data, and does one sector at a time. `SectorCount` is the
truncation of the number of sectors to the `uint8_t` of `ata_set_cmd`. After each sector the device raises its
interrupt line, which a command and each look at the status lower; the interrupt controller takes edges, so a
sector that is done while the line is high interrupts nobody (`SectorUnseen`). `ata_irq_intr` runs with IF=0
and is one step; if the interrupted task holds `__slqueue`, the handler spins for ever (`stuck`). It takes the first
interrupt of a request for its end. Its parameter `cpu` is the task that it interrupts, through whose page directory
`insw` writes: if that is another than the reader, and the reader's buffer is not the kernel's, the data goes into
the memory of `cpu` (`astray`).

### FsDir and FileSystem

Each function of the file system is an operator from a state `s` to the next, with the
same calls in the same order as in C. `s.mem` is what the kernel holds in memory (both
bitmaps with their next-fit positions, the inodes), `s.disk` is what the sectors hold,
and `s.todo` lists the sector writes of the call, in order. A panic is final: after it, an
operator changes nothing. A bitmap is the set of its bits. That of the blocks has `MAP_SECTORS` sectors on the disk,
each with the bits of its own blocks (`MapBits`), of which `free_map_update` writes `MAP_SENT`: in hoo 3 of 259, since the
number goes through the `uint8_t` of `ata_set_cmd` (`ata_device.c:94`). A format writes them all: it polls, and
`ata_polling.c:30` asks for one sector at a time. A directory block is a function from slots to entries; a file's block holds `Data(i)`
once it is written to the file of inode `i`.

One task at a time is in the file system: hoo during boot, then the shell, or the child
it waits for. So a call of `FileSystem` (`CallCreate`, `CallRemove`, `CallWrite`, and `CallLoad`, by which
hoo puts a program on the disk) takes effect in memory in one step and leaves its writes in `todo`;
`CallList` and `CallRead` change nothing unless they end in a panic; `DiskWrite` makes them one
at a time, and `PowerCut` may come before each of them. Then a boot finds either no magic
number and formats (`BootNew`), or mounts what is there (`BootOld`).

The path of a call is a sequence of names (`PathName`), with `"."` and `".."` among them, and is followed as
`diritem_find` follows it: through the items of those names that each directory has, and through files as well, whose data is
searched as if it were items, since nobody asks for the type (`Descend`). Programs pass every path on to the kernel, so
`touch f; touch f/x`, `rm .` and `rm ..` are calls of the model, with all they change. The first makes f a file with
an item in its block; the others free the directory one is in, or its parent with everything below it, the root included. `torn`
keeps the first thing that the tree has suffered, since nobody promises anything after it: `"file"`, a call that used what it found
through a file; `"dots"`, a removal of `.` or `..`; `"root"` or `"tree"`, a boot from a disk that is not consistent.
The properties speak of the states before, so they show that nothing else harms the tree.

A cut can tear a disk in these ways: a format of which the magic number, the first
write, is there and the root is not (`torn` = `"root"`); a block that belongs to a file and
is not marked used, because `files_create` does not save the map and `files_write` saves it
last (`"tree"`); a directory that has been given a second block which still holds what it
held before (`dir.c:349`; `"tree"`, because a removal walks a directory's blocks without looking at its
size); a tree with a block behind those whose bits the device is sent: every mount, after a cut or not, finds it
free (`"tree"`). The third one counts whatever the block held: other items, which the removal would take for the
directory's own, or the data of a removed file, at which it ends in the panic of `dir.c:152`. The latter needs
six calls (a file is written and removed, its block goes to a directory, the power is cut, the directory is
removed); TLC found it outside the bounds of the runs, and `FsConsistent` therefore asks that the blocks
of directories hold items. A lost block that nobody owns is not torn.

A removal makes a hole and takes one off the size, so the next item may go over one that stays, behind the
size: its inode stays in use without a name (`Lost`), and the directory is longer by one than what it holds (`Excess`).
`Counted`, the last part of `FsConsistent`, says that all directories together are longer by no more than the number of inodes lost in
this way.

`iblock_get` and `iblock_set` follow an inode's direct entries, the index block of level 1 and those of
level 2. Index blocks are read from and written to the disk at once, and the inode that names a new one
goes to the disk before it (`WithIndex`). After a cut between these two writes the code would read
what the sector held before; the model reads an empty index there, on a disk that is torn already. A directory never has an
index block: by `Counted`, its size is at most that of `MAX_INODES` items, for which its direct entries have
room (`FsAssumption`: 65 < 126 in the source).
If its size pointed behind the last block an inode can name, the next create would end in the panic of `iblock_handle`
(`halt` = `"index"`, `inodes.c:127-129`); `NoBadBlock` says that none does. `NameAssumption` keeps the names that `Name` has apart from
`"."` and `".."`, which `PathName` has too, and from `""`, which is no component of a path. The `".."` of the root
names inode -1, at which `iblock_handle` panics (`halt` = `"inode"`).
`BYTES_SECTOR`, the number of entries of an index and the number of direct blocks are independent
constants, so that small files reach all levels.

Not in them: descriptors, the bytes that are read, and what the bytes that a program wrote would look like when they are searched for
items (no name of a path is among them).
`diritem_remove_sub` releases as it walks; its reads are checked against the map
as it was when the call began.

### Bitmap, VSpace, FmtList and Heap

`Bitmap` has the scan that tids, frames, metadata pages, descriptors, inodes and blocks
share: it starts where the last one ended and wraps round.

`FmtList` is a state `m` of the kernel's memory and an operator for each function of `pm.c`,
`vm_kern.c`, `metadata.c` and `format_list.c`. `m.lists[l]` is the chain of pages that are cut
into chunks, for the three lists of metadata (areas, nodes, addresses) and for each bucket
of the program; a page has the sequence of its free chunks, the next one first. `m.pte` and
`m.pde` are what the page tables and the directory name. Addresses are pages, so that a
page and a frame are numbers and a chunk is a page and an index.

`VSpace` is the chain behind `vmngr_`, whose head has no nodes of its own and is left out. Its
two big functions are there with all their cases: the unsigned difference of
addresses when an area lies below where the walk has come (`Wrap`), the area that is
extended, the chain that one new area replaces (`DropsRest`), a release at the front,
at the back, of the only node, and from the middle, which splits the area. Where the code
reads through a null pointer (`vspace_append` with no next area), what it reads is page 0 of the program,
and the model lets it be any value of `Junk`.

`Heap` is one program: `exec`, `dyn_alloc` and `dyn_free` of chunks and of pages, in any order, and
`exit`. It starts in a task that has no page table below the kernel, as the one that hoo forks, or one that `fork` has made for it,
whose frame `exec` writes over in the page directory and nobody gives back (`Forked`, `Loaded`, `Abandoned`; `exec.c:68-71`): each
program that a program forks costs one. A parent that has more than one table is not followed. A released page
leaves its entry in the table (`pm.c:69-73`), and `exit` gives the frame of every entry back, a second time if it was released
before (`Stale`). Each call is one step, with everything it changes: the area, its metadata, the
frames, the page tables. `held` is a ghost, what the program has got and not given back.
The program frees what it holds, once. `harm` remembers the four things that the code does wrong
and which later calls suffer from: an area dropped from the chain, an end read at the null
pointer, a bucket whose pages are lost because `dyn_free` looks at the head of the list only and
sets `chain_` to null, and a frame of the kernel that `exit` has given back through a stale entry. `vir_release_pages`
releases a node and then the address that the node names: `node_release` clears the node, so that this does nothing, unless the
list of the nodes has forgotten the page it is in (`Forgotten`, `format_list.c:126`; `ReleaseMeta`). The properties say what still holds after each of them. When two of the
program's allocations overlap, the model stops.

Bounds and omissions: requests of less than what lies above the space, which is 2 GB (a larger one wraps in
the comparison with `MAX_END`, `vm.c:63`); one caller (`fork` allocates in hoo's chain without a lock,
`tasks.c:258`); the chain that a child starts with, which still names its parent's areas;
locks of metadata and frames, taken as one step with what they protect.

### Curdir, FdTable and Threads

`Curdir`: a path is the sequence of its components, and the directories are a tree: with a path, those above it
are directories (`CurdirAssumption`); it does not change while the programs run. `dir_change` has its five forms of operand and
its three results; -3 (a path that does not fit) is out of reach, since the buffer is larger than any
path that `curdir_set` keeps. Changing a directory sets the parent's too, which is how `cd`, a
program of its own, changes the directory of the shell.

`FdTable`: `fd_global_alloc` finds the first slot whose counter is 0 and `files_open` raises it
later; the descriptor comes from a scan that never marks what it finds. `fmngr_init`, which `exit`
calls, leaves a bitmap of length 0.

`Threads` is what belongs to a tid. `task[t]` joins the PCB and the tables
indexed by `t`; the shell and its children fork, write to a shared page (`page_fault`), open, execute,
close, change directory and exit, and hoo kills. It is cut where
other tasks run and matter: `files_open` between the search and the increment
(`OpenFind`, `OpenTake`), `exec` between its open and its new page table (`Load`), `exit` after
`thread_tid_release` (`ExitClear`, `ExitLeave`), and between `exit` and `kill`. Each of `kill`'s passes takes every
other expired task. The tids are given by a next-fit scan, so a tid is given again while
others are in their first life.

The PCB of a tid belongs to nobody between `thread_tid_release` and `kill`, and a page of a program
stands for all. `opened`, `unused`, `orphans` and `halt` are ghosts: what a descriptor was opened for, the
tids that have been free ever since a tid was given, the tids whose task has been left by the one that forked it, and why the model is not followed
further: a panic, a PCB taken over (`stolen`), two tasks in one slot (`raced`), a
descriptor given twice (`wrapped`), frames of the parent freed by a child that exits without
`exec` (`freed`, what happens after "command not found"). What the properties say, they say of all
states before.

Programs close what they have opened, a program waits for its children before it exits, and
the shell does not exit: that is what the programs of `src/user` do.

## 3. Runs

| Run | Instance | States | Checks |
|---|---|---|---|
| `tasks_safety` | hoo, shell, child; one device; `TIMETICKS` 1; two timer frames per stack | 79 096 | types, `LockOwner`, `OnePlace`, `CurrentRuns`, `ExitNeverReturns`, `SleepersSleep`, `StackIsOwn`, `LockStaysWithSwitch`, refinement of `Lifecycle` |
| `tasks_fair` | the same without a device, with fairness | 11 460 | `ReadyRuns`, `ExpiredReaped` |
| `tasks_exit` | the same without a device | - | violation of `ExpiredNotResumed` |
| `tasks_wait` | the same without a device | - | violation of `WaitHasChild` |
| `shell_keys` | one shell, 4 keys, ring of 3 slots, lines of 1 character, with fairness | 70 536 | types, `SlockOwner`, `TakesOldest`, refinement of `BoundedFifo`, `ReaderServed` |
| `ata_irq` | two tasks, reads of one sector and writes of 1 and 5, a sector count of 3 values, with fairness | 734 831 | types, `QueuedUntilFinished`, `AtaLockOwners`, `SoloOwnSector`, `SoloServed` |
| `fs_crash` | 4 inodes with 3 direct blocks, 12 blocks, a map of 3 sectors of which 1 is sent, 2 entries per directory block and per index, sectors of 2, files of 1 and 10, 2 names and the dots, 2 levels; 4 calls, 1 power cut; trees that have suffered nothing | 43 142 | types, `TreeOwnsBlocks`, `DirsSurvive`, `Saved`, `DataKept`, `NoBadBlock` |
| `fs_remove` | the same, 5 calls, no power cut | - | violation of `RemovesOne` |
| `heap` | 16 frames, 24 metadata pages, 8 pages per table, 2 chunks per page, one bucket, pages of 1 and 2, 7 calls | 42 873 | types, `AreasInOrder`, `HeldApart`, `FreesFound`, `ChunksOwned`, `FramesExact`, `ExitFreesAll` |
| `heap_overlap` | the same | - | violation of `PagesWereFree` |
| `threads` | 4 tids, 5 frames, 5 descriptors, 3 slots of open files, a tree of two directories and a file, 4 calls | 194 339 | types, `OwnFile`, `FramesBacked`, `OneWriter`, `ReusedLast`, `CwdOfKin` |
| `fork_cow` | the same | - | violation of `SharedReadOnly` |

**Why the bounds are enough.** Three tasks are hoo, a parent and a child, the
smallest set with a reaper, a sleeper and somebody who exits; with them the ready
queue holds two, a wakeup walks a list of several entries, and a task is expired while
another exits. A slice of 1 has both a tick that counts down and one that switches; 16
only repeats the first. A stack holds two timer
frames when a task is resumed by the `switch_to` of an exit, which leaves IF set, and
a tick comes before its old frame has returned; `MaxNest` = 2 allows that, and a
larger value gives the same states. A ring of three slots is empty, holds one, is full, and wraps round. A line of one
character has an empty line, a full one and one that is too long. Two tasks are enough
for a queue with a head and another request, and for both orders at the device; a write of 5 sectors comes out as one of 2,
so that the device interrupts again when its task may have returned. Two entries per block make
the first new name of a directory need a second block, and the second name go into it;
four calls fill a directory, empty it and fill it again, or build a
subdirectory with a file and remove it; size 1 stays in the file's first block, and size 10, a multiple of the
sector, needs six blocks: three direct ones, both entries of level 1 and the first of level 2, with three index
blocks. Four inodes and twelve blocks run out, for two long files do not fit, and are found again by a scan that
wraps round. The two names are symmetric in `fs_crash`: nothing distinguishes them.
Of the twelve blocks only the first four are in the sector of the map that the device is sent, so trees reach behind it. The constraint `Sound`
ends a behaviour where `torn` is set: all properties are about the states before. One cut falls
between any two writes of any of the calls, the format included.

In `heap`, two chunks fill a page, so a third needs a second page and a release empties one;
seven calls are enough to split an area, to allocate before it, and to lose the pages of a
bucket; one bucket is like another, save for its size. In `threads`, hoo, the shell and two
children use all four tids, so the scan comes round to a tid that has been given back while
its PCB still waits for `kill`; a third slot and two descriptors besides the standard ones are
enough for both to run out and wrap round; five frames run out too. The four calls that are
counted are forks, opens, execs and cds; faults, closes and exits are bounded by them. The
theorems of section 5 remove these bounds for what they state.

**Deadlock** is checked in `shell_keys`. It is not in the other
runs, where the system really stops: after a panic, when every task
sleeps and no device is there, and when a handler spins on a lock with IF=0; and in those
of `FileSystem`, `Heap` and `Threads` when the calls are used up.

**Violations.** Five runs show that the code does not do what it says of itself; the
`findings` of `PROJECT.json` quote the lines.

- `tasks_exit`: `exit` calls `scheduler` with interrupts enabled. A tick between the
  signal at `tasks.c:191` and the `switch_to` at 194 finds the next task current and
  stores the stack pointer of the exiting one in its PCB.
- `tasks_wait`: `wait_child` does not look whether the child has already ended, so
  its wakeup can come before the sleep.
- `fs_remove`: a removal leaves a hole where the entry was and takes one from the
  directory's size, so the last entry is no longer found, and the next create overwrites it.
- `heap_overlap`: `vir_alloc_pages` with a gap in front of the first area makes a new area
  and hangs it behind the head as the only one. Later allocations are given addresses that the
  program still has in use.
- `fork_cow`: `fork` takes the write permission away in the page table that the child is given, not in that
  of the parent. The parent writes to the shared page without a fault, and the child sees it.

More faults are visible in the models without a run of their own. A line of exactly `MAX_CMD_LEN`
characters is accepted and its end is written behind `command[]` (`builtin_shell.c:53`). A task
enters the queue of the disk before it gives its command to the device, so that a tick between the two makes the
head another request than the one that is served (`ata_irq.c:74`; the premise `Solo` of
`SoloOwnSector` is there for it). A write of several sectors is finished by the interrupt of its first, and the next request meets a
device that is busy with the others (the second part of `Solo`). What a task reads into its own memory goes into that of the task which the
interrupt finds on the CPU (`ata_irq.c:43`; `astray`). Of the map of the blocks 3 sectors in 259 are ever saved (`ata_device.c:94`): a
block that lies behind their bits is free again after the next boot (`Sent` in `Saved` and `DirsSurvive`). `touch f; touch f/x` and
`rm ..` are carried out (`torn`). Each program that a program forks costs a frame (`exec.c:71`; `Abandoned`). A new file's inode names a block that the map on the disk calls
free until a `mkdir` or a write saves the map (`dir.c:321`; `Saved` names it).
The removal of a long file frees its data blocks and leaves its index blocks marked for ever (`dir.c:132`;
nobody owns them, which `TreeOwnsBlocks` allows). hoo writes a program only when its file is new, so a power
cut between the two leaves it empty at every later boot (`builtins.c:38`).

What the passing runs say about the same places: `StackIsOwn` shows that the window
in `exit` is the only one that leaves a foreign stack in a PCB; `SoloOwnSector` and
`SoloServed` show that the disk path is right when requests do not overlap, the device is done when one begins,
and no reader's own memory is swapped out for another's; `SoloServed` names the one wakeup that can
still be missed. `DirsSurvive` shows that a power cut after a touch can cost a file its block, but no directory in the front of the disk;
`Saved` says that this block, and the bits of the map that are never sent, are the only things between calls that are in memory and not on
the disk. `TreeOwnsBlocks` and `NoBadBlock` show that paths may go up and down as they like: only the end of a removal's path and what lies
below a file matter. `HeldApart` shows that the drop of areas is the only way to two allocations that overlap;
`FramesExact` and `ExitFreesAll`, that frames have one owner and that `exit` gives them all back but the one that `exec` has abandoned, the lost
pages of a bucket included, and what a stale entry can cost, with 16 frames and 24 pages of metadata. This order matters: with 4 pages of metadata both are
violated. `vir_release_kern` clears the page and leaves its frame; when the scan of the bitmap has come round and the page is
given out and mapped again, the old frame is lost. The scan cannot come round while there are more pages of metadata than frames,
as in the machine of `bochsrc:1`: 8192 frames, and some 64 000 pages of metadata (`vm_kern.h:9-12`). `ReusedLast` shows how far the early `thread_tid_release` is harmless: a tid
is given again only after all those that were free when it was given. For a program that ends soon these are nearly all; a task that
has lived while the scan came round may find its tid given again at once, though others are free. The safety of `exit` rests
on the position of that scan: with a scan from the first bit it fails.
`FramesBacked` shows that stacks are not freed before `kill` and pages not before `exit`. `OneWriter` shows what is left
of copy on write: a child never changes what its parent sees. `CwdOfKin` shows that the task whose directory a `cd` changes besides that of its
caller is still the one that forked the caller, not another that has got its tid since: the ghost `orphans` tells them apart, and the property fails
when a program leaves before its children.

## 4. Fairness

- `Tasks`: weak fairness of `CpuStep`, since a CPU that can execute does. Strong
  fairness of `Timer`: the clock ticks for ever, and ticks are not always in the few
  instructions between a wait and a signal of `__sl_tasks`, where they are ignored.
  Strong fairness for each task of its own next step, and of the return from its last
  timer frame: a slice of 16 ticks is long enough to leave the handler and for some
  instruction of the task that has it. (Without the word "last", a task that is resumed
  with two frames could be preempted for ever between their two returns.) Nothing is assumed of devices, of what programs call, or of a handler.
- `Keyboard`: weak fairness of each reader's next step; strong fairness of `Resume`:
  ticks do not always hit the two instructions between `enable_intr` and the clearing
  of `sleep_`. Nothing is assumed of the keyboard; `ReaderServed` has "keys keep coming
  in" as its premise.
- `AtaIrq`: the same, and weak fairness of the device: what is begun gets done.

## 5. Proofs

All are for any values of the constants that satisfy the modules' assumptions: sets of
tasks, readers and keys of any size, any slice, any capacity of the ring of at least 2.

**TasksProofs.** `SafeInvariant` proves `Safe == TypeOK /\ LockOwner` inductive.
Neither half is inductive alone: that a frame dereferences only a node it has
(`NodeLoaded`) needs that `Current` exists where `exit` and `fork` read it, and that
the lock's owner is on the CPU needs the types. One lemma per group of actions
carries each conjunct over a step. From it follow `TypeCorrect`, `LockOwnerInvariant` and
the action property `SwitchWithFreeLock`: the CPU never changes stacks inside a
section of `__sl_tasks`, which is why `scheduler` may skip a tick rather than wait, and
why the second signal at `tasks.c:197` is harmless.

`OrderlyInvariant` proves `Orderly` inductive, and five of the checked invariants follow from it:
`OnePlace`, `CurrentRuns`, `StackIsOwn`, `ExitNeverReturns`, `SleepersSleep`. None is inductive without the
others. That a node pushed on the ready queue is in no other place (`OnePlace`) needs `CurrentRuns`, since `sleep` and
`exit` take the head of the running queue for the caller. `CurrentRuns` needs `OnePlace` (the task that is switched to is
not the one on the CPU) and `StackIsOwn` (the CPU comes to the stack of the task whose PCB was taken).
That `exit` finds a ready task needs `HooAwake`: hoo sleeps only while no other task is born. And
`EndedExpire` says that a task whose code has ended is in the expired list or in `kill`'s hand, so that no wakeup and no
fork can meet it. The step lemmas go through `Moves`, eight things that a step can do to the lists (a turn of the
scheduler, a wake, a push, a birth, an end, a reap, a burial, or nothing); each action is shown to be
one of them, and each conjunct is then carried over the eight.

`ImplementsLifecycle` is the refinement of `Lifecycle`: with `OnePlace`, the stage of a task (`StageOf`) is
determined by where it is, and each of the eight moves is a step of the abstract task or a stutter.

**ShellProofs.** `KTypeCorrect` and `KSlockOwner` hold for any number
of readers. With one reader, `OldestInv` is inductive: between the test and the
advance the ring is not empty, and `ch` is what `tail_` points at; `OneReaderTakesOldest`
follows, and with the arithmetic of wrapping indexes `OneReaderFifo`: the ring implements
`BoundedFifo`. Each step of `ps2_intr` puts at the end or changes nothing, `Advance` takes
the head, all else is a stutter. With two readers it is false, which is why the
assumption is there. `ShellUsesKeyboard` proves that the shell's specification implies
the keyboard's, so `ShellReadsFifo` holds without a second proof; `ShellTypeCorrect` bounds
the index of `command[]`.

**AtaIrqProofs.** `AtaTypeCorrect`, `AtaLocks` and `AtaQueued`, for any number of tasks.
`QueuedInv` adds to `QueuedUntilFinished` that a task before `queue_push` is not finished
and not queued; the step of the handler rests on `DataLemmas` (what leaves a queue
without repetitions is in it no more).

**DataLemmas, FsProofs.** `ScanFindsNearest`: for a map of any length with a clear bit, the next-fit
scan returns a clear bit, and the nearest from its start round the end of the map. The scan
is a `CHOOSE` of the least distance; that there is one comes from the well-foundedness of
the natural numbers. `BlockIsFresh` and `InodeIsFresh` follow: an allocation never
hands out what is in use.

The rest of `FsProofs` is about `FileSystem`: `FsInvHolds` proves `FsInv` inductive, for trees of any depth, disks of any size and
calls in any order with power cuts between any two sector writes. `FsTypes`, `TreeOwns`, `NeverBadBlock` and `DiskSaved`, the theorems
for `FsTypeOK`, `TreeOwnsBlocks`, `NoBadBlock` and `Saved`, follow from it. All are about runs up to the first boot that finds a disk
which is not consistent, the first path through a file and the first removal of `.` or `..` (`torn` = `"no"`): what these do is in the
model, and why the tree does not survive it, in section 2.

- `FsInv` says of a running system that `todo`, once written, makes a disk that is consistent with memory (`Settling`). The disk
  in between is not: `TreeOwnsBlocks` speaks of it between calls only and is not inductive, since nothing in it says what
  `DiskWrite` has still to write. Each operator of `FsDir` is shown to append to `todo` what it writes to its own view of the disk
  (`Follows`), so that a call settles to the state the operator returns.
- `FsConsistent` is more than that blocks have one owner. Without `Packed` (no block behind a gap) the next block
  of a file could bring back blocks that others have by then; without `DirSized` a search would ask for a block that is not there, and
  without `FileSized` so would `files_read`; without `HoldsItems` a removal would meet data where items should be (`dir.c:152`).
  `NamedOnce` says that a directory has a name once. `Counted` bounds the length of a directory by the number of inodes: a single
  directory may be longer than it has items, and only the sum over all of them is paid for by the inodes lost. The proofs count with
  maps from pairs of directory and index to such pairs (`MovesInto`): a push over a hole moves those of its directory up by one,
  a removal down, and a push over an item adds one and loses an inode.
- `SavedIn` is the other half of `Settling`: the inodes and the maps on the disk are those of memory, save the first block of each
  file that has size 0 and the bits of the map that the device is not sent. Every operator changes one inode at most and leaves the rest of the tables alone, on the disk as in
  memory (`Quiet`); who changes an inode also stores it, and the map of the blocks if it has changed (`Stored`). This is true because
  no push needs an index block, which `iblock_set` takes without a save of the map (`PushDirect`, from `DirsShort`).
- A tree is defined by levels. No proof needs induction over it: `Closed` and `Supported` say what a set of places must satisfy
  to be the tree (each directory's items are in it, and each place is in a directory that is), and the number of levels is bounded by
  that of the inodes (`Levels`, `GrowsBy`), of which no two items share one. So every operation is shown to
  turn a `Whole` tree into a `Whole` tree: a push adds one place, a removal takes away a subtree, a write leaves the places
  and rewrites blocks (`Rewrites`, `Extended`). The recursion of `diritem_remove_sub` is treated in the same way (`SubDeeper`, `SubLevels`).
- Paths: an item that a search ends in is the root, an item of the tree or a dot of one of its directories, and a dot names a directory of
  the tree (`HoldsItems`, `HasParent`), for which a create or a write is as good as for any other. What a path through a file would find does
  not matter, since such a call is the last.
- `World` is the part of consistency that concerns inodes alone: each has blocks of its own, all in use. It holds of any set
  of inodes, and therefore also while a file that the tree does not have yet is being made.
- `iblock_get` and `iblock_set` are proved once for direct entries and both levels of index blocks (`Linked`): a new block becomes
  the next of its file and no other block of any file changes.

**ThreadsProofs.** `TablesInvariant` proves `IInv` inductive, for any number of tids, frames, slots and descriptors and
any tree of directories; TLC has checked it on the instance of `threads`. The five checked
invariants follow, and `CwdOfKinHolds`, an action property. What had to be added to them:

- `Conduct` and `ParentRuns`: a task that runs is in a directory of the tree, its parent runs. The PCB of
  a parent that has left could be another task's.
- `NoOrphans`, for `CwdOfKinHolds`: no task runs that the one which forked it has left. A task whose tid the caller of a `cd` has
  for its parent is therefore that one (`OnlyKinMove`).
- `Listed` and `Mapped`: the expired list holds each expired task once, so that `kill` releases a
  stack once; who has no page or no stack is told from the state of the task.
- `Heirs`: whoever can write to a shared frame shares it with none that runs but its own descendants. `OneWriter`
  says this of children only and is not inductive: the writer's grandchild has the frame too, and becomes its
  neighbour when the child between them executes another program. The set of descendants is written without recursion, as
  what every set closed under children has to contain.
- `Nearer`: a tid that has been free ever since another was given is nearer to the scan than that one. `ReusedLast` follows
  since the scan takes the nearest clear bit (`ScanFindsNearest`).

**HeapProofs.** `HeapInvHolds` proves `HeapInv` inductive, for any number of frames, any sizes of the metadata, the page
tables, the chunks and the space, and any request that `HeapAssumption` allows. From it follow `AreasStayInOrder` and
`HeapTyped`. The argument has two layers. `AllocKeeps` and `ReleaseKeeps` are about `VSpace` alone: for any chain
that is in order, `vir_alloc_pages` and `vir_release_pages` leave one that is, and what it holds is what it held, with the
node that was asked for or without the one that was released. `ReleaseKeeps` is one case for each way of
releasing: the only node of an area, the highest, the lowest, one in the middle, for which the area is split. It needs
that `HasGap` compares addresses modulo 2^32 and that no end of an area exceeds `MAX_END`, so that no sum wraps.
Then one lemma per function of `FmtList` and `Heap` carries the types through it field by field.
`AreasInOrder` is inductive only together with the types, and only while no area has been dropped (`harm`). The loops
of `MapPages`, `FlattenSeq` and `release_vspace` are recursive functions: `RecursionExists` proves that such a function
exists for every number of rounds, and `UpTo` carries a fact from one round to the next.

**HeldProofs.** `HeldInvHolds` proves `HeldInv` inductive, and `HeldStaysApart` follows: what `dyn_alloc` has given and the
program has not freed does not overlap, for any sizes and any order of calls. `HeldApart` alone is far from
inductive: whether a chunk that is given out is nobody's depends on every list it could come from. `Owned` says what is needed:

- a page below the metadata that a bucket has, or in which a chunk is held, is a node of one page in the chain, and a range
  that is held is a node too; nodes do not overlap (`SpotsIs`, from `AreasInOrder`), so neither do these;
- the pages of the three lists of the kernel, of the buckets and of held chunks are given out in the bitmap of the
  metadata, and no page is in two lists (`MetaApart`, `BucketsApart`): a page that `vir_alloc_kern` finds clear is nobody's;
- a held chunk is not on a free list, and a free list has no chunk twice. So a page whose free list is as long as the page
  has chunks is held by nobody (`FullPage`), which is why it may be given back; `FitsIs` of `DataLemmas` is the counting;
- between calls the first page of a bucket is never all free (`HeadUsed`). `dyn_free` tests the head of the list and releases
  the page of the pointer: without this it could release a page other than the one that is all free.

For a chunk that is freed from a page behind the head, `fmtlist_release` drops the whole list, held chunks of other pages with
it. That loses memory (`harm` has `lost`) but gives nothing out twice, since the pages stay marked; the theorem covers
these states. One lemma per function (`RoomOwned`, `TakeOwned`, `FirstPageOwned`, `PagesOwned`, `ReleasedOwned`, `GaveOwned`,
`EmptiedOwned`) carries `Owned` over it; the calls are composed of them. The assumption that no bucket is named like a list of
the kernel (`FmtAssumption`) is what tells the two kinds of lists apart; in the code they are different variables.

`FreesAreFound` proves `FreesFound` from the same invariant: no `dyn_free` of something held is refused while `harm` is empty.
The functions of the memory may run out of it but refuse nothing that was right (`Obeys`, one lemma per function), and an area
with the node of a held range is found and its node taken out (`FoundAgain`). A freed chunk either finds its page at the head of
its bucket's list, where `HeadUsed` makes the head that `dyn_free` tests the page of the pointer, a node of the chain by
`Owned`; or its page lay behind the head, and then dropping the list has put `lost` in `harm` (`FreeChunkFound`).

`FramesStayExact` and `ExitFreesFrames` prove `FramesExact` and `ExitFreesAll` for any sizes with
`FRAMES <= SIZE_BITMAP_VIRMM` (section 3 says why that is needed, and why it is so). The invariant `FramesInv` states `FramesExact` of the
state as a record, in every state that a function leaves (`FramesKept`), with two additions:

- frames to spare (`Exact`): between `phy_alloc_page` and `set_mapping` the new frame belongs to no page, and
  `set_mapping` may take another one for a page table in between;
- the scan of the metadata is in its first round (`FirstRound`): the pages of metadata that are mapped are those behind the
  position of the scan. So a page that `vir_alloc_kern` finds has never been mapped, and its mapping covers no frame.

That the round goes on is counting (`RoundGoesOn`): page 0 and each page behind the position have a frame of their own, and
`phy_alloc_page`, which comes before `vir_alloc_kern`, has just found one more, so the position is less than the number of frames. With
these two, one lemma per function says what frames it takes and gives back (`MappedFrames`, `GrownFrames`, `RowFrames`,
`FreedFrames`), and `AllocKeeps` and `ReleaseKeeps` give the pages (`PagesAdded`, `PagesRemoved`). `exit` removes the frame of every page
below the metadata, so what is left has to be the kernel's (`ExitKept`), with the table that `exec` has abandoned; that all of these are left needs
that no entry of a released page names one of them (`Stale`).

`ChunksStayOwned` proves that `ChunksOwned` holds as long as the chain is whole, for any sizes. What it says of the program's chunks
follows from `Owned`. What it says of the kernel's own, that no area and no node is made of a chunk that is free or that another
is made of, needs `MetaInv`: whoever releases a node puts its chunk on a free list, so each chunk in use must be in use once, or
the other user would have a free one.

- `MetaHeld` says of the lists of the kernel what `BucketsApart` says of the buckets: no page is in a list twice and no chunk is
  free twice. A chunk in use is in a page that is given out and no bucket's, and only its own list may have the page (`Out`).
- `OwnMeta` says that no two areas and no two nodes are made of the same. A node is found by its address, so this needs that
  a node is in one place (`NodeOnce`, from `AreasInOrder`), and that the areas that `Split` makes are not made of the same (`SplitMetas`).
- `fmtlist_release` drops the whole list, chunks in use with it, when the last chunk of a page is released. That page goes back,
  the others stay given out though no list has them: hence `Out` asks for the page to be in no *other* list, not to be in its own.

A `vaddr_t` that is never released is in use by nobody; the one that is released when the page of its node is forgotten
(`ReleaseMeta`) was in use by that node alone, which is no longer in the chain (`OwnMeta`). So the chunks in use only become fewer (`FewerHeld`).
What the buckets do leaves the kernel's lists alone (`KeepsOthers`): that the two have no page in common is `MetaApart` again.

**Only model-checked:**

- `DirsSurvive` and `DataKept`. `DirsSurvive` is about the disk between two sector writes, of which `FsInv` only says what it will
  become. `DataKept` needs the contents of blocks, of which `FsInv` only knows the items of directories; that the blocks are there is
  `FileSized`, a part of `TreeOwnsBlocks` and proved;
- all liveness (`ReadyRuns`, `ExpiredReaped`, `ReaderServed`, `SoloServed`), which needs ENABLED, and `SoloOwnSector`, whose
  premise is temporal.

## 6. Plan

Done: tasks, keyboard with shell, disk requests, file system, memory of a program, tids with
their tables and descriptors; the proofs about all of them. What is left are the proofs of `DirsSurvive` and `DataKept`:
from `DiskSaved` on, each call's writes can be followed one at a time, with a lemma for each prefix of them.

## 7. Not modelled, and why

- **Boot, descriptor tables, interrupt controller, clock, polling and device detection**: run once,
  alone, with interrupts disabled; sequences of port accesses whose other side is hardware.
- **Screen, `format`, `panic` and the log**: output. The log cache is written to at boot only and for far
  less than it holds, so its full buffer and its flush are not reached.
- **System call stubs and user programs**: each program is one call of the kernel, which is
  modelled, and so is how hoo puts the programs on the disk; string functions have no state.
- **The bytes of paths**: buffers of `exec` (static, shared by tasks that execute at once, `exec.c:19`) and of
  `files_create` are larger than the names that the programs use.
- **Two tasks in the file system at once** (`dir.c:354`): the shell waits for its child.
- **Below a step**: the compiler's treatment of plain variables shared with handlers, the statements inside
  a list function (`tasks.c:391`), the lock of the frames (`routine.c:86`), two callers of hoo's address
  space (`tasks.c:258`), and the contents of page tables, whose frames are not zeroed before use.

Hazards that this leaves out are in `PROJECT.json` with a note.
