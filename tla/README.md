# TLA+ models of the xv6 kernel of TDT4186 Lab 3

The program of this repository is the operating system under
`TDT4186 - OS/Labs/Lab3`: xv6 for RISC-V with the lab's changes, of which
copy-on-write `fork()` with reference-counted pages and a count of free pages
are the largest. Everything else in the repository is lecture notes, pictures
and an editor plug-in. File names below are relative to `Lab3/kernel` unless
they say otherwise.

## 1. Inventory

| Component | State | Operations | What is hard | Correct when |
|---|---|---|---|---|
| Page allocator (`kalloc.c`) | free list, `refcounts[]`, `FREE_PAGES`, `MAX_PAGES` | `kinit`, `kalloc`, `kfree`, `kref_inc`, `kref_dec` | two locks, a counter updated outside both, a free that follows the decrement outside the lock | a page has one owner, exact counts, none lost |
| User memory (`vm.c`, `trap.c`, `exec.c`, `proc.c`) | page tables, PTE bits, physical pages, `p->sz` | `uvmcopy`, `uvmunmap`, `uvmalloc`, `uvmdealloc`, the store fault, `copyout`; `fork`, `exec`, `sbrk`, `exit`, `wait` | pages shared by processes on several CPUs, loops that can fail at any page | every process has private memory |
| Processes (`proc.c`, `trap.c`) | process table, per-CPU `c->proc`, `wait_lock`, `p->lock` | `fork`, `exit`, `wait`, `kill`, `sleep`, `wakeup`, `yield`, `sched`, the scheduler | locks handed over across `swtch`, lost wakeups, orphans, preemption | no process runs twice, no wakeup is lost, zombies are reaped |
| Log (`log.c`) | header and blocks on disk, `log.lh`, `outstanding`, `committing` | `begin_op`, `log_write`, `end_op`, `commit`, recovery | crashes between any two disk writes, group commit, log space | system calls are atomic and durable |
| Buffer cache, sleep locks (`bio.c`, `sleeplock.c`) | buffers, reference counts, `valid` | `bread`, `bwrite`, `brelse`, `bpin`, `bunpin` | recycling against concurrent lookups | one coherent copy of a block, used by one process at a time |
| Disk driver (`virtio_disk.c`) | descriptors, rings, in-flight table | `virtio_disk_rw`, `virtio_disk_intr` | device and interrupt concurrent with callers | no descriptor lost or shared, everyone who waits is woken |
| Pipes, file table, descriptors (`pipe.c`, `file.c`, `sysfile.c`) | ring buffer, two counters, open flags; `ftable`, `p->ofile` | `pipewrite`, `piperead`, `pipeclose`; `filealloc/dup/close`; `dup`, `close`, `pipe` | sleep/wakeup, kill between two bytes, close while the other side sleeps, error paths of `sys_pipe` | FIFO, exact references, no use after free |
| Inodes, directories (`fs.c`, `sysfile.c`) | `itable`, inodes, bitmap and directories on disk | `iget/idup/iput/ilock`, `ialloc`, `balloc/bfree`, `dirlookup/dirlink`, `namex`, `open`, `link`, `unlink`, `mkdir`, `chdir` | reference counts against link counts, locks dropped between lookup and use | nothing named is freed, nothing unnamed stays |
| Console (`console.c`) | input ring `r`,`w`,`e` | `consoleread`, `consoleintr` | interrupt handler and readers on one ring, wrapping indices, `^D` | line-at-a-time input |
| UART (`uart.c`) | transmit ring, the device | `uartputc`, `uartstart`, `uartputc_sync`, `uartintr` | test and write of the device by harts that share no lock | output never stalls |
| Spinlocks (`spinlock.c`) | `locked`, `cpu`, `noff`, `intena` | `acquire`, `release`, `push_off`, `pop_off` | interrupt state across nesting | mutual exclusion |
| Clock (`trap.c`, `sysproc.c`) | `ticks` | `clockintr`, `sys_sleep` | unsigned arithmetic, wrap, kill between test and sleep | no sleep ends early, none overstays |
| File contents (`fs.c`, `file.c`) | inodes in memory and on disk, blocks, offsets | `bmap`, `itrunc`, `readi`, `writei`, `fileread`, `filewrite` | direct and indirect blocks, full disk, writes in several transactions, shared offsets, a buffer that ends inside a block | a file is a sequence of bytes |
| mkfs (`mkfs/mkfs.c`) | the image, `freeblock`, `freeinode` | `ialloc`, `iappend`, `balloc` | the kernel must find what mkfs wrote | image, bit map and inodes agree |
| Shell and init (`user/sh.c`, `user/init.c`) | the line, the tree, descriptors and children | `gets`, `parsecmd`, `nulterminate`, `runcmd`, `parse_buffer`, init's loop | a pipe ends only when every copy of its write end is closed; calls that fail half way; `wait(0)` takes any child | lines mean what the grammar says, run where and in the order they say, and a prompt comes back |
| User allocator (`user/umalloc.c`) | circular free list, program break | `malloc`, `free`, `morecore` | joining neighbours, the ends of the circle, gaps left by `sbrk` | no unit lost or given twice |

The components interact through calls (the shell → system calls; system calls → files → inodes → log →
buffer cache → disk driver; fork/exec/exit → user memory → page allocator) and
through `sleep`/`wakeup` on shared channels, which is where the orderings that
tests hardly reach come from. `PROJECT.json` lists these hazards by line.

## 2. Modules

| Module | Models | Shape |
|---|---|---|
| `Kalloc` | `kalloc.c` | one action per critical section or unlocked access; `FREE_PAGES--` is a load and a store |
| `PrivateMem` | what `fork()` promises | every process has its own memory; `fork()` copies at one instant |
| `Cow` | `vm.c`, `trap.c:36-112`, `exec.c`, the memory side of `fork/exit/wait/growproc` | one action per page and per change of a shared count; implements `PrivateMem` |
| `Proc` | `proc.c` | one action per section under a lock, CPUs explicit, locks held across steps are variables |
| `AtomicFS` | what the log promises | system calls are atomic with respect to crashes |
| `Log` | `log.c`, on a cache that behaves like `BlockCache` | one action per section under `log.lock` and per disk write; implements `AtomicFS` |
| `BlockCache` | what the buffer cache promises | one copy of each block, owned by one process at a time, lost only when not pinned |
| `Virtio` | `virtio_disk.c` and the device | request, device, completion, interrupt |
| `Bio` | `bio.c`, `sleeplock.c` on `Virtio` | composes the cache with the driver; implements `BlockCache` |
| `ByteStream` | what pipes promise | a bounded FIFO for each |
| `Pipe` | `pipe.c`, `file.c`, descriptors of `sysfile.c` | one action per section and, under the pipe's lock, per byte; the ring implements `ByteStream` |
| `Fs` | `fs.c`, `sysfile.c` on inodes | one action per section under inode locks |
| `LineInput` | what the console promises a reader | the user edits a line; entered lines are read in order |
| `Console` | input side of `console.c` | one action per character read, one for the handler; implements `LineInput` |
| `Uart` | `uart.c`, output side of `console.c` | status test and data write are separate steps |
| `Clock` | `clockintr`, `sys_sleep`, `kill` of a sleeper | one action per section under `tickslock` |
| `Mkfs` | `mkfs/mkfs.c` | one action to format, one per host file, one to finish |
| `ByteFile` | what an open file promises | reads return and writes store the bytes at the offset |
| `FileData` | `bmap` … `writei`, `fileread`, `filewrite` on the image of `Mkfs` | one action per transaction; implements `ByteFile` |
| `Umalloc` | `user/umalloc.c` | one action per call, the loops as recursive operators |
| `ShParse` | `gets` and the parser of `user/sh.c` | one action per character; the parser as recursive operators, next to a reference grammar |
| `Sh` | `runcmd`, `parse_buffer`, `main` of `user/sh.c`; `user/init.c` | one action per system call of each process |
| `Kalloc_proofs`, `Cow_proofs`, `Proc_proofs`, `Log_proofs`, `Bio_proofs`, `Pipe_proofs`, `Uart_proofs`, `Console_proofs` | | theorems, for every value of the constants; those of `Clock` are in `Console_proofs` |
| `MC*` | | constants and symmetry for TLC |

`MCMemory`, `MCDisk`, `MCTerminal` and `MCInput` check several modules in one
run. A variable `part`, which no step changes, says which module a behaviour is
of; the others keep their initial state. The state spaces add up and do not
multiply, and every property is checked on the part it speaks of exactly as it
would be alone. In `MCTerminal`, the one with fairness, the part that does not
run is in a state where no action of its fairness is enabled (nothing is
written; the machine has not booted), so that the fairness of one part
constrains no behaviour of the other.

Conventions: a section under a spinlock is one step when nothing it does can be
seen without that lock; where a lock is kept over several steps its owner is a
variable. A sleeping process is at a point of its own (`..._asleep`), `wakeup()`
sends it back to its test, and `kill()` does the same at any moment. Definitions
marked MUTANT are wrong versions of the definition after them, used to show that
the properties can fail.

### Kalloc
`freelist`, `refcounts`, `FREE_PAGES`, `MAX_PAGES` are the variables of the
code; `holders[p]` is a ghost: which processes own a reference (a mapping, or a
local pointer). `pc`, `pg`, `reg` are the program point, the local page and the
register of each kernel thread. `kinit()` is one step, as nothing else runs
then. The LIFO order of the list is abstracted: a pop may return any free page.
A failed assert is a panic of that thread.

### Cow
Kalloc's operations are single steps here; the theorems of `Kalloc_proofs`
(a page has one owner, its count is the number of holders) are what justifies
that. `pt[t][v]` is the leaf PTE of page `v`; page-table pages, trapframes and
kernel stacks are left out, except that every allocation may fail. Sizes are in
pages: `sz` not a multiple of `PGSIZE` rounds to the same pages. `pc` tells
which loop of the kernel a process is in and `tgt`, `idx`, `lim`, `low` are the
loop's page table, index, bound and the size to fall back to. The contents of a
page is one value. `CopyoutToShared` says whether programs pass buffers on
still-shared pages to system calls: with it the refinement fails (run
`cow_copyout`), without it it holds, which shows that `copyout()` is the only
hole. TLB contents are not modelled.

### Proc
A spinlock is a variable holding the owner CPU (`plock`, `wlock`) when it is
held across steps, else a guard. `ppc` is the program point of a kernel thread;
`cpc` says whether a CPU is in the scheduler, in a process, or back from
`swtch()` but not yet past `release(&p->lock)`. A timer interrupt can come
wherever no lock is held (`Yield`). User memory, files and exit status are left
out. Slot 1 is init, which never exits and calls `wait()` for ever
(`user/init.c`). `ps()` holds `wait_lock`, the lock of the slot it copies and the
lock of that slot's parent at once; its slots run from `k` to `wk`. Only
`Observers` call it.

### Log
The disk is `disk` (home blocks), `dhead` (header) and `dlog` (log blocks);
`cache` is what `bread()` returns. A `Crash` keeps the disk only and starts
recovery, which can crash as well. `Recovered` is what recovery would leave if
power failed now; the refinement maps `stable` to it. `committing` is set
during recovery, because no process runs before it is over. `OpBlocks` is how
many blocks a call really writes, `MAXOPBLOCKS` how many it reserves. The panics
"log.committing" of `end_op()` and "log_write outside of trans" are not
actions: `Alone` and `Counted` of `Log_proofs` say that their conditions never hold.

### Virtio and Bio
A ring is the sequence of its entries the other side has not seen. The device
takes requests, completes them in any order and raises its interrupt, also while
the handler runs. `Bio` adds the buffers. The LRU list is left out: any buffer
without references may be recycled, so nothing depends on the order. A process
holds one buffer at a time. `bget: no buffers` is an action: it happens when
pinned and held buffers use up `NBUF`.

### Pipe
`file`, `ofile`, `pi` are `ftable`, `p->ofile` and `struct pipe`. `arg` holds a
process's locals: the two files `sys_pipe()` has allocated or `sys_close()` is
closing, the pipe, end and position of a call inside `pipe.c`. `exit()` closes
descriptor by descriptor, the lowest first (`Closing`). `fileclose()` and the
`pipeclose()` it goes on to are two steps, with the copy of the entry in `arg`
between them. Counters are taken modulo `WRAP`, a multiple of `PIPESIZE` like 2^32
of 512. `got` is an observation, the byte last taken from each pipe; `owed` is
history: pipes that a writer has left, killed between two bytes, without waking
readers.

### Fs
`dinode`, `dir`, `bitmap` are on disk, `itab` is the inode table (indexed by inode
number, as `iget()` never makes two entries for one inode), `cwd` and `of` the
pointers processes keep, `reg` the inodes a call holds, `puts` the `iput()`s it
has left. Every call runs inside `begin_op()`/`end_op()`, which `Log` shows to be
atomic, so crashes do not appear here. `dirlink()` may fail at any time (disk
full). Contents and offsets of files are left out; a write takes a block.
An `iput()` that frees takes four steps: the test under `itable.lock`; the inode
freed on disk, so that `ialloc()` may give its number out; the sleep lock
released; and, with `freed` set, `ref--` under `itable.lock` again, which tests
nothing any more. Where a failing call keeps the parent locked during the child's
`iput()` (`create()`'s `fail`, `unlink()` of a directory in use) so does the model.

Three variables are history. `stray`: an entry was made in a directory that had
already been removed. `lost`: `..` was followed to a directory that had already
been removed. `leaked`: the inodes whose last reference went in that last step
although they had no links. `NoInodeLeak` is what the comment of `iput()` promises
and fails (run `fs_leak`); `LeaksExplained`, a part of `InodesExact`, says that
`leaked` is all that is ever left behind.

### Clock
`ticks` wraps at `M`. An argument of `sleep()` is an int; `n % M` is what the
comparison with a uint makes of it. `passed`, `ready` and `late` are history:
ticks since the call, since the process was woken, and since the call has had a
reason to return. `Latency` is an assumption about the machine and not about the
code: a woken process gets a CPU and `tickslock` within that many ticks, fewer
than 2^31. Without it a process that sleeps for n ticks and is not run for
2^32 - n more would sleep another round. With it `SleepsAsAsked` bounds how
long a call stays, which says more than that it returns some day.

### Mkfs and FileData
A block holds `BSIZE` units: bytes of a file, entries of a directory or block
numbers. `image.blk` is what `bread()` returns, `home` the blocks as the log has
committed them; `ip` the inodes in memory; `call` a `filewrite()` between two of
its transactions. A transaction is one step, by `CrashAtomic` of `Log`; `Reboot`
comes between transactions and loses `ip`, `ofile`, `call` and what is not in
`home`. `ScanRoot` is `dirlookup()` of a name that is not there.

A user's buffer may go bad after any number of bytes (`good`). `either_copyin()`
has then copied a part of a block: those bytes are in the cache, readable, but
not counted, and in no transaction, unless the same transaction has allocated the
block or a later one writes to it; `Recycle` (a buffer taken for another block)
and `Reboot` bring the old bytes back. `ByteFile` has the same in the abstract,
without blocks: a piece of a write may put `x` bytes more over old ones than it
counts, and `kept` is what remains when bytes are forgotten. Nothing else may
differ: counted bytes are kept, bytes outside the write are untouched, and a file
never grows by what was not counted. Commits of several calls at once are `Log`'s.
The mapping reads the bytes through the inode and its indirect block.

### Umalloc
Addresses are in header-sized units. Fields no code reads again are set to 0,
which keeps equal heaps equal. `core` is what `morecore()` has got; `Sbrk` is the
program moving the break itself, so that the heap has gaps.

### ShParse and Sh
A cell of the line is a symbol, a blank or a word's letter (in `Sh`, a word). A
tree holds positions; `Strings` reads the words off the buffer after
`nulterminate()` has written into it, so that a word that is not cut, or is cut
in the wrong place, shows. The reference is the grammar over tokens, as sets of
trees.

In `Sh` `todo` is the sequence of system calls a process has ahead; `path` is the
place in the tree that it runs, `jobs` which line was given to which shell with
which descriptors. A pipe is named by its job and node. Every kind of call that
can fail does so once, anywhere. Programs are external: filters read their
input to the end, floods write more than a pipe holds, others do neither.

### Console and Uart
`consoleintr()` holds `cons.lock` from start to end and is one step; its echo is
a sequence of device writes in `Uart`. In `Uart` buffer and device are counts.
The device sets THRE when it has sent everything and interrupts then; a write
withdraws the interrupt; the PLIC gives it to one hart at a time.

## 3. Runs

All bounds are model values or small numbers in the `.cfg` files.

| Run | Bounds | Checked |
|---|---|---|
| `memory` | 3 threads, 3 pages, counters modulo 4; heap of 11 units, requests of 0, 3 and 8 bytes, one gap; every line of 5 characters from 10; 2 host files, blocks of 2 units, 2 direct and 2 indirect blocks, 15 blocks, 2 writers, 3 calls, 1 restart | `TypeOK`, `Exclusive`, `CountExact`, `NoLeak`; `HeapExact`, `KeepsFaith`; `ParsesGrammar`; `ImageExact`, `FilesAreBytes` |
| `kalloc_assert` | 2 threads, 2 pages | `KfreeNeverPanics` fails |
| `cow` | 2 processes, 3 page tables, 4 pages, text/guard/stack, `sbrk` by 1 | `TablesExact`, `SharingExact`, `MemoryIsPrivate` |
| `cow_copyout` | 2 processes, 3 pages | `MemoryIsPrivate` fails |
| `proc` | 3 slots, 2 CPUs, 1 process that can be killed and calls `ps()` | `TableSound`, `NoLostWakeup`, `SlotLifecycle`, no deadlock |
| `proc_live` | 3 slots, 1 CPU | `ZombiesReaped` |
| `disk` | 3 processes, 3 blocks, log of 4 blocks, 2 crashes; 2 processes, 3 inodes, 1 data block, paths `/a`, `/a/a`, `/a/b`, `/b`, `/b/b`, `..` | `LogSound`, `DurableWhenQuiet`, `NoLostWakeup`, `CrashAtomic`; `InodesExact`, `LinksExact`; no deadlock |
| `fs_leak` | 2 processes, 2 inodes, `creat` and `unlink` of `/b`, a directory with room | `NoInodeLeak` fails |
| `pipe` | 2 processes, 2 files, 2 descriptors, 1 page, ring of 2, counters modulo 4, reads and writes of 2 bytes | `FilesExact`, `NoUseAfterFree`, `NoLostWakeup`, `FifoOrder` |
| `bio` | 3 processes, 3 buffers, 4 blocks, 7 descriptors, 1 pin | `PoolsExact`, `NoLostWakeup`, `CoherentCache`, no deadlock |
| `console` | 2 readers, 2 characters, ring of 3, indices modulo 6, reads of 1 and 4; 2 sleepers, clock modulo 8, latency 2, arguments -1, 0, 1, 3 | `BufferSound`, `NoLostWakeup`, `LineDiscipline`; `SleepsAsAsked`; no deadlock |
| `uart` | 2 writers, buffer of 2, writes of 3; 8 processes, 7 descriptors, 10 first lines and a second, a script of 3 blocks, one failing call | `TypeOK`, `NoLostWakeup`, `OutputNotStalled`, `RoomAgain`; `JobsExact`, `PromptReturns` |

Why these bounds reach the hard cases:

- `memory`: three threads are two racing and one owner; the counters wrap at 4,
  one above the pages there are. With two pages the free list runs empty.
- `cow`: two processes and three tables let a fork, an `exec` (which owns two
  tables) and an exit overlap; four pages run out in the middle of each of them.
- `proc`: three slots are init, a parent and a child, so that a child is orphaned
  and reparented while its parent exits. That `reparent()` must itself wake init
  would need four slots to matter.
- `disk`: a second crash strikes inside the recovery from the first; three calls
  of two reserved blocks are more than the log holds, so callers sleep.
- `pipe`: the second write of two bytes into a ring of two blocks, the third wraps
  the counters; two files are one pipe, so that `sys_pipe()` fails at every place.
  Several pipes at once, and more of everything, are for the proofs.
- `bio`: two requests use six of seven descriptors, so the third process sleeps
  for descriptors; a pinned and two held buffers leave none for the fourth block.
- `disk`, the names: inodes are reused at once. The calls come in three groups
  (`Calls` in `MCDisk`): on one directory, a file in it and a second link to it,
  while the directory is removed and made again and is someone's current
  directory; on a directory in a directory, both removed while a process is in the
  lower one and opens `..`; and calls that fail half way. All calls at once are
  more states than a run can take, and so are three processes.
- `console`: a read of 4 outlasts a ring of 3; `^D` comes in the middle of a read.
- `uart`: a write of 3 fills the buffer of 2 with a character in the device.
- the heap: three blocks and a gap make a block with no, one and two free
  neighbours, below the first and above the last; the break runs out.
- the parser: five characters hold every pair of operators with their operands,
  a parenthesis inside a pipeline, and `MAXARGS` (3) words.
- the files: a write of six bytes at the end of a file of three needs the direct
  blocks, the indirect block and two transactions, and the disk fills up on the
  way; a buffer goes bad at each byte of a piece, before a restart too; the root
  directory's entries fill its blocks exactly. Three calls are an `open()`, a move
  of the offset and a write, or two writers of one file.
- the shell: a pipeline of three, one in a list, one in the background in a list,
  a redirection of each kind, `cd`, `exit`, a syntax error, the end of the input,
  a script whose last block is short, its output appended to a file.
- the clock: it wraps within a sleep; -1 is the largest uint.

Several invariants are conjunctions of named parts: `SharingExact` is
`CountExact` and `SoleWriter`; `TableSound` is `RunsOnce` (with the types) and
`HasLiveParent`; `LogSound` is the types and `LogFits`; `FilesExact` is
`PipesExact` and `RefsExact`; `PoolsExact` is `CacheExact` and
`DescriptorsExact`; `InodesExact` is the types, `RefsExact`, `BlocksExact` and
`FreedInTime` (`LeaksExplained`, `NoDanglingEntry` and `NeverPanics`, until
`lost`); `BufferSound` is the types and `InputNotJammed`; `JobsExact` is
`WiringExact` and `InOrder`.

Deadlock is checked except in `memory` (a failed assert stops a thread, a parsed
line and a full heap are final), `cow`
(`panic` stops the machine) and `pipe` (readers of an empty pipe wait for ever
if nobody writes). In `proc` and `disk` this check is what the lock order of
`exit()`, `wait()`, `ps()`, `create()`, `unlink()` and `iput()` rests on: no
invariant would show it. In `disk` a machine that has panicked stands still.

### Fairness
`proc_live`: weak fairness of what a CPU does without a choice (`SwitchBack`,
`Resume`); strong fairness of `Yield`, `Schedule` and of the kernel steps of each
slot, because the timer interrupts every CPU again and again and the round-robin
scan visits every runnable slot; strong fairness of the exit of a killed process
(`usertrap()` tests `killed`) and of init's `wait()` (its endless loop). Nobody
is obliged to fork, exit or kill. The property is conditional on forks ending:
`wait()` returns the first zombie of an ascending scan, and a zombie in a high
slot can be passed over for as long as new ones appear below it.

`uart`: weak fairness of the device, of the interrupt handler, of `printf()` once
it has seen the device empty, and of each process in the kernel. Spinlocks give
no order, so `RoomAgain` speaks of the buffer and not of one writer: TLC shows
that one of two writers can lose every race for `uart_tx_lock`. The condition of
`RoomAgain` is that typing and `printf()` end, as both can keep the device busy
for ever.

`uart`, for the shell: weak fairness of the machine as a whole (some process that
can make a call makes one), since between two commands everything the shell has
started ends by itself. Nobody is obliged to type: `PromptReturns` says that a
prompt is waiting again and again.

## 4. Proofs

The `*_proofs` modules are checked by TLAPS. Each theorem holds for every value of
the constants that the module's `ASSUME` allows. Every proof has the same plan:
an inductive invariant `IInv`, one lemma per action that keeps it, `Invariance`
(`Spec => []IInv`), and short theorems that read the properties off `IInv`. A
refinement adds the initial states, and a step lemma that maps each action to a
step of the abstract module or to a stutter. Each `IInv` was an invariant of a TLC
run before it was proved.

| Theorem | States | Of |
|---|---|---|
| `TypeCorrect`, `PagesExclusive`, `CountsExact`, `NoPageLost` | `TypeOK`, `Exclusive`, `CountExact`, `NoLeak` | `Kalloc` |
| `SharingAlwaysExact`, `TablesAlwaysExact`, `MemoryAlwaysPrivate` | `SharingExact`, `TablesExact`, and `Cow` implements `PrivateMem` | `Cow` |
| `ProcessTableSound`, `ParentWoken`, `SlotsReusedWhenFree` | `TableSound`, `NoLostWakeup`, `SlotLifecycle` | `Proc` |
| `LogAlwaysSound`, `BeginOpWoken`, `QuietIsDurable`, `CrashAtomicity` | `LogSound`, `NoLostWakeup`, `DurableWhenQuiet`, and `Log` implements `AtomicFS` | `Log` |
| `FilesAlwaysExact`, `NeverUsedAfterFree`, `SleepersAlwaysWait`, `PipesAreStreams` | `FilesExact`, `NoUseAfterFree`, `NoLostWakeup`, and `Pipe` implements `ByteStream` | `Pipe` |
| `PoolsAlwaysExact`, `DiskWaitersWoken`, `CacheIsCoherent` | `PoolsExact`, `NoLostWakeup`, and `Bio` implements `BlockCache` | `Bio`, `Virtio` |
| `InputBufferSound`, `ReaderWoken`, `InputByLines` | `BufferSound`, `NoLostWakeup`, and `Console` implements `LineInput` | `Console` |
| `TypeCorrect`, `NoWakeupLost`, `OutputKeepsGoing` | `TypeOK`, `NoLostWakeup`, `OutputNotStalled` | `Uart` |
| `SleepTimes` | `SleepsAsAsked` | `Clock` |

**Page allocator.** For every finite set of pages and every finite set of threads
with fewer threads than a `uint8` counts (`KallocAssumption`). `Exclusive` and
`CountExact` are not inductive alone: between `kalloc()`'s pop and its return the
page is in a thread's hands and in no list. `Carried` says at which program points
a thread carries a page (and that a page just allocated has count 1), `BeforeBoot`
that nothing is held before `kinit()`.

**Copy-on-write memory.** For any finite sets of processes and page tables, any set
of pages and any size of an address space (`CowAssumption`). `SharingExact` is not
inductive, because the loops change a count and a PTE in separate steps and index
page tables by what `p->sz` says. `Places` says who has which page table: its
process, and at most one call that builds it or takes it down. `Locals` bounds the
loop variables, `Shapes` says which pages a table maps at each point of each loop
(those below `sz`; those done; those still to do), and `Copies` that the pages
`uvmcopy()` has mapped for the child are the parent's and that the one whose count
is still to be raised is writable for nobody. `Fresh` says that a fault's new page
is nobody else's. The counting lemmas (`CountTake`, `CountDrop`, `CountSwap`,
`CountRaise`) are about a function from PTEs to pages, `Marks`, and give the new
count of every page when one PTE or one fault changes what it refers to. That a
count is at most the number of processes needs `Once`, which says that no process
refers to a page twice, over its own table, the one `exec()` builds or discards,
and its fault, and `Held`, that every table in use belongs to somebody; the bound
is then the pigeonhole principle.

`MemoryAlwaysPrivate`, the refinement, assumes that system calls do not write into
buffers on shared pages (`~CopyoutToShared`), without which run `cow_copyout` shows
it to be false. It needs two more invariants. `Solo` strengthens `SoleWriter`: a
page mapped by a PTE without `PTE_COW`, writable or not, is mapped once, because
`copyout()` writes to read-only text as well. `Contents` says what the calls have
put into pages nobody sees yet: the pages below the index of `exec()` and `sbrk()`
hold the image and zeros, and the copy of a store fault is still equal to the page
it was made from when the PTE is switched. The argument is a frame argument over
`Marks`: a page keeps its contents as long as one PTE or one fault refers to it
before and after the step (`MemStep`; `kref_dec()` junks a page only when nothing
refers to it afterwards), a step writes no page table but the process's own and
its target (`RowsNext`), and the PTEs a process can see are counted (`SeenMark`).
`fork()` takes effect for the abstract memory when the child becomes `RUNNABLE`,
`sbrk()` when it starts to remove pages or has added the last one, `exec()` when
it commits; all other kernel steps are invisible.

**Processes.** For any `N` and any set of CPUs. That a process is on one CPU
depends on the hand-over of `p->lock` across `swtch()`: `CpuSound`, `Running` and
`LocksHeld` say who is on which CPU and which locks that CPU holds at which
program point, `Resting` where a thread that does not run has stopped, `Forking`
that the slot of a `fork()` under way belongs to it. `Parents` and `Orphans`
follow `reparent()`: children not yet given away have slots at or above its
index. `Waking` is what makes `NoLostWakeup` inductive. `wait()` has passed no
`ZOMBIE` in its scan, `exit()` has woken its parent if its `wakeup()` has passed
the parent's slot, and a sleeping parent of a `ZOMBIE` can only be init, with
`reparent()`'s wakeup still on its way.

**Log.** For any finite set of processes, any set of blocks and any number of
crashes. `LogAssumption` says that a log holds two calls' reservations
(`LOGSIZE` is 30 and `MAXOPBLOCKS` 10 in `param.h`), that the space on disk is at
least `LOGSIZE`, and that a call writes fewer blocks than it reserves. The last
is needed: `log_write()`'s test is one block early (section 5).
`Clean`, `Pinned`, `Headed`, `Logged` and `Progress` relate cache, home blocks,
header and log at each step of `commit()` and recovery, so that what recovery
would leave is known everywhere (lemma `RecoveredIs`); this is the whole of
`CrashAtomicity`. `Alone` says that a commit runs by itself; `Counted` that
`outstanding` is exact. `Room` is why the log does not overflow: `Reserved` has
one element for each block a call in progress may still write, and the log has
room for all of them with two blocks to spare.

**Buffer cache and disk driver.** For any finite sets of processes and buffers,
any set of blocks and any number of descriptors from 3. `Owned` and `Filled` tie
a process's program point to its lock, to `valid` and to the direction of its
transfer; `OneEach` is one buffer per block. `Chains` says that chains of three
are disjoint and cover what is not free, `Rings` that a request is in one place
between driver and device, and `Served` that every request belongs to a process
that still waits and describes that process's buffer and block, and that
`b->disk` stays set until the handler has seen the request. `Fetched` is what the
refinement needs: a finished read has left in the buffer what is still on the
disk, so that setting `valid` in `bread()` changes nothing a reader could see.
That the rings do not overflow is the pigeonhole principle. A recycled buffer is
`Forget`, a completed write `Flush`.

**Pipes, file table, descriptors.** For any finite set of processes, any numbers
of files and descriptors, any set of pages for pipes, any ring size and any width
of the counters that is a larger multiple of it (`PipeAssumption`). `RefsExact`
counts pairs of a process and a descriptor; each step that installs, clears or
copies descriptors changes the count of one or two files by what the lemmas on
`Cells` and `One` say. `EndsMatch` is inductive with `OneEnd` (an end of a pipe
has one entry of `ftable` or one process on its way into `pipeclose()`, never
both), `Fresh` (what `sys_pipe()` has just allocated is nobody else's and has no
type yet, so that its error path frees it without closing a pipe), `Entries` and
`Opened`. `Users` says that a process inside `piperead()` or `pipewrite()` keeps a
descriptor of that end, which is why its end stays open and the page its own.
`Locked` says who holds `pi->lock`, `Testing` that what the holder has found out is
still true when it acts on it. `Sleeping` makes `NoLostWakeup` inductive: while the
lock is held, its holder may be the writer that has stored bytes and will wake the
readers, or the reader that will wake the writers. For the refinement the ring is a
function of `nread` and the count (`Ring`); that storing appends and taking leaves
the tail rests on two lemmas on numbers, that a turn of the counters changes no
slot (`WrapSlot`) and that less than a turn of the ring never meets itself
(`SlotsApart`).

**Console.** For any set of readers, any buffer size and any width of the indices
that is a larger multiple of the size, as 2^32 is of 128. Order and distance of `r`, `w`
and `e` are proved as facts about wrapping differences, stated once as lemmas on
numbers. `RingKept` adds to the properties that the part being edited holds no
newline (`OneLine`), so that `^U`, which stops at one, erases exactly that part;
`Wanting` says that a reader that wants more has not been given a newline;
`SleepsOnNone` is `NoLostWakeup` even while the lock is held.

**UART.** For any set of writers and any buffer size. The invariant adds where
each actor can be (`Positions`), that the lock belongs to the actor inside
`uartstart()` (`LockHeld`), that sleepers have a full buffer even while the lock
is held (`SleepsOnFull`, since taking a character and waking everybody is one
section), and `Racing`: characters in the device plus the harts that have seen it
empty are at most three, which bounds what unlocked writers can do to the FIFO.

**Clock.** For any set of sleepers, any width and any latency below half a turn
(2^31 ticks, about seven years). `Elapsed` says that the unsigned difference is
the time that has passed unless a whole turn has, `LateForAReason` that a late
call has a reason to return and keeps it, `LateBound` how late it can be by where
it is: nobody dozes off late, because the test and the sleep are under
`tickslock`.

**Only model-checked:** `Fs` (within reach, not done yet); `FileData`, `Umalloc`, `ShParse` and `Sh`, whose loops and trees are recursive operators,
which the prover does not take; the liveness properties `ZombiesReaped`,
`RoomAgain` and `PromptReturns`, as liveness under fairness is outside the
prover.

## 5. Disagreements between code and documentation

Three are runs, with findings in `PROJECT.json`:

- `kalloc_assert`: `FREE_PAGES--` is outside the lock; after a lost decrement
  `kfree()` of a page in use fails its assert.
- `cow_copyout`: `copyout()` writes through copy-on-write pages without copying.
- `fs_leak`: "If that was the last reference and the inode has no links to it, free
  the inode" (`fs.c:332`). `iput()` frees an inode and then takes `itable.lock`
  again for `ref--`. Another process may in between be given the number by
  `ialloc()`, find the same table entry, unlink the new file and put it: its
  `iput()` sees two references and only counts down, and so does the first one.
  The new inode is allocated for good, without a link or a reference.

Others were met while modelling and are visible in the models:

- `kalloc()` panics on its assert when memory is used up, though its comment
  says it returns 0 (`ka_panic`).
- After `fork()` a store to read-only program text gets a writable copy, because
  `uvmcopy()` marks every page `PTE_COW`.
- A process killed between `wait()`'s or `consoleread()`'s test of `killed` and
  its `sleep()` sleeps on until someone else wakes it.
- `begin_op()` reserves against `LOGSIZE` while `log_write()` panics at
  `log.size - 1`: with `OpBlocks = MAXOPBLOCKS` `LogFits` fails.
- `pipewrite()` killed between two bytes wakes nobody: `NoLostWakeup` of `Pipe`
  excepts pipes in `owed`.
- `create()` and `link()` in a directory removed meanwhile leave an inode with a
  link count and no name: `LinksExact` excepts `stray`.
- `..` of a removed directory whose parent has been removed as well leads
  `ilock()` to a free inode and to its panic "ilock: no type" (`fs.c:315`), or to
  whatever has been given the number since: `mkdir /a`, `mkdir /a/a`, `chdir /a/a`,
  `unlink /a/a`, `unlink /a`, `open ..`. Behaviours of `disk` do this; from then on
  (`lost`) `FreedInTime` and `LinksExact` promise nothing. Until then no
  interleaving makes `ilock()` or `unlink()` panic.
- A `write()` whose buffer ends inside a block changes bytes it does not count,
  for readers until the buffer is recycled or the machine restarts (`fs.c:522`),
  though `writei()` "Returns the number of bytes successfully written"
  (`fs.c:502`).
- mkfs rounds the root directory's size up to one more block when its entries
  fill their blocks. The kernel reads that block, `bmap()` allocates it in memory
  only, and after each restart it takes another: `holes` in `FileData` counts
  them. On a full disk the same read ends in the panic "dirlookup read". mkfs
  does not compare `freeblock` with `FSSIZE` either.
- `sleep(-1)` lasts 2^32 - 1 ticks, and a process that misses the one tick in
  which that is over sleeps again.
- The shell's script mode reads blocks of 120 bytes, takes each for one line, and
  drops a last block that is shorter unless it is the first. `a & b` is a syntax
  error. Of two redirections of one descriptor the first wins. A shell whose
  `fork()` fails exits, and init starts another.
- `malloc()` of 2^31 bytes or more is truncated on the way through `sbrk()`; the
  requests of `Umalloc` are smaller.

## 6. Not modelled

- Spinlocks themselves (a test-and-set word and the `push_off` counter): the
  other modules take mutual exclusion as given.
- System call dispatch and argument fetching, `sys_va2pa`, `sys_uptime`, `fstat`:
  they read and change nothing.
- Boot, machine mode, trampolines, the PLIC's registers: straight-line set-up.
- `printf`, string functions, `ramdisk.c`: formatting and byte loops.
- The local array of `ps()` on the kernel stack, page-table pages, the TLB.
- The other user programs, the tests (`usertests`, `grind`, `cowtest`) and the
  rest of the user library: sequential programs over the calls above.
- Lecture notes and the editor plug-in.

## 7. Plan

1. Prove: `Fs` (`InodesExact`).
2. Compose: `Log` on `Bio` rather than on the promise of `BlockCache`.
3. `Spinlock` (`push_off`/`pop_off` nesting against interrupts).
