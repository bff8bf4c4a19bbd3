# A TLA+ verification of the modeling_unix kernel

This directory models the kernel in `src/src` (a Pintos-derived multiprocessor
kernel with a CFS scheduler, processes with fork/exec/wait, pipes, and a file
system on a buffer cache), its libraries, its shell and the relays of its test
driver. TLC checks the models on small instances; TLAPS proves the main results
about the block lock, the buffer cache, the scheduler's queue, the array queue,
pipes, the process family, the disk driver and the processors' handshakes for every
instance.

Paths below are relative to `src/src`: `filesys/cache.c` is
`src/src/filesys/cache.c`.

## 1. The system and its parts

| Part | Source | Module | What makes it hard |
|---|---|---|---|
| Block lock | `filesys/rw-lock.c` | RWLockOps, RWLock | turn taking between two groups; a try that does not take part in it |
| Buffer cache | `filesys/cache.c` | BufferCache, BlockStore | `cache_lock` is dropped during eviction; fields are used outside it |
| Array queue, pipes | `lib/kernel/queue.c`, `filesys/pipe.c` | RingOps, Fifo, ArrayQueue, Pipe | wrap-around; wake-ups taken by a third thread; ends cleared and tested outside the lock |
| Process family | `userprog/process.c`, `threads/thread.c` | ProcessBond | parent and child exit in any order, and one of them frees the bond |
| Threads, semaphores, locks, conditions, sleep | `threads/thread.c`, `synch.c`, `spinlock.c`, `interrupt.c`, `devices/timer.c` | Threads, Monitor | interrupts and other CPUs; a wake-up racing with going to sleep |
| CFS | `threads/scheduler.c` | Scheduler | virtual time charged from time stamps set elsewhere |
| Processors | `threads/init.c`, `userprog/pagedir.c`, `devices/lapic.c`, `devices/shutdown.c` | Smp | starting, flushing TLBs and stopping each other |
| Names, open files, descriptors | `filesys/directory.c`, `filesys.c`, `file.c`, `userprog/syscall.c` | FileSystem, FileIO | counts over dup, fork, exec and removal; positions shared without a lock |
| Inodes | `filesys/inode.c` | InodeIndex, OpenInodes, FileSystem | growth that fails half way; search, allocation and insertion in several steps |
| Free map | `filesys/free-map.c`, `lib/kernel/bitmap.c` | BitmapOps, FreeMap | a map whose own file takes sectors from it; restarts |
| Disks, partitions, archives | `devices/ide.c`, `devices/partition.c`, `filesys/fsutil.c`, `lib/ustar.c` | IdeDisk, Partition, Archive | interrupts against requests; numbers read from the disk |
| Kernel memory | `threads/palloc.c`, `threads/malloc.c` | BitmapOps, KernelHeap | pages freed without the lock under which they are searched |
| User memory | `userprog/pagedir.c`, `process.c`, `vm/mem.c`, `lib/user/malloc.c` | AddressSpace, UserHeap | allocations that fail half way; boundary tags and coalescing |
| System calls, program start | `userprog/syscall.c`, `exception.c`, `process.c` | Syscall, ProgramArgs | pointers that wrap; faults in the middle of a copy |
| Console | `devices/intq.c`, `serial.c`, `input.c`, `kbd.c`, `vga.c`, `lib/kernel/console.c` | Console | handlers against threads; one remembered waiter |
| Libraries, clock | `lib/kernel/list.c`, `hash.c`, `lib/stdlib.c`, `string.c`, `stdio.c`, `arithmetic.c`, `devices/rtc.c` | Containers, StdLib, Clock | boundary values; a clock that ticks while it is read |
| Shell, relay | `examples/shell.c`, `parser.c`, `utils/squish-pty.c`, `squish-unix.c` | Shell, Relay | everybody waits for somebody to close an end |

They stand on each other. Threads gives lock and condition, which the others take
as Monitor; Scheduler decides what Threads leaves open. BufferCache holds a
RWLockOps lock per block and is the BlockStore that InodeIndex writes to;
IdeDisk is below it. FileSystem counts the inodes whose blocks InodeIndex owns and
FreeMap hands out. ProcessBond and Pipe are what Shell uses.

`PROJECT.json` lists every part with what is modelled of it, where each
definition comes from, and the hazards of the code with the line where they bite.

## 2. The modules

**RWLockOps** has struct rw_lock as a record and each function of
`rw-lock.c` as an operator from a lock to a lock. A call that has to wait is two
operators: up to `cond_wait` (`ReadAcquire`), and from the wake-up on
(`ReadResume`). A condition variable is its list of sleepers; signalling takes
the first off the list, and a thread that is in the waiting state but no longer
in the list has been signalled.

**RWLock** is the lock with threads that use it. Since every function holds the
lock's monitor except inside `cond_wait`, a call is one action, plus one for
every wake-up. Threads in `TryThreads` also use `write_lock_try_acquire`, as
eviction and flush do. **RWLockProofs** has the proofs.

**BufferCache** is `cache.c`. Clients call get, then read or zero and change,
then put, in the way `inode.c` does; the write-behind daemon (`Flusher`) walks
the list. The read-ahead daemon is one more client that reads. An action is the
code between two points at which another thread can see a difference: for
instance eviction is `GetEvict` (takes `cache_lock`), `EvictTake` / `EvictSkip`
(one block tried per step), `EvictWriteBack`, `EvictRetag`, `EvictUnpin` and
`EvictRelist`, since `cache_lock` is dropped after the victim is chosen. The
block's lock is the record of RWLockOps. A sector's contents are a number below
`M`, and a write adds 1 modulo `M`. `Errands` lists the scenarios, what calls on
what sectors each client may make, and `errands` is the one a behaviour follows.
**BlockStore** is what the cache promises:
an array of sectors, on which each call takes effect at one instant.

**RingOps** has the ring buffer shared by `queue.c` and `pipe.c`, **Fifo** what a
bounded queue promises, **ArrayQueue** the monitor of `queue.c`, **Pipe** the
monitor of `pipe.c` with processes that hold its two ends. In Pipe a byte is a
step, since the monitor is free between two bytes. Closing an end begins in
`file_close`, whose `--file->ref_count == 0` is compiled (`-O0`) to a load, a store
and a second load that is tested: three steps, and two processes may be in them at
once. `pipe_close` is three more: clear the end, signal under the lock, test both
ends and free. What a
process does to a pipe that was freed is unconstrained: the lock may read as
held for ever (`wild`) and the ends as anything. Return values of read and write
are left out.

**ProcessBond** is the life of the bond between a parent and a child. Each
access to it that the other side can see is a step. A bond has memory that is
live or freed; a process that uses a freed bond may find its semaphore's spinlock
held for ever (`wild`) or lose its way in its links (`lost`). Exit statuses are
left out.

**Threads** is the kernel below all of these: threads on several CPUs, their
ready queues, spinlocks, interrupts, and what `synch.c` builds from them. A
context (a thread, or a CPU's interrupt handler) has a list `todo` of steps, and
a call puts its steps there: `cond_wait` is up(lock), down(own semaphore),
down(lock), own. `sema_down` that must wait adds "block", in which the ready queue
is locked and the caller's spinlock given up, and "switch". A spinlock is the CPU
that holds it; a CPU that holds one, or runs a handler, has its interrupts off.
Turning interrupts off and getting the spinlock are one step, because a CPU that
only spins holds nothing another waits for. A critical section that takes no
further spinlock is one step too, and so are clearing `yield_on_return` and the
yield that follows. The ready list is a set, and which member runs next and when a
slice ends are left open, so that whatever the CFS arithmetic decides is covered.
Time is counted backwards: `when` is the number of ticks until a sleeper is due.
New threads go to the CPUs in turn, as their tids do. `Programs` lists scenarios, what calls each thread may make. **Monitor** is what a
lock with a condition variable promises; the other modules take it for granted.

**Scheduler** is the arithmetic of `scheduler.c` for one ready queue: the calls
that Threads makes to it are its actions, `timer_start` and `timer_stop` are kept
as the code sets them, and weights are those of `prio_to_weight`. `owed` records
how long a thread ran since it was last picked or charged.

**Smp** has three handshakes: `start_other_cpus` with `ap_main`, the TLB flush of
`invalidate_pagedir` with its interrupt, and shutdown. The version of a page
directory stands for its contents; a TLB remembers the version it was filled from.

**FileSystem** has one record `st` with names, inodes, open files, descriptors
and working directories; a call (open, close, dup2, create, mkdir, remove, chdir,
fork, exec, exit) is one action; only the removal of a directory is two, because
`dir_remove` holds the parent's lock and not that of the directory it found empty. A
call waits while a directory on its path is locked by such a removal. What the code
does on memory it has freed ends a behaviour (`stop`). **FileIO** splits what is done
to a shared open file where the code holds no lock: the position, the reference
count and the count of denied writes are loaded in one step and stored in another. **InodeIndex** is `byte_to_sector` with
its tables, where a block's change reaches the disk only if it was marked dirty.
**OpenInodes** is the list of open inodes when opens and closes overlap, with
`open_cnt` read and written in two steps. **BitmapOps** and **FreeMap** are the
map of sectors, its file, and a restart.

**IdeDisk** is one channel: driver, threads, and a controller modelled by its
status register and interrupt (external). **Partition** scans tables with sector
numbers that wrap. **Archive** is `extract` and `append` with their static sector
counters.

**KernelHeap** has pages, arenas and descriptors, with the bits of a page freed
one at a time. **AddressSpace** has directories, tables and frames out of two
pools, either of which may run out at any allocation of a call. A forked child has
`heap_end` 0, as in the code, so that its heap grows over the pages it was given, and
a heap may grow up to the stack page. A fork that runs out of memory frees what
belongs to its parent; it is followed up to there. **UserHeap** keeps
only the words that hold tags; what a program may overwrite is forgotten.
**Syscall** is argument checking with faults, and the pages and the waiting of exec;
**ProgramArgs** the first stack page.

**Console** has the two interrupt queues, the port's registers, the console lock,
handlers on CPU 0 and threads, and the screen against an endless paper. `Budgets`
lists scenarios, how many messages, keys, bytes, reads and flushes a behaviour has.
Reading a queue and writing the interrupt enable register are two steps, and
`overtaken`, `stale` and `forgotten` record who was late.
**Containers** is every list operation as pointer assignments against its meaning
on sequences, and the buckets of a hash table; **StdLib** sorting, searching and
copying in one small memory, `vsnprintf` and `hex_dump`, and 64-bit division from a
smaller word; **Clock** the reading of the six clock registers.

**Shell** edits a line, wires its children, and waits; its children are filters.
**Relay** is the select loop of `squish-pty.c` or of `squish-unix.c` with its two buffers,
short reads and writes, and their errors.

A module MC... gives constants their values. MCKernel, MCWaiting, MCStorage and
MCMachine join several parts in one instance: `part` is chosen in the initial
state, one part moves and the others stay, and each property speaks of its part.
No interaction between parts is claimed by that; it shares the run only.

Definitions called `Mutant...` stand before the definition they are a faulty
variant of. No specification uses them: each belongs to one property, which TLC
finds violated when the faulty variant takes the definition's place.

## 3. What the runs check

| Run | Instance | Shows |
|---|---|---|
| `cache_store` | 2 blocks, 3 sectors, 2 clients sharing one sector or 1 client on all; 470 thousand states | refinement of BlockStore, one block per sector, locks match holders, clean blocks are saved |
| `cache_contended` | 2 blocks, 3 sectors, 2 writing clients; 500 thousand states | no block lost from the lists, a writer is alone with its block, some call always finishes |
| `kernel` | Threads: 2 CPUs, 3 threads at a lock, or 2 that wait and signal, sleep or read from the disk. ProcessBond: the initial thread and 3 processes, one load each. Up to permutation; 320 thousand states | a thread is where its status says and can be found while it sleeps; no lost wake-up; sleepers are woken in time; lock and condition refine Monitor; bonds are counted exactly and none leaks |
| `threads_live` | 2 CPUs, 2 threads that sleep or read from the disk; 35 thousand states | interrupts always come back on, idle CPUs find work, sleepers wake |
| `waiting` | block lock with 4 threads, one of which tries; pipe with two readers and a writer; family of 3; the shell; 3 CPUs; 45 thousand states | the block lock's inductive invariant; pipelines are wired to the right ends; at most one early user of the page allocator and no stale TLB after a flush; and waiting ends: at the lock, at a closed pipe, for a child, for the prompt, for a TLB flush |
| `storage` | FreeMap, InodeIndex, FileSystem, FileIO, IdeDisk, Partition, Archive; 435 thousand states | the map is what owners hold, over restarts; data survives growth, a full disk and removal; names, counts and descriptors agree; positions advance, and unlocked counts are right unless two updates overlapped; a disk request gets its own answer; partitions stay inside their disk; archives hold their files |
| `machine` | Scheduler, Pipe, ArrayQueue, KernelHeap, UserHeap, AddressSpace, ProgramArgs, Containers, StdLib, Clock, Syscall, Console, Relay; 330 thousand states | the ready queue and its charges (the inductive invariant of the proofs); rings are FIFO, lose no wake-up and are freed; heaps and address spaces neither overlap nor leak; library calls agree with their definitions; consoles neither lose nor mix text, and interrupts are on when there is something to do; relays pass on everything in order |
| `rwlock_try_exclusion` | as in `waiting` | *violated*: a trying writer and readers together |
| `cache_dup` | as in `cache_contended` | *violated*: two blocks for one sector |
| `pipe_free` | as in `waiting` | *violated*: the pipe is freed twice or used after it was freed |
| `bond_freed` | the initial thread and 2 processes, 2 loads each | *violated*: a bond used after it was freed |
| `inode_twice` | 2 processes, 2 inode structures, 2 sectors | *violated*: two open inodes for one sector |

A property named for a part (`SpacesAreSound`, `UserHeapIsSound`, ...) is the
conjunction of that module's properties, each with its own comment there.

### Bounds

- Four threads are the fewest for which two readers sleep while a writer holds
  the block lock and another writer waits, with a try beside them.
- Two blocks and three sectors make eviction happen while another block is
  pinned. The instances of `cache_store` are those in which the cache keeps its
  promise: two clients on one sector (no eviction), or one client and the daemon
  (eviction). With two clients and eviction the faults of section 5 appear, and
  the promise fails; `cache_contended` checks what holds in spite of them.
- A capacity of two lets a ring wrap around with an element in it. Messages are
  as long as the ring, so that two writers fill it and sleep.
- Four processes allow a process with two children, and a grandchild. `MaxLoad`
  bounds how often one process execs.
- Two CPUs let a wake-up on one race with going to sleep on the other; the third
  thread takes a lock before the one that was woken for it. A longest sleep of two
  ticks is the shortest that tells a sorted sleep list from an unsorted one. Three
  CPUs let one flush be answered by one processor and not yet by another.
- The scheduler runs three threads, two of equal weight, with the real weights.
- One direct and two indirect entries reach all three levels of the index; five
  sectors run out in the middle of a growth. Nine sectors are few enough for the
  free map to fill up. The free map is used by one thread: see section 5.
- Two processes with two descriptors each share an open file by fork and by dup2. Four
  calls of two processes in FileIO are enough for two closes to overlap while a third
  call denies writes.
- Two readers of a pipe are the fewest of which one sleeps behind the other when the
  writer closes; two readers of the keyboard the fewest of which one is forgotten.
- The relay's peer prints one byte more than a buffer holds. Each of the four
  scenarios of the console fills a queue: keys and bytes against two readers, messages
  against polling and a flush, a message within a message, printing against receiving.
- Three pages and two threads in the kernel heap make a run of two pages and its
  release meet a search. Twenty-eight words in the user heap hold several blocks,
  so that one is freed between two neighbours.
- Words are narrow where the code's width matters: all 8-bit by 4-bit divisions,
  pointers of four bits in Syscall, numbers of 3 to 18 bits in formatted output.
- Command lines are all those of up to eight characters over a small alphabet, the
  screen is 4 by 2, strings live in four bytes, lists have five elements of which
  two are equal.
- Symmetry is used in `kernel` only, over tids and over threads, where invariants
  and step properties are checked.

### Fairness

Threads are preempted by the timer and every runnable thread runs again, so the
kernel's own steps are weakly fair: a signalled thread resumes, a holder
releases, a walk goes on, a processor takes its interrupt. Programs are not obliged
to call anything. Strong fairness is assumed only of interrupts in `threads_live`:
one that is raised while they are off stays pending and is delivered when they are
on again. Nothing is assumed about which ready thread is picked. In
`cache_contended` a particular client may be overtaken for ever, because a thread
that arrives takes the lock before one that was signalled, and only
`SomeCallFinishes` is claimed.

A finished system stops: all processes have closed the pipe or exited, a second
writer was left asleep at a pipe, the calls of a bounded scenario were made. Such
parts may stutter for ever in the joined instances (`storage` and `bond_freed` say
`CHECK_DEADLOCK FALSE`). The threads, the block lock, the heaps and the containers
may not: there TLC checks that something can always happen.

## 4. What is proved

| Module | For every | Theorems |
|---|---|---|
| RWLockProofs | finite set of threads, and set of those that try | `Invariance`, `TypeCorrect`, `CountsAreRight`, `AtMostOneWriter`, `BlockingWritersAreAlone`, `WakeupsAreNotLost`, `TurnsAreTaken`, `ExclusionWithoutTries` |
| SchedulerProofs | set of threads, niceness 0 to 19, weights, lengths of time | `Invariance`, `QueueIsSound`, `ChargesAreSound`, `Monotonicity` |
| RingProofs | capacity, finite sets of producers and consumers, both modes; finite disjoint sets of readers and writers, messages | `QueueRefinesFifo`, `QueueWakesSleepers`, `PipeRefinesFifo`, `PipeEndsAreSound` |
| BondProofs | set of processes, number of loads | `BondsAreSound` |
| CachePlaces, CacheLocks, CacheProofs | finite sets of clients and blocks, sectors, calls of the clients | `CacheIsSafe` |
| MachineProofs | set of threads, devices, sectors and values; finite set of processors | `IdeServes`, `SmpAgreement` |

The assumptions are those the modules name (`ThreadsAssumption`,
`SchedulerAssumption`, `CacheAssumption`, `PipeSetting`, `BondSetting`, ...): types
of the constants, and finite sets where something is counted.

**Block lock.** None of the properties is inductive alone. `NoLostWakeup` needs to
know *why* a sleeper sleeps: a writer sleeps because somebody holds the lock, it
is the readers' turn, or another writer was signalled
(`WriterSleepsForAReason`); a reader sleeps because of a writer that holds the
lock or waits for it (`ReaderSleepsForAReason`). That the readers' turn ends
needs a reader who takes it (`ReaderTurnIsTaken`), and this needs
`PendingReadersCounted`, because a releasing writer decides by
`pending_readers` whom to wake. The counters are compared with the threads by
`CountsMatchHolders`; the lemma `Move` says what moving one thread does to the
sets `At(x)` and their cardinalities. `TurnExcludesWriter` keeps readers out
while a blocking writer is inside. There is one lemma per kind of step (granted,
goes to sleep, released to a writer, released to readers, sleeps again), and
`NextIInv` puts the actions together from them. `waiting` checks `IInv` itself.

**Scheduler.** Virtual runtime never falls because what is charged is a difference
of two time stamps, and these are in order only if each was set by the switch that
the thread's state says was its last. `IInv` therefore joins the states with the
queue (`QueueMatchesState`) and with the time stamps (`TimersMatchDebts`), and adds
`ChargedAtMostOnce`; `machine` checks it.

**Queue and pipe.** The mapping to Fifo is the ring's contents, and each step is
shown to be a step of Fifo or none. For the queue's wake-ups the invariant
`WakeInv` counts: while a consumer sleeps, at least as many others have been
signalled as there are elements, and the same for producers and free slots. For the
pipe, `Transfers` says what a writer in the middle of its message still has, and
`Ends` ties each end's reference count to the processes that still hold it, and
the freeing of the pipe to the two ends. A process between the load and the store of
its decrement carries a value of its own, so the count is bounded from below only: it
never falls under the number of processes that have not stored yet, and neither does
a value that one of them has loaded.

RingProofs begins with the lemmas about the ring that both rest on: what putting and
taking do to its contents, whatever the wrap-around.

**Process family.** A bond has two sides, and who still holds one depends on where the
process is in its code, not only on the lists. `Lists` says that a bond is on the list
of one process at most; `Family` that a process between taking a bond off its list and
being done with it is the only one to own the parent's side. `Counted` then ties each
bond's counter and memory to the sides that hold it, and to the locals `reap` of the
two processes: whoever drops the last reference, and nobody else, goes on to free the
bond. The proof has one lemma for a step that touches one bond (`CountedStep`); the
actions apply it.

**Buffer cache.** `ContentionIsSafe` says that no block is lost from or doubled in the
two lists, and that who holds a block exclusively is alone in it. The first half needs
`Placed` (CachePlaces): the lists have no block twice, and everybody who works on a
block works on one of the cache. The second half needs `Locks` (CacheLocks), which
compares the counters of each block's lock with the threads in each role at it. The
counter of readers bounds the readers only from above, because a thread that backs off
clears the `mode` field under a reader (section 5), whose lock is then never released;
what can be trusted of `mode` is that a writer's is right, and that a reader never
releases a writer's lock. CacheProofs has one lemma per kind of step and the theorem.

**Disk.** The invariant `IdeInv` ties the place of the thread that holds the channel's
lock to the controller: the expecting_interrupt flag, the semaphore and the pending
interrupt are set in the combinations that place allows, and in no others.

**Processors.** `SmpInv` is the conjunction of two independent invariants. `BootInv`
follows the start of the processors from one to the next. `FlushInv` follows each
pending flush between its sender and its receivers: `Roles` says who may send and who
must answer, `DirsApart` that no two processors run on one page directory, and
`StaleAreNamed` that a TLB that is behind has a sender that still waits for it.

Only model-checked, and why:

- liveness (`SomeCallFinishes`, `ThreadsMakeProgress`, `NoGroupStarves`,
  `SleepersNoticeClose`, `FamilyCallsReturn`, `PromptReturns`, `FlushReturns`): out of
  the prover's reach;
- `BlocksAreSound`, `CleanMeansSaved` and `ImplementsStore` of the buffer cache: they
  hold in the scenarios of `cache_store` and not in general, as section 5 says;
- what rests on recursive operators, where what a recursion computes for every input
  cannot be proved with this prover (`PartitionsStayInside`, `CallsKeepTheirPromise`,
  `ContainersKeepTheirElements`, and `SpacesAreSound` for the first stack page);
- `ThreadsAreSound`, `NobodyOversleeps` and `ImplementsMonitor` of Threads, and the
  invariants of the file system's, the memory's, the console's and the shell's
  modules: their inductive invariants are not written.

## 5. Disagreements between the code and its comments

With a run that shows them:

- `rw-lock.c:106`: a try ignores the readers' turn, so a writer and readers can
  hold the lock together (`rwlock_try_exclusion`). In the cache it lets eviction
  retag a block a reader holds.
- `cache.c:176`: two threads that miss on one sector in a full cache each
  dedicate a block to it (`cache_dup`).
- `pipe.c:150`: two processes that close the two ends at once may both free the
  pipe (`pipe_free`).
- `process.c:333` and `:345`: a process that exits uses a bond after it dropped
  its reference to it (`bond_freed`).
- `inode.c:349`: two processes that open a closed directory at once get two
  inodes for it (`inode_twice`).

Stated as the condition of a passing property:

- the second of two readers or writers asleep when the other end of a pipe closes is
  never woken (`SleepersNoticeClose`);
- `file.c:115`: of two decrements of an open file's count that overlap, one is lost,
  and the file, with its end of a pipe, is never released (`PositionsAdvance`,
  `PipeIsSafe`); or both closers find 0 and free it twice. The count of denied writes
  goes wrong in the same way, and an assertion of `inode.c` may fail;
- a child that runs out of pages before `load` never releases its parent, and the page
  with its command line is lost (`CreateReturns`, `ArgPagesAreReturned`);
- `directory.c:309`: a directory that was found empty may get an entry before it is
  removed (`late` in FileSystem), and `NamesFormATree` claims nothing from then on;
- `intq.c:103`: of two readers of the keyboard who sleep, the first is forgotten, and
  wakes only if it is taken for somebody else (`IntqNoLostWakeup`);
- `serial.c:265`: "in the worst case, we may allow an additional interrupt". When a
  writer of the register is overtaken by another processor, an interrupt is left off
  as well, with a byte to send or room to receive, until the next call
  (`RegisterFollowsQueues`);
- `mem.c:30`: sbrk of exactly one page at a page boundary installs no page when the
  page after it is mapped (`HeapIsMapped`);
- `pagedir.c:78`: a fork that runs out of memory frees its parent's tables
  (`SpacesAreApart` claims only that nothing is lost from then on);
- `string.c:47`: memmove returns the end of the copied bytes when it copies upwards,
  where its comment says "Returns DST"; `string.c:367`: strlcat writes no terminator
  when the destination fills its buffer, where its comment says that it always does
  (`CallsKeepTheirPromise`);
- `user/malloc.c:471`: a search for a free block gives up after a number of blocks that
  are too small, so the heap may grow while one would do (`GrowsOnlyWhenFull`);
- a path that starts with `/` leaves the last directory's inode open; FileSystem
  counts these apart;
- the free map is used by one thread in `storage`. It has no lock, and with two
  users `MapMatchesOwners` fails: both are given one sector;
- `squish-unix.c:214` returns at the end of the socket and drops what is still in its
  buffer, where its comment says that data is copied "until no more data can be read
  or written". `AllOutputRelayed` claims that all was read, and that `squish-pty.c`
  wrote it.

Met while modelling, without a run:

- `cache.c:138`: a thread that backs off clears the mode field that another
  reader's `cache_put_block` relies on, and the read lock is never released. With
  one block, two sectors and two clients TLC finds `LocksMatchHolders` violated.
- `partition.c` reads sector 0 for every table, so that extended partitions are
  never followed to their own table. `Partition` does the same.
- `fsutil.c:218` writes both sectors of an archive's end marker to one sector.
- `process.c:736` sizes the array of words in bytes; ProgramArgs takes it to be
  large enough.
- `rtc.c` adds the days of the current month and miscounts leap years, so that the
  time jumps back at the end of a month. `Clock` checks only that the six registers
  are of one moment.
- `stdio.c` pads on both sides when the width of `%0*d` is negative.
- `timer.c:74` tests each bit of the calibration without the ones already found.
- `user/malloc.c:313`: realloc compares a size in words with one in bytes.
- `usb_uhci.c:1043` asserts that interrupts are on while it holds a spinlock, which
  turns them off: the driver stops at its first transfer.

## 6. Not modelled

- **PCI, USB, the interrupt controllers, the interval timer, the speaker**: what they
  do is up to the hardware, and the code only sequences register accesses. The USB
  driver cannot start a transfer (above).
- **Boot loader and assembly**, and set-up that runs before anything is concurrent.
- **Timer calibration and busy waiting**: they measure real time.
- **ELF headers**: loading is a step that may fail anywhere; which header is
  accepted is a list of comparisons.
- **readdir, realloc, print_human_readable_size, comparison and search functions of
  string.c, the parser's copying of strings, listing of the scratch device**: they
  change no shared state, or (realloc of user programs) break what the model says of
  malloc and free, as above.
- **The list of duplicates of list_unique**: no caller passes one.
- **A stray interrupt of a disk**: the controller of IdeDisk raises one for each command.
- **The load balancer** of `thread.c`: its only call (line 660) is commented out.
- **What one walk of the write-behind daemon owes**: `cache.c:324` may end a walk early
  when a block moves. What it skips is saved later; that is checked, completeness of
  a walk is not.
- **Other example programs and the tests**: straight-line users of the system calls.

Next would be a property of the unlocked decrement of `open_cnt` (`inode.c:400`), as
FileIO has one for that of an open file, and a proof of what Threads claims.
