# TLA+ specifications of the BUENOS kernel

BUENOS is a teaching kernel for MIPS multiprocessors (the YAMS simulator), written in C
with some assembler. It has kernel threads on up to four CPUs, spinlocks, sleep queues,
semaphores, userland processes, a virtual filesystem layer with one filesystem (TFS),
interrupt driven disk and terminal drivers, a page pool, and a packet protocol (POP).
Source paths below are relative to the root of the repository.

The modules here model the parts where threads, CPUs, interrupt handlers and devices
meet, the filesystem on a disk that fails, and the memory that programs are loaded into. TLC
checks them on small instances; TLAPS proves the safety of the scheduler, the process table, the
semaphores, the disk and terminal drivers, the virtual filesystem, the network protocol and the
memory for machines of every size, and that two of them implement their abstract specifications.

## 1. Inventory

| Component | State | Operations | Interacts through | Correct when |
|---|---|---|---|---|
| Threads, scheduler (`kernel/thread.c`, `kernel/scheduler.c`) | thread table, ready list, current thread per CPU | `thread_create`, `thread_run`, `thread_switch`, `thread_finish`, `scheduler_schedule` | `thread_table_slock`; called from interrupt exit | a thread runs on one CPU; ready list holds the READY threads; every ready thread runs |
| Sleep queue (`kernel/sleepq.c`) | hash table of chains, `sleeps_on` | `sleepq_add`, `sleepq_wake`, `sleepq_wake_all` | both spinlocks; used by all waiting code | no wake is lost or applied twice, FIFO per resource |
| Interrupt dispatch (`kernel/interrupt.c`, `cswitch.S`) | mask, handlers | `interrupt_handle` | calls handlers, then the scheduler | |
| Semaphores (`kernel/semaphore.c`) | table, value, spinlock each | create, destroy, P, V | sleep queue on the semaphore's address | counting, FIFO, no free semaphore in use |
| Processes (`proc/process.c`) | process table, zombie lists, child counts | spawn, join, finish | sleep queue on the row; threads; page tables | family records exact; join returns the exit code; no exit slept through |
| System calls (`proc/syscall.c`) | none | exec, exit, join, file calls | process table, VFS, terminal | |
| VFS (`fs/vfs.c`), shutdown (`kernel/halt.c`) | mount table, open files, operation count | mount, unmount, file calls, `vfs_deinit` | three semaphores; drivers of filesystems | no driver call on an unmounted filesystem (two calls excepted, section 5); shutdown waits and ends |
| TFS (`fs/tfs.c`) | directory, allocation and inode blocks, buffers | file calls of the driver | `tfs->lock`, disk | blocks owned by one file, also after failures |
| Disk driver (`drivers/disk.c`, `disksched.c`) | request queue, served request | submit, interrupt handler | a semaphore per request | requests served once; nothing touched after return |
| Terminal (`drivers/tty.c`), kernel printing (`drivers/polltty.c`, `lib/xprintf.c`) | two ring buffers | write, read, interrupt handler, `kprintf` | one spinlock, sleep queue, status port | characters once and in order; an interrupt is always coming |
| Host tool (`util/tfstool.c`) | the same volume | create, list, write, read, delete | the volume, while the machine is off | agrees with the driver about every file |
| Virtual memory (`vm/*`), kmalloc | page pool, page tables, TLB and ASID per CPU | get and free page, map, fill TLB | spinlock; processes, POP | pages have one owner; a program reaches no page of another live program, of the kernel or of the pool |
| Loading (`process_start`, `proc/elf.c`), exceptions | page table of the thread | parse header, map, store, enter userland | VFS, page pool, TLB | a program runs with its whole page table in the TLB |
| Frames, POP, sockets (`net/*`) | socket table, frame queue | open, close, sendto, recvfrom, push, service thread | four semaphores | a frame is freed once; receivers return |
| User semaphores (`proc/semaphore.c`) | named table | open, p, v, destroy | kernel semaphores | one semaphore per name |
| Startup, device tables, library | set up once | | | sequential |

What is hard here: several CPUs in the same code, handlers that run while the interrupted
thread is between two steps, waiting that is split into "register, unlock, leave the CPU",
data used after a lock is released (semaphore and request memory, filesystem pointers, rows
of tables), and shutdown racing with operations. `PROJECT.json` lists the most important places
under `hazards` with the properties that watch them.

## 2. Modules

| Module | Models | Rests on |
|---|---|---|
| `Scheduler` | thread table, ready list, sleep queue, interrupt entry, on many CPUs | |
| `SleepQueueSpec` | what the sleep queue promises: a FIFO of waiters per resource, and who is asleep | |
| `Process` | process table, spawn/join/finish | queues as in `SleepQueueSpec` |
| `Semaphore` | semaphore table, P and V under the semaphore's spinlock | queues as in `SleepQueueSpec` |
| `SemaphoreSpec` | counting semaphores served first come, first served | |
| `Disk` | disk driver composed with `Semaphore` (INSTANCE) | `Semaphore` |
| `VFS` | mount table, open files, operation count, halt | guards as in `SemaphoreSpec` |
| `TFS` | TFS driver on a disk with failing transfers and a machine that stops | `tfs->lock` as a guard of `SemaphoreSpec`, calls as `VFS` makes them |
| `TfsTool` | the host tool, and driver and tool on one volume | `TFS` (EXTENDS) |
| `Network` | frame pages, POP queue, service thread, sockets | semaphores as in `SemaphoreSpec` |
| `Memory` | kmalloc, page pool, page tables, TLBs, loading a program, TLB exceptions | thread rows as in `Scheduler` |
| `TTY` | terminal driver, ring buffers, status port, `kprintf` on the same port | queues as in `SleepQueueSpec` |
| `SchedulerProofs`, `ProcessProofs`, `SemaphoreProofs`, `DiskProofs`, `VFSProofs`, `NetworkProofs`, `MemoryProofs`, `TTYProofs` | theorems about the module they are named after (section 6) | that module (EXTENDS) |
| `MC...` | instances for TLC | |

Names follow the source: variables have the names of the C variables, actions those of the
functions or of the part of a function that is one step. `PROJECT.json` (`map`) gives the
lines of every definition.

**What is one step.** Interrupts are off while a kernel spinlock is held, so a section under
one spinlock is invisible to others that use the same spinlock, and is one step. It is
cut up where somebody does look inside: `sleepq_slock` is held over several sections of
`thread_table_slock`, a semaphore is reset by `semaphore_create` without its spinlock, and
the terminal changes its status port whatever locks the driver holds. What the code does
*without* a lock (filling in a new row, checks before the lock, calls into drivers) is
always a step of its own.

### Scheduler
`state`, `sleeps_on`, `next_tid` and the position `pc` of each thread's code stand for the
thread table; `ready_to_run` and `hashtable` hold as sequences what the code links through `next`;
each CPU has its `current` thread, its `mode` (thread code, handlers, about to schedule,
picked) and the locals of a `sleepq_wake` in progress. `Schedule` is `scheduler_schedule`
up to its unlock and `Resume` the rest: between them the CPU has chosen a thread and still
has the old one in `scheduler_current_thread`. `OneCpuPerThread` compares the threads that CPUs
have as current or have picked. It does not cover the stack of the old thread, which its CPU still
stands on between `Schedule` and `Resume` while another CPU may already have picked that thread:
stacks and register contexts are left out, and so are timer ticks and page tables.

### Process
`table` is `process_table` with its links. Row -1 is the memory before the table: the
startup thread has process ID -1 and `process_join` writes there, with any value in what is
read. The program a process runs is chosen at the start (`Workloads`, kept in `load`):
programs that join all children before they exit, or programs that leave orphans and
zombies. The zombies of a process are those the links lead to from `first_zombie` (`Zombies`): the
least set that holds the first one and with each row the one `next_zombie` names. An orphan that
exits is linked to the row of its parent even when that row is free; such a zombie keeps its row
for good, since the next process in the parent's row starts with an empty list.
Loading a program (`process_start`) is in `Memory`.

### Semaphore and Disk
P and V take the spinlock, work, and give it back in three steps; the callers are those of
the kernel: guards (created with 1 or more: P, then V) and signals (created with 0). In
`Semaphore` callers destroy a semaphore nobody uses. `Disk` has the one caller that does
not wait for that: a thread destroys its request's semaphore as soon as P returns, while the
handler that woke it may still be inside V. `Disk` uses the actions of `Semaphore`
unchanged. It models the synchronous requests, the only ones the kernel makes.

With two drives the handler may release the spinlock of a semaphore that was created again in the
meantime (section 5). The work under the spinlock is one step of the model also then. On the
machine two such sections could overlap and lose one of two updates of the value, which leaves a
requester asleep. The safety properties do not depend on it; `RequestReturns` is checked
with one drive and no other user of semaphores, where it cannot happen.

### VFS
Each call is: `vfs_start_op`, its part under `vfs_table.sem` and/or `openfile_table.sem`, the
driver's function, `vfs_end_op`. A driver call takes time and returns any result. The set
`live` (filesystems whose structure exists) is history for the properties. Names are sequences
of characters and `ParsePathname` is `vfs_parse_pathname`, with the lengths it accepts; handles
are those of `proc/syscall.c`. Programs use the handles they were given: another number is an
assertion that fails, and the kernel panics. `vfs_mount_all` at startup is a sequence of
`vfs_mount_fs`.

### TFS and TfsTool
`disk` maps block numbers to contents: magic number, set of blocks in use, directory, inodes,
data. A call keeps `tfs->lock` throughout, so its reads and computations are the step that
begins it, and each block it writes is a step (`Transfer`); before any of them the transfer
may fail (`Fail`: the call returns without undoing anything) or the machine stop (`Crash`), and the
volume goes on being used as it is. `tfs_open` is the exception: it reads the inode number from the
shared buffer after it gave up the lock, so that read is a step of its own; any call, `tfs_remove`
of the same file included, may come in between. Calls that only read are operators, which the
properties evaluate in every state. The history `files` is the abstract filesystem, a map from
names to contents: it changes when a call returns, and `FilesAsPromised` relates the volume to
it. Three more histories say where a property stops: `cut` names the files that calls left behind
when they were cut short, by what is wrong with them (blocks leaked, data partly written, `torn`: in
the directory with an inode that was not written, `loose`: in the directory with blocks that are not
marked as used); `removed` in a handle says that `tfs_remove` was called for the file since it was found;
`mixed` says that a call has begun that works on the blocks of a torn file, allocates while
a file is loose, or writes through a handle whose file was removed. Until then every property
holds of every file that is not itself torn; from then on they promise nothing (section 5).

The tool works on the same `disk` while the volume is not mounted; it writes in another
order, takes the first free directory slot where the driver takes the last, and may take a block
more. `tfstool create` writes the header with the magic number first and the other blocks after it,
so a volume may be mounted of which only a part is there; what the image does not hold reads as
zeros, which is an assumption about the simulator's disk. `LoseVolume` forgets the volume: when the
image is deleted, and when a call takes a block of data for an inode, which it can do only in a
volume where calls were cut short; nothing could be said of the result.

### Network
A frame is a page of the pool with its destination port. The page is taken by `network_send` or
by the receive thread, moves into a slot of `pop_queue`, and is freed by an eviction, by the
service thread's discard, or after delivery. The service thread's pass over the queue is one step
under both semaphores; everything after it (copying to the receiver's buffer, freeing the frame,
clearing the slot) happens without a lock and is a step each, whoever pushes, opens or closes
meanwhile. The model stops (`fatal`) where the kernel does: a page is freed that is free already
(`vm/pagepool.c:153`), or the NULL pointers of a closed socket are followed. It also stops where the
freed page already holds the frame of somebody else. A socket may be closed under a receiver,
which is left asleep (`lost`) or finds the NULL pointer. The history `rebound` names slots whose frame is bound to
a row of the socket table that was opened again since. Timestamps are ranks. `MaxSignals` pending
wake-ups of the service thread stand for that many or more: pushes always happen, and `Sleep` at
the bound may leave the count as it is. There is no network device driver in the repository:
frames come from the loopback address or, from outside, as any frame `gnd->recv` may return.

### Memory
The machine boots (`KmallocInit`, `Kmalloc`, `VmInit`), threads are created and load a program in
the steps of `process_start`, and CPUs switch between them at any point, filling the TLB on the way
as `interrupt_handle` does. An address is its page number; page table entries cover two pages as the
TLB's rows do. A panic (an empty pool, a TLB exception, a bad file where the code asserts) switches
the machine off and resets the state. One step each, because nothing else looks at what they
change meanwhile: `vm_map`, creating a page table together with attaching it, and freeing it at
the end. The history `left` has the pages that finished programs leave behind, per thread ID. The
TLB starts empty. TFS and the network also take pages; their pages are in their own
modules.

### TTY
`busy`, `wirq`, `rirq`, `wirqe` are bits of the status port and belong to the terminal; the
terminal's own steps are `Finish` and `Type`. External behaviour assumed: finishing a
character clears busy and sets WIRQ, which interrupts if enabled; WIRQ resets by command; a read of the data
port takes one character and RIRQ stays raised while there is input. Write interrupts start
enabled, since the driver enables them only in its handler.

## 3. Runs

States are distinct states; all runs together take a few minutes.

| Run | Instance | Shows |
|---|---|---|
| `scheduler` | idle + 2 threads, 2 CPUs, 2 resources in one chain (184,000) | `TypeOK`, `Safety`, refinement of `SleepQueueSpec`, `WakeAllWakesAll`, and under fairness `ReadyRuns`, `LeavesCpu` |
| `processes` | 4 rows with programs that join all children, 3 rows with programs that exit first, exit codes -1 and 1 (163,000) | `TableSound`: child counts and doubly linked zombie lists exact, live rows stay, no exit slept through; join returns the exit code, a child that can still be joined keeps its row |
| `process_joined_parent` | 3 rows, programs that exit first | **violated**: `JoinedAreFreed` (section 5) |
| `semaphores` | 4 threads, 1 handler, 1 semaphore reused, start values 0..2 (15,000) | exclusive locked parts, value counts sleepers, guards hold, refinement of `SemaphoreSpec`, waiters get the guard |
| `disk_driver` | 1 drive, 3 threads, 2 semaphores, handlers on 2 CPUs (177,000) | types, those of `Semaphore` included, driver's assertions, requests alive while touched, calls return after the transfer, all return |
| `disk_semaphore_reuse` | 2 drives, 2 threads, 1 semaphore, handlers on 2 CPUs | **violated**: `SemaphoreLocked` (section 5) |
| `vfs` | 3 threads (mount, unmount, halt; open files; lookups and halt), 2 filesystems, 2 names, 7 path names, 1 open file (122,000) | shutdown waits for operations, no call on an unmounted filesystem except by `vfs_filecount` and `vfs_file`, tables consistent, open files stay open, a halt ends, calls return |
| `tfs` | 8 blocks of 2 bytes, 2 files, 1 thread that opens files, sizes 0, 5 and 7 where 6 is the maximum, 1 fault, symmetric (3.2 million) | volume consistent until a call mixes blocks, files hold what was promised, handles stay right unless the file is removed, tool and driver agree |
| `network` | 1 thread with 2 sockets, 2 ports, queue of 2, 3 pages (240,000) | a frame has one place and is freed twice around a discard only, sockets consistent, deliveries right, receivers get their own frame and are served |
| `network_public` | 2 threads that share 1 socket, otherwise the same (2.1 million) | a frame has one place, also when a socket is closed under a receiver |
| `memory` | 8 pages, 2 CPUs, 2 threads, TLB of 3 rows, 8 program files, good and bad, symmetric (986,000) | pool exact and pages with one use, programs run in their own space, matching TLB rows reach own pages or those of a finished program with the same ID |
| `tty_driver` | buffer of 2, calls of 2 and 3 characters, handlers on 2 CPUs, 4 pairs of users (55,000) | output once and in order and calls unbroken, an interrupt always coming, input in order, calls return |

**Bounds, and why they are enough.** Scheduler: with two threads and two CPUs every pair of
operations meets at every point, a chain of two holds a match behind a non-match, and the
idle thread competes; the proofs cover all other sizes. Processes: four rows give a parent
with three children, so a zombie is taken from the head, middle and end; three rows give
grandparent, parent and child for orphans, where four did not finish in reasonable time.
Semaphores: one guard held, two contending, one more arriving; a single semaphore is
re-created at once. Disk: more threads than semaphores, a busy drive with a queue behind it.
VFS: a thread each to unmount, to keep files open and to look up names, two that halt, tables
that fill up, paths of every well and badly formed kind (`NameLength` 3); positions are one value (`MaxSeek` 0), since TFS checks
offsets. TFS: a volume that fills up, files whose last block is full, partly full and missing,
writes across a block boundary, both directory slots taken, and one fault at every write
(`MaxFaults`), after which the volume goes on being used. One thread opens files: `tfs_create`,
`tfs_remove` and the calls that read belong to no particular thread, so they come between its steps
all the same. `Followed` ends a behaviour when a call that mixes blocks has returned; no property
speaks of what comes after. Network: a queue that is full and evicts, one page more than the queue
has slots, as the receive thread needs; one thread with two sockets has every call between any two
steps of the service and receive threads, and a second thread adds sharing and closing in
`network_public`, while the proofs cover the safety of both with any number of threads and sockets.
Memory: a pool that runs empty after a few programs, thread
IDs that are used again, a program that moves between CPUs, TLBs with fewer rows filled than
the last program used; `MaxStatic` ends the drivers' allocations. TTY: a buffer that both fits and does not fit a call and wraps
at once; `MaxCalls` and `MaxInput` bound the calls of a thread and the characters typed, so
the model stops and deadlock is not checked; the same holds when all processes have ended
(`Process`). `vfs` turns deadlock checking off because a call may wait for a machine
that is being switched off; `CallsReturn` states what must not block. In `network` all threads
may wait for frames nobody sends.

Every property has a mutant: an operator such as `Claim_Late` or `Patch_Fault` next to the definition `Name` it
replaces, changing the code as a plausible mistake would, under which TLC reports that
property violated.

**Restrictions of the runs.** Each excludes a behaviour the modules do have:
- `rows` of a workload: `alloc_process_id` loops with `<=` (`proc/process.c:83`), so a
  full table hands out the row behind the array, whose ID `process_join` refuses. The theorems
  of section 6 hold for every `rows`, a full table included.
- `JoinsOwnOnly`: `process_join` accepts a row that was never used, because zeroed memory
  has parent 0: process 0 joining such a row sleeps for ever (`proc/process.c:295`).
- `joins` of a workload: an orphan keeps the ID of its parent; when that row is
  reused the new process is taken for its parent (`proc/process.c:352`), and the family
  records are then wrong. In the workload without it `TableSound` asks for what still holds.
- `process_spawn` finds a free thread row: `thread_create` returns a negative number when there is
  none, which is passed on to `thread_run` (`proc/process.c:270`).
- `TypeOK` of `TTY` admits `BufSize + 1` unread characters: the handler's test
  (`drivers/tty.c:172`) lets one too many in, which overwrites the oldest. `ReadInOrder`
  therefore speaks of inputs without overrun.
- `CallsOnLiveFS` leaves out `vfs_filecount` and `vfs_file` (section 5).
- `VolumeSound`, `FilesAsPromised`, `HandleIsFile` and `ToolAgrees` hold until `mixed`, and except
  for files that are torn (section 2): the code has no check of a volume.
- `FilesAsPromised` speaks of `tfs_file` only when the files fill the directory from its start.
  `tfs_file` stops behind the files it counted and may return the name of an empty entry
  (`fs/tfs.c:854`), and because `tfs_create` takes the last free slot, volumes with gaps are the usual
  case: what a listing of the directory shows there is not promised.
- `HandleIsFile` ends for a file when `tfs_remove` is called for it: `tfs_remove` frees the blocks of an
  open file (`fs/tfs.c:483`), and reads through the handle then reach whatever uses them next.
- `Private` in `network`, a constant: a socket is used by the thread that opened it. `network_public`
  does without it, for the one property that holds then.
- `DeliveredRight` says nothing of the port for a frame in `rebound`, and `ReceiverServed` nothing of
  a receiver whose frame is bound to another row, or whose slot comes behind one that frames keep
  coming for (section 5).
- `vfs_unmount` leaves the volume's name in its row, and `vfs_mount` compares names of
  empty rows too (`fs/vfs.c:444`): a volume cannot be mounted again. Modelled as it is.

## 4. Fairness

- A CPU goes on: what it does with interrupts off, and the rest of `sleepq_wake` and of
  scheduling, are weakly fair. Nothing obliges a thread to sleep, finish, or make a call.
- In `Scheduler` the timer interrupt and the end of a handler are strongly fair: a timer
  interrupt stays pending while interrupts are off, so it is taken when they are on again and
  again, and a handler makes finitely many calls of `sleepq_wake` before it ends.
- Spinlocks are LL/SC loops and give no order (`kernel/_spinlock.S`). Where a lock is
  taken and given back repeatedly, strong fairness of the acquiring step is an *assumption*:
  on hardware a CPU could in principle lose every race. It concerns V in `Semaphore`, the
  submitting threads of `Disk`, and the threads and handlers of `TTY`, and only the liveness
  properties. `sleepq_slock` needs no such assumption on the instance checked.
- The scheduler's ready list is FIFO; that every ready thread runs (`ReadyRuns`) justifies
  weak fairness of threads in the other modules. Semaphores are FIFO; `GuardIsReached`
  justifies strong fairness of P on a guard in `VFS`.
- The service thread of POP and threads inside `socket_recvfrom` are weakly fair for the same reason.
- Devices answer: a drive finishes its transfer, a terminal its character, and some CPU takes
  the interrupt. Filesystem drivers return.

## 5. Disagreements between code and documentation

- **Joined parents stay** (`process_joined_parent`). When the last child of a joined zombie
  exits, `finish_given_process(parent, 0)` makes the parent a zombie again instead of freeing
  it, against the comment at `proc/process.c:367` and `proc/process.h:81`.
- **Late unlock** (`disk_semaphore_reuse`). `semaphore_V` wakes the requester before it releases
  the semaphore's spinlock (`kernel/semaphore.c:183`). The requester destroys the semaphore
  (`drivers/disk.c:250`), a request on another drive gets it and takes its fresh spinlock, and the first
  handler releases that, against what `doc/roadmap/roadmap.tex:2404` says of the spinlock. With one drive
  another call of `semaphore_create`, such as `socket_open`'s (`net/socket.c:151`), can take the slot just
  as well. The run has a table of one semaphore; in a larger one `semaphore_create` has to come round to
  the slot first.

The following are reached by the passing runs, whose properties exempt exactly these cases, or lie
behind a restriction of section 3; no run of their own shows them:

- **Segments before the TLB.** `process_start` fills the TLB, maps the segments and
  stores to them without another fill (`proc/process.c:193`), against the comment at
  `proc/process.c:173`. Unless a context switch came in between, the store is a TLB
  exception and a panic, or goes to a page left by a finished program with the same thread ID.
- **TLB rows of finished programs.** `tlb_fill` overwrites as many rows as the new page table has
  (`vm/tlb.c:76`). Rows behind them that belong to a finished program with the same thread ID still match,
  and a page that both programs map may be read from either. `Isolated` allows these pages (`left`) and no others.
- **A wake-up for the other receiver.** `socket_recvfrom` unlocks the
  sockets before it waits (`net/pop.c:215`): the first receiver may be served before it
  waits, a second one then takes its wake-up and returns without a frame, against the comment at
  `net/pop.c:204`. `Safety` and the theorem `OwnFrames` are therefore about private sockets.
- **A frame freed twice.** The service thread frees a discarded frame and clears its slot after it
  unlocked the queue, without marking the slot busy (`net/pop.c:439`). `pop_push_frame` may evict the
  frame in between: the page is freed twice, which the assertion at `vm/pagepool.c:153` stops, or has a
  new frame by then. `FramesInOnePlace` says that a discard is the one place where this happens; both
  runs of `Network` go through it.
- **A frame for the last user of a row.** A frame stays bound to a row of the socket table
  (`net/pop.c:396`). If the row is closed and opened for another port, the frame is delivered there
  (`net/pop.c:414`), and a receiver at the port it was sent to does not get it.
- **Slots that starve.** Each pass of the service thread starts at the first slot (`net/pop.c:390`), so
  frames that keep coming for it keep later ones waiting until they are evicted.
- **A socket closed under a receiver.** `socket_close` wakes nobody and destroys the semaphore
  (`net/socket.c:192`): the receiver sleeps on, or the service thread follows a NULL pointer.
- **A late read in `tfs_open`.** It reads the inode number after it released the lock (`fs/tfs.c:238`).
  With a `tfs_remove` of the file in between it returns 0, and with a `tfs_create` after that the inode
  of another file.
- **Blocks in two files.** When the directory write of `tfs_remove` fails (`fs/tfs.c:504`), the call
  returns an error and the machine goes on with a file that is listed and whose blocks are free. The next
  `tfs_create` gives them to its file. Calling `tfs_remove` again first makes it good.
- **Lookup after unlock.** `vfs_filecount` and `vfs_file` call the driver after
  they unlocked the mount table, against the comment at `fs/vfs.c:278`:
  an unmount in between frees the filesystem under them. No system call unmounts.

## 6. Proofs

Eight modules are proved about, each in a module of its own and for every value of its constants
that the assumption of the module allows: any number of CPUs, threads, semaphores, drives, files,
sockets, pages or TLB rows. Every safety property that a run checks of these modules is a theorem.
The proofs of one module are laid out alike: the parts of the inductive invariant (`IndInv` in
`SchedulerProofs`, `IInv` elsewhere), lemmas about the data structures, per action a lemma on what
it does, per part of the invariant a lemma with a step for each action, and the theorems. TLC
checked each inductive invariant on the run's instance before it was proved.

| Module | Theorem | Shows |
|---|---|---|
| `SchedulerProofs` | `TypeCorrect`, `SchedulerSafe` | `[]TypeOK`, `[]Safety` |
| | `WakeAllComplete` | the action property `WakeAllWakesAll` |
| | `SleepQueueImplemented` | `Spec` implements `SleepQueueSpec` |
| `ProcessProofs` | `TypeCorrect` | `[]TypeOK` |
| | `TableCorrect` | `[]TableSound` where programs join only what they spawned |
| | `JoinCorrect` | the action property `JoinReturnsExitCode` under the same hypothesis |
| | `KeptCorrect` | the action property `UnjoinedKept`, about children that can still be joined, under the same hypothesis |
| `SemaphoreProofs` | `TypeCorrect`, `SafetyCorrect` | `[]TypeOK`, `[]Safety` |
| | `SemaphoresImplemented` | `Spec` implements `SemaphoreSpec` |
| `DiskProofs` | `TypeCorrect` | `[]TypeOK` |
| | `SafetyCorrect` | `[]Safety`, for any number of drives |
| | `ReturnsCorrect` | the action property `ReturnsTransferred` |
| `VFSProofs` | `TypeCorrect`, `SafetyCorrect` | `[]TypeOK`, `[]Safety` |
| | `OpenFilesKept` | the action property `OpenFileIsKept` |
| `NetworkProofs` | `TypeCorrect`, `FramesCorrect` | `[]TypeOK`, `[]FramesInOnePlace`, however sockets are shared |
| | `SafetyCorrect`, `DeliveredCorrect` | `[]Safety`, `[]DeliveredRight` where sockets are private |
| | `OwnFrames` | the action property `OwnFrameOnly` where sockets are private |
| `MemoryProofs` | `TypeCorrect`, `PoolCorrect`, `RunsCorrect`, `IsolationCorrect` | `[]TypeOK`, `[]PoolSound`, `[]RunsInItsSpace`, `[]Isolated` |
| `TTYProofs` | `TypeCorrect`, `OrderCorrect`, `InterruptCorrect` | `[]TypeOK`, `[]InOrder`, `[]InterruptWillCome` |

**Scheduler.** `Safety` (one CPU per thread, what runs is RUNNING or DYING, exact ready list and
sleep chains, no lost sleeper, wakers exclude each other) is not inductive: whether a wake may put
a thread on the ready list depends on where that thread's code is. `ThreadInv` says for each
position of a thread's code what its row looks like (in `sleepq_add` before the chain: RUNNING,
marked, not chained; creating: its child is NONREADY and nobody else's). `CpuInv` says it for each
mode of a CPU (a picked thread is RUNNING and sleeps on nothing; the thread a wake holds is off its
chain and still marked). For the refinement, the abstract queue of a resource is the part of its
chain whose threads wait for it (`Selected`), the k-th of which is found by counting (`Rank`), so
that taking the first match out of a chain is shown to take the head of the abstract queue.

**Process.** `PlaceInv` and `FillInv` say for each position of a thread's code which row its spawn
works on and what the row holds between `alloc_process_id`, the filling in and the counting;
`LiveInv` and `RunInv` that a row is RUNNING exactly while it is being filled or its process lives;
`JoinInv` that the row a thread joins is still its own child's, though the check was made before the
lock, and `FreeInv` that a freed row does not pass for a child; `WaitInv` that a queue holds the
sleeping joiner and nobody else; `ZombieInv` that a zombie has an empty list. The lists are the hard part.
`ListInv` describes them for every row that owns a list: that of a live process, of one being
counted, and also the row an orphan still calls its parent, which may be free or have a new
process. On those rows the lists are doubly linked, disjoint and hold ZOMBIE rows only,
so `LinkZombie` at the head, `UnlinkZombie` anywhere and `FreeZombies` change one list and no other
(`FrontAdds`, `OutRemoves`, `ZombiesSame`). Among programs that join all children, `KinInv` and
`ChildrenExact` add who is whose child, and that `children` counts them. All but `TypeCorrect` have
the hypothesis `JoinsOwnOnly`, a constant of the module: without it process 0 may join a row that
was never used, whose `parent` is 0, and sleeps on it for ever (section 3).

**Semaphore.** `semaphore_create` resets the spinlock without holding it. `CreatorAlone` says
that nobody else has the semaphore then, `UsersOfSems` that whoever is in P or V has one that
exists, `CountsSleepers` and `QueueSound` tie value, queue and positions together, and
`UnitsConserved` that the units of a guard are available or held: that is what makes
a guard exclusive. The refinement maps a value below zero to zero units available.

**Disk.** `PlaceInv`, `DriveInv`, `OwnInv`: where threads and handlers are in P and V, that a handler has
its drive's spinlock and the drive rests, and that a thread in the driver has a semaphore of its own.
`QueueInv`, `SleepInv`, `ValueInv`, `DoneInv`: a pending request is in one place and its thread
waits, a semaphore is raised once, for a transfer that is complete. None of these needs the locked
parts of P and V to exclude each other, which they do not (section 5, late unlock): a handler that
has raised a semaphore touches nothing of it but the spinlock (`Raised`).

**VFS.** `OpsCounted` (the counter is the number of threads between `vfs_start_op` and `vfs_end_op`)
and `HaltWaits` (the semaphore `vfs_deinit` waits for is raised only once no operation is under
way and none can start) give that the shutdown waits. `TableGuarded`, `MountsOwn`, `RowsOwned`,
`TableCallsMounted` say what the holder of the table's semaphore and of a row may rely on.

**Network.** `PagesOnce` (a page is free or in one slot), `SlotKept` (a slot that is being delivered is
busy, so it keeps its frame though no lock is held; no other slot is busy) and `FatalSound` carry
`FramesInOnePlace` and need nothing of the users: sockets may be shared and closed under receivers.
`HeadersKept` (a bound frame and its socket have the same port unless `rebound`), `PortsDistinct`,
`ReceiversSound` (a receiver's buffer is in its socket, filled but not signalled, or
signalled, and only one of these) and `NoneLost` (no socket is closed under a receiver) carry the rest. The last
two need the hypothesis `Private`, a constant of the module; without it `OwnFrameOnly` is false (section 5).

**Memory.** `PoolSound` needs to know of every thread how far it is in `process_start`
(`StepsInv`: what is mapped and what is still to be mapped fit into the TLB, and the last step is
the fill; `ThreadInv`: page tables belong to live threads and carry their ID). `RunsInItsSpace`
follows from the last step and from `Switch`. `Isolated` needs `RowInv`, about *every* row of every
TLB: the page it reaches stays reserved, is outside the kernel and is mapped, if at all, by the
thread whose ID the row has. It holds because pages of finished programs are never given back (`vm/vm.c:117`).
`OriginInv` adds where the page comes from: the page table of the thread with the row's ID, or one that a
thread with this ID left behind; a thread that has not begun to load has no page table yet. That
`bitmap_findnset` returns the lowest clear bit rests on the well-ordering of the natural numbers.
Assumed: the kernel's end lies in memory, pages are a multiple of a word, the stack has
no more pages than there are up to its top. Files have any entry point and any program headers.

**TTY.** `BufInv` and `CallInv` describe the ring buffers by index (`At`), `WriteInv` and
`WakeInv` say at which points of the code an interrupt is about to be caused, and `InputInv` that
what is read, buffered and waiting is numbered as it was typed, up to the first overrun.

The assumptions are in the modules (`SchedulerAssumption`, `SemaphoreAssumption`, ...) and TLC
evaluates them: sizes are positive, a model value such as `None` is none of the things it stands beside,
and bounds such as `MaxSignals` are natural numbers. The restrictions listed in section 3 are
guards of the actions, so the theorems hold under them too.

Only model-checked: every liveness property (fairness and `ENABLED` are out of the prover's reach
here); `JoinedAreFreed` and `SemaphoreLocked`, which are false; and `TFS` with `TfsTool`, whose
reads and writes are recursive functions over the blocks of a file: what they compute needs
induction over data, and `FilesAsPromised`, `HandleIsFile` and `ToolAgrees` are about just that.
`VolumeSound` is stated beside them and is checked with them.

## 7. Not modelled

- Register contexts, stacks and exception vectors: no property of this project tells them apart.
- Boot order, device discovery, metadevices, boot arguments: sequential, once, before the second
  thread runs.
- Formatting (`lib/xprintf.c`), strings and `lib/libc.c`: pure functions on memory. `bitmap_findnset`
  is an operator of `TFS` and `Memory`, where its result matters.
- User semaphores (`proc/semaphore.c`): no system call reaches them in this version.
  `user_sem_open` looks for the name before it takes the lock (`proc/semaphore.c:27`), so two
  threads could create the same name, and `user_sem_destroy` never frees a row.
- Asynchronous disk requests and `polltty_getchar` have no caller. Network interface addresses
  and MTU: values of a device that has no driver here.
- `process_start` never closes the program's file (`proc/process.c:144`): the table of open files
  fills up after some programs, and the next one fails an assertion. In `Memory` a file is opened
  or not found; the table is that of `VFS`.
- Programs never give pages back (`vm/vm.c:117`). It is modelled, and `Isolated` holds *because* of it:
  TLB rows of a finished program may match a new thread with the same ID, and reach pages that no
  live program has.

## 8. Plan

Done: all modules, and the proofs of `Scheduler`, `Process`, `Semaphore`, `Disk`, `VFS`, `Network`,
`Memory` and `TTY`. Left:

1. `TFS`: `TypeOK` and `VolumeSound`, as far as they do not need the contents of files.
2. `Process` with programs that exit before their children: how many rows orphans can occupy, and
   for how long. `TableSound` is proved for them, but promises less than for programs that join.
