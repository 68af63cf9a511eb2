# A verification project for the SeaOS kernel

TLA+ models of the concurrent core of the kernel in `src/kernel`, TLC
configurations that check them on small instances, and TLAPS proofs of the
invariants that matter most. The repository holds two kernels: the RISC-V one,
for two harts, and the LoongArch port in `src/kernel/loongarch`, for one, with a
process table, files and sockets of its own. File and line numbers refer to the
sources as they are in the repository; `proc.c` is `src/kernel/proc/proc.c`,
`mlfq.c` is `src/kernel/proc/mlfq.c`, `sysfunc.c` is `src/kernel/syscall/sysfunc.c`.
`PROJECT.json` maps every definition to its lines.

## 1. The system

The RISC-V kernel runs on up to `NCPU` (2) harts. Each hart executes a scheduler
loop on a stack of its own and switches to the kernel stack of the process it
picked. Data is protected by spinlocks (interrupts off while one is held); a
process that has to wait sleeps on a channel, which is an address, and is made
RUNNABLE by a wakeup of that channel. The kernel is not preempted: a process that
is in the kernel leaves its CPU only where it sleeps or yields. The LoongArch port
has one CPU; a system call runs with interrupts off until it sleeps.

| Component | State | Operations | Interacts with |
|---|---|---|---|
| Scheduler (`proc.c`, `mlfq.c`) | `p->state`, per-CPU run queues, `mlfq_cpu_running`, slices, ages | pick, steal, dispatch, yield, tick, aging, enqueue of new and woken processes | everything that wakes; timer and external interrupts |
| Sleep channels (`proc.c:107-183`, `1629-1723`) | `sleepchan_hints`, `sleepchan_overflow`, `p->sleep_space` | `proc_sleep`, `proc_wakeup`, `proc_wakeup_force` | scheduler; every blocking call |
| Sleep locks (`lock/sleeplock.c`) | `locked`, `pid`, inner spinlock | acquire, release | sleep channels |
| Life cycle (`proc.c`) | slots, `parent`, `orphan_reap`, state | fork, exit, wait4, reparent, background reaping | scheduler, signals |
| Descendant kill (`proc.c:1231-1297`) | states of other processes | depth-first kill | life cycle |
| exit_group (`proc.c:1435-1502`) | `group_exit_pending` of every thread | signal siblings, wait for them to leave | scheduler, address spaces |
| Address spaces (`proc.c:910-1168`, `mem/`, `sysfunc.c`) | page tables, `shared_vm`, mmap regions, heap, System V segments | fork, clone, exec, exit, mmap, munmap, mprotect, brk, page faults, shmat | life cycle |
| Futexes and signals (`sysfunc.c`, `proc.c`) | words in user memory, robust lists, pending and blocked signals, timers | wait, wake, requeue, kill, handlers, itimers, nanosleep | sleep channels; the C library |
| Pipes, file table (`fs/fs.c`) | pipe pool, ring buffers, reference counts | pipe2, read, write, close, dup | sleep channels |
| In-memory files (`fs/fs.c`) | nodes, extents, names, links, descriptor tables | open, read, write, unlink, rename, symlink, dup, exec | file table |
| ppoll, pselect6 (`sysfunc.c`) | descriptor sets, readiness | scan, sleep on a pipe or on all sockets, rescan at a tick | pipes, sockets |
| Sockets (`fs/socket.c`) | slots, peers, byte and packet queues | all calls on loopback sockets | one sleep channel |
| Buffer cache (`fs/buf.c`) | hash, active and inactive list, `ref`, `valid` | get, put, reclaim | sleep locks, disk |
| Disk (`fs/virtio.c`) | descriptors, rings, `info[]` | `virtio_disk_rw`, completion interrupt | sleep channels |
| Inode cache (`fs/inode.c`) | slots, `ref`, `valid_info`, block index | get, put, dup, delete, add a block, free all | sleep locks, buffer cache |
| LoongArch processes (`loongarch/proc.c`, `syscall.c`) | `la_procs`, ASIDs, page tables, thread words | fork, clone, vfork, exec, exit, wait, join, kill, alarms | its files |
| LoongArch files (`loongarch/memfs_la.c`, `syscall.c`) | inodes, hash chains, small slots, page tables, pipes | open to rename, dup, pipes, fork, exit | its processes |
| LoongArch sockets (`loongarch/socket_la.c`, `syscall.c`) | slots, peers, waiting flags, send buffers | stream, pair, datagram, raw and packet sockets | its processes |

The other parts (spinlocks, the ext4 parser, devices, program loading as data,
boot, user programs) are listed under `components` in `PROJECT.json` with the
reason why they are left out.

What is hard here is the interleaving of critical sections: almost every
operation takes several locks one after the other, decides in between, and is
interrupted by wakeups on the same CPU. On one CPU it is what happens while a
call sleeps. The list under `hazards` in `PROJECT.json` names each such place with
the property that covers it.

What makes each component correct, in one line:

* Scheduler: a RUNNABLE process is never lost, never runs twice, never waits for
  ever, and its state only makes the transitions of `proc/type.h` and those of a kill.
* Sleep channels: a wakeup never skips its scan while somebody sleeps there.
* Sleep locks: mutual exclusion, no lost wakeup, hand-over.
* Life cycle: a slot is freed once, off its stack; no orphan without a living
  parent; no exit status lost; wait4 returns when a child has died.
* Address spaces: a page is free, or in one place; who shares a space agrees about
  it; exit_group ends.
* Futexes: nobody sleeps on a word that has changed, on a mutex of the dead, or
  through a signal.
* Pipes: bytes are delivered once, in order; a blocked end is woken; files and
  pipe slots are released once, when nobody refers to them any more.
* Files: a node lives while it has a name or is open, and reads as it was written.
* Disk and buffer cache: one buffer per block, no victim in use, contents valid
  for whoever holds the lock: a store of blocks.
* Inode cache: an inode is in one slot, keeps its number while anybody refers to
  it, and is allocated on the disk exactly while it has a name or is open.
* Sockets: no socket points to a slot that was given back, bytes arrive in order,
  nobody sleeps in a call that could go on.
* Polls: nobody sleeps in a poll over something that is ready.

## 2. Modules

An action is one critical section: what runs between taking and releasing a
spinlock, all calls included. Where two locks are held at once and released at
different times the operation is split at the release. Interleavings of actions
are then the interleavings of the CPUs.

### Mlfq.tla: the queue structure

Operators over one CPU's three queues (sequences, the ring buffer read from
head to tail) and the per-process fields (`MlfqFields`): what a local pick takes
and drops (`IsFirstRunnable`, `AfterPick`, `Dropped`), what a stealing pick takes
(`PopTail`), slices (`Quanta`, `Refill`), the level after a yield, and the aging
scan (`AgeTick`), which visits at most four entries of levels 1 and 2.

Over-approximations: the Markov prediction of the slice of level 2 is a choice
from `L2Quanta`. `Eligible` is the set of CPUs a new or woken process may be
sent to: the code reads the load of one queue after the other while they change,
so every CPU may look least loaded, except one that carries the dead-CPU
surcharge of `mlfq.c:179-237`. An age is counted from the enqueueing; that
`mlfq_age_start_tick == 0` means "no age" (the first tick) is not modelled.

### Sched.tla: the scheduler

State: `st` (p->state), `m` (MLFQ fields), `rq` (queues), `busy`
(`mlfq_cpu_running`), `ctx[c]` and `at[c]` (where the control of CPU c is and with
which process), `todo` (visits a stealing scan has left), `pend[c]` (enqueues that
have been started on CPU c and not finished, a stack because an interrupt may
wake somebody in the middle of another wakeup).

| Action | Code |
|---|---|
| `Boot` | a hart enters `proc_scheduler` (or never does) |
| `PickLocal`, `Steal` | `mlfq_set_cpu_running(c, false)` and `mlfq_pick_next` |
| `Dispatch` | the check of the state under p->lk, `proc.c:1779-1805` |
| `AgeQueues`, `OnTick`, `Yield` | `proc_on_tick` (its two critical sections) and `proc_yield` |
| `Sleep` | `proc_sleep_common` |
| `Wake`, `ChooseCpu`, `EnqueuePending` | a wakeup: state, choice of the CPU, enqueue |
| `Fork` | the last part of `proc_fork_with_stack` |
| `Kick` | `proc_signal_group_exit` on a RUNNABLE thread |
| `Slay` | `proc_kill_descendants` on one descendant (`proc.c:1258-1280`) |
| `Exit`, `SwitchOut`, `Reap` | `proc_exit`, the return to the scheduler, `proc_free` |
| `ClockTick` | `timer_update` |

`Slay` makes a zombie of a process whatever it does. Of a SLEEPING one nothing is
left behind; a RUNNABLE one leaves its queue entry, a pick or an unfinished wakeup,
which the schedulers drop; a RUNNING one is executed on by its CPU, which in the
end sets its state again. `kicks` counts signals to and kills of RUNNABLE processes,
`hits` kills of RUNNING ones. Who is whose descendant is in `ProcKill`; here anybody but
proczero may be one.

### HintTable.tla, SleepChan.tla: sleep channels

`HintTable` is the open-addressed table with its overflow counter (`Inc`, `Dec`,
`HasWaiter`). `SleepChan` drives it: processes sleep on arbitrary channels, are
woken, return and are uncounted, or are killed where they sleep and never
uncounted.

### SleepLock.tla, Mutex.tla: sleep locks

`SleepLock` splits acquire, sleep, release and the wakeup scan where a spinlock
is taken or released (`Try`, `Count`, `Fall`, `Resume`, `Release`, `Scan`,
`ScanEnds`), over `HintTable`; `Spurious` is a deadline or a signal, `Kill` is
`proc_kill_descendants`. A process uses one lock at a time. `Mutex` is the
abstract specification: who wants, who holds. `IsMutex` is the refinement.

### ProcLife.tla, ProcKill.tla: the life of a process

`ProcLife` has one step per visit of a slot by wait4, proc_reparent and the
background reaper, each under the lock of that slot (`Held` is the set of slots
whose lock an exiting process keeps). It abstracts from the run queues (any
RUNNABLE process may be dispatched while a CPU is free), knows SIGCHLD only, and
leaves out threads, closing of files, and the failure paths of fork, which
happen under the lock of a slot nobody else looks at. `ProcKill` extends it with
`proc_kill_descendants`; `LegalStates` of `ProcLife` speaks of the other operations.

### Pipe.tla, PipeSizes.tla, Stream.tla: pipes and the file table

`PipeSizes` declares the constants and what is assumed of them. `Pipe` models
`fs.c:1262-1423` and `file_close`, with the system calls on top. `pipe` is the pool (flags, wrapping counters, ring buffer), `file` the reference
count of each entry of the file table and the end of a pipe it stands for, `fds`
the files of each descriptor table, `call` the call a process is in, `jobs` what a
close still has to do, step by step (`DropRef` under the lock of the file table,
`End` under that of the pipe, `PoolFree` under that of the pool).

| Action | Code |
|---|---|
| `PoolAlloc`, `ReadFile`, `WriteFile`, `GiveUp`, `Install` | `pipe_alloc` and `sys_pipe2`, with all error paths |
| `StartRead`, `ReadSleeps`, `ReadReturns` | `pipe_read` |
| `StartWrite`, `WritePuts`, `WriteBroken` | `pipe_write`, chunk by chunk |
| `TimerWakes` | an interval timer makes a sleeper look again |
| `Close`, `Die`, `Fork` | `sys_close`, `proc_exit` or a kill, `file_dup` of all files |

What an unlocked stretch does to a pipe or a file nobody else knows yet is part of
the step before or after it. Bytes are chosen when they are put. `Stream` is the
abstract specification, a bounded queue of bytes per pipe; `IsFifo` maps the ring
buffer and its counters to the queue.

Left out: `dup` within a process, and threads that share a descriptor table; both
are in `MemFs`, on one CPU.

### VirtioDisk.tla, BufCache.tla, BlockStore.tla: disk and buffer cache

`VirtioDisk` splits `virtio_disk_rw` at `vdisk_lock`: descriptors are taken one by
one and given back when the third is missing (`Starve`), which wakes everybody who
waits for one; the device does the requests in any order (`Device`); the interrupt
(`Interrupt`) matches what is done to a buffer. `BufCache` is `buf.c` on top of it.
A second getter of the same block waits for the sleep lock of the buffer (`Hit`,
`Lock`); `Miss` takes the victim, and reclaims pages of inactive buffers when there
is none left. `BlockStore` says what all that is for: a block has contents, at
most one owner at a time, and an owner sees what was written last. `IsStore` is
the refinement: `content` is what the buffer, or else the disk, holds.

### InodeCache.tla, InodeIndex.tla: inodes

`InodeCache` runs open, create, link, unlink, rename and close of several processes
over slots, the inode bitmap, link counts and directories; each step is what is
done under one lock (`Look`, `GetHit`, `GetMiss`, `Fill`, `InitInode`, `NameInode`, `Put`,
`Check`, `DeleteLock`, `Erase`, `Clean`). A create fills in the new inode and enters its
name in two steps, since the lock of the slot is free in between; a call whose slot was
cleaned under it (`num = Invalid`) ends where `inode_rw` fails an assertion
(`inode.c:267`). `InodeIndex` is the index of a file's blocks: direct, single and double
indirect entries, adding a block (`Add`, with what is undone when the disk is
full), freeing all of them (`Freed`).

`SlotsSound` says what the locks guarantee whatever runs beside what: references are
counted, an inode is in one slot, who has got an inode never finds another one in
its slot, one process at a time erases, and what a create or an unlink has seen in
its directory is still so when it changes it. `InodesSound` says that names, link
counts, bitmap and cache agree, and is true only in the environment below.

Two environment assumptions are parameters. `Exclusive` names what no other call
runs beside: with "put" the deletion of an unlinked inode is not interrupted by
another `inode_get` (without it `inode_delete` refutes `DeletesUnlinked`), with
"rename" a rename between directories is not interrupted (`path_rename` looks up the
new place without the lock of its directory and adds the entry later). `MaxGap` is
how far behind the end of a file a write may start; with a gap larger than what an
index entry covers, entries in the middle stay empty and `free_data_blocks`, which
stops at the first empty entry, leaks the blocks behind it.

### Socket.tla: loopback sockets

One action per critical section of `socket_lk`: `Open`, `Bind`, `Listen`, `Connect`
(`Established`, `Refused`), `Accepted`, `Shutdown`, `Close`, `Fork`, and for calls that
may wait `Sleep`, `GiveUp`, `Accept`, `Send`, `Recv`, `SendTo`, `RecvFrom`, each of
which is the first critical section of the call or one after a wakeup
(`Entering`). `Orderly` is an environment assumption: one process at a time
connects a socket, a socket does not both listen and connect, and is shut down
only while connected. Without it two connects of one socket leave two children
with the same peer.

### AddressSpace.tla: memory of processes and threads

Which page belongs to whom: `proc` holds the page table of each process as a map,
its regions, the top of its heap and whom it shares its space with, `free` the free
list, `seg` and `att` the System V segments and their attachments. On one CPU
nothing here sleeps, so an action is a whole system call with the calls it makes
(`Fork`, `Clone`, `Grow`, `Shrink`, `Mmap`, `MmapFixed`, `Munmap`, `Mprotect`, `MmapFile`,
`Touch` for a page fault, `Shmget`, `Shmat`, `Shmdt`, `Shmrm`, `Exec`, `Exit`, `Reap`), out of
memory in the middle included; only `ExitGroup` yields and looks again, and `Obey`
is a thread that finds it is to end.

`Orderly`: a leader does not exit, exec or get reaped before its threads; nobody
forks, execs or exits with a segment attached; only `shmdt` unmaps one. Without it
TLC refutes `PagesExact`: the leader frees pages its threads still map. Left out:
the growth of a heap into a sibling whose page table has no room, the growth of
the stack in shared spaces, the panic when the list of regions is exhausted, the
contents of pages, TLBs, and a second CPU, on which two threads past their look at
`group_exit_pending` wait for each other for ever.

### Futex.tla: futexes, robust lists, signals and timers

`word` is user memory, `proc` the process table and where each process is. The
processes run the robust mutexes and joins of their C library (external: modelled
from what the kernel expects of them), each on a CPU of its own; a kernel step is
what happens between two acquisitions of a process lock or two accesses to user
memory. So a wake walks the table slot by slot while others fall asleep, and
`do_exit` walks the robust list entry by entry. Actions are grouped as `UserStep`,
`FutexStep`, `SleepStep`, `SignalStep`, `ExitStep`, `Deadline`, `CheckItimer` and
`TimerUpdate`.

`Orderly`: nobody is killed between the release of a robust mutex and its
`FUTEX_WAKE`; otherwise the waiters sleep for ever (`proc.c:249` takes a word that
does not name the dead for one that needs no wake). An untimed wait does not look
at signals that are pending before it sleeps (`sysfunc.c:853-863`), which is why
`SleepersWait` exempts those (`late`). All wakes wake everybody; channels are virtual
addresses; `rt_sigaction` does not refuse SIGKILL; SIGALRM is dropped by default.
Left out: priority inheritance, bitsets, SIGSEGV, restarted calls.

### Poll.tla: ppoll and pselect6

`Scan` looks at one object after the other, each under its own lock; with `Smp`
others run in between. `Decide` then sleeps on the first pipe, on the channel of all
sockets or until the next tick: a pipe is looked at again under its lock before
the sleep (`WaitPipe`), a socket is not (`WaitSocket`); a timed call and a mixed set
wait tick by tick. A descriptor that is not open is ready to `ppoll` and ignored by
`pselect6`. What others do to the objects is reduced to its effect. `Orderly`: a call
without a timeout has at most one pipe, and with `Smp` no socket; otherwise it
sleeps over what is ready (two hazards).

### MemFs.tla: in-memory files and descriptor tables

memfs has no locks and no call in it sleeps: on one CPU a call is one step, error
paths included. `fs` holds nodes, extents and pages and what was written where,
`file` the file table, `proc` the descriptor tables and who shares them. `Orderly`:
nobody exits or execs as a leader while its threads live, and nobody opens with
`O_CREAT` through a dangling symbolic link (`memfs_create` then returns the link
itself, `fs.c:1519-1535`). A `fork` by a thread copies its own, empty table: that is
what the code does. Left out: read-only mounts, permissions, readlink, the files
put there at boot, timestamps, and a second CPU.

### LaProc.tla: processes of the LoongArch port

`proc` is `la_procs`, `space` the page tables in use, what the TLB has under which
ASID, and the thread words of user memory, `pool` the free pages. An action is a
call up to its next sleep; only interval timers (`Alarm`) come in between. Which
RUNNABLE process runs next is a choice. `Orderly`: a leader execs only when it is
alone and without a thread word, `exit_group` is called by a leader, a signal that
ends a thread is sent from its group, init lives. Each of these keeps out a defect
that was met while modelling: `exit_group` by a thread makes a zombie of its leader
and wakes nobody; threads ended by `exit_group` are never reaped; a group member
that kills its group kills only the members before itself in the table; the exec
of a leader frees the page table under its threads. Left out: masks, kernel
threads, data pages, descriptors (`LaFiles`).

### LaFiles.tla: files and pipes of the LoongArch port

`fs` holds nodes, hash chains, slots of small files, page tables and who owns each
page, `pipe` the pool, `proc` groups of threads, their descriptors, and the call a
process sleeps in. Contents are bytes: a file moves from a slot to pages as it
grows. A write that gets no memory for its first page still moves the end of
the file to its offset. A slot is not cleared when it is used again
(`memfs_la.c:378`), so that a hole in a small file shows what the last owner wrote:
`FilesSound` says nothing of the bytes of a hole, and `la_holes` refutes
`HolesReadZero`. `Orderly`: nobody closes a pipe another
thread of the group is in a call on, threads are made only without open pipes
(`dup_all` counts them per thread, `close` drops them once), a process outlives its
threads, there is memory for long names in a rename and no moved child is in the
way. Left out: storage of inode pages, directory listings, times, modes, ext4, dev
and proc files (`OpenOther` stands for them), the root.

### LaSocket.tla: sockets of the LoongArch port

A call is one step up to its sleep. Whoever sleeps sets a flag in the socket
(`wait`); who sees the flag wakes and clears it. A sender sleeps with its bytes in a
kernel buffer that is one for all processes and all calls of that kind (`Via`).
`Orderly` keeps out what the code does not survive: a send while another one with
the same buffer sleeps, the close of a socket a sender sleeps on, the close of a
listener with unaccepted children, a second connect, a signal in `accept` while
others wait, `shutdown` (which gives the slot back) of a socket others have. Left
out: AF_UNIX names, options, non-blocking calls, killed processes, threads.

## 3. Runs

| Run | Instance | Shows |
|---|---|---|
| sched_safety | 3 processes, 2 CPUs, wakeups nested 2 deep, kills up to the first of a RUNNING process | `TypeOK`, `OneCpu`, `RunnableNotLost`, `OneEntry`, `NoWorkOnDeadCpu`, `LegalStates` |
| sched_live | 3 processes, 1 CPU, 1 kick | `NoStarvation` |
| sleep_lock | 3 processes, 2 locks, 1 slot, 1 kill | mutual exclusion (refinement), no lost wakeup, hand-over |
| proc_live | 3 slots, 1 CPU | wait4 returns, orphans are reaped |
| kernel | one component at a time, see below | one property or more of each component |
| user | one component at a time, see below | the same |
| kick_locks | 2 processes, 2 CPUs | finding: lock inversion |
| wait_wakeup | 3 slots, 2 CPUs | finding: lost wakeup in wait4 |
| exit_locks | 3 slots, 2 CPUs | finding: two exiting processes wait for each other |
| kill_zombie | 3 slots, 2 CPUs | finding: a zombie becomes RUNNABLE |
| inode_delete | 2 processes, 2 inodes, 3 slots | finding: an inode is erased that somebody has opened again |
| la_holes | 1 process, 2 files in one page of small slots | finding: a hole reads what another file had there |

`kernel` and `user` check several components that share no state. A behaviour
chooses one of them in its initial state, the `focus`, and takes the steps of that
one only. The variables `x1`, `x2`, ... stand for those of the component in focus, in
the order in which its module declares them; those it has no use for are `None`.
So a state of the bundle is a state of one component, and a property
`focus = "x" => X!Inv` is an invariant of the bundle exactly when `Inv` is one of the
component. Nothing is said about the components running side by side: they have
nothing to disturb each other with, except where one module builds on the other
(`BufCache` extends `VirtioDisk`, `SleepLock` uses `HintTable`).

| Focus | Module | Instance |
|---|---|---|
| chan | SleepChan | 4 processes, 3 channels, 2 slots, 2 kills |
| life | ProcLife | 3 slots, 2 CPUs |
| pipe | Pipe | 3 processes, 1 pipe of 2 bytes, 2 files, counters modulo 4 |
| buf | BufCache | 2 processes, 3 blocks, 2 buffers with a page each, 4 descriptors |
| tight | BufCache | the same with 3 buffers and 2 pages: reclaiming |
| ino | InodeCache | 2 processes, 2 directories, 1 name, 2 inodes, 2 slots; nothing runs beside the end of an inode_put or a rename |
| races | InodeCache | 2 processes, 1 directory, 1 inode, 2 slots; anything runs beside anything |
| reuse | InodeCache | the same with 2 inodes and 1 slot |
| file | InodeIndex | 1 direct and 1 single entry, 2 entries per block, 7 blocks |
| files | MemFs | 2 nodes and files, contents of up to 3 pages in nodes and extents |
| names | MemFs | 3 paths, 3 nodes: names, symbolic links, renames |
| tables | MemFs | 2 processes or threads, 2 descriptors, 3 files |
| la_small | LaFiles | 2 files that share a page of small slots, 2 pages |
| la_big | LaFiles | 1 file that grows from a slot over 2 page tables |
| la_names | LaFiles | 4 paths in 2 hash chains, 3 nodes, long names |
| la_tables | LaFiles | 2 processes, 2 descriptors, 2 nodes |
| la_pipes | LaFiles | 2 processes, 2 descriptors, 1 pipe of 1 byte |
| stream | Socket | 2 processes, 3 stream sockets, 2 ports |
| dgram | Socket | 2 processes, 2 datagram sockets, 2 ports |
| space | AddressSpace | 3 processes, 2 pages: fork, clone, mmap, exec, exit |
| shm | AddressSpace | 2 processes, 3 pages: the heap, regions, segments |
| family | LaProc | 4 slots, 12 pages: who reaps and frees what |
| image | LaProc | 3 slots, 10 pages: vfork and exec |
| kills, alarms | LaProc | 3 slots: joins and kills; timers and sleeps |
| mutexes | Futex | 3 processes, 1 mutex |
| waits, deaths, handlers, timers | Futex | 2 processes: timeouts, requeues and joins; deaths of owners; handlers; alarms, naps and masks |
| poll_smp | Poll | 1 poll of up to 2 of 1 pipe and 1 socket, a second CPU |
| poll_up | Poll | the same with 2 sockets and no second CPU |
| la_stream | LaSocket | 2 processes, 3 stream sockets, 1 port, 1 byte of room |
| la_pair | LaSocket | 2 sockets of a pair, 2 bytes of room, dup, shutdown, signals |
| la_dgram | LaSocket | 2 datagram sockets, 2 ports, 2 ways of sending |
| la_raw | LaSocket | 2 raw and packet sockets |

Bounds and why they are enough. Two CPUs are what the kernel is built for, and
a race of two critical sections needs no third. Three processes are one that
runs on each CPU and one that is waked, stolen or waited for; proczero is one of
them. Slices and the aging threshold are one or two ticks: the code only compares
them with zero and with the threshold. A hint table of one or two slots makes
collisions, split channels and overflow happen with three channels. `MaxDepth`
bounds the interrupts that arrive in the middle of a wakeup, `MaxKills` the
sleepers killed, `MaxKicks` the signals to and the kills of RUNNABLE processes, `MaxHits`
the kills of RUNNING ones. The safety run of the scheduler has `MaxKicks = 0`, because
the entries a kick leaves behind make the state space grow fast, and follows a
behaviour no further than the first kill of a RUNNING process (`BeforeHit`), after
which most of its properties are false of the code (finding 4). The properties are
proved for any number of kicks and hits (section 5), each with the restriction that
is in its definition. `sched_live` has kicks and no hits.
Two of three processes can sleep in the same pipe. Pipes have nothing in common
but the pool and the file table: one pipe is enough when the table may be full of
other files at any time (`FileAlloc`), which is how the error paths are reached.
A pipe of two bytes, writes of up to three (`MaxLen`) and counters modulo 4
(`Width`, the least multiple of the size that tells full from empty) give writes
of two chunks, half-done chunks and wrapping counters. Four descriptors are one
request and one spare, so that two requests starve each other. Three blocks over
two buffers make every miss take a victim. Seven blocks fill the disk in the
middle of every kind of allocation of an index. With one slot for two inodes (`reuse`)
a slot is taken again while its last inode_put is still to delete what was in it,
with two for one (`races`) an inode is read again into another one meanwhile; both
have one name in one directory, so that there is no rename between directories and
no second link, which `ino` has and the theorems cover. `Kinds` splits the calls of a large
component into groups that can disturb each other, each with an instance of its
own; every disjunct of every next-state relation happens in one of them. In the
components that copy state between processes three slots are a parent, a child
and a sibling thread, four (`family`) add a child of the child. Pages are few enough
for calls to run out of them in the middle. Byte counts are taken modulo 2 or 3
(`Wrap`), the least that tells a byte from its neighbour in a buffer of that size.

`sched_safety` uses a `VIEW`: fields that are written again before anybody reads
them do not distinguish states (`MCSched.Fields`). It is sound for the properties
of that run: they read only `inq` of every process and `cpu` and `level` of a
RUNNABLE one, and nothing else that the view leaves out is read by a guard.
`TypeOK` reads every field; that it holds also of those the view leaves out is
proved (`TypeCorrect`). `MCKernel.View` forgets the bytes of a pipe that have been read,
and the buffer of a pipe whose read end is closed (`PipeView`): they are written before
they are read again. It also forgets what is in an entry of the inode cache
nobody refers to, which is filled before it is read; `MCUser.View` makes the byte
counts of sockets relative, since only their differences are looked at. Properties
of steps are evaluated for every step, whatever the view.

Symmetry is used in safety runs only, over processes and other values that are
interchangeable.

The violation runs are disagreements between code and documentation that the
models exhibit; `findings` in `PROJECT.json` quotes both sides:

1. `kick_locks`: p->lk and the run-queue lock are taken in both orders
   (`proc.c:1784` against the order stated at `proc.c:1180`).
2. `wait_wakeup`: the exit of a child between the zombie scan and the sleep of
   wait4 does not wake the parent.
3. `exit_locks`: `proc_exit` of a parent and of its child lock each other out.
4. `kill_zombie`: a RUNNING descendant is made a zombie, and is RUNNABLE again when it
   next yields.
5. `inode_delete`: `inode_put` gives the slot back before it deletes the unlinked
   inode, and another process opens it in between (`inode.c:420-438`).
6. `la_holes`: a hole in a small file of the LoongArch port does not read as zeros,
   as `docs/DECISIONS.md:960-969` says, but as what the last owner of the slot wrote.

`CHECK_DEADLOCK FALSE` appears in the two-CPU configurations of `ProcLife` and
`ProcKill`: because of finding 3 the system really can stop there; in
`inode_delete`, where finding 5 ends in a failing assertion; and in the bundles, for
these two reasons and because all the processes of a pipe may have exited.

## 4. Fairness

`Sched`: weak fairness on the scheduler loop of each CPU and on finishing what a
CPU has begun (a CPU executes its instructions), weak fairness on the clock tick,
and strong fairness on the user-mode timer tick (`AgeQueues`): the timer has a
fixed period and a user process cannot disable it, so a process that is in user
mode again and again is hit there in the end. Under weak fairness only, two
processes that wake each other and always sleep before the tick starve a third:
the liveness of the scheduler rests on the tick.

`SleepLock`: strong fairness on the steps of each process. It is scheduled again
and again (`NoStarvation`), and a spinlock that is free again and again is taken.

`ProcLife`: weak fairness on kernel code, strong fairness on dispatching, on the
tick in user mode and on the background reaper. No fairness is assumed of what a
program chooses to do (fork, exit, wait, yield by itself, sleep). With two CPUs
findings 2 and 3 contradict liveness, so `proc_live` has one CPU, where neither
window can open.

## 5. Proofs

What follows holds for every value of the constants that the assumptions allow
(`MlfqAssumption`, `SchedAssumption`, `HintAssumption`, `SleepLockAssumption`,
`ProcLifeAssumption`, `PipeAssumption`): any number of processes, CPUs, slots, pipes,
buffers or files. The assumptions say that the constants are numbers of the right sign,
that a mark for "none" is not one of the things it is the absence of, that the
tables are finite, and for pipes that the size of a pipe divides the range of its
counters (4096 divides 2^32). The bundles use `BufCache` and `InodeCache` by INSTANCE, which
does not pass on an assumption: their hypotheses are the definitions `Constants` and
`Enough`, named in each theorem, and `CacheSizes` of `MCKernel` has TLC evaluate them for the instances of the run.

### Sleep channels (`HintTableProofs`, `SleepChanProofs`)

That the count of a slot is positive does not say that a particular sleeper is
found there: a channel may own two slots, and a decrement may take the count of
another sleeper. The argument is about tickets. The counts of the table are
tickets, and `Covered` says that they *can be dealt* so that every sleeper has one
of its own, in a slot of its channel or in the overflow counter. `IncCovers` and
`DecCovers` say that this survives an increment and a decrement wherever they land
(a decrement that takes the wrong ticket swaps two of them), `CoveredSeen` that a
covered sleeper is seen by `HasWaiter`, `ExactEmpty` that a table whose tickets are
all dealt is empty when nobody sleeps. The probe order is treated once, in
`FirstIn`. From these, for `SleepChan`: `TypeCorrect`, `HintSoundCorrect` and, without
killed sleepers, `NothingLeftBehindCorrect`.

### Sleep locks (`SleepLockProofs`)

`TypeCorrect` and `MutexRefined` (sleep locks implement the mutex): `locked` and `pid`
agree and exactly the owner is in its critical section (`Owners`).
`HintSoundCorrect`: `Tickets` is the ticket invariant for who waits for which lock.
`NoLostWakeupCorrect`: inductive with `Spins` (who is counted as a sleeper or scans
holds the inner spinlock of the lock, so that a release comes before or after the
counting, never in between)
and `Tickets` (so that the releaser scans at all).

### Scheduler (`SchedProofs`)

* `TypeCorrect`: `TypeOK` with `Named` (a CPU that has picked or runs something names
  a process). Lemmas about queues (`PushKeeps`, `PopHeadKeeps`, `SuffixEntry`) and
  about aging (`AgeOneKeeps`, `AgeLevelKeeps`) say that queues stay queues and
  RUNNABLE entries stay in them.
* `OneCpuCorrect`: inductive over the types. Who stands on which stack does not
  depend on what the queues hold, which is why duplicates after a kick do no harm.
  It speaks of the time until a process is killed while another CPU executes it
  (`hits = 0`): from there on a CPU executes a zombie. `HitsCounted` says that `hits`
  never goes back, so that only steps before it matter (`Stacks`).
* `LegalStatesCorrect`, with the same restriction: `p->state` makes the transitions
  of `proc/type.h:75-84`, and RUNNABLE or SLEEPING to ZOMBIE, which that list does not
  have and `proc.c:1278` makes. The point is that what a kill, an exit or a kick leaves
  in queues and picks never brings a zombie or a free slot back to life.
* `RunnableNotLostCorrect`: `NotLostFrame` reduces each action to what it does to the
  three kinds of place.
* `NoWorkOnDeadCpuCorrect`: inductive as `Dead`: a CPU whose scheduler does not run
  has empty queues, says that it is idle, owes no enqueue, and no other CPU has
  chosen it for one it has still to do.
* `OneEntryCorrect`: `OneHome` says that until the first kick the queues hold only
  processes marked as queued, each at the CPU and level it records and once
  (`QueuesTidy`), every mark is true (`MarksTrue`), and what a CPU has picked or
  has still to enqueue is RUNNABLE, unmarked and in nobody else's hands
  (`PickedAlone`, `PendingAlone`). That there is a place at all is
  `RunnableNotLost`; that a queue is never longer than the number of processes is
  the pigeonhole principle.

### Life cycle (`ProcLifeProofs`)

The invariant is `TypeOK`, `Fits` (place, state and CPU of each process fit
together) and `Family` (every process but proczero has a parent that is alive and
not yet past its children; a `proc_reparent` under way has left no child behind in
the slots it has passed). From it `TypeCorrect`, `FreedOffCpuCorrect`,
`AdoptedCorrect`, `LegalStatesCorrect` and `CollectedByWaitCorrect`, for any number of
CPUs. `ChildWakesOnOneCpu` assumes one CPU, because it is false for two (run
`wait_wakeup`): `Looked` says that a scan of wait4 has not passed by a zombie child
that has told its parent, and that nobody sleeps over one; on one CPU a child
cannot exit between the scan and the sleep.

### Pipes (`PipeProofs`)

The invariant `Inv` of the file table and the pool: who holds a file is counted
exactly (`RefsExact`); a file that is closed for the last time is in nobody's hands;
each open end of a pipe is owned by exactly one file, one pipe2 or one unfinished
close (`EndOwned`); a slot is in use exactly while somebody answers for it, and is
released once; a process that is in a read or a write has the file (`Calling`), so
that a slot is not given to another pipe under a sleeper. `TypeCorrect`,
`RefsExactCorrect`, `PoolExactCorrect` and `EofHonestCorrect` follow.
`BlockedCorrect` adds the arithmetic of the counters modulo `Width` (`Modulo`,
`Counters`): after a step that makes room or brings bytes nobody sleeps on the
other side, and a step that does not leaves the reason to sleep alone.

`FifoRefined`: pipes implement the bounded queues of `Stream`. The counters run
modulo `Width`, the indices of the ring modulo `Cap`; `Ahead`, `Apart` and `Advance` turn
the former into additions, `Wrapped` and `Moves` say that taking the one remainder
and then the other does not change where a byte stands, and `Halves` and `PrefixOf`
put sequences together. `Bounded` (never more than `Cap` bytes, so that two bytes
are never in one place) is inductive over `Inv`. Each action of the pool is then a
`Create`, `Put`, `Get`, `Begin` or `Destroy` of the queue, or leaves it alone.

### Buffer cache and disk (`BufProofs`)

For any number of processes, blocks, buffers, pages and descriptors:

* `TypeCorrect`, and `OneBufferCorrect`: a block is in one buffer, the references of
  a buffer are those of the calls, it is in the active list while there are any and
  in the inactive one otherwise, and stays the buffer of the block its users asked
  for. `Once` (a list holds a buffer once) makes it inductive: a buffer that is moved
  leaves nothing behind.
* `StoreRefined`: the cache on top of the driver implements `BlockStore`.
  `Locked` says which call has which sleep lock, `Synced` that a process is in the
  driver exactly while it reads or writes its block, and with which request.
  `Spread`, `Chains` and `Heads` tie a process that waits to its three descriptors,
  the rings and the busy flag of its buffer, so that the interrupt, which finds the
  buffer through `info[]`, finishes the request of the right process. `Contents` is
  the point of it all: a valid buffer holds what the disk holds unless its owner has
  a write under way that the device has not done (`Ahead`), and a read the device has
  done has brought what the disk holds. Then every action is a step of the store or
  leaves contents, owner and views of every block alone; `StoredWell` and `HolderWell`
  say that the mapping names one content and one owner.
* `NothingStuckCorrect`: a miss finds a victim and a page, a completion finds its
  request, and who sleeps for a buffer or for descriptors is going to be woken. It
  assumes `Enough`: a buffer and a page for every process, and three descriptors (the
  source has 768 processes, 16384 buffers, 8 descriptors; that a page is left for the
  buffer of every process is a requirement on the memory of the machine). `Afford`
  counts pages, `Dozers` and `Sleepers` say what each sleeper waits for: a busy buffer,
  which has a request under way, or descriptors, which somebody has taken and will
  give back.

### Inode cache (`InodeProofs`)

For any numbers of processes, slots, inodes, directories and names, and with no
assumption on what runs beside what, so also when an inode_put deletes an inode
another process has just got, and when names change under a rename:
`InvCorrect`, and `SlotsSoundCorrect`, which follows from it. The invariant `Inv` has

* `Shaped`: which places a call passes through, and where it has a slot and an inode;
* `SlotLocks` and `DirLocks`: who is in which place keeps which lock, and nobody else.
  `EraseAlone` follows from the first; the second is what makes `Claims` inductive, as
  everybody who changes an entry keeps its directory locked;
* `RefsCounted`: needed everywhere, because a miss takes a slot without references, and
  only the count says that nobody is in it any more (`SizeMoves` counts the users of a
  slot before and after a step). A process that is still to delete has no reference
  left and is no user: its slot may be taken under it, and is;
* `OneSlot`: a miss has found the inode in no slot somebody refers to;
* `RightInode`: a slot in use changes its number only when a late deletion cleans it,
  and then to `Invalid`. So a process may find its slot cleaned under it, which is
  finding 5, but never another inode there.

There is one lemma per part and, under it, one step per action. That link
counts, names and the bitmap agree (`InodesSound`) is not true without an assumption
on the environment, and is model-checked with one.

### Only model-checked

* Liveness (`NoStarvation`, `HandedOn`, `WaitReturns`, `OrphansReaped`): the prover
  treats neither liveness under fairness nor `ENABLED`. What the arguments need of
  safety is proved where it can be: `NoLostWakeup`, `RunnableNotLost`, `Adopted`,
  `ChildWakes` on one CPU, `Blocked`, `NothingStuck`.
* `ChildWakes` on two CPUs is false (finding 2), so there is no theorem without the
  assumption of one CPU.
* `InodesSound`, with nothing running beside the end of an inode_put or a rename
  between directories. `DeletesUnlinked` is false without that (finding 5).
* That the properties of the scheduler that speak of all times (`TypeOK`,
  `RunnableNotLost`, `NoWorkOnDeadCpu`) hold after a kill of a RUNNING process is only
  proved; what else is true after one is not stated.
* The properties of `kernel` and `user` about the block index, in-memory files,
  address spaces, sockets, futexes, polls, and the LoongArch processes, files and
  sockets. Nothing keeps `Socket` or `MemFs` from being proved about; they are next
  (section 6).
* `ExitLocks`, `KillZombie` and the other runs that expect a violation refute what a
  document says; there is nothing to prove.

What a recursive definition computes for every input needs an induction over data
that none of the provers can do; folds and the like stay in modules that only TLC
evaluates. Where a proof needs one it is written without recursion: the buffers a
reclaim takes (`BufCache.Reclaimed`) are a set given by positions in the list.

## 6. What is left

Worth proving next, in this order: the references of descriptors in `MemFs` and of
sockets in `Socket`, which have the shape of `RefsExact` of pipes; the sharing of
pages in `AddressSpace`.

Not modelled: spinlocks and `push_off`/`pop_off` (an action is a critical section;
lock orders are modelled where they matter, findings 1 and 3); the parsing of
directories and of ext4 on the disk; program loading but for the address space it
leaves; consoles, UART and boot; devices below the rings of virtio; the LoongArch
disk and network drivers, which poll; user programs, `mkfs` and the build. The
weak memory of the CPUs is not modelled: shared variables are read and written
under spinlocks, which are barriers.
