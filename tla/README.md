# A verification project for the OS/161 kernel work of UnionCollegeCode

The repository collects course work. Its core is a group's extension of the
teaching kernel OS/161, in `OperatingSystems/OS161_Final_Project/src/kern`:
sleep locks, condition variables, a shared buffer on a doubly linked list, a
process table with `fork` and `_exit`, and a file table with `open`, `close`,
`dup2`, `read`, `write` and `lseek`. This is concurrent code with blocking,
shared state and error paths, and tests reach little of it. The TLA+ modules
here model it. Paths below are relative to `kern/` unless they start with
another directory of the repository.

## 1. Inventory

| Component | State | Operations | Used by | What makes it correct |
|---|---|---|---|---|
| spinlocks, wait channels (`thread/spinlock.c`, `thread/thread.c`) | lock word and holder; a list of sleepers | acquire, release; sleep, wake one, wake all | everything below | a sleeper is queued before its spinlock is free |
| semaphore (`thread/synch.c`) | `sem_count`, a wait channel, a spinlock | `P`, `V` | tests, console, devices | no unit is lost or taken twice |
| sleep lock (`thread/synch.c`) | `is_busy`, `lk_owner`, a wait channel, a spinlock | `lock_acquire`, `lock_release`, `lock_do_i_hold` | list, buffer, file table, file systems | exclusion, no lost wakeup, a truthful owner |
| condition variable (`thread/synch.c`) | a wait channel, a spinlock | `cv_wait`, `cv_signal`, `cv_broadcast` | shared buffer, `_exit`, `waitpid` | no signal lost between test and sleep |
| hangman (`thread/hangman.c`) | who waits for what, who holds what | `hangman_wait`, `_acquire`, `_release`, `_check` | the locks, when configured | reports every deadlock and nothing else |
| linked list (`concurrent_list/`) | nodes, `first`, `last`, `length` | prepend, insert, remove_head, remove, destroy | shared buffer, `struct proc` | well linked, ordered by key, no leak |
| shared buffer (`shared_buffer/`) | `count`, a list, a lock, two condition variables | produce, consume | its test | a bounded stack in which everyone is served |
| process table (`proc/proctable.c`) | `procs`, `active_procs`, exit locks and condition variables | `assign_pid`, `add_proc`, `remove_proc`, `find_process` | `proc.c`, `fork`, `_exit`, `waitpid` | entries are live processes with unique pids |
| process life cycle (`proc/proc.c`, `syscall/fork.c`, `exit.c`, `runprogram.c`, `main/menu.c`) | `struct proc`, `thread_count` | create, destroy, fork, exit, run a program and wait | user programs, the menu | the menu waits for all; failures leave nothing behind |
| file table (`thread/file_table.c`, `syscall/open.c`, `close.c`, `dup2.c`) | a table per process, the global table in the kernel process, a lock per table and per file, reference counts of vnodes | open, close, copy at fork, dup2 | user programs | no descriptor dangles, no file leaks, no deadlock |
| file I/O (`syscall/read.c`, `write.c`, `lseek.c`) | `seek_pos` | read, write, lseek | user programs | the position follows what was transferred |
| `waitpid` (`syscall/waitpid.c`) | the exit condition variables | waitpid | nobody: not dispatched | the exit of the child is not missed |
| scheduler (`thread/thread.c`, `clock.c`, `threadlist.c`) | per cpu: current thread, idle flag, run queue, zombies, tick count, interrupt line; per thread: state, cpu, priority; `thread_count` | fork, switch, exit, yield, sleep, wake, migrate, schedule, exorcise | everything that blocks, the clock, interrupts | a thread is on one list and one stack; no cpu idles over a ready thread; nobody starves |

How they interact: a thread blocks only in `wchan_sleep`; locks, semaphores and
condition variables are built on it; the list has its own lock inside the
buffer's lock; `fork` calls the process table, the file table and
`thread_fork` in turn, with other processes running in between; processes that
fork share `struct file`s, and files opened under one path share a vnode.

What is hard here: wakeups racing with the decision to sleep; stale tests after
a sleep; two structures kept in step by a lock of a third; pids and reference
counts read under one lock and used after it; failures half way through `fork`
and `open`; lock order in `dup2`; cpus that count, take and give each other's
threads one queue at a time, and idle on the stack of a thread that may be gone
or awake again. PROJECT.json lists each under "hazards".

Elsewhere in the repository: the group's first project
(`OperatingSystems/OS161-Project1`), with an earlier version of list, buffer and
locks and the same thread system but for `schedule`; MPI and OpenMP exercises
(`Parallel Computing`), a graph library and a JavaFX puzzle (`LargeScale`),
computer algebra and a thesis (`Research`), circuits and assembly
(`SystemArchitecture`), and the OS/161 distribution itself. None of this is
modelled, except the thread system of the first project and the reference count of
`vfs/vnode.c`; section 8 says why.

## 2. Modules

Each component module declares its CONSTANTS with a named assumption, its
VARIABLES under the names of the C fields, and one action per stretch of code
that other threads see as one step. Definitions marked "Fault" are variants of
an action that a plausible slip in the code would give; they are not part of any
specification.

| Module | Models | Checked by | Proofs |
|---|---|---|---|
| `Mutex` | abstract: who wants, who holds | | |
| `SleepLock` | `struct lock` | `MCSleepLock` | `SleepLockProofs` |
| `CountingSemaphore` | abstract: atomic P and V | | |
| `Semaphore` | `struct semaphore` | `MCSemaphore` | `SemaphoreProofs` |
| `BoundedStack` | abstract: a stack with a limit | | |
| `SharedBuffer` | buffer and condition variables | `MCSharedBuffer` | `SharedBufferProofs` |
| `OrderedList` | abstract: a sequence of keyed items | | |
| `LinkedList` | the list with its pointers | `MCLinkedList` | `SharedBufferProofs`, second part |
| `Hangman` | the deadlock detector and the locks that call it | `MCHangman` | `HangmanProofs` |
| `ProcTable` | process table, fork, exit, menu | `MCProcTable` | `ProcTableProofs` |
| `FileTable` | file tables, open, close, read, write, lseek, dup2, fork's copy | `MCFileTable` | `FileTableProofs` |
| `Scheduler` | cpus, threads, run queues, wait channels, interrupts | `MCScheduler` | `SchedulerProofs` |
| `Facts` | lemmas about numbers, finite sets and lists without repetition | | itself |

Where steps are cut. In `SleepLock`, `Semaphore` and `SharedBuffer` a step ends
where another cpu can look: taking a spinlock, each write under it that an
unlocked reader could see, giving it up. `wchan_sleep` is one step that queues
the thread and frees the spinlock, because `thread_switch` queues the thread
while it still holds it. A thread that has been woken must still retake the
spinlock. `lock_do_i_hold` needs the spinlock free and is one step. In
`SharedBuffer` the lock `sb_lock` is taken and freed in one step each, which is
what `SleepLock` is shown to provide (it implements `Mutex`), and the list
operation is one step under its own lock, as in `LinkedList`. In `Hangman` each
routine is one step under `hangman_lock`, and the lock around it keeps only what
lies between the calls. In `ProcTable` each routine of `proctable.c` is one step
under `pt_lock`. In `FileTable` taking a lock that may be contended is a step, and
so is each change made under different locks; a transfer is two steps, because
`VOP_READ` and `VOP_WRITE` sleep. In `Scheduler` a step is what a cpu does under one
run queue lock, with the interrupts of that cpu off: other cpus only append to a
run queue, under its lock, and only its own cpu takes from it. `c_isidle` is read
under the same lock. `thread_make_runnable` and `ipi_send` belong to the step that
calls them.

Which kernel `Scheduler` is. The variable `aging` is chosen at the start. FALSE is the
first project's kernel on all cpus, whose `schedule` is empty. TRUE is the final
project's on one cpu: with a second one it stops at boot, because the boot thread
of that cpu exits, `proc_remthread` destroys the process of every thread that exits
(`proc/proc.c:328`), and `proc_destroy` asserts that it is not the kernel process.
For the same reason the unlocked change of the run queue in the final `schedule`
(`thread/thread.c:886`) meets no other cpu. Line numbers of the map for the common
code are those of the first project. A thread `0 .. NumCpus - 1` is the boot thread of
a cpu, thread 0 becomes the menu, and `late` are the boot threads that exit only after
`thread_start_cpus` has set `thread_count`. Other threads do anything: fork, sleep,
wake, yield, exit; a wakeup also stands for a device interrupt.

A failed KASSERT, a panic, or an access through a null, freed or uninitialised
pointer sets `panicked`, `panic` or `fault` and stops the system. Properties hold
in that last state as well.

Each module has a type invariant `TypeOK`, an invariant of its run or the first
conjunct of one. The definitions of `LinkedList` that would meet those of `SharedBuffer` in
the proof module are called `LinkedInit`, `LinkedNext`, `LinkedSpec`, `LinkedTypeOK` and
`linkedVars`.

Data is abstract: threads, files, vnodes, nodes and processes are model values;
contents of files, address spaces and names are left out. Keys of the list, pids,
descriptors, counts and reference counts are the numbers of the code.

## 3. Runs that pass

**sleep_lock** (three threads). `MutualExclusion`; `OwnerIsHolder`: whenever the
spinlock is free, `is_busy` and `lk_owner` agree with who has the lock;
`ChannelHoldsSleepers`; `NoLostWakeup`: when threads sleep on a free lock, somebody
awake is bound to look at it; `NoPanic`: no KASSERT on the state of the lock fails,
although `lock_release` makes the reads of lines 220, 221 and 232 without the spinlock,
while other cpus may hold it; `SleepersAreWoken` (liveness);
`ImplementsMutex`, with the fairness of the abstract specification. Deadlock is
checked.

**semaphore** (four threads, count starts at 1, counts modulo 4).
`EveryUnitIsWanted`: while threads sleep in `P`, each unit of the count has an awake
thread on its way to it; `ImplementsSemaphore`: the steps are atomic P and V, an
increment that wraps the unsigned `sem_count` halts the machine, and a positive count
is taken by some waiting thread (liveness).

**shared_buffer** (two producers, two consumers, two slots). `CountTracksList`,
`KeysAreDepths` (keys of the list stay within the size of the buffer: `prepend`
starts again at 0 whenever the list is empty, and the first key is one less than
the next), `NoForgottenSleeper` (every free slot, and every item, has an awake
thread on its way while threads sleep), `NoPanic`, `AllServed` (liveness: when the
loads match, every call returns), `ImplementsStack` (no item lost or delivered
twice; last in, first out).

**linked_list** (four nodes, two data values, keys from -3 to 2). `WellLinked`,
`NoLeak`, `ImplementsOrderedList`: every operation on the pointers is the operation on
the sequence that `linked_list.h` describes, in order of the keys.

**hangman** (three threads, three locks). `NoSilentDeadlock`: no set of threads ever
waits in a circle without a report; `AlarmIsReal`: a report of a deadlock is true;
`OnlyReleaseIsLate`: of its own assertions hangman can only fail the one about a
lock still held.

**proc_table** (four processes besides the kernel, pids 2 to 5). `EntriesMatch`,
`CountCoversTable`, `MenuRunsAlone`. They hold although pids may be given twice: a
process whose entry was overwritten finds the slot of its pid taken or empty, and
the empty one is caught by the KASSERT of `remove_proc`. `MenuRunsAlone` says the
contrary of the comment on `common_prog`; see section 4.

**file_table** (two processes, three files, two vnodes, descriptors 3 and 4), up to
the first `dup2` (constraint `UntilDup2`). `GlobalMatches`, `NoDangling`: what one
process has open is never freed by another that shares the file or the path;
`RefsCovered`: the reference count covers what the open files account for, which
is why the unsynchronised test for 2 in `file_destroy` is safe; `PlaceIsKept`: while one
process reads or writes, no other moves the position or frees the file, also when a
failed `read` has left the lock behind and a failed `lseek` lets it go.

**scheduler** (two cpus with two threads beside the menu, or one cpu with three).
`OnOneList`: a thread that does not run is on exactly one list or about to be put
there, one that runs is on none, although `thread_consider_migration` and
`wchan_wakeall` keep threads on private lists and counts go stale;
`HomeCpu`: `t_cpu` is the cpu whose queue a thread is on, and of the running thread its
own, so that no two cpus run on one stack; it fails as soon as the thread on whose
stack the idle loop runs is migrated; `IdleIsCalled`: a cpu does not wait for an interrupt over a
thread on its queue unless one is on its way, although one sent between the
handler and the reset of the line (`lamebus_machdep.c:313`) is lost: the cpu looks at
its queue again after it; `StacksAreKept`: a zombie's stack is freed only after the
cpu has left it; `VictimsExist`: `to_send`, computed from old counts, never exceeds
the threads there; `NoMissedCount` for the menu's wait; `CountIsRight`: if no boot thread
is late, `thread_count` is the menu and the threads that run, which is what the comment
at `thread/thread.c:451` claims without the condition (section 4); `NotStarved`: the claim of the comment above `schedule` that its ageing
starves nobody, as a bound on the ticks a thread waits on a busy cpu; it holds because the
second loop of `schedule` exchanges disjoint pairs and moves no thread back by more
than one place (a full bubble pass would break it); `EndsStayPut`: the comparison of
the threads with the two ends of the list, to which `threadlist_init` gives no
priority, does no harm if the memory was 0. With other values `schedule` takes an end for
a thread, and the model stops there.

## 4. Runs that show a disagreement

Each checks one property that a line of the repository states.

**hangman_release** (`RecordsAgree`). `thread/synch.c:234` asks that
`HANGMAN_RELEASE` be called atomically with the release; the call comes after
`spinlock_release`. A waiter can take the lock in between, and hangman stops the
machine with no deadlock present.

**proc_pids** (`UniquePids`). The manual page of `fork` promises a unique pid.
`assign_pid` reserves nothing, so two processes that fork at the same time get the
same one.

**file_close** (`ClosedFilesLeave`). `include/file.h:36` says a file leaves the global
table with its last instance. `open` takes two references and `close` gives back
one, so from the second open of a path on the test for 2 fails, and the file stays.

**file_dup2s** (`Dup2sComplete`). The manual page of `dup2` gives `dup2(3, 4)` against
`dup2(4, 3)` as an example that must work as if one came first. The two wait for
each other's file locks.

Two more comments say what the code does not do. Here the run that passes states what
it does, and a theorem proves it.

**proc_table** (`MenuRunsAlone`). The comment on `common_prog` says that it "does not wait
for the subprogram to finish, but returns immediately to the menu"
(`main/menu.c:107-108`). The function ends in `thread_wait_for_count(tc)` (line 151), and the
menu is back at its prompt only when the program and all that it forked are gone
(`MenuWaitsForAll`).

**scheduler** (`CountIsRight`). The comment at `thread/thread.c:451-454` of the first
project justifies `thread_count = 1` with the menu being "the only thread that hasn't
exited yet". Nothing ensures it: `thread_start_cpus` waits until each boot thread has
called `V`, and a boot thread exits after that (`cpu_hatch`, line 419). If one is late, its
`thread_exit` takes one off the count for which nothing was added, and the count is one short
for good (`CountShort`). The menu that reads 1 and starts a program sees 1 again when
the boot thread exits, and returns to its prompt while the program runs.

Other behaviour the models contain as actions, without a run:

- `sys_exit` calls `cv_broadcast` without the exit lock, so its KASSERT fails: every
  `_exit` stops the machine. The thread of a program that cannot be loaded is the
  only one that ends normally.
- `proc_remthread` destroys the process of any thread that ends, so the first test
  thread that ends in the kernel process fails the KASSERT of `proc_destroy`.
- The error paths of `sys_fork` destroy the address space and then the process,
  which destroys it again; a null child is written to before it is tested.
- `fork` stores the child's pid through the user's register a0 and returns 0 to the
  parent.
- `sys_fork` enters the child in the table a second time, so `active_procs` only
  grows too large.
- `dup2` looks `oldfd` up in the global table, installs that entry in the local one
  and takes no reference; `dup2(fd, fd)` and a `dup2` that closes a last reference
  ask for a lock they hold.
- A failing `vfs_open` passes an uninitialised vnode to `vnode_cleanup`; a failing
  `read` keeps the lock of the file; an `lseek` whose `VOP_STAT` fails releases a lock it
  does not hold; `write` does not move `seek_pos`; a `file_table_copy` without memory keeps the
  lock of the table; `proc_destroy` never frees the file table.

## 5. Bounds

| Constant | Value | Why it is enough |
|---|---|---|
| `Threads` | 3 (lock), 4 (semaphore) | one that has the object, one that sleeps, one that overtakes the woken one; for the semaphore two sleepers and two callers of V |
| `CountModulus` | 4 | wraps within reach of four threads; the code has 2^32 |
| `Producers`, `Consumers`, `BUFFER_SIZE`, `ItemsEach` | 2, 2, 2, 2 (`Load`: 2 calls for each thread) | both sides sleep, both sides compete after a wakeup, the buffer is full and empty |
| `Nodes`, `InsertKeys`, `LowestKey` | 4, 0..2, see `MCLinkedList` | first, middle and last position, equal keys, prepend below zero |
| `Threads`, `Locks` of `Hangman` | 3, 3 | circles of two and three threads |
| `UProcs`, `PID_MAX`, `MaxActive` | 4, 6, 9 | two concurrent forks and a third process; the table can be full; `MaxActive` stops the creation of processes because `active_procs` only grows |
| `Procs`, `Files`, `Vnodes`, `OPEN_MAX`, `MaxRefs` | 2, 3, 2, 5, 5 | a file shared by fork, two files on one vnode, both tables full; `MaxRefs` stops opens and copies because reference counts only grow. The two violation runs use 6 |
| `INT` | 2 | two positions tell a moved `seek_pos` from one that is not; the code has 2^32 |
| `NumCpus`, `Kids`, `SmpThreads` | 2, 3, 2 | with two cpus the menu and two more threads, one of them a boot thread that is late: a cpu can have two to give, idle over a thread that is awake again, and be woken while it counts; on one cpu three threads and the menu, the fewest for which overtaking takes several calls of `schedule`. `SmpThreads` bounds the threads beside the menu with several cpus |
| `SCHEDULE_HARDCLOCKS`, `MIGRATE_HARDCLOCKS` | 2, 2 | the code has 4 and 16; what matters is that ticks without a call of `schedule` come in between, and smaller is worse for a waiting thread |
| `MaxSchedules` | 5 | calls of `schedule`, after which ticks stop; enough for a full bubble pass to starve a thread |
| `UINT`, `EndPriorities` | 16, {0, 2} | the count never wraps within the run unless it falls below 0; ends equal, and each above the other |

Symmetry is used for threads and locks of `Hangman`, nodes, processes, files, vnodes and `Kids`, in
runs without liveness. `MCLinkedList` checks a refinement under symmetry of the
nodes; the refinement is a safety property and the mapping names no node.
`MaxActive`, `MaxRefs`, `SmpThreads` and `MaxSchedules` are guards of the model, not of the code; they only remove
behaviour beyond the bound. CHECK_DEADLOCK is off where the system may stop: after a
panic, when all work is done, when threads wait for a `V` nobody has to call, or when
a bound is reached. `sleep_lock` checks it.

## 6. Fairness

`SleepLock`, `Semaphore` and `SharedBuffer` assume weak fairness of each thread's steps. The
clock preempts every thread and run queues are served in turn, so a thread that stays
able to move does. In `SleepLock` and `Semaphore` a thread need not begin another
operation, but finishes what it began, and critical sections end. Nothing is assumed about who
wins a spinlock or a freed lock: a thread may lose the race for ever. So the claims
are that a sleeper is woken and that some waiter gets a free lock, not that a given
thread does; in `SharedBuffer` the loads are finite, so everybody is served in the
end. The other modules claim safety only. `Scheduler` needs no fairness: `NotStarved` bounds
the ticks a thread waits while the clock ticks, and with `IdleIsCalled`, which says
that no ready thread is forgotten by an idle cpu, it is what justifies the weak
fairness assumed above.

## 7. Proofs

Every theorem holds for all values of the constants that the named assumption of its
module allows; these ask no more than finite sets, a null value outside them and
sizes above zero, and for `Scheduler` a width of `thread_count` that counts all threads
(`UINT`; the code has 32 bits), at least one thread beside the boot threads (`Kids`; with none,
`Patience` counts the places of an empty queue) and at least one tick without `schedule`
between two with it (`SCHEDULE_HARDCLOCKS` above 1 and a divisor of `MIGRATE_HARDCLOCKS`; the code has 4 and 16). `SleepLockProofs` covers infinite sets of threads as well.

| Module | Assumption | Theorems that state a property of a run | Others |
|---|---|---|---|
| `SleepLockProofs` | `NoThreadAssumption` | `TypeCorrect`, `Exclusion`, `OwnerTruthful`, `ChannelExact`, `WakeupKept`, `AssertsHold` | `RefinesMutex` |
| `SemaphoreProofs` | `SemAssumption` | `UnitsWanted` | `SemChannelExact`, `RefinesSemaphore` |
| `SharedBufferProofs` | `BufferAssumption` | `CountIsLength`, `SleepersRemembered`, `KeysNeverUnderflow`, `KassertsHold`, `MonitorIsStack` | `BufferInvariant` |
| the same, second part | `ListAssumption` | `ListWellLinked`, `ListNoLeak`, `ListRefines` | `ListInvariant` |
| `HangmanProofs` | `HangmanAssumption` | `NoDeadlockMissed`, `NoFalseAlarm`, `OnlyStillHeld` | `HangmanInvariant`, `CheckTerminates` |
| `ProcTableProofs` | `ProcAssumption` | `TypeCorrect`, `EntriesAreLive`, `CountCovers`, `MenuWaitsForAll` | `Invariance` |
| `FileTableProofs` | `FileAssumption` | `PlaceKept`, `RefsAreCovered`, `GlobalTruthful`, `OpenFilesKept` | `LastCloserAlone` |
| `SchedulerProofs` | `SchedulerAssumption` | `TypeCorrect`, `Homes`, `IdleCalled`, `StacksKept`, `Victims`, `NoCountMissed`, `OneList`, `EndsStay`, `CountRight`, `NobodyStarves` | `SchedulerInvariant`, `LabelInvariant`, `CountShort` |

`SleepLockProofs`. `MutualExclusion` is not inductive: it needs that the thread past
the test of the loop, or between the writes of a release, is the one that holds the
spinlock (`SpinIsHeld`), that `lk_owner` is right at each label (`OwnerIsHeld`) and
that `is_busy` is set exactly while some thread has the lock (`BusyIsHeld`). With the
type invariant, exclusion and `NoPanic` these form `LockInv`.
`ChannelHoldsSleepers` and `NoLostWakeup` are proved on top of it: a step that clears
`is_busy` stays on the way to `wchan_wakeone`, and a thread that is woken stays awake
until it has tested again. From the invariant follow `TypeCorrect`, `Exclusion`,
`OwnerTruthful`, `ChannelExact`, `WakeupKept`, `AssertsHold`, and `RefinesMutex`: each
step is a step of `Mutex` under the mapping of the module, or leaves its variables
alone (the safety part of `ImplementsMutex`).

`ProcTableProofs`. `IInv` has three parts. `StructInv`: a process that is creating
another has an embryo of its own as `child`, no two share one, exactly the processes in
use have pids, the kernel process alone is in the menu, and entries match. `CountInv`: `active_procs` is at least the cardinality of
the occupied slots; adding fills at most one slot and counts one, removing empties
exactly one because the KASSERT has seen it full. `ThreadInv`: `thread_count` is the
number of running processes plus kernel threads, each running process has one
thread, and while the menu waits `tc` is the number of kernel threads, so its wait can
end only when no process runs. From it follow `Invariance`, `TypeCorrect`, `EntriesAreLive`,
`CountCovers` and `MenuWaitsForAll`.

`SemaphoreProofs`. `SemInv` says who has the spinlock and that the channel holds the
sleepers, each once. `EveryUnitIsWanted` is inductive only with it: a thread sleeps only after it has seen 0
under the spinlock, so that a channel that fills does so with no unit left, and `V` adds
one to the count and takes one off the channel, standing itself for the thread it
will wake in between. Each step changes the cardinality of `Alert` by one at most.
`RefinesSemaphore` is the safety
part of `ImplementsSemaphore`; `UnsignedIncrement` is the lemma on the counter that wraps.

`SharedBufferProofs`. `MonitorInv`: who has `sb_lock` and the two spinlocks, who is on the
two channels, that what the while loop tested is still true when `count` changes
(`TestInv`), and how the list and `count` differ between the two updates (`LengthInv`).
No cardinality is needed for it, and from it no KASSERT fails, `count` is right, keys are
depths, and every step is a push, a pop or invisible: `ImplementsStack` is proved as
the run states it. `SleeperInv` adds that while some thread of a side sleeps, *or has decided
to*, there are as many awake threads on that side as free slots (items). This is
where one signal per call could fall short; it does not, because the thread that
signals has changed `count` by one and wakes one.

The list, in the same module. `WellLinked` is not inductive: it says nothing of the order of the keys, which
`insert` relies on, and following `next` from `first` is a recursion that no proof can unfold
to any length. So the invariant `ListInv` says that there *is* a sequence `s` of distinct nodes that
the memory represents (`Rep`): its members are the allocated nodes, `next` and `prev` of each
are its neighbours in `s`, `first` and `last` the ends, and keys never decrease. Nothing in it
is recursive. Every operation puts one node into `s` or takes one out (`With`, `Without`), and two
lemmas cover the pointers that change: `LinkIn` and `LinkOut`. The recursive walks of the model
are tied to `s` once: `WalkIs` shows that `NodeAt` runs through `s`, from the least place at which
they would differ, and `RunnerIs` that the loop of `insert` stops behind the last smaller key.
Then `Chain` is the set of allocated nodes, which is `NoLeak`, and `Items` is the sequence of the
keys and data of `s`, which each operation changes as `OrderedList` says; `ImplementsOrderedList` is
proved as the run states it.

`HangmanProofs`. Hangman's records lag behind the locks on both sides. `RecordsInv` bounds the
lag: a holder that hangman does not know is between its acquire and its
`hangman_acquire`, and one that it has not forgotten is between its release and
`hangman_release`. `NoCircle` says the records themselves have no circle: an edge is
added only by `hangman_wait`, after `hangman_check` has walked from the lock and not met
the caller. The walk (`Walk`, which follows `Onward`) is proved to visit every actor it could
reach within as many steps as there are threads, by choosing a shortest repetition.
A circle of the locks would be one of the records, since a thread in it is not
between two calls. `CheckTerminates` says that the loop of `hangman_check` ends.

`FileTableProofs`. `LockInv` holds always: a process that works on a file has the lock of
the file, and the file is allocated. `PlaceIsKept` follows, after `dup2` as well. `TableInv` holds
until the first `dup2`: the tables and `master_fd` agree, and `vn_refcount` is at least
`Refs`, the number of listed files, occupied slots and calls in progress that need the
vnode (`RefsOK`; three cardinalities instead of a sum over files). So when
`file_destroy` reads 2 without a lock, the two are the global entry and its own call,
nobody else has the file (`LastIsAlone`), and nobody can get it, because references are
made from references. This is the argument behind `GlobalMatches` and `NoDangling`.

`SchedulerProofs`. `SchedulerInv` has two halves. `PlaceInv` says where threads are. It is written
over the components of the state (`World`), because a context switch is two moves,
putting the current thread away and taking another, and the state in between is no
state of the specification. Its parts: threads on a run queue are ready, belong to the cpu
and are there once (`QueueOK`); private lists hold sleepers on their way or victims (`ListOK`); the channels,
zombies and newborns agree with `t_state`; current threads, and no others, run,
and an idle cpu is on a stack that was not freed (`CurrentOK`); no thread is lost
(`CoverOK`). One lemma per move (`PutToSleep`, `TakeNext`, `CutQueue`, `GiveAway`, ...) shows that `World`
survives it; actions are compositions of moves. The other half is about each cpu: `PcOK`, what
its label says of its lists; `MigOK`, that `to_send` never exceeds what is there, because
other cpus only add to a run queue; `CallOK`, that an idle cpu with work has been
called. What a step may do to other cpus is `Fed`: append, and call those that idle. The ordering
of `schedule` is a permutation (`SortedKeeps`): its second loop exchanges disjoint neighbours.
`EndsStayPut` needs `AgeInv`: the end that `schedule` ages with the threads stays at least as
old as each of them. `CountIsRight` is proved with what happens where a boot thread is late:
`CountIsShortByLate` counts two finite sets, the threads that run and the late boot threads that have
exited, each of which a step changes by one member at most, and needs `LabelInv`, so that a
thread is not counted out twice. It allows one late boot thread (`CountShort`); with none it is `CountIsRight`. `NotStarved` is far from inductive: a thread that has waited long may stand anywhere in the
queue. `WaitInv` puts the ticks `w` it has waited and its place `i` into one number, `Load` = (S - 1) w + S i with
S for `SCHEDULE_HARDCLOCKS`, and bounds it by `Limit`, which falls by one with each tick since the last `schedule`.
A tick without `schedule` takes the first thread off: w grows by one, i falls by one, and the load falls by
one, as the limit does. A tick with it can move the thread back by one place (`TickIsDue`), so that the load grows by S - 1, which is what the limit has in
store since it starts again at 0. A thread that is appended has w = 0 and a place within the number of threads.

Not proved, and checked with TLC only:

- liveness (`SleepersAreWoken`, `AllServed`) and the fairness of `ImplementsMutex` and
  `ImplementsSemaphore`: the prover has no rules for fairness here;
- the four runs of section 4, which show violations.

## 8. Not modelled

- `waitpid`, `execv`, `chdir`: the dispatcher has no case for them. `waitpid` would
  miss a child that exits before it waits (`syscall/waitpid.c:52`).
- `getcwd`, `getpid`, time, the dispatcher's translation of results: sequential, no
  state.
- The bytes that `read` and `write` move, and the console behind descriptors 0 to 2.
- `thread_panic`, `thread_shutdown` and the interrupts they send, TLB shootdowns, failing
  allocations of `thread_fork`. With three cpus and two boot threads that are late,
  `thread_exit`'s test of `thread_count` without its lock (`thread/thread.c:823`) could let
  the count fall below 0; the run has two cpus, and `CountShort` excludes it. A boot
  thread that has tested `thread_count` when it was still 0 and has not switched yet
  counts as gone at the start.
- Smaller gaps, each named where the definition stands: KASSERTs that repeat what the step
  has just brought about (`SleepLock`, `proc_destroy`), the `VOP_INCREF` and `VOP_DECREF` of a
  `file_table_add` that fails, the moment between `file_vnode = NULL` and the global lock
  in `file_destroy`, the double `kfree` of `file_table_create`, and what happens after `vnode_cleanup`
  has cleared a vnode in use.
- Constructors' failures and destructors of locks, semaphores, buffers.
- `dup2` returns EBADF although it has succeeded (`file_copy` returns 0): values
  returned to user programs are not part of the models.
- `synchprobs/`: stubs. `OS161-Project1`: an older version, apart from its thread system.
  The OS/161 base: not the repository's own.
- MPI, OpenMP, Java, Sage, assembly: separate programs with little or no shared
  state; of these `MPI_Sort.c` is worth a model.

## 9. Plan

Order of work, most important first; what is done is described above.

1. Done: `SleepLock`, `Semaphore`, `SharedBuffer`, `LinkedList`, `Hangman`, `ProcTable`,
   `FileTable` with reads, writes and seeks, `Scheduler`, their runs, and the proofs of
   every invariant and of the safety of every refinement these runs check.
2. `cv_broadcast` and `waitpid` with `sys_exit`, as the code would behave were the call
   dispatched.
3. `MPI_Sort.c`: odd-even transposition between neighbours, against the sorted
   sequence.
