----------------------------- MODULE Scheduler -----------------------------
(***************************************************************************)
(* The thread system, kern/thread/thread.c with clock.c and threadlist.c:  *)
(* context switches, the run queues of the cpus, wait channels, migration, *)
(* the interrupts that drive them, and the final project's schedule().     *)
(*                                                                         *)
(* The kernels of the two projects differ in schedule() only, which does   *)
(* nothing in the first one.  The final kernel stops at boot on a machine  *)
(* with more than one cpu (a boot thread that exits makes proc_remthread   *)
(* destroy the kernel process), so it is modelled on one cpu.              *)
(*                                                                         *)
(* A step is what a cpu does under one run queue lock: others only append  *)
(* to a run queue, under its lock, and only its own cpu takes from it.     *)
(***************************************************************************)
EXTENDS Integers, Sequences, FiniteSets

CONSTANTS
    NumCpus,                \* cpus of the first project's machine
    Kids,                   \* the memory kmalloc can hand out for threads
    SmpThreads,             \* bound: threads in use beside the menu, with several cpus
    NULL,
    SCHEDULE_HARDCLOCKS,
    MIGRATE_HARDCLOCKS,
    UINT,                   \* how many values an unsigned int has
    EndPriorities,          \* what the priority of a list's end may be at boot
    MaxSchedules            \* bound: calls of the final project's schedule()

ASSUME SchedulerAssumption ==
    /\ NumCpus \in Nat \ {0}
    /\ NULL \notin Nat \cup Kids
    /\ Kids \cap Nat = {}
    /\ Kids # {} /\ IsFiniteSet(Kids) /\ SmpThreads \in Nat
    /\ SCHEDULE_HARDCLOCKS \in Nat \ {0, 1}
    /\ MIGRATE_HARDCLOCKS \in Nat \ {0}
    /\ MIGRATE_HARDCLOCKS % SCHEDULE_HARDCLOCKS = 0
    /\ UINT \in Nat /\ UINT > NumCpus + Cardinality(Kids)
    /\ EndPriorities \subseteq Int
    /\ MaxSchedules \in Nat

Cpus == 0 .. NumCpus - 1
Threads == Cpus \cup Kids   \* thread c is <boot #c>; thread 0 becomes the menu
Menu == 0
Hatchers == Cpus \ {Menu}

VARIABLES
    aging,          \* the kernel is the final project's
    late,           \* the boot threads that thread_start_cpus did not wait for
    pc,             \* pc[c]: what cpu c is doing
    c_curthread,    \* c_curthread[c]; an idle cpu is still on its stack
    c_isidle,       \* c_isidle[c]
    c_runqueue,     \* c_runqueue[c]
    c_zombies,      \* c_zombies[c]
    c_hardclocks,   \* c_hardclocks[c], modulo MIGRATE_HARDCLOCKS
    ipi_line,       \* ipi_line[c]: the interprocessor interrupt line of c is on
    list,           \* list[c]: victims, or the private list of wchan_wakeall
    mig,            \* mig[c]: the other local variables of thread_consider_migration
    t_state,        \* t_state[t], or S_FREE when t is not allocated
    t_cpu,          \* t_cpu[t]
    at,             \* at[t]: where t is
    newthread,      \* newthread[t]: the thread t is forking
    wc_threads,     \* a wait channel
    count_wchan,    \* thread_count_wchan
    thread_count,
    tc,             \* the count the menu waits for, or NULL
    priority,       \* priority[t] of its list node
    ends,           \* the priorities of tl_head and tl_tail of the run queue
    zeroed,         \* both were 0 at boot
    waited,         \* waited[t]: ticks t has spent on the run queue (aging only)
    fault           \* schedule() took an end of the list for a thread

bootVars == <<aging, late, zeroed>>   \* settled at boot
cpuVars == <<pc, c_curthread, c_isidle, c_runqueue, c_zombies>>
clockVars == <<c_hardclocks, mig>>
countVars == <<count_wchan, thread_count, tc>>
ageVars == <<priority, ends, fault>>
vars == <<bootVars, cpuVars, clockVars, ipi_line, list,
          t_state, t_cpu, at, newthread, wc_threads, countVars, ageVars, waited>>

(***************************************************************************)
(* off     not there                 run      executes c_curthread         *)
(* idle    waits for an interrupt    resume   back in the idle loop, with  *)
(*                                            interrupts still on          *)
(* ipi     interprocessor_interrupt has returned, the line is still on     *)
(* wakeall in wchan_wakeall          count    adds up the run queues       *)
(* take    about to take victims     give     distributes them             *)
(* back    about to take leftovers   tick     hardclock: schedule, yield   *)
(***************************************************************************)
CpuLabels == {"off", "run", "idle", "resume", "ipi", "wakeall",
              "count", "take", "give", "back", "tick"}

(***************************************************************************)
(* user    any code          fork    thread_fork: about to count newthread *)
(* born    about to make newthread runnable                                *)
(* wait    thread_wait_for_count                                           *)
(* exit    thread_exit: has seen thread_count # 0                          *)
(* gone    about to call thread_switch(S_ZOMBIE)                           *)
(***************************************************************************)
ThreadLabels == {"user", "fork", "born", "wait", "exit", "gone"}

Online == IF aging THEN {Menu} ELSE Cpus

\* threadlist_init says nothing of the priorities; the first project has none.
BootEnds(with_priorities) ==
    IF with_priorities THEN [head : EndPriorities, tail : EndPriorities]
    ELSE {[head |-> 0, tail |-> 0]}

\* The locals of thread_consider_migration where it begins.
Idle0 == [i |-> 0, my |-> 0, total |-> 0, send |-> 0]

\* What cpu_create has left in the cpus and their boot threads.
cpu_create ==
    /\ c_curthread = [c \in Cpus |-> c]
    /\ c_runqueue = [c \in Cpus |-> <<>>]
    /\ c_hardclocks = [c \in Cpus |-> 0]
    /\ ipi_line = [c \in Cpus |-> FALSE]
    /\ t_cpu = [t \in Threads |-> IF t \in Cpus THEN t ELSE Menu]

(***************************************************************************)
(* Boot is over: thread_start_cpus has set thread_count to 1.  A boot      *)
(* thread has called V before it exits (cpu_hatch), so it may still be     *)
(* about to.  One that saw the count while it was 0 is not among the late  *)
(* ones: it will not touch it any more, and is taken to be gone already.   *)
(***************************************************************************)
Init ==
    /\ aging \in BOOLEAN
    /\ late \in SUBSET (IF aging THEN {} ELSE Hatchers)
    /\ pc = [c \in Cpus |-> IF c \notin Online THEN "off"
                            ELSE IF c \in {Menu} \cup late THEN "run" ELSE "idle"]
    /\ cpu_create
    /\ c_isidle = [c \in Cpus |-> pc[c] = "idle"]
    /\ c_zombies = [c \in Cpus |-> IF pc[c] = "idle" THEN {c} ELSE {}]
    /\ list = [c \in Cpus |-> <<>>]
    /\ mig = [c \in Cpus |-> Idle0]
    /\ t_state = [t \in Threads |->
                    IF t \in Kids \/ t \notin Online THEN "S_FREE"
                    ELSE IF pc[t] = "run" THEN "S_RUN" ELSE "S_ZOMBIE"]
    /\ at = [t \in Threads |-> "user"]
    /\ newthread = [t \in Threads |-> NULL]
    /\ wc_threads = <<>>
    /\ count_wchan = <<>>
    /\ thread_count = 1
    /\ tc = NULL
    /\ priority = [t \in Threads |-> 0]
    /\ ends \in BootEnds(aging)
    /\ zeroed = (ends = [head |-> 0, tail |-> 0])
    /\ waited = [t \in Threads |-> 0]
    /\ fault = FALSE

(***************************************************************************)
(* thread_make_runnable on cpu c, with ipi_send if t's cpu is idle.        *)
(***************************************************************************)
Unidle(c, d) == ipi_line' = [ipi_line EXCEPT ![d] = @ \/ (c_isidle[d] /\ d # c)]

thread_make_runnable(c, t) ==
    /\ t_state' = [t_state EXCEPT ![t] = "S_READY"]
    /\ c_runqueue' = [c_runqueue EXCEPT ![t_cpu[t]] = Append(@, t)]
    /\ Unidle(c, t_cpu[t])

(***************************************************************************)
(* The second half of thread_switch, and thread_startup: take the head of  *)
(* the run queue q, or idle.  State st and zombies zs are the ones after   *)
(* the first half.  The next thread destroys the zombies (exorcise) from   *)
(* its own stack; what a freed thread holds does not matter any more.      *)
(***************************************************************************)
Destroyed(zs) == t_cpu' = [t \in Threads |-> IF t \in zs THEN Menu ELSE t_cpu[t]]

\* Fault: the zombies are destroyed before the switch to another stack.
GoIdle_early(c, st, zs) ==
    /\ c_isidle' = [c_isidle EXCEPT ![c] = TRUE]
    /\ pc' = [pc EXCEPT ![c] = "idle"]
    /\ c_zombies' = [c_zombies EXCEPT ![c] = {}]
    /\ t_state' = [t \in Threads |-> IF t \in zs THEN "S_FREE" ELSE st[t]]
    /\ UNCHANGED <<c_runqueue, c_curthread, t_cpu>>

\* Fault: c_isidle is not set for the idle loop.
GoIdle_unseen(c, st, zs) ==
    /\ pc' = [pc EXCEPT ![c] = "idle"]
    /\ c_zombies' = [c_zombies EXCEPT ![c] = zs]
    /\ t_state' = st
    /\ UNCHANGED <<c_isidle, c_runqueue, c_curthread, t_cpu>>

GoIdle(c, st, zs) ==
    /\ c_isidle' = [c_isidle EXCEPT ![c] = TRUE]
    /\ pc' = [pc EXCEPT ![c] = "idle"]
    /\ c_zombies' = [c_zombies EXCEPT ![c] = zs]
    /\ t_state' = st
    /\ UNCHANGED <<c_runqueue, c_curthread, t_cpu>>

Dispatch(c, q, st, zs, w) ==
    \/ /\ q # <<>>
       /\ c_runqueue' = [c_runqueue EXCEPT ![c] = Tail(q)]
       /\ c_curthread' = [c_curthread EXCEPT ![c] = Head(q)]
       /\ c_isidle' = [c_isidle EXCEPT ![c] = FALSE]
       /\ pc' = [pc EXCEPT ![c] = "run"]
       /\ c_zombies' = [c_zombies EXCEPT ![c] = {}]
       /\ t_state' = [t \in Threads |-> IF t = Head(q) THEN "S_RUN"
                                        ELSE IF t \in zs THEN "S_FREE" ELSE st[t]]
       /\ waited' = [w EXCEPT ![Head(q)] = 0]
       /\ Destroyed(zs)
    \/ /\ q = <<>>
       /\ GoIdle(c, st, zs)
       /\ waited' = w

(***************************************************************************)
(* thread_switch(S_READY), given the run queue and the waiting times.      *)
(***************************************************************************)
SwitchReady(c, q, w) ==
    LET cur == c_curthread[c]
    IN  \/ /\ q = <<>>
           /\ pc' = [pc EXCEPT ![c] = "run"]
           /\ waited' = w
           /\ UNCHANGED <<c_curthread, c_isidle, c_runqueue, c_zombies, t_state, t_cpu>>
        \/ /\ q # <<>>
           /\ Dispatch(c, Append(q, cur), [t_state EXCEPT ![cur] = "S_READY"], c_zombies[c], w)

SwitchSleep(c) ==
    Dispatch(c, c_runqueue[c], [t_state EXCEPT ![c_curthread[c]] = "S_SLEEP"],
             c_zombies[c], waited)

SwitchZombie(c) ==
    Dispatch(c, c_runqueue[c], [t_state EXCEPT ![c_curthread[c]] = "S_ZOMBIE"],
             c_zombies[c] \cup {c_curthread[c]}, waited)

Running(c, label) == pc[c] = "run" /\ at[c_curthread[c]] = label
Goto(c, label) == at' = [at EXCEPT ![c_curthread[c]] = label]

\* A boot thread does nothing but exit, the menu does not exit.
Busy(c) == Running(c, "user") /\ c_curthread[c] \notin Hatchers

(***************************************************************************)
(* thread_fork, in three parts between which it can be interrupted.  In    *)
(* the first project only the menu's commands start threads.               *)
(***************************************************************************)
Guests == {k \in Kids : t_state[k] # "S_FREE"} \cup {c \in late : t_state[c] # "S_FREE"}

\* common_prog: the menu reads thread_count before it starts a program, and waits for
\* that number afterwards.  The thread tests of the first project start threads without
\* a wait; in the final kernel they end in a panic.
ReadCount(c) ==
    \/ c_curthread[c] = Menu /\ tc' = thread_count
    \/ c_curthread[c] # Menu /\ UNCHANGED tc
    \/ ~aging /\ UNCHANGED tc

Fork(c) ==
    /\ Busy(c)
    /\ aging \/ c_curthread[c] = Menu
    /\ ~aging => Cardinality(Guests) < SmpThreads
    /\ \E k \in Kids :
        /\ t_state[k] = "S_FREE"
        /\ t_state' = [t_state EXCEPT ![k] = "S_READY"]
        /\ t_cpu' = [t_cpu EXCEPT ![k] = t_cpu[c_curthread[c]]]
        /\ priority' = [priority EXCEPT ![k] = 0]
        /\ newthread' = [newthread EXCEPT ![c_curthread[c]] = k]
    /\ ReadCount(c)
    /\ Goto(c, "fork")
    /\ UNCHANGED <<cpuVars, clockVars, ipi_line, list, wc_threads,
                   count_wchan, thread_count, ends, fault, waited>>

\* wchan_wakeall(thread_count_wchan): nobody but the menu sleeps there.
\* Fault: a change of thread_count wakes nobody.
WakeCounter_not(c) ==
    UNCHANGED <<count_wchan, t_state, c_runqueue, ipi_line>>

WakeCounter(c) ==
    /\ count_wchan' = <<>>
    /\ \/ count_wchan = <<>> /\ UNCHANGED <<t_state, c_runqueue, ipi_line>>
       \/ count_wchan # <<>> /\ thread_make_runnable(c, Menu)

ForkCount(c) ==
    /\ Running(c, "fork")
    /\ thread_count' = (thread_count + 1) % UINT
    /\ WakeCounter(c)
    /\ Goto(c, "born")
    /\ UNCHANGED <<pc, c_curthread, c_isidle, c_zombies, clockVars, list,
                   t_cpu, newthread, wc_threads, tc, ageVars, waited>>

ForkReady(c) ==
    /\ Running(c, "born")
    /\ thread_make_runnable(c, newthread[c_curthread[c]])
    /\ newthread' = [newthread EXCEPT ![c_curthread[c]] = NULL]
    /\ Goto(c, IF c_curthread[c] = Menu /\ tc # NULL THEN "wait" ELSE "user")
    /\ UNCHANGED <<pc, c_curthread, c_isidle, c_zombies, clockVars, list,
                   t_cpu, wc_threads, countVars, ageVars, waited>>

(***************************************************************************)
(* thread_wait_for_count.                                                  *)
(***************************************************************************)
WaitForCount(c) ==
    /\ Running(c, "wait")
    /\ \/ /\ thread_count = tc
          /\ tc' = NULL
          /\ Goto(c, "user")
          /\ UNCHANGED <<cpuVars, t_state, t_cpu, count_wchan, waited>>
       \/ /\ thread_count # tc
          /\ count_wchan' = Append(count_wchan, c_curthread[c])
          /\ SwitchSleep(c)
          /\ UNCHANGED <<at, tc>>
    /\ UNCHANGED <<clockVars, ipi_line, list, newthread,
                   wc_threads, thread_count, ageVars>>

(***************************************************************************)
(* thread_exit.  thread_count is tested before its lock is taken.          *)
(***************************************************************************)
Exit(c) ==
    /\ Running(c, "user")
    /\ c_curthread[c] # Menu
    /\ Goto(c, IF thread_count # 0 THEN "exit" ELSE "gone")
    /\ UNCHANGED <<cpuVars, clockVars, ipi_line, list, t_state, t_cpu,
                   newthread, wc_threads, countVars, ageVars, waited>>

\* Fault: the exiting thread is not taken off the count.
Down_not(n) == n

Down(n) == (n - 1) % UINT

ExitCount(c) ==
    /\ Running(c, "exit")
    /\ thread_count' = Down(thread_count)
    /\ WakeCounter(c)
    /\ Goto(c, "gone")
    /\ UNCHANGED <<pc, c_curthread, c_isidle, c_zombies, clockVars, list,
                   t_cpu, newthread, wc_threads, tc, ageVars, waited>>

\* The priority of a zombie is never read again; resetting it here merges states.
ExitSwitch(c) ==
    /\ Running(c, "gone")
    /\ SwitchZombie(c)
    /\ Goto(c, "user")
    /\ priority' = [priority EXCEPT ![c_curthread[c]] = 0]
    /\ UNCHANGED <<clockVars, ipi_line, list, newthread, wc_threads,
                   countVars, ends, fault>>

thread_yield(c) ==
    /\ Busy(c)
    /\ SwitchReady(c, c_runqueue[c], waited)
    /\ UNCHANGED <<clockVars, ipi_line, list, at, newthread,
                   wc_threads, countVars, ageVars>>

(***************************************************************************)
(* Wait channels.  The wakeups are also what the handlers of device        *)
(* interrupts do; a cpu that waits in the idle loop takes them too.        *)
(***************************************************************************)
Unlocked == \A d \in Cpus : pc[d] # "wakeall"
Interruptible(c) == pc[c] \in {"run", "idle", "resume"}
Return(c) == IF c_isidle[c] THEN "resume" ELSE "run"

wchan_sleep(c) ==
    /\ Busy(c)
    /\ Unlocked
    /\ wc_threads' = Append(wc_threads, c_curthread[c])
    /\ SwitchSleep(c)
    /\ UNCHANGED <<clockVars, ipi_line, list, at, newthread,
                   countVars, ageVars>>

wchan_wakeone(c) ==
    /\ Interruptible(c)
    /\ Unlocked
    /\ \/ wc_threads = <<>> /\ UNCHANGED <<wc_threads, t_state, c_runqueue, ipi_line>>
       \/ /\ wc_threads # <<>>
          /\ thread_make_runnable(c, Head(wc_threads))
          /\ wc_threads' = Tail(wc_threads)
    /\ pc' = [pc EXCEPT ![c] = Return(c)]
    /\ UNCHANGED <<c_curthread, c_isidle, c_zombies, clockVars, list,
                   t_cpu, at, newthread, countVars, ageVars, waited>>

\* The threads are moved to a private list and made runnable one at a time.
WakeFirst(c, ts) ==
    /\ thread_make_runnable(c, Head(ts))
    /\ list' = [list EXCEPT ![c] = Tail(ts)]
    /\ pc' = [pc EXCEPT ![c] = IF Len(ts) > 1 THEN "wakeall" ELSE Return(c)]
    /\ UNCHANGED <<c_curthread, c_isidle, c_zombies, clockVars,
                   t_cpu, at, newthread, countVars, ageVars, waited>>

wchan_wakeall(c) ==
    /\ Interruptible(c)
    /\ Unlocked
    /\ wc_threads # <<>>
    /\ wc_threads' = <<>>
    /\ WakeFirst(c, wc_threads)

WakeNext(c) ==
    /\ pc[c] = "wakeall"
    /\ WakeFirst(c, list[c])
    /\ UNCHANGED wc_threads

(***************************************************************************)
(* The idle loop of thread_switch, after cpu_idle.                         *)
(***************************************************************************)
Resume(c) ==
    /\ pc[c] = "resume"
    /\ Dispatch(c, c_runqueue[c], t_state, c_zombies[c], waited)
    /\ UNCHANGED <<clockVars, ipi_line, list, at, newthread,
                   wc_threads, countVars, ageVars>>

(***************************************************************************)
(* mainbus_interrupt for an interprocessor interrupt: the handler, which   *)
(* has nothing to do for IPI_UNIDLE, and then the line is turned off.      *)
(***************************************************************************)
interprocessor_interrupt(c) ==
    /\ Interruptible(c)
    /\ ipi_line[c]
    /\ pc' = [pc EXCEPT ![c] = "ipi"]
    /\ UNCHANGED <<c_curthread, c_isidle, c_runqueue, c_zombies, clockVars,
                   ipi_line, list, t_state, t_cpu, at, newthread, wc_threads, countVars,
                   ageVars, waited>>

ClearIpi(c) ==
    /\ pc[c] = "ipi"
    /\ ipi_line' = [ipi_line EXCEPT ![c] = FALSE]
    /\ pc' = [pc EXCEPT ![c] = Return(c)]
    /\ UNCHANGED <<c_curthread, c_isidle, c_runqueue, c_zombies, clockVars,
                   list, t_state, t_cpu, at, newthread, wc_threads, countVars, ageVars, waited>>

(***************************************************************************)
(* thread_consider_migration.  The run queues are counted one at a time;   *)
(* with no more than its share a cpu keeps what it has.                    *)
(***************************************************************************)
OneShare(total) == (total + Cardinality(Online) - 1) \div Cardinality(Online)

\* Fault: my_count is the count of all queues.
Counted_all(c, m) ==
    LET n == Len(c_runqueue[m.i])
    IN  [m EXCEPT !.i = @ + 1, !.total = @ + n, !.my = @ + n]

Counted(c, m) ==
    LET n == Len(c_runqueue[m.i])
    IN  [m EXCEPT !.i = @ + 1, !.total = @ + n, !.my = IF m.i = c THEN n ELSE @]

\* Counting of queue m.i, the last of which tells what to do.
CountQueue(c, m) ==
    LET extra == m.my - OneShare(m.total)
    IN  \/ /\ m.i < Cardinality(Online)
           /\ mig' = [mig EXCEPT ![c] = m]
           /\ pc' = [pc EXCEPT ![c] = "count"]
        \/ /\ m.i = Cardinality(Online) /\ extra <= 0
           /\ mig' = [mig EXCEPT ![c] = Idle0]
           /\ pc' = [pc EXCEPT ![c] = "tick"]
        \/ /\ m.i = Cardinality(Online) /\ extra > 0
           /\ mig' = [mig EXCEPT ![c] = [m EXCEPT !.i = 0, !.send = extra]]
           /\ pc' = [pc EXCEPT ![c] = "take"]

CountNext(c) ==
    /\ pc[c] = "count"
    /\ CountQueue(c, Counted(c, mig[c]))
    /\ UNCHANGED <<c_curthread, c_isidle, c_runqueue, c_zombies,
                   c_hardclocks, ipi_line, list, t_state, t_cpu, at, newthread, wc_threads,
                   countVars, ageVars, waited>>

\* The for loop over the other cpus has come to number i with list v.
GiveFrom(c, i, send, v) ==
    LET j == IF i = c THEN i + 1 ELSE i
    IN  \/ /\ send > 0 /\ j < Cardinality(Online)
           /\ mig' = [mig EXCEPT ![c].i = j, ![c].send = send]
           /\ pc' = [pc EXCEPT ![c] = "give"]
        \/ /\ send = 0 \/ j = Cardinality(Online)
           /\ mig' = [mig EXCEPT ![c] = Idle0]
           /\ pc' = [pc EXCEPT ![c] = IF v = <<>> THEN "tick" ELSE "back"]

TakeVictims(c) ==
    /\ pc[c] = "take"
    /\ LET q == c_runqueue[c]
           left == Len(q) - mig[c].send
       IN  /\ c_runqueue' = [c_runqueue EXCEPT ![c] = SubSeq(q, 1, left)]
           /\ list' = [list EXCEPT ![c] = SubSeq(q, left + 1, Len(q))]
           /\ GiveFrom(c, 0, mig[c].send, list'[c])
    /\ UNCHANGED <<c_curthread, c_isidle, c_zombies, c_hardclocks,
                   ipi_line, t_state, t_cpu, at, newthread, wc_threads, countVars, ageVars,
                   waited>>

(***************************************************************************)
(* The while loop that gives victims to a cpu with room for some of them:  *)
(* moved is how many it gets, and if the loop comes to curthread on the    *)
(* way, that goes to the end of the list in place of the last one.         *)
(***************************************************************************)
Lesser(a, b) == IF a <= b THEN a ELSE b

\* Fault: the thread whose stack the idle loop runs on is migrated.
Given_curthread(cur, v, room, send) ==
    LET n == Lesser(room, send)
    IN  [moved |-> SubSeq(v, 1, n), rest |-> SubSeq(v, n + 1, Len(v)), send |-> send - n]

Given(cur, v, room, send) ==
    LET n == Lesser(room, send)
        met == {j \in 1 .. n : v[j] = cur}
        p == CHOOSE j \in met : TRUE
        others == SubSeq(v, 1, p - 1) \o SubSeq(v, p + 1, Len(v))
        k == Lesser(room, send - 1)
    IN  IF met # {}
        THEN [moved |-> SubSeq(others, 1, k),
              rest |-> Append(SubSeq(others, k + 1, Len(others)), cur), send |-> send - 1 - k]
        ELSE [moved |-> SubSeq(v, 1, n), rest |-> SubSeq(v, n + 1, Len(v)), send |-> send - n]

Rehome(ts, d) ==
    t_cpu' = [t \in Threads |-> IF \E j \in DOMAIN ts : ts[j] = t THEN d ELSE t_cpu[t]]

GiveVictims(c) ==
    /\ pc[c] = "give"
    /\ LET m == mig[c]
           room == OneShare(m.total) - Len(c_runqueue[m.i])
           g == Given(c_curthread[c], list[c], IF room > 0 THEN room ELSE 0, m.send)
       IN  /\ list' = [list EXCEPT ![c] = g.rest]
           /\ c_runqueue' = [c_runqueue EXCEPT ![m.i] = @ \o g.moved]
           /\ Rehome(g.moved, m.i)
           /\ IF g.moved = <<>> THEN UNCHANGED ipi_line ELSE Unidle(c, m.i)
           /\ GiveFrom(c, m.i + 1, g.send, g.rest)
    /\ UNCHANGED <<c_curthread, c_isidle, c_zombies, c_hardclocks,
                   t_state, at, newthread, wc_threads, countVars, ageVars, waited>>

\* Fault: what nobody had room for is forgotten.
TakeBack_not(c) == UNCHANGED c_runqueue

TakeBack(c) == c_runqueue' = [c_runqueue EXCEPT ![c] = @ \o list[c]]

Leftovers(c) ==
    /\ pc[c] = "back"
    /\ TakeBack(c)
    /\ list' = [list EXCEPT ![c] = <<>>]
    /\ pc' = [pc EXCEPT ![c] = "tick"]
    /\ UNCHANGED <<c_curthread, c_isidle, c_zombies, clockVars, ipi_line,
                   t_state, t_cpu, at, newthread, wc_threads, countVars, ageVars, waited>>

(***************************************************************************)
(* schedule().  The first loop ages the head of the list and the threads   *)
(* on it, the second exchanges neighbours: after an exchange it goes on    *)
(* behind the thread moved back, which is compared no more.                *)
(***************************************************************************)
\* Fault: the first loop starts behind the head.
AgedHead_not(e) == e

AgedHead(e) == [e EXCEPT !.head = @ + 1]

\* Fault: waiting lowers the priority.
Aged_less(q, p) == [t \in Threads |-> IF \E i \in DOMAIN q : q[i] = t THEN p[t] - 1 ELSE p[t]]

Aged(q, p) == [t \in Threads |-> IF \E i \in DOMAIN q : q[i] = t THEN p[t] + 1 ELSE p[t]]

Swaps(q, p) ==
    LET f[i \in DOMAIN q] == /\ i < Len(q)
                             /\ p[q[i + 1]] > p[q[i]]
                             /\ i = 1 \/ ~f[i - 1]
    IN  f

\* Fault: a full bubble pass, in which a thread falls back past all that are older.
Sorted_bubble(q, p) ==
    LET carried[i \in DOMAIN q] == IF i = 1 THEN q[1]
                                   ELSE IF p[q[i]] > p[carried[i - 1]] THEN carried[i - 1] ELSE q[i]
    IN  [i \in DOMAIN q |-> IF i = Len(q) THEN carried[i]
                            ELSE IF p[q[i + 1]] > p[carried[i]] THEN q[i + 1] ELSE carried[i]]

Sorted(q, p) ==
    LET f == Swaps(q, p)
    IN  [i \in DOMAIN q |-> IF f[i] THEN q[i + 1]
                            ELSE IF i > 1 /\ f[i - 1] THEN q[i - 1] ELSE q[i]]

\* The second loop exchanges an end of the list: it has no tln_self.
StepsOff(q, p, e) ==
    IF q = <<>> THEN e.tail > e.head
    ELSE \/ p[q[1]] > e.head
         \/ /\ e.tail > p[q[Len(q)]]
            /\ Len(q) > 1 => ~Swaps(q, p)[Len(q) - 1]

(***************************************************************************)
(* The end of hardclock, given what schedule() has left.  Nothing else can *)
(* happen on the only cpu of the final kernel in between.  thread_yield    *)
(* returns at once from the idle loop.                                     *)
(***************************************************************************)
Yield(c, q) ==
    \/ /\ c_isidle[c]
       /\ c_runqueue' = [c_runqueue EXCEPT ![c] = q]
       /\ pc' = [pc EXCEPT ![c] = "resume"]
       /\ UNCHANGED <<c_curthread, c_isidle, c_zombies, t_state, t_cpu, waited>>
    \/ /\ ~c_isidle[c]
       /\ SwitchReady(c, q, IF aging
                            THEN [t \in Threads |-> IF \E i \in DOMAIN q : q[i] = t
                                                    THEN waited[t] + 1 ELSE waited[t]]
                            ELSE waited)

ScheduleDue(h) == aging /\ h % SCHEDULE_HARDCLOCKS = 0

\* h is the number of this tick.
EndOfTick(c, h) ==
    LET q == c_runqueue[c]
        p == Aged(q, priority)
        e == AgedHead(ends)
    IN  \/ /\ ~ScheduleDue(h)
           /\ Yield(c, q)
           /\ UNCHANGED ageVars
        \/ /\ ScheduleDue(h) /\ StepsOff(q, p, e)
           /\ fault' = TRUE /\ priority' = p /\ ends' = e
           /\ UNCHANGED <<cpuVars, t_state, t_cpu, waited>>
        \/ /\ ScheduleDue(h) /\ ~StepsOff(q, p, e)
           /\ priority' = p /\ ends' = e
           /\ Yield(c, Sorted(q, p))
           /\ UNCHANGED fault

(***************************************************************************)
(* hardclock: migration every MIGRATE_HARDCLOCKS ticks, schedule() every   *)
(* SCHEDULE_HARDCLOCKS, then thread_yield.                                 *)
(***************************************************************************)
hardclock(c) ==
    /\ Interruptible(c)
    /\ aging => ends.head < MaxSchedules
    /\ LET h == (c_hardclocks[c] + 1) % MIGRATE_HARDCLOCKS
       IN  /\ c_hardclocks' = [c_hardclocks EXCEPT ![c] = h]
           /\ \/ /\ h = 0
                 /\ CountQueue(c, Counted(c, Idle0))
                 /\ UNCHANGED <<c_curthread, c_isidle, c_runqueue, c_zombies, t_state, t_cpu, waited,
                                ageVars>>
              \/ /\ h # 0
                 /\ EndOfTick(c, h)
                 /\ UNCHANGED mig
    /\ UNCHANGED <<ipi_line, list, at, newthread, wc_threads,
                   countVars>>

Tick(c) ==
    /\ pc[c] = "tick"
    /\ EndOfTick(c, c_hardclocks[c])
    /\ UNCHANGED <<clockVars, ipi_line, list, at, newthread,
                   wc_threads, countVars>>

CpuStep(c) ==
    \/ Fork(c) \/ ForkCount(c) \/ ForkReady(c) \/ WaitForCount(c)
    \/ Exit(c) \/ ExitCount(c) \/ ExitSwitch(c) \/ thread_yield(c)
    \/ wchan_sleep(c) \/ wchan_wakeone(c) \/ wchan_wakeall(c) \/ WakeNext(c)
    \/ Resume(c) \/ interprocessor_interrupt(c) \/ ClearIpi(c)
    \/ hardclock(c) \/ CountNext(c) \/ TakeVictims(c) \/ GiveVictims(c) \/ Leftovers(c)
    \/ Tick(c)

Next ==
    /\ ~fault
    /\ \E c \in Cpus : CpuStep(c)
    /\ UNCHANGED bootVars

Spec == Init /\ [][Next]_vars

(***************************************************************************)
(* Properties.                                                             *)
(***************************************************************************)
States == {"S_RUN", "S_READY", "S_SLEEP", "S_ZOMBIE", "S_FREE"}

\* Type invariant.
TypeOK ==
    /\ aging \in BOOLEAN /\ zeroed \in BOOLEAN /\ fault \in BOOLEAN
    /\ late \subseteq Hatchers
    /\ pc \in [Cpus -> CpuLabels]
    /\ c_curthread \in [Cpus -> Threads]
    /\ c_isidle \in [Cpus -> BOOLEAN]
    /\ c_runqueue \in [Cpus -> Seq(Threads)]
    /\ c_zombies \in [Cpus -> SUBSET Threads]
    /\ c_hardclocks \in [Cpus -> 0 .. MIGRATE_HARDCLOCKS - 1]
    /\ ipi_line \in [Cpus -> BOOLEAN]
    /\ list \in [Cpus -> Seq(Threads)]
    /\ mig \in [Cpus -> [i : 0 .. NumCpus, my : Nat, total : Nat, send : Nat]]
    /\ t_state \in [Threads -> States]
    /\ t_cpu \in [Threads -> Cpus]
    /\ at \in [Threads -> ThreadLabels]
    /\ newthread \in [Threads -> Kids \cup {NULL}]
    /\ wc_threads \in Seq(Threads)
    /\ count_wchan \in Seq(Threads)
    /\ thread_count \in 0 .. UINT - 1
    /\ tc \in 0 .. UINT - 1 \cup {NULL}
    /\ priority \in [Threads -> Nat]
    /\ ends \in [head : Int, tail : Int]
    /\ waited \in [Threads -> Nat]

Spots(s, t) == {i \in DOMAIN s : s[i] = t}

Linked(name, lists, t) == UNION {{name} \X {c} \X Spots(lists[c], t) : c \in Cpus}

\* Where t is linked into a list, or kept by the thread that is creating it.
Places(t) ==
    Linked("c_runqueue", c_runqueue, t)
        \cup Linked("list", list, t)
        \cup {"wc_threads"} \X {NULL} \X Spots(wc_threads, t)
        \cup {"count_wchan"} \X {NULL} \X Spots(count_wchan, t)
        \cup {"c_zombies"} \X {c \in Cpus : t \in c_zombies[c]} \X {NULL}
        \cup {"newthread"} \X {u \in Threads : newthread[u] = t} \X {NULL}

\* A thread that does not run is on exactly one list and one that runs on none,
\* while cpus wake, migrate and put back the threads of each other's queues: none
\* is lost in the private lists, none linked into two lists by its one list node.
OnOneList ==
    \A t \in Threads :
        /\ Cardinality(Places(t)) = IF t_state[t] \in {"S_READY", "S_SLEEP", "S_ZOMBIE"} THEN 1 ELSE 0
        /\ t_state[t] = "S_RUN" <=> \E c \in Online : c_curthread[c] = t /\ ~c_isidle[c]

\* t_cpu, from which the code derives curcpu and the run queue a thread is woken
\* on, is the cpu whose queue the thread is on, and for curthread its own cpu: so no
\* two cpus execute on one stack, although the idle loop is on that of a thread which
\* may be awake and on a run queue again when migration comes.
HomeCpu ==
    \A c \in Online :
        /\ t_cpu[c_curthread[c]] = c
        /\ \A i \in DOMAIN c_runqueue[c] : t_cpu[c_runqueue[c][i]] = c

\* A cpu waits for an interrupt with threads on its run queue only if one is on
\* its way, although one sent between the handler and the reset of the line is lost.
IdleIsCalled == \A c \in Online : pc[c] = "idle" /\ c_runqueue[c] # <<>> => ipi_line[c]

\* No cpu executes on the stack of a thread that exorcise has freed.
StacksAreKept == \A c \in Online : t_state[c_curthread[c]] # "S_FREE"

\* The run queue has the threads that thread_consider_migration takes off it, and
\* the list of victims those it gives away, although both were counted earlier.
VictimsExist ==
    \A c \in Online :
        /\ pc[c] = "take" => mig[c].send <= Len(c_runqueue[c])
        /\ pc[c] = "give" => mig[c].send <= Len(list[c])

\* The menu never sleeps in thread_wait_for_count when the count it waits for is
\* there: no thread that starts or exits between its test and its sleep is missed.
NoMissedCount == count_wchan # <<>> => thread_count # tc

Gone(t) == at[t] = "gone" \/ t_state[t] \in {"S_ZOMBIE", "S_FREE"}
Uncounted(k) == \E u \in Threads : newthread[u] = k /\ at[u] = "fork"

\* Where every boot thread was gone when thread_start_cpus set thread_count to 1, the
\* count is the number of threads that have been started and have not exited, the
\* menu among them, whatever forks and exits interleave.  The comment at thread.c:451
\* takes for granted that they were ("the only thread that hasn't exited yet"), but
\* thread_start_cpus waits for V only, which each calls before it exits: after a late
\* exit the count is one short (theorem CountShort).
CountIsRight ==
    late = {} => thread_count = 1 + Cardinality({k \in Kids : ~Gone(k) /\ ~Uncounted(k)})

\* A call of schedule() costs a thread at most one place and a tick gains it one, so
\* that it gets from the last of n places to the first in less than Patience ticks.
Patience ==
    ((Cardinality(Kids) - 1) * SCHEDULE_HARDCLOCKS) \div (SCHEDULE_HARDCLOCKS - 1) + 2

\* In the final kernel a thread on the run queue is chosen before Patience ticks have
\* passed on a busy cpu, however many older threads schedule() moves ahead of it.
NotStarved == \A t \in Threads : waited[t] < Patience

\* schedule() takes no end of the list for a thread if the two priorities that
\* threadlist_init leaves alone happened to be 0: no thread outgrows the head.
EndsStayPut == zeroed => ~fault
=============================================================================
