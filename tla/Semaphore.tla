----------------------------- MODULE Semaphore -----------------------------
(***************************************************************************)
(* struct semaphore of kern/thread/synch.c: a count, a wait channel and    *)
(* the spinlock that protects both.  Steps are cut as in SleepLock.        *)
(***************************************************************************)
EXTENDS Sequences, Integers, FiniteSets

CONSTANTS
    Threads,        \* the kernel threads that share the semaphore
    NoThread,       \* NULL, for splk_holder
    InitialCount,   \* the argument of sem_create
    CountModulus    \* 2 to the width of an unsigned int

ASSUME SemAssumption ==
    /\ NoThread \notin Threads
    /\ IsFiniteSet(Threads)
    /\ CountModulus \in Nat
    /\ InitialCount \in 0 .. CountModulus - 1

VARIABLES
    sem_count,      \* sem->sem_count
    sem_wchan,      \* sem->sem_wchan: the threads asleep in P, oldest first
    splk_holder,    \* the thread whose cpu holds sem->sem_lock
    pc,             \* where each thread is in P and V
    panicked        \* a KASSERT failed

vars == <<sem_count, sem_wchan, splk_holder, pc, panicked>>

(***************************************************************************)
(* out     not using the semaphore                                         *)
(* pspin   P: about to take sem_lock                                       *)
(* ptest   P: holds sem_lock, at the test of the while loop                *)
(* asleep  on sem_wchan                                                    *)
(* woken   taken off sem_wchan, about to retake sem_lock                   *)
(* vspin   V: about to take sem_lock                                       *)
(* vcount  V: holds sem_lock, about to increment                           *)
(* vwake   V: about to call wchan_wakeone and release sem_lock             *)
(***************************************************************************)
Labels == {"out", "pspin", "ptest", "asleep", "woken", "vspin", "vcount", "vwake"}

Init ==
    /\ sem_count = InitialCount
    /\ sem_wchan = <<>>
    /\ splk_holder = NoThread
    /\ pc = [t \in Threads |-> "out"]
    /\ panicked = FALSE

Goto(t, from, to) == pc[t] = from /\ pc' = [pc EXCEPT ![t] = to]

spinlock_acquire(t) == splk_holder = NoThread /\ splk_holder' = t
spinlock_release(t) == splk_holder' = NoThread

(***************************************************************************)
(* P.                                                                      *)
(***************************************************************************)
CallP(t) ==
    /\ Goto(t, "out", "pspin")
    /\ UNCHANGED <<sem_count, sem_wchan, splk_holder, panicked>>

PSpin(t) ==
    /\ spinlock_acquire(t)
    /\ Goto(t, "pspin", "ptest")
    /\ UNCHANGED <<sem_count, sem_wchan, panicked>>

PSleep(t) ==
    /\ sem_count = 0
    /\ Goto(t, "ptest", "asleep")
    /\ sem_wchan' = Append(sem_wchan, t)
    /\ spinlock_release(t)
    /\ UNCHANGED <<sem_count, panicked>>

\* Fault: "if" for "while", a woken thread decrements without a new test.
PResumeNoRetest(t) ==
    /\ splk_holder = NoThread
    /\ Goto(t, "woken", "out")
    /\ sem_count' = (sem_count - 1) % CountModulus
    /\ UNCHANGED <<sem_wchan, splk_holder, panicked>>

PResume(t) ==
    /\ spinlock_acquire(t)
    /\ Goto(t, "woken", "ptest")
    /\ UNCHANGED <<sem_count, sem_wchan, panicked>>

PTake(t) ==
    /\ sem_count > 0
    /\ Goto(t, "ptest", "out")
    /\ sem_count' = sem_count - 1
    /\ spinlock_release(t)
    /\ UNCHANGED <<sem_wchan, panicked>>

(***************************************************************************)
(* V.                                                                      *)
(***************************************************************************)
CallV(t) ==
    /\ Goto(t, "out", "vspin")
    /\ UNCHANGED <<sem_count, sem_wchan, splk_holder, panicked>>

VSpin(t) ==
    /\ spinlock_acquire(t)
    /\ Goto(t, "vspin", "vcount")
    /\ UNCHANGED <<sem_count, sem_wchan, panicked>>

\* sem_count is unsigned: the KASSERT fails when the increment wraps.
VCount(t) ==
    /\ sem_count' = (sem_count + 1) % CountModulus
    /\ Goto(t, "vcount", "vwake")
    /\ panicked' = (sem_count' = 0)
    /\ UNCHANGED <<sem_wchan, splk_holder>>

\* Fault: the thread is woken only by the V that makes the count 1.
VWakeOnlyFirst(t) ==
    /\ pc[t] = "vwake"
    /\ LET wake == sem_wchan # <<>> /\ sem_count = 1 IN
       /\ pc' = IF wake THEN [pc EXCEPT ![t] = "out", ![Head(sem_wchan)] = "woken"]
                ELSE [pc EXCEPT ![t] = "out"]
       /\ sem_wchan' = IF wake THEN Tail(sem_wchan) ELSE sem_wchan
    /\ spinlock_release(t)
    /\ UNCHANGED <<sem_count, panicked>>

VWake(t) ==
    /\ pc[t] = "vwake"
    /\ \/ /\ sem_wchan = <<>>
          /\ pc' = [pc EXCEPT ![t] = "out"]
          /\ UNCHANGED sem_wchan
       \/ /\ sem_wchan # <<>>
          /\ pc' = [pc EXCEPT ![t] = "out", ![Head(sem_wchan)] = "woken"]
          /\ sem_wchan' = Tail(sem_wchan)
    /\ spinlock_release(t)
    /\ UNCHANGED <<sem_count, panicked>>

PStep(t) == PSpin(t) \/ PSleep(t) \/ PResume(t) \/ PTake(t)
VStep(t) == VSpin(t) \/ VCount(t) \/ VWake(t)

Next ==
    /\ ~panicked
    /\ \E t \in Threads : CallP(t) \/ CallV(t) \/ PStep(t) \/ VStep(t)

\* A thread inside P or V keeps running unless it sleeps; no thread has to call
\* P or V again.
Fairness == \A t \in Threads : WF_vars(~panicked /\ (PStep(t) \/ VStep(t)))

Spec == Init /\ [][Next]_vars /\ Fairness

-----------------------------------------------------------------------------
TypeOK ==
    /\ sem_count \in 0 .. CountModulus - 1
    /\ sem_wchan \in Seq(Threads)
    /\ splk_holder \in Threads \cup {NoThread}
    /\ pc \in [Threads -> Labels]
    /\ panicked \in BOOLEAN

\* The threads that are bound to test the count again without another V, and
\* the V that has counted and not woken yet.
Alert == {t \in Threads : pc[t] \in {"woken", "ptest", "vwake"}}

\* While threads sleep in P, every unit of the count has an awake thread on its
\* way to it: V wakes one thread per unit and a thread that overtakes a woken
\* one uses the unit up.  Waking only on the change from 0 to 1 would break it.
EveryUnitIsWanted ==
    /\ TypeOK
    /\ sem_wchan # <<>> => sem_count <= Cardinality(Alert)

(***************************************************************************)
(* The semaphore as its callers see it.                                    *)
(***************************************************************************)
C == INSTANCE CountingSemaphore WITH
        count <- sem_count,
        want <- {t \in Threads : pc[t] \in {"pspin", "ptest", "asleep", "woken"}},
        halted <- panicked

\* P and V built from a counter, a wait channel and a spinlock implement the
\* atomic counting semaphore: no unit is lost, made up or taken twice, a V that
\* wraps the count is caught, and a positive count does not leave every waiting
\* thread asleep.
ImplementsSemaphore == C!SemSpec
=============================================================================
