----------------------------- MODULE SleepLock -----------------------------
(***************************************************************************)
(* struct lock of kern/thread/synch.c on top of the wait channels of       *)
(* kern/thread/thread.c and the spinlocks of kern/thread/spinlock.c.       *)
(*                                                                         *)
(* A step of the model is a stretch of code between two points at which    *)
(* another cpu can see or change the lock: taking lk_spinlock, a write     *)
(* under it, giving it up.  Because a cpu that holds a spinlock runs with  *)
(* interrupts off, the thread that took it stands for the cpu.             *)
(***************************************************************************)
EXTENDS Sequences, Integers

CONSTANTS
    Threads,    \* the kernel threads that share the lock
    NoThread    \* NULL, for lk_owner and splk_holder

ASSUME NoThreadAssumption == NoThread \notin Threads

VARIABLES
    is_busy,        \* lock->is_busy
    lk_owner,       \* lock->lk_owner
    lk_wchan,       \* lock->lk_wchan: the threads asleep on the lock, oldest first
    splk_holder,    \* the thread whose cpu holds lock->lk_spinlock
    pc,             \* where each thread is in lock_acquire and lock_release
    panicked        \* a KASSERT failed

vars == <<is_busy, lk_owner, lk_wchan, splk_holder, pc, panicked>>

(***************************************************************************)
(* out     not using the lock                                              *)
(* wcheck  lock_acquire: about to evaluate KASSERT(!lock_do_i_hold)        *)
(* wspin   lock_acquire: about to take lk_spinlock                         *)
(* wtest   lock_acquire: holds lk_spinlock, at the test of the while loop  *)
(* asleep  on lk_wchan                                                     *)
(* woken   taken off lk_wchan, wchan_sleep about to retake lk_spinlock     *)
(* wowner  is_busy is set, lk_owner is not                                 *)
(* held    lock_acquire has returned                                       *)
(* rcheck  lock_release: about to evaluate KASSERT(lock_do_i_hold)         *)
(* rflag   about to read is_busy, rname lk_owner, for the next KASSERTs    *)
(* rspin   lock_release: about to take lk_spinlock                         *)
(* rbusy   lock_release: holds lk_spinlock, about to clear is_busy         *)
(* rowner  about to clear lk_owner                                         *)
(* rwake   about to call wchan_wakeone and release lk_spinlock             *)
(* rdone   has released lk_spinlock, one more KASSERT to come              *)
(***************************************************************************)
Labels == {"out", "wcheck", "wspin", "wtest", "asleep", "woken", "wowner",
           "held", "rcheck", "rflag", "rname", "rspin", "rbusy", "rowner", "rwake", "rdone"}

Init ==
    /\ is_busy = FALSE
    /\ lk_owner = NoThread
    /\ lk_wchan = <<>>
    /\ splk_holder = NoThread
    /\ pc = [t \in Threads |-> "out"]
    /\ panicked = FALSE

Goto(t, from, to) == pc[t] = from /\ pc' = [pc EXCEPT ![t] = to]

(***************************************************************************)
(* Spinlock.  KASSERT(spinlock_do_i_hold) right after spinlock_acquire is  *)
(* what that step has just brought about.                                  *)
(***************************************************************************)
spinlock_acquire(t) == splk_holder = NoThread /\ splk_holder' = t
spinlock_release(t) == splk_holder' = NoThread

(***************************************************************************)
(* lock_do_i_hold takes and releases the spinlock around one comparison.   *)
(* A failed KASSERT stops the machine.                                     *)
(***************************************************************************)
lock_do_i_hold(t) == t = lk_owner

kassert(t, cond, from, to) ==
    IF cond
    THEN Goto(t, from, to) /\ UNCHANGED panicked
    ELSE pc[t] = from /\ panicked' = TRUE /\ UNCHANGED pc

(***************************************************************************)
(* lock_acquire.                                                           *)
(***************************************************************************)
Call(t) ==
    /\ Goto(t, "out", "wcheck")
    /\ UNCHANGED <<is_busy, lk_owner, lk_wchan, splk_holder, panicked>>

AcquireCheck(t) ==
    /\ splk_holder = NoThread
    /\ kassert(t, ~lock_do_i_hold(t), "wcheck", "wspin")
    /\ UNCHANGED <<is_busy, lk_owner, lk_wchan, splk_holder>>

AcquireSpin(t) ==
    /\ spinlock_acquire(t)
    /\ Goto(t, "wspin", "wtest")
    /\ UNCHANGED <<is_busy, lk_owner, lk_wchan, panicked>>

\* wchan_sleep: thread_switch puts the thread on the channel before it gives
\* up the spinlock.
AcquireSleep(t) ==
    /\ is_busy
    /\ Goto(t, "wtest", "asleep")
    /\ lk_wchan' = Append(lk_wchan, t)
    /\ spinlock_release(t)
    /\ UNCHANGED <<is_busy, lk_owner, panicked>>

\* Fault: "if" for "while", a woken thread takes the lock without a new test.
AcquireResumeNoRetest(t) ==
    /\ spinlock_acquire(t)
    /\ Goto(t, "woken", "wowner")
    /\ is_busy' = TRUE
    /\ UNCHANGED <<lk_owner, lk_wchan, panicked>>

AcquireResume(t) ==
    /\ spinlock_acquire(t)
    /\ Goto(t, "woken", "wtest")
    /\ UNCHANGED <<is_busy, lk_owner, lk_wchan, panicked>>

\* The two KASSERTs behind the loop are what its test has just seen under the
\* same hold of lk_spinlock.
AcquireBusy(t) ==
    /\ ~is_busy
    /\ Goto(t, "wtest", "wowner")
    /\ is_busy' = TRUE
    /\ UNCHANGED <<lk_owner, lk_wchan, splk_holder, panicked>>

\* Fault: lk_owner is not recorded.
AcquireOwnerForgotten(t) ==
    /\ Goto(t, "wowner", "held")
    /\ spinlock_release(t)
    /\ UNCHANGED <<is_busy, lk_owner, lk_wchan, panicked>>

AcquireOwner(t) ==
    /\ Goto(t, "wowner", "held")
    /\ lk_owner' = t
    /\ spinlock_release(t)
    /\ UNCHANGED <<is_busy, lk_wchan, panicked>>

(***************************************************************************)
(* lock_release.                                                           *)
(***************************************************************************)
CallRelease(t) ==
    /\ Goto(t, "held", "rcheck")
    /\ UNCHANGED <<is_busy, lk_owner, lk_wchan, splk_holder, panicked>>

ReleaseCheck(t) ==
    /\ splk_holder = NoThread
    /\ kassert(t, lock_do_i_hold(t), "rcheck", "rflag")
    /\ UNCHANGED <<is_busy, lk_owner, lk_wchan, splk_holder>>

\* These two reads are made without the spinlock, whoever holds it.
ReleaseReads(t) ==
    /\ \/ kassert(t, is_busy, "rflag", "rname")
       \/ kassert(t, lk_owner # NoThread, "rname", "rspin")
    /\ UNCHANGED <<is_busy, lk_owner, lk_wchan, splk_holder>>

ReleaseSpin(t) ==
    /\ spinlock_acquire(t)
    /\ Goto(t, "rspin", "rbusy")
    /\ UNCHANGED <<is_busy, lk_owner, lk_wchan, panicked>>

ReleaseBusy(t) ==
    /\ Goto(t, "rbusy", "rowner")
    /\ is_busy' = FALSE
    /\ UNCHANGED <<lk_owner, lk_wchan, splk_holder, panicked>>

\* Fault: lk_owner keeps pointing at the last owner.
ReleaseOwnerKept(t) ==
    /\ Goto(t, "rowner", "rwake")
    /\ UNCHANGED <<is_busy, lk_owner, lk_wchan, splk_holder, panicked>>

ReleaseOwner(t) ==
    /\ Goto(t, "rowner", "rwake")
    /\ lk_owner' = NoThread
    /\ UNCHANGED <<is_busy, lk_wchan, splk_holder, panicked>>

\* Fault: lock_release forgets wchan_wakeone.
ReleaseWakeForgotten(t) ==
    /\ Goto(t, "rwake", "rdone")
    /\ spinlock_release(t)
    /\ UNCHANGED <<is_busy, lk_owner, lk_wchan, panicked>>

\* Fault: the woken thread is not taken off the channel.
ReleaseWakeKept(t) ==
    /\ pc[t] = "rwake"
    /\ pc' = IF lk_wchan = <<>> THEN [pc EXCEPT ![t] = "rdone"]
              ELSE [pc EXCEPT ![t] = "rdone", ![Head(lk_wchan)] = "woken"]
    /\ spinlock_release(t)
    /\ UNCHANGED <<is_busy, lk_owner, lk_wchan, panicked>>

\* Fault: the youngest sleeper is woken.
ReleaseWakeLast(t) ==
    /\ pc[t] = "rwake"
    /\ LET n == Len(lk_wchan) IN
       IF n = 0
       THEN pc' = [pc EXCEPT ![t] = "rdone"] /\ UNCHANGED lk_wchan
       ELSE /\ pc' = [pc EXCEPT ![t] = "rdone", ![lk_wchan[n]] = "woken"]
            /\ lk_wchan' = SubSeq(lk_wchan, 1, n - 1)
    /\ spinlock_release(t)
    /\ UNCHANGED <<is_busy, lk_owner, panicked>>

\* Fault: wchan_wakeone without its test for a NULL target.
ReleaseWakeNull(t) ==
    /\ pc[t] = "rwake"
    /\ LET target == IF lk_wchan = <<>> THEN NoThread ELSE Head(lk_wchan) IN
       pc' = [u \in Threads \cup {target} |->
                 IF u = target THEN "woken" ELSE IF u = t THEN "rdone" ELSE pc[u]]
    /\ lk_wchan' = IF lk_wchan = <<>> THEN <<>> ELSE Tail(lk_wchan)
    /\ spinlock_release(t)
    /\ UNCHANGED <<is_busy, lk_owner, panicked>>

\* wchan_wakeone takes the oldest sleeper off the channel, if there is one.
ReleaseWake(t) ==
    /\ pc[t] = "rwake"
    /\ \/ /\ lk_wchan = <<>>
          /\ pc' = [pc EXCEPT ![t] = "rdone"]
          /\ UNCHANGED lk_wchan
       \/ /\ lk_wchan # <<>>
          /\ pc' = [pc EXCEPT ![t] = "rdone", ![Head(lk_wchan)] = "woken"]
          /\ lk_wchan' = Tail(lk_wchan)
    /\ spinlock_release(t)
    /\ UNCHANGED <<is_busy, lk_owner, panicked>>

\* spinlock_do_i_hold compares the holder with the caller's cpu.
ReleaseDone(t) ==
    /\ kassert(t, splk_holder # t, "rdone", "out")
    /\ UNCHANGED <<is_busy, lk_owner, lk_wchan, splk_holder>>

(***************************************************************************)
(* A thread inside an operation takes its next step; a panic stops all.    *)
(***************************************************************************)
AcquireStep(t) ==
    \/ AcquireCheck(t) \/ AcquireSpin(t) \/ AcquireSleep(t)
    \/ AcquireResume(t) \/ AcquireBusy(t) \/ AcquireOwner(t)

ReleaseStep(t) ==
    \/ CallRelease(t) \/ ReleaseCheck(t) \/ ReleaseReads(t) \/ ReleaseSpin(t)
    \/ ReleaseBusy(t) \/ ReleaseOwner(t) \/ ReleaseWake(t) \/ ReleaseDone(t)

Next ==
    /\ ~panicked
    /\ \E t \in Threads : Call(t) \/ AcquireStep(t) \/ ReleaseStep(t)

(***************************************************************************)
(* A runnable thread keeps running (hardclock preempts everyone in turn),  *)
(* spins until the lock word is free, and its critical sections end.  No   *)
(* thread has to ask for the lock again.                                   *)
(***************************************************************************)
Fairness ==
    \A t \in Threads : WF_vars(~panicked /\ (AcquireStep(t) \/ ReleaseStep(t)))

Spec == Init /\ [][Next]_vars /\ Fairness

-----------------------------------------------------------------------------
(***************************************************************************)
(* Where a thread stands, for the properties and the refinement.           *)
(***************************************************************************)
\* The thread has set is_busy and has not cleared it yet.
HasLock(t) == pc[t] \in {"wowner", "held", "rcheck", "rflag", "rname", "rspin", "rbusy"}

\* The thread is in lock_acquire without the lock.
Waiting(t) == pc[t] \in {"wcheck", "wspin", "wtest", "asleep", "woken"}

TypeOK ==
    /\ is_busy \in BOOLEAN
    /\ lk_owner \in Threads \cup {NoThread}
    /\ lk_wchan \in Seq(Threads)
    /\ splk_holder \in Threads \cup {NoThread}
    /\ pc \in [Threads -> Labels]
    /\ panicked \in BOOLEAN

\* Only one thread at a time is between setting is_busy in lock_acquire and
\* clearing it in lock_release (synch.h: "Only one thread can hold the lock at
\* the same time").
MutualExclusion == \A t, u \in Threads : HasLock(t) /\ HasLock(u) => t = u

\* Whenever lk_spinlock is free, is_busy and lk_owner tell the same story, and
\* it is the true one: what lock_do_i_hold reads is the holder.
OwnerIsHolder ==
    splk_holder = NoThread =>
        /\ is_busy <=> lk_owner # NoThread
        /\ \A t \in Threads : lk_owner = t <=> HasLock(t)

\* The channel and the sleeping threads agree: a thread is on lk_wchan exactly
\* while it sleeps, and at one place only.
ChannelHoldsSleepers ==
    /\ \A t \in Threads : pc[t] = "asleep" => \E i \in DOMAIN lk_wchan : lk_wchan[i] = t
    /\ \A i \in DOMAIN lk_wchan : pc[lk_wchan[i]] = "asleep"
    /\ \A i, j \in DOMAIN lk_wchan : lk_wchan[i] = lk_wchan[j] => i = j

\* No wakeup is lost between the test of is_busy and the sleep, nor to a thread
\* that takes the lock ahead of the one woken for it: if threads sleep on a
\* free lock, somebody awake is already bound to look at it again.
NoLostWakeup ==
    ~is_busy /\ lk_wchan # <<>> =>
        \E t \in Threads : pc[t] \in {"woken", "wtest", "rowner", "rwake"}

\* No KASSERT of lock_acquire and lock_release on the state of the lock fails when
\* callers acquire what they do not hold and release what they hold, although
\* lock_release reads is_busy and lk_owner while other cpus hold lk_spinlock.
NoPanic == ~panicked

\* The oldest sleeper is woken first and every holder releases, so no thread
\* sleeps on lk_wchan for ever (it may still lose the lock to another thread
\* and sleep again).
SleepersAreWoken == \A t \in Threads : pc[t] = "asleep" ~> pc[t] = "woken"

(***************************************************************************)
(* The lock as its callers see it: lk_owner is the holder, and a thread    *)
(* wants the lock from its call of lock_acquire until it is the owner.     *)
(***************************************************************************)
M == INSTANCE Mutex WITH
        holder <- lk_owner,
        want <- {t \in Threads : Waiting(t) \/ pc[t] = "wowner"}

\* The lock built from a flag, a wait channel and a spinlock implements the
\* abstract mutex, and some waiting thread always gets a free lock.
ImplementsMutex == M!MutexSpec

=============================================================================
