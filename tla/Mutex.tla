------------------------------- MODULE Mutex -------------------------------
(***************************************************************************)
(* What struct lock promises its callers (kern/include/synch.h, "Simple    *)
(* lock for mutual exclusion"): lock_acquire and lock_release look like    *)
(* single steps, and only one thread holds the lock at a time.  Nothing is *)
(* promised about the order in which waiting threads get it.               *)
(***************************************************************************)
CONSTANTS Threads, NoThread

VARIABLES
    holder,     \* the thread that holds the lock, or NoThread
    want        \* the threads inside lock_acquire that do not hold it yet

mutexVars == <<holder, want>>

MutexInit == holder = NoThread /\ want = {}

Request(t) ==
    /\ holder # t
    /\ want' = want \cup {t}
    /\ UNCHANGED holder

Grant(t) ==
    /\ t \in want
    /\ holder = NoThread
    /\ holder' = t
    /\ want' = want \ {t}

Free(t) ==
    /\ holder = t
    /\ holder' = NoThread
    /\ UNCHANGED want

MutexNext == \E t \in Threads : Request(t) \/ Grant(t) \/ Free(t)

\* Some waiting thread gets a free lock; which one is left open.
MutexSpec ==
    /\ MutexInit
    /\ [][MutexNext]_mutexVars
    /\ WF_mutexVars(\E t \in Threads : Grant(t))
=============================================================================
