------------------------------- MODULE Hangman -----------------------------
(***************************************************************************)
(* The deadlock detector of kern/thread/hangman.c, called from the locks   *)
(* of kern/thread/synch.c (options hangman).  Each hangman routine runs    *)
(* under hangman_lock and is one step.  What is kept of a lock is what     *)
(* lies between those calls: lock_acquire tells hangman before it waits    *)
(* and again, still under lk_spinlock, when it has the lock; lock_release  *)
(* tells it after lk_spinlock is released.                                 *)
(***************************************************************************)
EXTENDS Naturals, FiniteSets

CONSTANTS
    Threads,    \* the actors
    Locks,      \* the lockables
    NULL

ASSUME HangmanAssumption ==
    /\ NULL \notin Threads \cup Locks
    /\ IsFiniteSet(Threads)

VARIABLES
    lk_owner,   \* lk_owner[l]: the thread for which is_busy is set, or NULL
    l_holding,  \* l_holding[l]: the holder hangman believes in
    a_waiting,  \* a_waiting[t]: the lock hangman believes t waits for
    pc,         \* where each thread is
    at,         \* at[t]: the lock t's current call is about
    panic       \* "none", or why the machine stopped

vars == <<lk_owner, l_holding, a_waiting, pc, at, panic>>

(***************************************************************************)
(* run    between lock operations                                          *)
(* block  lock_acquire: registered as waiting, in the loop on is_busy      *)
(* taken  lock_acquire: is_busy set, HANGMAN_ACQUIRE still to come         *)
(* freed  lock_release: is_busy cleared, HANGMAN_RELEASE still to come     *)
(***************************************************************************)
Labels == {"run", "block", "taken", "freed"}

Init ==
    /\ lk_owner = [l \in Locks |-> NULL]
    /\ l_holding = [l \in Locks |-> NULL]
    /\ a_waiting = [t \in Threads |-> NULL]
    /\ pc = [t \in Threads |-> "run"]
    /\ at = [t \in Threads |-> NULL]
    /\ panic = "none"

\* Where hangman_check goes from actor t: to the holder of what t waits for.
Onward(t) == IF t = NULL \/ a_waiting[t] = NULL THEN NULL ELSE l_holding[a_waiting[t]]

\* The actors hangman_check comes to from lockable l on, beginning with its holder.
Walk(l) ==
    LET cur[i \in 1 .. Cardinality(Threads)] == IF i = 1 THEN l_holding[l] ELSE Onward(cur[i - 1])
    IN  cur

Visited(l) == {Walk(l)[i] : i \in 1 .. Cardinality(Threads)} \ {NULL}

\* Fault: only the direct holder is looked at.
hangman_check_direct(l, target) == target = l_holding[l]

hangman_check(l, target) == target \in Visited(l)

(***************************************************************************)
(* lock_acquire: HANGMAN_WAIT.  A thread only asks for a lock it does not  *)
(* hold.                                                                   *)
(***************************************************************************)
hangman_wait(t, l) ==
    /\ pc[t] = "run"
    /\ lk_owner[l] # t
    /\ at' = [at EXCEPT ![t] = l]
    /\ IF a_waiting[t] # NULL
       THEN panic' = "already waiting" /\ UNCHANGED <<a_waiting, pc>>
       ELSE IF hangman_check(l, t)
       THEN panic' = "deadlock" /\ UNCHANGED <<a_waiting, pc>>
       ELSE /\ a_waiting' = [a_waiting EXCEPT ![t] = l]
            /\ pc' = [pc EXCEPT ![t] = "block"]
            /\ UNCHANGED panic
    /\ UNCHANGED <<lk_owner, l_holding>>

\* lock_acquire: the loop ends and is_busy is set.
Take(t) ==
    /\ pc[t] = "block"
    /\ lk_owner[at[t]] = NULL
    /\ lk_owner' = [lk_owner EXCEPT ![at[t]] = t]
    /\ pc' = [pc EXCEPT ![t] = "taken"]
    /\ UNCHANGED <<l_holding, a_waiting, at, panic>>

\* Fault: the actor stays registered as waiting.
hangman_acquire_keep(t) ==
    /\ pc[t] = "taken"
    /\ l_holding' = [l_holding EXCEPT ![at[t]] = t]
    /\ pc' = [pc EXCEPT ![t] = "run"]
    /\ UNCHANGED <<lk_owner, a_waiting, at, panic>>

\* lock_acquire: HANGMAN_ACQUIRE.
hangman_acquire(t) ==
    /\ pc[t] = "taken"
    /\ LET l == at[t] IN
       IF a_waiting[t] # l
       THEN panic' = "not waiting" /\ UNCHANGED <<l_holding, a_waiting, pc>>
       ELSE IF l_holding[l] # NULL
       THEN panic' = "still held" /\ UNCHANGED <<l_holding, a_waiting, pc>>
       ELSE /\ l_holding' = [l_holding EXCEPT ![l] = t]
            /\ a_waiting' = [a_waiting EXCEPT ![t] = NULL]
            /\ pc' = [pc EXCEPT ![t] = "run"]
            /\ UNCHANGED panic
    /\ UNCHANGED <<lk_owner, at>>

\* lock_release up to spinlock_release.
Release(t, l) ==
    /\ pc[t] = "run"
    /\ lk_owner[l] = t
    /\ lk_owner' = [lk_owner EXCEPT ![l] = NULL]
    /\ at' = [at EXCEPT ![t] = l]
    /\ pc' = [pc EXCEPT ![t] = "freed"]
    /\ UNCHANGED <<l_holding, a_waiting, panic>>

\* Fault: the holder is not cleared.
hangman_release_keep(t) ==
    /\ pc[t] = "freed"
    /\ pc' = [pc EXCEPT ![t] = "run"]
    /\ UNCHANGED <<lk_owner, l_holding, a_waiting, at, panic>>

\* lock_release: HANGMAN_RELEASE.
hangman_release(t) ==
    /\ pc[t] = "freed"
    /\ IF a_waiting[t] # NULL
       THEN panic' = "waiting in release" /\ UNCHANGED <<l_holding, pc>>
       ELSE IF l_holding[at[t]] # t
       THEN panic' = "not the holder" /\ UNCHANGED <<l_holding, pc>>
       ELSE /\ l_holding' = [l_holding EXCEPT ![at[t]] = NULL]
            /\ pc' = [pc EXCEPT ![t] = "run"]
            /\ UNCHANGED panic
    /\ UNCHANGED <<lk_owner, a_waiting, at>>

Next ==
    /\ panic = "none"
    /\ \E t \in Threads :
          \/ \E l \in Locks : hangman_wait(t, l) \/ Release(t, l)
          \/ Take(t) \/ hangman_acquire(t) \/ hangman_release(t)

Spec == Init /\ [][Next]_vars

-----------------------------------------------------------------------------
Reasons == {"none", "deadlock", "already waiting", "not waiting", "still held",
            "waiting in release", "not the holder"}

TypeOK ==
    /\ lk_owner \in [Locks -> Threads \cup {NULL}]
    /\ l_holding \in [Locks -> Threads \cup {NULL}]
    /\ a_waiting \in [Threads -> Locks \cup {NULL}]
    /\ pc \in [Threads -> Labels]
    /\ at \in [Threads -> Locks \cup {NULL}]
    /\ panic \in Reasons

\* The threads in D wait for each other: each is stuck in lock_acquire on a lock
\* that another of them owns.
Deadlocked(D) ==
    D # {} /\ \A t \in D : pc[t] = "block" /\ lk_owner[at[t]] \in D

\* No deadlock between lock users goes unreported: the last thread to close the
\* circle is stopped by hangman_check, even though hangman learns of a new
\* holder and of a release later than the locks themselves change.
NoSilentDeadlock == \A D \in SUBSET Threads : ~Deadlocked(D)

\* A "Deadlock." panic is never a false alarm: the thread that raised it really
\* closes a circle of owners and waiters.
AlarmIsReal ==
    panic = "deadlock" =>
        \E t \in Threads, D \in SUBSET Threads :
            /\ pc[t] = "run"
            /\ t \in D
            /\ at[t] # NULL
            /\ lk_owner[at[t]] \in D
            /\ \A u \in D \ {t} : pc[u] = "block" /\ lk_owner[at[u]] \in D

\* The late HANGMAN_RELEASE is the only disagreement: a thread never waits for
\* two locks, acquires one it did not wait for or releases one it did not hold.
OnlyReleaseIsLate ==
    /\ TypeOK
    /\ panic \in {"none", "deadlock", "still held"}

\* hangman's own records never contradict the locks: it stops the machine for
\* deadlocks only.  synch.c asks for this: "Call this (atomically) when the lock
\* is released".
RecordsAgree == panic \in {"none", "deadlock"}
=============================================================================
