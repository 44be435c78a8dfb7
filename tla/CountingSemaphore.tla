------------------------- MODULE CountingSemaphore -------------------------
(***************************************************************************)
(* What struct semaphore promises (kern/include/synch.h, "Dijkstra-style   *)
(* semaphore"): P and V look like single steps on a count.  The count is   *)
(* an unsigned integer; a V that would wrap it stops the machine.          *)
(***************************************************************************)
EXTENDS Naturals

CONSTANTS Threads, InitialCount, CountModulus

VARIABLES
    count,      \* the value of the semaphore
    want,       \* the threads inside P that have not decremented it yet
    halted      \* a V overflowed the count

semVars == <<count, want, halted>>

SemInit == count = InitialCount /\ want = {} /\ halted = FALSE

Ask(t) ==
    /\ t \notin want
    /\ want' = want \cup {t}
    /\ UNCHANGED <<count, halted>>

Take(t) ==
    /\ t \in want
    /\ count > 0
    /\ count' = count - 1
    /\ want' = want \ {t}
    /\ UNCHANGED halted

Post ==
    /\ count + 1 < CountModulus
    /\ count' = count + 1
    /\ UNCHANGED <<want, halted>>

Overflow ==
    /\ count + 1 = CountModulus
    /\ count' = 0
    /\ halted' = TRUE
    /\ UNCHANGED want

SemNext ==
    /\ ~halted
    /\ \/ \E t \in Threads : Ask(t) \/ Take(t)
       \/ Post
       \/ Overflow

\* A positive count is taken by some waiting thread; which one is left open.
SemSpec ==
    /\ SemInit
    /\ [][SemNext]_semVars
    /\ WF_semVars(~halted /\ \E t \in Threads : Take(t))
=============================================================================
