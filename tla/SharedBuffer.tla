---------------------------- MODULE SharedBuffer ---------------------------
(***************************************************************************)
(* The monitor of kern/shared_buffer/shared_buffer.c: producers and        *)
(* consumers share a list, a count, the lock sb_lock and two condition     *)
(* variables, as shared_buffer_test.c drives them.                         *)
(*                                                                         *)
(* sb_lock is the abstract mutex that SleepLock is shown to implement, and *)
(* the list, used only under sb_lock, is a sequence of nodes (LinkedList   *)
(* has its pointers).  The condition variables keep their own spinlock and *)
(* wait channel, because what matters here is what can happen between the  *)
(* calls cv_wait makes.                                                    *)
(***************************************************************************)
EXTENDS Integers, Sequences, FiniteSets

CONSTANTS
    Producers, Consumers,   \* the threads
    NoThread,               \* NULL, for owners and holders
    BUFFER_SIZE,            \* the argument of shared_buffer_create
    Load                    \* Load[t]: how many calls thread t makes

Threads == Producers \cup Consumers

ASSUME BufferAssumption ==
    /\ NoThread \notin Threads
    /\ Producers \cap Consumers = {}
    /\ IsFiniteSet(Threads)
    /\ BUFFER_SIZE \in Nat \ {0}
    /\ Load \in [Threads -> Nat]

VARIABLES
    count,      \* buffer->count
    buffer_ll,  \* the nodes of buffer->buffer_ll, first to last
    sb_owner,   \* the thread that holds buffer->sb_lock
    cv_wchan,   \* cv_wchan[cv]: the threads asleep on cv, oldest first
    cv_spin,    \* cv_spin[cv]: the thread whose cpu holds cv->cv_spinlock
    pc,         \* where each thread is in produce or consume
    calls,      \* calls[t]: the calls t has completed its list operation of
    got,        \* got[c]: the items returned to consumer c
    panicked    \* a KASSERT failed

vars == <<count, buffer_ll, sb_owner, cv_wchan, cv_spin, pc, calls, got, panicked>>

CVs == {"producer_cv", "consumer_cv"}

MyCV(t) == IF t \in Producers THEN "producer_cv" ELSE "consumer_cv"
OtherCV(t) == IF t \in Producers THEN "consumer_cv" ELSE "producer_cv"

(***************************************************************************)
(* out      between two calls                                              *)
(* lock     at lock_acquire(sb_lock)                                       *)
(* test     holds sb_lock, at the test of the while loop                   *)
(* wspin    cv_wait: about to take cv_spinlock                             *)
(* wunlock  cv_wait: holds cv_spinlock, about to release sb_lock           *)
(* wsleep   cv_wait: about to sleep                                        *)
(* asleep   on the channel of its cv                                       *)
(* woken    taken off the channel, about to retake cv_spinlock             *)
(* relock   cv_wait: at lock_acquire(sb_lock)                              *)
(* move     about to prepend or remove a node                              *)
(* count    about to change count                                          *)
(* signal   about to signal the other side                                 *)
(* unlock   about to release sb_lock                                       *)
(***************************************************************************)
Labels == {"out", "lock", "test", "wspin", "wunlock", "wsleep", "asleep", "woken",
           "relock", "move", "count", "signal", "unlock"}

Init ==
    /\ count = 0
    /\ buffer_ll = <<>>
    /\ sb_owner = NoThread
    /\ cv_wchan = [cv \in CVs |-> <<>>]
    /\ cv_spin = [cv \in CVs |-> NoThread]
    /\ pc = [t \in Threads |-> "out"]
    /\ calls = [t \in Threads |-> 0]
    /\ got = [c \in Consumers |-> <<>>]
    /\ panicked = FALSE

Goto(t, from, to) == pc[t] = from /\ pc' = [pc EXCEPT ![t] = to]

\* A KASSERT lets the thread go on or stops the machine.
kassert(t, cond, from, to) ==
    IF cond
    THEN Goto(t, from, to) /\ UNCHANGED panicked
    ELSE pc[t] = from /\ panicked' = TRUE /\ UNCHANGED pc

(***************************************************************************)
(* shared_buffer_produce and shared_buffer_consume up to the wait.         *)
(***************************************************************************)
Call(t) ==
    /\ calls[t] < Load[t]
    /\ Goto(t, "out", "lock")
    /\ UNCHANGED <<count, buffer_ll, sb_owner, cv_wchan, cv_spin, calls, got, panicked>>

Lock(t) ==
    /\ sb_owner = NoThread
    /\ Goto(t, "lock", "test")
    /\ sb_owner' = t
    /\ UNCHANGED <<count, buffer_ll, cv_wchan, cv_spin, calls, got, panicked>>

MustWait(t) == count = (IF t \in Producers THEN BUFFER_SIZE ELSE 0)

Wait(t) ==
    /\ MustWait(t)
    /\ kassert(t, sb_owner = t, "test", "wspin")
    /\ UNCHANGED <<count, buffer_ll, sb_owner, cv_wchan, cv_spin, calls, got>>

Pass(t) ==
    /\ ~MustWait(t)
    /\ kassert(t, IF t \in Producers THEN count < BUFFER_SIZE ELSE count > 0, "test", "move")
    /\ UNCHANGED <<count, buffer_ll, sb_owner, cv_wchan, cv_spin, calls, got>>

(***************************************************************************)
(* cv_wait.                                                                *)
(***************************************************************************)
\* Fault: cv_wait gives up sb_lock without holding cv_spinlock.
WaitSpinSkipped(t) ==
    /\ Goto(t, "wspin", "wunlock")
    /\ UNCHANGED <<count, buffer_ll, sb_owner, cv_wchan, cv_spin, calls, got, panicked>>

WaitSpin(t) ==
    /\ cv_spin[MyCV(t)] = NoThread
    /\ Goto(t, "wspin", "wunlock")
    /\ cv_spin' = [cv_spin EXCEPT ![MyCV(t)] = t]
    /\ UNCHANGED <<count, buffer_ll, sb_owner, cv_wchan, calls, got, panicked>>

WaitUnlock(t) ==
    /\ kassert(t, sb_owner = t, "wunlock", "wsleep")
    /\ sb_owner' = NoThread
    /\ UNCHANGED <<count, buffer_ll, cv_wchan, cv_spin, calls, got>>

WaitSleep(t) ==
    /\ Goto(t, "wsleep", "asleep")
    /\ cv_wchan' = [cv_wchan EXCEPT ![MyCV(t)] = Append(@, t)]
    /\ cv_spin' = [cv_spin EXCEPT ![MyCV(t)] = NoThread]
    /\ UNCHANGED <<count, buffer_ll, sb_owner, calls, got, panicked>>

\* wchan_sleep retakes cv_spinlock and cv_wait gives it up at once.
WaitWoken(t) ==
    /\ cv_spin[MyCV(t)] = NoThread
    /\ Goto(t, "woken", "relock")
    /\ UNCHANGED <<count, buffer_ll, sb_owner, cv_wchan, cv_spin, calls, got, panicked>>
\* Fault: "if" for "while", no new test after the wait.
WaitRelockNoRetest(t) ==
    /\ sb_owner = NoThread
    /\ kassert(t, IF t \in Producers THEN count < BUFFER_SIZE ELSE count > 0, "relock", "move")
    /\ sb_owner' = t
    /\ UNCHANGED <<count, buffer_ll, cv_wchan, cv_spin, calls, got>>

WaitRelock(t) ==
    /\ sb_owner = NoThread
    /\ Goto(t, "relock", "test")
    /\ sb_owner' = t
    /\ UNCHANGED <<count, buffer_ll, cv_wchan, cv_spin, calls, got, panicked>>

(***************************************************************************)
(* The rest of produce and consume.                                        *)
(***************************************************************************)
\* Fault: the key grows instead of shrinking.
PrependKeyUp(t) ==
    /\ t \in Producers
    /\ Goto(t, "move", "count")
    /\ calls' = [calls EXCEPT ![t] = @ + 1]
    /\ LET key == IF buffer_ll = <<>> THEN 0 ELSE Head(buffer_ll).key + 1 IN
       buffer_ll' = <<[key |-> key, data |-> <<t, calls[t] + 1>>]>> \o buffer_ll
    /\ UNCHANGED <<count, sb_owner, cv_wchan, cv_spin, got, panicked>>

\* Fault: the item is put at the wrong end.
PrependAtEnd(t) ==
    /\ t \in Producers
    /\ Goto(t, "move", "count")
    /\ calls' = [calls EXCEPT ![t] = @ + 1]
    /\ buffer_ll' = Append(buffer_ll, [key |-> 0, data |-> <<t, calls[t] + 1>>])
    /\ UNCHANGED <<count, sb_owner, cv_wchan, cv_spin, got, panicked>>

\* linked_list_prepend: the key is one less than the first key, or 0.
Prepend(t) ==
    /\ t \in Producers
    /\ Goto(t, "move", "count")
    /\ calls' = [calls EXCEPT ![t] = @ + 1]
    /\ LET key == IF buffer_ll = <<>> THEN 0 ELSE Head(buffer_ll).key - 1 IN
       buffer_ll' = <<[key |-> key, data |-> <<t, calls[t] + 1>>]>> \o buffer_ll
    /\ UNCHANGED <<count, sb_owner, cv_wchan, cv_spin, got, panicked>>

\* linked_list_remove_head: NULL if the list is empty.
RemoveHead(t) ==
    /\ t \in Consumers
    /\ Goto(t, "move", "count")
    /\ calls' = [calls EXCEPT ![t] = @ + 1]
    /\ IF buffer_ll = <<>>
       THEN got' = [got EXCEPT ![t] = Append(@, "NULL")] /\ UNCHANGED buffer_ll
       ELSE /\ got' = [got EXCEPT ![t] = Append(@, Head(buffer_ll).data)]
            /\ buffer_ll' = Tail(buffer_ll)
    /\ UNCHANGED <<count, sb_owner, cv_wchan, cv_spin, panicked>>

\* Fault: consume does not count.
CountForgotten(t) ==
    /\ Goto(t, "count", "signal")
    /\ count' = IF t \in Producers THEN count + 1 ELSE count
    /\ UNCHANGED <<buffer_ll, sb_owner, cv_wchan, cv_spin, calls, got, panicked>>

Count(t) ==
    /\ Goto(t, "count", "signal")
    /\ count' = IF t \in Producers THEN count + 1 ELSE count - 1
    /\ UNCHANGED <<buffer_ll, sb_owner, cv_wchan, cv_spin, calls, got, panicked>>

\* wchan_wakeone: the oldest sleeper, if there is one, leaves the channel.
wchan_wakeone(t, cv) ==
    \/ /\ cv_wchan[cv] = <<>>
       /\ pc' = [pc EXCEPT ![t] = "unlock"]
       /\ UNCHANGED cv_wchan
    \/ /\ cv_wchan[cv] # <<>>
       /\ pc' = [pc EXCEPT ![t] = "unlock", ![Head(cv_wchan[cv])] = "woken"]
       /\ cv_wchan' = [cv_wchan EXCEPT ![cv] = Tail(@)]
\* Fault: produce and consume signal their own condition variable.
SignalOwnSide(t) ==
    /\ pc[t] = "signal"
    /\ cv_spin[MyCV(t)] = NoThread
    /\ wchan_wakeone(t, MyCV(t))
    /\ UNCHANGED <<count, buffer_ll, sb_owner, cv_spin, calls, got, panicked>>

\* cv_signal: under cv_spinlock, the oldest sleeper of the other side wakes.
Signal(t) ==
    /\ pc[t] = "signal"
    /\ cv_spin[OtherCV(t)] = NoThread
    /\ IF sb_owner # t
       THEN panicked' = TRUE /\ UNCHANGED <<pc, cv_wchan>>
       ELSE wchan_wakeone(t, OtherCV(t)) /\ UNCHANGED panicked
    /\ UNCHANGED <<count, buffer_ll, sb_owner, cv_spin, calls, got>>

Unlock(t) ==
    /\ kassert(t, sb_owner = t, "unlock", "out")
    /\ sb_owner' = NoThread
    /\ UNCHANGED <<count, buffer_ll, cv_wchan, cv_spin, calls, got>>

Step(t) ==
    \/ Call(t) \/ Lock(t) \/ Wait(t) \/ Pass(t)
    \/ WaitSpin(t) \/ WaitUnlock(t) \/ WaitSleep(t) \/ WaitWoken(t) \/ WaitRelock(t)
    \/ Prepend(t) \/ RemoveHead(t) \/ Count(t) \/ Signal(t) \/ Unlock(t)

Next == ~panicked /\ \E t \in Threads : Step(t)

\* Every thread runs its loop to the end: hardclock shares the cpus out, and a
\* thread at a free lock or spinlock takes it unless another does first.
Spec == Init /\ [][Next]_vars /\ \A t \in Threads : WF_vars(~panicked /\ Step(t))

-----------------------------------------------------------------------------
TypeOK ==
    /\ count \in 0 .. BUFFER_SIZE
    /\ buffer_ll \in Seq([key : Int, data : Producers \X Nat])
    /\ sb_owner \in Threads \cup {NoThread}
    /\ cv_wchan \in [CVs -> Seq(Threads)]
    /\ cv_spin \in [CVs -> Threads \cup {NoThread}]
    /\ pc \in [Threads -> Labels]
    /\ calls \in [Threads -> Nat]
    /\ got \in [Consumers -> Seq(Producers \X Nat)]
    /\ panicked \in BOOLEAN

\* count is the length of the list, but for the one thread between its list
\* operation and its update of count: the two are kept in step by sb_lock alone.
CountTracksList ==
    /\ TypeOK
    /\ count = Len(buffer_ll) + Cardinality({c \in Consumers : pc[c] = "count"})
                              - Cardinality({p \in Producers : pc[p] = "count"})

\* The keys linked_list_prepend hands out stay within BUFFER_SIZE of 0, however
\* many items pass through: the int key cannot underflow.
KeysAreDepths == \A i \in DOMAIN buffer_ll : buffer_ll[i].key = i - Len(buffer_ll)

\* The threads of side S that will test the condition again, and the threads of
\* the other side that have changed count and not signalled yet.
Alert(S) ==
    {t \in S : pc[t] \in {"woken", "relock", "test", "move", "count"}}
        \cup {t \in Threads \ S : pc[t] = "signal"}

\* While producers sleep, every free slot has an awake thread on its way to it,
\* and while consumers sleep, every item has: cv_wait takes cv_spinlock before
\* it gives up sb_lock, so no signal falls between the test and the sleep.
NoForgottenSleeper ==
    /\ cv_wchan["producer_cv"] # <<>> => BUFFER_SIZE - count <= Cardinality(Alert(Producers))
    /\ cv_wchan["consumer_cv"] # <<>> => count <= Cardinality(Alert(Consumers))

\* The KASSERTs of produce, consume, cv_wait, cv_signal and lock_release hold.
NoPanic == ~panicked

\* When producers and consumers make the same number of calls, every call
\* returns: nobody is left waiting for a signal that was sent too early or to
\* the wrong side.
AllServed == <>(\A t \in Threads : pc[t] = "out" /\ calls[t] = Load[t])

(***************************************************************************)
(* The buffer as its callers see it.                                       *)
(***************************************************************************)
B == INSTANCE BoundedStack WITH
        Size <- BUFFER_SIZE,
        stack <- [i \in DOMAIN buffer_ll |-> buffer_ll[i].data],
        put <- [p \in Producers |-> calls[p]]

\* The monitor implements a bounded stack: produce and consume are atomic, no
\* item is lost or returned twice, and the list never outgrows BUFFER_SIZE.
ImplementsStack == B!StackSpec
=============================================================================
