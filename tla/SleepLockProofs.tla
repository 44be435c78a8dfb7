-------------------------- MODULE SleepLockProofs --------------------------
(***************************************************************************)
(* Proofs about the lock of kern/thread/synch.c for any set of threads.    *)
(*                                                                         *)
(* MutualExclusion is not inductive by itself: that the lock is free when  *)
(* a thread sets is_busy depends on is_busy telling the truth (BusyIsHeld),*)
(* which depends on nobody else changing it meanwhile (SpinIsHeld).        *)
(***************************************************************************)
EXTENDS SleepLock, TLAPS

\* lk_spinlock is held by exactly the thread that is in a section under it.
SpinIsHeld ==
    \A t \in Threads :
        splk_holder = t <=> pc[t] \in {"wtest", "wowner", "rbusy", "rowner", "rwake"}

\* lk_owner names exactly the thread between the two writes of lk_owner.
OwnerIsHeld ==
    \A t \in Threads :
        lk_owner = t <=> pc[t] \in {"held", "rcheck", "rflag", "rname", "rspin", "rbusy", "rowner"}

\* is_busy is set exactly while some thread has the lock.
BusyIsHeld == is_busy <=> \E t \in Threads : HasLock(t)

LockInv == TypeOK /\ SpinIsHeld /\ OwnerIsHeld /\ BusyIsHeld /\ MutualExclusion /\ NoPanic

\* LockInv holds at the start.
LEMMA InitLock == Init => LockInv
<1> SUFFICES ASSUME Init PROVE LockInv
  OBVIOUS
<1> USE NoThreadAssumption DEF Init
<1>1. TypeOK
  <2>1. is_busy \in BOOLEAN /\ panicked \in BOOLEAN
    BY Zenon
  <2>2. lk_wchan \in Seq(Threads) /\ pc \in [Threads -> Labels]
    BY DEF Labels
  <2> QED BY <2>1, <2>2 DEF TypeOK
<1>2. SpinIsHeld /\ OwnerIsHeld
  BY DEF SpinIsHeld, OwnerIsHeld
<1>3. BusyIsHeld /\ MutualExclusion /\ NoPanic
  BY DEF BusyIsHeld, MutualExclusion, NoPanic, HasLock
<1> QED BY <1>1, <1>2, <1>3 DEF LockInv

\* A step of any action keeps the lock's bookkeeping truthful.
LEMMA StepLock == LockInv /\ ChannelHoldsSleepers /\ [Next]_vars => LockInv'
<1> SUFFICES ASSUME LockInv, ChannelHoldsSleepers, [Next]_vars PROVE LockInv'
  OBVIOUS
<1> USE NoThreadAssumption
<1>1. CASE UNCHANGED vars
  BY <1>1 DEF vars, LockInv, TypeOK, SpinIsHeld, OwnerIsHeld, BusyIsHeld,
     MutualExclusion, NoPanic, HasLock
<1>2. ASSUME NEW t \in Threads, Call(t) PROVE LockInv'
  BY <1>2 DEF Call, Goto, LockInv, TypeOK, SpinIsHeld, OwnerIsHeld, BusyIsHeld,
     MutualExclusion, NoPanic, HasLock, Labels
<1>3. ASSUME NEW t \in Threads, AcquireCheck(t) PROVE LockInv'
  BY <1>3 DEF AcquireCheck, kassert, lock_do_i_hold, Goto, LockInv, TypeOK, SpinIsHeld,
     OwnerIsHeld, BusyIsHeld, MutualExclusion, NoPanic, HasLock, Labels
<1>4. ASSUME NEW t \in Threads, AcquireSpin(t) PROVE LockInv'
  BY <1>4 DEF AcquireSpin, spinlock_acquire, Goto, LockInv, TypeOK, SpinIsHeld,
     OwnerIsHeld, BusyIsHeld, MutualExclusion, NoPanic, HasLock, Labels
<1>5. ASSUME NEW t \in Threads, AcquireSleep(t) PROVE LockInv'
  BY <1>5 DEF AcquireSleep, spinlock_release, Goto, LockInv, TypeOK, SpinIsHeld,
     OwnerIsHeld, BusyIsHeld, MutualExclusion, NoPanic, HasLock, Labels
<1>6. ASSUME NEW t \in Threads, AcquireResume(t) PROVE LockInv'
  BY <1>6 DEF AcquireResume, spinlock_acquire, Goto, LockInv, TypeOK, SpinIsHeld,
     OwnerIsHeld, BusyIsHeld, MutualExclusion, NoPanic, HasLock, Labels
<1>7. ASSUME NEW t \in Threads, AcquireBusy(t) PROVE LockInv'
  BY <1>7 DEF AcquireBusy, Goto, LockInv, TypeOK, SpinIsHeld,
     OwnerIsHeld, BusyIsHeld, MutualExclusion, NoPanic, HasLock, Labels
<1>8. ASSUME NEW t \in Threads, AcquireOwner(t) PROVE LockInv'
  BY <1>8 DEF AcquireOwner, spinlock_release, Goto, LockInv, TypeOK, SpinIsHeld,
     OwnerIsHeld, BusyIsHeld, MutualExclusion, NoPanic, HasLock, Labels
<1>9. ASSUME NEW t \in Threads, CallRelease(t) PROVE LockInv'
  BY <1>9 DEF CallRelease, Goto, LockInv, TypeOK, SpinIsHeld,
     OwnerIsHeld, BusyIsHeld, MutualExclusion, NoPanic, HasLock, Labels
<1>10. ASSUME NEW t \in Threads, ReleaseCheck(t) PROVE LockInv'
  BY <1>10 DEF ReleaseCheck, kassert, lock_do_i_hold, Goto, LockInv, TypeOK, SpinIsHeld,
     OwnerIsHeld, BusyIsHeld, MutualExclusion, NoPanic, HasLock, Labels
<1>11. ASSUME NEW t \in Threads, ReleaseSpin(t) PROVE LockInv'
  BY <1>11 DEF ReleaseSpin, spinlock_acquire, Goto, LockInv, TypeOK, SpinIsHeld,
     OwnerIsHeld, BusyIsHeld, MutualExclusion, NoPanic, HasLock, Labels
<1>12. ASSUME NEW t \in Threads, ReleaseBusy(t) PROVE LockInv'
  <2>1. TypeOK' /\ NoPanic' /\ SpinIsHeld'
    BY <1>12 DEF ReleaseBusy, Goto, LockInv, TypeOK, NoPanic, SpinIsHeld, Labels
  <2>2. OwnerIsHeld' /\ MutualExclusion'
    BY <1>12 DEF ReleaseBusy, Goto, LockInv, TypeOK, SpinIsHeld, OwnerIsHeld, MutualExclusion,
       HasLock, Labels
  <2>3. BusyIsHeld'
    BY <1>12 DEF ReleaseBusy, Goto, LockInv, TypeOK, SpinIsHeld, BusyIsHeld, MutualExclusion,
       HasLock, Labels
  <2> QED BY <2>1, <2>2, <2>3 DEF LockInv
<1>13. ASSUME NEW t \in Threads, ReleaseOwner(t) PROVE LockInv'
  BY <1>13 DEF ReleaseOwner, Goto, LockInv, TypeOK, SpinIsHeld,
     OwnerIsHeld, BusyIsHeld, MutualExclusion, NoPanic, HasLock, Labels
<1>14. ASSUME NEW t \in Threads, ReleaseWake(t) PROVE LockInv'
  <2>1. CASE lk_wchan = <<>>
    BY <1>14, <2>1 DEF ReleaseWake, spinlock_release, LockInv, TypeOK, SpinIsHeld,
       OwnerIsHeld, BusyIsHeld, MutualExclusion, NoPanic, HasLock, Labels
  <2>2. CASE lk_wchan # <<>>
    <3> DEFINE h == Head(lk_wchan)
    <3>1. /\ pc[t] = "rwake" /\ pc' = [pc EXCEPT ![t] = "rdone", ![h] = "woken"]
          /\ lk_wchan' = Tail(lk_wchan) /\ splk_holder' = NoThread
          /\ UNCHANGED <<is_busy, lk_owner, panicked>>
      BY <1>14, <2>2 DEF ReleaseWake, spinlock_release
    <3>2. h \in Threads /\ pc[h] = "asleep" /\ pc \in [Threads -> Labels]
          /\ lk_wchan' \in Seq(Threads)
      BY <2>2, <3>1 DEF ChannelHoldsSleepers, LockInv, TypeOK
    <3> HIDE DEF h
    <3>3. TypeOK' /\ NoPanic'
      BY <3>1, <3>2 DEF LockInv, TypeOK, NoPanic, Labels
    <3>4. SpinIsHeld' /\ OwnerIsHeld'
      BY <3>1, <3>2 DEF LockInv, SpinIsHeld, OwnerIsHeld
    <3>5. \A u \in Threads : HasLock(u)' <=> HasLock(u)
      BY <3>1, <3>2 DEF HasLock
    <3>6. BusyIsHeld' /\ MutualExclusion'
      BY <3>1, <3>5 DEF LockInv, BusyIsHeld, MutualExclusion
    <3> QED BY <3>3, <3>4, <3>6 DEF LockInv
  <2> QED BY <2>1, <2>2
<1>15. ASSUME NEW t \in Threads, ReleaseReads(t) PROVE LockInv'
  BY <1>15 DEF ReleaseReads, kassert, Goto, LockInv, TypeOK, SpinIsHeld,
     OwnerIsHeld, BusyIsHeld, MutualExclusion, NoPanic, HasLock, Labels
<1>16. ASSUME NEW t \in Threads, ReleaseDone(t) PROVE LockInv'
  BY <1>16 DEF ReleaseDone, kassert, Goto, LockInv, TypeOK, SpinIsHeld,
     OwnerIsHeld, BusyIsHeld, MutualExclusion, NoPanic, HasLock, Labels
<1> QED
  BY <1>1, <1>2, <1>3, <1>4, <1>5, <1>6, <1>7, <1>8, <1>9, <1>10, <1>11, <1>12, <1>13, <1>14,
     <1>15, <1>16
  DEF Next, AcquireStep, ReleaseStep

(***************************************************************************)
(* The wait channel.                                                       *)
(***************************************************************************)
LEMMA StepChannel ==
    LockInv /\ ChannelHoldsSleepers /\ [Next]_vars => ChannelHoldsSleepers'
<1> SUFFICES ASSUME LockInv, ChannelHoldsSleepers, [Next]_vars
             PROVE ChannelHoldsSleepers'
  OBVIOUS
<1> USE NoThreadAssumption DEF LockInv, TypeOK
<1>1. CASE UNCHANGED vars
  BY <1>1 DEF vars, ChannelHoldsSleepers
<1>2. ASSUME NEW t \in Threads, NEW from \in Labels \ {"asleep"},
             NEW to \in Labels \ {"asleep"},
             Goto(t, from, to), UNCHANGED lk_wchan
      PROVE ChannelHoldsSleepers'
  BY <1>2 DEF Goto, ChannelHoldsSleepers
<1>3. ASSUME NEW t \in Threads, AcquireSleep(t) PROVE ChannelHoldsSleepers'
  <2>1. pc' = [pc EXCEPT ![t] = "asleep"] /\ pc[t] = "wtest"
    BY <1>3 DEF AcquireSleep, Goto
  <2>2. /\ lk_wchan' \in Seq(Threads)
        /\ Len(lk_wchan') = Len(lk_wchan) + 1
        /\ lk_wchan'[Len(lk_wchan) + 1] = t
        /\ \A i \in DOMAIN lk_wchan : lk_wchan'[i] = lk_wchan[i]
        /\ DOMAIN lk_wchan' = DOMAIN lk_wchan \cup {Len(lk_wchan) + 1}
    BY <1>3 DEF AcquireSleep
  <2>3. \A i \in DOMAIN lk_wchan : lk_wchan[i] # t
    BY <2>1 DEF ChannelHoldsSleepers
  <2>4. \A u \in Threads : pc'[u] = "asleep" => \E i \in DOMAIN lk_wchan' : lk_wchan'[i] = u
    BY <2>1, <2>2 DEF ChannelHoldsSleepers
  <2>5. \A i \in DOMAIN lk_wchan' : pc'[lk_wchan'[i]] = "asleep"
    BY <2>1, <2>2 DEF ChannelHoldsSleepers
  <2>6. \A i, j \in DOMAIN lk_wchan' : lk_wchan'[i] = lk_wchan'[j] => i = j
    BY <2>2, <2>3 DEF ChannelHoldsSleepers
  <2> QED BY <2>4, <2>5, <2>6 DEF ChannelHoldsSleepers
<1>4. ASSUME NEW t \in Threads, ReleaseWake(t) PROVE ChannelHoldsSleepers'
  <2>1. CASE lk_wchan = <<>>
    BY <1>4, <2>1 DEF ReleaseWake, ChannelHoldsSleepers
  <2>2. CASE lk_wchan # <<>>
    <3>1. /\ lk_wchan' = Tail(lk_wchan)
          /\ pc' = [pc EXCEPT ![t] = "rdone", ![Head(lk_wchan)] = "woken"]
          /\ pc[t] = "rwake"
      BY <1>4, <2>2 DEF ReleaseWake
    <3>2. /\ lk_wchan' \in Seq(Threads)
          /\ Len(lk_wchan') = Len(lk_wchan) - 1
          /\ \A i \in DOMAIN lk_wchan' : i + 1 \in DOMAIN lk_wchan /\ lk_wchan'[i] = lk_wchan[i + 1]
          /\ Head(lk_wchan) = lk_wchan[1]
          /\ 1 \in DOMAIN lk_wchan
      BY <2>2, <3>1
    <3>3. \A i \in DOMAIN lk_wchan' : lk_wchan'[i] # Head(lk_wchan)
      BY <3>2 DEF ChannelHoldsSleepers
    <3>4. \A i \in DOMAIN lk_wchan' : pc'[lk_wchan'[i]] = "asleep"
      BY <3>1, <3>2, <3>3 DEF ChannelHoldsSleepers
    <3>5. ASSUME NEW u \in Threads, pc'[u] = "asleep"
          PROVE \E i \in DOMAIN lk_wchan' : lk_wchan'[i] = u
      <4>1. pc[u] = "asleep" /\ u # Head(lk_wchan)
        BY <3>1, <3>2, <3>5 DEF ChannelHoldsSleepers
      <4>2. PICK i \in DOMAIN lk_wchan : lk_wchan[i] = u
        BY <4>1 DEF ChannelHoldsSleepers
      <4>3. i # 1 /\ i - 1 \in DOMAIN lk_wchan'
        BY <3>2, <4>1, <4>2
      <4> QED BY <3>2, <4>2, <4>3
    <3>6. \A i, j \in DOMAIN lk_wchan' : lk_wchan'[i] = lk_wchan'[j] => i = j
      BY <3>2 DEF ChannelHoldsSleepers
    <3> QED BY <3>4, <3>5, <3>6 DEF ChannelHoldsSleepers
  <2> QED BY <2>1, <2>2
<1>5. ASSUME NEW t \in Threads, Call(t) \/ AcquireCheck(t) \/ AcquireSpin(t) \/ AcquireResume(t)
                                \/ AcquireBusy(t) \/ AcquireOwner(t)
      PROVE ChannelHoldsSleepers'
  BY <1>2, <1>5 DEF Call, AcquireCheck, AcquireSpin, AcquireResume, AcquireBusy, AcquireOwner,
     kassert, ChannelHoldsSleepers, Labels
<1>6. ASSUME NEW t \in Threads, CallRelease(t) \/ ReleaseCheck(t) \/ ReleaseReads(t)
                                \/ ReleaseSpin(t) \/ ReleaseBusy(t) \/ ReleaseOwner(t)
                                \/ ReleaseDone(t)
      PROVE ChannelHoldsSleepers'
  BY <1>2, <1>6 DEF CallRelease, ReleaseCheck, ReleaseReads, ReleaseSpin, ReleaseBusy, ReleaseOwner,
     ReleaseDone, kassert, ChannelHoldsSleepers, Labels
<1> QED
  BY <1>1, <1>3, <1>4, <1>5, <1>6 DEF Next, AcquireStep, ReleaseStep

(***************************************************************************)
(* No wakeup is lost.  The witness is the thread that released the lock    *)
(* until it has called wchan_wakeone, and then the thread it woke, until   *)
(* that thread has tested is_busy again.                                   *)
(***************************************************************************)
LEMMA StepWakeup ==
    LockInv /\ ChannelHoldsSleepers /\ NoLostWakeup /\ [Next]_vars => NoLostWakeup'
<1> SUFFICES ASSUME LockInv, ChannelHoldsSleepers, NoLostWakeup, [Next]_vars
             PROVE NoLostWakeup'
  OBVIOUS
<1> USE NoThreadAssumption DEF LockInv, TypeOK
<1>1. CASE UNCHANGED vars
  BY <1>1 DEF vars, NoLostWakeup
<1>2. ASSUME NEW t \in Threads, Call(t) \/ AcquireCheck(t) \/ AcquireSpin(t) \/ AcquireResume(t)
      PROVE NoLostWakeup'
  BY <1>2 DEF Call, AcquireCheck, AcquireSpin, AcquireResume, kassert, Goto, NoLostWakeup
<1>3. ASSUME NEW t \in Threads, AcquireSleep(t) PROVE NoLostWakeup'
  BY <1>3 DEF AcquireSleep, NoLostWakeup
<1>4. ASSUME NEW t \in Threads, AcquireBusy(t) PROVE NoLostWakeup'
  BY <1>4 DEF AcquireBusy, NoLostWakeup
<1>5. ASSUME NEW t \in Threads, AcquireOwner(t) PROVE NoLostWakeup'
  <2>1. is_busy'
    BY <1>5 DEF AcquireOwner, Goto, BusyIsHeld, HasLock
  <2> QED BY <2>1 DEF NoLostWakeup
<1>6. ASSUME NEW t \in Threads, CallRelease(t) \/ ReleaseCheck(t) \/ ReleaseReads(t)
                                \/ ReleaseSpin(t) \/ ReleaseDone(t)
      PROVE NoLostWakeup'
  BY <1>6 DEF CallRelease, ReleaseCheck, ReleaseReads, ReleaseSpin, ReleaseDone, kassert, Goto,
     NoLostWakeup
<1>7. ASSUME NEW t \in Threads, ReleaseBusy(t) \/ ReleaseOwner(t) PROVE NoLostWakeup'
  BY <1>7 DEF ReleaseBusy, ReleaseOwner, Goto, NoLostWakeup
<1>8. ASSUME NEW t \in Threads, ReleaseWake(t) PROVE NoLostWakeup'
  <2>1. CASE lk_wchan = <<>>
    BY <1>8, <2>1 DEF ReleaseWake, NoLostWakeup
  <2>2. CASE lk_wchan # <<>>
    <3>1. Head(lk_wchan) \in Threads
      BY <2>2
    <3>2. pc'[Head(lk_wchan)] = "woken"
      BY <1>8, <2>2, <3>1 DEF ReleaseWake
    <3> QED BY <3>1, <3>2 DEF NoLostWakeup
  <2> QED BY <2>1, <2>2
<1> QED
  BY <1>1, <1>2, <1>3, <1>4, <1>5, <1>6, <1>7, <1>8 DEF Next, AcquireStep, ReleaseStep

IInv == LockInv /\ ChannelHoldsSleepers /\ NoLostWakeup

\* The inductive invariant.
LEMMA Inductive == Spec => []IInv
<1>1. Init => IInv
  BY InitLock DEF Init, IInv, ChannelHoldsSleepers, NoLostWakeup
<1>2. IInv /\ [Next]_vars => IInv'
  BY StepLock, StepChannel, StepWakeup DEF IInv
<1> QED BY <1>1, <1>2, PTL DEF Spec

(***************************************************************************)
(* The results.                                                            *)
(***************************************************************************)
\* The fields of struct lock and the program counters keep their types.
THEOREM TypeCorrect == Spec => []TypeOK
<1>1. IInv => TypeOK
  BY DEF IInv, LockInv
<1> QED BY <1>1, Inductive, PTL

\* lock_acquire and lock_release exclude each other for any number of threads.
THEOREM Exclusion == Spec => []MutualExclusion
<1>1. IInv => MutualExclusion
  BY DEF IInv, LockInv
<1> QED BY <1>1, Inductive, PTL

\* Outside lk_spinlock, is_busy and lk_owner name the one thread that has the
\* lock: what lock_do_i_hold relies on.
THEOREM OwnerTruthful == Spec => []OwnerIsHolder
<1>1. IInv => OwnerIsHolder
  BY NoThreadAssumption
  DEF IInv, LockInv, TypeOK, SpinIsHeld, OwnerIsHeld, BusyIsHeld, HasLock, OwnerIsHolder
<1> QED BY <1>1, Inductive, PTL

\* The channel holds exactly the sleeping threads, each once.
THEOREM ChannelExact == Spec => []ChannelHoldsSleepers
<1>1. IInv => ChannelHoldsSleepers
  BY DEF IInv
<1> QED BY <1>1, Inductive, PTL

\* No thread sleeps on a free lock with nobody on the way to it.
THEOREM WakeupKept == Spec => []NoLostWakeup
<1>1. IInv => NoLostWakeup
  BY DEF IInv
<1> QED BY <1>1, Inductive, PTL

\* The KASSERTs of lock_acquire and lock_release hold.
THEOREM AssertsHold == Spec => []NoPanic
<1>1. IInv => NoPanic
  BY DEF IInv, LockInv
<1> QED BY <1>1, Inductive, PTL

(***************************************************************************)
(* The detailed lock implements the abstract one: AcquireOwner is Grant,   *)
(* ReleaseOwner is Free, Call is Request, and every other step is          *)
(* invisible.                                                              *)
(***************************************************************************)
\* The safety part of ImplementsMutex.
THEOREM RefinesMutex == Spec => M!MutexInit /\ [][M!MutexNext]_(M!mutexVars)
<1>1. Init => M!MutexInit
  BY DEF Init, M!MutexInit, Waiting
<1>2. IInv /\ [Next]_vars => [M!MutexNext]_(M!mutexVars)
  <2> SUFFICES ASSUME IInv, [Next]_vars PROVE [M!MutexNext]_(M!mutexVars)
    OBVIOUS
  <2> USE NoThreadAssumption DEF IInv, LockInv, TypeOK
  <2>1. CASE UNCHANGED vars
    BY <2>1 DEF vars, M!mutexVars, Waiting
  <2>2. ASSUME NEW t \in Threads, Call(t) PROVE M!Request(t)
    BY <2>2 DEF Call, Goto, M!Request, Waiting, OwnerIsHeld
  <2>3. ASSUME NEW t \in Threads, AcquireCheck(t) \/ AcquireSpin(t) \/ AcquireSleep(t)
                                  \/ AcquireResume(t) \/ AcquireBusy(t)
        PROVE UNCHANGED M!mutexVars
    BY <2>3 DEF AcquireCheck, AcquireSpin, AcquireSleep, AcquireResume, AcquireBusy,
       kassert, Goto, M!mutexVars, Waiting
  <2>4. ASSUME NEW t \in Threads, AcquireOwner(t) PROVE M!Grant(t)
    BY <2>4 DEF AcquireOwner, Goto, M!Grant, Waiting, OwnerIsHeld, SpinIsHeld,
       MutualExclusion, HasLock
  <2>5. ASSUME NEW t \in Threads, CallRelease(t) \/ ReleaseCheck(t) \/ ReleaseReads(t)
                                  \/ ReleaseSpin(t) \/ ReleaseBusy(t) \/ ReleaseDone(t)
        PROVE UNCHANGED M!mutexVars
    BY <2>5 DEF CallRelease, ReleaseCheck, ReleaseReads, ReleaseSpin, ReleaseBusy, ReleaseDone,
       kassert, Goto, M!mutexVars, Waiting
  <2>6. ASSUME NEW t \in Threads, ReleaseOwner(t) PROVE M!Free(t)
    BY <2>6 DEF ReleaseOwner, Goto, M!Free, Waiting, OwnerIsHeld
  <2>7. ASSUME NEW t \in Threads, ReleaseWake(t) PROVE UNCHANGED M!mutexVars
    <3>1. CASE lk_wchan = <<>>
      BY <2>7, <3>1 DEF ReleaseWake, M!mutexVars, Waiting
    <3>2. CASE lk_wchan # <<>>
      <4>1. Head(lk_wchan) \in Threads /\ pc[Head(lk_wchan)] = "asleep"
        BY <3>2 DEF ChannelHoldsSleepers
      <4> QED BY <2>7, <3>2, <4>1 DEF ReleaseWake, M!mutexVars, Waiting
    <3> QED BY <3>1, <3>2
  <2> QED
    BY <2>1, <2>2, <2>3, <2>4, <2>5, <2>6, <2>7
    DEF Next, AcquireStep, ReleaseStep, M!MutexNext
<1> QED BY <1>1, <1>2, Inductive, PTL DEF Spec
=============================================================================
