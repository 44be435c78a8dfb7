-------------------------- MODULE SemaphoreProofs --------------------------
(***************************************************************************)
(* Proofs about Semaphore, for every finite set of threads, every initial  *)
(* count and every width of the counter.                                   *)
(***************************************************************************)
EXTENDS Semaphore, FiniteSetTheorems, TLAPS

\* The spinlock is held by exactly the thread inside its critical section.
SpinIsHeld == \A t \in Threads : splk_holder = t <=> pc[t] \in {"ptest", "vcount", "vwake"}

\* The channel holds exactly the sleeping threads, each once.
ChannelHoldsSleepers ==
    /\ \A t \in Threads : pc[t] = "asleep" => \E i \in DOMAIN sem_wchan : sem_wchan[i] = t
    /\ \A i \in DOMAIN sem_wchan : pc[sem_wchan[i]] = "asleep"
    /\ \A i, j \in DOMAIN sem_wchan : sem_wchan[i] = sem_wchan[j] => i = j

SemInv == TypeOK /\ SpinIsHeld /\ ChannelHoldsSleepers

(***************************************************************************)
(* The unsigned increment of V.                                            *)
(***************************************************************************)
LEMMA UnsignedIncrement ==
    ASSUME NEW c \in 0 .. CountModulus - 1
    PROVE (c + 1) % CountModulus = IF c + 1 = CountModulus THEN 0 ELSE c + 1
<1>1. CountModulus \in Nat /\ CountModulus > 0
  BY SemAssumption
<1>2. CASE c + 1 = CountModulus
  BY <1>1, <1>2
<1>3. CASE c + 1 # CountModulus
  BY <1>1, <1>3
<1> QED BY <1>2, <1>3

(***************************************************************************)
(* The wait channel.                                                       *)
(***************************************************************************)
\* A thread that neither falls asleep nor is asleep leaves the channel alone.
LEMMA AwakeStep ==
    ASSUME SemInv, NEW t \in Threads, NEW from \in Labels \ {"asleep"},
           NEW to \in Labels \ {"asleep"}, Goto(t, from, to), UNCHANGED sem_wchan
    PROVE ChannelHoldsSleepers'
BY DEF SemInv, TypeOK, Goto, ChannelHoldsSleepers

\* A thread that goes to sleep in P is put on the wait channel.
LEMMA SleepStep ==
    ASSUME SemInv, NEW t \in Threads, PSleep(t)
    PROVE ChannelHoldsSleepers' /\ sem_wchan' \in Seq(Threads)
<1> USE DEF SemInv, TypeOK
<1>1. pc' = [pc EXCEPT ![t] = "asleep"] /\ pc[t] = "ptest"
  BY DEF PSleep, Goto
<1>2. /\ sem_wchan' \in Seq(Threads)
      /\ Len(sem_wchan') = Len(sem_wchan) + 1
      /\ sem_wchan'[Len(sem_wchan) + 1] = t
      /\ \A i \in DOMAIN sem_wchan : sem_wchan'[i] = sem_wchan[i]
      /\ DOMAIN sem_wchan' = DOMAIN sem_wchan \cup {Len(sem_wchan) + 1}
  BY DEF PSleep
<1>3. \A i \in DOMAIN sem_wchan : sem_wchan[i] # t
  BY <1>1 DEF ChannelHoldsSleepers
<1>4. \A u \in Threads : pc'[u] = "asleep" => \E i \in DOMAIN sem_wchan' : sem_wchan'[i] = u
  BY <1>1, <1>2 DEF ChannelHoldsSleepers
<1>5. \A i \in DOMAIN sem_wchan' : pc'[sem_wchan'[i]] = "asleep"
  BY <1>1, <1>2 DEF ChannelHoldsSleepers
<1>6. \A i, j \in DOMAIN sem_wchan' : sem_wchan'[i] = sem_wchan'[j] => i = j
  BY <1>2, <1>3 DEF ChannelHoldsSleepers
<1> QED BY <1>2, <1>4, <1>5, <1>6 DEF ChannelHoldsSleepers

\* The oldest sleeper is a thread, is asleep, and is not the thread that calls V.
LEMMA HeadSleeps ==
    ASSUME SemInv, sem_wchan # <<>>
    PROVE Head(sem_wchan) \in Threads /\ pc[Head(sem_wchan)] = "asleep"
BY DEF SemInv, TypeOK, ChannelHoldsSleepers

\* V takes the first thread off the wait channel and wakes it.
LEMMA WakeStep ==
    ASSUME SemInv, NEW t \in Threads, VWake(t)
    PROVE ChannelHoldsSleepers' /\ sem_wchan' \in Seq(Threads)
<1> USE DEF SemInv, TypeOK
<1>1. CASE sem_wchan = <<>>
  BY <1>1 DEF VWake, ChannelHoldsSleepers
<1>2. CASE sem_wchan # <<>>
  <2>1. /\ sem_wchan' = Tail(sem_wchan)
        /\ pc' = [pc EXCEPT ![t] = "out", ![Head(sem_wchan)] = "woken"]
        /\ pc[t] = "vwake"
    BY <1>2 DEF VWake
  <2>2. /\ sem_wchan' \in Seq(Threads)
        /\ Len(sem_wchan') = Len(sem_wchan) - 1
        /\ \A i \in DOMAIN sem_wchan' :
              i + 1 \in DOMAIN sem_wchan /\ sem_wchan'[i] = sem_wchan[i + 1]
        /\ Head(sem_wchan) = sem_wchan[1]
        /\ 1 \in DOMAIN sem_wchan
    BY <1>2, <2>1
  <2>3. \A i \in DOMAIN sem_wchan' : sem_wchan'[i] # Head(sem_wchan)
    BY <2>2 DEF ChannelHoldsSleepers
  <2>4. \A i \in DOMAIN sem_wchan' : pc'[sem_wchan'[i]] = "asleep"
    BY <2>1, <2>2, <2>3 DEF ChannelHoldsSleepers
  <2>5. ASSUME NEW u \in Threads, pc'[u] = "asleep"
        PROVE \E i \in DOMAIN sem_wchan' : sem_wchan'[i] = u
    <3>1. pc[u] = "asleep" /\ u # Head(sem_wchan)
      BY <2>1, <2>2, <2>5 DEF ChannelHoldsSleepers
    <3>2. PICK i \in DOMAIN sem_wchan : sem_wchan[i] = u
      BY <3>1 DEF ChannelHoldsSleepers
    <3>3. i # 1 /\ i - 1 \in DOMAIN sem_wchan'
      BY <2>2, <3>1, <3>2
    <3> QED BY <2>2, <3>2, <3>3
  <2>6. \A i, j \in DOMAIN sem_wchan' : sem_wchan'[i] = sem_wchan'[j] => i = j
    BY <2>2 DEF ChannelHoldsSleepers
  <2> QED BY <2>2, <2>4, <2>5, <2>6 DEF ChannelHoldsSleepers
<1> QED BY <1>1, <1>2

\* Every step keeps SemInv.
LEMMA StepSem == SemInv /\ [Next]_vars => SemInv'
<1> SUFFICES ASSUME SemInv, [Next]_vars PROVE SemInv'
  OBVIOUS
<1> USE SemAssumption DEF SpinIsHeld, Goto, spinlock_acquire, spinlock_release, Labels
<1>1. CASE UNCHANGED vars
  BY <1>1 DEF vars, SemInv, TypeOK, ChannelHoldsSleepers
<1>2. ASSUME NEW t \in Threads, CallP(t) PROVE SemInv'
  BY <1>2, AwakeStep DEF CallP, SemInv, TypeOK
<1>3. ASSUME NEW t \in Threads, PSpin(t) PROVE SemInv'
  BY <1>3, AwakeStep DEF PSpin, SemInv, TypeOK
<1>4. ASSUME NEW t \in Threads, PSleep(t) PROVE SemInv'
  <2>1. TypeOK' /\ SpinIsHeld'
    BY <1>4, SleepStep DEF PSleep, SemInv, TypeOK
  <2> QED BY <1>4, <2>1, SleepStep DEF SemInv
<1>5. ASSUME NEW t \in Threads, PResume(t) PROVE SemInv'
  BY <1>5, AwakeStep DEF PResume, SemInv, TypeOK
<1>6. ASSUME NEW t \in Threads, PTake(t) PROVE SemInv'
  <2>1. ChannelHoldsSleepers'
    BY <1>6, AwakeStep DEF PTake
  <2> QED BY <1>6, <2>1 DEF PTake, SemInv, TypeOK
<1>7. ASSUME NEW t \in Threads, CallV(t) PROVE SemInv'
  BY <1>7, AwakeStep DEF CallV, SemInv, TypeOK
<1>8. ASSUME NEW t \in Threads, VSpin(t) PROVE SemInv'
  BY <1>8, AwakeStep DEF VSpin, SemInv, TypeOK
<1>9. ASSUME NEW t \in Threads, VCount(t) PROVE SemInv'
  <2>1. ChannelHoldsSleepers'
    BY <1>9, AwakeStep DEF VCount, SemInv
  <2>2. sem_count' \in 0 .. CountModulus - 1
    BY <1>9, UnsignedIncrement DEF VCount, SemInv, TypeOK
  <2>3. panicked' \in BOOLEAN
    BY <1>9, Zenon DEF VCount
  <2>4. SpinIsHeld' /\ pc' \in [Threads -> Labels]
    BY <1>9 DEF VCount, SemInv, TypeOK
  <2> QED BY <1>9, <2>1, <2>2, <2>3, <2>4 DEF VCount, SemInv, TypeOK
<1>10. ASSUME NEW t \in Threads, VWake(t) PROVE SemInv'
  <2>1. SpinIsHeld' /\ pc' \in [Threads -> Labels]
    BY <1>10, HeadSleeps DEF VWake, SemInv, TypeOK
  <2> QED BY <1>10, <2>1, WakeStep DEF VWake, SemInv, TypeOK
<1> QED
  BY <1>1, <1>2, <1>3, <1>4, <1>5, <1>6, <1>7, <1>8, <1>9, <1>10 DEF Next, PStep, VStep

(***************************************************************************)
(* The awake threads.                                                      *)
(***************************************************************************)
LEMMA AlertFinite == IsFiniteSet(Alert) /\ Cardinality(Alert) \in Nat
<1>1. IsFiniteSet(Alert)
  BY SemAssumption, FS_Subset DEF Alert
<1> QED BY <1>1, FS_CardinalityType

Wanted == sem_wchan # <<>> => sem_count <= Cardinality(Alert)

\* A step that neither counts nor sends an alert thread away.
LEMMA MoreAlert ==
    ASSUME SemInv, Wanted, UNCHANGED <<sem_count, sem_wchan>>, Alert \subseteq Alert'
    PROVE Wanted'
<1>1. IsFiniteSet(Alert')
  BY SemAssumption, FS_Subset DEF Alert
<1>2. Cardinality(Alert) <= Cardinality(Alert') /\ Cardinality(Alert') \in Nat
  BY <1>1, FS_Subset, FS_CardinalityType
<1> QED BY <1>2, AlertFinite, SemAssumption DEF Wanted, SemInv, TypeOK

\* Every step keeps the units of the count wanted.
LEMMA StepWanted == SemInv /\ Wanted /\ [Next]_vars => Wanted'
<1> SUFFICES ASSUME SemInv, Wanted, [Next]_vars PROVE Wanted'
  OBVIOUS
<1> USE SemAssumption
<1>1. CASE UNCHANGED vars
  BY <1>1, MoreAlert DEF vars, Alert
<1>2. ASSUME NEW t \in Threads,
             CallP(t) \/ PSpin(t) \/ PResume(t) \/ CallV(t) \/ VSpin(t)
      PROVE Wanted'
  BY <1>2, MoreAlert
  DEF CallP, PSpin, PResume, CallV, VSpin, Goto, Alert, SemInv, TypeOK
<1>3. ASSUME NEW t \in Threads, PSleep(t) PROVE Wanted'
  <2>1. Cardinality(Alert') \in Nat
    BY FS_Subset, FS_CardinalityType DEF Alert
  <2> QED BY <1>3, <2>1 DEF PSleep, Wanted
<1>4. ASSUME NEW t \in Threads, PTake(t) PROVE Wanted'
  <2>1. Alert' = Alert \ {t} /\ t \in Alert
    BY <1>4 DEF PTake, Goto, Alert, SemInv, TypeOK
  <2>2. Cardinality(Alert') = Cardinality(Alert) - 1
    BY <2>1, AlertFinite, FS_RemoveElement
  <2> QED BY <1>4, <2>2, AlertFinite DEF PTake, Wanted, SemInv, TypeOK
<1>5. ASSUME NEW t \in Threads, VCount(t) PROVE Wanted'
  <2>1. Alert' = Alert \cup {t} /\ t \notin Alert
    BY <1>5 DEF VCount, Goto, Alert, SemInv, TypeOK
  <2>2. Cardinality(Alert') = Cardinality(Alert) + 1
    BY <2>1, AlertFinite, FS_AddElement
  <2>3. sem_count' <= sem_count + 1
    BY <1>5, UnsignedIncrement DEF VCount, SemInv, TypeOK
  <2>4. sem_count' \in Nat
    BY <1>5, UnsignedIncrement DEF VCount, SemInv, TypeOK
  <2> QED BY <1>5, <2>2, <2>3, <2>4, AlertFinite DEF VCount, Wanted, SemInv, TypeOK
<1>6. ASSUME NEW t \in Threads, VWake(t) PROVE Wanted'
  <2>1. CASE sem_wchan = <<>>
    BY <1>6, <2>1 DEF VWake, Wanted
  <2>2. CASE sem_wchan # <<>>
    <3> DEFINE h == Head(sem_wchan)
    <3>1. h \in Threads /\ pc[h] = "asleep" /\ pc[t] = "vwake"
      BY <1>6, <2>2, HeadSleeps DEF VWake
    <3>2. Alert' = (Alert \ {t}) \cup {h} /\ t \in Alert /\ h \notin Alert \ {t}
      BY <1>6, <2>2, <3>1 DEF VWake, Alert, SemInv, TypeOK
    <3>3. /\ IsFiniteSet(Alert \ {t})
          /\ Cardinality(Alert \ {t}) = Cardinality(Alert) - 1
      BY <3>2, AlertFinite, FS_RemoveElement
    <3>4. Cardinality((Alert \ {t}) \cup {h}) = Cardinality(Alert \ {t}) + 1
      BY <3>2, <3>3, FS_AddElement
    <3>5. Cardinality(Alert') = Cardinality(Alert)
      BY <3>2, <3>3, <3>4, AlertFinite
    <3> QED BY <1>6, <2>2, <3>5 DEF VWake, Wanted
  <2> QED BY <2>1, <2>2
<1> QED
  BY <1>1, <1>2, <1>3, <1>4, <1>5, <1>6 DEF Next, PStep, VStep

IInv == SemInv /\ Wanted

\* The inductive invariant.
LEMMA Inductive == Spec => []IInv
<1>1. Init => IInv
  <2> SUFFICES ASSUME Init PROVE IInv
    OBVIOUS
  <2> USE SemAssumption DEF Init
  <2>1. panicked \in BOOLEAN
    BY Zenon
  <2>2. TypeOK
    BY <2>1 DEF TypeOK, Labels
  <2>3. SpinIsHeld /\ ChannelHoldsSleepers /\ Wanted
    BY DEF SpinIsHeld, ChannelHoldsSleepers, Wanted
  <2> QED BY <2>2, <2>3 DEF IInv, SemInv
<1>2. IInv /\ [Next]_vars => IInv'
  BY StepSem, StepWanted DEF IInv
<1> QED BY <1>1, <1>2, PTL DEF Spec

(***************************************************************************)
(* The results.                                                            *)
(***************************************************************************)
\* While threads sleep in P, every unit that V has added has a thread awake on
\* its way to the test of the while loop.
THEOREM UnitsWanted == Spec => []EveryUnitIsWanted
<1>1. IInv => EveryUnitIsWanted
  BY DEF IInv, SemInv, Wanted, EveryUnitIsWanted
<1> QED BY <1>1, Inductive, PTL

\* The channel of P holds exactly the sleeping threads, each once.
THEOREM SemChannelExact == Spec => []ChannelHoldsSleepers
<1>1. IInv => ChannelHoldsSleepers
  BY DEF IInv, SemInv
<1> QED BY <1>1, Inductive, PTL

\* The safety part of ImplementsSemaphore: CallP is Ask, PTake is Take, VCount
\* is Post or, when the count wraps, Overflow, and every other step is
\* invisible to the callers of P and V.
THEOREM RefinesSemaphore == Spec => C!SemInit /\ [][C!SemNext]_(C!semVars)
<1>1. Init => C!SemInit
  BY DEF Init, C!SemInit
<1>2. IInv /\ [Next]_vars => [C!SemNext]_(C!semVars)
  <2> SUFFICES ASSUME IInv, [Next]_vars PROVE [C!SemNext]_(C!semVars)
    OBVIOUS
  <2> USE SemAssumption DEF IInv, SemInv, TypeOK
  <2>1. CASE UNCHANGED vars
    BY <2>1 DEF vars, C!semVars
  <2>2. ASSUME NEW t \in Threads, CallP(t) PROVE C!Ask(t)
    BY <2>2 DEF CallP, Goto, C!Ask
  <2>3. ASSUME NEW t \in Threads,
               PSpin(t) \/ PSleep(t) \/ PResume(t) \/ CallV(t) \/ VSpin(t)
        PROVE UNCHANGED C!semVars
    BY <2>3 DEF PSpin, PSleep, PResume, CallV, VSpin, Goto, C!semVars
  <2>4. ASSUME NEW t \in Threads, PTake(t) PROVE C!Take(t)
    BY <2>4 DEF PTake, Goto, C!Take
  <2>5. ASSUME NEW t \in Threads, VCount(t), ~panicked PROVE C!Post \/ C!Overflow
    <3>1. UNCHANGED {u \in Threads : pc[u] \in {"pspin", "ptest", "asleep", "woken"}}
      BY <2>5 DEF VCount, Goto
    <3>2. sem_count' = IF sem_count + 1 = CountModulus THEN 0 ELSE sem_count + 1
      BY <2>5, UnsignedIncrement DEF VCount
    <3>3. CASE sem_count + 1 = CountModulus
      <4>1. sem_count' = 0
        BY <3>2, <3>3
      <4>2. panicked' = TRUE
        BY <2>5, <4>1, Zenon DEF VCount
      <4> QED BY <3>1, <3>3, <4>1, <4>2 DEF C!Overflow
    <3>4. CASE sem_count + 1 # CountModulus
      <4>1. sem_count' = sem_count + 1 /\ sem_count' # 0 /\ sem_count + 1 < CountModulus
        BY <3>2, <3>4
      <4>2. panicked' = panicked
        BY <2>5, <4>1, Zenon DEF VCount
      <4> QED BY <3>1, <4>1, <4>2 DEF C!Post
    <3> QED BY <3>3, <3>4
  <2>6. ASSUME NEW t \in Threads, VWake(t) PROVE UNCHANGED C!semVars
    BY <2>6, HeadSleeps DEF VWake, C!semVars
  <2> QED
    BY <2>1, <2>2, <2>3, <2>4, <2>5, <2>6 DEF Next, PStep, VStep, C!SemNext
<1> QED BY <1>1, <1>2, Inductive, PTL DEF Spec
=============================================================================
