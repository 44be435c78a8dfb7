------------------------- MODULE SharedBufferProofs ------------------------
(***************************************************************************)
(* Proofs about SharedBuffer, for any number of producers and consumers,   *)
(* any size of the buffer and any number of calls, and, in the second      *)
(* part, about the LinkedList its items are kept in, for any memory, keys  *)
(* and data.  The two specifications share no state.                       *)
(*                                                                         *)
(* The inductive invariant of the buffer says who holds sb_lock and the    *)
(* two spinlocks, who is on the two channels, what the test of the while   *)
(* loop leaves true until count changes, and how count and the list differ *)
(* in between.  NoForgottenSleeper is not inductive as it stands: it has   *)
(* to hold before the first sleeper arrives, from the moment a thread      *)
(* decides to wait.                                                        *)
(***************************************************************************)
EXTENDS SharedBuffer, LinkedList, Facts, SequenceTheorems

\* Where a thread holds sb_lock, and where it holds the spinlock of its cv.
Holding == {"test", "wspin", "wunlock", "move", "count", "signal", "unlock"}
Spinning == {"wunlock", "wsleep"}

OwnerInv == \A t \in Threads : pc[t] \in Holding <=> sb_owner = t

SpinInv == \A t \in Threads : pc[t] \in Spinning <=> cv_spin[MyCV(t)] = t

\* The channels hold the threads asleep on them, each once.
ChannelInv ==
    /\ \A cv \in CVs : \A i \in DOMAIN cv_wchan[cv] :
        pc[cv_wchan[cv][i]] = "asleep" /\ MyCV(cv_wchan[cv][i]) = cv
    /\ \A cv \in CVs : \A i, j \in DOMAIN cv_wchan[cv] :
        cv_wchan[cv][i] = cv_wchan[cv][j] => i = j
    /\ \A t \in Threads :
        pc[t] = "asleep" => \E i \in DOMAIN cv_wchan[MyCV(t)] : cv_wchan[MyCV(t)][i] = t

\* What the test of the while loop found still holds.
TestInv ==
    \A t \in Threads :
        /\ pc[t] \in {"wspin", "wunlock"} => MustWait(t)
        /\ pc[t] = "move" => (IF t \in Producers THEN count < BUFFER_SIZE ELSE count > 0)

LengthInv ==
    /\ (\A t \in Threads : pc[t] # "count") => Len(buffer_ll) = count
    /\ \A p \in Producers : pc[p] = "count" => Len(buffer_ll) = count + 1 /\ count < BUFFER_SIZE
    /\ \A c \in Consumers : pc[c] = "count" => Len(buffer_ll) = count - 1 /\ count > 0

\* The threads that wait on cv, what they wait for, and that one of them sleeps or
\* has decided to.
Side(cv) == IF cv = "producer_cv" THEN Producers ELSE Consumers
Wanted(cv) == IF cv = "producer_cv" THEN BUFFER_SIZE - count ELSE count

Waiting(cv) ==
    cv_wchan[cv] # <<>> \/ \E t \in Side(cv) : pc[t] \in {"wspin", "wunlock", "wsleep"}

SleeperInv == \A cv \in CVs : Waiting(cv) => Wanted(cv) <= Cardinality(Alert(Side(cv)))

\* All but the sleepers: the provers need no cardinality for it.
MonitorInv ==
    /\ TypeOK /\ NoPanic
    /\ OwnerInv /\ SpinInv /\ ChannelInv /\ TestInv /\ LengthInv /\ KeysAreDepths

-----------------------------------------------------------------------------
(***************************************************************************)
(* What the steps do when no KASSERT fails, and that none fails.           *)
(***************************************************************************)
LEMMA NoKassertFails ==
  ASSUME MonitorInv, NEW t \in Threads
  PROVE  /\ Wait(t) => Goto(t, "test", "wspin") /\ UNCHANGED panicked
         /\ Pass(t) => Goto(t, "test", "move") /\ UNCHANGED panicked
         /\ WaitUnlock(t) => Goto(t, "wunlock", "wsleep") /\ UNCHANGED panicked
         /\ Unlock(t) => Goto(t, "unlock", "out") /\ UNCHANGED panicked
         /\ Signal(t) => wchan_wakeone(t, OtherCV(t)) /\ UNCHANGED panicked
<1>1. sb_owner = t \/ pc[t] \notin Holding
  BY DEF MonitorInv, OwnerInv
<1>2. count \in 0 .. BUFFER_SIZE /\ BUFFER_SIZE \in Nat
  BY BufferAssumption DEF MonitorInv, TypeOK
<1>3. Wait(t) => Goto(t, "test", "wspin") /\ UNCHANGED panicked
  BY <1>1, <1>2 DEF Wait, kassert, Holding
<1>4. Pass(t) => Goto(t, "test", "move") /\ UNCHANGED panicked
  BY <1>2 DEF Pass, kassert, MustWait
<1>5. WaitUnlock(t) => Goto(t, "wunlock", "wsleep") /\ UNCHANGED panicked
  BY <1>1, <1>2 DEF WaitUnlock, kassert, Holding
<1>6. Unlock(t) => Goto(t, "unlock", "out") /\ UNCHANGED panicked
  BY <1>1, <1>2 DEF Unlock, kassert, Holding
<1>7. Signal(t) => wchan_wakeone(t, OtherCV(t)) /\ UNCHANGED panicked
  BY <1>1, <1>2 DEF Signal, Holding
<1> QED BY <1>3, <1>4, <1>5, <1>6, <1>7

\* cv_signal either finds nobody or wakes one sleeper of the other side.
SignalNobody(t) ==
    /\ cv_wchan[OtherCV(t)] = <<>>
    /\ pc' = [pc EXCEPT ![t] = "unlock"]
    /\ UNCHANGED cv_wchan

SignalOne(t, w) ==
    /\ w \in Threads /\ w # t /\ pc[w] = "asleep" /\ MyCV(w) = OtherCV(t)
    /\ cv_wchan[OtherCV(t)] # <<>> /\ w = Head(cv_wchan[OtherCV(t)])
    /\ pc' = [pc EXCEPT ![t] = "unlock", ![w] = "woken"]
    /\ cv_wchan' = [cv_wchan EXCEPT ![OtherCV(t)] = Tail(@)]

\* cv_signal wakes one sleeper of the other side, if there is one.
LEMMA SignalWakes ==
  ASSUME MonitorInv, NEW t \in Threads, Signal(t)
  PROVE  /\ pc[t] = "signal" /\ cv_spin[OtherCV(t)] = NoThread
         /\ UNCHANGED <<count, buffer_ll, sb_owner, cv_spin, calls, got>>
         /\ SignalNobody(t) \/ \E w \in Threads : SignalOne(t, w)
<1>1. wchan_wakeone(t, OtherCV(t))
  BY NoKassertFails
<1>2. OtherCV(t) \in CVs /\ cv_wchan[OtherCV(t)] \in Seq(Threads)
  BY DEF OtherCV, CVs, MonitorInv, TypeOK
<1>3. pc[t] = "signal" /\ UNCHANGED <<count, buffer_ll, sb_owner, cv_spin, calls, got>>
      /\ cv_spin[OtherCV(t)] = NoThread
  BY DEF Signal
<1>4. CASE cv_wchan[OtherCV(t)] = <<>>
  BY <1>1, <1>3, <1>4 DEF wchan_wakeone, SignalNobody
<1>5. CASE cv_wchan[OtherCV(t)] # <<>>
  <2> DEFINE w == Head(cv_wchan[OtherCV(t)])
  <2>1. 1 \in DOMAIN cv_wchan[OtherCV(t)] /\ w = cv_wchan[OtherCV(t)][1] /\ w \in Threads
    BY <1>2, <1>5
  <2>2. pc[w] = "asleep" /\ MyCV(w) = OtherCV(t)
    BY <1>2, <2>1 DEF MonitorInv, ChannelInv
  <2>3. w # t
    BY <2>2, <1>3
  <2>4. /\ pc' = [pc EXCEPT ![t] = "unlock", ![w] = "woken"]
        /\ cv_wchan' = [cv_wchan EXCEPT ![OtherCV(t)] = Tail(@)]
    BY <1>1, <1>5 DEF wchan_wakeone
  <2>5. SignalOne(t, w)
    BY <1>5, <2>1, <2>2, <2>3, <2>4 DEF SignalOne
  <2> QED BY <1>3, <2>1, <2>5
<1> QED BY <1>4, <1>5

-----------------------------------------------------------------------------
(***************************************************************************)
(* Each part of the invariant, action by action.                           *)
(***************************************************************************)
\* Node type of the list.
BufferNodes == [key : Int, data : Producers \X Nat]

\* A consumer that has passed the test finds an item, and nobody is between its
\* list operation and its update of count.
LEMMA ItemIsThere ==
  ASSUME MonitorInv, NEW t \in Threads, pc[t] = "move"
  PROVE  /\ \A u \in Threads : pc[u] # "count"
         /\ Len(buffer_ll) = count
         /\ t \in Producers => count < BUFFER_SIZE
         /\ t \notin Producers => buffer_ll # <<>> /\ t \in Consumers
<1>1. \A u \in Threads : pc[u] # "count"
  BY DEF MonitorInv, OwnerInv, Holding
<1>2. Len(buffer_ll) = count
  BY <1>1 DEF MonitorInv, LengthInv
<1>3. t \notin Producers => count > 0 /\ t \in Consumers
  BY DEF MonitorInv, TestInv, Threads
<1>4. t \in Producers => count < BUFFER_SIZE
  BY DEF MonitorInv, TestInv
<1> QED BY <1>1, <1>2, <1>3, <1>4

\* MonitorInv holds at the start.
LEMMA InitMonitor == Init => MonitorInv
<1> SUFFICES ASSUME Init PROVE MonitorInv
  OBVIOUS
<1>1. TypeOK
  <2>1. <<>> \in Seq(Threads) /\ <<>> \in Seq(BufferNodes) /\ <<>> \in Seq(Producers \X Nat)
    OBVIOUS
  <2>2. /\ pc \in [Threads -> Labels] /\ calls \in [Threads -> Nat]
        /\ cv_spin \in [CVs -> Threads \cup {NoThread}] /\ cv_wchan \in [CVs -> Seq(Threads)]
        /\ got \in [Consumers -> Seq(Producers \X Nat)]
    BY <2>1 DEF Init, Labels
  <2>3. count \in 0 .. BUFFER_SIZE /\ sb_owner = NoThread /\ panicked = FALSE
    BY BufferAssumption DEF Init
  <2>4. buffer_ll \in Seq([key : Int, data : Producers \X Nat])
    BY <2>1 DEF Init, BufferNodes
  <2> QED BY <2>2, <2>3, <2>4 DEF TypeOK
<1>2. OwnerInv /\ SpinInv /\ TestInv
  BY BufferAssumption DEF Init, OwnerInv, SpinInv, TestInv, Holding, Spinning, MyCV, CVs
<1>3. ChannelInv
  BY DEF Init, ChannelInv, CVs
<1>4. LengthInv /\ KeysAreDepths /\ NoPanic
  BY DEF Init, LengthInv, KeysAreDepths, NoPanic, Threads
<1> QED BY <1>1, <1>2, <1>3, <1>4 DEF MonitorInv

\* Every step keeps the types, and no KASSERT fails.
LEMMA TypeStep ==
  ASSUME MonitorInv, NEW t \in Threads, Step(t)
  PROVE  TypeOK' /\ NoPanic'
<1>0. TypeOK /\ ~panicked /\ BUFFER_SIZE \in Nat
  BY BufferAssumption DEF MonitorInv, NoPanic
<1>1. MyCV(t) \in CVs /\ OtherCV(t) \in CVs /\ buffer_ll \in Seq(BufferNodes)
  BY <1>0 DEF MyCV, OtherCV, CVs, TypeOK, BufferNodes
<1>2. CASE Call(t) \/ Lock(t) \/ WaitRelock(t) \/ WaitWoken(t)
  <2>1. pc' \in [Threads -> Labels]
    BY <1>0, <1>2 DEF TypeOK, Call, Lock, WaitRelock, WaitWoken, Goto, Labels
  <2>2. sb_owner' \in Threads \cup {NoThread}
    BY <1>0, <1>2 DEF TypeOK, Call, Lock, WaitRelock, WaitWoken
  <2> QED BY <1>0, <1>2, <2>1, <2>2 DEF TypeOK, NoPanic, Call, Lock, WaitRelock, WaitWoken
<1>3. CASE Wait(t) \/ Pass(t) \/ WaitUnlock(t) \/ Unlock(t)
  <2>1. pc' \in [Threads -> Labels] /\ UNCHANGED panicked
    BY <1>0, <1>3, NoKassertFails DEF TypeOK, Goto, Labels
  <2>2. sb_owner' \in Threads \cup {NoThread}
    BY <1>0, <1>3 DEF TypeOK, Wait, Pass, WaitUnlock, Unlock
  <2> QED BY <1>0, <1>3, <2>1, <2>2 DEF TypeOK, NoPanic, Wait, Pass, WaitUnlock, Unlock
<1>4. CASE WaitSpin(t) \/ WaitSleep(t)
  <2>1. pc' \in [Threads -> Labels]
    BY <1>0, <1>4 DEF TypeOK, WaitSpin, WaitSleep, Goto, Labels
  <2>2. cv_spin' \in [CVs -> Threads \cup {NoThread}]
    BY <1>0, <1>1, <1>4 DEF TypeOK, WaitSpin, WaitSleep
  <2>3. cv_wchan[MyCV(t)] \in Seq(Threads) /\ Append(cv_wchan[MyCV(t)], t) \in Seq(Threads)
    BY <1>0, <1>1 DEF TypeOK
  <2>4. cv_wchan' \in [CVs -> Seq(Threads)]
    BY <1>0, <2>3, <1>4 DEF TypeOK, WaitSpin, WaitSleep
  <2> QED BY <1>0, <1>4, <2>1, <2>2, <2>4 DEF TypeOK, NoPanic, WaitSpin, WaitSleep
<1>5. CASE Prepend(t)
  <2> DEFINE key == IF buffer_ll = <<>> THEN 0 ELSE Head(buffer_ll).key - 1
             node == [key |-> key, data |-> <<t, calls[t] + 1>>]
  <2>1. buffer_ll # <<>> => Head(buffer_ll) \in BufferNodes
    BY <1>1
  <2>2. key \in Int
    BY <2>1 DEF BufferNodes
  <2>3. calls[t] + 1 \in Nat /\ t \in Producers
    BY <1>0, <1>5 DEF Prepend, TypeOK
  <2>4. node \in BufferNodes
    BY <2>2, <2>3 DEF BufferNodes
  <2>5. buffer_ll' = <<node>> \o buffer_ll
    BY <1>5 DEF Prepend
  <2> HIDE DEF node
  <2>6. buffer_ll' \in Seq(BufferNodes)
    BY <1>1, <2>4, <2>5
  <2>7. pc' \in [Threads -> Labels] /\ calls' \in [Threads -> Nat]
    BY <1>0, <1>5 DEF TypeOK, Prepend, Goto, Labels
  <2> QED BY <1>0, <1>5, <2>6, <2>7 DEF TypeOK, BufferNodes, Prepend, NoPanic
<1>6. CASE RemoveHead(t)
  <2>1. buffer_ll # <<>> /\ t \in Consumers
    BY <1>6, ItemIsThere, BufferAssumption DEF RemoveHead, Goto
  <2>2. Head(buffer_ll) \in BufferNodes /\ Tail(buffer_ll) \in Seq(BufferNodes)
    BY <1>1, <2>1
  <2>3. buffer_ll' \in Seq(BufferNodes)
    BY <1>6, <2>1, <2>2 DEF RemoveHead
  <2>4. pc' \in [Threads -> Labels] /\ calls' \in [Threads -> Nat]
    BY <1>0, <1>6 DEF TypeOK, RemoveHead, Goto, Labels
  <2>5. got' = [got EXCEPT ![t] = Append(@, Head(buffer_ll).data)]
    BY <1>6, <2>1 DEF RemoveHead
  <2>6. Head(buffer_ll).data \in Producers \X Nat
    BY <2>2 DEF BufferNodes
  <2>7. got' \in [Consumers -> Seq(Producers \X Nat)]
    BY <1>0, <2>1, <2>5, <2>6 DEF TypeOK
  <2> QED BY <1>0, <1>6, <2>3, <2>4, <2>7 DEF TypeOK, BufferNodes, RemoveHead, NoPanic
<1>7. CASE Count(t)
  <2>1. count' \in 0 .. BUFFER_SIZE
    BY <1>0, <1>7 DEF TypeOK, Count, Goto, MonitorInv, LengthInv, Threads
  <2>2. pc' \in [Threads -> Labels]
    BY <1>0, <1>7 DEF TypeOK, Count, Goto, Labels
  <2> QED BY <1>0, <1>7, <2>1, <2>2 DEF TypeOK, Count, NoPanic
<1>8. CASE Signal(t)
  <2>1. UNCHANGED panicked /\ UNCHANGED <<count, buffer_ll, sb_owner, cv_spin, calls, got>>
    BY <1>8, NoKassertFails, SignalWakes
  <2>2. CASE SignalNobody(t)
    <3>1. pc' \in [Threads -> Labels]
      BY <1>0, <2>2 DEF TypeOK, SignalNobody, Labels
    <3> QED BY <1>0, <2>1, <2>2, <3>1 DEF TypeOK, NoPanic, SignalNobody
  <2>3. ASSUME NEW w \in Threads, SignalOne(t, w) PROVE TypeOK' /\ NoPanic'
    <3>1. pc' \in [Threads -> Labels]
      BY <1>0, <2>3 DEF TypeOK, SignalOne, Labels
    <3>2. cv_wchan' \in [CVs -> Seq(Threads)]
      BY <1>0, <1>1, <2>3 DEF TypeOK, SignalOne
    <3> QED BY <1>0, <2>1, <3>1, <3>2 DEF TypeOK, NoPanic
  <2> QED BY <1>8, <2>2, <2>3, SignalWakes
<1> QED BY <1>2, <1>3, <1>4, <1>5, <1>6, <1>7, <1>8 DEF Step

\* Every step keeps OwnerInv.
LEMMA OwnerStep ==
  ASSUME MonitorInv, NEW t \in Threads, Step(t)
  PROVE  OwnerInv'
<1>0. OwnerInv /\ pc \in [Threads -> Labels] /\ NoThread \notin Threads
  BY BufferAssumption DEF MonitorInv, TypeOK
<1>1. CASE Call(t) \/ Lock(t) \/ WaitSpin(t) \/ WaitSleep(t) \/ WaitWoken(t) \/ WaitRelock(t)
  BY <1>0, <1>1 DEF OwnerInv, Holding, Goto, Call, Lock, WaitSpin, WaitSleep, WaitWoken, WaitRelock
<1>2. CASE Wait(t) \/ Pass(t) \/ WaitUnlock(t) \/ Unlock(t)
  BY <1>0, <1>2, NoKassertFails DEF OwnerInv, Holding, Goto, Wait, Pass, WaitUnlock, Unlock
<1>3. CASE Prepend(t) \/ RemoveHead(t) \/ Count(t)
  BY <1>0, <1>3 DEF OwnerInv, Holding, Goto, Prepend, RemoveHead, Count
<1>4. CASE Signal(t)
  BY <1>0, <1>4, SignalWakes DEF OwnerInv, Holding, SignalNobody, SignalOne
<1> QED BY <1>1, <1>2, <1>3, <1>4 DEF Step

\* Every step keeps SpinInv.
LEMMA SpinStep ==
  ASSUME MonitorInv, NEW t \in Threads, Step(t)
  PROVE  SpinInv'
<1>0. /\ SpinInv /\ pc \in [Threads -> Labels] /\ NoThread \notin Threads
      /\ cv_spin \in [CVs -> Threads \cup {NoThread}]
      /\ \A u \in Threads : MyCV(u) \in CVs
  BY BufferAssumption DEF MonitorInv, TypeOK, MyCV, CVs
<1>1. CASE Call(t) \/ Lock(t) \/ WaitWoken(t) \/ WaitRelock(t)
  BY <1>0, <1>1 DEF SpinInv, Spinning, Goto, Call, Lock, WaitWoken, WaitRelock
<1>2. CASE Wait(t) \/ Pass(t) \/ WaitUnlock(t) \/ Unlock(t)
  BY <1>0, <1>2, NoKassertFails DEF SpinInv, Spinning, Goto, Wait, Pass, WaitUnlock, Unlock
<1>3. CASE WaitSpin(t) \/ WaitSleep(t)
  BY <1>0, <1>3 DEF SpinInv, Spinning, Goto, WaitSpin, WaitSleep
<1>4. CASE Prepend(t) \/ RemoveHead(t) \/ Count(t)
  BY <1>0, <1>4 DEF SpinInv, Spinning, Goto, Prepend, RemoveHead, Count
<1>5. CASE Signal(t)
  BY <1>0, <1>5, SignalWakes DEF SpinInv, Spinning, SignalNobody, SignalOne
<1> QED BY <1>1, <1>2, <1>3, <1>4, <1>5 DEF Step

\* Every step keeps TestInv.
LEMMA TestStep ==
  ASSUME MonitorInv, NEW t \in Threads, Step(t)
  PROVE  TestInv'
<1>0. /\ TestInv /\ OwnerInv /\ pc \in [Threads -> Labels] /\ NoThread \notin Threads
      /\ count \in 0 .. BUFFER_SIZE /\ BUFFER_SIZE \in Nat
  BY BufferAssumption DEF MonitorInv, TypeOK
<1>1. CASE Call(t) \/ Lock(t) \/ WaitSpin(t) \/ WaitSleep(t) \/ WaitWoken(t) \/ WaitRelock(t)
  BY <1>0, <1>1 DEF TestInv, MustWait, Goto, Call, Lock, WaitSpin, WaitSleep, WaitWoken, WaitRelock
<1>2. CASE Wait(t) \/ Pass(t)
  BY <1>0, <1>2, NoKassertFails DEF TestInv, MustWait, Goto, Wait, Pass
<1>3. CASE WaitUnlock(t) \/ Unlock(t)
  BY <1>0, <1>3, NoKassertFails DEF TestInv, MustWait, Goto, WaitUnlock, Unlock
<1>4. CASE Prepend(t) \/ RemoveHead(t)
  BY <1>0, <1>4 DEF TestInv, MustWait, Goto, Prepend, RemoveHead
<1>5. CASE Count(t)
  BY <1>0, <1>5 DEF TestInv, MustWait, OwnerInv, Holding, Goto, Count
<1>6. CASE Signal(t)
  BY <1>0, <1>6, SignalWakes DEF TestInv, MustWait, SignalNobody, SignalOne
<1> QED BY <1>1, <1>2, <1>3, <1>4, <1>5, <1>6 DEF Step

\* Every step keeps ChannelInv.
LEMMA ChannelStep ==
  ASSUME MonitorInv, NEW t \in Threads, Step(t)
  PROVE  ChannelInv'
<1>0. /\ pc \in [Threads -> Labels] /\ cv_wchan \in [CVs -> Seq(Threads)]
      /\ \A u \in Threads : MyCV(u) \in CVs /\ OtherCV(u) \in CVs
      /\ ChannelInv
  BY DEF MonitorInv, TypeOK, MyCV, OtherCV, CVs
<1>1. CASE UNCHANGED cv_wchan /\ \E from, to \in Labels \ {"asleep"} : Goto(t, from, to)
  BY <1>0, <1>1 DEF ChannelInv, Goto
<1>2. CASE Call(t) \/ Lock(t) \/ WaitSpin(t) \/ WaitWoken(t) \/ WaitRelock(t)
  BY <1>1, <1>2 DEF Call, Lock, WaitSpin, WaitWoken, WaitRelock, Labels
<1>3. CASE Wait(t) \/ Pass(t) \/ WaitUnlock(t) \/ Unlock(t)
  BY <1>1, <1>3, NoKassertFails DEF Wait, Pass, WaitUnlock, Unlock, Labels
<1>4. CASE Prepend(t) \/ RemoveHead(t) \/ Count(t)
  BY <1>1, <1>4 DEF Prepend, RemoveHead, Count, Labels
<1>5. CASE WaitSleep(t)
  <2> DEFINE cv == MyCV(t)
             q == cv_wchan[cv]
  <2>1. q \in Seq(Threads) /\ cv \in CVs
    BY <1>0
  <2>2. /\ cv_wchan' = [cv_wchan EXCEPT ![cv] = Append(q, t)]
        /\ pc[t] = "wsleep" /\ pc' = [pc EXCEPT ![t] = "asleep"]
    BY <1>5 DEF WaitSleep, Goto
  <2>3. /\ DOMAIN cv_wchan'[cv] = DOMAIN q \cup {Len(q) + 1}
        /\ \A i \in DOMAIN q : cv_wchan'[cv][i] = q[i] /\ i # Len(q) + 1
        /\ cv_wchan'[cv][Len(q) + 1] = t
    BY <1>0, <2>1, <2>2
  <2>4. \A d \in CVs \ {cv} : cv_wchan'[d] = cv_wchan[d]
    BY <1>0, <2>2
  <2>5. \A d \in CVs : \A i \in DOMAIN cv_wchan[d] : cv_wchan[d][i] \in Threads /\ cv_wchan[d][i] # t
    BY <1>0, <2>2 DEF ChannelInv
  <2> HIDE DEF cv, q
  <2>6. \A d \in CVs : \A i \in DOMAIN cv_wchan'[d] :
            pc'[cv_wchan'[d][i]] = "asleep" /\ MyCV(cv_wchan'[d][i]) = d
    BY <1>0, <2>2, <2>3, <2>4, <2>5 DEF ChannelInv, q, cv
  <2>7. \A d \in CVs : \A i, j \in DOMAIN cv_wchan'[d] :
            cv_wchan'[d][i] = cv_wchan'[d][j] => i = j
    <3>1. \A i, j \in DOMAIN cv_wchan'[cv] : cv_wchan'[cv][i] = cv_wchan'[cv][j] => i = j
      BY <1>0, <2>1, <2>3, <2>5 DEF ChannelInv, q
    <3> QED BY <1>0, <2>4, <3>1 DEF ChannelInv
  <2>8. ASSUME NEW u \in Threads, pc'[u] = "asleep"
        PROVE  \E i \in DOMAIN cv_wchan'[MyCV(u)] : cv_wchan'[MyCV(u)][i] = u
    <3>1. CASE u = t
      BY <3>1, <2>3 DEF cv
    <3>2. CASE u # t
      BY <1>0, <2>2, <2>3, <2>4, <2>8, <3>2 DEF ChannelInv, q
    <3> QED BY <3>1, <3>2
  <2> QED BY <2>6, <2>7, <2>8 DEF ChannelInv
<1>6. CASE Signal(t)
  <2>1. CASE SignalNobody(t)
    <3>1. UNCHANGED cv_wchan /\ Goto(t, "signal", "unlock")
      BY <1>6, <2>1, SignalWakes DEF SignalNobody, Goto
    <3> QED BY <1>1, <3>1 DEF Labels
  <2>2. ASSUME NEW w \in Threads, SignalOne(t, w) PROVE ChannelInv'
    <3> DEFINE cv == OtherCV(t)
               q == cv_wchan[cv]
    <3>1. q \in Seq(Threads) /\ cv \in CVs /\ q # <<>> /\ w = q[1] /\ MyCV(w) = cv
      BY <1>0, <2>2 DEF SignalOne
    <3>2. /\ cv_wchan' = [cv_wchan EXCEPT ![cv] = Tail(q)] /\ pc[t] = "signal"
          /\ pc' = [pc EXCEPT ![t] = "unlock", ![w] = "woken"]
      BY <1>6, <2>2, SignalWakes DEF SignalOne
    <3>3. /\ \A i \in DOMAIN cv_wchan'[cv] : i + 1 \in DOMAIN q /\ cv_wchan'[cv][i] = q[i + 1]
                                             /\ i \in Nat /\ i # 0
          /\ \A i \in DOMAIN q : i # 1 => i - 1 \in DOMAIN cv_wchan'[cv] /\ cv_wchan'[cv][i - 1] = q[i]
      <4>1. cv_wchan'[cv] = Tail(q)
        BY <1>0, <3>1, <3>2
      <4> HIDE DEF q, cv
      <4> QED BY <3>1, <4>1
    <3>4. \A d \in CVs \ {cv} : cv_wchan'[d] = cv_wchan[d]
      BY <1>0, <3>2
    <3>5. \A d \in CVs : \A i \in DOMAIN cv_wchan[d] : cv_wchan[d][i] \in Threads /\ cv_wchan[d][i] # t
      BY <1>0, <3>2 DEF ChannelInv
    <3>6. 1 \in DOMAIN q /\ \A i \in DOMAIN q : i # 1 => q[i] # w
      BY <1>0, <3>1 DEF ChannelInv
    <3>7. \A d \in CVs \ {cv} : \A i \in DOMAIN cv_wchan[d] : cv_wchan[d][i] # w
      BY <1>0, <3>1 DEF ChannelInv
    <3> HIDE DEF cv, q
    <3>8. \A d \in CVs : \A i \in DOMAIN cv_wchan'[d] :
              pc'[cv_wchan'[d][i]] = "asleep" /\ MyCV(cv_wchan'[d][i]) = d
      <4>1. ASSUME NEW i \in DOMAIN cv_wchan'[cv]
            PROVE  pc'[cv_wchan'[cv][i]] = "asleep" /\ MyCV(cv_wchan'[cv][i]) = cv
        BY <1>0, <3>1, <3>2, <3>3, <3>5, <3>6 DEF ChannelInv, q
      <4>2. ASSUME NEW d \in CVs \ {cv}, NEW i \in DOMAIN cv_wchan[d]
            PROVE  pc'[cv_wchan[d][i]] = "asleep" /\ MyCV(cv_wchan[d][i]) = d
        BY <1>0, <3>2, <3>5, <3>7 DEF ChannelInv
      <4> QED BY <3>4, <4>1, <4>2
    <3>9. \A d \in CVs : \A i, j \in DOMAIN cv_wchan'[d] :
              cv_wchan'[d][i] = cv_wchan'[d][j] => i = j
      <4>1. ASSUME NEW i \in DOMAIN cv_wchan'[cv], NEW j \in DOMAIN cv_wchan'[cv],
                   cv_wchan'[cv][i] = cv_wchan'[cv][j]
            PROVE  i = j
        <5>1. i + 1 = j + 1
          BY <1>0, <3>1, <3>3, <4>1 DEF ChannelInv, q
        <5> QED BY <3>3, <5>1
      <4> QED BY <1>0, <3>4, <4>1 DEF ChannelInv
    <3>10. ASSUME NEW u \in Threads, pc'[u] = "asleep"
           PROVE  \E i \in DOMAIN cv_wchan'[MyCV(u)] : cv_wchan'[MyCV(u)][i] = u
      <4>1. u # t /\ u # w /\ pc[u] = "asleep"
        BY <1>0, <3>2, <3>10
      <4>2. PICK i \in DOMAIN cv_wchan[MyCV(u)] : cv_wchan[MyCV(u)][i] = u
        BY <1>0, <4>1 DEF ChannelInv
      <4>3. CASE MyCV(u) = cv
        BY <3>1, <3>3, <4>1, <4>2, <4>3 DEF q
      <4>4. CASE MyCV(u) # cv
        BY <1>0, <3>4, <4>2, <4>4
      <4> QED BY <4>3, <4>4
    <3> QED BY <3>8, <3>9, <3>10 DEF ChannelInv
  <2> QED BY <1>6, <2>1, <2>2, SignalWakes
<1> QED BY <1>2, <1>3, <1>4, <1>5, <1>6 DEF Step

\* Every step keeps LengthInv.
LEMMA LengthStep ==
  ASSUME MonitorInv, NEW t \in Threads, Step(t)
  PROVE  LengthInv'
<1>0. /\ LengthInv /\ pc \in [Threads -> Labels] /\ buffer_ll \in Seq(BufferNodes)
      /\ Threads = Producers \cup Consumers /\ Producers \cap Consumers = {}
      /\ count \in 0 .. BUFFER_SIZE /\ BUFFER_SIZE \in Nat
  BY BufferAssumption DEF MonitorInv, TypeOK, BufferNodes, Threads
<1>1. CASE UNCHANGED <<count, buffer_ll>> /\ \E from, to \in Labels \ {"count"} : Goto(t, from, to)
  BY <1>0, <1>1 DEF LengthInv, Goto
<1>2. CASE Call(t) \/ Lock(t) \/ WaitSpin(t) \/ WaitSleep(t) \/ WaitWoken(t) \/ WaitRelock(t)
  BY <1>1, <1>2 DEF Call, Lock, WaitSpin, WaitSleep, WaitWoken, WaitRelock, Labels
<1>3. CASE Wait(t) \/ Pass(t) \/ WaitUnlock(t) \/ Unlock(t)
  BY <1>1, <1>3, NoKassertFails DEF Wait, Pass, WaitUnlock, Unlock, Labels
<1>4. CASE Prepend(t)
  <2>1. t \in Producers /\ pc[t] = "move" /\ UNCHANGED count
    BY <1>4 DEF Prepend, Goto
  <2>2. Len(buffer_ll') = Len(buffer_ll) + 1
    BY <1>0, <1>4 DEF Prepend
  <2> QED BY <1>0, <1>4, <2>1, <2>2, ItemIsThere DEF LengthInv, Prepend, Goto
<1>5. CASE RemoveHead(t)
  <2>1. t \in Consumers /\ t \notin Producers /\ pc[t] = "move" /\ UNCHANGED count
    BY <1>0, <1>5 DEF RemoveHead, Goto
  <2>2. buffer_ll # <<>> /\ Len(buffer_ll') = Len(buffer_ll) - 1 /\ Len(buffer_ll) > 0
    BY <1>0, <1>5, <2>1, ItemIsThere DEF RemoveHead
  <2> QED BY <1>0, <1>5, <2>1, <2>2, ItemIsThere DEF LengthInv, RemoveHead, Goto
<1>6. CASE Count(t)
  <2>1. \A u \in Threads : u # t => pc[u] # "count"
    BY <1>6 DEF MonitorInv, OwnerInv, Holding, Count, Goto
  <2> QED BY <1>0, <1>6, <2>1 DEF LengthInv, Count, Goto
<1>7. CASE Signal(t)
  <2>1. CASE SignalNobody(t)
    BY <1>0, <1>7, <2>1, SignalWakes DEF LengthInv, SignalNobody
  <2>2. ASSUME NEW w \in Threads, SignalOne(t, w) PROVE LengthInv'
    <3>1. \A u \in Threads : pc'[u] = "count" <=> pc[u] = "count"
      BY <1>0, <1>7, <2>2, SignalWakes DEF SignalOne
    <3> QED BY <1>0, <1>7, <3>1, SignalWakes DEF LengthInv
  <2> QED BY <1>7, <2>1, <2>2, SignalWakes
<1> QED BY <1>2, <1>3, <1>4, <1>5, <1>6, <1>7 DEF Step

\* Every step keeps the keys.
LEMMA KeysStep ==
  ASSUME MonitorInv, NEW t \in Threads, Step(t)
  PROVE  KeysAreDepths'
<1>0. KeysAreDepths /\ buffer_ll \in Seq(BufferNodes)
  BY DEF MonitorInv, TypeOK, BufferNodes
<1>1. CASE UNCHANGED buffer_ll
  BY <1>0, <1>1 DEF KeysAreDepths
<1>2. CASE Prepend(t)
  <2> DEFINE key == IF buffer_ll = <<>> THEN 0 ELSE Head(buffer_ll).key - 1
             node == [key |-> key, data |-> <<t, calls[t] + 1>>]
  <2>1. key = 0 - Len(buffer_ll)
    BY <1>0 DEF KeysAreDepths
  <2>2. buffer_ll' = <<node>> \o buffer_ll /\ node.key = key
    BY <1>2 DEF Prepend
  <2> HIDE DEF node, key
  <2>3. /\ Len(buffer_ll') = Len(buffer_ll) + 1 /\ DOMAIN buffer_ll' = 1 .. Len(buffer_ll')
        /\ buffer_ll'[1] = node
        /\ \A i \in DOMAIN buffer_ll' : i # 1 => i - 1 \in DOMAIN buffer_ll /\ buffer_ll'[i] = buffer_ll[i - 1]
    BY <1>0, <2>2
  <2>4. Len(buffer_ll) \in Nat
    BY <1>0
  <2> QED BY <2>1, <2>2, <2>3, <2>4, <1>0 DEF KeysAreDepths
<1>3. CASE RemoveHead(t)
  <2>1. buffer_ll # <<>> /\ buffer_ll' = Tail(buffer_ll)
    BY <1>3, ItemIsThere, BufferAssumption DEF RemoveHead, Goto
  <2>2. /\ Len(buffer_ll') = Len(buffer_ll) - 1 /\ DOMAIN buffer_ll' = 1 .. Len(buffer_ll')
        /\ \A i \in DOMAIN buffer_ll' : i + 1 \in DOMAIN buffer_ll /\ buffer_ll'[i] = buffer_ll[i + 1]
    BY <1>0, <2>1
  <2> QED BY <1>0, <2>2 DEF KeysAreDepths
<1>4. CASE Call(t) \/ Lock(t) \/ Wait(t) \/ Pass(t) \/ WaitSpin(t) \/ WaitUnlock(t) \/ WaitSleep(t)
  BY <1>1, <1>4 DEF Call, Lock, Wait, Pass, WaitSpin, WaitUnlock, WaitSleep
<1>5. CASE WaitWoken(t) \/ WaitRelock(t) \/ Count(t) \/ Signal(t) \/ Unlock(t)
  BY <1>1, <1>5 DEF WaitWoken, WaitRelock, Count, Signal, Unlock
<1> QED BY <1>2, <1>3, <1>4, <1>5 DEF Step

\* Every step keeps MonitorInv.
LEMMA MonitorStep ==
  ASSUME MonitorInv, [Next]_vars
  PROVE  MonitorInv'
<1>1. ASSUME NEW t \in Threads, Step(t) PROVE MonitorInv'
  BY <1>1, TypeStep, OwnerStep, SpinStep, ChannelStep, TestStep, LengthStep, KeysStep DEF MonitorInv
<1>2. CASE UNCHANGED vars
  BY <1>2 DEF MonitorInv, vars, TypeOK, NoPanic, OwnerInv, SpinInv, ChannelInv, TestInv, MustWait,
              LengthInv, KeysAreDepths
<1> QED BY <1>1, <1>2 DEF Next

-----------------------------------------------------------------------------
(***************************************************************************)
(* The sleepers.  A thread enters Alert when it changes what is wanted and *)
(* leaves it by signalling, which puts the sleeper it wakes in its place.  *)
(***************************************************************************)
LEMMA AlertIsFinite ==
  ASSUME NEW cv \in CVs
  PROVE  /\ IsFiniteSet(Alert(Side(cv)))
         /\ IsFiniteSet(Alert(Side(cv))')
         /\ Cardinality(Alert(Side(cv))) \in Nat
         /\ Cardinality(Alert(Side(cv))') \in Nat
<1>1. Alert(Side(cv)) \subseteq Threads /\ Alert(Side(cv))' \subseteq Threads
  BY DEF Alert, Side, Threads
<1> QED BY <1>1, BufferAssumption, FS_Subset, FS_CardinalityType

\* The condition variable of a side is the one its threads sleep on.
LEMMA Sides ==
  ASSUME NEW cv \in CVs, NEW t \in Threads
  PROVE  /\ t \in Side(cv) <=> MyCV(t) = cv
         /\ t \notin Side(cv) <=> OtherCV(t) = cv
BY BufferAssumption DEF CVs, Side, MyCV, OtherCV, Threads

\* Steps that leave count alone and take nobody out of Alert.
LEMMA SleepersKept ==
  ASSUME NEW cv \in CVs, Waiting(cv) => Wanted(cv) <= Cardinality(Alert(Side(cv))),
         MonitorInv, UNCHANGED count, Waiting(cv)' => Waiting(cv),
         Alert(Side(cv)) \subseteq Alert(Side(cv))'
  PROVE  Waiting(cv)' => Wanted(cv)' <= Cardinality(Alert(Side(cv))')
<1>1. Wanted(cv)' = Wanted(cv) /\ Wanted(cv) \in Int
  BY BufferAssumption DEF Wanted, MonitorInv, TypeOK
<1>2. Cardinality(Alert(Side(cv))) <= Cardinality(Alert(Side(cv))')
  BY AlertIsFinite, CardWithin
<1> QED BY <1>1, <1>2, AlertIsFinite

\* Every step leaves somebody awake for each free slot and each item.
LEMMA SleeperStep ==
  ASSUME MonitorInv, SleeperInv, NEW t \in Threads, Step(t), NEW cv \in CVs
  PROVE  Waiting(cv)' => Wanted(cv)' <= Cardinality(Alert(Side(cv))')
<1> DEFINE A == Alert(Side(cv))
           B0 == Alert(Side(cv))'
<1>0. /\ Waiting(cv) => Wanted(cv) <= Cardinality(A)
      /\ pc \in [Threads -> Labels] /\ cv_wchan \in [CVs -> Seq(Threads)]
      /\ count \in 0 .. BUFFER_SIZE /\ BUFFER_SIZE \in Nat
      /\ Side(cv) \subseteq Threads
  BY BufferAssumption DEF MonitorInv, TypeOK, SleeperInv, Side, Threads
<1>1. CASE Call(t) \/ Lock(t) \/ WaitWoken(t) \/ WaitRelock(t) \/ WaitSpin(t)
  <2>1. UNCHANGED count /\ (Waiting(cv)' => Waiting(cv))
    BY <1>0, <1>1 DEF Call, Lock, WaitWoken, WaitRelock, WaitSpin, Goto, Waiting
  <2>2. A \subseteq B0
    BY <1>0, <1>1 DEF Call, Lock, WaitWoken, WaitRelock, WaitSpin, Goto, Alert
  <2> QED BY <1>0, <2>1, <2>2, SleepersKept
<1>2. CASE Pass(t) \/ Unlock(t) \/ WaitUnlock(t)
  <2>1. UNCHANGED count /\ (Waiting(cv)' => Waiting(cv))
    BY <1>0, <1>2, NoKassertFails DEF Pass, Unlock, WaitUnlock, Goto, Waiting
  <2>2. A \subseteq B0
    BY <1>0, <1>2, NoKassertFails DEF Goto, Alert
  <2> QED BY <1>0, <2>1, <2>2, SleepersKept
<1>3. CASE Prepend(t) \/ RemoveHead(t)
  <2>1. UNCHANGED count /\ (Waiting(cv)' => Waiting(cv))
    BY <1>0, <1>3 DEF Prepend, RemoveHead, Goto, Waiting
  <2>2. A \subseteq B0
    BY <1>0, <1>3 DEF Prepend, RemoveHead, Goto, Alert
  <2> QED BY <1>0, <2>1, <2>2, SleepersKept
<1>4. CASE WaitSleep(t)
  <2>1. UNCHANGED count /\ (Waiting(cv)' => Waiting(cv))
    <3>1. CASE t \in Side(cv)
      BY <1>0, <1>4, <3>1 DEF WaitSleep, Goto, Waiting
    <3>2. CASE t \notin Side(cv)
      <4>1. MyCV(t) # cv
        BY <3>2, Sides
      <4> QED BY <1>0, <1>4, <3>2, <4>1 DEF WaitSleep, Goto, Waiting
    <3> QED BY <3>1, <3>2
  <2>2. A \subseteq B0
    BY <1>0, <1>4 DEF WaitSleep, Goto, Alert
  <2> QED BY <1>0, <2>1, <2>2, SleepersKept
<1>5. CASE Wait(t)
  <2>1. pc[t] = "test" /\ pc' = [pc EXCEPT ![t] = "wspin"] /\ UNCHANGED <<count, cv_wchan>> /\ MustWait(t)
    BY <1>5, NoKassertFails DEF Wait, Goto
  <2>2. CASE t \in Side(cv)
    <3>1. Wanted(cv)' = 0
      BY <1>0, <2>1, <2>2, BufferAssumption DEF MustWait, Wanted, Side
    <3> QED BY <3>1, AlertIsFinite
  <2>3. CASE t \notin Side(cv)
    <3>1. Waiting(cv)' => Waiting(cv)
      BY <1>0, <2>1, <2>3 DEF Waiting
    <3>2. A \subseteq B0
      BY <1>0, <2>1, <2>3 DEF Alert
    <3> QED BY <1>0, <2>1, <3>1, <3>2, SleepersKept
  <2> QED BY <2>2, <2>3
<1>6. CASE Count(t)
  <2>1. /\ pc[t] = "count" /\ pc' = [pc EXCEPT ![t] = "signal"] /\ UNCHANGED cv_wchan
        /\ count' = IF t \in Producers THEN count + 1 ELSE count - 1
    BY <1>6 DEF Count, Goto
  <2>2. Waiting(cv)' => Waiting(cv)
    BY <1>0, <2>1 DEF Waiting
  <2>3. CASE t \in Side(cv)
    <3>1. Wanted(cv)' = Wanted(cv) - 1 /\ Wanted(cv) \in Int
      BY <1>0, <2>1, <2>3, BufferAssumption DEF Wanted, Side
    <3>2. A \subseteq B0 \cup {t}
      BY <1>0, <2>1 DEF Alert
    <3>3. Cardinality(A) <= Cardinality(B0) + 1
      BY <3>2, AlertIsFinite, CardGrows
    <3> QED BY <1>0, <2>2, <3>1, <3>3, AlertIsFinite
  <2>4. CASE t \notin Side(cv)
    <3>1. Wanted(cv)' = Wanted(cv) + 1 /\ Wanted(cv) \in Int
      BY <1>0, <2>1, <2>4, BufferAssumption DEF Wanted, Side, Threads, CVs
    <3>2. t \in B0 /\ A \subseteq B0 \ {t}
      BY <1>0, <2>1, <2>4 DEF Alert
    <3>3. Cardinality(A) <= Cardinality(B0) - 1
      BY <3>2, AlertIsFinite, CardShrinks
    <3> QED BY <1>0, <2>2, <3>1, <3>3, AlertIsFinite
  <2> QED BY <2>3, <2>4
<1>7. CASE Signal(t)
  <2>0. pc[t] = "signal" /\ UNCHANGED count /\ cv_spin[OtherCV(t)] = NoThread
    BY <1>7, SignalWakes
  <2>1. CASE SignalNobody(t) /\ t \notin Side(cv)
    <3>1. OtherCV(t) = cv
      BY <2>1, Sides
    <3>2. \A u \in Side(cv) : pc[u] \notin {"wspin", "wunlock"}
      BY <1>0, <2>0, <2>1 DEF MonitorInv, OwnerInv, Holding
    <3>3. \A u \in Side(cv) : pc[u] # "wsleep"
      BY <1>0, <2>0, <3>1, Sides, BufferAssumption DEF MonitorInv, SpinInv, Spinning
    <3>4. ~Waiting(cv)'
      BY <1>0, <2>1, <3>1, <3>2, <3>3 DEF Waiting, SignalNobody
    <3> QED BY <3>4
  <2>2. CASE SignalNobody(t) /\ t \in Side(cv)
    <3>1. Waiting(cv)' => Waiting(cv)
      BY <1>0, <2>2 DEF Waiting, SignalNobody
    <3>2. A \subseteq B0
      BY <1>0, <2>0, <2>2 DEF Alert, SignalNobody
    <3> QED BY <1>0, <2>0, <3>1, <3>2, SleepersKept
  <2>3. ASSUME NEW w \in Threads, SignalOne(t, w)
        PROVE  Waiting(cv)' => Wanted(cv)' <= Cardinality(Alert(Side(cv))')
    <3>0. /\ pc' = [pc EXCEPT ![t] = "unlock", ![w] = "woken"] /\ w # t /\ pc[w] = "asleep"
          /\ MyCV(w) = OtherCV(t)
          /\ cv_wchan' = [cv_wchan EXCEPT ![OtherCV(t)] = Tail(@)]
          /\ cv_wchan[OtherCV(t)] # <<>>
      BY <2>3 DEF SignalOne
    <3>1. Waiting(cv)' => Waiting(cv)
      BY <1>0, <3>0 DEF Waiting
    <3>2. CASE t \in Side(cv)
      <4>1. A \subseteq B0
        BY <1>0, <2>0, <3>0, <3>2 DEF Alert
      <4> QED BY <1>0, <2>0, <3>1, <4>1, SleepersKept
    <3>3. CASE t \notin Side(cv)
      <4>1. w \in Side(cv)
        BY <3>0, <3>3, Sides
      <4>2. w \in B0 /\ A \ {t} \subseteq B0 \ {w}
        BY <1>0, <3>0, <4>1 DEF Alert
      <4>3. IsFiniteSet(A \ {t}) /\ Cardinality(A \ {t}) <= Cardinality(B0) - 1
        BY <4>2, AlertIsFinite, CardShrinks
      <4>4. A \subseteq (A \ {t}) \cup {t}
        OBVIOUS
      <4>5. Cardinality(A) <= Cardinality(A \ {t}) + 1
        BY <4>3, <4>4, CardGrows
      <4>6. Cardinality(A \ {t}) \in Nat
        BY <4>3, FS_CardinalityType
      <4>7. Wanted(cv)' = Wanted(cv) /\ Wanted(cv) \in Int
        BY <1>0, <2>0 DEF Wanted
      <4> QED BY <1>0, <3>1, <4>3, <4>5, <4>6, <4>7, AlertIsFinite
    <3> QED BY <3>2, <3>3
  <2> QED BY <1>7, <2>1, <2>2, <2>3, SignalWakes
<1> QED BY <1>1, <1>2, <1>3, <1>4, <1>5, <1>6, <1>7 DEF Step

-----------------------------------------------------------------------------
(***************************************************************************)
(* The theorems.                                                           *)
(***************************************************************************)
BufferInv == MonitorInv /\ SleeperInv

\* The invariant of produce, consume, cv_wait and cv_signal as they interleave.
THEOREM BufferInvariant == Spec => []BufferInv
<1>1. Init => BufferInv
  <2> SUFFICES ASSUME Init PROVE BufferInv
    OBVIOUS
  <2>1. \A cv \in CVs : ~Waiting(cv)
    BY DEF Init, Waiting, CVs, Side, Threads
  <2> QED BY <2>1, InitMonitor DEF BufferInv, SleeperInv
<1>2. BufferInv /\ [Next]_vars => BufferInv'
  <2> SUFFICES ASSUME BufferInv, [Next]_vars PROVE BufferInv'
    OBVIOUS
  <2>1. MonitorInv'
    BY MonitorStep DEF BufferInv
  <2>2. ASSUME NEW t \in Threads, Step(t) PROVE SleeperInv'
    BY <2>2, SleeperStep DEF BufferInv, SleeperInv
  <2>3. CASE UNCHANGED vars
    <3>1. /\ \A cv \in CVs : (Waiting(cv)' <=> Waiting(cv)) /\ Wanted(cv)' = Wanted(cv)
          /\ \A cv \in CVs : Alert(Side(cv))' = Alert(Side(cv))
      BY <2>3 DEF Waiting, Wanted, Alert, vars
    <3>2. ASSUME NEW cv \in CVs PROVE Waiting(cv)' => Wanted(cv)' <= Cardinality(Alert(Side(cv))')
      BY <3>1 DEF BufferInv, SleeperInv
    <3> QED BY <2>1, <3>2 DEF SleeperInv, BufferInv
  <2> QED BY <2>1, <2>2, <2>3 DEF Next, BufferInv
<1> QED BY <1>1, <1>2, PTL DEF Spec

\* No thread is forgotten on a condition variable: while producers (consumers) sleep,
\* every free slot (item) has an awake thread on its way to it.
THEOREM SleepersRemembered == Spec => []NoForgottenSleeper
<1>1. BufferInv => NoForgottenSleeper
  BY DEF BufferInv, SleeperInv, NoForgottenSleeper, Waiting, Wanted, Side, CVs
<1> QED BY <1>1, BufferInvariant, PTL

\* count is the length of the list but for the one thread between the two updates.
THEOREM CountIsLength == Spec => []CountTracksList
<1>1. BufferInv => CountTracksList
  <2> SUFFICES ASSUME BufferInv PROVE CountTracksList
    OBVIOUS
  <2> DEFINE P == {p \in Producers : pc[p] = "count"}
             C == {c \in Consumers : pc[c] = "count"}
  <2>0. /\ TypeOK /\ LengthInv /\ Threads = Producers \cup Consumers
        /\ Producers \cap Consumers = {}
        /\ count \in Nat /\ Len(buffer_ll) \in Nat
    BY BufferAssumption DEF BufferInv, MonitorInv, TypeOK, Threads
  <2>1. \A t, u \in Threads : pc[t] = "count" /\ pc[u] = "count" => t = u
    BY DEF BufferInv, MonitorInv, OwnerInv, Holding
  <2>2. CASE \A t \in Threads : pc[t] # "count"
    <3>1. P = {} /\ C = {}
      BY <2>0, <2>2
    <3>2. Cardinality(P) = 0 /\ Cardinality(C) = 0
      BY <3>1, FS_EmptySet
    <3> QED BY <2>0, <2>2, <3>2 DEF CountTracksList, LengthInv
  <2>3. ASSUME NEW t \in Producers, pc[t] = "count" PROVE CountTracksList
    <3>1. P = {t} /\ C = {}
      BY <2>0, <2>1, <2>3
    <3>2. Cardinality(P) = 1 /\ Cardinality(C) = 0
      BY <3>1, FS_EmptySet, FS_Singleton
    <3> QED BY <2>0, <2>3, <3>2 DEF CountTracksList, LengthInv
  <2>4. ASSUME NEW t \in Consumers, pc[t] = "count" PROVE CountTracksList
    <3>1. P = {} /\ C = {t}
      BY <2>0, <2>1, <2>4
    <3>2. Cardinality(P) = 0 /\ Cardinality(C) = 1
      BY <3>1, FS_EmptySet, FS_Singleton
    <3> QED BY <2>0, <2>4, <3>2 DEF CountTracksList, LengthInv
  <2> QED BY <2>0, <2>2, <2>3, <2>4
<1> QED BY <1>1, BufferInvariant, PTL

\* The keys linked_list_prepend hands out are the depths of the nodes.
THEOREM KeysNeverUnderflow == Spec => []KeysAreDepths
<1>1. BufferInv => KeysAreDepths
  BY DEF BufferInv, MonitorInv
<1> QED BY <1>1, BufferInvariant, PTL

\* No KASSERT of the monitor fails.
THEOREM KassertsHold == Spec => []NoPanic
<1>1. BufferInv => NoPanic
  BY DEF BufferInv, MonitorInv
<1> QED BY <1>1, BufferInvariant, PTL

\* The items of the list, first to last.
Contents == [i \in DOMAIN buffer_ll |-> buffer_ll[i].data]

\* The items are the data of the nodes.
LEMMA ItemsType ==
  ASSUME buffer_ll \in Seq(BufferNodes)
  PROVE  /\ Contents \in Seq(Producers \X Nat) /\ Len(Contents) = Len(buffer_ll)
         /\ buffer_ll # <<>> => Contents # <<>> /\ Head(Contents) = Head(buffer_ll).data
<1>1. \A i \in DOMAIN buffer_ll : buffer_ll[i] \in BufferNodes
  OBVIOUS
<1>2. \A i \in DOMAIN buffer_ll : buffer_ll[i].data \in Producers \X Nat
  BY <1>1 DEF BufferNodes
<1>3. Contents \in Seq(Producers \X Nat) /\ Len(Contents) = Len(buffer_ll)
  BY <1>2 DEF Contents
<1>4. buffer_ll # <<>> => Contents # <<>> /\ Head(Contents) = Head(buffer_ll).data
  BY <1>2, <1>3 DEF Contents
<1> QED BY <1>3, <1>4

\* The same after a step.
LEMMA ItemsTypePrime ==
  ASSUME buffer_ll' \in Seq(BufferNodes)
  PROVE  Contents' \in Seq(Producers \X Nat) /\ Len(Contents') = Len(buffer_ll')
<1>1. \A i \in DOMAIN buffer_ll' : buffer_ll'[i] \in BufferNodes
  OBVIOUS
<1>2. \A i \in DOMAIN buffer_ll' : buffer_ll'[i].data \in Producers \X Nat
  BY <1>1 DEF BufferNodes
<1> QED BY <1>2 DEF Contents

\* Prepending a node prepends its item, removing the first node removes its item.
LEMMA ItemsPrepend ==
  ASSUME buffer_ll \in Seq(BufferNodes), NEW node \in BufferNodes, buffer_ll' = <<node>> \o buffer_ll
  PROVE  Contents' = <<node.data>> \o Contents
<1>1. buffer_ll' \in Seq(BufferNodes) /\ Len(buffer_ll') = Len(buffer_ll) + 1
  OBVIOUS
<1>2. Contents \in Seq(Producers \X Nat) /\ Len(Contents) = Len(buffer_ll)
  BY ItemsType
<1>3. \A i \in 1 .. Len(buffer_ll') :
        buffer_ll'[i] = IF i = 1 THEN node ELSE buffer_ll[i - 1]
  OBVIOUS
<1>4. \A i \in 1 .. Len(buffer_ll') :
        Contents'[i] = IF i = 1 THEN node.data ELSE Contents[i - 1]
  BY <1>1, <1>3 DEF Contents
<1>5. node.data \in Producers \X Nat
  BY DEF BufferNodes
<1>6. Contents' \in Seq(Producers \X Nat) /\ Len(Contents') = Len(buffer_ll) + 1
  BY <1>1, ItemsTypePrime
<1> DEFINE r == <<node.data>> \o Contents
<1>7. r \in Seq(Producers \X Nat) /\ Len(r) = Len(buffer_ll) + 1
  BY <1>2, <1>5
<1>8. \A i \in 1 .. Len(r) : r[i] = IF i = 1 THEN node.data ELSE Contents[i - 1]
  BY <1>2, <1>5
<1> HIDE DEF r
<1>9. Len(Contents') = Len(r) /\ \A i \in 1 .. Len(Contents') : Contents'[i] = r[i]
  BY <1>1, <1>4, <1>6, <1>7, <1>8
<1>10. Contents' = r
  BY <1>6, <1>7, <1>9, SeqEqual, Zenon
<1> QED BY <1>10 DEF r

\* Removing the first node removes the first item.
LEMMA ItemsRemove ==
  ASSUME buffer_ll \in Seq(BufferNodes), buffer_ll # <<>>, buffer_ll' = Tail(buffer_ll)
  PROVE  Contents' = Tail(Contents)
<1>1. buffer_ll' \in Seq(BufferNodes) /\ Len(buffer_ll') = Len(buffer_ll) - 1
  OBVIOUS
<1>2. Contents \in Seq(Producers \X Nat) /\ Len(Contents) = Len(buffer_ll)
  BY ItemsType
<1>3. \A i \in 1 .. Len(buffer_ll') : Contents'[i] = Contents[i + 1]
  BY <1>1 DEF Contents
<1>4. Contents' \in Seq(Producers \X Nat) /\ Len(Contents') = Len(buffer_ll')
  BY <1>1, ItemsTypePrime
<1>5. /\ Tail(Contents) \in Seq(Producers \X Nat) /\ Len(Tail(Contents)) = Len(buffer_ll')
      /\ \A i \in 1 .. Len(buffer_ll') : Tail(Contents)[i] = Contents[i + 1]
  BY <1>1, <1>2
<1>6. Len(Contents') = Len(Tail(Contents)) /\ \A i \in 1 .. Len(Contents') : Contents'[i] = Tail(Contents)[i]
  BY <1>3, <1>4, <1>5
<1> QED BY <1>4, <1>5, <1>6, SeqEqual, Zenon

\* The monitor implements a bounded stack: however the threads interleave, produce is
\* one atomic push (in linked_list_prepend) and consume one atomic pop.
THEOREM MonitorIsStack == Spec => ImplementsStack
<1>1. Init => B!StackInit
  BY DEF Init, B!StackInit, Threads
<1>2. BufferInv /\ [Next]_vars => [B!StackNext]_(B!stackVars)
  <2> SUFFICES ASSUME BufferInv, [Next]_vars PROVE [B!StackNext]_(B!stackVars)
    OBVIOUS
  <2>0. /\ buffer_ll \in Seq(BufferNodes) /\ MonitorInv /\ calls \in [Threads -> Nat]
        /\ got \in [Consumers -> Seq(Producers \X Nat)]
    BY DEF BufferInv, MonitorInv, TypeOK, BufferNodes
  <2>1. CASE UNCHANGED <<buffer_ll, calls, got>>
    BY <2>1 DEF B!stackVars
  <2>2. ASSUME NEW t \in Threads, Prepend(t) PROVE B!StackNext
    <3> DEFINE key == IF buffer_ll = <<>> THEN 0 ELSE Head(buffer_ll).key - 1
               node == [key |-> key, data |-> <<t, calls[t] + 1>>]
               Put == [p \in Producers |-> calls[p]]
    <3>1. /\ t \in Producers /\ pc[t] = "move" /\ buffer_ll' = <<node>> \o buffer_ll
          /\ calls' = [calls EXCEPT ![t] = @ + 1] /\ UNCHANGED got
      BY <2>2 DEF Prepend, Goto
    <3>2. buffer_ll # <<>> => Head(buffer_ll) \in BufferNodes
      BY <2>0
    <3>3. key \in Int
      BY <3>2 DEF BufferNodes
    <3>4. node \in BufferNodes /\ node.data = <<t, calls[t] + 1>>
      BY <2>0, <3>1, <3>3 DEF BufferNodes
    <3> HIDE DEF node
    <3>5. Contents' = <<<<t, calls[t] + 1>>>> \o Contents
      BY <2>0, <3>1, <3>4, ItemsPrepend
    <3>6. Len(Contents) < BUFFER_SIZE
      BY <2>0, <3>1, ItemIsThere, ItemsType
    <3>7. Put' = [Put EXCEPT ![t] = @ + 1] /\ Put[t] = calls[t]
      BY <2>0, <3>1 DEF Threads
    <3>8. B!Put(t)
      BY <3>1, <3>5, <3>6, <3>7 DEF B!Put, Contents
    <3> QED BY <3>1, <3>8 DEF B!StackNext
  <2>3. ASSUME NEW t \in Threads, RemoveHead(t) PROVE B!StackNext
    <3> DEFINE Put == [p \in Producers |-> calls[p]]
    <3>1. t \in Consumers /\ t \notin Producers /\ pc[t] = "move" /\ calls' = [calls EXCEPT ![t] = @ + 1]
      BY <2>3, BufferAssumption DEF RemoveHead, Goto
    <3>2. buffer_ll # <<>>
      BY <2>0, <3>1, ItemIsThere
    <3>3. buffer_ll' = Tail(buffer_ll) /\ got' = [got EXCEPT ![t] = Append(@, Head(buffer_ll).data)]
      BY <2>3, <3>2 DEF RemoveHead
    <3>4. Contents' = Tail(Contents) /\ Contents # <<>> /\ Head(Contents) = Head(buffer_ll).data
      BY <2>0, <3>2, <3>3, ItemsRemove, ItemsType
    <3>5. Put' = Put
      BY <2>0, <3>1 DEF Threads
    <3>6. B!Get(t)
      BY <3>3, <3>4, <3>5 DEF B!Get, Contents
    <3> QED BY <3>1, <3>6 DEF B!StackNext
  <2>4. ASSUME NEW t \in Threads, Step(t), ~Prepend(t), ~RemoveHead(t)
        PROVE  UNCHANGED <<buffer_ll, calls, got>>
    BY <2>4 DEF Step, Call, Lock, Wait, Pass, WaitSpin, WaitUnlock, WaitSleep, WaitWoken, WaitRelock,
                Count, Signal, Unlock
  <2>5. CASE UNCHANGED vars
    BY <2>1, <2>5 DEF vars
  <2> QED BY <2>1, <2>2, <2>3, <2>4, <2>5 DEF Next
<1> QED BY <1>1, <1>2, BufferInvariant, PTL DEF Spec, ImplementsStack, B!StackSpec
-----------------------------------------------------------------------------
(***************************************************************************)
(* The linked list.  The invariant is the sequence s of the nodes that its *)
(* pointers describe.                                                      *)
(***************************************************************************)
\* The node at place i, NULL beyond the ends.
At(s, i) == IF i \in DOMAIN s THEN s[i] ELSE NULL

Rep(h, f, l, n, s) ==
    /\ s \in Seq(Nodes) /\ Once(s) /\ n = Len(s)
    /\ \A x : x \in DOMAIN h <=> In(x, s)
    /\ h \in [DOMAIN h -> Node]
    /\ f = At(s, 1) /\ l = At(s, Len(s))
    /\ \A i \in DOMAIN s : h[s[i]].next = At(s, i + 1) /\ h[s[i]].prev = At(s, i - 1)
    /\ \A i, j \in DOMAIN s : i <= j => h[s[i]].key <= h[s[j]].key

ListInv == destroyed \in BOOLEAN /\ \E s : Rep(heap, first, last, length, s)

\* s with x at place j + 1, and s without what is at place j.
With(s, j, x) == [i \in 1 .. Len(s) + 1 |-> IF i <= j THEN s[i] ELSE IF i = j + 1 THEN x ELSE s[i - 1]]
Without(s, j) == [i \in 1 .. Len(s) - 1 |-> IF i < j THEN s[i] ELSE s[i + 1]]

\* The places of s after x has been put into it.
LEMMA WithFacts ==
  ASSUME NEW S, NEW s \in Seq(S), NEW x \in S, NEW j \in 0 .. Len(s)
  PROVE  /\ With(s, j, x) \in Seq(S) /\ Len(With(s, j, x)) = Len(s) + 1
         /\ DOMAIN With(s, j, x) = 1 .. Len(s) + 1
         /\ \A y : In(y, With(s, j, x)) <=> In(y, s) \/ y = x
         /\ Once(s) /\ ~In(x, s) => Once(With(s, j, x))
<1> DEFINE r == With(s, j, x)
<1>1. Len(s) \in Nat /\ DOMAIN s = 1 .. Len(s) /\ \A i \in DOMAIN s : s[i] \in S
  OBVIOUS
<1>2. DOMAIN r = 1 .. Len(s) + 1 /\ \A i \in 1 .. Len(s) + 1 : r[i] = IF i <= j THEN s[i] ELSE IF i = j + 1 THEN x ELSE s[i - 1]
  BY DEF With
<1>3. \A i \in 1 .. Len(s) + 1 : r[i] \in S
  BY <1>1, <1>2
<1>4. r \in Seq(S) /\ Len(r) = Len(s) + 1
  <2>1. r \in [1 .. Len(s) + 1 -> S]
    BY <1>3 DEF With
  <2> HIDE DEF r
  <2>2. Len(s) + 1 \in Nat
    BY <1>1
  <2> QED BY <1>1, <1>2, <2>1, <2>2
<1> HIDE DEF r
<1>5. \A i \in DOMAIN s : \E k \in DOMAIN r : r[k] = s[i]
  <2> TAKE i \in DOMAIN s
  <2>1. CASE i <= j
    BY <1>1, <1>2, <2>1
  <2>2. CASE ~(i <= j)
    <3>1. i + 1 \in DOMAIN r /\ ~(i + 1 <= j) /\ i + 1 # j + 1 /\ (i + 1) - 1 = i
      BY <1>1, <1>2, <2>2
    <3>2. r[i + 1] = s[i]
      BY <1>2, <3>1
    <3> QED BY <3>1, <3>2
  <2> QED BY <2>1, <2>2
<1>6. j + 1 \in DOMAIN r /\ r[j + 1] = x
  BY <1>1, <1>2
<1>7. \A i \in DOMAIN r : i = j + 1 \/ (IF i <= j THEN i ELSE i - 1) \in DOMAIN s
  BY <1>1, <1>2
<1>8. \A i \in DOMAIN r : i # j + 1 => r[i] = s[IF i <= j THEN i ELSE i - 1]
  BY <1>2
<1>9. \A y : In(y, r) <=> In(y, s) \/ y = x
  BY <1>5, <1>6, <1>7, <1>8 DEF In
<1>10. ASSUME Once(s), ~In(x, s), NEW a \in DOMAIN r, NEW b \in DOMAIN r, r[a] = r[b] PROVE a = b
  <2> DEFINE g(i) == IF i <= j THEN i ELSE i - 1
  <2>1. CASE a = j + 1 \/ b = j + 1
    BY <1>6, <1>7, <1>8, <1>10, <2>1 DEF In
  <2>2. CASE a # j + 1 /\ b # j + 1
    <3>1. g(a) \in DOMAIN s /\ g(b) \in DOMAIN s /\ s[g(a)] = s[g(b)]
      BY <1>7, <1>8, <1>10, <2>2
    <3>2. g(a) = g(b)
      BY <1>10, <3>1, Zenon DEF Once
    <3> QED BY <1>1, <1>2, <1>10, <2>2, <3>2
  <2> QED BY <2>1, <2>2
<1>11. Once(s) /\ ~In(x, s) => Once(r)
  BY <1>10 DEF Once
<1> QED BY <1>2, <1>4, <1>9, <1>11 DEF r

\* The places of s after what is at place j has been taken out of it.
LEMMA WithoutFacts ==
  ASSUME NEW S, NEW s \in Seq(S), NEW j \in DOMAIN s
  PROVE  /\ Without(s, j) \in Seq(S) /\ Len(Without(s, j)) = Len(s) - 1
         /\ DOMAIN Without(s, j) = 1 .. Len(s) - 1
         /\ Once(s) => /\ Once(Without(s, j))
                       /\ \A y : In(y, Without(s, j)) <=> In(y, s) /\ y # s[j]
<1> DEFINE r == Without(s, j)
           g(i) == IF i < j THEN i ELSE i + 1
<1>1. Len(s) \in Nat /\ Len(s) # 0 /\ DOMAIN s = 1 .. Len(s) /\ \A i \in DOMAIN s : s[i] \in S
  OBVIOUS
<1>2. DOMAIN r = 1 .. Len(s) - 1 /\ \A i \in 1 .. Len(s) - 1 : r[i] = s[g(i)]
  BY DEF Without
<1>3. \A i \in 1 .. Len(s) - 1 : g(i) \in DOMAIN s /\ g(i) # j
  BY <1>1
<1>4. r \in Seq(S) /\ Len(r) = Len(s) - 1
  <2>1. r = [i \in 1 .. Len(s) - 1 |-> s[g(i)]]
    BY DEF Without
  <2> HIDE DEF r
  <2> DEFINE n == Len(s) - 1
  <2>2. r \in [1 .. n -> S] /\ n \in Nat
    BY <1>1, <1>3, <2>1
  <2> HIDE DEF n
  <2>3. r \in Seq(S) /\ Len(r) = n
    BY <2>2
  <2> QED BY <2>3 DEF n
<1> HIDE DEF r
<1>5. \A i \in DOMAIN s : i # j => \E k \in DOMAIN r : g(k) = i
  <2> SUFFICES ASSUME NEW i \in DOMAIN s, i # j PROVE \E k \in DOMAIN r : g(k) = i
    OBVIOUS
  <2>1. CASE i < j
    BY <1>1, <1>2, <2>1
  <2>2. CASE ~(i < j)
    <3>1. i - 1 \in DOMAIN r /\ g(i - 1) = i
      BY <1>1, <1>2, <2>2
    <3> QED BY <3>1
  <2> QED BY <2>1, <2>2
<1>6. \A a, b \in DOMAIN r : g(a) = g(b) => a = b
  BY <1>1, <1>2
<1> HIDE DEF g
<1>7. ASSUME Once(s) PROVE Once(r)
  <2>1. ASSUME NEW a \in DOMAIN r, NEW b \in DOMAIN r, r[a] = r[b] PROVE a = b
    <3>1. g(a) = g(b)
      BY <1>2, <1>3, <1>7, <2>1 DEF Once
    <3> QED BY <1>6, <3>1
  <2> QED BY <2>1 DEF Once
<1>8. ASSUME Once(s), NEW y PROVE In(y, r) <=> In(y, s) /\ y # s[j]
  <2>1. ASSUME In(y, r) PROVE In(y, s) /\ y # s[j]
    BY <1>2, <1>3, <1>8, <2>1 DEF In, Once
  <2>2. ASSUME In(y, s), y # s[j] PROVE In(y, r)
    BY <1>2, <1>5, <2>2 DEF In
  <2> QED BY <2>1, <2>2
<1> QED BY <1>2, <1>4, <1>7, <1>8 DEF r

\* What stands at a place after a change.
LEMMA AtWith ==
  ASSUME NEW S, NEW s \in Seq(S), NEW x \in S, NEW j \in 0 .. Len(s), NEW i \in Int
  PROVE  At(With(s, j, x), i) = IF i <= j THEN At(s, i) ELSE IF i = j + 1 THEN x ELSE At(s, i - 1)
<1>1. Len(s) \in Nat /\ DOMAIN s = 1 .. Len(s)
  OBVIOUS
<1>2. /\ DOMAIN With(s, j, x) = 1 .. Len(s) + 1
      /\ \A a \in 1 .. Len(s) + 1 : With(s, j, x)[a] = IF a <= j THEN s[a] ELSE IF a = j + 1 THEN x ELSE s[a - 1]
  BY DEF With
<1>3. CASE i \in 1 .. Len(s) + 1
  BY <1>1, <1>2, <1>3 DEF At
<1>4. CASE i \notin 1 .. Len(s) + 1
  BY <1>1, <1>2, <1>4 DEF At
<1> QED BY <1>3, <1>4

LEMMA AtWithout ==
  ASSUME NEW S, NEW s \in Seq(S), NEW j \in DOMAIN s, NEW i \in Int
  PROVE  At(Without(s, j), i) = IF i < j THEN At(s, i) ELSE At(s, i + 1)
<1>1. Len(s) \in Nat /\ DOMAIN s = 1 .. Len(s)
  OBVIOUS
<1>2. /\ DOMAIN Without(s, j) = 1 .. Len(s) - 1
      /\ \A a \in 1 .. Len(s) - 1 : Without(s, j)[a] = IF a < j THEN s[a] ELSE s[a + 1]
  BY DEF Without
<1>3. CASE i \in 1 .. Len(s) - 1
  BY <1>1, <1>2, <1>3 DEF At
<1>4. CASE i \notin 1 .. Len(s) - 1
  BY <1>1, <1>2, <1>4 DEF At
<1> QED BY <1>3, <1>4

\* Only one place has a node, and no place has NULL.
LEMMA AtOnce ==
  ASSUME NEW s \in Seq(Nodes), Once(s), NEW i \in DOMAIN s, NEW j \in Int
  PROVE  At(s, i) = s[i] /\ s[i] # NULL /\ (s[i] = At(s, j) <=> i = j)
<1>1. s[i] \in Nodes /\ NULL \notin Nodes
  BY ListAssumption
<1> QED BY <1>1 DEF At, Once

\* What the places of a list that the pointers describe say.
LEMMA RepFacts ==
  ASSUME NEW h, NEW f, NEW l, NEW n, NEW s, Rep(h, f, l, n, s)
  PROVE  /\ s \in Seq(Nodes) /\ Once(s) /\ n = Len(s) /\ Len(s) \in Nat /\ DOMAIN s = 1 .. Len(s)
         /\ h \in [DOMAIN h -> Node] /\ DOMAIN h \subseteq Nodes
         /\ \A i \in DOMAIN s : s[i] \in DOMAIN h /\ h[s[i]].key \in Int /\ h[s[i]].data \in Data
         /\ f = NULL <=> Len(s) = 0
         /\ Len(s) # 0 => f = s[1] /\ l = s[Len(s)]
<1>1. s \in Seq(Nodes) /\ Once(s) /\ n = Len(s) /\ Len(s) \in Nat /\ DOMAIN s = 1 .. Len(s)
  BY DEF Rep
<1>2. h \in [DOMAIN h -> Node] /\ \A x : x \in DOMAIN h <=> In(x, s)
  BY DEF Rep
<1>3. DOMAIN h \subseteq Nodes
  BY <1>1, <1>2 DEF In
<1>4. \A i \in DOMAIN s : s[i] \in DOMAIN h
  BY <1>2 DEF In
<1>5. \A m \in DOMAIN h : h[m] \in Node
  BY <1>2
<1>6. \A m \in DOMAIN h : h[m].key \in Int /\ h[m].data \in Data
  BY <1>5 DEF Node
<1>7. f = At(s, 1) /\ l = At(s, Len(s))
  BY DEF Rep
<1>8. (f = NULL <=> Len(s) = 0) /\ (Len(s) # 0 => f = s[1] /\ l = s[Len(s)])
  <2>1. CASE Len(s) = 0
    BY <1>1, <1>7, <2>1 DEF At
  <2>2. CASE Len(s) # 0
    <3>1. 1 \in DOMAIN s /\ Len(s) \in DOMAIN s
      BY <1>1, <2>2
    <3>2. s[1] # NULL
      BY <1>1, <3>1, AtOnce
    <3> QED BY <1>7, <2>2, <3>1, <3>2 DEF At
  <2> QED BY <2>1, <2>2
<1> QED BY <1>1, <1>2, <1>3, <1>4, <1>6, <1>8

\* h2 is h with a new node behind place j, and without the one at place j, the keys of
\* the others being lower by c.
LinkedIn(h, s, j, x, k, d, h2) ==
    /\ h2 \in [DOMAIN h \cup {x} -> Node]
    /\ h2[x].next = At(s, j + 1) /\ h2[x].prev = At(s, j) /\ h2[x].key = k /\ h2[x].data = d
    /\ \A m \in DOMAIN h : /\ h2[m].next = IF m = At(s, j) THEN x ELSE h[m].next
                           /\ h2[m].prev = IF m = At(s, j + 1) THEN x ELSE h[m].prev
                           /\ h2[m].key = h[m].key /\ h2[m].data = h[m].data

LinkedOut(h, s, j, c, h2) ==
    /\ h2 \in [DOMAIN h \ {s[j]} -> Node]
    /\ \A m \in DOMAIN h \ {s[j]} : /\ h2[m].next = IF m = At(s, j - 1) THEN At(s, j + 1) ELSE h[m].next
                                    /\ h2[m].prev = IF m = At(s, j + 1) THEN At(s, j - 1) ELSE h[m].prev
                                    /\ h2[m].key = h[m].key - c /\ h2[m].data = h[m].data

\* A node is linked in behind place j.
LEMMA LinkIn ==
  ASSUME NEW h, NEW f, NEW l, NEW n, NEW s, Rep(h, f, l, n, s), NEW x \in Nodes, x \notin DOMAIN h,
         NEW k \in Int, NEW d \in Data, NEW j \in 0 .. Len(s),
         j # 0 => h[s[j]].key <= k, j # Len(s) => k <= h[s[j + 1]].key,
         NEW h2, LinkedIn(h, s, j, x, k, d, h2),
         NEW f2, f2 = IF j = 0 THEN x ELSE f, NEW l2, l2 = IF j = Len(s) THEN x ELSE l
  PROVE  Rep(h2, f2, l2, n + 1, With(s, j, x))
<1> DEFINE r == With(s, j, x)
           g(i) == IF i <= j THEN i ELSE i - 1
<1>1. /\ s \in Seq(Nodes) /\ Once(s) /\ n = Len(s) /\ Len(s) \in Nat /\ DOMAIN s = 1 .. Len(s)
      /\ h \in [DOMAIN h -> Node] /\ DOMAIN h \subseteq Nodes
      /\ \A i \in DOMAIN s : s[i] \in DOMAIN h /\ h[s[i]].key \in Int
  BY RepFacts
<1>2. /\ f = At(s, 1) /\ l = At(s, Len(s)) /\ (\A y : y \in DOMAIN h <=> In(y, s))
      /\ \A i \in DOMAIN s : h[s[i]].next = At(s, i + 1) /\ h[s[i]].prev = At(s, i - 1)
      /\ \A a, b \in DOMAIN s : a <= b => h[s[a]].key <= h[s[b]].key
  BY DEF Rep
<1>3. ~In(x, s)
  BY <1>2
<1>4. /\ r \in Seq(Nodes) /\ Len(r) = Len(s) + 1 /\ DOMAIN r = 1 .. Len(s) + 1 /\ Once(r)
      /\ \A y : In(y, r) <=> In(y, s) \/ y = x
  BY <1>1, <1>3, WithFacts
<1>5. \A i \in Int : At(r, i) = IF i <= j THEN At(s, i) ELSE IF i = j + 1 THEN x ELSE At(s, i - 1)
  BY <1>1, AtWith
<1>6. \A i \in DOMAIN r : i # j + 1 => g(i) \in DOMAIN s /\ r[i] = s[g(i)] /\ s[g(i)] # x
  <2>1. \A i \in DOMAIN r : i # j + 1 => g(i) \in DOMAIN s
    BY <1>1, <1>4
  <2>2. \A i \in DOMAIN r : i # j + 1 => r[i] = s[g(i)]
    BY <1>4 DEF With
  <2>3. \A i \in DOMAIN s : s[i] # x
    BY <1>3 DEF In
  <2> QED BY <2>1, <2>2, <2>3
<1>7. j + 1 \in DOMAIN r /\ r[j + 1] = x
  BY <1>1, <1>4 DEF With
<1> HIDE DEF r
<1>8. /\ DOMAIN h2 = DOMAIN h \cup {x} /\ h2 \in [DOMAIN h2 -> Node]
      /\ h2[x].next = At(s, j + 1) /\ h2[x].prev = At(s, j) /\ h2[x].key = k
      /\ \A m \in DOMAIN h : /\ h2[m].next = IF m = At(s, j) THEN x ELSE h[m].next
                             /\ h2[m].prev = IF m = At(s, j + 1) THEN x ELSE h[m].prev
                             /\ h2[m].key = h[m].key
  BY DEF LinkedIn
<1>9. \A y : y \in DOMAIN h2 <=> In(y, r)
  BY <1>2, <1>4, <1>8
<1>11. ASSUME NEW i \in DOMAIN r, i # j + 1
       PROVE  /\ h2[r[i]].next = IF g(i) = j THEN x ELSE At(s, g(i) + 1)
              /\ h2[r[i]].prev = IF g(i) = j + 1 THEN x ELSE At(s, g(i) - 1)
              /\ h2[r[i]].key = h[s[g(i)]].key
  <2> DEFINE e == g(i)
  <2>1. e \in DOMAIN s /\ r[i] = s[e] /\ s[e] \in DOMAIN h /\ j \in Int /\ j + 1 \in Int
    BY <1>1, <1>6, <1>11
  <2> HIDE DEF e
  <2>2. (s[e] = At(s, j) <=> e = j) /\ (s[e] = At(s, j + 1) <=> e = j + 1)
    BY <1>1, <2>1, AtOnce
  <2>4. /\ h2[r[i]].next = IF e = j THEN x ELSE At(s, e + 1)
        /\ h2[r[i]].prev = IF e = j + 1 THEN x ELSE At(s, e - 1)
        /\ h2[r[i]].key = h[s[e]].key
    BY <1>2, <1>8, <2>1, <2>2
  <2> QED BY <2>4 DEF e
<1>12. ASSUME NEW i \in DOMAIN r PROVE h2[r[i]].next = At(r, i + 1) /\ h2[r[i]].prev = At(r, i - 1)
  <2>1. i \in Int /\ i + 1 \in Int /\ i - 1 \in Int
    BY <1>4
  <2>2. CASE i = j + 1
    <3>1. h2[r[i]].next = At(s, j + 1) /\ h2[r[i]].prev = At(s, j)
      BY <1>7, <1>8, <2>2
    <3>2. At(r, i + 1) = At(s, (i + 1) - 1) /\ (i + 1) - 1 = j + 1
      BY <1>1, <1>5, <2>1, <2>2
    <3>3. At(r, i - 1) = At(s, i - 1) /\ i - 1 = j
      BY <1>1, <1>5, <2>1, <2>2
    <3> QED BY <3>1, <3>2, <3>3
  <2>3. CASE i <= j
    <3>1. At(r, i + 1) = IF i = j THEN x ELSE At(s, i + 1)
      BY <1>1, <1>5, <2>1, <2>3
    <3>2. At(r, i - 1) = At(s, i - 1)
      BY <1>1, <1>5, <2>1, <2>3
    <3>3. i # j + 1 /\ g(i) = i
      BY <1>1, <2>1, <2>3
    <3> QED BY <1>11, <3>1, <3>2, <3>3
  <2>4. CASE i > j + 1
    <3>1. i # j + 1 /\ g(i) = i - 1 /\ g(i) # j /\ (g(i) = j + 1 <=> i - 1 = j + 1) /\ g(i) + 1 = i /\ g(i) - 1 = i - 2
      BY <1>1, <2>1, <2>4
    <3>2. At(r, i + 1) = At(s, i)
      <4>1. At(r, i + 1) = At(s, (i + 1) - 1) /\ (i + 1) - 1 = i
        BY <1>1, <1>5, <2>1, <2>4
      <4> QED BY <4>1
    <3>3. At(r, i - 1) = IF i - 1 = j + 1 THEN x ELSE At(s, i - 2)
      <4>1. At(r, i - 1) = (IF i - 1 = j + 1 THEN x ELSE At(s, (i - 1) - 1)) /\ (i - 1) - 1 = i - 2
        BY <1>1, <1>5, <2>1, <2>4
      <4> QED BY <4>1
    <3>4. h2[r[i]].next = At(s, i) /\ h2[r[i]].prev = IF i - 1 = j + 1 THEN x ELSE At(s, i - 2)
      BY <1>11, <3>1
    <3> QED BY <3>2, <3>3, <3>4
  <2> QED BY <1>1, <2>1, <2>2, <2>3, <2>4
<1>13. ASSUME NEW a \in DOMAIN r, NEW b \in DOMAIN r, a <= b PROVE h2[r[a]].key <= h2[r[b]].key
  <2>1. h2[r[j + 1]].key = k
    BY <1>7, <1>8
  <2>2. a \in Int /\ b \in Int /\ j \in Int
    BY <1>4
  <2>3. CASE a # j + 1 /\ b # j + 1
    <3>1. g(a) \in DOMAIN s /\ g(b) \in DOMAIN s /\ g(a) <= g(b)
      BY <1>6, <1>13, <2>2, <2>3
    <3> QED BY <1>2, <1>11, <2>3, <3>1
  <2>4. CASE a = j + 1 /\ b = j + 1
    BY <2>1, <2>4
  <2>5. CASE a = j + 1 /\ b # j + 1
    <3>1. g(b) \in DOMAIN s /\ j + 1 \in DOMAIN s /\ j + 1 <= g(b)
      BY <1>1, <1>4, <1>6, <1>13, <2>2, <2>5
    <3>2. k <= h[s[j + 1]].key /\ h[s[j + 1]].key <= h[s[g(b)]].key
      BY <1>1, <1>2, <3>1
    <3>3. h2[r[b]].key = h[s[g(b)]].key
      BY <1>11, <2>5
    <3>4. h[s[j + 1]].key \in Int /\ h[s[g(b)]].key \in Int
      BY <1>1, <3>1
    <3> QED BY <2>1, <2>5, <3>2, <3>3, <3>4
  <2>6. CASE a # j + 1 /\ b = j + 1
    <3>1. g(a) \in DOMAIN s /\ j \in DOMAIN s /\ g(a) <= j
      BY <1>1, <1>4, <1>6, <1>13, <2>2, <2>6
    <3>2. h[s[j]].key <= k /\ h[s[g(a)]].key <= h[s[j]].key
      BY <1>1, <1>2, <3>1
    <3>3. h2[r[a]].key = h[s[g(a)]].key
      BY <1>11, <2>6
    <3>4. h[s[j]].key \in Int /\ h[s[g(a)]].key \in Int
      BY <1>1, <3>1
    <3> QED BY <2>1, <2>6, <3>2, <3>3, <3>4
  <2> QED BY <2>3, <2>4, <2>5, <2>6
<1>14. f2 = At(r, 1)
  <2>1. At(r, 1) = IF 1 <= j THEN At(s, 1) ELSE IF 1 = j + 1 THEN x ELSE At(s, 1 - 1)
    BY <1>5
  <2> QED BY <1>2, <2>1
<1>15. l2 = At(r, Len(r))
  <2>1. Len(s) + 1 \in Int /\ (Len(s) + 1) - 1 = Len(s) /\ ~(Len(s) + 1 <= j) /\ (Len(s) + 1 = j + 1 <=> j = Len(s))
    BY <1>1
  <2>2. At(r, Len(s) + 1) = IF j = Len(s) THEN x ELSE At(s, Len(s))
    BY <1>5, <2>1
  <2> QED BY <1>2, <1>4, <2>2
<1>16. n + 1 = Len(r)
  BY <1>1, <1>4
<1>17. Rep(h2, f2, l2, n + 1, r)
  BY <1>4, <1>8, <1>9, <1>12, <1>13, <1>14, <1>15, <1>16 DEF Rep
<1> QED BY <1>17 DEF r

\* The node at place j is linked out, and the keys of the others go down by c.
LEMMA LinkOut ==
  ASSUME NEW h, NEW f, NEW l, NEW n, NEW s, Rep(h, f, l, n, s), NEW j \in DOMAIN s, NEW c \in Int,
         NEW h2, LinkedOut(h, s, j, c, h2),
         NEW f2, f2 = IF j = 1 THEN At(s, 2) ELSE f,
         NEW l2, l2 = IF j = Len(s) THEN At(s, Len(s) - 1) ELSE l
  PROVE  Rep(h2, f2, l2, n - 1, Without(s, j))
<1> DEFINE r == Without(s, j)
           g(i) == IF i < j THEN i ELSE i + 1
<1>1. /\ s \in Seq(Nodes) /\ Once(s) /\ n = Len(s) /\ Len(s) \in Nat /\ DOMAIN s = 1 .. Len(s)
      /\ h \in [DOMAIN h -> Node] /\ DOMAIN h \subseteq Nodes
      /\ \A i \in DOMAIN s : s[i] \in DOMAIN h /\ h[s[i]].key \in Int
  BY RepFacts
<1>2. /\ f = At(s, 1) /\ l = At(s, Len(s)) /\ (\A y : y \in DOMAIN h <=> In(y, s))
      /\ \A i \in DOMAIN s : h[s[i]].next = At(s, i + 1) /\ h[s[i]].prev = At(s, i - 1)
      /\ \A a, b \in DOMAIN s : a <= b => h[s[a]].key <= h[s[b]].key
  BY DEF Rep
<1>3. /\ r \in Seq(Nodes) /\ Len(r) = Len(s) - 1 /\ DOMAIN r = 1 .. Len(s) - 1 /\ Once(r)
      /\ \A y : In(y, r) <=> In(y, s) /\ y # s[j]
  BY <1>1, WithoutFacts
<1>4. \A i \in Int : At(r, i) = IF i < j THEN At(s, i) ELSE At(s, i + 1)
  BY <1>1, AtWithout
<1>5. \A i \in DOMAIN r : g(i) \in DOMAIN s /\ r[i] = s[g(i)] /\ g(i) # j
  BY <1>1, <1>3 DEF Without
<1> HIDE DEF r
<1>6. /\ DOMAIN h2 = DOMAIN h \ {s[j]} /\ h2 \in [DOMAIN h2 -> Node]
      /\ \A m \in DOMAIN h \ {s[j]} : /\ h2[m].next = IF m = At(s, j - 1) THEN At(s, j + 1) ELSE h[m].next
                                      /\ h2[m].prev = IF m = At(s, j + 1) THEN At(s, j - 1) ELSE h[m].prev
                                      /\ h2[m].key = h[m].key - c
  BY DEF LinkedOut
<1>7. \A y : y \in DOMAIN h2 <=> In(y, r)
  BY <1>2, <1>3, <1>6
<1>9. ASSUME NEW i \in DOMAIN r
      PROVE  /\ h2[r[i]].next = IF g(i) = j - 1 THEN At(s, j + 1) ELSE At(s, g(i) + 1)
             /\ h2[r[i]].prev = IF g(i) = j + 1 THEN At(s, j - 1) ELSE At(s, g(i) - 1)
             /\ h2[r[i]].key = h[s[g(i)]].key - c
  <2> DEFINE e == g(i)
  <2>1. e \in DOMAIN s /\ r[i] = s[e] /\ s[e] \in DOMAIN h /\ j \in Int /\ j - 1 \in Int /\ j + 1 \in Int /\ e # j
    BY <1>1, <1>5, <1>9
  <2> HIDE DEF e
  <2>2. (s[e] = At(s, j - 1) <=> e = j - 1) /\ (s[e] = At(s, j + 1) <=> e = j + 1)
    BY <1>1, <2>1, AtOnce
  <2>3. s[e] # s[j]
    BY <1>1, <2>1 DEF Once
  <2>5. /\ h2[r[i]].next = IF e = j - 1 THEN At(s, j + 1) ELSE At(s, e + 1)
        /\ h2[r[i]].prev = IF e = j + 1 THEN At(s, j - 1) ELSE At(s, e - 1)
        /\ h2[r[i]].key = h[s[e]].key - c
    BY <1>2, <1>6, <2>1, <2>2, <2>3
  <2> QED BY <2>5 DEF e
<1>10. ASSUME NEW i \in DOMAIN r PROVE h2[r[i]].next = At(r, i + 1) /\ h2[r[i]].prev = At(r, i - 1)
  <2>1. i \in Int /\ i + 1 \in Int /\ i - 1 \in Int /\ j \in Int
    BY <1>1, <1>3
  <2>2. At(r, i + 1) = IF i + 1 < j THEN At(s, i + 1) ELSE At(s, (i + 1) + 1)
    BY <1>4, <2>1
  <2>3. At(r, i - 1) = IF i - 1 < j THEN At(s, i - 1) ELSE At(s, (i - 1) + 1)
    BY <1>4, <2>1
  <2>4. CASE i < j
    <3>1. g(i) = i /\ i # j + 1 /\ i - 1 < j /\ (i = j - 1 <=> ~(i + 1 < j)) /\ (i = j - 1 => (i + 1) + 1 = j + 1)
      BY <2>1, <2>4
    <3> QED BY <1>9, <2>2, <2>3, <3>1
  <2>5. CASE ~(i < j)
    <3>1. /\ g(i) = i + 1 /\ i + 1 # j - 1 /\ ~(i + 1 < j) /\ (i + 1 = j + 1 <=> i - 1 < j) /\ (i + 1) - 1 = i
          /\ (i + 1 = j + 1 => i - 1 = j - 1) /\ (i - 1) + 1 = i
      BY <2>1, <2>5
    <3> QED BY <1>9, <2>2, <2>3, <3>1
  <2> QED BY <2>4, <2>5
<1>11. ASSUME NEW a \in DOMAIN r, NEW b \in DOMAIN r, a <= b PROVE h2[r[a]].key <= h2[r[b]].key
  <2>1. g(a) \in DOMAIN s /\ g(b) \in DOMAIN s /\ g(a) <= g(b)
    BY <1>1, <1>3, <1>5, <1>11
  <2>2. h[s[g(a)]].key <= h[s[g(b)]].key /\ h[s[g(a)]].key \in Int /\ h[s[g(b)]].key \in Int
    BY <1>1, <1>2, <2>1
  <2>3. h2[r[a]].key = h[s[g(a)]].key - c /\ h2[r[b]].key = h[s[g(b)]].key - c
    BY <1>9
  <2> QED BY <2>2, <2>3
<1>12. f2 = At(r, 1)
  <2>1. At(r, 1) = IF 1 < j THEN At(s, 1) ELSE At(s, 1 + 1)
    BY <1>4
  <2>2. 1 < j <=> j # 1
    BY <1>1
  <2> QED BY <1>2, <2>1, <2>2
<1>13. l2 = At(r, Len(r))
  <2>1. Len(s) - 1 \in Int /\ (Len(s) - 1) + 1 = Len(s) /\ (Len(s) - 1 < j <=> j = Len(s))
    BY <1>1
  <2>2. At(r, Len(s) - 1) = IF Len(s) - 1 < j THEN At(s, Len(s) - 1) ELSE At(s, (Len(s) - 1) + 1)
    BY <1>4, <2>1
  <2> QED BY <1>2, <1>3, <2>1, <2>2
<1>14. n - 1 = Len(r)
  BY <1>1, <1>3
<1>15. Rep(h2, f2, l2, n - 1, r)
  BY <1>3, <1>6, <1>7, <1>10, <1>11, <1>12, <1>13, <1>14 DEF Rep
<1> QED BY <1>15 DEF r

-----------------------------------------------------------------------------
(***************************************************************************)
(* The walks along the list.                                               *)
(***************************************************************************)
\* NodeAt for any heap.
Walk(h, f) ==
    LET walk[i \in 1 .. Cardinality(DOMAIN h) + 1] ==
            IF i = 1 THEN f
            ELSE IF walk[i - 1] = NULL THEN NULL ELSE h[walk[i - 1]].next
    IN  walk

\* There are as many nodes as the length says.
LEMMA RepSize ==
  ASSUME NEW h, NEW f, NEW l, NEW n, NEW s, Rep(h, f, l, n, s)
  PROVE  IsFiniteSet(DOMAIN h) /\ Cardinality(DOMAIN h) = Len(s) /\ Len(s) <= Cardinality(Nodes)
<1>1. s \in Seq(Nodes) /\ Once(s) /\ DOMAIN h \subseteq Nodes /\ \A x : x \in DOMAIN h <=> In(x, s)
  BY RepFacts DEF Rep
<1>2. IsFiniteSet(Nodes) /\ IsFiniteSet(DOMAIN h)
  BY <1>1, ListAssumption, FS_Subset
<1>3. Len(s) = Cardinality(DOMAIN h)
  BY <1>1, <1>2, OnceLength
<1>4. Len(s) <= Cardinality(Nodes)
  BY <1>1, <1>2, OnceLength
<1> QED BY <1>2, <1>3, <1>4

\* The walk from first along next visits the places in their order.
LEMMA WalkIs ==
  ASSUME NEW h, NEW f, NEW l, NEW n, NEW s, Rep(h, f, l, n, s)
  PROVE  DOMAIN Walk(h, f) = 1 .. Len(s) + 1 /\ \A i \in 1 .. Len(s) + 1 : Walk(h, f)[i] = At(s, i)
<1> DEFINE D == 1 .. Len(s) + 1
           P(w) == w = [i \in D |-> IF i = 1 THEN f ELSE IF w[i - 1] = NULL THEN NULL ELSE h[w[i - 1]].next]
           v == [i \in D |-> At(s, i)]
           w == Walk(h, f)
<1>1. /\ s \in Seq(Nodes) /\ Once(s) /\ Len(s) \in Nat /\ DOMAIN s = 1 .. Len(s)
      /\ Cardinality(DOMAIN h) = Len(s)
  BY RepFacts, RepSize
<1>2. f = At(s, 1) /\ \A i \in DOMAIN s : h[s[i]].next = At(s, i + 1)
  BY DEF Rep
<1>3. \A i \in D : At(s, i) = IF i = 1 THEN f ELSE IF At(s, i - 1) = NULL THEN NULL ELSE h[At(s, i - 1)].next
  <2> TAKE i \in D
  <2>1. CASE i = 1
    BY <1>2, <2>1
  <2>2. CASE i # 1
    <3>1. i - 1 \in DOMAIN s /\ (i - 1) + 1 = i
      BY <1>1, <2>2
    <3>2. At(s, i - 1) = s[i - 1] /\ s[i - 1] # NULL
      BY <1>1, <3>1, AtOnce
    <3> QED BY <1>2, <2>2, <3>1, <3>2
  <2> QED BY <2>1, <2>2
<1>4. P(v)
  <2>1. \A i \in D : i # 1 => i - 1 \in D
    BY <1>1
  <2>2. \A i \in D : i # 1 => v[i - 1] = At(s, i - 1)
    BY <2>1
  <2> QED BY <1>3, <2>2
<1>5. w = CHOOSE w_1 : P(w_1)
  BY <1>1 DEF Walk
<1> HIDE DEF P, v, w
<1>6. P(CHOOSE w_1 : P(w_1))
  BY <1>4, Zenon
<1>7. P(w)
  BY <1>5, <1>6
<1>8. DOMAIN w = D /\ \A i \in D : w[i] = IF i = 1 THEN f ELSE IF w[i - 1] = NULL THEN NULL ELSE h[w[i - 1]].next
  BY <1>7 DEF P
<1>9. \A i \in D : w[i] = At(s, i)
  <2> DEFINE Wrong == {i \in D : w[i] # At(s, i)}
  <2> SUFFICES ASSUME Wrong # {} PROVE FALSE
    OBVIOUS
  <2>1. Wrong \in SUBSET Nat
    BY <1>1
  <2> HIDE DEF Wrong
  <2>2. PICK i \in Wrong : \A b \in Wrong : i <= b
    BY <2>1, NatLeast
  <2>3. i \in D /\ w[i] # At(s, i)
    BY <2>2 DEF Wrong
  <2>4. i # 1
    BY <1>3, <1>8, <2>3
  <2>5. i - 1 \in D /\ i - 1 \notin Wrong
    BY <1>1, <2>2, <2>3, <2>4
  <2>6. w[i - 1] = At(s, i - 1)
    BY <2>5 DEF Wrong
  <2> QED BY <1>3, <1>8, <2>3, <2>4, <2>6
<1> QED BY <1>8, <1>9 DEF w

\* The runner of linked_list_insert stops where the new key belongs.
LEMMA RunnerIs ==
  ASSUME NEW s, Rep(heap, first, last, length, s), Len(s) # 0, NEW k \in Int, heap[first].key <= k
  PROVE  \E j \in DOMAIN s : /\ Runner(k) = s[j] /\ heap[s[j]].key <= k
                             /\ j # Len(s) => k <= heap[s[j + 1]].key
<1>1. /\ s \in Seq(Nodes) /\ Once(s) /\ length = Len(s) /\ Len(s) \in Nat /\ DOMAIN s = 1 .. Len(s)
      /\ first = s[1] /\ \A i \in DOMAIN s : heap[s[i]].key \in Int
  BY RepFacts
<1>2. \A i \in DOMAIN s : heap[s[i]].next = At(s, i + 1)
  BY DEF Rep
<1> DEFINE Stops == {i \in DOMAIN s : i = Len(s) \/ k <= heap[s[i + 1]].key}
<1>3. Stops \in SUBSET Nat /\ Stops # {}
  <2>1. Len(s) \in Stops
    BY <1>1
  <2>2. \A i \in Stops : i \in Nat
    BY <1>1
  <2> QED BY <2>1, <2>2
<1> HIDE DEF Stops
<1>4. PICK j \in Stops : \A i \in Stops : j <= i
  BY <1>3, NatLeast
<1>5. j \in DOMAIN s /\ (j # Len(s) => k <= heap[s[j + 1]].key)
  BY <1>4 DEF Stops
<1>6. \A i \in DOMAIN s : i < j => i + 1 \in DOMAIN s /\ heap[s[i + 1]].key < k
  <2> SUFFICES ASSUME NEW i \in DOMAIN s, i < j PROVE i + 1 \in DOMAIN s /\ heap[s[i + 1]].key < k
    OBVIOUS
  <2>1. i + 1 \in DOMAIN s /\ ~(j <= i)
    BY <1>1, <1>5
  <2>2. ~(k <= heap[s[i + 1]].key)
    BY <1>4, <2>1 DEF Stops
  <2> QED BY <1>1, <2>1, <2>2
<1> DEFINE c(i) == IF i <= j THEN i ELSE j
           nx(r) == IF heap[r].next # NULL /\ heap[heap[r].next].key < k THEN heap[r].next ELSE r
           P(w) == w = [i \in 1 .. length |-> IF i = 1 THEN first ELSE nx(w[i - 1])]
           v == [i \in 1 .. length |-> s[c(i)]]
<1>7. \A i \in 1 .. length : i # 1 => i - 1 \in 1 .. length /\ s[c(i)] = nx(s[c(i - 1)])
  <2> SUFFICES ASSUME NEW i \in 1 .. length, i # 1 PROVE i - 1 \in 1 .. length /\ s[c(i)] = nx(s[c(i - 1)])
    OBVIOUS
  <2>1. i - 1 \in 1 .. length /\ i - 1 \in DOMAIN s /\ i \in DOMAIN s
    BY <1>1
  <2>2. CASE i - 1 < j
    <3>1. c(i) = i /\ c(i - 1) = i - 1 /\ (i - 1) + 1 = i
      BY <1>1, <1>5, <2>2
    <3>2. heap[s[i - 1]].next = s[i] /\ s[i] # NULL
      BY <1>1, <1>2, <2>1, <3>1, AtOnce
    <3>3. heap[s[i]].key < k
      BY <1>6, <2>1, <2>2, <3>1
    <3> QED BY <2>1, <3>1, <3>2, <3>3
  <2>3. CASE ~(i - 1 < j)
    <3>1. c(i) = j /\ c(i - 1) = j
      BY <1>1, <1>5, <2>3
    <3>2. heap[s[j]].next = At(s, j + 1)
      BY <1>2, <1>5
    <3>3. CASE j = Len(s)
      <4>1. At(s, j + 1) = NULL
        BY <1>1, <3>3 DEF At
      <4> QED BY <2>1, <3>1, <3>2, <4>1
    <3>4. CASE j # Len(s)
      <4>1. j + 1 \in DOMAIN s /\ At(s, j + 1) = s[j + 1]
        BY <1>1, <1>5, <3>4 DEF At
      <4>2. ~(heap[s[j + 1]].key < k)
        BY <1>1, <1>5, <3>4, <4>1
      <4> QED BY <2>1, <3>1, <3>2, <4>1, <4>2
    <3> QED BY <3>3, <3>4
  <2> QED BY <2>2, <2>3
<1>8. s[c(1)] = first /\ s[c(Len(s))] = s[j]
  BY <1>1, <1>5
<1>9. Runner(k) = (CHOOSE w : P(w))[length]
  BY DEF Runner
<1> HIDE DEF c, nx
<1>10. P(v)
  <2>1. \A i \in 1 .. length : i # 1 => v[i - 1] = s[c(i - 1)]
    BY <1>7
  <2>2. \A i \in 1 .. length : s[c(i)] = IF i = 1 THEN first ELSE nx(v[i - 1])
    BY <1>7, <1>8, <2>1
  <2> QED BY <2>2
<1> HIDE DEF P
<1> DEFINE w == CHOOSE w_1 : P(w_1)
<1>11. P(w)
  BY <1>10, Zenon
<1>12. Runner(k) = w[length]
  BY <1>9
<1> HIDE DEF w
<1>13. \A i \in 1 .. length : w[i] = IF i = 1 THEN first ELSE nx(w[i - 1])
  BY <1>11 DEF P
<1>14. \A i \in 1 .. length : w[i] = s[c(i)]
  <2> DEFINE E == {i \in 1 .. length : w[i] # s[c(i)]}
  <2> SUFFICES ASSUME E # {} PROVE FALSE
    OBVIOUS
  <2>1. E \in SUBSET Nat
    BY <1>1
  <2> HIDE DEF E
  <2>2. PICK i \in E : \A e \in E : i <= e
    BY <2>1, NatLeast
  <2>3. i \in 1 .. length /\ w[i] # s[c(i)]
    BY <2>2 DEF E
  <2>4. i # 1
    BY <1>8, <1>13, <2>3
  <2>5. i - 1 \in 1 .. length /\ i - 1 \notin E
    BY <1>1, <2>2, <2>3, <2>4
  <2>6. w[i - 1] = s[c(i - 1)]
    BY <2>5 DEF E
  <2> QED BY <1>7, <1>13, <2>3, <2>4, <2>6
<1>15. Runner(k) = s[j]
  BY <1>1, <1>8, <1>12, <1>14
<1>16. heap[s[j]].key <= k
  <2>1. CASE j = 1
    BY <1>1, <2>1
  <2>2. CASE j # 1
    <3>1. j - 1 \in DOMAIN s /\ j - 1 < j /\ (j - 1) + 1 = j
      BY <1>1, <1>5, <2>2
    <3>2. heap[s[j]].key < k
      BY <1>6, <3>1
    <3> QED BY <1>1, <1>5, <3>2
  <2> QED BY <2>1, <2>2
<1> QED BY <1>5, <1>15, <1>16

\* What NodeAt and Chain are, and what the run checks, in a list that the pointers describe.
LEMMA ChainIs ==
  ASSUME NEW s, Rep(heap, first, last, length, s)
  PROVE  /\ DOMAIN NodeAt = 1 .. Len(s) + 1
         /\ \A i \in 1 .. Len(s) + 1 : NodeAt[i] = At(s, i)
         /\ Chain = Allocated
         /\ \A x : x \in Chain <=> In(x, s)
<1>1. NodeAt = Walk(heap, first)
  BY DEF NodeAt, Walk, Allocated
<1>2. DOMAIN NodeAt = 1 .. Len(s) + 1 /\ \A i \in 1 .. Len(s) + 1 : NodeAt[i] = At(s, i)
  BY <1>1, WalkIs
<1>3. /\ s \in Seq(Nodes) /\ Once(s) /\ DOMAIN s = 1 .. Len(s) /\ Len(s) \in Nat
      /\ \A x : x \in Allocated <=> In(x, s)
  BY RepFacts DEF Rep, Allocated
<1>4. \A x : x \in Chain <=> In(x, s)
  <2>1. \A i \in DOMAIN s : i \in DOMAIN NodeAt /\ NodeAt[i] = s[i] /\ s[i] # NULL
    <3> TAKE i \in DOMAIN s
    <3>1. i \in 1 .. Len(s) + 1
      BY <1>3
    <3>2. At(s, i) = s[i] /\ s[i] # NULL
      BY <1>3, <3>1, AtOnce
    <3> QED BY <1>2, <3>1, <3>2
  <2>2. \A i \in DOMAIN NodeAt : NodeAt[i] # NULL => i \in DOMAIN s /\ NodeAt[i] = s[i]
    BY <1>2 DEF At
  <2>3. ASSUME NEW x, In(x, s) PROVE x \in Chain
    BY <2>1, <2>3 DEF In, Chain
  <2>4. ASSUME NEW x, x \in Chain PROVE In(x, s)
    BY <2>2, <2>4 DEF In, Chain
  <2> QED BY <2>3, <2>4
<1>5. Chain = Allocated
  BY <1>3, <1>4
<1> QED BY <1>2, <1>4, <1>5

\* What an operation that adds node n leaves, and one that takes away the node at place j.
Added(s, j, n, k, d) ==
    /\ j \in 0 .. Len(s)
    /\ LinkedIn(heap, s, j, n, k, d, heap')
    /\ Rep(heap', first', last', length', With(s, j, n))

Removed(s, j, c) ==
    /\ LinkedOut(heap, s, j, c, heap')
    /\ Rep(heap', first', last', length', Without(s, j))

\* The first node of an empty list.
LEMMA LinksFirst ==
  ASSUME NEW s, Rep(heap, first, last, length, s), NEW n \in Nodes, n \notin Allocated,
         NEW k \in Int, NEW d \in Data, InsertEmpty(n, k, d), length' = length + 1
  PROVE  Added(s, 0, n, k, d)
<1>1. Len(s) = 0 /\ DOMAIN s = {} /\ length = 0
  BY RepFacts DEF InsertEmpty
<1>2. At(s, 0) = NULL /\ At(s, 1) = NULL
  BY <1>1 DEF At
<1>3. Allocated = {}
  BY <1>1 DEF Rep, In, Allocated
<1>4. LinkedIn(heap, s, 0, n, k, d, heap')
  <2> DEFINE e == [next |-> NULL, prev |-> NULL, key |-> k, data |-> d]
  <2>1. heap' = [m \in Allocated \cup {n} |-> IF m = n THEN e ELSE heap[m]]
    BY DEF InsertEmpty, linked_list_create_node
  <2>2. e \in Node
    BY DEF Node
  <2>3. heap' \in [Allocated \cup {n} -> Node] /\ heap'[n] = e
    BY <1>3, <2>1, <2>2
  <2>4. 0 \in 0 .. Len(s) /\ NULL = At(s, 0) /\ NULL = At(s, 0 + 1)
    BY <1>1, <1>2
  <2>5. heap'[n].next = At(s, 0 + 1) /\ heap'[n].prev = At(s, 0) /\ heap'[n].key = k /\ heap'[n].data = d
    BY <2>3, <2>4
  <2>6. \A m \in Allocated : /\ heap'[m].next = IF m = At(s, 0) THEN n ELSE heap[m].next
                             /\ heap'[m].prev = IF m = At(s, 0 + 1) THEN n ELSE heap[m].prev
                             /\ heap'[m].key = heap[m].key /\ heap'[m].data = heap[m].data
    BY <1>3
  <2> QED BY <2>3, <2>5, <2>6 DEF LinkedIn, Allocated
<1>5. first' = n /\ last' = n
  BY DEF InsertEmpty
<1>6. Rep(heap', n, n, length + 1, With(s, 0, n))
  BY <1>1, <1>4, LinkIn DEF Allocated
<1> QED BY <1>1, <1>4, <1>5, <1>6 DEF Added

\* A new node before the others.
FrontLinks(n, k, d) ==
    /\ heap' = [linked_list_create_node(n, k, d, first, NULL) EXCEPT ![first].prev = n]
    /\ first' = n
    /\ UNCHANGED last

LEMMA LinksFront ==
  ASSUME NEW s, Rep(heap, first, last, length, s), NEW n \in Nodes, n \notin Allocated,
         NEW k \in Int, NEW d \in Data, first # NULL, k <= heap[first].key,
         FrontLinks(n, k, d), length' = length + 1
  PROVE  Added(s, 0, n, k, d)
<1>1. /\ s \in Seq(Nodes) /\ Len(s) \in Nat /\ Len(s) # 0 /\ DOMAIN s = 1 .. Len(s) /\ first = s[1] /\ first \in Allocated
      /\ \A m \in Allocated : m \in Nodes /\ heap[m] \in Node
  BY RepFacts DEF Allocated
<1>2. At(s, 0) = NULL /\ At(s, 1) = first
  BY <1>1 DEF At
<1>3. LinkedIn(heap, s, 0, n, k, d, heap')
  <2> DEFINE c == linked_list_create_node(n, k, d, first, NULL)
             e == [next |-> first, prev |-> NULL, key |-> k, data |-> d]
             b == [heap[first] EXCEPT !.prev = n]
  <2>1. c = [m \in Allocated \cup {n} |-> IF m = n THEN e ELSE heap[m]]
    BY DEF linked_list_create_node
  <2>2. heap' = [c EXCEPT ![first] = [c[first] EXCEPT !.prev = n]]
    BY DEF FrontLinks
  <2> HIDE DEF c
  <2>3. DOMAIN c = Allocated \cup {n} /\ first # n /\ c[first] = heap[first] /\ c[n] = e
        /\ \A m \in Allocated : c[m] = heap[m]
    BY <1>1, <2>1
  <2>4. heap' = [m \in Allocated \cup {n} |-> IF m = first THEN b ELSE c[m]]
    BY <2>2, <2>3
  <2>5. /\ e \in Node /\ e.next = first /\ e.prev = NULL /\ e.key = k /\ e.data = d
        /\ b \in Node /\ b.next = heap[first].next /\ b.prev = n
        /\ b.key = heap[first].key /\ b.data = heap[first].data
    BY <1>1 DEF Node
  <2> HIDE DEF e, b
  <2>6. heap' \in [Allocated \cup {n} -> Node] /\ heap'[n] = e
    BY <1>1, <2>3, <2>4, <2>5
  <2>7. \A m \in Allocated : /\ heap'[m].next = IF m = At(s, 0) THEN n ELSE heap[m].next
                             /\ heap'[m].prev = IF m = At(s, 0 + 1) THEN n ELSE heap[m].prev
                             /\ heap'[m].key = heap[m].key /\ heap'[m].data = heap[m].data
    <3>1. \A m \in Allocated : m # NULL
      BY <1>1, ListAssumption
    <3>2. \A m \in Allocated : heap'[m] = IF m = first THEN b ELSE heap[m]
      BY <2>3, <2>4
    <3> QED BY <1>2, <2>5, <3>1, <3>2
  <2>8. heap'[n].next = At(s, 0 + 1) /\ heap'[n].prev = At(s, 0) /\ heap'[n].key = k /\ heap'[n].data = d
    BY <1>2, <2>5, <2>6
  <2> QED BY <2>6, <2>7, <2>8 DEF LinkedIn, Allocated
<1>4. Rep(heap', n, last, length + 1, With(s, 0, n))
  <2>1. 0 \in 0 .. Len(s) /\ 0 # Len(s) /\ k <= heap[s[0 + 1]].key
    BY <1>1
  <2> QED BY <1>3, <2>1, LinkIn DEF Allocated
<1> QED BY <1>1, <1>3, <1>4 DEF Added, FrontLinks

\* A new node behind place j.
LEMMA LinksAfter ==
  ASSUME NEW s, Rep(heap, first, last, length, s), NEW n \in Nodes, n \notin Allocated,
         NEW k \in Int, NEW d \in Data, NEW j \in DOMAIN s, heap[s[j]].key <= k,
         j # Len(s) => k <= heap[s[j + 1]].key, InsertAfter(n, k, d, s[j]), length' = length + 1
  PROVE  Added(s, j, n, k, d)
<1> DEFINE p == s[j]
           q == At(s, j + 1)
<1>1. /\ s \in Seq(Nodes) /\ Once(s) /\ Len(s) \in Nat /\ DOMAIN s = 1 .. Len(s) /\ p \in Allocated
      /\ \A m \in Allocated : m \in Nodes /\ heap[m] \in Node
      /\ \A x : x \in Allocated <=> In(x, s)
  BY RepFacts DEF Allocated, Rep
<1>2. /\ At(s, j) = p /\ heap[p].next = q /\ j \in 0 .. Len(s)
      /\ q = NULL <=> j = Len(s)
      /\ q # NULL => q \in Allocated /\ q # p
  <2>1. At(s, j) = p /\ heap[p].next = q /\ j \in 0 .. Len(s)
    BY <1>1 DEF At, Rep
  <2>2. CASE j = Len(s)
    BY <1>1, <2>1, <2>2 DEF At
  <2>3. CASE j # Len(s)
    <3>1. j + 1 \in DOMAIN s /\ j \in Int
      BY <1>1, <2>3
    <3>2. q = s[j + 1] /\ q # NULL /\ q # p
      BY <1>1, <2>1, <3>1, AtOnce
    <3> QED BY <1>1, <2>1, <2>3, <3>1, <3>2 DEF In
  <2> QED BY <2>2, <2>3
<1> HIDE DEF p, q
<1> DEFINE e == [next |-> q, prev |-> p, key |-> k, data |-> d]
           c == [m \in Allocated \cup {n} |-> IF m = n THEN e ELSE heap[m]]
           b == [heap[p] EXCEPT !.next = n]
           a == [heap[q] EXCEPT !.prev = n]
<1>3. /\ e \in Node /\ e.next = q /\ e.prev = p /\ e.key = k /\ e.data = d
      /\ b \in Node /\ b.next = n /\ b.prev = heap[p].prev /\ b.key = heap[p].key /\ b.data = heap[p].data
  BY <1>1, <1>2 DEF Node
<1>4. q # NULL => /\ a \in Node /\ a.next = heap[q].next /\ a.prev = n
                  /\ a.key = heap[q].key /\ a.data = heap[q].data
  BY <1>1, <1>2 DEF Node
<1>5. /\ DOMAIN c = Allocated \cup {n} /\ c[n] = e /\ p # n /\ q # n
      /\ \A m \in Allocated : c[m] = heap[m]
  BY <1>1, <1>2, ListAssumption
<1>6. /\ first' = first
      /\ last' = IF j = Len(s) THEN n ELSE last
      /\ q = NULL => heap' = [c EXCEPT ![p] = [c[p] EXCEPT !.next = n]]
      /\ q # NULL => heap' = [[c EXCEPT ![q] = [c[q] EXCEPT !.prev = n]] EXCEPT ![p] =
                                [[c EXCEPT ![q] = [c[q] EXCEPT !.prev = n]][p] EXCEPT !.next = n]]
  <2>1. InsertAfter(n, k, d, p)
    BY DEF p
  <2>2. linked_list_create_node(n, k, d, q, p) = c
    BY DEF linked_list_create_node
  <2> HIDE DEF c
  <2>3. CASE q = NULL
    BY <1>2, <2>1, <2>2, <2>3 DEF InsertAfter
  <2>4. CASE q # NULL
    BY <1>2, <2>1, <2>2, <2>4 DEF InsertAfter
  <2> QED BY <2>3, <2>4
<1> HIDE DEF c
<1>7. heap' = [m \in Allocated \cup {n} |-> IF m = p THEN b ELSE IF m = q THEN a ELSE c[m]]
  <2>1. CASE q = NULL
    <3>1. \A m \in Allocated \cup {n} : m # q
      BY <1>1, <1>5, <2>1, ListAssumption
    <3> HIDE DEF a
    <3> QED BY <1>1, <1>5, <1>6, <2>1, <3>1
  <2>2. CASE q # NULL
    <3> DEFINE g == [c EXCEPT ![q] = [c[q] EXCEPT !.prev = n]]
    <3>1. g = [m \in Allocated \cup {n} |-> IF m = q THEN a ELSE c[m]]
      BY <1>2, <1>5, <2>2
    <3>2. heap' = [g EXCEPT ![p] = [g[p] EXCEPT !.next = n]]
      BY <1>6, <2>2
    <3> HIDE DEF g, a
    <3>3. DOMAIN g = Allocated \cup {n} /\ g[p] = heap[p] /\ \A m \in Allocated \cup {n} : g[m] = IF m = q THEN a ELSE c[m]
      BY <1>1, <1>2, <1>5, <2>2, <3>1
    <3> QED BY <3>2, <3>3
  <2> QED BY <2>1, <2>2
<1> HIDE DEF e, a, b
<1>8. heap' \in [Allocated \cup {n} -> Node] /\ heap'[n] = e
  <2>1. \A m \in Allocated \cup {n} : (IF m = p THEN b ELSE IF m = q THEN a ELSE c[m]) \in Node
    <3>1. \A m \in Allocated \cup {n} : c[m] \in Node
      BY <1>1, <1>3, <1>5
    <3>2. \A m \in Allocated \cup {n} : m = q => a \in Node
      <4>1. NULL \notin Allocated \cup {n}
        BY <1>1, ListAssumption
      <4> QED BY <1>4, <4>1
    <3> QED BY <1>3, <3>1, <3>2
  <2> QED BY <1>5, <1>7, <2>1
<1>9. \A m \in Allocated : /\ heap'[m].next = IF m = p THEN n ELSE heap[m].next
                           /\ heap'[m].prev = IF m = q THEN n ELSE heap[m].prev
                           /\ heap'[m].key = heap[m].key /\ heap'[m].data = heap[m].data
  <2> TAKE m \in Allocated
  <2>1. heap'[m] = IF m = p THEN b ELSE IF m = q THEN a ELSE heap[m]
    BY <1>5, <1>7
  <2>2. m # NULL
    BY <1>1, ListAssumption
  <2>3. CASE m = p
    <3>1. m # q
      BY <1>2, <2>2, <2>3
    <3> QED BY <1>3, <2>1, <2>3, <3>1
  <2>4. CASE m # p /\ m = q
    BY <1>4, <2>1, <2>2, <2>4
  <2>5. CASE m # p /\ m # q
    BY <2>1, <2>5
  <2> QED BY <2>3, <2>4, <2>5
<1>10. LinkedIn(heap, s, j, n, k, d, heap')
  <2>1. heap'[n].next = q /\ heap'[n].prev = p /\ heap'[n].key = k /\ heap'[n].data = d
    BY <1>3, <1>8
  <2> QED BY <1>2, <1>8, <1>9, <2>1 DEF LinkedIn, Allocated, q
<1>11. Rep(heap', first, last', length + 1, With(s, j, n))
  <2>1. j # 0
    BY <1>1
  <2> QED BY <1>2, <1>6, <1>10, <2>1, LinkIn DEF Allocated
<1> QED BY <1>2, <1>6, <1>10, <1>11 DEF Added

\* linked_list_prepend adds a node with a smaller key to the front.
LEMMA PrependAdds ==
  ASSUME NEW s, Rep(heap, first, last, length, s), NEW n \in Nodes, NEW d \in Data,
         linked_list_prepend(n, d)
  PROVE  Added(s, 0, n, IF Len(s) = 0 THEN 0 ELSE heap[s[1]].key - 1, d)
<1>1. /\ first = NULL <=> Len(s) = 0
      /\ Len(s) # 0 => first = s[1] /\ heap[s[1]].key \in Int
  BY RepFacts
<1>2. n \notin Allocated /\ length' = length + 1
  BY DEF linked_list_prepend
<1>3. CASE Len(s) = 0
  <2>1. InsertEmpty(n, 0, d)
    BY <1>1, <1>3 DEF linked_list_prepend, PrependEmpty, PrependFront, InsertEmpty
  <2> QED BY <1>2, <1>3, <2>1, LinksFirst
<1>4. CASE Len(s) # 0
  <2>1. FrontLinks(n, heap[first].key - 1, d)
    BY <1>1, <1>4 DEF linked_list_prepend, PrependEmpty, PrependFront, FrontLinks
  <2>2. heap[first].key - 1 \in Int /\ heap[first].key - 1 <= heap[first].key
    BY <1>1, <1>4
  <2>3. Added(s, 0, n, heap[first].key - 1, d)
    BY <1>1, <1>2, <1>4, <2>1, <2>2, LinksFront
  <2> QED BY <1>1, <1>4, <2>3
<1> QED BY <1>3, <1>4

\* linked_list_insert adds a node where the keys stay in order.
LEMMA InsertAdds ==
  ASSUME NEW s, Rep(heap, first, last, length, s), NEW n \in Nodes, NEW k \in Int, NEW d \in Data,
         linked_list_insert(n, k, d)
  PROVE  \E j : Added(s, j, n, k, d)
<1>1. /\ first = NULL <=> Len(s) = 0
      /\ Len(s) # 0 => first = s[1] /\ heap[s[1]].key \in Int
  BY RepFacts
<1>2. n \notin Allocated /\ length' = length + 1
  BY DEF linked_list_insert
<1>3. CASE InsertEmpty(n, k, d)
  BY <1>2, <1>3, LinksFirst
<1>4. CASE InsertFront(n, k, d)
  <2>1. FrontLinks(n, k, d) /\ first # NULL /\ heap[first].key > k
    BY <1>4 DEF InsertFront, FrontLinks
  <2>2. k <= heap[first].key
    BY <1>1, <2>1
  <2> QED BY <1>2, <2>1, <2>2, LinksFront
<1>5. CASE first # NULL /\ heap[first].key <= k /\ InsertAfter(n, k, d, Runner(k))
  <2>1. PICK j \in DOMAIN s : /\ Runner(k) = s[j] /\ heap[s[j]].key <= k
                              /\ j # Len(s) => k <= heap[s[j + 1]].key
    BY <1>1, <1>5, RunnerIs
  <2>2. InsertAfter(n, k, d, s[j])
    BY <1>5, <2>1
  <2> QED BY <1>2, <2>1, <2>2, LinksAfter
<1> QED BY <1>3, <1>4, <1>5 DEF linked_list_insert

\* linked_list_remove_head takes away the first node.
LEMMA HeadLeaves ==
  ASSUME NEW s, Rep(heap, first, last, length, s), RemoveHeadFirst
  PROVE  /\ 1 \in DOMAIN s /\ Removed(s, 1, 0)
         /\ ret' = [key |-> heap[s[1]].key, data |-> heap[s[1]].data]
<1> DEFINE q == At(s, 2)
<1>1. /\ s \in Seq(Nodes) /\ Once(s) /\ Len(s) \in Nat /\ DOMAIN s = 1 .. Len(s)
      /\ \A m \in Allocated : m \in Nodes /\ heap[m] \in Node
      /\ \A x : x \in Allocated <=> In(x, s)
      /\ Len(s) # 0 /\ first = s[1] /\ first \in Allocated
  <2>1. first # NULL
    BY DEF RemoveHeadFirst
  <2>2. \A x : x \in Allocated <=> In(x, s)
    BY DEF Rep, Allocated
  <2>3. Len(s) # 0 /\ first = s[1] /\ Len(s) \in Nat /\ DOMAIN s = 1 .. Len(s)
    BY <2>1, RepFacts
  <2>4. In(s[1], s)
    BY <2>3 DEF In
  <2>5. /\ s \in Seq(Nodes) /\ Once(s)
        /\ \A m \in Allocated : m \in Nodes /\ heap[m] \in Node
    BY RepFacts DEF Allocated
  <2> QED BY <2>2, <2>3, <2>4, <2>5
<1>2. /\ 1 \in DOMAIN s /\ heap[first].next = q /\ At(s, 0) = NULL
      /\ q = NULL <=> Len(s) = 1
      /\ q # NULL => q \in Allocated /\ q # first
  <2>1. 1 \in DOMAIN s /\ At(s, 0) = NULL /\ At(s, 1) = first
    BY <1>1 DEF At
  <2>2. heap[first].next = q
    BY <1>1, <2>1 DEF Rep
  <2>3. CASE Len(s) = 1
    BY <1>1, <2>1, <2>2, <2>3 DEF At
  <2>4. CASE Len(s) # 1
    <3>1. 2 \in DOMAIN s /\ 1 \in Int
      BY <1>1, <2>4
    <3>2. q = s[2] /\ q # NULL /\ q # first
      BY <1>1, <2>1, <3>1, AtOnce
    <3> QED BY <1>1, <2>1, <2>2, <2>4, <3>1, <3>2 DEF In
  <2> QED BY <2>3, <2>4
<1> HIDE DEF q
<1> DEFINE a == [heap[q] EXCEPT !.prev = NULL]
           u == IF q = NULL THEN heap ELSE [heap EXCEPT ![q].prev = NULL]
<1>3. /\ heap' = [m \in DOMAIN u \ {first} |-> u[m]] /\ first' = q
      /\ last' = (IF q = NULL THEN NULL ELSE last) /\ length' = length - 1
      /\ ret' = [key |-> heap[first].key, data |-> heap[first].data]
  BY <1>2 DEF RemoveHeadFirst, kfree
<1>4. DOMAIN u = Allocated /\ \A m \in Allocated : u[m] = IF m = q THEN a ELSE heap[m]
  <2>1. CASE q = NULL
    BY <1>1, <2>1, ListAssumption DEF Allocated
  <2>2. CASE q # NULL
    BY <1>2, <2>2 DEF Allocated
  <2> QED BY <2>1, <2>2
<1>5. q # NULL => /\ a \in Node /\ a.next = heap[q].next /\ a.prev = NULL
                  /\ a.key = heap[q].key /\ a.data = heap[q].data
  BY <1>1, <1>2 DEF Node
<1> HIDE DEF a, u
<1>6. \A m \in Allocated : m # NULL /\ heap[m].key \in Int
  BY <1>1, ListAssumption DEF Node
<1>7. heap' \in [Allocated \ {s[1]} -> Node] /\ \A m \in Allocated \ {s[1]} : heap'[m] = IF m = q THEN a ELSE heap[m]
  <2>1. \A m \in Allocated : u[m] \in Node
    BY <1>1, <1>4, <1>5, <1>6
  <2> QED BY <1>1, <1>3, <1>4, <2>1
<1>8. LinkedOut(heap, s, 1, 0, heap')
  <2>1. \A m \in Allocated \ {s[1]} : /\ heap'[m].next = heap[m].next
                                      /\ heap'[m].prev = IF m = q THEN NULL ELSE heap[m].prev
                                      /\ heap'[m].key = heap[m].key - 0 /\ heap'[m].data = heap[m].data
    BY <1>5, <1>6, <1>7
  <2>2. \A m \in Allocated : m # At(s, 1 - 1)
    BY <1>2, <1>6
  <2>3. At(s, 1 + 1) = q /\ At(s, 1 - 1) = NULL
    BY <1>2 DEF q
  <2> QED BY <1>7, <2>1, <2>2, <2>3 DEF LinkedOut, Allocated
<1>9. Rep(heap', q, last', length - 1, Without(s, 1))
  <2>1. PICK j \in DOMAIN s : j = 1
    BY <1>2
  <2>2. last' = IF j = Len(s) THEN At(s, Len(s) - 1) ELSE last
    <3>1. CASE Len(s) = 1
      <4>1. Len(s) - 1 = 0 /\ j = Len(s)
        BY <2>1, <3>1
      <4>2. At(s, Len(s) - 1) = NULL
        BY <1>2, <4>1
      <4> QED BY <1>2, <1>3, <3>1, <4>1, <4>2
    <3>2. CASE Len(s) # 1
      BY <1>2, <1>3, <2>1, <3>2
    <3> QED BY <3>1, <3>2
  <2>3. q = IF j = 1 THEN At(s, 2) ELSE first
    BY <2>1 DEF q
  <2>4. LinkedOut(heap, s, j, 0, heap') /\ 0 \in Int
    BY <1>8, <2>1
  <2>5. Rep(heap', q, last', length - 1, Without(s, j))
    BY <2>2, <2>3, <2>4, LinkOut
  <2> QED BY <2>1, <2>5
<1> QED BY <1>1, <1>2, <1>3, <1>8, <1>9 DEF Removed

\* linked_list_remove takes away the node and lowers the keys of the others.
LEMMA RemoveTakes ==
  ASSUME NEW s, Rep(heap, first, last, length, s), NEW n, linked_list_remove(n)
  PROVE  \E j \in DOMAIN s : Removed(s, j, 1)
<1>1. /\ s \in Seq(Nodes) /\ Once(s) /\ Len(s) \in Nat /\ DOMAIN s = 1 .. Len(s)
      /\ \A m \in Allocated : heap[m] \in Node
      /\ Chain = Allocated /\ \A x : x \in Chain <=> In(x, s)
  BY RepFacts, ChainIs DEF Allocated
<1>2. n \in Chain
  BY DEF linked_list_remove
<1>3. PICK j \in DOMAIN s : s[j] = n
  BY <1>1, <1>2 DEF In
<1> DEFINE p == At(s, j - 1)
           q == At(s, j + 1)
<1>4. heap[n].next = q /\ heap[n].prev = p /\ n \in Allocated
  BY <1>1, <1>2, <1>3 DEF Rep
<1>5. /\ p \in Nodes \cup {NULL} /\ q \in Nodes \cup {NULL}
      /\ p = NULL <=> j = 1
      /\ q = NULL <=> j = Len(s)
  <2>1. p \in Nodes \cup {NULL} /\ q \in Nodes \cup {NULL}
    BY <1>1 DEF At
  <2>2. j = 1 => p = NULL
    BY <1>1 DEF At
  <2>3. j = Len(s) => q = NULL
    BY <1>1 DEF At
  <2>4. j # 1 => p # NULL
    <3> SUFFICES ASSUME j # 1 PROVE p # NULL
      OBVIOUS
    <3>1. j - 1 \in DOMAIN s
      BY <1>1
    <3> QED BY <1>1, <3>1, AtOnce
  <2>5. j # Len(s) => q # NULL
    <3> SUFFICES ASSUME j # Len(s) PROVE q # NULL
      OBVIOUS
    <3>1. j + 1 \in DOMAIN s
      BY <1>1
    <3> QED BY <1>1, <3>1, AtOnce
  <2> QED BY <2>1, <2>2, <2>3, <2>4, <2>5
<1> HIDE DEF p, q
<1> DEFINE u(m) == [heap[m] EXCEPT !.next = IF m = p THEN q ELSE @, !.prev = IF m = q THEN p ELSE @]
           v(m) == [u(m) EXCEPT !.key = IF m \in Chain THEN @ - 1 ELSE @]
<1>6. \A m \in Allocated : /\ v(m) \in Node
                           /\ v(m).next = IF m = p THEN q ELSE heap[m].next
                           /\ v(m).prev = IF m = q THEN p ELSE heap[m].prev
                           /\ v(m).key = heap[m].key - 1 /\ v(m).data = heap[m].data
  <2> TAKE m \in Allocated
  <2>1. heap[m] \in Node /\ m \in Chain
    BY <1>1
  <2>2. /\ u(m) \in Node /\ u(m).next = IF m = p THEN q ELSE heap[m].next
        /\ u(m).prev = IF m = q THEN p ELSE heap[m].prev
        /\ u(m).key = heap[m].key /\ u(m).data = heap[m].data
    BY <1>5, <2>1 DEF Node
  <2> HIDE DEF u
  <2>3. /\ v(m) \in Node /\ v(m).next = u(m).next /\ v(m).prev = u(m).prev
        /\ v(m).key = u(m).key - 1 /\ v(m).data = u(m).data
    BY <2>1, <2>2 DEF Node
  <2> HIDE DEF v
  <2> QED BY <2>2, <2>3
<1>7. /\ heap' = [m \in Allocated \ {n} |-> v(m)]
      /\ first' = (IF p = NULL THEN q ELSE first) /\ last' = (IF q = NULL THEN p ELSE last)
      /\ length' = length - 1
  <2> DEFINE w == [m \in Allocated |-> [Unlinked(n)[m] EXCEPT !.key = IF m \in Chain THEN @ - 1 ELSE @]]
  <2>1. heap' = [m \in DOMAIN w \ {n} |-> w[m]]
    BY DEF linked_list_remove, kfree
  <2>2. \A m \in Allocated : Unlinked(n)[m] = u(m)
    BY <1>4 DEF Unlinked
  <2>3. DOMAIN w = Allocated /\ \A m \in Allocated : w[m] = v(m)
    BY <2>2
  <2> HIDE DEF w, v
  <2>4. heap' = [m \in Allocated \ {n} |-> v(m)]
    BY <2>1, <2>3
  <2> QED BY <1>4, <2>4 DEF linked_list_remove
<1> HIDE DEF v
<1>8. LinkedOut(heap, s, j, 1, heap')
  <2>1. heap' \in [Allocated \ {n} -> Node]
    BY <1>6, <1>7
  <2>2. \A m \in Allocated \ {n} : /\ heap'[m].next = IF m = p THEN q ELSE heap[m].next
                                   /\ heap'[m].prev = IF m = q THEN p ELSE heap[m].prev
                                   /\ heap'[m].key = heap[m].key - 1 /\ heap'[m].data = heap[m].data
    BY <1>6, <1>7
  <2> QED BY <1>3, <2>1, <2>2 DEF LinkedOut, Allocated, p, q
<1>9. Rep(heap', first', last', length - 1, Without(s, j))
  <2>1. first' = IF j = 1 THEN At(s, 2) ELSE first
    <3>1. j = 1 => q = At(s, 2)
      BY DEF q
    <3> QED BY <1>5, <1>7, <3>1
  <2>2. last' = IF j = Len(s) THEN At(s, Len(s) - 1) ELSE last
    <3>1. j = Len(s) => p = At(s, Len(s) - 1)
      BY DEF p
    <3> QED BY <1>5, <1>7, <3>1
  <2> QED BY <1>8, <2>1, <2>2, LinkOut
<1> QED BY <1>7, <1>8, <1>9 DEF Removed

\* linked_list_destroy leaves nothing.
LEMMA DestroyEmpties ==
  ASSUME NEW s, Rep(heap, first, last, length, s), linked_list_destroy
  PROVE  Rep(heap', first', last', length', <<>>)
<1>1. Chain = Allocated /\ Cardinality(Allocated) = Len(s) /\ length = Len(s) /\ Len(s) \in Nat
  BY RepFacts, ChainIs, RepSize DEF Allocated
<1>2. /\ heap' = [m \in Allocated \ Chain |-> heap[m]] /\ first' = NULL /\ last' = NULL
      /\ length' = length - Cardinality(Chain)
  BY DEF linked_list_destroy
<1>3. DOMAIN heap' = {} /\ heap' \in [DOMAIN heap' -> Node] /\ length' = 0
  BY <1>1, <1>2
<1>4. <<>> \in Seq(Nodes) /\ Len(<<>>) = 0 /\ DOMAIN <<>> = {} /\ Once(<<>>) /\ \A x : ~In(x, <<>>)
  BY OnceEmpty
<1>5. At(<<>>, 1) = NULL /\ At(<<>>, Len(<<>>)) = NULL
  BY <1>4 DEF At
<1> QED BY <1>2, <1>3, <1>4, <1>5 DEF Rep

\* The empty list.
LEMMA EmptyRep ==
  ASSUME LinkedInit
  PROVE  Rep(heap, first, last, length, <<>>)
<1>1. DOMAIN heap = {} /\ heap \in [DOMAIN heap -> Node] /\ length = 0 /\ first = NULL /\ last = NULL
  BY DEF LinkedInit
<1>2. <<>> \in Seq(Nodes) /\ Len(<<>>) = 0 /\ DOMAIN <<>> = {} /\ Once(<<>>) /\ \A x : ~In(x, <<>>)
  BY OnceEmpty
<1>3. At(<<>>, 1) = NULL /\ At(<<>>, Len(<<>>)) = NULL
  BY <1>2 DEF At
<1> QED BY <1>1, <1>2, <1>3 DEF Rep

\* Every operation leaves a list that a sequence describes.
LEMMA ListStep ==
  ASSUME ListInv, [LinkedNext]_linkedVars
  PROVE  ListInv'
<1>1. destroyed \in BOOLEAN
  BY DEF ListInv
<1>2. PICK s : Rep(heap, first, last, length, s)
  BY DEF ListInv
<1>3. destroyed' \in BOOLEAN
  BY <1>1 DEF LinkedNext, linkedVars, linked_list_destroy
<1> SUFFICES \E t : Rep(heap', first', last', length', t)
  BY <1>3 DEF ListInv
<1>4. ASSUME NEW n \in Nodes, NEW d \in Data, linked_list_prepend(n, d)
      PROVE  \E t : Rep(heap', first', last', length', t)
  BY <1>2, <1>4, PrependAdds DEF Added
<1>5. ASSUME NEW n \in Nodes, NEW k \in InsertKeys, NEW d \in Data, linked_list_insert(n, k, d)
      PROVE  \E t : Rep(heap', first', last', length', t)
  <2>1. k \in Int
    BY ListAssumption
  <2> QED BY <1>2, <1>5, <2>1, InsertAdds DEF Added
<1>6. CASE linked_list_remove_head
  <2>1. CASE RemoveHeadEmpty
    BY <1>2, <2>1 DEF RemoveHeadEmpty
  <2>2. CASE RemoveHeadFirst
    BY <1>2, <2>2, HeadLeaves DEF Removed
  <2> QED BY <1>6, <2>1, <2>2 DEF linked_list_remove_head
<1>7. ASSUME NEW n \in Nodes, linked_list_remove(n)
      PROVE  \E t : Rep(heap', first', last', length', t)
  BY <1>2, <1>7, RemoveTakes DEF Removed
<1>8. CASE linked_list_destroy
  BY <1>2, <1>8, DestroyEmpties
<1>9. CASE UNCHANGED linkedVars
  BY <1>2, <1>9 DEF linkedVars
<1> QED BY <1>4, <1>5, <1>6, <1>7, <1>8, <1>9 DEF LinkedNext

\* At every moment some sequence of distinct nodes, in the order of their keys, is what
\* first, last, length, next and prev of linked_list.c describe.
THEOREM ListInvariant == LinkedSpec => []ListInv
<1>1. LinkedInit => ListInv
  BY EmptyRep DEF ListInv, LinkedInit
<1>2. ListInv /\ [LinkedNext]_linkedVars => ListInv'
  BY ListStep
<1> QED BY <1>1, <1>2, PTL DEF LinkedSpec

\* Such a list can be walked both ways and has no other nodes.
LEMMA RepWellLinked ==
  ASSUME ListInv
  PROVE  WellLinked /\ NoLeak
<1>1. PICK s : Rep(heap, first, last, length, s)
  BY DEF ListInv
<1>2. /\ s \in Seq(Nodes) /\ Once(s) /\ length = Len(s) /\ Len(s) \in Nat /\ DOMAIN s = 1 .. Len(s)
      /\ heap \in [Allocated -> Node] /\ Allocated \subseteq Nodes
      /\ \A i \in DOMAIN s : s[i] \in Allocated
      /\ first = NULL <=> Len(s) = 0
      /\ Len(s) # 0 => first = s[1] /\ last = s[Len(s)]
  BY <1>1, RepFacts DEF Allocated
<1>3. Cardinality(Allocated) = Len(s) /\ Len(s) <= Cardinality(Nodes) /\ Cardinality(Nodes) \in Nat
  BY <1>1, RepSize, ListAssumption, FS_CardinalityType DEF Allocated
<1>4. /\ \A i \in 1 .. Len(s) + 1 : NodeAt[i] = At(s, i)
      /\ Chain = Allocated
  BY <1>1, ChainIs
<1>5. last = IF Len(s) = 0 THEN NULL ELSE s[Len(s)]
  <2>1. Len(s) = 0 => last = NULL
    BY <1>1, <1>2 DEF Rep, At
  <2> QED BY <1>2, <2>1
<1>6. LinkedTypeOK
  <2>1. \A n \in Allocated : heap[n] \in Node
    BY <1>2
  <2>2. first \in Allocated \cup {NULL} /\ last \in Allocated \cup {NULL}
    <3>1. Len(s) # 0 => 1 \in DOMAIN s /\ Len(s) \in DOMAIN s
      BY <1>2
    <3> QED BY <1>2, <1>5, <3>1
  <2>3. length \in 0 .. Cardinality(Nodes)
    BY <1>2, <1>3
  <2> QED BY <1>2, <2>1, <2>2, <2>3 DEF LinkedTypeOK, ListInv
<1>7. NodeAt[length + 1] = NULL
  <2>1. Len(s) + 1 \in 1 .. Len(s) + 1 /\ Len(s) + 1 \notin DOMAIN s
    BY <1>2
  <2> QED BY <1>2, <1>4, <2>1 DEF At
<1>8. \A i \in 1 .. length : NodeAt[i] = s[i]
  BY <1>2, <1>4 DEF At
<1>9. last = IF length = 0 THEN NULL ELSE NodeAt[length]
  BY <1>2, <1>5, <1>8
<1>10. ASSUME NEW i \in 1 .. length
       PROVE  heap[NodeAt[i]].prev = IF i = 1 THEN NULL ELSE NodeAt[i - 1]
  <2>1. heap[NodeAt[i]].prev = At(s, i - 1)
    BY <1>1, <1>2, <1>8 DEF Rep
  <2>2. CASE i = 1
    BY <1>2, <2>1, <2>2 DEF At
  <2>3. CASE i # 1
    <3>1. i - 1 \in 1 .. length
      BY <1>2, <2>3
    <3> QED BY <1>2, <1>8, <2>1, <2>3, <3>1 DEF At
  <2> QED BY <2>2, <2>3
<1> QED BY <1>2, <1>3, <1>4, <1>6, <1>7, <1>9, <1>10 DEF WellLinked, NoLeak

\* Whatever sequence of operations has run, the list of linked_list.c can be walked in both
\* directions and ends at last, and length counts its nodes.
THEOREM ListWellLinked == LinkedSpec => []WellLinked
BY ListInvariant, RepWellLinked, PTL

\* No node of linked_list.c is lost, and none is freed while it is on the list.
THEOREM ListNoLeak == LinkedSpec => []NoLeak
BY ListInvariant, RepWellLinked, PTL

-----------------------------------------------------------------------------
(***************************************************************************)
(* The list as its callers see it: what stands at the places of s.         *)
(***************************************************************************)
Item == [key : Int, data : Data]
ItemOf(h, x) == [key |-> h[x].key, data |-> h[x].data]
ItemsOf(h, s) == [i \in 1 .. Len(s) |-> ItemOf(h, s[i])]
Seen(h, f, n) == [i \in 1 .. n |-> ItemOf(h, Walk(h, f)[i])]

\* Walking a described list shows its items.
LEMMA SeenIs ==
  ASSUME NEW h, NEW f, NEW l, NEW n, NEW s, Rep(h, f, l, n, s)
  PROVE  Seen(h, f, n) = ItemsOf(h, s)
<1>1. n = Len(s) /\ Len(s) \in Nat /\ DOMAIN s = 1 .. Len(s)
  BY RepFacts
<1>2. \A i \in 1 .. Len(s) + 1 : Walk(h, f)[i] = At(s, i)
  BY WalkIs
<1>3. \A i \in 1 .. Len(s) : Walk(h, f)[i] = s[i]
  BY <1>1, <1>2 DEF At
<1> QED BY <1>1, <1>3 DEF Seen, ItemsOf

LEMMA ItemsSeen == Items = Seen(heap, first, length) /\ Items' = Seen(heap', first', length')
<1>1. NodeAt = Walk(heap, first) /\ NodeAt' = Walk(heap', first')
  BY DEF NodeAt, Walk, Allocated
<1>2. Items = Seen(heap, first, length)
  BY <1>1 DEF Items, Seen, ItemOf
<1>3. Items' = Seen(heap', first', length')
  BY <1>1 DEF Items, Seen, ItemOf
<1> QED BY <1>2, <1>3

\* The items are a sequence in the order of the keys.
LEMMA ItemsFacts ==
  ASSUME NEW h, NEW f, NEW l, NEW n, NEW s, Rep(h, f, l, n, s)
  PROVE  /\ ItemsOf(h, s) \in Seq(Item) /\ Len(ItemsOf(h, s)) = Len(s)
         /\ DOMAIN ItemsOf(h, s) = DOMAIN s
         /\ \A i \in DOMAIN s : ItemsOf(h, s)[i] = ItemOf(h, s[i]) /\ ItemOf(h, s[i]) \in Item
         /\ L!Ordered(ItemsOf(h, s))
<1> DEFINE t == ItemsOf(h, s)
<1>1. /\ Len(s) \in Nat /\ DOMAIN s = 1 .. Len(s)
      /\ \A i \in DOMAIN s : h[s[i]].key \in Int /\ h[s[i]].data \in Data
  BY RepFacts
<1>2. \A i \in DOMAIN s : ItemOf(h, s[i]) \in Item /\ ItemOf(h, s[i]).key = h[s[i]].key
  BY <1>1 DEF ItemOf, Item
<1>3. t \in [1 .. Len(s) -> Item] /\ \A i \in DOMAIN s : t[i] = ItemOf(h, s[i])
  BY <1>1, <1>2 DEF ItemsOf
<1> HIDE DEF t
<1>4. t \in Seq(Item) /\ Len(t) = Len(s) /\ DOMAIN t = DOMAIN s
  BY <1>1, <1>3
<1>5. \A i, j \in DOMAIN s : i <= j => h[s[i]].key <= h[s[j]].key
  BY DEF Rep
<1>6. L!Ordered(t)
  <2>1. ASSUME NEW i \in DOMAIN t, NEW j \in DOMAIN t, i < j PROVE t[i].key <= t[j].key
    <3>1. i \in DOMAIN s /\ j \in DOMAIN s /\ i <= j
      BY <1>1, <1>4, <2>1
    <3> QED BY <1>2, <1>3, <1>5, <3>1
  <2> QED BY <2>1 DEF L!Ordered
<1> QED BY <1>2, <1>3, <1>4, <1>6 DEF t

\* Putting into a sequence, as the library's operators say it.
LEMMA WithIs ==
  ASSUME NEW S, NEW t \in Seq(S), NEW e \in S, NEW j \in 0 .. Len(t)
  PROVE  With(t, j, e) = SubSeq(t, 1, j) \o <<e>> \o SubSeq(t, j + 1, Len(t))
<1> DEFINE a == SubSeq(t, 1, j)
           b == SubSeq(t, j + 1, Len(t))
           n == Len(t)
<1>1. n \in Nat /\ DOMAIN t = 1 .. n /\ j \in Nat /\ j <= n
  OBVIOUS
<1>2. a \in Seq(S) /\ Len(a) = j /\ b \in Seq(S) /\ Len(b) = n - j
  BY OnceCut
<1>3. (\A i \in 1 .. j : a[i] = t[i]) /\ (\A i \in 1 .. n - j : b[i] = t[j + i])
  <2>1. \A i \in 1 .. j : a[i] = t[i]
    BY <1>1
  <2>2. ASSUME NEW i \in 1 .. n - j PROVE b[i] = t[j + i]
    BY <1>1
  <2> QED BY <2>1, <2>2
<1> HIDE DEF a, b
<1>4. <<e>> \in Seq(S) /\ Len(<<e>>) = 1 /\ <<e>>[1] = e
  OBVIOUS
<1> DEFINE c == a \o <<e>>
<1>5. /\ c \in Seq(S) /\ Len(c) = j + 1 /\ c[j + 1] = e /\ \A i \in 1 .. j : c[i] = t[i]
  BY <1>1, <1>2, <1>3, <1>4
<1> HIDE DEF c
<1> DEFINE r == c \o b
<1>6. r \in Seq(S) /\ Len(r) = n + 1
  <2>1. r \in Seq(S) /\ Len(r) = Len(c) + Len(b)
    BY <1>2, <1>5, ConcatProperties
  <2>2. Len(c) + Len(b) = n + 1
    BY <1>1, <1>2, <1>5
  <2> QED BY <2>1, <2>2
<1>7. DOMAIN r = 1 .. n + 1 /\ r = [i \in 1 .. n + 1 |-> r[i]]
  <2> HIDE DEF r
  <2> QED BY <1>6
<1>8. ASSUME NEW i \in 1 .. n + 1
      PROVE  r[i] = IF i <= j THEN t[i] ELSE IF i = j + 1 THEN e ELSE t[i - 1]
  <2>1. CASE i <= j + 1
    <3>1. i \in 1 .. Len(c) /\ r[i] = c[i]
      BY <1>1, <1>2, <1>5, <1>8, <2>1
    <3> QED BY <1>1, <1>5, <2>1, <3>1
  <2>2. CASE ~(i <= j + 1)
    <3>1. PICK m \in 1 .. n - j : i = (j + 1) + m /\ i - 1 = j + m
      <4>1. i - (j + 1) \in 1 .. n - j /\ i = (j + 1) + (i - (j + 1)) /\ i - 1 = j + (i - (j + 1))
        BY <1>1, <2>2
      <4> QED BY <4>1
    <3>2. Len(c) + Len(b) = n + 1 /\ ~(i <= Len(c)) /\ i - Len(c) = m
      BY <1>1, <1>2, <1>5, <2>2, <3>1
    <3>3. r[i] = b[i - Len(c)]
      BY <1>2, <1>5, <3>2, ConcatProperties
    <3>4. b[m] = t[j + m]
      BY <1>3
    <3>5. r[i] = t[i - 1]
      BY <3>1, <3>2, <3>3, <3>4
    <3>6. ~(i <= j) /\ i # j + 1
      BY <1>1, <2>2
    <3> HIDE DEF r
    <3> QED BY <3>5, <3>6
  <2> QED BY <2>1, <2>2
<1> DEFINE w == With(t, j, e)
<1>9. DOMAIN w = 1 .. n + 1 /\ w = [i \in 1 .. n + 1 |-> w[i]]
      /\ \A i \in 1 .. n + 1 : w[i] = IF i <= j THEN t[i] ELSE IF i = j + 1 THEN e ELSE t[i - 1]
  BY DEF With
<1> HIDE DEF r, w
<1>11. \A i \in 1 .. n + 1 : w[i] = r[i]
  BY <1>8, <1>9
<1>12. w = r
  BY <1>7, <1>9, <1>11
<1> QED BY <1>12 DEF w, r, c, a, b

\* The items after a node has been linked in, and after one has been taken out.
LEMMA ItemsWith ==
  ASSUME NEW h, NEW f, NEW l, NEW n, NEW s, Rep(h, f, l, n, s), NEW j \in 0 .. Len(s), NEW x \in Nodes,
         NEW k \in Int, NEW d \in Data, NEW h2, LinkedIn(h, s, j, x, k, d, h2)
  PROVE  ItemsOf(h2, With(s, j, x)) = With(ItemsOf(h, s), j, [key |-> k, data |-> d])
<1> DEFINE t == ItemsOf(h, s)
           e == [key |-> k, data |-> d]
           r == With(s, j, x)
<1>1. s \in Seq(Nodes) /\ Len(s) \in Nat /\ DOMAIN s = 1 .. Len(s) /\ \A i \in DOMAIN s : s[i] \in DOMAIN h
  BY RepFacts
<1>2. Len(t) = Len(s) /\ \A i \in DOMAIN s : t[i] = ItemOf(h, s[i])
  BY ItemsFacts
<1>3. /\ Len(r) = Len(s) + 1
      /\ \A i \in 1 .. Len(s) + 1 : r[i] = IF i <= j THEN s[i] ELSE IF i = j + 1 THEN x ELSE s[i - 1]
  <2>1. Len(r) = Len(s) + 1
    BY <1>1, WithFacts
  <2> QED BY <2>1 DEF With
<1>4. /\ \A m \in DOMAIN h : ItemOf(h2, m) = ItemOf(h, m)
      /\ ItemOf(h2, x) = e
  BY DEF LinkedIn, ItemOf
<1> HIDE DEF t, e, r
<1>5. \A i \in 1 .. Len(s) + 1 : ItemOf(h2, r[i]) = IF i <= j THEN t[i] ELSE IF i = j + 1 THEN e ELSE t[i - 1]
  <2> TAKE i \in 1 .. Len(s) + 1
  <2>1. CASE i <= j
    <3>1. i \in DOMAIN s
      BY <1>1, <2>1
    <3> QED BY <1>1, <1>2, <1>3, <1>4, <2>1, <3>1
  <2>2. CASE i = j + 1
    <3>1. ~(i <= j)
      BY <1>1, <2>2
    <3> QED BY <1>3, <1>4, <2>2, <3>1
  <2>3. CASE ~(i <= j) /\ i # j + 1
    <3>1. i - 1 \in DOMAIN s
      BY <1>1, <2>3
    <3> QED BY <1>1, <1>2, <1>3, <1>4, <2>3, <3>1
  <2> QED BY <2>1, <2>2, <2>3
<1>6. ItemsOf(h2, r) = [i \in 1 .. Len(s) + 1 |-> ItemOf(h2, r[i])]
  BY <1>3 DEF ItemsOf
<1>7. ItemsOf(h2, r) = With(t, j, e)
  BY <1>2, <1>5, <1>6 DEF With
<1> QED BY <1>7 DEF t, e, r

LEMMA ItemsWithout ==
  ASSUME NEW h, NEW f, NEW l, NEW n, NEW s, Rep(h, f, l, n, s), NEW j \in DOMAIN s, NEW c,
         NEW h2, LinkedOut(h, s, j, c, h2)
  PROVE  /\ ItemsOf(h2, Without(s, j)) =
               [i \in 1 .. Len(s) - 1 |-> ItemOf(h2, s[IF i < j THEN i ELSE i + 1])]
         /\ \A i \in 1 .. Len(s) - 1 :
               LET g == IF i < j THEN i ELSE i + 1 IN
               /\ g \in DOMAIN s
               /\ ItemOf(h2, s[g]) = [key |-> h[s[g]].key - c, data |-> h[s[g]].data]
<1> DEFINE g(i) == IF i < j THEN i ELSE i + 1
<1>1. /\ s \in Seq(Nodes) /\ Len(s) \in Nat /\ DOMAIN s = 1 .. Len(s) /\ Once(s)
      /\ \A i \in DOMAIN s : s[i] \in DOMAIN h
  BY RepFacts
<1>2. Len(Without(s, j)) = Len(s) - 1 /\ \A i \in 1 .. Len(s) - 1 : Without(s, j)[i] = s[g(i)]
  <2>1. Len(Without(s, j)) = Len(s) - 1
    <3>1. s \in Seq(Nodes)
      BY <1>1
    <3> HIDE DEF g
    <3> QED BY <3>1, WithoutFacts
  <2> QED BY <2>1 DEF Without
<1>3. \A i \in 1 .. Len(s) - 1 : g(i) \in DOMAIN s /\ g(i) # j
  BY <1>1
<1> HIDE DEF g
<1>4. \A i \in 1 .. Len(s) - 1 : s[g(i)] \in DOMAIN h \ {s[j]}
  BY <1>1, <1>3 DEF Once
<1>5. \A m \in DOMAIN h \ {s[j]} : ItemOf(h2, m) = [key |-> h[m].key - c, data |-> h[m].data]
  BY DEF LinkedOut, ItemOf
<1>6. ItemsOf(h2, Without(s, j)) = [i \in 1 .. Len(s) - 1 |-> ItemOf(h2, s[g(i)])]
  BY <1>2 DEF ItemsOf
<1>7. \A i \in 1 .. Len(s) - 1 : /\ g(i) \in DOMAIN s
                                 /\ ItemOf(h2, s[g(i)]) = [key |-> h[s[g(i)]].key - c, data |-> h[s[g(i)]].data]
  BY <1>3, <1>4, <1>5
<1> QED BY <1>6, <1>7 DEF g

\* The least key of an ordered list is the first one's.
LEMMA MinKeyIs ==
  ASSUME NEW t \in Seq(Item), Len(t) # 0, L!Ordered(t)
  PROVE  L!MinKey(t) = t[1].key
<1> DEFINE P(k) == k \in {t[i].key : i \in DOMAIN t} /\ \A j \in DOMAIN t : k <= t[j].key
<1>1. Len(t) \in Nat /\ DOMAIN t = 1 .. Len(t) /\ 1 \in DOMAIN t /\ \A i \in DOMAIN t : t[i] \in Item
  OBVIOUS
<1>2. \A i \in DOMAIN t : t[i].key \in Int
  BY <1>1 DEF Item
<1>3. \A j \in DOMAIN t : t[1].key <= t[j].key
  <2> TAKE j \in DOMAIN t
  <2>1. CASE j = 1
    BY <1>1, <1>2, <2>1
  <2>2. CASE j # 1
    <3>1. 1 < j
      BY <1>1, <2>2
    <3> QED BY <1>1, <3>1 DEF L!Ordered
  <2> QED BY <2>1, <2>2
<1>4. P(t[1].key)
  BY <1>1, <1>3
<1>5. ASSUME NEW k, P(k) PROVE k = t[1].key
  <2>1. PICK i \in DOMAIN t : k = t[i].key
    BY <1>5
  <2>2. k <= t[1].key /\ t[1].key <= k
    BY <1>1, <1>3, <1>5, <2>1
  <2> QED BY <1>1, <1>2, <2>1, <2>2
<1>6. L!MinKey(t) = CHOOSE k : P(k)
  BY DEF L!MinKey
<1> HIDE DEF P
<1>7. P(CHOOSE k : P(k))
  BY <1>4, Zenon
<1> QED BY <1>5, <1>6, <1>7

LEMMA PutFirst ==
  ASSUME NEW S, NEW t \in Seq(S), NEW e \in S
  PROVE  With(t, 0, e) = <<e>> \o t
<1> DEFINE n == Len(t)
           r == <<e>> \o t
           w == With(t, 0, e)
<1>1. n \in Nat /\ DOMAIN t = 1 .. n /\ <<e>> \in Seq(S) /\ Len(<<e>>) = 1 /\ <<e>>[1] = e
  OBVIOUS
<1>2. r \in Seq(S) /\ Len(r) = 1 + n /\ \A i \in 1 .. 1 + n : r[i] = IF i <= 1 THEN e ELSE t[i - 1]
  BY <1>1, ConcatProperties
<1>3. /\ w = [i \in 1 .. n + 1 |-> w[i]]
      /\ \A i \in 1 .. n + 1 : w[i] = IF i <= 0 THEN t[i] ELSE IF i = 0 + 1 THEN e ELSE t[i - 1]
  BY DEF With
<1> HIDE DEF r, w
<1>4. r = [i \in 1 .. n + 1 |-> r[i]] /\ 1 + n = n + 1
  BY <1>1, <1>2
<1>5. \A i \in 1 .. n + 1 : w[i] = r[i]
  <2> TAKE i \in 1 .. n + 1
  <2>1. ~(i <= 0) /\ (i <= 1 <=> i = 1) /\ 0 + 1 = 1 /\ i \in 1 .. 1 + n
    BY <1>1
  <2> QED BY <1>2, <1>3, <2>1
<1>6. w = r
  BY <1>3, <1>4, <1>5
<1> QED BY <1>6 DEF w, r

\* What the callers see after an operation that linked a node in.
LEMMA AddedItems ==
  ASSUME NEW s, Rep(heap, first, last, length, s), NEW n \in Nodes, NEW j, NEW k \in Int, NEW d \in Data,
         Added(s, j, n, k, d)
  PROVE  /\ Items \in Seq(Item) /\ Len(Items) = Len(s) /\ j \in 0 .. Len(Items)
         /\ Items' = With(Items, j, [key |-> k, data |-> d])
         /\ L!Ordered(Items) /\ L!Ordered(Items')
         /\ \A i \in DOMAIN s : Items[i] = ItemOf(heap, s[i])
<1>1. /\ j \in 0 .. Len(s) /\ LinkedIn(heap, s, j, n, k, d, heap')
      /\ Rep(heap', first', last', length', With(s, j, n))
  BY DEF Added
<1>2. Items = ItemsOf(heap, s) /\ Items' = ItemsOf(heap', With(s, j, n))
  BY <1>1, ItemsSeen, SeenIs
<1>3. ItemsOf(heap', With(s, j, n)) = With(ItemsOf(heap, s), j, [key |-> k, data |-> d])
  BY <1>1, ItemsWith
<1>4. /\ ItemsOf(heap, s) \in Seq(Item) /\ Len(ItemsOf(heap, s)) = Len(s) /\ L!Ordered(ItemsOf(heap, s))
      /\ \A i \in DOMAIN s : ItemsOf(heap, s)[i] = ItemOf(heap, s[i])
  BY ItemsFacts
<1>5. L!Ordered(ItemsOf(heap', With(s, j, n)))
  BY <1>1, ItemsFacts
<1> QED BY <1>1, <1>2, <1>3, <1>4, <1>5

\* linked_list_prepend is a PrependItem.
LEMMA PrependRefines ==
  ASSUME NEW s, Rep(heap, first, last, length, s), NEW n \in Nodes, NEW d \in Data,
         linked_list_prepend(n, d)
  PROVE  L!PrependItem(d)
<1> DEFINE k == IF Len(s) = 0 THEN 0 ELSE heap[s[1]].key - 1
           e == [key |-> k, data |-> d]
<1>1. Len(s) \in Nat /\ DOMAIN s = 1 .. Len(s) /\ (\A i \in DOMAIN s : heap[s[i]].key \in Int)
  BY RepFacts
<1>2. Added(s, 0, n, k, d)
  BY PrependAdds
<1>3. k \in Int
  BY <1>1
<1> HIDE DEF k
<1>4. /\ Items \in Seq(Item) /\ Len(Items) = Len(s) /\ Items' = With(Items, 0, e) /\ L!Ordered(Items)
      /\ \A i \in DOMAIN s : Items[i] = ItemOf(heap, s[i])
  <2>1. PICK j : j = 0
    OBVIOUS
  <2>2. Added(s, j, n, k, d)
    BY <1>2, <2>1
  <2>3. /\ Items \in Seq(Item) /\ Len(Items) = Len(s) /\ Items' = With(Items, j, e) /\ L!Ordered(Items)
        /\ \A i \in DOMAIN s : Items[i] = ItemOf(heap, s[i])
    BY <1>3, <2>2, AddedItems
  <2> QED BY <2>1, <2>3
<1>5. e \in Item
  BY <1>3 DEF Item
<1>6. Items' = <<e>> \o Items
  BY <1>4, <1>5, PutFirst
<1>7. k = IF Items = <<>> THEN 0 ELSE L!MinKey(Items) - 1
  <2>1. CASE Len(s) = 0
    BY <1>4, <2>1 DEF k
  <2>2. CASE Len(s) # 0
    <3>1. Items # <<>> /\ 1 \in DOMAIN s
      BY <1>1, <1>4, <2>2
    <3>2. L!MinKey(Items) = Items[1].key
      BY <1>4, <2>2, MinKeyIs
    <3>3. Items[1].key = heap[s[1]].key
      <4>1. Items[1] = ItemOf(heap, s[1])
        BY <1>4, <3>1
      <4>2. ItemOf(heap, s[1]).key = heap[s[1]].key
        BY DEF ItemOf
      <4> HIDE DEF Items
      <4> QED BY <4>1, <4>2
    <3> QED BY <2>2, <3>1, <3>2, <3>3 DEF k
  <2> QED BY <2>1, <2>2
<1>8. ret' = ret
  BY DEF linked_list_prepend
<1> QED BY <1>6, <1>7, <1>8 DEF L!PrependItem

\* linked_list_insert is an InsertItem.
LEMMA InsertRefines ==
  ASSUME NEW s, Rep(heap, first, last, length, s), NEW n \in Nodes, NEW k \in Int, NEW d \in Data,
         linked_list_insert(n, k, d)
  PROVE  L!InsertItem(k, d)
<1> DEFINE e == [key |-> k, data |-> d]
<1>1. PICK j : Added(s, j, n, k, d)
  BY InsertAdds
<1>2. /\ Items \in Seq(Item) /\ j \in 0 .. Len(Items) /\ Items' = With(Items, j, e) /\ L!Ordered(Items')
  BY <1>1, AddedItems
<1>3. e \in Item
  BY DEF Item
<1>4. Items' = SubSeq(Items, 1, j) \o <<e>> \o SubSeq(Items, j + 1, Len(Items))
  BY <1>2, <1>3, WithIs
<1>5. ret' = ret
  BY DEF linked_list_insert
<1> QED BY <1>2, <1>4, <1>5 DEF L!InsertItem

\* What the callers see after an operation that took a node out.
LEMMA RemovedItems ==
  ASSUME NEW s, Rep(heap, first, last, length, s), NEW j \in DOMAIN s, NEW c \in Int, Removed(s, j, c)
  PROVE  /\ Items \in Seq(Item) /\ Len(Items) = Len(s) /\ DOMAIN Items = DOMAIN s
         /\ \A i \in DOMAIN s : Items[i] = ItemOf(heap, s[i])
         /\ Items' = [i \in 1 .. Len(Items) - 1 |->
                        LET it == IF i < j THEN Items[i] ELSE Items[i + 1] IN
                        [it EXCEPT !.key = @ - c]]
<1>1. LinkedOut(heap, s, j, c, heap') /\ Rep(heap', first', last', length', Without(s, j))
  BY DEF Removed
<1>2. Items = ItemsOf(heap, s) /\ Items' = ItemsOf(heap', Without(s, j))
  BY <1>1, ItemsSeen, SeenIs
<1>3. /\ Items \in Seq(Item) /\ Len(Items) = Len(s) /\ DOMAIN Items = DOMAIN s
      /\ \A i \in DOMAIN s : Items[i] = ItemOf(heap, s[i])
  <2>1. /\ ItemsOf(heap, s) \in Seq(Item) /\ Len(ItemsOf(heap, s)) = Len(s)
        /\ DOMAIN ItemsOf(heap, s) = DOMAIN s
        /\ \A i \in DOMAIN s : ItemsOf(heap, s)[i] = ItemOf(heap, s[i])
    BY ItemsFacts
  <2> QED BY <1>2, <2>1
<1> DEFINE g(i) == IF i < j THEN i ELSE i + 1
<1>4. Items' = [i \in 1 .. Len(s) - 1 |-> ItemOf(heap', s[g(i)])]
  BY <1>1, <1>2, ItemsWithout
<1>5. \A i \in 1 .. Len(s) - 1 :
        g(i) \in DOMAIN s /\ ItemOf(heap', s[g(i)]) = [key |-> heap[s[g(i)]].key - c, data |-> heap[s[g(i)]].data]
  BY <1>1, ItemsWithout
<1>6. ASSUME NEW i \in 1 .. Len(s) - 1
      PROVE  ItemOf(heap', s[g(i)]) =
               LET it == IF i < j THEN Items[i] ELSE Items[i + 1] IN [it EXCEPT !.key = @ - c]
  <2> DEFINE it == IF i < j THEN Items[i] ELSE Items[i + 1]
  <2>1. it = ItemOf(heap, s[g(i)])
    BY <1>3, <1>5
  <2> HIDE DEF it, g
  <2>2. [it EXCEPT !.key = @ - c] = [key |-> heap[s[g(i)]].key - c, data |-> heap[s[g(i)]].data]
    BY <2>1 DEF ItemOf
  <2>3. ItemOf(heap', s[g(i)]) = [it EXCEPT !.key = @ - c]
    BY <1>5, <2>2
  <2> QED BY <2>3 DEF it
<1> QED BY <1>3, <1>4, <1>6

\* linked_list_remove is a RemoveItem of a place of the list.
LEMMA RemoveRefines ==
  ASSUME NEW s, Rep(heap, first, last, length, s), NEW n, linked_list_remove(n)
  PROVE  \E j \in DOMAIN Items : L!RemoveItem(j)
<1>1. PICK j \in DOMAIN s : Removed(s, j, 1)
  BY RemoveTakes
<1>2. /\ DOMAIN Items = DOMAIN s
      /\ Items' = [i \in 1 .. Len(Items) - 1 |->
                     LET it == IF i < j THEN Items[i] ELSE Items[i + 1] IN
                     [it EXCEPT !.key = @ - 1]]
  BY <1>1, RemovedItems
<1>3. ret' = ret
  BY DEF linked_list_remove
<1> QED BY <1>2, <1>3 DEF L!RemoveItem

LEMMA TailIs ==
  ASSUME NEW S, NEW t \in Seq(S), t # <<>>
  PROVE  Tail(t) = [i \in 1 .. Len(t) - 1 |-> t[i + 1]]
<1> DEFINE r == Tail(t)
           n == Len(t) - 1
<1>1. r \in Seq(S) /\ Len(r) = n /\ n \in Nat /\ \A i \in 1 .. n : r[i] = t[i + 1]
  OBVIOUS
<1> HIDE DEF r, n
<1>2. r = [i \in 1 .. n |-> r[i]]
  BY <1>1
<1>3. r = [i \in 1 .. n |-> t[i + 1]]
  BY <1>1, <1>2
<1> QED BY <1>3 DEF r, n

\* linked_list_remove_head is a RemoveFirst.
LEMMA RemoveHeadRefines ==
  ASSUME NEW s, Rep(heap, first, last, length, s), linked_list_remove_head
  PROVE  L!RemoveFirst
<1>1. CASE RemoveHeadEmpty
  <2>1. Items = <<>>
    <3>1. Items = ItemsOf(heap, s)
      BY ItemsSeen, SeenIs
    <3>2. Len(s) = 0
      BY <1>1, RepFacts DEF RemoveHeadEmpty
    <3>3. ItemsOf(heap, s) \in Seq(Item) /\ Len(ItemsOf(heap, s)) = Len(s)
      BY ItemsFacts
    <3> HIDE DEF Items
    <3> QED BY <3>1, <3>2, <3>3
  <2>2. Items' = Items
    BY <1>1, ItemsSeen DEF RemoveHeadEmpty
  <2> QED BY <1>1, <2>1, <2>2 DEF RemoveHeadEmpty, L!RemoveFirst
<1>2. CASE RemoveHeadFirst
  <2>1. 1 \in DOMAIN s /\ Removed(s, 1, 0) /\ ret' = [key |-> heap[s[1]].key, data |-> heap[s[1]].data]
    BY <1>2, HeadLeaves
  <2>2. PICK j \in DOMAIN s : j = 1
    BY <2>1
  <2> DEFINE it(i) == IF i < j THEN Items[i] ELSE Items[i + 1]
  <2>3. /\ Items \in Seq(Item) /\ Len(Items) = Len(s) /\ DOMAIN Items = DOMAIN s
        /\ \A i \in DOMAIN s : Items[i] = ItemOf(heap, s[i])
        /\ Items' = [i \in 1 .. Len(Items) - 1 |-> [it(i) EXCEPT !.key = @ - 0]]
    BY <2>1, <2>2, RemovedItems
  <2>4. Len(Items) \in Nat /\ DOMAIN Items = 1 .. Len(Items) /\ Items # <<>> /\ Head(Items) = Items[1]
    BY <2>1, <2>3
  <2>5. ret' = Head(Items)
    BY <2>1, <2>3, <2>4 DEF ItemOf
  <2>6. \A i \in 1 .. Len(Items) - 1 : [it(i) EXCEPT !.key = @ - 0] = Items[i + 1]
    <3> TAKE i \in 1 .. Len(Items) - 1
    <3>1. it(i) = Items[i + 1] /\ i + 1 \in DOMAIN Items
      BY <2>2, <2>4
    <3>2. Items[i + 1] \in Item
      BY <2>3, <3>1
    <3> HIDE DEF it
    <3> DEFINE r == Items[i + 1]
    <3>3. r \in Item
      BY <3>2
    <3> HIDE DEF r
    <3>4. r.key \in Int /\ r.key - 0 = r.key
      BY <3>3 DEF Item
    <3>5. [r EXCEPT !.key = @ - 0] = r
      BY <3>3, <3>4 DEF Item
    <3>6. it(i) = r
      BY <3>1 DEF r
    <3>7. [it(i) EXCEPT !.key = @ - 0] = r
      BY <3>5, <3>6
    <3> QED BY <3>7 DEF r
  <2>7. Items' = [i \in 1 .. Len(Items) - 1 |-> Items[i + 1]]
    BY <2>3, <2>6
  <2>8. Items' = Tail(Items)
    <3>1. Tail(Items) = [i \in 1 .. Len(Items) - 1 |-> Items[i + 1]]
      BY <2>3, <2>4, TailIs
    <3> QED BY <2>7, <3>1, Zenon
  <2>9. Items # <<>>
    BY <2>4
  <2> QED BY <2>5, <2>8, <2>9, Zenon DEF L!RemoveFirst
<1> QED BY <1>1, <1>2 DEF linked_list_remove_head

\* linked_list_destroy is a Clear.
LEMMA DestroyRefines ==
  ASSUME NEW s, Rep(heap, first, last, length, s), linked_list_destroy
  PROVE  L!Clear
<1>1. Rep(heap', first', last', length', <<>>)
  BY DestroyEmpties
<1>2. Items' = ItemsOf(heap', <<>>)
  BY <1>1, ItemsSeen, SeenIs
<1>3. Len(ItemsOf(heap', <<>>)) = 0 /\ ItemsOf(heap', <<>>) \in Seq(Item)
  <2>1. Len(ItemsOf(heap', <<>>)) = Len(<<>>) /\ ItemsOf(heap', <<>>) \in Seq(Item)
    BY <1>1, ItemsFacts
  <2> QED BY <2>1
<1>4. Items' = <<>>
  BY <1>2, <1>3
<1>5. ret' = ret
  BY DEF linked_list_destroy
<1> QED BY <1>4, <1>5 DEF L!Clear

\* The pointer operations of linked_list.c implement the ordered sequence of linked_list.h.
THEOREM ListRefines == LinkedSpec => ImplementsOrderedList
<1>1. LinkedInit => L!ListInit
  <2> SUFFICES ASSUME LinkedInit PROVE L!ListInit
    OBVIOUS
  <2>1. Items = <<>>
    BY DEF LinkedInit, Items
  <2> QED BY <2>1 DEF L!ListInit, LinkedInit
<1>2. ListInv /\ [LinkedNext]_linkedVars => [L!ListNext]_(L!listVars)
  <2> SUFFICES ASSUME ListInv, [LinkedNext]_linkedVars PROVE L!ListNext \/ UNCHANGED L!listVars
    OBVIOUS
  <2>1. PICK s : Rep(heap, first, last, length, s)
    BY DEF ListInv
  <2>2. ASSUME NEW n \in Nodes, NEW d \in Data, linked_list_prepend(n, d) PROVE L!ListNext
    BY <2>1, <2>2, PrependRefines DEF L!ListNext
  <2>3. ASSUME NEW n \in Nodes, NEW k \in InsertKeys, NEW d \in Data, linked_list_insert(n, k, d)
        PROVE  L!ListNext
    <3>1. k \in Int
      BY ListAssumption
    <3>2. L!InsertItem(k, d)
      BY <2>1, <2>3, <3>1, InsertRefines
    <3> QED BY <3>2 DEF L!ListNext
  <2>4. CASE linked_list_remove_head
    BY <2>1, <2>4, RemoveHeadRefines DEF L!ListNext
  <2>5. ASSUME NEW n \in Nodes, linked_list_remove(n) PROVE L!ListNext
    BY <2>1, <2>5, RemoveRefines DEF L!ListNext
  <2>6. CASE linked_list_destroy
    BY <2>1, <2>6, DestroyRefines DEF L!ListNext
  <2>7. CASE UNCHANGED linkedVars
    <3>1. Items' = Items
      BY <2>7, ItemsSeen DEF linkedVars
    <3> QED BY <2>7, <3>1 DEF linkedVars, L!listVars
  <2> QED BY <2>2, <2>3, <2>4, <2>5, <2>6, <2>7 DEF LinkedNext
<1> QED BY <1>1, <1>2, ListInvariant, PTL DEF LinkedSpec, ImplementsOrderedList, L!ListSpec
=============================================================================
