---------------------------- MODULE HangmanProofs --------------------------
(***************************************************************************)
(* Proofs about Hangman, for any number of threads and locks.              *)
(*                                                                         *)
(* RecordsInv says how far hangman's records and the locks may differ: a   *)
(* holder hangman does not know of yet, and one it has not forgotten yet.  *)
(* NoCircle says that the records themselves never hold a circle.  From    *)
(* the two it follows that the locks do not either.                        *)
(***************************************************************************)
EXTENDS Hangman, Facts

ActorsInv ==
    \A t \in Threads :
        /\ pc[t] \in {"block", "taken"} => at[t] \in Locks /\ a_waiting[t] = at[t]
        /\ pc[t] \in {"run", "freed"} => a_waiting[t] = NULL
        /\ pc[t] = "taken" => lk_owner[at[t]] = t
        /\ pc[t] = "freed" => at[t] \in Locks /\ l_holding[at[t]] = t /\ lk_owner[at[t]] # t

LockablesInv ==
    \A l \in Locks :
        /\ lk_owner[l] # NULL =>
            \/ l_holding[l] = lk_owner[l]
            \/ pc[lk_owner[l]] = "taken" /\ at[lk_owner[l]] = l
        /\ l_holding[l] # NULL =>
            \/ lk_owner[l] = l_holding[l]
            \/ pc[l_holding[l]] = "freed" /\ at[l_holding[l]] = l

RecordsInv == ActorsInv /\ LockablesInv

\* The actors in D wait for each other, as far as hangman knows.
Circle(D) == D # {} /\ \A t \in D : a_waiting[t] # NULL /\ l_holding[a_waiting[t]] \in D

NoCircle == \A D \in SUBSET Threads : ~Circle(D)

\* What OnlyReleaseIsLate says of panic.
PanicInv == panic \in {"none", "deadlock", "still held"}

HangmanInv == TypeOK /\ PanicInv /\ RecordsInv /\ NoCircle /\ AlarmIsReal

-----------------------------------------------------------------------------
(***************************************************************************)
(* The walk of hangman_check.                                              *)
(***************************************************************************)
N == Cardinality(Threads)

\* w is the beginning of the walk from l.
WalksFrom(l, w, n) ==
    \A i \in 1 .. n : w[i] = IF i = 1 THEN l_holding[l] ELSE Onward(w[i - 1])

\* From a thread the walk goes on to a thread or ends.
LEMMA OnwardType ==
  ASSUME TypeOK, NEW t \in Threads \cup {NULL}
  PROVE  Onward(t) \in Threads \cup {NULL}
BY DEF TypeOK, Onward

\* A walk of every length exists: a shortest one that does not could be made by one
\* more step from the one before.
LEMMA WalkExists ==
  ASSUME TypeOK, NEW l \in Locks, NEW n \in Nat
  PROVE  \E w \in [1 .. n -> Threads \cup {NULL}] : WalksFrom(l, w, n)
<1> DEFINE S == {k \in Nat : ~ \E w \in [1 .. k -> Threads \cup {NULL}] : WalksFrom(l, w, k)}
<1> SUFFICES ASSUME S # {} PROVE FALSE
  OBVIOUS
<1>1. S \in SUBSET Nat
  OBVIOUS
<1> HIDE DEF S
<1>2. PICK m \in S : \A k \in S : m <= k
  BY <1>1, NatLeast
<1>3. m \in Nat /\ ~ \E w \in [1 .. m -> Threads \cup {NULL}] : WalksFrom(l, w, m)
  BY <1>2 DEF S
<1>4. CASE m = 0
  <2> DEFINE e == [i \in 1 .. 0 |-> NULL]
  <2>1. e \in [1 .. 0 -> Threads \cup {NULL}] /\ WalksFrom(l, e, 0)
    BY DEF WalksFrom
  <2> QED BY <1>3, <1>4, <2>1
<1>5. CASE m # 0
  <2>1. m - 1 \in Nat /\ m - 1 \notin S
    BY <1>2, <1>3, <1>5
  <2>2. PICK w \in [1 .. m - 1 -> Threads \cup {NULL}] : WalksFrom(l, w, m - 1)
    BY <2>1 DEF S
  <2> DEFINE last == IF m = 1 THEN l_holding[l] ELSE Onward(w[m - 1])
             x == [i \in 1 .. m |-> IF i = m THEN last ELSE w[i]]
  <2>3. last \in Threads \cup {NULL}
    <3>1. CASE m = 1
      BY <3>1 DEF TypeOK
    <3>2. CASE m # 1
      <4>1. w[m - 1] \in Threads \cup {NULL}
        BY <1>3, <1>5, <3>2
      <4> QED BY <3>2, <4>1, OnwardType
    <3> QED BY <3>1, <3>2
  <2> HIDE DEF last
  <2>4. x \in [1 .. m -> Threads \cup {NULL}]
    BY <1>3, <2>3
  <2>5. ASSUME NEW i \in 1 .. m
        PROVE  x[i] = IF i = 1 THEN l_holding[l] ELSE Onward(x[i - 1])
    <3>1. CASE i = m
      BY <1>3, <1>5, <3>1 DEF last
    <3>2. CASE i # m
      BY <1>3, <2>2, <3>2 DEF WalksFrom
    <3> QED BY <3>1, <3>2
  <2>6. WalksFrom(l, x, m)
    BY <2>5 DEF WalksFrom
  <2> QED BY <1>3, <2>4, <2>6
<1> QED BY <1>4, <1>5

\* The walk of hangman_check is the function that its recursive definition describes.
LEMMA WalkIs ==
  ASSUME TypeOK, NEW l \in Locks
  PROVE  Walk(l) \in [1 .. N -> Threads \cup {NULL}] /\ WalksFrom(l, Walk(l), N)
<1> DEFINE P(f) == f = [i \in 1 .. N |-> IF i = 1 THEN l_holding[l] ELSE Onward(f[i - 1])]
<1>0. N \in Nat
  BY HangmanAssumption, FS_CardinalityType DEF N
<1>1. PICK w \in [1 .. N -> Threads \cup {NULL}] : WalksFrom(l, w, N)
  BY <1>0, WalkExists
<1>2. P(w)
  BY <1>1 DEF WalksFrom
<1>3. Walk(l) = CHOOSE f : P(f)
  BY DEF Walk, N
<1> HIDE DEF P
<1>4. P(CHOOSE f : P(f))
  BY <1>2, Zenon
<1>5. P(Walk(l))
  BY <1>3, <1>4
<1>6. DOMAIN Walk(l) = 1 .. N /\ WalksFrom(l, Walk(l), N)
  BY <1>5 DEF P, WalksFrom
<1>7. \A i \in 1 .. N : Walk(l)[i] \in Threads \cup {NULL}
  <2> DEFINE S == {i \in 1 .. N : Walk(l)[i] \notin Threads \cup {NULL}}
  <2> SUFFICES ASSUME S # {} PROVE FALSE
    OBVIOUS
  <2>1. S \in SUBSET Nat
    BY <1>0
  <2> HIDE DEF S
  <2>2. PICK m \in S : \A k \in S : m <= k
    BY <2>1, NatLeast
  <2>3. m \in 1 .. N /\ Walk(l)[m] \notin Threads \cup {NULL}
    BY <2>2 DEF S
  <2>4. m # 1
    BY <1>6, <2>3 DEF WalksFrom, TypeOK
  <2>5. m - 1 \in 1 .. N /\ m - 1 \notin S
    BY <1>0, <2>2, <2>3, <2>4
  <2>6. Walk(l)[m - 1] \in Threads \cup {NULL}
    BY <2>5 DEF S
  <2>7. Walk(l)[m] = Onward(Walk(l)[m - 1])
    BY <1>6, <2>3, <2>4 DEF WalksFrom
  <2> QED BY <2>3, <2>6, <2>7, OnwardType
<1>8. Walk(l) = [i \in 1 .. N |-> Walk(l)[i]]
  BY <1>5, <1>6 DEF P
<1> QED BY <1>6, <1>7, <1>8

\* Where a walk among threads comes back to, it goes round a circle.
LEMMA RepeatIsCircle ==
  ASSUME NEW l, NEW n \in Nat, NEW w \in [1 .. n -> Threads], WalksFrom(l, w, n),
         NEW a \in 1 .. n, NEW b \in 1 .. n, a < b, w[a] = w[b]
  PROVE  \E C \in SUBSET Threads : Circle(C)
<1> DEFINE C == {w[k] : k \in a .. b - 1}
<1>1. C \in SUBSET Threads /\ C # {} /\ w[a] \in C
  OBVIOUS
<1>2. ASSUME NEW k \in a .. b - 1
      PROVE  a_waiting[w[k]] # NULL /\ l_holding[a_waiting[w[k]]] \in C
  <2>1. k \in 1 .. n /\ k + 1 \in 1 .. n /\ k + 1 # 1 /\ k \in Nat
    OBVIOUS
  <2>2. w[k + 1] = Onward(w[k]) /\ w[k + 1] \in Threads
    BY <2>1 DEF WalksFrom
  <2>3. a_waiting[w[k]] # NULL /\ w[k + 1] = l_holding[a_waiting[w[k]]]
    BY <2>2, HangmanAssumption DEF Onward
  <2>4. CASE k + 1 = b
    BY <1>1, <2>3, <2>4
  <2>5. CASE k + 1 # b
    <3>1. k + 1 \in a .. b - 1
      BY <2>1, <2>5
    <3> QED BY <2>3, <3>1
  <2> QED BY <2>4, <2>5
<1>3. Circle(C)
  BY <1>1, <1>2 DEF Circle
<1> QED BY <1>1, <1>3

-----------------------------------------------------------------------------
(***************************************************************************)
(* hangman_check finds every circle it could close.  If the holder of l    *)
(* and all that hangman_check could come to wait inside a set D, and it    *)
(* has not found t among them, the walk repeats itself: there was a circle *)
(* before.                                                                 *)
(***************************************************************************)
LEMMA CheckFindsCircle ==
  ASSUME TypeOK, NoCircle, NEW l \in Locks, NEW t \in Threads, ~hangman_check(l, t),
         NEW D \in SUBSET Threads, l_holding[l] \in D,
         \A u \in D \ {t} : a_waiting[u] # NULL /\ l_holding[a_waiting[u]] \in D
  PROVE  FALSE
<1> DEFINE w == Walk(l)
<1>0. N \in Nat /\ IsFiniteSet(Threads) /\ NULL \notin Threads /\ N = Cardinality(Threads)
  BY HangmanAssumption, FS_CardinalityType DEF N
<1>1. w \in [1 .. N -> Threads \cup {NULL}] /\ WalksFrom(l, w, N)
  BY WalkIs
<1>2. \A i \in 1 .. N : w[i] # t
  BY <1>0 DEF hangman_check, Visited
<1> HIDE DEF w
<1>3. \A i \in 1 .. N : w[i] \in D
  <2> DEFINE S == {i \in 1 .. N : w[i] \notin D}
  <2> SUFFICES ASSUME S # {} PROVE FALSE
    OBVIOUS
  <2>1. S \in SUBSET Nat
    BY <1>0
  <2> HIDE DEF S
  <2>2. PICK m \in S : \A k \in S : m <= k
    BY <2>1, NatLeast
  <2>3. m \in 1 .. N /\ w[m] \notin D
    BY <2>2 DEF S
  <2>4. m # 1
    BY <1>1, <2>3 DEF WalksFrom
  <2>5. m - 1 \in 1 .. N /\ m - 1 \notin S
    BY <1>0, <2>2, <2>3, <2>4
  <2>6. w[m - 1] \in D \ {t}
    BY <1>2, <2>5 DEF S
  <2>7. w[m] = Onward(w[m - 1])
    BY <1>1, <2>3, <2>4 DEF WalksFrom
  <2> QED BY <1>0, <2>3, <2>6, <2>7 DEF Onward
<1>4. PICK i, j \in 1 .. N : i # j /\ w[i] = w[j]
  <2> DEFINE T == Threads \ {t}
  <2>1. IsFiniteSet(T) /\ Cardinality(T) = N - 1
    BY <1>0, FS_RemoveElement
  <2>2. w \in [1 .. N -> T]
    BY <1>1, <1>2, <1>3
  <2>3. IsFiniteSet(1 .. N) /\ Cardinality(1 .. N) = N
    BY <1>0, FS_Interval
  <2>4. Cardinality(T) < Cardinality(1 .. N)
    BY <1>0, <2>1, <2>3
  <2> HIDE DEF T
  <2> QED BY <2>1, <2>2, <2>3, <2>4, FS_PigeonHole
<1>5. PICK a, b \in 1 .. N : a < b /\ w[a] = w[b]
  BY <1>0, <1>4
<1>6. w \in [1 .. N -> Threads]
  BY <1>1, <1>3
<1> QED BY <1>0, <1>1, <1>5, <1>6, RepeatIsCircle DEF NoCircle

(***************************************************************************)
(* What hangman_check finds is a circle of the locks, not only of the      *)
(* records: a stale holder waits for nothing, so the walk ends at it.      *)
(***************************************************************************)
LEMMA CheckIsRight ==
  ASSUME TypeOK, RecordsInv, NoCircle, NEW l \in Locks, NEW t \in Threads, pc[t] = "run",
         hangman_check(l, t)
  PROVE  \E D \in SUBSET Threads :
            /\ t \in D /\ lk_owner[l] \in D
            /\ \A u \in D \ {t} : pc[u] = "block" /\ lk_owner[at[u]] \in D
<1> DEFINE w == Walk(l)
           S == {i \in 1 .. N : w[i] = t}
<1>0. N \in Nat /\ NULL \notin Threads /\ N = Cardinality(Threads) /\ NULL \notin Locks
  BY HangmanAssumption, FS_CardinalityType DEF N
<1>1. w \in [1 .. N -> Threads \cup {NULL}] /\ WalksFrom(l, w, N)
  BY WalkIs
<1>2. S # {} /\ S \in SUBSET Nat
  BY <1>0 DEF hangman_check, Visited
<1> HIDE DEF w, S
<1>3. PICK k \in S : \A i \in S : k <= i
  BY <1>2, NatLeast
<1>4. k \in 1 .. N /\ w[k] = t /\ \A i \in 1 .. k - 1 : w[i] # t
  BY <1>0, <1>3 DEF S
\* The walk goes on from everything before t.
<1>5. ASSUME NEW i \in 1 .. k - 1
      PROVE  w[i] \in Threads /\ a_waiting[w[i]] # NULL
  <2> DEFINE R == {d \in 0 .. k - 1 : w[k - d] = NULL \/ (d # 0 /\ a_waiting[w[k - d]] = NULL)}
  <2> SUFFICES R = {}
    <3>1. k - i \in 0 .. k - 1 /\ k - (k - i) = i /\ k - i # 0
      BY <1>0, <1>4
    <3>2. w[i] # NULL /\ a_waiting[w[i]] # NULL
      BY <3>1
    <3> QED BY <1>0, <1>1, <1>4, <3>2
  <2> SUFFICES ASSUME R # {} PROVE FALSE
    OBVIOUS
  <2>1. R \in SUBSET Nat
    BY <1>0, <1>4
  <2> HIDE DEF R
  <2>2. PICK d \in R : \A e \in R : d <= e
    BY <2>1, NatLeast
  <2>3. d \in 0 .. k - 1 /\ (w[k - d] = NULL \/ (d # 0 /\ a_waiting[w[k - d]] = NULL))
    BY <2>2 DEF R
  <2>4. d # 0
    BY <1>0, <1>4, <2>3
  <2>5. d - 1 \in 0 .. k - 1 /\ d - 1 \notin R
    BY <1>0, <1>4, <2>2, <2>3, <2>4
  <2>6. w[k - (d - 1)] # NULL
    BY <2>5 DEF R
  <2>7. k - (d - 1) \in 1 .. N /\ k - (d - 1) # 1 /\ k - (d - 1) - 1 = k - d
    BY <1>0, <1>4, <2>3, <2>4
  <2>8. w[k - (d - 1)] = Onward(w[k - d])
    BY <1>1, <2>7 DEF WalksFrom
  <2> QED BY <2>3, <2>6, <2>8 DEF Onward
<1>6. ASSUME NEW i \in 1 .. k - 1
      PROVE  w[i + 1] \in Threads /\ w[i + 1] = l_holding[a_waiting[w[i]]] /\ pc[w[i + 1]] # "freed"
  <2>1. i + 1 \in 1 .. N /\ i + 1 # 1 /\ (i + 1) - 1 = i
    BY <1>0, <1>4
  <2>2. w[i + 1] = l_holding[a_waiting[w[i]]]
    BY <1>0, <1>1, <1>5, <2>1 DEF WalksFrom, Onward
  <2>3. CASE i + 1 = k
    BY <1>4, <2>2, <2>3
  <2>4. CASE i + 1 # k
    <3>1. i + 1 \in 1 .. k - 1
      BY <1>0, <1>4, <2>1, <2>4
    <3> QED BY <1>5, <2>2, <3>1 DEF RecordsInv, ActorsInv, LockablesInv
  <2> QED BY <2>3, <2>4
\* So nobody on it is at HANGMAN_ACQUIRE, and the recorded holders are the owners.
<1>7. ASSUME NEW i \in 1 .. k - 1
      PROVE  pc[w[i]] = "block" /\ lk_owner[at[w[i]]] = w[i + 1]
  <2>1. w[i] \in Threads /\ a_waiting[w[i]] # NULL
    BY <1>5
  <2>2. pc[w[i]] \in {"block", "taken"}
    BY <2>1 DEF RecordsInv, ActorsInv, LockablesInv, TypeOK, Labels
  <2>3. at[w[i]] \in Locks /\ a_waiting[w[i]] = at[w[i]]
    BY <2>1, <2>2 DEF RecordsInv, ActorsInv, LockablesInv
  <2>4. l_holding[at[w[i]]] = w[i + 1] /\ w[i + 1] # NULL
    BY <1>0, <1>6, <2>3
  <2>5. lk_owner[at[w[i]]] = w[i + 1]
    BY <1>6, <2>3, <2>4 DEF RecordsInv, ActorsInv, LockablesInv
  <2>6. pc[w[i]] # "taken"
    <3> SUFFICES ASSUME pc[w[i]] = "taken" PROVE FALSE
      OBVIOUS
    <3>1. w[i + 1] = w[i]
      BY <2>1, <2>5 DEF RecordsInv, ActorsInv, LockablesInv
    <3>2. Circle({w[i]})
      BY <2>1, <2>3, <2>4, <3>1 DEF Circle
    <3> QED BY <2>1, <3>2 DEF NoCircle
  <2> QED BY <2>2, <2>5, <2>6
<1>8. lk_owner[l] = w[1] /\ w[1] \in Threads
  <2>1. w[1] = l_holding[l] /\ 1 \in 1 .. N
    BY <1>0, <1>1, <1>4 DEF WalksFrom
  <2>2. w[1] \in Threads /\ pc[w[1]] # "freed"
    <3>1. CASE k = 1
      BY <1>4, <3>1
    <3>2. CASE k # 1
      <4>1. 1 \in 1 .. k - 1
        BY <1>0, <1>4, <3>2
      <4> QED BY <1>5, <4>1 DEF RecordsInv, ActorsInv, LockablesInv
    <3> QED BY <3>1, <3>2
  <2> QED BY <1>0, <2>1, <2>2 DEF RecordsInv, ActorsInv, LockablesInv
<1> DEFINE D == {w[i] : i \in 1 .. k}
<1>9. \A i \in 1 .. k : w[i] \in Threads
  BY <1>0, <1>4, <1>5
<1>10. D \in SUBSET Threads /\ t \in D /\ lk_owner[l] \in D
  BY <1>0, <1>4, <1>8, <1>9
<1>11. ASSUME NEW i \in 1 .. k, w[i] # t
       PROVE  pc[w[i]] = "block" /\ lk_owner[at[w[i]]] \in D
  <2>1. i \in 1 .. k - 1 /\ i + 1 \in 1 .. k
    BY <1>0, <1>4, <1>11
  <2> QED BY <1>7, <2>1
<1>12. \A u \in D \ {t} : pc[u] = "block" /\ lk_owner[at[u]] \in D
  BY <1>11
<1> HIDE DEF D
<1> QED BY <1>10, <1>12

-----------------------------------------------------------------------------
(***************************************************************************)
(* The steps.                                                              *)
(***************************************************************************)
Step(t) ==
    \/ \E l \in Locks : hangman_wait(t, l) \/ Release(t, l)
    \/ Take(t) \/ hangman_acquire(t) \/ hangman_release(t)

\* Every step keeps the types.
LEMMA TypeStep ==
  ASSUME HangmanInv, NEW t \in Threads, Step(t)
  PROVE  TypeOK'
<1>0. TypeOK /\ RecordsInv
  BY DEF HangmanInv
<1>1. ASSUME NEW l \in Locks, hangman_wait(t, l) PROVE TypeOK'
  BY <1>0, <1>1 DEF TypeOK, hangman_wait, Labels, Reasons
<1>2. ASSUME NEW l \in Locks, Release(t, l) PROVE TypeOK'
  BY <1>0, <1>2 DEF TypeOK, Release, Labels
<1>3. CASE Take(t)
  BY <1>0, <1>3 DEF TypeOK, Take, Labels
<1>4. CASE hangman_acquire(t)
  BY <1>0, <1>4 DEF TypeOK, hangman_acquire, Labels, Reasons
<1>5. CASE hangman_release(t)
  BY <1>0, <1>5 DEF TypeOK, hangman_release, Labels, Reasons
<1> QED BY <1>1, <1>2, <1>3, <1>4, <1>5 DEF Step

\* Of its own assertions hangman fails the one of a release at most.
LEMMA PanicStep ==
  ASSUME HangmanInv, NEW t \in Threads, Step(t)
  PROVE  PanicInv'
<1>0. TypeOK /\ RecordsInv /\ PanicInv
  BY DEF HangmanInv
<1>1. ASSUME NEW l \in Locks, hangman_wait(t, l) \/ Release(t, l) PROVE PanicInv'
  BY <1>0, <1>1 DEF PanicInv, RecordsInv, ActorsInv, hangman_wait, Release
<1>2. CASE Take(t)
  BY <1>0, <1>2 DEF PanicInv, Take
<1>3. CASE hangman_acquire(t)
  BY <1>0, <1>3 DEF PanicInv, RecordsInv, ActorsInv, hangman_acquire
<1>4. CASE hangman_release(t)
  BY <1>0, <1>4 DEF PanicInv, RecordsInv, ActorsInv, hangman_release
<1> QED BY <1>1, <1>2, <1>3, <1>4 DEF Step

\* Every step keeps the records of hangman and the locks in agreement.
LEMMA RecordsStep ==
  ASSUME HangmanInv, NEW t \in Threads, Step(t)
  PROVE  RecordsInv'
<1>0. TypeOK /\ ActorsInv /\ LockablesInv /\ NULL \notin Threads /\ NULL \notin Locks
  BY HangmanAssumption DEF HangmanInv, RecordsInv
<1>1. CASE UNCHANGED <<lk_owner, l_holding, a_waiting, pc, at>>
  BY <1>0, <1>1 DEF RecordsInv, ActorsInv, LockablesInv
<1>2. ASSUME NEW l \in Locks, hangman_wait(t, l) PROVE RecordsInv'
  <2>1. pc[t] = "run" /\ at' = [at EXCEPT ![t] = l] /\ UNCHANGED <<lk_owner, l_holding>>
    BY <1>2 DEF hangman_wait
  <2>2. CASE UNCHANGED <<a_waiting, pc>>
    <3>1. ActorsInv'
      BY <1>0, <2>1, <2>2 DEF TypeOK, ActorsInv
    <3>2. LockablesInv'
      BY <1>0, <2>1, <2>2 DEF TypeOK, LockablesInv
    <3> QED BY <3>1, <3>2 DEF RecordsInv
  <2>3. CASE a_waiting' = [a_waiting EXCEPT ![t] = l] /\ pc' = [pc EXCEPT ![t] = "block"]
    <3>1. ActorsInv'
      BY <1>0, <2>1, <2>3 DEF TypeOK, ActorsInv
    <3>2. LockablesInv'
      BY <1>0, <2>1, <2>3 DEF TypeOK, LockablesInv
    <3> QED BY <3>1, <3>2 DEF RecordsInv
  <2> QED BY <1>2, <2>2, <2>3 DEF hangman_wait
<1>3. ASSUME NEW l \in Locks, Release(t, l) PROVE RecordsInv'
  <2>1. ActorsInv'
    BY <1>0, <1>3 DEF TypeOK, ActorsInv, LockablesInv, Release
  <2>2. LockablesInv'
    BY <1>0, <1>3 DEF TypeOK, ActorsInv, LockablesInv, Release
  <2> QED BY <2>1, <2>2 DEF RecordsInv
<1>4. CASE Take(t)
  <2>1. ActorsInv'
    BY <1>0, <1>4 DEF TypeOK, ActorsInv, Take
  <2>2. LockablesInv'
    BY <1>0, <1>4 DEF TypeOK, ActorsInv, LockablesInv, Take
  <2> QED BY <2>1, <2>2 DEF RecordsInv
<1>5. CASE hangman_acquire(t)
  <2>0. pc[t] = "taken" /\ at[t] \in Locks /\ lk_owner[at[t]] = t /\ UNCHANGED <<lk_owner, at>>
    BY <1>0, <1>5 DEF hangman_acquire, ActorsInv
  <2>1. CASE UNCHANGED <<l_holding, a_waiting, pc>>
    BY <1>1, <2>0, <2>1
  <2>2. CASE /\ l_holding[at[t]] = NULL /\ l_holding' = [l_holding EXCEPT ![at[t]] = t]
             /\ a_waiting' = [a_waiting EXCEPT ![t] = NULL] /\ pc' = [pc EXCEPT ![t] = "run"]
    <3>1. ActorsInv'
      BY <1>0, <2>0, <2>2 DEF TypeOK, ActorsInv
    <3>2. LockablesInv'
      BY <1>0, <2>0, <2>2 DEF TypeOK, LockablesInv
    <3> QED BY <3>1, <3>2 DEF RecordsInv
  <2> QED BY <1>5, <2>1, <2>2 DEF hangman_acquire
<1>6. CASE hangman_release(t)
  <2>0. pc[t] = "freed" /\ at[t] \in Locks /\ l_holding[at[t]] = t /\ UNCHANGED <<lk_owner, a_waiting, at>>
    BY <1>0, <1>6 DEF hangman_release, ActorsInv
  <2>1. CASE UNCHANGED <<l_holding, pc>>
    BY <1>1, <2>0, <2>1
  <2>2. CASE l_holding' = [l_holding EXCEPT ![at[t]] = NULL] /\ pc' = [pc EXCEPT ![t] = "run"]
    <3>1. ActorsInv'
      BY <1>0, <2>0, <2>2 DEF TypeOK, ActorsInv
    <3>2. LockablesInv'
      BY <1>0, <2>0, <2>2 DEF TypeOK, LockablesInv, ActorsInv
    <3> QED BY <3>1, <3>2 DEF RecordsInv
  <2> QED BY <1>6, <2>1, <2>2 DEF hangman_release
<1> QED BY <1>2, <1>3, <1>4, <1>5, <1>6 DEF Step

\* A step closes no circle of waiting threads without a report.
LEMMA CircleStep ==
  ASSUME HangmanInv, NEW t \in Threads, Step(t)
  PROVE  NoCircle'
<1> SUFFICES ASSUME NEW D \in SUBSET Threads, Circle(D)' PROVE FALSE
  BY DEF NoCircle
<1>0. TypeOK /\ RecordsInv /\ NoCircle /\ NULL \notin Threads /\ NULL \notin Locks
  BY HangmanAssumption DEF HangmanInv
<1>1. CASE UNCHANGED <<a_waiting, l_holding>>
  BY <1>0, <1>1 DEF NoCircle, Circle
<1>2. ASSUME NEW l \in Locks, hangman_wait(t, l) PROVE FALSE
  <2>1. CASE UNCHANGED a_waiting
    BY <1>1, <1>2, <2>1 DEF hangman_wait
  <2>2. CASE ~UNCHANGED a_waiting
    <3>1. ~hangman_check(l, t) /\ a_waiting' = [a_waiting EXCEPT ![t] = l] /\ UNCHANGED l_holding
      BY <1>2, <2>2 DEF hangman_wait
    <3>2. CASE t \notin D
      <4>1. Circle(D)
        BY <1>0, <3>1, <3>2 DEF Circle, TypeOK
      <4> QED BY <1>0, <4>1 DEF NoCircle
    <3>3. CASE t \in D
      <4>1. l_holding[l] \in D
        BY <1>0, <3>1, <3>3 DEF Circle, TypeOK
      <4>2. \A u \in D \ {t} : a_waiting[u] # NULL /\ l_holding[a_waiting[u]] \in D
        BY <1>0, <3>1 DEF Circle, TypeOK
      <4> QED BY <1>0, <3>1, <4>1, <4>2, CheckFindsCircle
    <3> QED BY <3>2, <3>3
  <2> QED BY <2>1, <2>2
<1>3. ASSUME NEW l \in Locks, Release(t, l) PROVE FALSE
  BY <1>1, <1>3 DEF Release
<1>4. CASE Take(t)
  BY <1>1, <1>4 DEF Take
<1>5. CASE hangman_acquire(t)
  <2>1. CASE UNCHANGED <<a_waiting, l_holding>>
    BY <1>1, <2>1
  <2>2. CASE a_waiting' = [a_waiting EXCEPT ![t] = NULL] /\ l_holding' = [l_holding EXCEPT ![at[t]] = t]
    <3>1. at[t] \in Locks
      BY <1>0, <1>5 DEF hangman_acquire, RecordsInv, ActorsInv
    <3>2. t \notin D
      BY <1>0, <2>2 DEF Circle, TypeOK
    <3>3. Circle(D)
      BY <1>0, <2>2, <3>1, <3>2 DEF Circle, TypeOK
    <3> QED BY <1>0, <3>3 DEF NoCircle
  <2> QED BY <1>5, <2>1, <2>2 DEF hangman_acquire
<1>6. CASE hangman_release(t)
  <2>1. CASE UNCHANGED l_holding
    BY <1>1, <1>6, <2>1 DEF hangman_release
  <2>2. CASE ~UNCHANGED l_holding
    <3>1. l_holding' = [l_holding EXCEPT ![at[t]] = NULL] /\ at[t] \in Locks /\ UNCHANGED a_waiting
      BY <1>0, <1>6, <2>2 DEF hangman_release, RecordsInv, ActorsInv, LockablesInv
    <3>2. Circle(D)
      BY <1>0, <3>1 DEF Circle, TypeOK
    <3> QED BY <1>0, <3>2 DEF NoCircle
  <2> QED BY <2>1, <2>2
<1> QED BY <1>2, <1>3, <1>4, <1>5, <1>6 DEF Step

\* A step that reports a deadlock is about a circle that is there.
LEMMA AlarmStep ==
  ASSUME HangmanInv, panic = "none", NEW t \in Threads, Step(t)
  PROVE  AlarmIsReal'
<1> SUFFICES ASSUME panic' = "deadlock" PROVE AlarmIsReal'
  BY DEF AlarmIsReal
<1>0. TypeOK /\ RecordsInv /\ NoCircle /\ NULL \notin Locks
  BY HangmanAssumption DEF HangmanInv
<1>1. PICK l \in Locks : hangman_wait(t, l)
  BY DEF Step, Release, Take, hangman_acquire, hangman_release
<1>2. /\ hangman_check(l, t) /\ UNCHANGED <<pc, lk_owner>> /\ pc[t] = "run"
      /\ at' = [at EXCEPT ![t] = l]
  BY <1>1 DEF hangman_wait
<1>3. PICK D \in SUBSET Threads :
        /\ t \in D /\ lk_owner[l] \in D
        /\ \A u \in D \ {t} : pc[u] = "block" /\ lk_owner[at[u]] \in D
  BY <1>0, <1>2, CheckIsRight
<1>4. at'[t] = l /\ l # NULL /\ \A u \in D \ {t} : at'[u] = at[u]
  BY <1>0, <1>2, <1>3 DEF TypeOK
<1>5. /\ pc'[t] = "run" /\ at'[t] # NULL /\ lk_owner'[at'[t]] \in D
      /\ \A u \in D \ {t} : pc'[u] = "block" /\ lk_owner'[at'[u]] \in D
  BY <1>2, <1>3, <1>4
<1> QED BY <1>3, <1>5 DEF AlarmIsReal

-----------------------------------------------------------------------------
(***************************************************************************)
(* The theorems.                                                           *)
(***************************************************************************)
\* How hangman's records and the locks stay together, in every behaviour.
THEOREM HangmanInvariant == Spec => []HangmanInv
<1>1. Init => HangmanInv
  <2> SUFFICES ASSUME Init PROVE HangmanInv
    OBVIOUS
  <2>1. TypeOK /\ PanicInv
    BY DEF Init, TypeOK, PanicInv, Labels, Reasons
  <2>2. RecordsInv
    BY DEF Init, RecordsInv, ActorsInv, LockablesInv
  <2>3. NoCircle
    BY DEF Init, NoCircle, Circle
  <2>4. AlarmIsReal
    BY DEF Init, AlarmIsReal
  <2> QED BY <2>1, <2>2, <2>3, <2>4 DEF HangmanInv
<1>2. HangmanInv /\ [Next]_vars => HangmanInv'
  <2> SUFFICES ASSUME HangmanInv, [Next]_vars PROVE HangmanInv'
    OBVIOUS
  <2>1. ASSUME NEW t \in Threads, Step(t), panic = "none" PROVE HangmanInv'
    BY <2>1, TypeStep, PanicStep, RecordsStep, CircleStep, AlarmStep DEF HangmanInv
  <2>2. CASE UNCHANGED vars
    <3>1. TypeOK' /\ PanicInv'
      BY <2>2 DEF HangmanInv, vars, TypeOK, PanicInv
    <3>2. RecordsInv'
      BY <2>2 DEF HangmanInv, vars, RecordsInv, ActorsInv, LockablesInv
    <3>3. NoCircle'
      BY <2>2 DEF HangmanInv, vars, NoCircle, Circle
    <3>4. AlarmIsReal'
      BY <2>2, Zenon DEF HangmanInv, vars, AlarmIsReal
    <3> QED BY <3>1, <3>2, <3>3, <3>4 DEF HangmanInv
  <2> QED BY <2>1, <2>2 DEF Next, Step
<1> QED BY <1>1, <1>2, PTL DEF Spec

\* No deadlock between users of locks goes unreported: hangman_check stops the last
\* thread that would close a circle, although hangman learns late of a new holder and
\* of a release.
THEOREM NoDeadlockMissed == Spec => []NoSilentDeadlock
<1>1. HangmanInv => NoSilentDeadlock
  <2> SUFFICES ASSUME HangmanInv, NEW D \in SUBSET Threads, Deadlocked(D) PROVE FALSE
    BY DEF NoSilentDeadlock
  <2>1. ASSUME NEW t \in D PROVE a_waiting[t] # NULL /\ l_holding[a_waiting[t]] \in D
    <3>1. pc[t] = "block" /\ lk_owner[at[t]] \in D /\ t \in Threads
      BY DEF Deadlocked
    <3>2. at[t] \in Locks /\ a_waiting[t] = at[t] /\ NULL \notin Locks /\ NULL \notin Threads
      BY <3>1, HangmanAssumption DEF HangmanInv, RecordsInv, ActorsInv, LockablesInv
    <3>3. lk_owner[at[t]] # NULL /\ pc[lk_owner[at[t]]] = "block"
      BY <3>1, <3>2 DEF Deadlocked
    <3>4. l_holding[at[t]] = lk_owner[at[t]]
      BY <3>2, <3>3 DEF HangmanInv, RecordsInv, ActorsInv, LockablesInv
    <3> QED BY <3>1, <3>2, <3>4
  <2>2. Circle(D)
    BY <2>1 DEF Circle, Deadlocked
  <2> QED BY <2>2 DEF HangmanInv, NoCircle
<1> QED BY <1>1, HangmanInvariant, PTL

\* A "Deadlock." panic is no false alarm.
THEOREM NoFalseAlarm == Spec => []AlarmIsReal
<1>1. HangmanInv => AlarmIsReal
  BY DEF HangmanInv
<1> QED BY <1>1, HangmanInvariant, PTL

\* Of hangman's own complaints only the one about a lock that is still held can come.
THEOREM OnlyStillHeld == Spec => []OnlyReleaseIsLate
<1>1. HangmanInv => OnlyReleaseIsLate
  BY DEF HangmanInv, PanicInv, OnlyReleaseIsLate
<1> QED BY <1>1, HangmanInvariant, PTL

\* hangman_check's loop ends: the walk that has found no target has come to an actor
\* that waits for nothing, or to a lockable that nobody holds, within as many steps as
\* there are threads.
WalkEnds == \A l \in Locks : l_holding[l] # NULL => \E u \in Visited(l) : Onward(u) = NULL

\* So hangman_check, which runs with interrupts off and under a spinlock, returns.
THEOREM CheckTerminates == Spec => []WalkEnds
<1>1. HangmanInv => WalkEnds
  <2> SUFFICES ASSUME HangmanInv, NEW l \in Locks, l_holding[l] # NULL,
                      \A u \in Visited(l) : Onward(u) # NULL
               PROVE  FALSE
    BY DEF WalkEnds
  <2> DEFINE w == Walk(l)
  <2>0. N \in Nat /\ NULL \notin Threads /\ IsFiniteSet(Threads) /\ N = Cardinality(Threads) /\ TypeOK
    BY HangmanAssumption, FS_CardinalityType DEF N, HangmanInv
  <2>1. WalksFrom(l, w, N)
    BY <2>0, WalkIs
  <2>2. \A i \in 1 .. N : w[i] # NULL => Onward(w[i]) # NULL
    BY <2>0 DEF Visited
  <2> HIDE DEF w
  <2>3. PICK x \in [1 .. N + 1 -> Threads \cup {NULL}] : WalksFrom(l, x, N + 1)
    BY <2>0, WalkExists
  <2> DEFINE S == {i \in 1 .. N + 1 : x[i] = NULL \/ (i # N + 1 /\ x[i] # w[i])}
  <2>4. S = {}
    <3> SUFFICES ASSUME S # {} PROVE FALSE
      OBVIOUS
    <3>1. S \in SUBSET Nat
      BY <2>0
    <3> HIDE DEF S
    <3>2. PICK m \in S : \A k \in S : m <= k
      BY <3>1, NatLeast
    <3>3. m \in 1 .. N + 1 /\ (x[m] = NULL \/ (m # N + 1 /\ x[m] # w[m]))
      BY <3>2 DEF S
    <3>4. m # 1
      BY <2>0, <2>1, <2>3, <3>3 DEF WalksFrom
    <3>5. m - 1 \in 1 .. N + 1 /\ m - 1 \notin S /\ m - 1 # N + 1 /\ m - 1 \in 1 .. N
      BY <2>0, <3>2, <3>3, <3>4
    <3>6. x[m - 1] # NULL /\ x[m - 1] = w[m - 1]
      BY <3>5 DEF S
    <3>7. x[m] = Onward(x[m - 1]) /\ (m # N + 1 => w[m] = Onward(w[m - 1]))
      BY <2>0, <2>1, <2>3, <3>3, <3>4 DEF WalksFrom
    <3> QED BY <2>2, <3>3, <3>5, <3>6, <3>7
  <2>5. x \in [1 .. N + 1 -> Threads]
    BY <2>3, <2>4
  <2> HIDE DEF S
  <2>6. IsFiniteSet(1 .. N + 1) /\ Cardinality(1 .. N + 1) = N + 1
    BY <2>0, FS_Interval
  <2>7. Cardinality(Threads) < Cardinality(1 .. N + 1)
    BY <2>0, <2>6
  <2>8. PICK i, j \in 1 .. N + 1 : i # j /\ x[i] = x[j]
    BY <2>0, <2>5, <2>6, <2>7, FS_PigeonHole
  <2>9. PICK a, b \in 1 .. N + 1 : a < b /\ x[a] = x[b]
    BY <2>0, <2>8
  <2>10. \E C \in SUBSET Threads : Circle(C)
    BY <2>0, <2>3, <2>5, <2>9, RepeatIsCircle
  <2> QED BY <2>10 DEF HangmanInv, NoCircle
<1> QED BY <1>1, HangmanInvariant, PTL
=============================================================================
