-------------------------- MODULE SchedulerProofs --------------------------
(***************************************************************************)
(* Proofs about Scheduler, for any number of cpus and threads.             *)
(***************************************************************************)
EXTENDS Scheduler, Facts, SequenceTheorems

-----------------------------------------------------------------------------
(***************************************************************************)
(* What thread_consider_migration gives away and keeps.                    *)
(***************************************************************************)
LEMMA GivenFields ==
  ASSUME NEW m, NEW r, NEW n, NEW g, g = [moved |-> m, rest |-> r, send |-> n]
  PROVE  g.moved = m /\ g.rest = r /\ g.send = n
OBVIOUS

\* Given splits the list v in two parts with no thread in common, never gives
\* away the running thread, and leaves no more to send than there are threads left.
LEMMA GivenSplits ==
  ASSUME NEW cur, NEW v \in Seq(Threads), Once(v), NEW room \in Nat, NEW send \in Nat,
         send <= Len(v)
  PROVE  LET g == Given(cur, v, room, send) IN
         /\ g.moved \in Seq(Threads) /\ g.rest \in Seq(Threads)
         /\ Once(g.moved) /\ Once(g.rest)
         /\ \A x : In(x, v) <=> In(x, g.moved) \/ In(x, g.rest)
         /\ \A x : ~(In(x, g.moved) /\ In(x, g.rest))
         /\ ~In(cur, g.moved)
         /\ g.send \in Nat /\ g.send <= Len(g.rest)
<1> DEFINE g == Given(cur, v, room, send)
           n == Lesser(room, send)
           met == {j \in 1 .. n : v[j] = cur}
           k == Lesser(room, send - 1)
<1>1. n \in 0 .. Len(v) /\ n <= send /\ n \in Nat /\ Len(v) \in Nat
  BY DEF Lesser
<1>2. CASE met = {}
  <2>1. g = [moved |-> SubSeq(v, 1, n), rest |-> SubSeq(v, n + 1, Len(v)), send |-> send - n]
    BY <1>2 DEF Given
  <2>3. \A i \in 1 .. n : v[i] # cur
    BY <1>2
  <2> HIDE DEF n, met, g
  <2>2. g.moved = SubSeq(v, 1, n) /\ g.rest = SubSeq(v, n + 1, Len(v)) /\ g.send = send - n
    BY <2>1, GivenFields
  <2>4. ~In(cur, SubSeq(v, 1, n))
    BY <1>1, <2>3 DEF In
  <2>5. Len(g.rest) = Len(v) - n
    BY <1>1, <2>2, OnceCut
  <2> QED BY <1>1, <2>2, <2>4, <2>5, OnceCut DEF g
<1>3. CASE met # {}
  <2> DEFINE p == CHOOSE j \in met : TRUE
             a == SubSeq(v, 1, p - 1)
             b == SubSeq(v, p + 1, Len(v))
             o == a \o b
  <2>1. g = [moved |-> SubSeq(o, 1, k), rest |-> Append(SubSeq(o, k + 1, Len(o)), cur),
             send |-> send - 1 - k]
    BY <1>3 DEF Given
  <2>2. p \in met
    BY <1>3
  <2>3. p \in 1 .. n /\ v[p] = cur /\ p \in 1 .. Len(v)
    BY <1>1, <2>2
  <2> HIDE DEF p, met, n, g
  <2>4. /\ cur \in Threads /\ send - 1 \in Nat /\ k \in 0 .. Len(v) - 1 /\ k <= send - 1
    BY <1>1, <2>3 DEF Lesser
  <2> HIDE DEF k
  <2> DEFINE c == SubSeq(v, p, Len(v))
  <2>5. /\ a \in Seq(Threads) /\ Len(a) = p - 1 /\ c \in Seq(Threads) /\ Len(c) = Len(v) - (p - 1)
        /\ \A x : In(x, v) <=> In(x, a) \/ In(x, c)
        /\ Once(a) /\ Once(c) /\ \A x : ~(In(x, a) /\ In(x, c))
    <3>1. p - 1 \in 0 .. Len(v) /\ (p - 1) + 1 = p
      BY <1>1, <2>3
    <3> QED BY <3>1, OnceCut
  <2>6. c # <<>> /\ Head(c) = cur /\ Tail(c) = b
    <3>1. c \in Seq(Threads) /\ Len(c) = Len(v) - (p - 1) /\ Len(v) \in Nat /\ p \in 1 .. Len(v)
      BY <1>1, <2>3, <2>5
    <3>2. b \in Seq(Threads) /\ Len(b) = Len(v) - p /\ \A i \in 1 .. Len(b) : b[i] = v[p + i]
      <4>1. p + 1 \in 1 .. Len(v) + 1 /\ Len(v) - (p + 1) + 1 = Len(v) - p
        BY <1>1, <2>3
      <4>2. b \in Seq(Threads)
        BY <1>1, <4>1
      <4>3. Len(b) = Len(v) - p
        BY <1>1, <4>1
      <4>4. \A i \in 1 .. Len(v) - p : b[i] = v[p + i]
        BY <1>1, <2>3, <4>1
      <4> QED BY <4>2, <4>3, <4>4
    <3>3. \A i \in 1 .. Len(c) : c[i] = v[(p - 1) + i]
      BY <1>1, <2>3
    <3> HIDE DEF b, c
    <3>4. Len(c) >= 1 /\ (p - 1) + 1 = p
      BY <3>1
    <3>5. c # <<>> /\ Head(c) = cur
      BY <2>3, <3>1, <3>3, <3>4
    <3>6. /\ Tail(c) \in Seq(Threads) /\ Len(Tail(c)) = Len(c) - 1
          /\ \A i \in 1 .. Len(Tail(c)) : Tail(c)[i] = c[i + 1]
      BY <3>1, <3>5
    <3>7. Len(c) - 1 = Len(v) - p
      BY <3>1
    <3>8. Len(Tail(c)) = Len(b)
      BY <3>2, <3>6, <3>7
    <3>9. \A i \in 1 .. Len(Tail(c)) : Tail(c)[i] = b[i]
      <4> TAKE i \in 1 .. Len(Tail(c))
      <4>1. i + 1 \in 1 .. Len(c) /\ (p - 1) + (i + 1) = p + i /\ i \in 1 .. Len(b)
        BY <3>1, <3>6, <3>8
      <4> QED BY <3>2, <3>3, <3>6, <4>1
    <3> QED BY <3>5, <3>2, <3>6, <3>8, <3>9, SeqEqual, Zenon
  <2> HIDE DEF a, b, c
  <2>7. /\ b \in Seq(Threads) /\ Len(b) = Len(c) - 1 /\ Once(b) /\ ~In(cur, b)
        /\ \A x : In(x, c) <=> In(x, b) \/ x = cur
    BY <2>5, <2>6, OnceTail
  <2>8. /\ o \in Seq(Threads) /\ Len(o) = Len(v) - 1 /\ Once(o) /\ ~In(cur, o)
        /\ \A x : In(x, v) <=> In(x, o) \/ x = cur
    <3>1. /\ o \in Seq(Threads) /\ Len(o) = Len(a) + Len(b) /\ Once(o)
          /\ \A x : In(x, o) <=> In(x, a) \/ In(x, b)
      BY <2>5, <2>7, OnceConcat
    <3>2. Len(a) + Len(b) = Len(v) - 1
      BY <1>1, <2>3, <2>5, <2>7
    <3> HIDE DEF o
    <3> QED BY <2>5, <2>7, <3>1, <3>2
  <2> HIDE DEF o
  <2> DEFINE m == SubSeq(o, 1, k)
             r == SubSeq(o, k + 1, Len(o))
  <2>9. /\ m \in Seq(Threads) /\ r \in Seq(Threads) /\ Len(r) = Len(o) - k /\ Once(m) /\ Once(r)
        /\ \A x : In(x, o) <=> In(x, m) \/ In(x, r)
        /\ \A x : ~(In(x, m) /\ In(x, r))
    <3>1. k \in 0 .. Len(o)
      BY <2>4, <2>8
    <3> QED BY <2>8, <3>1, OnceCut
  <2> HIDE DEF m, r
  <2>10. ~In(cur, m) /\ ~In(cur, r)
    BY <2>8, <2>9
  <2>11. /\ Append(r, cur) \in Seq(Threads) /\ Len(Append(r, cur)) = Len(r) + 1
         /\ Once(Append(r, cur))
         /\ \A x : In(x, Append(r, cur)) <=> In(x, r) \/ x = cur
    BY <2>4, <2>9, <2>10, OnceAppend
  <2>12. g.moved = m /\ g.rest = Append(r, cur) /\ g.send = send - 1 - k
    BY <2>1, GivenFields DEF m, r
  <2>13. g.send \in Nat /\ g.send <= Len(g.rest)
    <3>1. k \in Int /\ Len(r) \in Nat /\ Len(v) \in Nat
      BY <1>1, <2>4, <2>9
    <3>2. send - 1 - k \in Nat /\ send - 1 - k <= Len(r) + 1
      BY <1>1, <2>4, <2>8, <2>9, <3>1
    <3> QED BY <2>11, <2>12, <3>2
  <2> QED BY <2>8, <2>9, <2>10, <2>11, <2>12, <2>13 DEF g
<1> QED BY <1>2, <1>3

(***************************************************************************)
(* What schedule() makes of the run queue: the exchanges are of disjoint   *)
(* neighbours.                                                             *)
(***************************************************************************)
SwapAt(q, p, f, i) == i < Len(q) /\ p[q[i + 1]] > p[q[i]] /\ (i = 1 \/ ~f[i - 1])

\* The first n decisions of the second loop of schedule() are well defined.
LEMMA SwapsExist ==
  ASSUME NEW q \in Seq(Threads), NEW p, NEW n \in 0 .. Len(q)
  PROVE  \E f \in [1 .. n -> BOOLEAN] : \A i \in 1 .. n : f[i] <=> SwapAt(q, p, f, i)
<1> DEFINE S == {k \in 0 .. Len(q) : ~ \E f \in [1 .. k -> BOOLEAN] : \A i \in 1 .. k : f[i] <=> SwapAt(q, p, f, i)}
<1> SUFFICES ASSUME S # {} PROVE FALSE
  OBVIOUS
<1>1. S \in SUBSET Nat
  OBVIOUS
<1> HIDE DEF S
<1>2. PICK m \in S : \A k \in S : m <= k
  BY <1>1, NatLeast
<1>3. m \in 0 .. Len(q) /\ ~ \E f \in [1 .. m -> BOOLEAN] : \A i \in 1 .. m : f[i] <=> SwapAt(q, p, f, i)
  BY <1>2 DEF S
<1>4. CASE m = 0
  <2> DEFINE e == [i \in 1 .. 0 |-> FALSE]
  <2>1. e \in [1 .. 0 -> BOOLEAN] /\ \A i \in 1 .. 0 : e[i] <=> SwapAt(q, p, e, i)
    OBVIOUS
  <2> QED BY <1>3, <1>4, <2>1
<1>5. CASE m # 0
  <2>1. m - 1 \in 0 .. Len(q) /\ m - 1 \notin S
    BY <1>2, <1>3, <1>5
  <2>2. PICK f \in [1 .. m - 1 -> BOOLEAN] : \A i \in 1 .. m - 1 : f[i] <=> SwapAt(q, p, f, i)
    BY <2>1 DEF S
  <2> DEFINE h == [i \in 1 .. m |-> IF i = m THEN SwapAt(q, p, f, m) ELSE f[i]]
  <2>3. SwapAt(q, p, f, m) \in BOOLEAN
    BY DEF SwapAt
  <2>4. h \in [1 .. m -> BOOLEAN]
    BY <1>3, <2>2, <2>3
  <2>5. ASSUME NEW i \in 1 .. m PROVE h[i] <=> SwapAt(q, p, h, i)
    <3>1. i # 1 => h[i - 1] = f[i - 1]
      BY <1>3, <1>5
    <3>2. SwapAt(q, p, h, i) <=> SwapAt(q, p, f, i)
      BY <3>1 DEF SwapAt
    <3>3. CASE i = m
      BY <3>2, <3>3
    <3>4. CASE i # m
      <4>1. i \in 1 .. m - 1 /\ h[i] = f[i]
        BY <1>3, <3>4
      <4> QED BY <2>2, <3>2, <4>1
    <3> QED BY <3>3, <3>4
  <2> HIDE DEF h
  <2> QED BY <1>3, <2>4, <2>5
<1> QED BY <1>4, <1>5

\* Swaps is the function that its recursive definition describes.
LEMMA SwapsIs ==
  ASSUME NEW q \in Seq(Threads), NEW p
  PROVE  \A i \in DOMAIN q : Swaps(q, p)[i] <=> SwapAt(q, p, Swaps(q, p), i)
<1> DEFINE P(f) == f = [i \in DOMAIN q |-> SwapAt(q, p, f, i)]
<1>1. PICK f \in [1 .. Len(q) -> BOOLEAN] : \A i \in 1 .. Len(q) : f[i] <=> SwapAt(q, p, f, i)
  <2>1. Len(q) \in 0 .. Len(q)
    OBVIOUS
  <2> QED BY <2>1, SwapsExist
<1>2. P(f)
  <2>1. \A i \in 1 .. Len(q) : SwapAt(q, p, f, i) \in BOOLEAN
    BY DEF SwapAt
  <2>2. DOMAIN q = 1 .. Len(q)
    OBVIOUS
  <2>3. \A i \in 1 .. Len(q) : f[i] = SwapAt(q, p, f, i)
    BY <1>1, <2>1
  <2> QED BY <1>1, <2>2, <2>3
<1>3. Swaps(q, p) = CHOOSE f_1 : P(f_1)
  BY DEF Swaps, SwapAt
<1> HIDE DEF P
<1>4. P(CHOOSE f_1 : P(f_1))
  BY <1>2, Zenon
<1>5. P(Swaps(q, p))
  BY <1>3, <1>4
<1> QED BY <1>5 DEF P

\* schedule() rearranges a run queue: it loses and repeats no thread.
LEMMA SortedKeeps ==
  ASSUME NEW q \in Seq(Threads), NEW p, NEW r, r = Sorted(q, p)
  PROVE  /\ r \in Seq(Threads) /\ Len(r) = Len(q)
         /\ \A x : In(x, r) <=> In(x, q)
         /\ Once(q) => Once(r)
<1> DEFINE f == Swaps(q, p)
           g(i) == IF f[i] THEN i + 1 ELSE IF i > 1 /\ f[i - 1] THEN i - 1 ELSE i
<1>0. DOMAIN q = 1 .. Len(q) /\ Len(q) \in Nat
  OBVIOUS
<1>1. \A i \in 1 .. Len(q) : f[i] => i < Len(q) /\ (i = 1 \/ ~f[i - 1])
  BY <1>0, SwapsIs DEF SwapAt
<1> HIDE DEF f
<1>2. \A i \in 1 .. Len(q) : g(i) \in 1 .. Len(q) /\ g(g(i)) = i
  <2> TAKE i \in 1 .. Len(q)
  <2>1. CASE f[i]
    <3>1. i + 1 \in 1 .. Len(q) /\ i + 1 > 1 /\ (i + 1) - 1 = i /\ ~f[i + 1]
      BY <1>0, <1>1, <2>1
    <3> QED BY <2>1, <3>1
  <2>2. CASE ~f[i] /\ i > 1 /\ f[i - 1]
    <3>1. i - 1 \in 1 .. Len(q) /\ (i - 1) + 1 = i
      BY <1>0, <2>2
    <3> QED BY <2>2, <3>1
  <2>3. CASE ~f[i] /\ ~(i > 1 /\ f[i - 1])
    BY <2>3
  <2> QED BY <2>1, <2>2, <2>3
<1>3. r = [i \in 1 .. Len(q) |-> q[g(i)]]
  BY <1>0 DEF Sorted, f
<1> HIDE DEF g
<1>4. r \in Seq(Threads) /\ Len(r) = Len(q) /\ DOMAIN r = 1 .. Len(q) /\ \A i \in 1 .. Len(q) : r[i] = q[g(i)]
  BY <1>0, <1>2, <1>3
<1>5. ASSUME NEW x PROVE In(x, r) <=> In(x, q)
  <2>1. ASSUME In(x, r) PROVE In(x, q)
    BY <1>0, <1>2, <1>4, <2>1 DEF In
  <2>2. ASSUME In(x, q) PROVE In(x, r)
    <3>1. PICK i \in 1 .. Len(q) : q[i] = x
      BY <1>0, <2>2 DEF In
    <3>2. g(i) \in 1 .. Len(q) /\ r[g(i)] = x
      BY <1>2, <1>4, <3>1
    <3> QED BY <1>4, <3>2 DEF In
  <2> QED BY <2>1, <2>2
<1>6. ASSUME Once(q) PROVE Once(r)
  <2>1. ASSUME NEW i \in 1 .. Len(q), NEW j \in 1 .. Len(q), r[i] = r[j] PROVE i = j
    <3>1. g(i) = g(j)
      BY <1>0, <1>2, <1>4, <1>6, <2>1 DEF Once
    <3> QED BY <1>2, <3>1
  <2> QED BY <1>4, <2>1 DEF Once
<1> QED BY <1>4, <1>5, <1>6

-----------------------------------------------------------------------------
(***************************************************************************)
(* Where the threads are.  The parts of the invariant take the components  *)
(* of the state as arguments, because a context switch is two moves: the   *)
(* current thread is put away, which leaves the cpu idle, and another one  *)
(* is taken off the run queue.                                             *)
(*                                                                         *)
(* on   the cpus online        wk   the cpu in wchan_wakeall, if any       *)
(* mv   the cpus with victims  li   list      nt   newthread               *)
(* wc   wc_threads             cw   count_wchan                            *)
(***************************************************************************)
WorldType(on, cur, idle, rq, z, li, wk, mv, wc, cw, nt, st, cpu) ==
    /\ on \subseteq Cpus /\ wk \subseteq Cpus /\ mv \subseteq Cpus
    /\ cur \in [Cpus -> Threads] /\ idle \in [Cpus -> BOOLEAN]
    /\ rq \in [Cpus -> Seq(Threads)] /\ li \in [Cpus -> Seq(Threads)]
    /\ z \in [Cpus -> SUBSET Threads]
    /\ wc \in Seq(Threads) /\ cw \in Seq(Threads)
    /\ nt \in [Threads -> Kids \cup {NULL}]
    /\ st \in [Threads -> States] /\ cpu \in [Threads -> Cpus]

\* The threads on the run queue of a cpu are ready, belong to it, and are there once.
QueueOK(rq, nt, st, cpu) ==
    \A c \in Cpus :
        /\ Once(rq[c])
        /\ \A t \in Threads : In(t, rq[c]) =>
            st[t] = "S_READY" /\ cpu[t] = c /\ \A u \in Threads : nt[u] # t

\* A private list holds sleepers on their way to run queues, or victims.
ListOK(rq, li, wk, mv, wc, cw, nt, st, cpu) ==
    /\ wk \cap mv = {} /\ \A c, d \in wk : c = d
    /\ \A c \in Cpus :
        /\ Once(li[c]) /\ (c \notin wk \cup mv => li[c] = <<>>)
        /\ \A t \in Threads : In(t, li[c]) =>
            /\ c \in wk => st[t] = "S_SLEEP" /\ ~In(t, wc) /\ ~In(t, cw)
            /\ c \in mv => /\ st[t] = "S_READY" /\ cpu[t] = c /\ ~In(t, rq[c])
                           /\ \A u \in Threads : nt[u] # t

ChannelOK(wc, cw, st) ==
    /\ Once(wc) /\ Once(cw)
    /\ \A t \in Threads : In(t, wc) => st[t] = "S_SLEEP" /\ ~In(t, cw)
    /\ \A t \in Threads : In(t, cw) => st[t] = "S_SLEEP" /\ t = Menu

ZombieOK(z, st, cpu) ==
    \A c \in Cpus : \A t \in z[c] : st[t] = "S_ZOMBIE" /\ cpu[t] = c

NewbornOK(nt, st) ==
    /\ \A u \in Threads : nt[u] # NULL => nt[u] \in Threads /\ st[nt[u]] = "S_READY"
    /\ \A u, v \in Threads : nt[u] # NULL /\ nt[u] = nt[v] => u = v

\* The current threads, and no others, run; an idle cpu is on the stack of one that
\* was not freed.
CurrentOK(on, cur, idle, st, cpu) ==
    /\ \A c \in on : cpu[cur[c]] = c /\ st[cur[c]] # "S_FREE" /\ (st[cur[c]] = "S_RUN" <=> ~idle[c])
    /\ \A t \in Threads : st[t] # "S_FREE" => cpu[t] \in on
    /\ \A t \in Threads : st[t] = "S_RUN" => cur[cpu[t]] = t

\* No thread is lost.
CoverOK(rq, z, li, wc, cw, nt, st, cpu) ==
    \A t \in Threads :
        /\ st[t] = "S_READY" => \/ In(t, rq[cpu[t]]) \/ In(t, li[cpu[t]])
                                \/ \E u \in Threads : nt[u] = t
        /\ st[t] = "S_SLEEP" => In(t, wc) \/ In(t, cw) \/ \E c \in Cpus : In(t, li[c])
        /\ st[t] = "S_ZOMBIE" => t \in z[cpu[t]]

World(on, cur, idle, rq, z, li, wk, mv, wc, cw, nt, st, cpu) ==
    /\ WorldType(on, cur, idle, rq, z, li, wk, mv, wc, cw, nt, st, cpu)
    /\ QueueOK(rq, nt, st, cpu)
    /\ ListOK(rq, li, wk, mv, wc, cw, nt, st, cpu)
    /\ ChannelOK(wc, cw, st)
    /\ ZombieOK(z, st, cpu)
    /\ NewbornOK(nt, st)
    /\ CurrentOK(on, cur, idle, st, cpu)
    /\ CoverOK(rq, z, li, wc, cw, nt, st, cpu)

\* The states and cpus of the threads after the next one, n, has destroyed the zombies zs.
Chosen(st, n, zs) ==
    [x \in Threads |-> IF x = n THEN "S_RUN" ELSE IF x \in zs THEN "S_FREE" ELSE st[x]]
Exorcised(cpu, zs) == [x \in Threads |-> IF x \in zs THEN Menu ELSE cpu[x]]

\* The cpus of the threads when those of list a have been given to cpu e.
Rehomed(cpu, a, e) == [x \in Threads |-> IF In(x, a) THEN e ELSE cpu[x]]

\* Boot threads, other threads and the null pointer.
LEMMA ThreadFacts ==
  /\ Cpus \subseteq Threads /\ Kids \subseteq Threads /\ Menu \in Cpus
  /\ NULL \notin Threads /\ Menu \notin Kids /\ NULL \notin Kids /\ Kids \cap Cpus = {}
BY SchedulerAssumption DEF Threads, Cpus, Menu

\* The current thread goes to sleep in wchan_sleep.
LEMMA PutToSleep ==
  ASSUME NEW on, NEW cur, NEW idle, NEW rq, NEW z, NEW li, NEW wk, NEW mv, NEW wc, NEW cw,
         NEW nt, NEW st, NEW cpu,
         World(on, cur, idle, rq, z, li, wk, mv, wc, cw, nt, st, cpu),
         NEW c \in on, ~idle[c]
  PROVE  World(on, cur, [idle EXCEPT ![c] = TRUE], rq, z, li, wk, mv, Append(wc, cur[c]),
               cw, nt, [st EXCEPT ![cur[c]] = "S_SLEEP"], cpu)
<1> SUFFICES ASSUME NEW wc2, NEW idle2, NEW st2,
                    wc2 = Append(wc, cur[c]),
                    idle2 = [idle EXCEPT ![c] = TRUE],
                    st2 = [st EXCEPT ![cur[c]] = "S_SLEEP"]
             PROVE  World(on, cur, idle2, rq, z, li, wk, mv, wc2, cw, nt, st2, cpu)
  BY Zenon
<1>1. WorldType(on, cur, idle, rq, z, li, wk, mv, wc, cw, nt, st, cpu)
  BY DEF World
<1>2. QueueOK(rq, nt, st, cpu)
  BY DEF World
<1>3. ListOK(rq, li, wk, mv, wc, cw, nt, st, cpu)
  BY DEF World
<1>4. ChannelOK(wc, cw, st)
  BY DEF World
<1>5. ZombieOK(z, st, cpu)
  BY DEF World
<1>6. NewbornOK(nt, st)
  BY DEF World
<1>7. CurrentOK(on, cur, idle, st, cpu)
  BY DEF World
<1>8. CoverOK(rq, z, li, wc, cw, nt, st, cpu)
  BY DEF World
<1> DEFINE t == cur[c]
<1>11. t \in Threads /\ c \in Cpus /\ st[t] = "S_RUN" /\ cpu[t] = c
  BY <1>1, <1>7 DEF WorldType, CurrentOK
<1>12. st2 \in [Threads -> States] /\ st2[t] = "S_SLEEP" /\ \A x \in Threads : x # t => st2[x] = st[x]
  BY <1>1, <1>11 DEF WorldType, States
<1>13. idle2 \in [Cpus -> BOOLEAN] /\ idle2[c] /\ \A d \in Cpus : d # c => idle2[d] = idle[d]
  BY <1>1, <1>11 DEF WorldType

<1>14. /\ wc2 \in Seq(Threads) /\ (\A x : In(x, wc2) <=> In(x, wc) \/ x = t)
       /\ Once(wc) /\ ~In(t, wc) => Once(wc2)
  BY <1>1, <1>11, OnceAppend DEF WorldType
<1> HIDE DEF t
<1>21. WorldType(on, cur, idle2, rq, z, li, wk, mv, wc2, cw, nt, st2, cpu)
  BY <1>1, <1>11, <1>12, <1>13, <1>14, ThreadFacts DEF WorldType
<1>22. QueueOK(rq, nt, st2, cpu)
  BY <1>2, <1>11, <1>12, <1>13, <1>14, ThreadFacts DEF QueueOK
<1>23. ListOK(rq, li, wk, mv, wc2, cw, nt, st2, cpu)
  BY <1>3, <1>11, <1>12, <1>13, <1>14, ThreadFacts DEF ListOK
<1>24. ChannelOK(wc2, cw, st2)
  BY <1>4, <1>11, <1>12, <1>13, <1>14, ThreadFacts DEF ChannelOK
<1>25. ZombieOK(z, st2, cpu)
  BY <1>5, <1>11, <1>12, <1>13, <1>14, ThreadFacts DEF ZombieOK
<1>26. NewbornOK(nt, st2)
  BY <1>6, <1>11, <1>12, <1>13, <1>14, ThreadFacts DEF NewbornOK
<1>27. CurrentOK(on, cur, idle2, st2, cpu)
  BY <1>7, <1>11, <1>12, <1>13, <1>14, ThreadFacts DEF CurrentOK
<1>28. CoverOK(rq, z, li, wc2, cw, nt, st2, cpu)
  BY <1>8, <1>11, <1>12, <1>13, <1>14, ThreadFacts DEF CoverOK
<1> QED BY <1>21, <1>22, <1>23, <1>24, <1>25, <1>26, <1>27, <1>28 DEF World

\* The menu goes to sleep in thread_wait_for_count.
LEMMA PutToCount ==
  ASSUME NEW on, NEW cur, NEW idle, NEW rq, NEW z, NEW li, NEW wk, NEW mv, NEW wc, NEW cw,
         NEW nt, NEW st, NEW cpu,
         World(on, cur, idle, rq, z, li, wk, mv, wc, cw, nt, st, cpu),
         NEW c \in on, ~idle[c], cur[c] = Menu
  PROVE  World(on, cur, [idle EXCEPT ![c] = TRUE], rq, z, li, wk, mv, wc,
               Append(cw, cur[c]), nt, [st EXCEPT ![cur[c]] = "S_SLEEP"], cpu)
<1> SUFFICES ASSUME NEW cw2, NEW idle2, NEW st2,
                    cw2 = Append(cw, cur[c]),
                    idle2 = [idle EXCEPT ![c] = TRUE],
                    st2 = [st EXCEPT ![cur[c]] = "S_SLEEP"]
             PROVE  World(on, cur, idle2, rq, z, li, wk, mv, wc, cw2, nt, st2, cpu)
  BY Zenon
<1>1. WorldType(on, cur, idle, rq, z, li, wk, mv, wc, cw, nt, st, cpu)
  BY DEF World
<1>2. QueueOK(rq, nt, st, cpu)
  BY DEF World
<1>3. ListOK(rq, li, wk, mv, wc, cw, nt, st, cpu)
  BY DEF World
<1>4. ChannelOK(wc, cw, st)
  BY DEF World
<1>5. ZombieOK(z, st, cpu)
  BY DEF World
<1>6. NewbornOK(nt, st)
  BY DEF World
<1>7. CurrentOK(on, cur, idle, st, cpu)
  BY DEF World
<1>8. CoverOK(rq, z, li, wc, cw, nt, st, cpu)
  BY DEF World
<1> DEFINE t == cur[c]
<1>11. t \in Threads /\ c \in Cpus /\ st[t] = "S_RUN" /\ cpu[t] = c
  BY <1>1, <1>7 DEF WorldType, CurrentOK
<1>12. st2 \in [Threads -> States] /\ st2[t] = "S_SLEEP" /\ \A x \in Threads : x # t => st2[x] = st[x]
  BY <1>1, <1>11 DEF WorldType, States
<1>13. idle2 \in [Cpus -> BOOLEAN] /\ idle2[c] /\ \A d \in Cpus : d # c => idle2[d] = idle[d]
  BY <1>1, <1>11 DEF WorldType

<1>15. t = Menu
  OBVIOUS
<1>14. /\ cw2 \in Seq(Threads) /\ (\A x : In(x, cw2) <=> In(x, cw) \/ x = t)
       /\ Once(cw) /\ ~In(t, cw) => Once(cw2)
  BY <1>1, <1>11, OnceAppend DEF WorldType
<1> HIDE DEF t
<1>21. WorldType(on, cur, idle2, rq, z, li, wk, mv, wc, cw2, nt, st2, cpu)
  BY <1>1, <1>11, <1>12, <1>13, <1>14, <1>15, ThreadFacts DEF WorldType
<1>22. QueueOK(rq, nt, st2, cpu)
  BY <1>2, <1>11, <1>12, <1>13, <1>14, <1>15, ThreadFacts DEF QueueOK
<1>23. ListOK(rq, li, wk, mv, wc, cw2, nt, st2, cpu)
  BY <1>3, <1>11, <1>12, <1>13, <1>14, <1>15, ThreadFacts DEF ListOK
<1>24. ChannelOK(wc, cw2, st2)
  BY <1>4, <1>11, <1>12, <1>13, <1>14, <1>15, ThreadFacts DEF ChannelOK
<1>25. ZombieOK(z, st2, cpu)
  BY <1>5, <1>11, <1>12, <1>13, <1>14, <1>15, ThreadFacts DEF ZombieOK
<1>26. NewbornOK(nt, st2)
  BY <1>6, <1>11, <1>12, <1>13, <1>14, <1>15, ThreadFacts DEF NewbornOK
<1>27. CurrentOK(on, cur, idle2, st2, cpu)
  BY <1>7, <1>11, <1>12, <1>13, <1>14, <1>15, ThreadFacts DEF CurrentOK
<1>28. CoverOK(rq, z, li, wc, cw2, nt, st2, cpu)
  BY <1>8, <1>11, <1>12, <1>13, <1>14, <1>15, ThreadFacts DEF CoverOK
<1> QED BY <1>21, <1>22, <1>23, <1>24, <1>25, <1>26, <1>27, <1>28 DEF World

\* The current thread has exited.
LEMMA PutToZombies ==
  ASSUME NEW on, NEW cur, NEW idle, NEW rq, NEW z, NEW li, NEW wk, NEW mv, NEW wc, NEW cw,
         NEW nt, NEW st, NEW cpu,
         World(on, cur, idle, rq, z, li, wk, mv, wc, cw, nt, st, cpu),
         NEW c \in on, ~idle[c]
  PROVE  World(on, cur, [idle EXCEPT ![c] = TRUE], rq,
               [z EXCEPT ![c] = z[c] \cup {cur[c]}], li, wk, mv, wc, cw, nt,
               [st EXCEPT ![cur[c]] = "S_ZOMBIE"], cpu)
<1> SUFFICES ASSUME NEW z2, NEW idle2, NEW st2,
                    z2 = [z EXCEPT ![c] = z[c] \cup {cur[c]}],
                    idle2 = [idle EXCEPT ![c] = TRUE],
                    st2 = [st EXCEPT ![cur[c]] = "S_ZOMBIE"]
             PROVE  World(on, cur, idle2, rq, z2, li, wk, mv, wc, cw, nt, st2, cpu)
  BY Zenon
<1>1. WorldType(on, cur, idle, rq, z, li, wk, mv, wc, cw, nt, st, cpu)
  BY DEF World
<1>2. QueueOK(rq, nt, st, cpu)
  BY DEF World
<1>3. ListOK(rq, li, wk, mv, wc, cw, nt, st, cpu)
  BY DEF World
<1>4. ChannelOK(wc, cw, st)
  BY DEF World
<1>5. ZombieOK(z, st, cpu)
  BY DEF World
<1>6. NewbornOK(nt, st)
  BY DEF World
<1>7. CurrentOK(on, cur, idle, st, cpu)
  BY DEF World
<1>8. CoverOK(rq, z, li, wc, cw, nt, st, cpu)
  BY DEF World
<1> DEFINE t == cur[c]
<1>11. t \in Threads /\ c \in Cpus /\ st[t] = "S_RUN" /\ cpu[t] = c
  BY <1>1, <1>7 DEF WorldType, CurrentOK
<1>12. st2 \in [Threads -> States] /\ st2[t] = "S_ZOMBIE" /\ \A x \in Threads : x # t => st2[x] = st[x]
  BY <1>1, <1>11 DEF WorldType, States
<1>13. idle2 \in [Cpus -> BOOLEAN] /\ idle2[c] /\ \A d \in Cpus : d # c => idle2[d] = idle[d]
  BY <1>1, <1>11 DEF WorldType

<1>14. /\ z2 \in [Cpus -> SUBSET Threads] /\ z2[c] = z[c] \cup {t}
       /\ \A d \in Cpus : d # c => z2[d] = z[d]
  BY <1>1, <1>11 DEF WorldType
<1> HIDE DEF t
<1>21. WorldType(on, cur, idle2, rq, z2, li, wk, mv, wc, cw, nt, st2, cpu)
  BY <1>1, <1>11, <1>12, <1>13, <1>14, ThreadFacts DEF WorldType
<1>22. QueueOK(rq, nt, st2, cpu)
  BY <1>2, <1>11, <1>12, <1>13, <1>14, ThreadFacts DEF QueueOK
<1>23. ListOK(rq, li, wk, mv, wc, cw, nt, st2, cpu)
  BY <1>3, <1>11, <1>12, <1>13, <1>14, ThreadFacts DEF ListOK
<1>24. ChannelOK(wc, cw, st2)
  BY <1>4, <1>11, <1>12, <1>13, <1>14, ThreadFacts DEF ChannelOK
<1>25. ZombieOK(z2, st2, cpu)
  BY <1>5, <1>11, <1>12, <1>13, <1>14, ThreadFacts DEF ZombieOK
<1>26. NewbornOK(nt, st2)
  BY <1>6, <1>11, <1>12, <1>13, <1>14, ThreadFacts DEF NewbornOK
<1>27. CurrentOK(on, cur, idle2, st2, cpu)
  BY <1>7, <1>11, <1>12, <1>13, <1>14, ThreadFacts DEF CurrentOK
<1>28. CoverOK(rq, z2, li, wc, cw, nt, st2, cpu)
  BY <1>8, <1>11, <1>12, <1>13, <1>14, ThreadFacts DEF CoverOK
<1> QED BY <1>21, <1>22, <1>23, <1>24, <1>25, <1>26, <1>27, <1>28 DEF World

\* The current thread is put behind the run queue, which schedule() has rearranged.
LEMMA PutToQueue ==
  ASSUME NEW on, NEW cur, NEW idle, NEW rq, NEW z, NEW li, NEW wk, NEW mv, NEW wc, NEW cw,
         NEW nt, NEW st, NEW cpu,
         World(on, cur, idle, rq, z, li, wk, mv, wc, cw, nt, st, cpu),
         NEW c \in on, ~idle[c],
         NEW q \in Seq(Threads), Once(q), \A x : In(x, q) <=> In(x, rq[c])
  PROVE  World(on, cur, [idle EXCEPT ![c] = TRUE], [rq EXCEPT ![c] = Append(q, cur[c])], z,
               li, wk, mv, wc, cw, nt, [st EXCEPT ![cur[c]] = "S_READY"], cpu)
<1> SUFFICES ASSUME NEW rq2, NEW idle2, NEW st2,
                    rq2 = [rq EXCEPT ![c] = Append(q, cur[c])],
                    idle2 = [idle EXCEPT ![c] = TRUE],
                    st2 = [st EXCEPT ![cur[c]] = "S_READY"]
             PROVE  World(on, cur, idle2, rq2, z, li, wk, mv, wc, cw, nt, st2, cpu)
  BY Zenon
<1>1. WorldType(on, cur, idle, rq, z, li, wk, mv, wc, cw, nt, st, cpu)
  BY DEF World
<1>2. QueueOK(rq, nt, st, cpu)
  BY DEF World
<1>3. ListOK(rq, li, wk, mv, wc, cw, nt, st, cpu)
  BY DEF World
<1>4. ChannelOK(wc, cw, st)
  BY DEF World
<1>5. ZombieOK(z, st, cpu)
  BY DEF World
<1>6. NewbornOK(nt, st)
  BY DEF World
<1>7. CurrentOK(on, cur, idle, st, cpu)
  BY DEF World
<1>8. CoverOK(rq, z, li, wc, cw, nt, st, cpu)
  BY DEF World
<1> DEFINE t == cur[c]
<1>11. t \in Threads /\ c \in Cpus /\ st[t] = "S_RUN" /\ cpu[t] = c
  BY <1>1, <1>7 DEF WorldType, CurrentOK
<1>12. st2 \in [Threads -> States] /\ st2[t] = "S_READY" /\ \A x \in Threads : x # t => st2[x] = st[x]
  BY <1>1, <1>11 DEF WorldType, States
<1>13. idle2 \in [Cpus -> BOOLEAN] /\ idle2[c] /\ \A d \in Cpus : d # c => idle2[d] = idle[d]
  BY <1>1, <1>11 DEF WorldType

<1>14. ~In(t, q) /\ \A u \in Threads : nt[u] # t
  BY <1>2, <1>6, <1>11, ThreadFacts DEF QueueOK, NewbornOK
<1>15. /\ Append(q, t) \in Seq(Threads) /\ (\A x : In(x, Append(q, t)) <=> In(x, q) \/ x = t)
       /\ Once(Append(q, t))
  BY <1>11, <1>14, OnceAppend
<1>16. /\ rq2 \in [Cpus -> Seq(Threads)] /\ (\A x : In(x, rq2[c]) <=> In(x, rq[c]) \/ x = t)
       /\ Once(rq2[c]) /\ \A d \in Cpus : d # c => rq2[d] = rq[d]
  BY <1>1, <1>11, <1>15 DEF WorldType
<1> HIDE DEF t
<1>21. WorldType(on, cur, idle2, rq2, z, li, wk, mv, wc, cw, nt, st2, cpu)
  BY <1>1, <1>11, <1>12, <1>13, <1>14, <1>16, ThreadFacts DEF WorldType
<1>22. QueueOK(rq2, nt, st2, cpu)
  BY <1>2, <1>11, <1>12, <1>13, <1>14, <1>16, ThreadFacts DEF QueueOK
<1>23. ListOK(rq2, li, wk, mv, wc, cw, nt, st2, cpu)
  BY <1>3, <1>11, <1>12, <1>13, <1>14, <1>16, ThreadFacts DEF ListOK
<1>24. ChannelOK(wc, cw, st2)
  BY <1>4, <1>11, <1>12, <1>13, <1>14, <1>16, ThreadFacts DEF ChannelOK
<1>25. ZombieOK(z, st2, cpu)
  BY <1>5, <1>11, <1>12, <1>13, <1>14, <1>16, ThreadFacts DEF ZombieOK
<1>26. NewbornOK(nt, st2)
  BY <1>6, <1>11, <1>12, <1>13, <1>14, <1>16, ThreadFacts DEF NewbornOK
<1>27. CurrentOK(on, cur, idle2, st2, cpu)
  BY <1>7, <1>11, <1>12, <1>13, <1>14, <1>16, ThreadFacts DEF CurrentOK
<1>28. CoverOK(rq2, z, li, wc, cw, nt, st2, cpu)
  BY <1>8, <1>11, <1>12, <1>16, ThreadFacts DEF CoverOK
<1> QED BY <1>21, <1>22, <1>23, <1>24, <1>25, <1>26, <1>27, <1>28 DEF World

\* schedule() rearranges a run queue.
LEMMA Rearrange ==
  ASSUME NEW on, NEW cur, NEW idle, NEW rq, NEW z, NEW li, NEW wk, NEW mv, NEW wc, NEW cw,
         NEW nt, NEW st, NEW cpu,
         World(on, cur, idle, rq, z, li, wk, mv, wc, cw, nt, st, cpu),
         NEW c \in Cpus,
         NEW q \in Seq(Threads), Once(q), \A x : In(x, q) <=> In(x, rq[c])
  PROVE  World(on, cur, idle, [rq EXCEPT ![c] = q], z, li, wk, mv, wc, cw, nt, st, cpu)
<1> SUFFICES ASSUME NEW rq2,
                    rq2 = [rq EXCEPT ![c] = q]
             PROVE  World(on, cur, idle, rq2, z, li, wk, mv, wc, cw, nt, st, cpu)
  BY Zenon
<1>1. WorldType(on, cur, idle, rq, z, li, wk, mv, wc, cw, nt, st, cpu)
  BY DEF World
<1>2. QueueOK(rq, nt, st, cpu)
  BY DEF World
<1>3. ListOK(rq, li, wk, mv, wc, cw, nt, st, cpu)
  BY DEF World
<1>4. ChannelOK(wc, cw, st)
  BY DEF World
<1>5. ZombieOK(z, st, cpu)
  BY DEF World
<1>6. NewbornOK(nt, st)
  BY DEF World
<1>7. CurrentOK(on, cur, idle, st, cpu)
  BY DEF World
<1>8. CoverOK(rq, z, li, wc, cw, nt, st, cpu)
  BY DEF World
<1>16. /\ rq2 \in [Cpus -> Seq(Threads)] /\ (\A x : In(x, rq2[c]) <=> In(x, rq[c]))
       /\ Once(rq2[c]) /\ \A d \in Cpus : d # c => rq2[d] = rq[d]
  BY <1>1 DEF WorldType
<1>21. WorldType(on, cur, idle, rq2, z, li, wk, mv, wc, cw, nt, st, cpu)
  BY <1>1, <1>16, ThreadFacts DEF WorldType
<1>22. QueueOK(rq2, nt, st, cpu)
  BY <1>2, <1>16, ThreadFacts DEF QueueOK
<1>23. ListOK(rq2, li, wk, mv, wc, cw, nt, st, cpu)
  BY <1>3, <1>16, ThreadFacts DEF ListOK
<1>24. ChannelOK(wc, cw, st)
  BY <1>4, <1>16, ThreadFacts DEF ChannelOK
<1>25. ZombieOK(z, st, cpu)
  BY <1>5, <1>16, ThreadFacts DEF ZombieOK
<1>26. NewbornOK(nt, st)
  BY <1>6, <1>16, ThreadFacts DEF NewbornOK
<1>27. CurrentOK(on, cur, idle, st, cpu)
  BY <1>7, <1>16, ThreadFacts DEF CurrentOK
<1>28. CoverOK(rq2, z, li, wc, cw, nt, st, cpu)
  BY <1>8, <1>16, ThreadFacts DEF CoverOK
<1> QED BY <1>21, <1>22, <1>23, <1>24, <1>25, <1>26, <1>27, <1>28 DEF World

\* An idle cpu takes the next thread, which destroys the zombies.
LEMMA TakeNext ==
  ASSUME NEW on, NEW cur, NEW idle, NEW rq, NEW z, NEW li, NEW wk, NEW mv, NEW wc, NEW cw,
         NEW nt, NEW st, NEW cpu,
         World(on, cur, idle, rq, z, li, wk, mv, wc, cw, nt, st, cpu),
         NEW c \in on, idle[c], rq[c] # <<>>
  PROVE  World(on, [cur EXCEPT ![c] = Head(rq[c])], [idle EXCEPT ![c] = FALSE],
               [rq EXCEPT ![c] = Tail(rq[c])], [z EXCEPT ![c] = {}], li, wk, mv, wc, cw,
               nt, Chosen(st, Head(rq[c]), z[c]), Exorcised(cpu, z[c]))
<1> SUFFICES ASSUME NEW rq2, NEW cur2, NEW idle2, NEW z2, NEW st2, NEW cpu2,
                    rq2 = [rq EXCEPT ![c] = Tail(rq[c])],
                    cur2 = [cur EXCEPT ![c] = Head(rq[c])],
                    idle2 = [idle EXCEPT ![c] = FALSE],
                    z2 = [z EXCEPT ![c] = {}],
                    st2 = Chosen(st, Head(rq[c]), z[c]),
                    cpu2 = Exorcised(cpu, z[c])
             PROVE  World(on, cur2, idle2, rq2, z2, li, wk, mv, wc, cw, nt, st2, cpu2)
  BY Zenon
<1>1. WorldType(on, cur, idle, rq, z, li, wk, mv, wc, cw, nt, st, cpu)
  BY DEF World
<1>2. QueueOK(rq, nt, st, cpu)
  BY DEF World
<1>3. ListOK(rq, li, wk, mv, wc, cw, nt, st, cpu)
  BY DEF World
<1>4. ChannelOK(wc, cw, st)
  BY DEF World
<1>5. ZombieOK(z, st, cpu)
  BY DEF World
<1>6. NewbornOK(nt, st)
  BY DEF World
<1>7. CurrentOK(on, cur, idle, st, cpu)
  BY DEF World
<1>8. CoverOK(rq, z, li, wc, cw, nt, st, cpu)
  BY DEF World
<1> DEFINE t == Head(rq[c])
<1>11. c \in Cpus /\ rq[c] \in Seq(Threads) /\ z[c] \in SUBSET Threads
  BY <1>1 DEF WorldType
<1>12. t \in Threads /\ In(t, rq[c])
  BY <1>11, InHead
<1>13. /\ st[t] = "S_READY" /\ cpu[t] = c /\ (\A u \in Threads : nt[u] # t) /\ Once(rq[c]) /\ t \notin z[c]
  BY <1>2, <1>5, <1>11, <1>12 DEF QueueOK, ZombieOK
<1>14. Tail(rq[c]) \in Seq(Threads) /\ Once(Tail(rq[c])) /\ \A x : In(x, Tail(rq[c])) <=> In(x, rq[c]) /\ x # t
  BY <1>11, <1>13, OnceTail
<1>15. /\ rq2 \in [Cpus -> Seq(Threads)] /\ Once(rq2[c]) /\ (\A x : In(x, rq2[c]) <=> In(x, rq[c]) /\ x # t)
       /\ \A d \in Cpus : d # c => rq2[d] = rq[d]
  BY <1>1, <1>11, <1>14 DEF WorldType
<1>16. /\ cur2 \in [Cpus -> Threads] /\ cur2[c] = t /\ (\A d \in Cpus : d # c => cur2[d] = cur[d])
       /\ idle2 \in [Cpus -> BOOLEAN] /\ ~idle2[c] /\ (\A d \in Cpus : d # c => idle2[d] = idle[d])
       /\ z2 \in [Cpus -> SUBSET Threads] /\ z2[c] = {} /\ (\A d \in Cpus : d # c => z2[d] = z[d])
  BY <1>1, <1>11, <1>12 DEF WorldType
<1>17. /\ st2 \in [Threads -> States] /\ st2[t] = "S_RUN"
       /\ \A x \in z[c] : st2[x] = "S_FREE" /\ st[x] = "S_ZOMBIE" /\ cpu[x] = c
       /\ \A x \in Threads : x # t /\ x \notin z[c] => st2[x] = st[x]
  BY <1>1, <1>5, <1>11, <1>12, <1>13 DEF WorldType, States, ZombieOK, Chosen
<1>18. cpu2 \in [Threads -> Cpus] /\ \A x \in Threads : x \notin z[c] => cpu2[x] = cpu[x]
  BY <1>1, ThreadFacts DEF WorldType, Exorcised
<1>19. \A x \in Threads : x # t /\ st[x] # "S_ZOMBIE" => x \notin z[c] /\ st2[x] = st[x] /\ cpu2[x] = cpu[x]
  BY <1>17, <1>18
<1> HIDE DEF t
<1>21. WorldType(on, cur2, idle2, rq2, z2, li, wk, mv, wc, cw, nt, st2, cpu2)
  BY <1>1, <1>1, <1>15, <1>16, <1>17, <1>18, ThreadFacts DEF WorldType
<1>22. QueueOK(rq2, nt, st2, cpu2)
  BY <1>2, <1>11, <1>13, <1>15, <1>19, ThreadFacts DEF QueueOK
<1>23. ListOK(rq2, li, wk, mv, wc, cw, nt, st2, cpu2)
  <2>1. ASSUME NEW d \in Cpus, NEW x \in Threads, In(x, li[d])
        PROVE  x # t \/ d \notin wk \cup mv
    BY <1>3, <1>12, <1>13, <2>1 DEF ListOK
  <2> QED BY <1>3, <1>13, <1>15, <1>19, <2>1 DEF ListOK
<1>24. ChannelOK(wc, cw, st2)
  BY <1>4, <1>13, <1>19, ThreadFacts DEF ChannelOK
<1>25. ZombieOK(z2, st2, cpu2)
  <2>1. ASSUME NEW d \in Cpus, NEW x \in z2[d] PROVE st2[x] = "S_ZOMBIE" /\ cpu2[x] = d
    <3>1. d # c /\ x \in z[d]
      BY <1>16, <2>1
    <3>2. st[x] = "S_ZOMBIE" /\ cpu[x] = d
      BY <1>5, <3>1 DEF ZombieOK
    <3>3. x \in Threads /\ x # t /\ x \notin z[c]
      BY <1>1, <1>13, <1>17, <2>1, <3>1, <3>2 DEF WorldType
    <3> QED BY <1>17, <1>18, <3>2, <3>3
  <2> QED BY <2>1 DEF ZombieOK
<1>26. NewbornOK(nt, st2)
  BY <1>6, <1>13, <1>19, ThreadFacts DEF NewbornOK
<1>27. CurrentOK(on, cur2, idle2, st2, cpu2)
  <2>1. on \subseteq Cpus /\ \A d \in on : cur[d] \in Threads
    BY <1>1 DEF WorldType
  <2>2. ASSUME NEW d \in on
        PROVE  cpu2[cur2[d]] = d /\ st2[cur2[d]] # "S_FREE" /\ (st2[cur2[d]] = "S_RUN" <=> ~idle2[d])
    <3>1. CASE d = c
      BY <1>11, <1>12, <1>13, <1>16, <1>17, <1>18, <3>1
    <3>2. CASE d # c
      <4>1. cpu[cur[d]] = d /\ cur2[d] = cur[d] /\ idle2[d] = idle[d] /\ cur[d] \in Threads
        BY <1>7, <1>16, <2>1, <3>2 DEF CurrentOK
      <4>2. cur[d] # t /\ cur[d] \notin z[c]
        BY <1>13, <1>17, <3>2, <4>1
      <4>3. st2[cur2[d]] = st[cur[d]] /\ cpu2[cur2[d]] = d
        BY <1>17, <1>18, <4>1, <4>2
      <4>4. st[cur[d]] # "S_FREE" /\ (st[cur[d]] = "S_RUN" <=> ~idle[d])
        BY <1>7 DEF CurrentOK
      <4> QED BY <4>1, <4>3, <4>4
    <3> QED BY <3>1, <3>2
  <2>3. ASSUME NEW x \in Threads PROVE st2[x] # "S_FREE" => cpu2[x] \in on
    BY <1>7, <1>12, <1>13, <1>17, <1>18 DEF CurrentOK
  <2>4. ASSUME NEW x \in Threads, st2[x] = "S_RUN" PROVE cur2[cpu2[x]] = x
    <3>1. CASE x = t
      BY <1>12, <1>13, <1>16, <1>18, <3>1
    <3>2. CASE x # t
      <4>1. st[x] = "S_RUN" /\ cpu2[x] = cpu[x]
        BY <1>17, <1>18, <2>4, <3>2
      <4>2. cpu[x] \in Cpus /\ cur[cpu[x]] = x /\ cpu[x] # c
        BY <1>7, <2>1, <4>1 DEF CurrentOK
      <4> QED BY <1>16, <4>1, <4>2
    <3> QED BY <3>1, <3>2
  <2> QED BY <2>2, <2>3, <2>4 DEF CurrentOK
<1>28. CoverOK(rq2, z2, li, wc, cw, nt, st2, cpu2)
  <2>1. \A x \in Threads : cpu[x] \in Cpus
    BY <1>1 DEF WorldType
  <2>2. ASSUME NEW x \in Threads, st2[x] \in {"S_READY", "S_SLEEP", "S_ZOMBIE"}
        PROVE  x # t /\ x \notin z[c] /\ st2[x] = st[x] /\ cpu2[x] = cpu[x]
    BY <1>17, <1>18, <2>2
  <2>3. ASSUME NEW x \in Threads, st2[x] = "S_READY"
        PROVE  In(x, rq2[cpu2[x]]) \/ In(x, li[cpu2[x]]) \/ \E v \in Threads : nt[v] = x
    BY <1>8, <1>15, <2>1, <2>2, <2>3 DEF CoverOK
  <2>4. ASSUME NEW x \in Threads, st2[x] = "S_SLEEP"
        PROVE  In(x, wc) \/ In(x, cw) \/ \E d \in Cpus : In(x, li[d])
    BY <1>8, <2>2, <2>4 DEF CoverOK
  <2>5. ASSUME NEW x \in Threads, st2[x] = "S_ZOMBIE" PROVE x \in z2[cpu2[x]]
    BY <1>8, <1>16, <2>1, <2>2, <2>5 DEF CoverOK
  <2> QED BY <2>3, <2>4, <2>5 DEF CoverOK
<1> QED BY <1>21, <1>22, <1>23, <1>24, <1>25, <1>26, <1>27, <1>28 DEF World

\* The menu is woken in thread_wait_for_count.
LEMMA WakeCount ==
  ASSUME NEW on, NEW cur, NEW idle, NEW rq, NEW z, NEW li, NEW wk, NEW mv, NEW wc, NEW cw,
         NEW nt, NEW st, NEW cpu,
         World(on, cur, idle, rq, z, li, wk, mv, wc, cw, nt, st, cpu),
         cw # <<>>
  PROVE  World(on, cur, idle, [rq EXCEPT ![cpu[Menu]] = Append(rq[cpu[Menu]], Menu)], z,
               li, wk, mv, wc, <<>>, nt, [st EXCEPT ![Menu] = "S_READY"], cpu)
<1> SUFFICES ASSUME NEW rq2, NEW st2, NEW cw2,
                    rq2 = [rq EXCEPT ![cpu[Menu]] = Append(rq[cpu[Menu]], Menu)],
                    st2 = [st EXCEPT ![Menu] = "S_READY"],
                    cw2 = <<>>
             PROVE  World(on, cur, idle, rq2, z, li, wk, mv, wc, cw2, nt, st2, cpu)
  BY Zenon
<1>1. WorldType(on, cur, idle, rq, z, li, wk, mv, wc, cw, nt, st, cpu)
  BY DEF World
<1>2. QueueOK(rq, nt, st, cpu)
  BY DEF World
<1>3. ListOK(rq, li, wk, mv, wc, cw, nt, st, cpu)
  BY DEF World
<1>4. ChannelOK(wc, cw, st)
  BY DEF World
<1>5. ZombieOK(z, st, cpu)
  BY DEF World
<1>6. NewbornOK(nt, st)
  BY DEF World
<1>7. CurrentOK(on, cur, idle, st, cpu)
  BY DEF World
<1>8. CoverOK(rq, z, li, wc, cw, nt, st, cpu)
  BY DEF World
<1> DEFINE t == Menu
<1>10. /\ cw2 \in Seq(Threads) /\ Once(cw2) /\ (\A x : ~In(x, cw2))
  BY OnceEmpty
<1>9. Head(cw) \in Threads /\ In(Head(cw), cw)
  BY <1>1, InHead DEF WorldType
<1>11. t \in Threads /\ st[t] = "S_SLEEP" /\ In(t, cw) /\ (\A u \in Threads : nt[u] # t) /\ \A x \in Threads : In(x, cw) => x = t
  BY <1>4, <1>6, <1>9, ThreadFacts DEF ChannelOK, NewbornOK
<1> HIDE DEF t

<1>12. cpu[t] \in Cpus /\ cpu[t] \in on /\ rq[cpu[t]] \in Seq(Threads) /\ ~In(t, rq[cpu[t]])
  BY <1>1, <1>2, <1>7, <1>11 DEF WorldType, QueueOK, CurrentOK
<1>13. /\ Append(rq[cpu[t]], t) \in Seq(Threads) /\ Once(Append(rq[cpu[t]], t))
       /\ \A x : In(x, Append(rq[cpu[t]], t)) <=> In(x, rq[cpu[t]]) \/ x = t
  BY <1>2, <1>11, <1>12, OnceAppend DEF QueueOK
<1>14. /\ rq2 \in [Cpus -> Seq(Threads)] /\ Once(rq2[cpu[t]]) /\ In(t, rq2[cpu[t]])
       /\ (\A x : In(x, rq2[cpu[t]]) <=> In(x, rq[cpu[t]]) \/ x = t)
       /\ \A d \in Cpus : d # cpu[t] => rq2[d] = rq[d]
  BY <1>1, <1>11, <1>12, <1>13 DEF WorldType, t
<1>15. st2 \in [Threads -> States] /\ st2[t] = "S_READY" /\ \A x \in Threads : x # t => st2[x] = st[x]
  BY <1>1, <1>11 DEF WorldType, States, t
<1>21. WorldType(on, cur, idle, rq2, z, li, wk, mv, wc, cw2, nt, st2, cpu)
  BY <1>1, <1>10, <1>11, <1>12, <1>14, <1>15, ThreadFacts DEF WorldType
<1>22. QueueOK(rq2, nt, st2, cpu)
  BY <1>2, <1>10, <1>11, <1>12, <1>14, <1>15, ThreadFacts DEF QueueOK
<1>23. ListOK(rq2, li, wk, mv, wc, cw2, nt, st2, cpu)
  BY <1>3, <1>10, <1>11, <1>12, <1>14, <1>15, ThreadFacts DEF ListOK
<1>24. ChannelOK(wc, cw2, st2)
  BY <1>4, <1>10, <1>11, <1>12, <1>14, <1>15, ThreadFacts DEF ChannelOK
<1>25. ZombieOK(z, st2, cpu)
  BY <1>5, <1>10, <1>11, <1>12, <1>14, <1>15, ThreadFacts DEF ZombieOK
<1>26. NewbornOK(nt, st2)
  BY <1>6, <1>10, <1>11, <1>12, <1>14, <1>15, ThreadFacts DEF NewbornOK
<1>27. CurrentOK(on, cur, idle, st2, cpu)
  BY <1>7, <1>10, <1>11, <1>12, <1>14, <1>15, ThreadFacts DEF CurrentOK
<1>28. CoverOK(rq2, z, li, wc, cw2, nt, st2, cpu)
  BY <1>8, <1>10, <1>11, <1>12, <1>14, <1>15, ThreadFacts DEF CoverOK
<1> QED BY <1>21, <1>22, <1>23, <1>24, <1>25, <1>26, <1>27, <1>28 DEF World

\* thread_fork makes the new thread runnable.
LEMMA StartNewborn ==
  ASSUME NEW on, NEW cur, NEW idle, NEW rq, NEW z, NEW li, NEW wk, NEW mv, NEW wc, NEW cw,
         NEW nt, NEW st, NEW cpu,
         World(on, cur, idle, rq, z, li, wk, mv, wc, cw, nt, st, cpu),
         NEW u \in Threads, nt[u] # NULL
  PROVE  World(on, cur, idle, [rq EXCEPT ![cpu[nt[u]]] = Append(rq[cpu[nt[u]]], nt[u])], z,
               li, wk, mv, wc, cw, [nt EXCEPT ![u] = NULL],
               [st EXCEPT ![nt[u]] = "S_READY"], cpu)
<1> SUFFICES ASSUME NEW rq2, NEW st2, NEW nt2,
                    rq2 = [rq EXCEPT ![cpu[nt[u]]] = Append(rq[cpu[nt[u]]], nt[u])],
                    st2 = [st EXCEPT ![nt[u]] = "S_READY"],
                    nt2 = [nt EXCEPT ![u] = NULL]
             PROVE  World(on, cur, idle, rq2, z, li, wk, mv, wc, cw, nt2, st2, cpu)
  BY Zenon
<1>1. WorldType(on, cur, idle, rq, z, li, wk, mv, wc, cw, nt, st, cpu)
  BY DEF World
<1>2. QueueOK(rq, nt, st, cpu)
  BY DEF World
<1>3. ListOK(rq, li, wk, mv, wc, cw, nt, st, cpu)
  BY DEF World
<1>4. ChannelOK(wc, cw, st)
  BY DEF World
<1>5. ZombieOK(z, st, cpu)
  BY DEF World
<1>6. NewbornOK(nt, st)
  BY DEF World
<1>7. CurrentOK(on, cur, idle, st, cpu)
  BY DEF World
<1>8. CoverOK(rq, z, li, wc, cw, nt, st, cpu)
  BY DEF World
<1> DEFINE t == nt[u]
<1>11. t \in Threads /\ st[t] = "S_READY" /\ t # NULL /\ (\A v \in Threads : nt[v] = t => v = u) /\ (\A c \in Cpus : ~In(t, rq[c]))
  BY <1>2, <1>6, ThreadFacts DEF QueueOK, NewbornOK
<1>10. /\ nt2 \in [Threads -> Kids \cup {NULL}] /\ nt2[u] = NULL /\ (\A v \in Threads : v # u => nt2[v] = nt[v])
       /\ \A v \in Threads : nt2[v] # t
  BY <1>1, <1>11 DEF WorldType
<1> HIDE DEF t

<1>12. cpu[t] \in Cpus /\ cpu[t] \in on /\ rq[cpu[t]] \in Seq(Threads) /\ ~In(t, rq[cpu[t]])
  BY <1>1, <1>2, <1>7, <1>11 DEF WorldType, QueueOK, CurrentOK
<1>13. /\ Append(rq[cpu[t]], t) \in Seq(Threads) /\ Once(Append(rq[cpu[t]], t))
       /\ \A x : In(x, Append(rq[cpu[t]], t)) <=> In(x, rq[cpu[t]]) \/ x = t
  BY <1>2, <1>11, <1>12, OnceAppend DEF QueueOK
<1>14. /\ rq2 \in [Cpus -> Seq(Threads)] /\ Once(rq2[cpu[t]]) /\ In(t, rq2[cpu[t]])
       /\ (\A x : In(x, rq2[cpu[t]]) <=> In(x, rq[cpu[t]]) \/ x = t)
       /\ \A d \in Cpus : d # cpu[t] => rq2[d] = rq[d]
  BY <1>1, <1>11, <1>12, <1>13 DEF WorldType, t
<1>15. st2 \in [Threads -> States] /\ st2[t] = "S_READY" /\ \A x \in Threads : x # t => st2[x] = st[x]
  BY <1>1, <1>11 DEF WorldType, States, t
<1>21. WorldType(on, cur, idle, rq2, z, li, wk, mv, wc, cw, nt2, st2, cpu)
  BY <1>1, <1>10, <1>11, <1>12, <1>14, <1>15, ThreadFacts DEF WorldType
<1>22. QueueOK(rq2, nt2, st2, cpu)
  BY <1>2, <1>10, <1>11, <1>12, <1>14, <1>15, ThreadFacts DEF QueueOK
<1>23. ListOK(rq2, li, wk, mv, wc, cw, nt2, st2, cpu)
  <2>1. \A d \in Cpus : d \in wk \cup mv => ~In(t, li[d])
    BY <1>3, <1>11 DEF ListOK, t
  <2>2. \A v, x \in Threads : nt2[v] = x => nt[v] = x
    BY <1>10, ThreadFacts
  <2> QED BY <1>3, <1>11, <1>12, <1>14, <1>15, <2>1, <2>2 DEF ListOK
<1>24. ChannelOK(wc, cw, st2)
  BY <1>4, <1>10, <1>11, <1>12, <1>14, <1>15, ThreadFacts DEF ChannelOK
<1>25. ZombieOK(z, st2, cpu)
  BY <1>5, <1>10, <1>11, <1>12, <1>14, <1>15, ThreadFacts DEF ZombieOK
<1>26. NewbornOK(nt2, st2)
  BY <1>6, <1>10, <1>11, <1>12, <1>14, <1>15, ThreadFacts DEF NewbornOK
<1>27. CurrentOK(on, cur, idle, st2, cpu)
  BY <1>7, <1>10, <1>11, <1>12, <1>14, <1>15, ThreadFacts DEF CurrentOK
<1>28. CoverOK(rq2, z, li, wc, cw, nt2, st2, cpu)
  <2>1. \A x \in Threads : cpu[x] \in Cpus
    BY <1>1 DEF WorldType
  <2>5. \A v, x \in Threads : nt[v] = x /\ x # t => nt2[v] = x
    BY <1>10 DEF t
  <2>2. ASSUME NEW x \in Threads, st2[x] = "S_READY"
        PROVE  In(x, rq2[cpu[x]]) \/ In(x, li[cpu[x]]) \/ \E v \in Threads : nt2[v] = x
    BY <1>8, <1>10, <1>11, <1>12, <1>14, <1>15, <2>1, <2>2, <2>5 DEF CoverOK
  <2>3. ASSUME NEW x \in Threads, st2[x] = "S_SLEEP"
        PROVE  In(x, wc) \/ In(x, cw) \/ \E d \in Cpus : In(x, li[d])
    BY <1>8, <1>10, <1>11, <1>12, <1>14, <1>15, <2>1, <2>3 DEF CoverOK
  <2>4. ASSUME NEW x \in Threads, st2[x] = "S_ZOMBIE" PROVE x \in z[cpu[x]]
    BY <1>8, <1>11, <1>15, <2>4 DEF CoverOK
  <2> QED BY <2>2, <2>3, <2>4 DEF CoverOK
<1> QED BY <1>21, <1>22, <1>23, <1>24, <1>25, <1>26, <1>27, <1>28 DEF World

\* wchan_wakeone makes the first sleeper runnable.
LEMMA WakeHead ==
  ASSUME NEW on, NEW cur, NEW idle, NEW rq, NEW z, NEW li, NEW wk, NEW mv, NEW wc, NEW cw,
         NEW nt, NEW st, NEW cpu,
         World(on, cur, idle, rq, z, li, wk, mv, wc, cw, nt, st, cpu),
         wc # <<>>
  PROVE  World(on, cur, idle,
               [rq EXCEPT ![cpu[Head(wc)]] = Append(rq[cpu[Head(wc)]], Head(wc))], z, li,
               wk, mv, Tail(wc), cw, nt, [st EXCEPT ![Head(wc)] = "S_READY"], cpu)
<1> SUFFICES ASSUME NEW rq2, NEW st2, NEW wc2,
                    rq2 = [rq EXCEPT ![cpu[Head(wc)]] = Append(rq[cpu[Head(wc)]], Head(wc))],
                    st2 = [st EXCEPT ![Head(wc)] = "S_READY"],
                    wc2 = Tail(wc)
             PROVE  World(on, cur, idle, rq2, z, li, wk, mv, wc2, cw, nt, st2, cpu)
  BY Zenon
<1>1. WorldType(on, cur, idle, rq, z, li, wk, mv, wc, cw, nt, st, cpu)
  BY DEF World
<1>2. QueueOK(rq, nt, st, cpu)
  BY DEF World
<1>3. ListOK(rq, li, wk, mv, wc, cw, nt, st, cpu)
  BY DEF World
<1>4. ChannelOK(wc, cw, st)
  BY DEF World
<1>5. ZombieOK(z, st, cpu)
  BY DEF World
<1>6. NewbornOK(nt, st)
  BY DEF World
<1>7. CurrentOK(on, cur, idle, st, cpu)
  BY DEF World
<1>8. CoverOK(rq, z, li, wc, cw, nt, st, cpu)
  BY DEF World
<1> DEFINE t == Head(wc)
<1>10. wc \in Seq(Threads) /\ Once(wc)
  BY <1>1, <1>4 DEF WorldType, ChannelOK
<1>11. t \in Threads /\ st[t] = "S_SLEEP" /\ In(t, wc) /\ ~In(t, cw) /\ (\A u \in Threads : nt[u] # t)
  BY <1>4, <1>6, <1>10, InHead, ThreadFacts DEF ChannelOK, NewbornOK
<1>16. /\ wc2 \in Seq(Threads) /\ Once(wc2) /\ ~In(t, wc2) /\ (\A x : In(x, wc) <=> In(x, wc2) \/ x = t)
  BY <1>10, OnceTail
<1> HIDE DEF t

<1>12. cpu[t] \in Cpus /\ cpu[t] \in on /\ rq[cpu[t]] \in Seq(Threads) /\ ~In(t, rq[cpu[t]])
  BY <1>1, <1>2, <1>7, <1>11 DEF WorldType, QueueOK, CurrentOK
<1>13. /\ Append(rq[cpu[t]], t) \in Seq(Threads) /\ Once(Append(rq[cpu[t]], t))
       /\ \A x : In(x, Append(rq[cpu[t]], t)) <=> In(x, rq[cpu[t]]) \/ x = t
  BY <1>2, <1>11, <1>12, OnceAppend DEF QueueOK
<1>14. /\ rq2 \in [Cpus -> Seq(Threads)] /\ Once(rq2[cpu[t]]) /\ In(t, rq2[cpu[t]])
       /\ (\A x : In(x, rq2[cpu[t]]) <=> In(x, rq[cpu[t]]) \/ x = t)
       /\ \A d \in Cpus : d # cpu[t] => rq2[d] = rq[d]
  BY <1>1, <1>11, <1>12, <1>13 DEF WorldType, t
<1>15. st2 \in [Threads -> States] /\ st2[t] = "S_READY" /\ \A x \in Threads : x # t => st2[x] = st[x]
  BY <1>1, <1>11 DEF WorldType, States, t
<1>21. WorldType(on, cur, idle, rq2, z, li, wk, mv, wc2, cw, nt, st2, cpu)
  BY <1>1, <1>16, <1>11, <1>12, <1>14, <1>15, ThreadFacts DEF WorldType
<1>22. QueueOK(rq2, nt, st2, cpu)
  BY <1>2, <1>16, <1>11, <1>12, <1>14, <1>15, ThreadFacts DEF QueueOK
<1>23. ListOK(rq2, li, wk, mv, wc2, cw, nt, st2, cpu)
  BY <1>3, <1>16, <1>11, <1>12, <1>14, <1>15, ThreadFacts DEF ListOK
<1>24. ChannelOK(wc2, cw, st2)
  BY <1>4, <1>16, <1>11, <1>12, <1>14, <1>15, ThreadFacts DEF ChannelOK
<1>25. ZombieOK(z, st2, cpu)
  BY <1>5, <1>16, <1>11, <1>12, <1>14, <1>15, ThreadFacts DEF ZombieOK
<1>26. NewbornOK(nt, st2)
  BY <1>6, <1>16, <1>11, <1>12, <1>14, <1>15, ThreadFacts DEF NewbornOK
<1>27. CurrentOK(on, cur, idle, st2, cpu)
  BY <1>7, <1>16, <1>11, <1>12, <1>14, <1>15, ThreadFacts DEF CurrentOK
<1>28. CoverOK(rq2, z, li, wc2, cw, nt, st2, cpu)
  BY <1>8, <1>16, <1>11, <1>12, <1>14, <1>15, ThreadFacts DEF CoverOK
<1> QED BY <1>21, <1>22, <1>23, <1>24, <1>25, <1>26, <1>27, <1>28 DEF World

\* wchan_wakeall moves the sleepers to a private list.
LEMMA TakeSleepers ==
  ASSUME NEW on, NEW cur, NEW idle, NEW rq, NEW z, NEW li, NEW wk, NEW mv, NEW wc, NEW cw,
         NEW nt, NEW st, NEW cpu,
         World(on, cur, idle, rq, z, li, wk, mv, wc, cw, nt, st, cpu),
         NEW c \in Cpus, wk = {}, c \notin mv
  PROVE  World(on, cur, idle, rq, z, [li EXCEPT ![c] = wc], {c}, mv, <<>>, cw, nt, st, cpu)
<1> SUFFICES ASSUME NEW li2, NEW wk2, NEW wc2,
                    li2 = [li EXCEPT ![c] = wc],
                    wk2 = {c},
                    wc2 = <<>>
             PROVE  World(on, cur, idle, rq, z, li2, wk2, mv, wc2, cw, nt, st, cpu)
  BY Zenon
<1>1. WorldType(on, cur, idle, rq, z, li, wk, mv, wc, cw, nt, st, cpu)
  BY DEF World
<1>2. QueueOK(rq, nt, st, cpu)
  BY DEF World
<1>3. ListOK(rq, li, wk, mv, wc, cw, nt, st, cpu)
  BY DEF World
<1>4. ChannelOK(wc, cw, st)
  BY DEF World
<1>5. ZombieOK(z, st, cpu)
  BY DEF World
<1>6. NewbornOK(nt, st)
  BY DEF World
<1>7. CurrentOK(on, cur, idle, st, cpu)
  BY DEF World
<1>8. CoverOK(rq, z, li, wc, cw, nt, st, cpu)
  BY DEF World
<1>10. /\ wc2 \in Seq(Threads) /\ Once(wc2) /\ (\A x : ~In(x, wc2))
  BY OnceEmpty
<1>11. wc \in Seq(Threads) /\ Once(wc) /\ \A x \in Threads : ~In(x, li[c])
  BY <1>1, <1>3, <1>4, OnceEmpty DEF WorldType, ChannelOK, ListOK
<1>12. /\ wk2 \subseteq Cpus /\ li2 \in [Cpus -> Seq(Threads)] /\ li2[c] = wc /\ \A d \in Cpus : d # c => li2[d] = li[d]
  BY <1>1, <1>11 DEF WorldType
<1>21. WorldType(on, cur, idle, rq, z, li2, wk2, mv, wc2, cw, nt, st, cpu)
  BY <1>1, <1>10, <1>11, <1>12, ThreadFacts DEF WorldType
<1>22. QueueOK(rq, nt, st, cpu)
  BY <1>2, <1>10, <1>11, <1>12, ThreadFacts DEF QueueOK
<1>23. ListOK(rq, li2, wk2, mv, wc2, cw, nt, st, cpu)
  BY <1>3, <1>4, <1>10, <1>11, <1>12, ThreadFacts DEF ListOK, ChannelOK
<1>24. ChannelOK(wc2, cw, st)
  BY <1>4, <1>10, <1>11, <1>12, ThreadFacts DEF ChannelOK
<1>25. ZombieOK(z, st, cpu)
  BY <1>5, <1>10, <1>11, <1>12, ThreadFacts DEF ZombieOK
<1>26. NewbornOK(nt, st)
  BY <1>6, <1>10, <1>11, <1>12, ThreadFacts DEF NewbornOK
<1>27. CurrentOK(on, cur, idle, st, cpu)
  BY <1>7, <1>10, <1>11, <1>12, ThreadFacts DEF CurrentOK
<1>28. CoverOK(rq, z, li2, wc2, cw, nt, st, cpu)
  <2>1. \A x \in Threads : cpu[x] \in Cpus
    BY <1>1 DEF WorldType
  <2>2. \A x \in Threads : \A d \in Cpus : In(x, li[d]) => In(x, li2[d])
    BY <1>11, <1>12
  <2>3. \A x \in Threads : In(x, wc) => In(x, li2[c])
    BY <1>12
  <2> QED BY <1>8, <2>1, <2>2, <2>3 DEF CoverOK
<1> QED BY <1>21, <1>22, <1>23, <1>24, <1>25, <1>26, <1>27, <1>28 DEF World

\* wchan_wakeall makes the first thread of its list runnable.
LEMMA WakeListed ==
  ASSUME NEW on, NEW cur, NEW idle, NEW rq, NEW z, NEW li, NEW wk, NEW mv, NEW wc, NEW cw,
         NEW nt, NEW st, NEW cpu,
         World(on, cur, idle, rq, z, li, wk, mv, wc, cw, nt, st, cpu),
         NEW c \in wk, li[c] # <<>>
  PROVE  World(on, cur, idle,
               [rq EXCEPT ![cpu[Head(li[c])]] = Append(rq[cpu[Head(li[c])]], Head(li[c]))],
               z, [li EXCEPT ![c] = Tail(li[c])], wk, mv, wc, cw, nt,
               [st EXCEPT ![Head(li[c])] = "S_READY"], cpu)
<1> SUFFICES ASSUME NEW rq2, NEW st2, NEW li2,
                    rq2 = [rq EXCEPT ![cpu[Head(li[c])]] = Append(rq[cpu[Head(li[c])]], Head(li[c]))],
                    st2 = [st EXCEPT ![Head(li[c])] = "S_READY"],
                    li2 = [li EXCEPT ![c] = Tail(li[c])]
             PROVE  World(on, cur, idle, rq2, z, li2, wk, mv, wc, cw, nt, st2, cpu)
  BY Zenon
<1>1. WorldType(on, cur, idle, rq, z, li, wk, mv, wc, cw, nt, st, cpu)
  BY DEF World
<1>2. QueueOK(rq, nt, st, cpu)
  BY DEF World
<1>3. ListOK(rq, li, wk, mv, wc, cw, nt, st, cpu)
  BY DEF World
<1>4. ChannelOK(wc, cw, st)
  BY DEF World
<1>5. ZombieOK(z, st, cpu)
  BY DEF World
<1>6. NewbornOK(nt, st)
  BY DEF World
<1>7. CurrentOK(on, cur, idle, st, cpu)
  BY DEF World
<1>8. CoverOK(rq, z, li, wc, cw, nt, st, cpu)
  BY DEF World
<1> DEFINE t == Head(li[c])
<1>10. c \in Cpus /\ c \notin mv /\ li[c] \in Seq(Threads) /\ Once(li[c])
  BY <1>1, <1>3 DEF WorldType, ListOK
<1>11. t \in Threads /\ st[t] = "S_SLEEP" /\ In(t, li[c]) /\ ~In(t, wc) /\ ~In(t, cw) /\ (\A u \in Threads : nt[u] # t)
  BY <1>3, <1>6, <1>10, InHead, ThreadFacts DEF ListOK, NewbornOK
<1>17. /\ Tail(li[c]) \in Seq(Threads) /\ Once(Tail(li[c])) /\ ~In(t, Tail(li[c]))
       /\ (\A x : In(x, li[c]) <=> In(x, Tail(li[c])) \/ x = t)
  BY <1>10, OnceTail
<1>16. /\ li2 \in [Cpus -> Seq(Threads)] /\ Once(li2[c]) /\ ~In(t, li2[c]) /\ (\A x : In(x, li[c]) <=> In(x, li2[c]) \/ x = t)
       /\ \A d \in Cpus : d # c => li2[d] = li[d]
  BY <1>1, <1>10, <1>17 DEF WorldType
<1> HIDE DEF t

<1>12. cpu[t] \in Cpus /\ cpu[t] \in on /\ rq[cpu[t]] \in Seq(Threads) /\ ~In(t, rq[cpu[t]])
  BY <1>1, <1>2, <1>7, <1>11 DEF WorldType, QueueOK, CurrentOK
<1>13. /\ Append(rq[cpu[t]], t) \in Seq(Threads) /\ Once(Append(rq[cpu[t]], t))
       /\ \A x : In(x, Append(rq[cpu[t]], t)) <=> In(x, rq[cpu[t]]) \/ x = t
  BY <1>2, <1>11, <1>12, OnceAppend DEF QueueOK
<1>14. /\ rq2 \in [Cpus -> Seq(Threads)] /\ Once(rq2[cpu[t]]) /\ In(t, rq2[cpu[t]])
       /\ (\A x : In(x, rq2[cpu[t]]) <=> In(x, rq[cpu[t]]) \/ x = t)
       /\ \A d \in Cpus : d # cpu[t] => rq2[d] = rq[d]
  BY <1>1, <1>11, <1>12, <1>13 DEF WorldType, t
<1>15. st2 \in [Threads -> States] /\ st2[t] = "S_READY" /\ \A x \in Threads : x # t => st2[x] = st[x]
  BY <1>1, <1>11 DEF WorldType, States, t
<1>21. WorldType(on, cur, idle, rq2, z, li2, wk, mv, wc, cw, nt, st2, cpu)
  BY <1>1, <1>10, <1>16, <1>11, <1>12, <1>14, <1>15, ThreadFacts DEF WorldType
<1>22. QueueOK(rq2, nt, st2, cpu)
  <2>1. ASSUME NEW d \in Cpus
        PROVE  Once(rq2[d]) /\ \A x \in Threads : In(x, rq2[d]) =>
                  st2[x] = "S_READY" /\ cpu[x] = d /\ \A u \in Threads : nt[u] # x
    <3>1. Once(rq[d]) /\ \A x \in Threads : In(x, rq[d]) =>
            st[x] = "S_READY" /\ cpu[x] = d /\ \A u \in Threads : nt[u] # x
      BY <1>2 DEF QueueOK
    <3>2. \A x \in Threads : In(x, rq[d]) => x # t /\ st2[x] = "S_READY"
      BY <1>11, <1>15, <3>1
    <3>3. Once(rq2[d]) /\ \A x : In(x, rq2[d]) => In(x, rq[d]) \/ (x = t /\ d = cpu[t])
      <4>1. CASE d = cpu[t]
        BY <1>14, <4>1, Zenon
      <4>2. CASE d # cpu[t]
        <5>1. rq2[d] = rq[d]
          BY <1>14, <4>2, Zenon
        <5> QED BY <3>1, <5>1, Zenon
      <4> QED BY <4>1, <4>2
    <3>4. st2[t] = "S_READY" /\ \A u \in Threads : nt[u] # t
      BY <1>11, <1>15, Zenon
    <3>5. ASSUME NEW x \in Threads, In(x, rq2[d])
          PROVE  st2[x] = "S_READY" /\ cpu[x] = d /\ \A u \in Threads : nt[u] # x
      <4>1. CASE In(x, rq[d])
        BY <3>1, <3>2, <4>1, Zenon
      <4>2. CASE x = t /\ d = cpu[t]
        BY <3>4, <4>2, Zenon
      <4> QED BY <3>3, <3>5, <4>1, <4>2, Zenon
    <3> QED BY <3>3, <3>5, Zenon
  <2> QED BY <2>1, Zenon DEF QueueOK
<1>23. ListOK(rq2, li2, wk, mv, wc, cw, nt, st2, cpu)
  <2>1. ASSUME NEW d \in Cpus, NEW x \in Threads, In(x, li2[d]) PROVE In(x, li[d]) /\ x # t
    <3>1. CASE d = c
      BY <1>16, <2>1, <3>1
    <3>2. CASE d # c
      <4>1. In(x, li[d])
        BY <1>16, <2>1, <3>2
      <4>2. d \in wk \cup mv
        BY <1>3, <4>1, OnceEmpty DEF ListOK
      <4>3. d \in mv
        BY <1>3, <3>2, <4>2 DEF ListOK
      <4> QED BY <1>3, <1>11, <4>1, <4>3 DEF ListOK
    <3> QED BY <3>1, <3>2
  <2>2. ASSUME NEW d \in mv, NEW x \in Threads, In(x, li2[d]) PROVE ~In(x, rq2[d])
    <3>1. d \in Cpus
      BY <1>1 DEF WorldType
    <3>2. In(x, li[d]) /\ x # t
      BY <2>1, <2>2, <3>1
    <3>3. ~In(x, rq[d])
      BY <1>3, <3>1, <3>2 DEF ListOK
    <3> QED BY <1>14, <3>1, <3>2, <3>3
  <2>3. \A d \in Cpus : Once(li2[d]) /\ (d \notin wk \cup mv => li2[d] = <<>>)
    BY <1>3, <1>16 DEF ListOK
  <2> QED BY <1>3, <1>15, <2>1, <2>2, <2>3 DEF ListOK
<1>24. ChannelOK(wc, cw, st2)
  BY <1>4, <1>11, <1>15 DEF ChannelOK
<1>25. ZombieOK(z, st2, cpu)
  <2>1. \A d \in Cpus : \A x \in z[d] : x \in Threads
    BY <1>1 DEF WorldType
  <2> QED BY <1>5, <1>11, <1>15, <2>1 DEF ZombieOK
<1>26. NewbornOK(nt, st2)
  BY <1>6, <1>11, <1>15 DEF NewbornOK
<1>27. CurrentOK(on, cur, idle, st2, cpu)
  <2>1. \A d \in on : cur[d] \in Threads
    BY <1>1 DEF WorldType
  <2> QED BY <1>7, <1>11, <1>15, <2>1 DEF CurrentOK
<1>28. CoverOK(rq2, z, li2, wc, cw, nt, st2, cpu)
  <2>1. \A x \in Threads : cpu[x] \in Cpus
    BY <1>1 DEF WorldType
  <2>2. ASSUME NEW x \in Threads, st2[x] = "S_READY"
        PROVE  In(x, rq2[cpu[x]]) \/ In(x, li2[cpu[x]]) \/ \E v \in Threads : nt[v] = x
    <3>1. CASE x = t
      BY <1>14, <3>1
    <3>2. CASE x # t
      <4>1. In(x, rq[cpu[x]]) \/ In(x, li[cpu[x]]) \/ \E v \in Threads : nt[v] = x
        BY <1>8, <1>15, <2>2, <3>2 DEF CoverOK
      <4>2. In(x, rq[cpu[x]]) => In(x, rq2[cpu[x]])
        BY <1>14, <2>1
      <4>3. In(x, li[cpu[x]]) => In(x, li2[cpu[x]])
        BY <1>16, <2>1, <3>2
      <4> QED BY <4>1, <4>2, <4>3
    <3> QED BY <3>1, <3>2
  <2>3. ASSUME NEW x \in Threads, st2[x] = "S_SLEEP"
        PROVE  In(x, wc) \/ In(x, cw) \/ \E d \in Cpus : In(x, li2[d])
    <3>1. x # t /\ st[x] = "S_SLEEP"
      BY <1>15, <2>3
    <3>2. \A d \in Cpus : In(x, li[d]) => In(x, li2[d])
      BY <1>16, <3>1
    <3> QED BY <1>8, <3>1, <3>2 DEF CoverOK
  <2>4. ASSUME NEW x \in Threads, st2[x] = "S_ZOMBIE" PROVE x \in z[cpu[x]]
    BY <1>8, <1>11, <1>15, <2>4 DEF CoverOK
  <2> QED BY <2>2, <2>3, <2>4 DEF CoverOK
<1> QED BY <1>21, <1>22, <1>23, <1>24, <1>25, <1>26, <1>27, <1>28 DEF World

\* A cpu whose private list is empty is done with it.
LEMMA ListDone ==
  ASSUME NEW on, NEW cur, NEW idle, NEW rq, NEW z, NEW li, NEW wk, NEW mv, NEW wc, NEW cw,
         NEW nt, NEW st, NEW cpu,
         World(on, cur, idle, rq, z, li, wk, mv, wc, cw, nt, st, cpu),
         NEW c \in Cpus, li[c] = <<>>
  PROVE  World(on, cur, idle, rq, z, li, wk \ {c}, mv \ {c}, wc, cw, nt, st, cpu)
<1> SUFFICES ASSUME NEW wk2, NEW mv2,
                    wk2 = wk \ {c},
                    mv2 = mv \ {c}
             PROVE  World(on, cur, idle, rq, z, li, wk2, mv2, wc, cw, nt, st, cpu)
  BY Zenon
<1>1. WorldType(on, cur, idle, rq, z, li, wk, mv, wc, cw, nt, st, cpu)
  BY DEF World
<1>2. QueueOK(rq, nt, st, cpu)
  BY DEF World
<1>3. ListOK(rq, li, wk, mv, wc, cw, nt, st, cpu)
  BY DEF World
<1>4. ChannelOK(wc, cw, st)
  BY DEF World
<1>5. ZombieOK(z, st, cpu)
  BY DEF World
<1>6. NewbornOK(nt, st)
  BY DEF World
<1>7. CurrentOK(on, cur, idle, st, cpu)
  BY DEF World
<1>8. CoverOK(rq, z, li, wc, cw, nt, st, cpu)
  BY DEF World
<1>10. \A x : ~In(x, li[c])
  BY OnceEmpty
<1>21. WorldType(on, cur, idle, rq, z, li, wk2, mv2, wc, cw, nt, st, cpu)
  BY <1>1, <1>10, ThreadFacts DEF WorldType
<1>22. QueueOK(rq, nt, st, cpu)
  BY <1>2, <1>10, ThreadFacts DEF QueueOK
<1>23. ListOK(rq, li, wk2, mv2, wc, cw, nt, st, cpu)
  BY <1>3, <1>10, ThreadFacts DEF ListOK
<1>24. ChannelOK(wc, cw, st)
  BY <1>4, <1>10, ThreadFacts DEF ChannelOK
<1>25. ZombieOK(z, st, cpu)
  BY <1>5, <1>10, ThreadFacts DEF ZombieOK
<1>26. NewbornOK(nt, st)
  BY <1>6, <1>10, ThreadFacts DEF NewbornOK
<1>27. CurrentOK(on, cur, idle, st, cpu)
  BY <1>7, <1>10, ThreadFacts DEF CurrentOK
<1>28. CoverOK(rq, z, li, wc, cw, nt, st, cpu)
  BY <1>8, <1>10, ThreadFacts DEF CoverOK
<1> QED BY <1>21, <1>22, <1>23, <1>24, <1>25, <1>26, <1>27, <1>28 DEF World

\* thread_consider_migration cuts victims off the run queue.
LEMMA CutQueue ==
  ASSUME NEW on, NEW cur, NEW idle, NEW rq, NEW z, NEW li, NEW wk, NEW mv, NEW wc, NEW cw,
         NEW nt, NEW st, NEW cpu,
         World(on, cur, idle, rq, z, li, wk, mv, wc, cw, nt, st, cpu),
         NEW c \in Cpus, c \notin wk, li[c] = <<>>,
         NEW n \in 0 .. Len(rq[c])
  PROVE  World(on, cur, idle, [rq EXCEPT ![c] = SubSeq(rq[c], 1, n)], z,
               [li EXCEPT ![c] = SubSeq(rq[c], n + 1, Len(rq[c]))], wk, mv \cup {c}, wc,
               cw, nt, st, cpu)
<1> SUFFICES ASSUME NEW rq2, NEW li2, NEW mv2,
                    rq2 = [rq EXCEPT ![c] = SubSeq(rq[c], 1, n)],
                    li2 = [li EXCEPT ![c] = SubSeq(rq[c], n + 1, Len(rq[c]))],
                    mv2 = mv \cup {c}
             PROVE  World(on, cur, idle, rq2, z, li2, wk, mv2, wc, cw, nt, st, cpu)
  BY Zenon
<1>1. WorldType(on, cur, idle, rq, z, li, wk, mv, wc, cw, nt, st, cpu)
  BY DEF World
<1>2. QueueOK(rq, nt, st, cpu)
  BY DEF World
<1>3. ListOK(rq, li, wk, mv, wc, cw, nt, st, cpu)
  BY DEF World
<1>4. ChannelOK(wc, cw, st)
  BY DEF World
<1>5. ZombieOK(z, st, cpu)
  BY DEF World
<1>6. NewbornOK(nt, st)
  BY DEF World
<1>7. CurrentOK(on, cur, idle, st, cpu)
  BY DEF World
<1>8. CoverOK(rq, z, li, wc, cw, nt, st, cpu)
  BY DEF World
<1> DEFINE q == rq[c]
           a == SubSeq(q, 1, n)
           b == SubSeq(q, n + 1, Len(q))
<1>10. q \in Seq(Threads) /\ Once(q) /\ (\A x : ~In(x, li[c]))
  BY <1>1, <1>2, OnceEmpty DEF WorldType, QueueOK
<1>11. /\ a \in Seq(Threads) /\ b \in Seq(Threads) /\ Once(a) /\ Once(b)
       /\ (\A x : In(x, q) <=> In(x, a) \/ In(x, b)) /\ \A x : ~(In(x, a) /\ In(x, b))
  BY <1>10, OnceCut
<1>12. /\ rq2 \in [Cpus -> Seq(Threads)] /\ li2 \in [Cpus -> Seq(Threads)] /\ mv2 \subseteq Cpus
       /\ rq2[c] = a /\ li2[c] = b /\ \A d \in Cpus : d # c => rq2[d] = rq[d] /\ li2[d] = li[d]
  BY <1>1, <1>11 DEF WorldType
<1> HIDE DEF a, b, q
<1>13. q = rq[c]
  BY DEF q
<1>14. \A x \in Threads : cpu[x] \in Cpus
  BY <1>1 DEF WorldType
<1>21. WorldType(on, cur, idle, rq2, z, li2, wk, mv2, wc, cw, nt, st, cpu)
  BY <1>1, <1>10, <1>11, <1>12, <1>13, ThreadFacts DEF WorldType
<1>22. QueueOK(rq2, nt, st, cpu)
  BY <1>2, <1>10, <1>11, <1>12, <1>13, ThreadFacts DEF QueueOK
<1>23. ListOK(rq2, li2, wk, mv2, wc, cw, nt, st, cpu)
  <2>1. wk \cap mv2 = {} /\ \A d, f \in wk : d = f
    BY <1>3 DEF ListOK
  <2>2. ASSUME NEW d \in Cpus PROVE Once(li2[d]) /\ (d \notin wk \cup mv2 => li2[d] = <<>>)
    BY <1>3, <1>11, <1>12 DEF ListOK
  <2>3. ASSUME NEW d \in Cpus, NEW x \in Threads, In(x, li2[d]), d \in wk
        PROVE  st[x] = "S_SLEEP" /\ ~In(x, wc) /\ ~In(x, cw)
    BY <1>3, <1>12, <2>3 DEF ListOK
  <2>4. ASSUME NEW d \in Cpus, NEW x \in Threads, In(x, li2[d]), d \in mv2
        PROVE  st[x] = "S_READY" /\ cpu[x] = d /\ ~In(x, rq2[d]) /\ \A u \in Threads : nt[u] # x
    <3>1. CASE d = c
      BY <1>2, <1>11, <1>12, <1>13, <2>4, <3>1 DEF QueueOK
    <3>2. CASE d # c
      BY <1>3, <1>12, <2>4, <3>2 DEF ListOK
    <3> QED BY <3>1, <3>2
  <2> QED BY <2>1, <2>2, <2>3, <2>4 DEF ListOK
<1>24. ChannelOK(wc, cw, st)
  BY <1>4, <1>10, <1>11, <1>12, <1>13, ThreadFacts DEF ChannelOK
<1>25. ZombieOK(z, st, cpu)
  BY <1>5, <1>10, <1>11, <1>12, <1>13, ThreadFacts DEF ZombieOK
<1>26. NewbornOK(nt, st)
  BY <1>6, <1>10, <1>11, <1>12, <1>13, ThreadFacts DEF NewbornOK
<1>27. CurrentOK(on, cur, idle, st, cpu)
  BY <1>7, <1>10, <1>11, <1>12, <1>13, ThreadFacts DEF CurrentOK
<1>28. CoverOK(rq2, z, li2, wc, cw, nt, st, cpu)
  BY <1>8, <1>10, <1>11, <1>12, <1>13, <1>14, ThreadFacts DEF CoverOK
<1> QED BY <1>21, <1>22, <1>23, <1>24, <1>25, <1>26, <1>27, <1>28 DEF World

\* Victims are given to cpu e.
LEMMA GiveAway ==
  ASSUME NEW on, NEW cur, NEW idle, NEW rq, NEW z, NEW li, NEW wk, NEW mv, NEW wc, NEW cw,
         NEW nt, NEW st, NEW cpu,
         World(on, cur, idle, rq, z, li, wk, mv, wc, cw, nt, st, cpu),
         NEW c \in mv, NEW e \in on, e # c,
         NEW a \in Seq(Threads), Once(a), NEW b \in Seq(Threads), Once(b),
         \A x : In(x, li[c]) <=> In(x, a) \/ In(x, b),
         \A x : ~(In(x, a) /\ In(x, b)),
         ~In(cur[c], a)
  PROVE  World(on, cur, idle, [rq EXCEPT ![e] = rq[e] \o a], z, [li EXCEPT ![c] = b], wk,
               mv, wc, cw, nt, st, Rehomed(cpu, a, e))
<1> SUFFICES ASSUME NEW rq2, NEW li2, NEW cpu2,
                    rq2 = [rq EXCEPT ![e] = rq[e] \o a],
                    li2 = [li EXCEPT ![c] = b],
                    cpu2 = Rehomed(cpu, a, e)
             PROVE  World(on, cur, idle, rq2, z, li2, wk, mv, wc, cw, nt, st, cpu2)
  BY Zenon
<1>1. WorldType(on, cur, idle, rq, z, li, wk, mv, wc, cw, nt, st, cpu)
  BY DEF World
<1>2. QueueOK(rq, nt, st, cpu)
  BY DEF World
<1>3. ListOK(rq, li, wk, mv, wc, cw, nt, st, cpu)
  BY DEF World
<1>4. ChannelOK(wc, cw, st)
  BY DEF World
<1>5. ZombieOK(z, st, cpu)
  BY DEF World
<1>6. NewbornOK(nt, st)
  BY DEF World
<1>7. CurrentOK(on, cur, idle, st, cpu)
  BY DEF World
<1>8. CoverOK(rq, z, li, wc, cw, nt, st, cpu)
  BY DEF World
<1>10. c \in Cpus /\ e \in Cpus /\ c \notin wk /\ rq[e] \in Seq(Threads) /\ Once(rq[e])
  BY <1>1, <1>2, <1>3 DEF WorldType, QueueOK, ListOK
<1>11. \A x \in Threads : In(x, a) => /\ In(x, li[c]) /\ st[x] = "S_READY" /\ cpu[x] = c
                                       /\ (\A d \in Cpus : ~In(x, rq[d])) /\ \A u \in Threads : nt[u] # x
  BY <1>2, <1>3, <1>10 DEF QueueOK, ListOK
<1>12. rq[e] \o a \in Seq(Threads) /\ Once(rq[e] \o a) /\ \A x : In(x, rq[e] \o a) <=> In(x, rq[e]) \/ In(x, a)
  BY <1>10, <1>11, OnceConcat
<1>13. /\ rq2 \in [Cpus -> Seq(Threads)] /\ li2 \in [Cpus -> Seq(Threads)]
       /\ cpu2 \in [Threads -> Cpus]
       /\ Once(rq2[e]) /\ (\A x : In(x, rq2[e]) <=> In(x, rq[e]) \/ In(x, a)) /\ li2[c] = b
       /\ (\A d \in Cpus : d # e => rq2[d] = rq[d]) /\ (\A d \in Cpus : d # c => li2[d] = li[d])
       /\ \A x \in Threads : (In(x, a) => cpu2[x] = e) /\ (~In(x, a) => cpu2[x] = cpu[x])
  BY <1>1, <1>10, <1>12 DEF WorldType, Rehomed
<1>14. \A x \in Threads : cpu[x] \in Cpus
  BY <1>1 DEF WorldType
<1>21. WorldType(on, cur, idle, rq2, z, li2, wk, mv, wc, cw, nt, st, cpu2)
  BY <1>1, <1>10, <1>11, <1>13, ThreadFacts DEF WorldType
<1>22. QueueOK(rq2, nt, st, cpu2)
  <2>1. \A d \in Cpus : Once(rq2[d])
    BY <1>2, <1>13 DEF QueueOK
  <2>2. ASSUME NEW d \in Cpus, NEW x \in Threads, In(x, rq2[d])
        PROVE  st[x] = "S_READY" /\ cpu2[x] = d /\ \A u \in Threads : nt[u] # x
    <3>1. CASE In(x, a)
      <4>1. d = e
        BY <1>11, <1>13, <2>2, <3>1
      <4> QED BY <1>11, <1>13, <3>1, <4>1
    <3>2. CASE ~In(x, a)
      <4>1. In(x, rq[d])
        BY <1>13, <2>2, <3>2
      <4> QED BY <1>2, <1>13, <3>2, <4>1 DEF QueueOK
    <3> QED BY <3>1, <3>2
  <2> QED BY <2>1, <2>2 DEF QueueOK
<1>23. ListOK(rq2, li2, wk, mv, wc, cw, nt, st, cpu2)
  <2>1. ASSUME NEW d \in Cpus, NEW x \in Threads, In(x, li2[d]) PROVE In(x, li[d]) /\ (d \in mv => ~In(x, a))
    <3>1. CASE d = c
      BY <1>13, <2>1, <3>1
    <3>2. CASE d # c
      <4>1. In(x, li[d])
        BY <1>13, <2>1, <3>2
      <4>2. d \in mv => cpu[x] = d
        BY <1>3, <4>1 DEF ListOK
      <4> QED BY <1>11, <3>2, <4>1, <4>2
    <3> QED BY <3>1, <3>2
  <2>2. ASSUME NEW d \in mv, NEW x \in Threads, In(x, li2[d]) PROVE cpu2[x] = d /\ ~In(x, rq2[d])
    <3>1. d \in Cpus
      BY <1>1 DEF WorldType
    <3>2. In(x, li[d]) /\ ~In(x, a)
      BY <2>1, <2>2, <3>1
    <3>3. cpu[x] = d /\ ~In(x, rq[d])
      BY <1>3, <3>1, <3>2 DEF ListOK
    <3>4. cpu2[x] = d
      BY <1>13, <3>2, <3>3
    <3>5. ~In(x, rq2[d])
      BY <1>13, <3>1, <3>2, <3>3
    <3> QED BY <3>4, <3>5
  <2>3. \A d \in Cpus : Once(li2[d]) /\ (d \notin wk \cup mv => li2[d] = <<>>)
    BY <1>3, <1>10, <1>13 DEF ListOK
  <2> QED BY <1>3, <2>1, <2>2, <2>3 DEF ListOK
<1>24. ChannelOK(wc, cw, st)
  BY <1>4, <1>10, <1>11, <1>13, ThreadFacts DEF ChannelOK
<1>25. ZombieOK(z, st, cpu2)
  <2>1. \A d \in Cpus : \A x \in z[d] : x \in Threads
    BY <1>1 DEF WorldType
  <2> QED BY <1>5, <1>11, <1>13, <2>1 DEF ZombieOK
<1>26. NewbornOK(nt, st)
  BY <1>6, <1>10, <1>11, <1>13, ThreadFacts DEF NewbornOK
<1>27. CurrentOK(on, cur, idle, st, cpu2)
  <2>1. ASSUME NEW d \in on PROVE cpu2[cur[d]] = d
    <3>1. cur[d] \in Threads /\ cpu[cur[d]] = d
      BY <1>1, <1>7 DEF WorldType, CurrentOK
    <3> QED BY <1>11, <1>13, <3>1
  <2>2. ASSUME NEW x \in Threads, st[x] # "S_FREE" PROVE cpu2[x] \in on
    BY <1>7, <1>13, <2>2 DEF CurrentOK
  <2>3. ASSUME NEW x \in Threads, st[x] = "S_RUN" PROVE cur[cpu2[x]] = x
    <3>1. ~In(x, a)
      BY <1>11, <2>3
    <3> QED BY <1>7, <1>13, <2>3, <3>1 DEF CurrentOK
  <2> QED BY <1>7, <2>1, <2>2, <2>3 DEF CurrentOK
<1>28. CoverOK(rq2, z, li2, wc, cw, nt, st, cpu2)
  <2>1. ASSUME NEW x \in Threads, st[x] = "S_READY"
        PROVE  In(x, rq2[cpu2[x]]) \/ In(x, li2[cpu2[x]]) \/ \E v \in Threads : nt[v] = x
    <3>1. CASE In(x, a)
      BY <1>10, <1>13, <3>1
    <3>2. CASE ~In(x, a)
      <4>1. cpu2[x] = cpu[x] /\ cpu[x] \in Cpus
        BY <1>13, <1>14, <3>2
      <4>2. In(x, rq[cpu[x]]) => In(x, rq2[cpu[x]])
        BY <1>13, <4>1
      <4>3. In(x, li[cpu[x]]) => In(x, li2[cpu[x]])
        BY <1>13, <3>2, <4>1
      <4> QED BY <1>8, <2>1, <4>1, <4>2, <4>3 DEF CoverOK
    <3> QED BY <3>1, <3>2
  <2>2. ASSUME NEW x \in Threads, st[x] = "S_SLEEP"
        PROVE  In(x, wc) \/ In(x, cw) \/ \E d \in Cpus : In(x, li2[d])
    <3>1. \A d \in Cpus : In(x, li[d]) => In(x, li2[d])
      BY <1>11, <1>13, <2>2
    <3> QED BY <1>8, <2>2, <3>1 DEF CoverOK
  <2>3. ASSUME NEW x \in Threads, st[x] = "S_ZOMBIE" PROVE x \in z[cpu2[x]]
    BY <1>8, <1>11, <1>13, <2>3 DEF CoverOK
  <2> QED BY <2>1, <2>2, <2>3 DEF CoverOK
<1> QED BY <1>21, <1>22, <1>23, <1>24, <1>25, <1>26, <1>27, <1>28 DEF World

\* The victims that nobody had room for go back to the run queue.
LEMMA PutBack ==
  ASSUME NEW on, NEW cur, NEW idle, NEW rq, NEW z, NEW li, NEW wk, NEW mv, NEW wc, NEW cw,
         NEW nt, NEW st, NEW cpu,
         World(on, cur, idle, rq, z, li, wk, mv, wc, cw, nt, st, cpu),
         NEW c \in mv
  PROVE  World(on, cur, idle, [rq EXCEPT ![c] = rq[c] \o li[c]], z,
               [li EXCEPT ![c] = <<>>], wk, mv \ {c}, wc, cw, nt, st, cpu)
<1> SUFFICES ASSUME NEW rq2, NEW li2, NEW mv2,
                    rq2 = [rq EXCEPT ![c] = rq[c] \o li[c]],
                    li2 = [li EXCEPT ![c] = <<>>],
                    mv2 = mv \ {c}
             PROVE  World(on, cur, idle, rq2, z, li2, wk, mv2, wc, cw, nt, st, cpu)
  BY Zenon
<1>1. WorldType(on, cur, idle, rq, z, li, wk, mv, wc, cw, nt, st, cpu)
  BY DEF World
<1>2. QueueOK(rq, nt, st, cpu)
  BY DEF World
<1>3. ListOK(rq, li, wk, mv, wc, cw, nt, st, cpu)
  BY DEF World
<1>4. ChannelOK(wc, cw, st)
  BY DEF World
<1>5. ZombieOK(z, st, cpu)
  BY DEF World
<1>6. NewbornOK(nt, st)
  BY DEF World
<1>7. CurrentOK(on, cur, idle, st, cpu)
  BY DEF World
<1>8. CoverOK(rq, z, li, wc, cw, nt, st, cpu)
  BY DEF World
<1>10. /\ c \in Cpus /\ c \notin wk /\ rq[c] \in Seq(Threads) /\ Once(rq[c])
       /\ li[c] \in Seq(Threads) /\ Once(li[c])
  BY <1>1, <1>2, <1>3 DEF WorldType, QueueOK, ListOK
<1>11. \A x \in Threads : In(x, li[c]) => /\ st[x] = "S_READY" /\ cpu[x] = c
                                           /\ ~In(x, rq[c]) /\ \A u \in Threads : nt[u] # x
  BY <1>3, <1>10 DEF ListOK
<1>12. rq[c] \o li[c] \in Seq(Threads) /\ Once(rq[c] \o li[c]) /\ \A x : In(x, rq[c] \o li[c]) <=> In(x, rq[c]) \/ In(x, li[c])
  BY <1>10, <1>11, OnceConcat
<1>13. /\ rq2 \in [Cpus -> Seq(Threads)] /\ li2 \in [Cpus -> Seq(Threads)] /\ mv2 \subseteq Cpus
       /\ Once(rq2[c]) /\ (\A x : In(x, rq2[c]) <=> In(x, rq[c]) \/ In(x, li[c])) /\ li2[c] = <<>> /\ Once(li2[c])
       /\ (\A x : ~In(x, li2[c])) /\ \A d \in Cpus : d # c => rq2[d] = rq[d] /\ li2[d] = li[d]
  BY <1>1, <1>10, <1>12, OnceEmpty DEF WorldType
<1>14. \A x \in Threads : cpu[x] \in Cpus
  BY <1>1 DEF WorldType
<1>21. WorldType(on, cur, idle, rq2, z, li2, wk, mv2, wc, cw, nt, st, cpu)
  BY <1>1, <1>10, <1>11, <1>13, ThreadFacts DEF WorldType
<1>22. QueueOK(rq2, nt, st, cpu)
  BY <1>2, <1>10, <1>11, <1>13, ThreadFacts DEF QueueOK
<1>23. ListOK(rq2, li2, wk, mv2, wc, cw, nt, st, cpu)
  BY <1>3, <1>10, <1>11, <1>13, ThreadFacts DEF ListOK
<1>24. ChannelOK(wc, cw, st)
  BY <1>4, <1>10, <1>11, <1>13, ThreadFacts DEF ChannelOK
<1>25. ZombieOK(z, st, cpu)
  BY <1>5, <1>10, <1>11, <1>13, ThreadFacts DEF ZombieOK
<1>26. NewbornOK(nt, st)
  BY <1>6, <1>10, <1>11, <1>13, ThreadFacts DEF NewbornOK
<1>27. CurrentOK(on, cur, idle, st, cpu)
  BY <1>7, <1>10, <1>11, <1>13, ThreadFacts DEF CurrentOK
<1>28. CoverOK(rq2, z, li2, wc, cw, nt, st, cpu)
  BY <1>8, <1>10, <1>11, <1>13, <1>14, ThreadFacts DEF CoverOK
<1> QED BY <1>21, <1>22, <1>23, <1>24, <1>25, <1>26, <1>27, <1>28 DEF World

\* thread_fork has created a thread.
LEMMA NewThread ==
  ASSUME NEW on, NEW cur, NEW idle, NEW rq, NEW z, NEW li, NEW wk, NEW mv, NEW wc, NEW cw,
         NEW nt, NEW st, NEW cpu,
         World(on, cur, idle, rq, z, li, wk, mv, wc, cw, nt, st, cpu),
         NEW u \in Threads, nt[u] = NULL, NEW k \in Kids, st[k] = "S_FREE", NEW e \in on
  PROVE  World(on, cur, idle, rq, z, li, wk, mv, wc, cw, [nt EXCEPT ![u] = k],
               [st EXCEPT ![k] = "S_READY"], [cpu EXCEPT ![k] = e])
<1> SUFFICES ASSUME NEW nt2, NEW st2, NEW cpu2,
                    nt2 = [nt EXCEPT ![u] = k],
                    st2 = [st EXCEPT ![k] = "S_READY"],
                    cpu2 = [cpu EXCEPT ![k] = e]
             PROVE  World(on, cur, idle, rq, z, li, wk, mv, wc, cw, nt2, st2, cpu2)
  BY Zenon
<1>1. WorldType(on, cur, idle, rq, z, li, wk, mv, wc, cw, nt, st, cpu)
  BY DEF World
<1>2. QueueOK(rq, nt, st, cpu)
  BY DEF World
<1>3. ListOK(rq, li, wk, mv, wc, cw, nt, st, cpu)
  BY DEF World
<1>4. ChannelOK(wc, cw, st)
  BY DEF World
<1>5. ZombieOK(z, st, cpu)
  BY DEF World
<1>6. NewbornOK(nt, st)
  BY DEF World
<1>7. CurrentOK(on, cur, idle, st, cpu)
  BY DEF World
<1>8. CoverOK(rq, z, li, wc, cw, nt, st, cpu)
  BY DEF World
<1>10. k \in Threads /\ k # NULL /\ e \in Cpus
  BY <1>1, ThreadFacts DEF WorldType
<1>11. /\ nt2 \in [Threads -> Kids \cup {NULL}] /\ nt2[u] = k /\ (\A v \in Threads : v # u => nt2[v] = nt[v])
       /\ st2 \in [Threads -> States] /\ st2[k] = "S_READY" /\ (\A x \in Threads : x # k => st2[x] = st[x])
       /\ cpu2 \in [Threads -> Cpus] /\ cpu2[k] = e /\ \A x \in Threads : x # k => cpu2[x] = cpu[x]
  BY <1>1, <1>10 DEF WorldType, States
<1>21. WorldType(on, cur, idle, rq, z, li, wk, mv, wc, cw, nt2, st2, cpu2)
  BY <1>1, <1>10, <1>11, ThreadFacts DEF WorldType
<1>22. QueueOK(rq, nt2, st2, cpu2)
  BY <1>2, <1>10, <1>11, ThreadFacts DEF QueueOK
<1>23. ListOK(rq, li, wk, mv, wc, cw, nt2, st2, cpu2)
  BY <1>3, <1>10, <1>11, ThreadFacts DEF ListOK
<1>24. ChannelOK(wc, cw, st2)
  BY <1>4, <1>10, <1>11, ThreadFacts DEF ChannelOK
<1>25. ZombieOK(z, st2, cpu2)
  BY <1>5, <1>10, <1>11, ThreadFacts DEF ZombieOK
<1>26. NewbornOK(nt2, st2)
  BY <1>6, <1>10, <1>11, ThreadFacts DEF NewbornOK
<1>27. CurrentOK(on, cur, idle, st2, cpu2)
  BY <1>7, <1>10, <1>11, ThreadFacts DEF CurrentOK
<1>28. CoverOK(rq, z, li, wc, cw, nt2, st2, cpu2)
  BY <1>8, <1>10, <1>11, ThreadFacts DEF CoverOK
<1> QED BY <1>21, <1>22, <1>23, <1>24, <1>25, <1>26, <1>27, <1>28 DEF World

-----------------------------------------------------------------------------
(***************************************************************************)
(* The inductive invariant.                                                *)
(***************************************************************************)
Waking == {c \in Cpus : pc[c] = "wakeall"}
Giving == {c \in Cpus : pc[c] \in {"give", "back"}}

PlaceInv ==
    World(Online, c_curthread, c_isidle, c_runqueue, c_zombies, list, Waking, Giving,
          wc_threads, count_wchan, newthread, t_state, t_cpu)

\* The types that World does not give.
RestType ==
    /\ aging \in BOOLEAN /\ zeroed \in BOOLEAN /\ fault \in BOOLEAN /\ late \subseteq Hatchers
    /\ pc \in [Cpus -> CpuLabels]
    /\ c_hardclocks \in [Cpus -> 0 .. MIGRATE_HARDCLOCKS - 1]
    /\ ipi_line \in [Cpus -> BOOLEAN]
    /\ mig \in [Cpus -> [i : 0 .. NumCpus, my : Nat, total : Nat, send : Nat]]
    /\ at \in [Threads -> ThreadLabels]
    /\ thread_count \in 0 .. UINT - 1 /\ tc \in 0 .. UINT - 1 \cup {NULL}
    /\ priority \in [Threads -> Nat] /\ ends \in [head : Int, tail : Int]
    /\ waited \in [Threads -> Nat]

\* What the label of cpu c says about it.
PcOK(c) ==
    /\ pc[c] = "off" <=> c \notin Online
    /\ pc[c] \in {"idle", "resume"} => c_isidle[c]
    /\ pc[c] = "run" => ~c_isidle[c]
    /\ pc[c] = "wakeall" => list[c] # <<>>

\* The numbers that thread_consider_migration has counted are still there: the other
\* cpus only append to the run queue.
MigOK(c) ==
    /\ pc[c] = "count" => mig[c].i < Cardinality(Online) /\ mig[c].my <= Len(c_runqueue[c])
    /\ pc[c] = "take" => mig[c].send \in 1 .. Len(c_runqueue[c])
    /\ pc[c] = "give" => /\ mig[c].i < Cardinality(Online) /\ mig[c].i # c
                         /\ mig[c].send \in 1 .. Len(list[c])

CallOK(c) == pc[c] = "idle" /\ c_runqueue[c] # <<>> => ipi_line[c]

\* Only the menu waits, and it does not exit.
AtOK ==
    \A u \in Threads :
        /\ newthread[u] # NULL <=> at[u] \in {"fork", "born"}
        /\ at[u] = "wait" => u = Menu
        /\ at[u] \in {"exit", "gone"} => u # Menu

SchedulerInv ==
    /\ RestType
    /\ PlaceInv
    /\ \A c \in Cpus : PcOK(c) /\ MigOK(c) /\ CallOK(c)
    /\ AtOK
    /\ NoMissedCount

\* The cpus that run are numbered from 0.
LEMMA OnlineFacts ==
  ASSUME aging \in BOOLEAN
  PROVE  /\ Online \subseteq Cpus /\ Menu \in Online /\ Cardinality(Online) \in 1 .. NumCpus
         /\ \A i \in Nat : i < Cardinality(Online) => i \in Online
<1>1. IsFiniteSet(Cpus) /\ Cardinality(Cpus) = NumCpus
  <2>1. /\ Cpus = 0 .. NumCpus - 1 /\ NumCpus - 1 - 0 + 1 = NumCpus /\ 0 <= NumCpus - 1 /\ 0 \in Int
        /\ NumCpus - 1 \in Int
    BY SchedulerAssumption DEF Cpus
  <2> QED BY <2>1, FS_Interval
<1>2. Cardinality({Menu}) = 1
  BY FS_Singleton
<1>3. \A i \in Nat : i < 1 => i = Menu
  BY DEF Menu
<1>4. CASE aging
  <2>1. Online = {Menu}
    BY <1>4 DEF Online
  <2>2. 1 \in 1 .. NumCpus
    BY SchedulerAssumption
  <2> HIDE DEF Online
  <2> QED BY <1>2, <1>3, <2>1, <2>2, ThreadFacts
<1>5. CASE ~aging
  <2>1. Online = Cpus
    BY <1>5 DEF Online
  <2>2. \A i \in Nat : i < NumCpus => i \in Cpus
    BY SchedulerAssumption DEF Cpus
  <2> QED BY <1>1, <2>1, <2>2, ThreadFacts, SchedulerAssumption
<1> QED BY <1>4, <1>5

\* The set of cpus that run does not change.
LEMMA OnlineStays ==
  ASSUME UNCHANGED bootVars
  PROVE  Online' = Online /\ Cardinality(Online)' = Cardinality(Online)
BY DEF bootVars, Online

\* Cpu c goes to label l.
LEMMA LabelSets ==
  ASSUME pc \in [Cpus -> CpuLabels], NEW c \in Cpus, NEW l, pc' = [pc EXCEPT ![c] = l]
  PROVE  /\ pc'[c] = l /\ \A d \in Cpus : d # c => pc'[d] = pc[d]
         /\ Waking' = IF l = "wakeall" THEN Waking \cup {c} ELSE Waking \ {c}
         /\ Giving' = IF l \in {"give", "back"} THEN Giving \cup {c} ELSE Giving \ {c}
BY DEF Waking, Giving

(***************************************************************************)
(* A context switch, for which the current thread was put away.            *)
(***************************************************************************)
\* What a context switch of cpu c leaves, given the wait channels after it.
Switched(c, wc, cw) ==
    /\ World(Online, c_curthread', c_isidle', c_runqueue', c_zombies', list, Waking, Giving,
             wc, cw, newthread, t_state', t_cpu')
    /\ \/ pc' = [pc EXCEPT ![c] = "run"] /\ ~c_isidle'[c]
       \/ pc' = [pc EXCEPT ![c] = "idle"] /\ c_isidle'[c] /\ c_runqueue'[c] = <<>>
    /\ \A d \in Cpus : d # c => c_runqueue'[d] = c_runqueue[d] /\ c_isidle'[d] = c_isidle[d]

\* Once the current thread has been put away, thread_switch either idles or takes the next
\* thread; both leave every thread in its place.
LEMMA Switches ==
  ASSUME NEW c \in Online, NEW q, NEW zs, NEW w, NEW st, NEW wc, NEW cw, PlaceInv,
         q = <<>> => c_runqueue[c] = q,
         World(Online, c_curthread, [c_isidle EXCEPT ![c] = TRUE], [c_runqueue EXCEPT ![c] = q],
               [c_zombies EXCEPT ![c] = zs], list, Waking, Giving, wc, cw, newthread, st, t_cpu),
         Dispatch(c, q, st, zs, w)
  PROVE  Switched(c, wc, cw)
<1>1. /\ c \in Cpus /\ c_isidle \in [Cpus -> BOOLEAN] /\ c_runqueue \in [Cpus -> Seq(Threads)]
      /\ c_zombies \in [Cpus -> SUBSET Threads] /\ c_curthread \in [Cpus -> Threads]
  BY DEF PlaceInv, World, WorldType
<1> DEFINE idle == [c_isidle EXCEPT ![c] = TRUE]
           rq == [c_runqueue EXCEPT ![c] = q]
           z == [c_zombies EXCEPT ![c] = zs]
<1>0. World(Online, c_curthread, idle, rq, z, list, Waking, Giving, wc, cw, newthread, st, t_cpu)
  OBVIOUS
<1>2. rq[c] = q /\ z[c] = zs /\ idle[c]
  BY <1>1
<1>3. CASE q # <<>>
  <2>1. /\ c_runqueue' = [c_runqueue EXCEPT ![c] = Tail(q)]
        /\ c_curthread' = [c_curthread EXCEPT ![c] = Head(q)]
        /\ c_isidle' = [c_isidle EXCEPT ![c] = FALSE]
        /\ pc' = [pc EXCEPT ![c] = "run"]
        /\ c_zombies' = [c_zombies EXCEPT ![c] = {}]
        /\ t_state' = [t \in Threads |-> IF t = Head(q) THEN "S_RUN"
                                         ELSE IF t \in zs THEN "S_FREE" ELSE st[t]]
        /\ t_cpu' = [x \in Threads |-> IF x \in zs THEN Menu ELSE t_cpu[x]]
    BY <1>3 DEF Dispatch, Destroyed
  <2>2. /\ c_runqueue' = [rq EXCEPT ![c] = Tail(rq[c])] /\ c_isidle' = [idle EXCEPT ![c] = FALSE]
        /\ c_zombies' = [z EXCEPT ![c] = {}]
        /\ c_curthread' = [c_curthread EXCEPT ![c] = Head(rq[c])]
    BY <1>1, <1>2, <2>1
  <2>6. idle[c] /\ rq[c] # <<>>
    BY <1>2, <1>3
  <2>4. t_state' = Chosen(st, Head(rq[c]), z[c]) /\ t_cpu' = Exorcised(t_cpu, z[c])
    BY <1>2, <1>3, <2>1 DEF Chosen, Exorcised
  <2>5. World(Online, [c_curthread EXCEPT ![c] = Head(rq[c])], [idle EXCEPT ![c] = FALSE],
              [rq EXCEPT ![c] = Tail(rq[c])], [z EXCEPT ![c] = {}], list, Waking, Giving, wc, cw, newthread,
              Chosen(st, Head(rq[c]), z[c]), Exorcised(t_cpu, z[c]))
    <3> HIDE DEF idle, rq, z
    <3> QED BY <1>0, <2>6, TakeNext, Zenon
  <2>3. World(Online, c_curthread', c_isidle', c_runqueue', c_zombies', list, Waking, Giving,
              wc, cw, newthread, t_state', t_cpu')
    BY <2>2, <2>4, <2>5, Zenon
  <2> QED BY <1>1, <2>1, <2>3 DEF Switched
<1>4. CASE q = <<>>
  <2>1. /\ c_isidle' = idle /\ pc' = [pc EXCEPT ![c] = "idle"] /\ c_zombies' = z /\ t_state' = st
        /\ c_runqueue' = c_runqueue /\ c_curthread' = c_curthread /\ t_cpu' = t_cpu
    BY <1>4 DEF Dispatch, GoIdle
  <2>2. rq = c_runqueue
    BY <1>1, <1>4
  <2> QED BY <1>0, <1>1, <1>4, <2>1, <2>2 DEF Switched
<1> QED BY <1>3, <1>4

(***************************************************************************)
(* thread_switch(S_READY).                                                 *)
(***************************************************************************)
LEMMA SwitchesReady ==
  ASSUME NEW c \in Online, ~c_isidle[c], PlaceInv, NEW w,
         NEW q \in Seq(Threads), Once(q), \A x : In(x, q) <=> In(x, c_runqueue[c]),
         SwitchReady(c, q, w)
  PROVE  Switched(c, wc_threads, count_wchan)
<1>1. /\ c \in Cpus /\ c_isidle \in [Cpus -> BOOLEAN] /\ c_runqueue \in [Cpus -> Seq(Threads)]
      /\ c_zombies \in [Cpus -> SUBSET Threads] /\ c_curthread \in [Cpus -> Threads]
  BY DEF PlaceInv, World, WorldType
<1>2. World(Online, c_curthread, c_isidle, c_runqueue, c_zombies, list, Waking, Giving,
            wc_threads, count_wchan, newthread, t_state, t_cpu)
  BY DEF PlaceInv
<1>3. CASE q = <<>>
  <2>1. /\ pc' = [pc EXCEPT ![c] = "run"]
        /\ UNCHANGED <<c_curthread, c_isidle, c_runqueue, c_zombies, t_state, t_cpu>>
    BY <1>3 DEF SwitchReady
  <2>2. World(Online, c_curthread', c_isidle', c_runqueue', c_zombies', list, Waking, Giving,
              wc_threads, count_wchan, newthread, t_state', t_cpu')
    BY <1>2, <2>1
  <2> QED BY <2>1, <2>2 DEF Switched
<1>4. CASE q # <<>>
  <2> DEFINE a == Append(q, c_curthread[c])
             s == [t_state EXCEPT ![c_curthread[c]] = "S_READY"]
  <2>1. Dispatch(c, a, s, c_zombies[c], w) /\ a # <<>>
    BY <1>1, <1>4, OnceAppend DEF SwitchReady
  <2>2. World(Online, c_curthread, [c_isidle EXCEPT ![c] = TRUE], [c_runqueue EXCEPT ![c] = a],
              c_zombies, list, Waking, Giving, wc_threads, count_wchan, newthread, s, t_cpu)
    BY <1>2, PutToQueue, Zenon
  <2>3. c_zombies = [c_zombies EXCEPT ![c] = c_zombies[c]]
    BY <1>1
  <2>4. World(Online, c_curthread, [c_isidle EXCEPT ![c] = TRUE], [c_runqueue EXCEPT ![c] = a],
              [c_zombies EXCEPT ![c] = c_zombies[c]], list, Waking, Giving,
              wc_threads, count_wchan, newthread, s, t_cpu)
    BY <2>2, <2>3, Zenon
  <2> HIDE DEF a, s
  <2>5. a = <<>> => c_runqueue[c] = a
    BY <2>1
  <2> QED BY <2>1, <2>4, <2>5, Switches, Zenon
<1> QED BY <1>3, <1>4

\* thread_switch(S_SLEEP), on the wait channel of a lock or on that of thread_wait_for_count.
LEMMA SwitchesSleep ==
  ASSUME NEW c \in Online, ~c_isidle[c], PlaceInv, SwitchSleep(c)
  PROVE  /\ Switched(c, Append(wc_threads, c_curthread[c]), count_wchan)
         /\ c_curthread[c] = Menu => Switched(c, wc_threads, Append(count_wchan, c_curthread[c]))
<1>1. /\ c \in Cpus /\ c_isidle \in [Cpus -> BOOLEAN] /\ c_runqueue \in [Cpus -> Seq(Threads)]
      /\ c_zombies \in [Cpus -> SUBSET Threads] /\ c_curthread \in [Cpus -> Threads]
  BY DEF PlaceInv, World, WorldType
<1>2. World(Online, c_curthread, c_isidle, c_runqueue, c_zombies, list, Waking, Giving,
            wc_threads, count_wchan, newthread, t_state, t_cpu)
  BY DEF PlaceInv
<1> DEFINE s == [t_state EXCEPT ![c_curthread[c]] = "S_SLEEP"]
           q == c_runqueue[c]
<1>3. Dispatch(c, q, s, c_zombies[c], waited)
  BY DEF SwitchSleep
<1>4. /\ c_zombies = [c_zombies EXCEPT ![c] = c_zombies[c]]
      /\ c_runqueue = [c_runqueue EXCEPT ![c] = q]
  BY <1>1
<1>5. q = <<>> => c_runqueue[c] = q
  OBVIOUS
<1>6. Switched(c, Append(wc_threads, c_curthread[c]), count_wchan)
  <2>1. World(Online, c_curthread, [c_isidle EXCEPT ![c] = TRUE], c_runqueue, c_zombies, list, Waking,
              Giving, Append(wc_threads, c_curthread[c]), count_wchan, newthread, s, t_cpu)
    BY <1>2, PutToSleep, Zenon
  <2> HIDE DEF s, q
  <2>2. World(Online, c_curthread, [c_isidle EXCEPT ![c] = TRUE], [c_runqueue EXCEPT ![c] = q],
              [c_zombies EXCEPT ![c] = c_zombies[c]], list, Waking,
              Giving, Append(wc_threads, c_curthread[c]), count_wchan, newthread, s, t_cpu)
    BY <1>4, <2>1, Zenon
  <2> QED BY <1>3, <1>5, <2>2, Switches, Zenon
<1>7. ASSUME c_curthread[c] = Menu PROVE Switched(c, wc_threads, Append(count_wchan, c_curthread[c]))
  <2>1. World(Online, c_curthread, [c_isidle EXCEPT ![c] = TRUE], c_runqueue, c_zombies, list, Waking,
              Giving, wc_threads, Append(count_wchan, c_curthread[c]), newthread, s, t_cpu)
    BY <1>2, <1>7, PutToCount, Zenon
  <2> HIDE DEF s, q
  <2>2. World(Online, c_curthread, [c_isidle EXCEPT ![c] = TRUE], [c_runqueue EXCEPT ![c] = q],
              [c_zombies EXCEPT ![c] = c_zombies[c]], list, Waking,
              Giving, wc_threads, Append(count_wchan, c_curthread[c]), newthread, s, t_cpu)
    BY <1>4, <2>1, Zenon
  <2> QED BY <1>3, <1>5, <2>2, Switches, Zenon
<1> QED BY <1>6, <1>7

\* thread_switch(S_ZOMBIE).
LEMMA SwitchesZombie ==
  ASSUME NEW c \in Online, ~c_isidle[c], PlaceInv, SwitchZombie(c)
  PROVE  Switched(c, wc_threads, count_wchan)
<1>1. /\ c \in Cpus /\ c_isidle \in [Cpus -> BOOLEAN] /\ c_runqueue \in [Cpus -> Seq(Threads)]
      /\ c_zombies \in [Cpus -> SUBSET Threads] /\ c_curthread \in [Cpus -> Threads]
  BY DEF PlaceInv, World, WorldType
<1>2. World(Online, c_curthread, c_isidle, c_runqueue, c_zombies, list, Waking, Giving,
            wc_threads, count_wchan, newthread, t_state, t_cpu)
  BY DEF PlaceInv
<1> DEFINE s == [t_state EXCEPT ![c_curthread[c]] = "S_ZOMBIE"]
           q == c_runqueue[c]
           zs == c_zombies[c] \cup {c_curthread[c]}
<1>3. Dispatch(c, q, s, zs, waited)
  BY DEF SwitchZombie
<1>4. c_runqueue = [c_runqueue EXCEPT ![c] = q]
  BY <1>1
<1>5. q = <<>> => c_runqueue[c] = q
  OBVIOUS
<1>6. World(Online, c_curthread, [c_isidle EXCEPT ![c] = TRUE], c_runqueue, [c_zombies EXCEPT ![c] = zs],
            list, Waking, Giving, wc_threads, count_wchan, newthread, s, t_cpu)
  BY <1>2, PutToZombies, Zenon
<1> HIDE DEF s, q, zs
<1>7. World(Online, c_curthread, [c_isidle EXCEPT ![c] = TRUE], [c_runqueue EXCEPT ![c] = q],
            [c_zombies EXCEPT ![c] = zs], list, Waking, Giving, wc_threads, count_wchan, newthread, s, t_cpu)
  BY <1>4, <1>6, Zenon
<1> QED BY <1>3, <1>5, <1>7, Switches, Zenon

\* The idle loop of thread_switch, when the cpu looks at its run queue again.
LEMMA SwitchesIdle ==
  ASSUME NEW c \in Online, c_isidle[c], PlaceInv, NEW w,
         Dispatch(c, c_runqueue[c], t_state, c_zombies[c], w)
  PROVE  Switched(c, wc_threads, count_wchan)
<1>1. /\ c \in Cpus /\ c_isidle \in [Cpus -> BOOLEAN] /\ c_runqueue \in [Cpus -> Seq(Threads)]
      /\ c_zombies \in [Cpus -> SUBSET Threads]
  BY DEF PlaceInv, World, WorldType
<1> DEFINE q == c_runqueue[c]
           zs == c_zombies[c]
<1>2. /\ c_isidle = [c_isidle EXCEPT ![c] = TRUE] /\ c_zombies = [c_zombies EXCEPT ![c] = zs]
      /\ c_runqueue = [c_runqueue EXCEPT ![c] = q]
  BY <1>1
<1>3. World(Online, c_curthread, c_isidle, c_runqueue, c_zombies, list, Waking, Giving,
            wc_threads, count_wchan, newthread, t_state, t_cpu)
  BY DEF PlaceInv
<1>4. Dispatch(c, q, t_state, zs, w) /\ (q = <<>> => c_runqueue[c] = q)
  OBVIOUS
<1> HIDE DEF q, zs
<1>5. World(Online, c_curthread, [c_isidle EXCEPT ![c] = TRUE], [c_runqueue EXCEPT ![c] = q],
            [c_zombies EXCEPT ![c] = zs], list, Waking, Giving,
            wc_threads, count_wchan, newthread, t_state, t_cpu)
  BY <1>2, <1>3, Zenon
<1> QED BY <1>4, <1>5, Switches, Zenon

(***************************************************************************)
(* Every step keeps the threads in their places.                           *)
(***************************************************************************)
Private == {"wakeall", "give", "back"}   \* the labels with a private list

\* How a step that keeps the private lists is shown to leave every thread in its place.
LEMMA PlacesAre ==
  ASSUME UNCHANGED bootVars, Waking' = Waking, Giving' = Giving,
         World(Online, c_curthread', c_isidle', c_runqueue', c_zombies', list', Waking, Giving,
               wc_threads', count_wchan', newthread', t_state', t_cpu')
  PROVE  PlaceInv'
<1>1. Online' = Online
  BY OnlineStays
<1> QED BY <1>1, Zenon DEF PlaceInv

\* A step between labels without a private list.
LEMMA Relabelled ==
  ASSUME RestType, NEW c \in Cpus, NEW l, pc' = [pc EXCEPT ![c] = l], pc[c] \notin Private,
         l \notin Private
  PROVE  Waking' = Waking /\ Giving' = Giving
<1>1. pc \in [Cpus -> CpuLabels]
  BY DEF RestType
<1>2. c \notin Waking /\ c \notin Giving
  BY DEF Waking, Giving, Private
<1>3. l # "wakeall" /\ l \notin {"give", "back"}
  BY DEF Private
<1>4. Waking' = Waking \ {c} /\ Giving' = Giving \ {c}
  BY <1>1, <1>3, LabelSets
<1> QED BY <1>2, <1>4

\* A cpu that has switched leaves every thread in its place.
LEMMA Lands ==
  ASSUME RestType, UNCHANGED bootVars, NEW c \in Cpus, Switched(c, wc_threads', count_wchan'),
         pc[c] \notin Private, list' = list, newthread' = newthread
  PROVE  PlaceInv'
<1>1. Waking' = Waking /\ Giving' = Giving
  <2>1. "run" \notin Private /\ "idle" \notin Private
    BY DEF Private
  <2>2. pc' = [pc EXCEPT ![c] = "run"] \/ pc' = [pc EXCEPT ![c] = "idle"]
    BY DEF Switched
  <2> QED BY <2>1, <2>2, Relabelled
<1>2. World(Online, c_curthread', c_isidle', c_runqueue', c_zombies', list, Waking, Giving,
            wc_threads', count_wchan', newthread, t_state', t_cpu')
  BY DEF Switched
<1>3. World(Online, c_curthread', c_isidle', c_runqueue', c_zombies', list', Waking, Giving,
            wc_threads', count_wchan', newthread', t_state', t_cpu')
  BY <1>2, Zenon
<1> QED BY <1>1, <1>3, PlacesAre

\* The cpus that do something.
LEMMA ActorFacts ==
  ASSUME SchedulerInv, NEW c \in Cpus
  PROVE  /\ pc[c] # "off" => c \in Online
         /\ c_curthread[c] \in Threads /\ t_cpu[c_curthread[c]] \in Cpus
         /\ c \in Online => t_cpu[c_curthread[c]] = c
         /\ pc[c] = "run" => ~c_isidle[c] /\ t_state[c_curthread[c]] = "S_RUN"
         /\ pc[c] = "resume" => c_isidle[c]
         /\ pc[c] \notin Private => list[c] = <<>>
<1>1. PcOK(c) /\ PlaceInv
  BY DEF SchedulerInv
<1>2. /\ WorldType(Online, c_curthread, c_isidle, c_runqueue, c_zombies, list, Waking, Giving,
                   wc_threads, count_wchan, newthread, t_state, t_cpu)
      /\ CurrentOK(Online, c_curthread, c_isidle, t_state, t_cpu)
      /\ ListOK(c_runqueue, list, Waking, Giving, wc_threads, count_wchan, newthread, t_state, t_cpu)
  BY <1>1 DEF PlaceInv, World
<1>3. pc[c] \notin Private => c \notin Waking \cup Giving
  BY DEF Private, Waking, Giving
<1>4. pc[c] \notin Private => list[c] = <<>>
  BY <1>2, <1>3 DEF ListOK
<1>5. /\ pc[c] # "off" => c \in Online
      /\ pc[c] = "run" => ~c_isidle[c]
      /\ pc[c] = "resume" => c_isidle[c]
  BY <1>1 DEF PcOK
<1>6. c_curthread[c] \in Threads /\ t_cpu[c_curthread[c]] \in Cpus
  BY <1>2 DEF WorldType
<1> QED BY <1>2, <1>4, <1>5, <1>6 DEF CurrentOK

\* Changing thread_count wakes the menu, which alone can sleep on its wait channel.
LEMMA WakesCounter ==
  ASSUME PlaceInv, NEW c, WakeCounter(c)
  PROVE  World(Online, c_curthread, c_isidle, c_runqueue', c_zombies, list, Waking, Giving,
               wc_threads, count_wchan', newthread, t_state', t_cpu)
<1>1. World(Online, c_curthread, c_isidle, c_runqueue, c_zombies, list, Waking, Giving,
            wc_threads, count_wchan, newthread, t_state, t_cpu)
  BY DEF PlaceInv
<1>2. CASE count_wchan = <<>>
  <2>1. count_wchan' = count_wchan /\ c_runqueue' = c_runqueue /\ t_state' = t_state
    BY <1>2 DEF WakeCounter
  <2> QED BY <1>1, <2>1, Zenon
<1>3. CASE count_wchan # <<>>
  <2>1. /\ count_wchan' = <<>> /\ t_state' = [t_state EXCEPT ![Menu] = "S_READY"]
        /\ c_runqueue' = [c_runqueue EXCEPT ![t_cpu[Menu]] = Append(c_runqueue[t_cpu[Menu]], Menu)]
    BY <1>3 DEF WakeCounter, thread_make_runnable
  <2>2. World(Online, c_curthread, c_isidle,
              [c_runqueue EXCEPT ![t_cpu[Menu]] = Append(c_runqueue[t_cpu[Menu]], Menu)],
              c_zombies, list, Waking, Giving, wc_threads, <<>>, newthread,
              [t_state EXCEPT ![Menu] = "S_READY"], t_cpu)
    BY <1>1, <1>3, WakeCount, Zenon
  <2> QED BY <2>1, <2>2, Zenon
<1> QED BY <1>2, <1>3

\* thread_fork, and the count that thread_exit decrements, leave every thread in its place.
LEMMA PlaceFork ==
  ASSUME SchedulerInv, UNCHANGED bootVars, NEW c \in Cpus,
         Fork(c) \/ ForkCount(c) \/ ForkReady(c) \/ ExitCount(c)
  PROVE  PlaceInv'
<1> DEFINE u == c_curthread[c]
<1>0. /\ c \in Online /\ u \in Threads /\ t_cpu[u] \in Online /\ PlaceInv /\ pc' = pc
      /\ Waking' = Waking /\ Giving' = Giving
  <2>1. pc[c] = "run" /\ pc' = pc
    BY DEF Fork, ForkCount, ForkReady, ExitCount, Busy, Running, cpuVars
  <2>2. c \in Online /\ u \in Threads /\ t_cpu[u] = c
    BY <2>1, ActorFacts
  <2> QED BY <2>1, <2>2 DEF SchedulerInv, Waking, Giving
<1>1. World(Online, c_curthread, c_isidle, c_runqueue, c_zombies, list, Waking, Giving,
            wc_threads, count_wchan, newthread, t_state, t_cpu)
  BY <1>0 DEF PlaceInv
<1>2. AtOK
  BY DEF SchedulerInv
<1>3. CASE Fork(c)
  <2>1. PICK k \in Kids : /\ t_state[k] = "S_FREE" /\ t_state' = [t_state EXCEPT ![k] = "S_READY"]
                          /\ t_cpu' = [t_cpu EXCEPT ![k] = t_cpu[u]]
                          /\ newthread' = [newthread EXCEPT ![u] = k]
    BY <1>3 DEF Fork
  <2>2. newthread[u] = NULL
    BY <1>0, <1>2, <1>3 DEF Fork, Busy, Running, AtOK
  <2>3. UNCHANGED <<c_curthread, c_isidle, c_runqueue, c_zombies, list, wc_threads, count_wchan>>
    BY <1>3 DEF Fork, cpuVars
  <2> HIDE DEF u
  <2>4. World(Online, c_curthread, c_isidle, c_runqueue, c_zombies, list, Waking, Giving,
              wc_threads, count_wchan, [newthread EXCEPT ![u] = k],
              [t_state EXCEPT ![k] = "S_READY"], [t_cpu EXCEPT ![k] = t_cpu[u]])
    BY <1>0, <1>1, <2>1, <2>2, NewThread, Zenon
  <2>5. World(Online, c_curthread', c_isidle', c_runqueue', c_zombies', list', Waking, Giving,
              wc_threads', count_wchan', newthread', t_state', t_cpu')
    BY <2>1, <2>3, <2>4, Zenon
  <2> QED BY <1>0, <2>5, PlacesAre
<1>4. CASE ForkCount(c) \/ ExitCount(c)
  <2>1. /\ WakeCounter(c)
        /\ UNCHANGED <<c_curthread, c_isidle, c_zombies, list, wc_threads, newthread, t_cpu>>
    BY <1>4 DEF ForkCount, ExitCount
  <2>2. World(Online, c_curthread, c_isidle, c_runqueue', c_zombies, list, Waking, Giving,
              wc_threads, count_wchan', newthread, t_state', t_cpu)
    BY <1>0, <2>1, WakesCounter
  <2>5. World(Online, c_curthread', c_isidle', c_runqueue', c_zombies', list', Waking, Giving,
              wc_threads', count_wchan', newthread', t_state', t_cpu')
    BY <2>1, <2>2, Zenon
  <2> QED BY <1>0, <2>5, PlacesAre
<1>5. CASE ForkReady(c)
  <2> DEFINE t == newthread[u]
  <2>1. /\ t_state' = [t_state EXCEPT ![t] = "S_READY"]
        /\ c_runqueue' = [c_runqueue EXCEPT ![t_cpu[t]] = Append(c_runqueue[t_cpu[t]], t)]
        /\ newthread' = [newthread EXCEPT ![u] = NULL]
        /\ UNCHANGED <<c_curthread, c_isidle, c_zombies, list, wc_threads, count_wchan, t_cpu>>
    BY <1>5 DEF ForkReady, thread_make_runnable, countVars
  <2>2. newthread[u] # NULL
    BY <1>0, <1>2, <1>5 DEF ForkReady, Running, AtOK
  <2>4. World(Online, c_curthread, c_isidle,
              [c_runqueue EXCEPT ![t_cpu[t]] = Append(c_runqueue[t_cpu[t]], t)],
              c_zombies, list, Waking, Giving, wc_threads, count_wchan,
              [newthread EXCEPT ![u] = NULL], [t_state EXCEPT ![t] = "S_READY"], t_cpu)
    <3> HIDE DEF u
    <3> QED BY <1>0, <1>1, <2>2, StartNewborn, Zenon
  <2>5. World(Online, c_curthread', c_isidle', c_runqueue', c_zombies', list', Waking, Giving,
              wc_threads', count_wchan', newthread', t_state', t_cpu')
    BY <2>1, <2>4, Zenon
  <2> QED BY <1>0, <2>5, PlacesAre
<1> QED BY <1>3, <1>4, <1>5

\* So do the steps that end in a switch ...
LEMMA PlaceSwitch ==
  ASSUME SchedulerInv, UNCHANGED bootVars, NEW c \in Cpus,
         WaitForCount(c) \/ ExitSwitch(c) \/ thread_yield(c) \/ wchan_sleep(c) \/ Resume(c),
         ~(WaitForCount(c) /\ thread_count = tc)
  PROVE  Switched(c, wc_threads', count_wchan') /\ PlaceInv' /\ c \in Online
<1>0. RestType /\ PlaceInv
  BY DEF SchedulerInv
<1>1. pc[c] \in {"run", "resume"} /\ list' = list /\ newthread' = newthread
  BY DEF WaitForCount, ExitSwitch, thread_yield, wchan_sleep, Resume, Busy, Running
<1>2. pc[c] \notin Private /\ pc[c] # "off"
  BY <1>1 DEF Private
<1>3. c \in Online /\ c_runqueue[c] \in Seq(Threads) /\ Once(c_runqueue[c])
  <2>1. c \in Online
    BY <1>2, ActorFacts
  <2> QED BY <1>0, <2>1 DEF PlaceInv, World, WorldType, QueueOK
<1>4. CASE WaitForCount(c)
  <2>1. /\ SwitchSleep(c) /\ count_wchan' = Append(count_wchan, c_curthread[c])
        /\ wc_threads' = wc_threads
        /\ pc[c] = "run" /\ at[c_curthread[c]] = "wait"
    BY <1>4 DEF WaitForCount, Running
  <2>2. c_curthread[c] = Menu
    BY <2>1, ActorFacts DEF SchedulerInv, AtOK
  <2>3. Switched(c, wc_threads', count_wchan')
    BY <1>0, <1>3, <2>1, <2>2, ActorFacts, SwitchesSleep
  <2> QED BY <1>0, <1>1, <1>2, <1>3, <2>3, Lands
<1>5. CASE ExitSwitch(c)
  <2>1. SwitchZombie(c) /\ pc[c] = "run" /\ wc_threads' = wc_threads /\ count_wchan' = count_wchan
    BY <1>5 DEF ExitSwitch, Running, countVars
  <2>3. Switched(c, wc_threads', count_wchan')
    BY <1>0, <1>3, <2>1, ActorFacts, SwitchesZombie
  <2> QED BY <1>0, <1>1, <1>2, <1>3, <2>3, Lands
<1>6. CASE thread_yield(c)
  <2>1. /\ SwitchReady(c, c_runqueue[c], waited) /\ pc[c] = "run" /\ wc_threads' = wc_threads
        /\ count_wchan' = count_wchan
    BY <1>6 DEF thread_yield, Busy, Running, countVars
  <2>3. Switched(c, wc_threads', count_wchan')
    BY <1>0, <1>3, <2>1, ActorFacts, SwitchesReady
  <2> QED BY <1>0, <1>1, <1>2, <1>3, <2>3, Lands
<1>7. CASE wchan_sleep(c)
  <2>1. /\ SwitchSleep(c) /\ pc[c] = "run" /\ wc_threads' = Append(wc_threads, c_curthread[c])
        /\ count_wchan' = count_wchan
    BY <1>7 DEF wchan_sleep, Busy, Running, countVars
  <2>3. Switched(c, wc_threads', count_wchan')
    BY <1>0, <1>3, <2>1, ActorFacts, SwitchesSleep
  <2> QED BY <1>0, <1>1, <1>2, <1>3, <2>3, Lands
<1>8. CASE Resume(c)
  <2>1. /\ Dispatch(c, c_runqueue[c], t_state, c_zombies[c], waited) /\ pc[c] = "resume"
        /\ wc_threads' = wc_threads /\ count_wchan' = count_wchan
    BY <1>8 DEF Resume, countVars
  <2>3. Switched(c, wc_threads', count_wchan')
    BY <1>0, <1>3, <2>1, ActorFacts, SwitchesIdle
  <2> QED BY <1>0, <1>1, <1>2, <1>3, <2>3, Lands
<1> QED BY <1>4, <1>5, <1>6, <1>7, <1>8

\* ... the steps that move no thread ...
LEMMA PlaceStill ==
  ASSUME SchedulerInv, UNCHANGED bootVars, NEW c \in Cpus,
         \/ Exit(c) \/ interprocessor_interrupt(c) \/ ClearIpi(c) \/ CountNext(c)
         \/ WaitForCount(c) /\ thread_count = tc
  PROVE  PlaceInv'
<1>0. RestType /\ PlaceInv
  BY DEF SchedulerInv
<1>1. World(Online, c_curthread, c_isidle, c_runqueue, c_zombies, list, Waking, Giving,
            wc_threads, count_wchan, newthread, t_state, t_cpu)
  BY <1>0 DEF PlaceInv
<1>2. /\ UNCHANGED <<c_curthread, c_isidle, c_runqueue, c_zombies, list>>
      /\ UNCHANGED <<wc_threads, count_wchan, newthread, t_state, t_cpu>>
  BY DEF Exit, interprocessor_interrupt, ClearIpi, CountNext, WaitForCount, cpuVars, countVars
<1>3. World(Online, c_curthread', c_isidle', c_runqueue', c_zombies', list', Waking, Giving,
            wc_threads', count_wchan', newthread', t_state', t_cpu')
  BY <1>1, <1>2, Zenon
<1>4. Waking' = Waking /\ Giving' = Giving
  <2>1. CASE Exit(c) \/ (WaitForCount(c) /\ thread_count = tc)
    <3>1. pc' = pc
      BY <2>1, <1>0 DEF Exit, WaitForCount, cpuVars, RestType
    <3> QED BY <3>1 DEF Waking, Giving
  <2>2. CASE interprocessor_interrupt(c) \/ ClearIpi(c) \/ CountNext(c)
    <3>1. PICK l : pc' = [pc EXCEPT ![c] = l] /\ l \in {"ipi", "resume", "run", "count", "tick", "take"}
      BY <2>2 DEF interprocessor_interrupt, ClearIpi, CountNext, CountQueue, Return
    <3>2. pc[c] \notin Private /\ l \notin Private
      BY <2>2, <3>1 DEF interprocessor_interrupt, ClearIpi, CountNext, Interruptible, Private
    <3> QED BY <1>0, <3>1, <3>2, Relabelled
  <2> QED BY <2>1, <2>2
<1> QED BY <1>3, <1>4, PlacesAre

\* ... and the wakeups.
LEMMA PlaceWake ==
  ASSUME SchedulerInv, UNCHANGED bootVars, NEW c \in Cpus,
         wchan_wakeone(c) \/ wchan_wakeall(c) \/ WakeNext(c)
  PROVE  PlaceInv'
<1>0. RestType /\ PlaceInv /\ pc \in [Cpus -> CpuLabels] /\ list \in [Cpus -> Seq(Threads)]
  BY DEF SchedulerInv, RestType, PlaceInv, World, WorldType
<1>1. World(Online, c_curthread, c_isidle, c_runqueue, c_zombies, list, Waking, Giving,
            wc_threads, count_wchan, newthread, t_state, t_cpu)
  BY <1>0 DEF PlaceInv
<1>2. /\ UNCHANGED <<c_curthread, c_isidle, c_zombies, t_cpu, count_wchan, newthread>>
      /\ Return(c) \in {"run", "resume"} /\ Return(c) \notin Private
  BY DEF wchan_wakeone, wchan_wakeall, WakeNext, WakeFirst, countVars, Return, Private
<1>3. CASE wchan_wakeone(c)
  <2>1. Waking' = Waking /\ Giving' = Giving /\ list' = list
    <3>1. pc' = [pc EXCEPT ![c] = Return(c)] /\ pc[c] \notin Private /\ list' = list
      BY <1>3 DEF wchan_wakeone, Interruptible, Private
    <3> QED BY <1>0, <1>2, <3>1, Relabelled
  <2>2. CASE wc_threads = <<>>
    <3>1. wc_threads' = wc_threads /\ t_state' = t_state /\ c_runqueue' = c_runqueue
      BY <1>3, <2>2 DEF wchan_wakeone
    <3>2. World(Online, c_curthread', c_isidle', c_runqueue', c_zombies', list', Waking, Giving,
                wc_threads', count_wchan', newthread', t_state', t_cpu')
      BY <1>1, <1>2, <2>1, <3>1, Zenon
    <3> QED BY <2>1, <3>2, PlacesAre
  <2>3. CASE wc_threads # <<>>
    <3> DEFINE t == Head(wc_threads)
    <3>1. /\ wc_threads' = Tail(wc_threads) /\ t_state' = [t_state EXCEPT ![t] = "S_READY"]
          /\ c_runqueue' = [c_runqueue EXCEPT ![t_cpu[t]] = Append(c_runqueue[t_cpu[t]], t)]
      BY <1>3, <2>3 DEF wchan_wakeone, thread_make_runnable
    <3>2. World(Online, c_curthread, c_isidle,
                [c_runqueue EXCEPT ![t_cpu[t]] = Append(c_runqueue[t_cpu[t]], t)],
                c_zombies, list, Waking, Giving, Tail(wc_threads), count_wchan, newthread,
                [t_state EXCEPT ![t] = "S_READY"], t_cpu)
      BY <1>1, <2>3, WakeHead, Zenon
    <3> HIDE DEF t
    <3>3. World(Online, c_curthread', c_isidle', c_runqueue', c_zombies', list', Waking, Giving,
                wc_threads', count_wchan', newthread', t_state', t_cpu')
      BY <1>2, <2>1, <3>1, <3>2, Zenon
    <3> QED BY <2>1, <3>3, PlacesAre
  <2> QED BY <2>2, <2>3
<1>4. ASSUME NEW ts \in Seq(Threads), ts # <<>>, WakeFirst(c, ts), NEW li, NEW wk, li[c] = ts,
             c \in wk,
             list' = [li EXCEPT ![c] = Tail(ts)], c \notin Giving, wk \ {c} = Waking \ {c},
             li \in [Cpus -> Seq(Threads)],
             World(Online, c_curthread, c_isidle, c_runqueue, c_zombies, li, wk, Giving,
                   wc_threads', count_wchan, newthread, t_state, t_cpu)
      PROVE  PlaceInv'
  <2> DEFINE t == Head(li[c])
  <2>1. /\ t_state' = [t_state EXCEPT ![t] = "S_READY"]
        /\ c_runqueue' = [c_runqueue EXCEPT ![t_cpu[t]] = Append(c_runqueue[t_cpu[t]], t)]
        /\ list' = [li EXCEPT ![c] = Tail(li[c])] /\ li[c] # <<>>
        /\ pc' = [pc EXCEPT ![c] = IF Len(ts) > 1 THEN "wakeall" ELSE Return(c)]
    BY <1>4 DEF WakeFirst, thread_make_runnable
  <2>2. World(Online, c_curthread, c_isidle,
              [c_runqueue EXCEPT ![t_cpu[t]] = Append(c_runqueue[t_cpu[t]], t)],
              c_zombies, [li EXCEPT ![c] = Tail(li[c])], wk, Giving, wc_threads', count_wchan, newthread,
              [t_state EXCEPT ![t] = "S_READY"], t_cpu)
    BY <1>4, <2>1, WakeListed, Zenon
  <2> HIDE DEF t
  <2>3. World(Online, c_curthread', c_isidle', c_runqueue', c_zombies', list', wk, Giving,
              wc_threads', count_wchan', newthread', t_state', t_cpu')
    BY <1>2, <2>1, <2>2, Zenon
  <2>4. Online' = Online
    BY OnlineStays
  <2>5. CASE Len(ts) > 1
    <3>1. pc' = [pc EXCEPT ![c] = "wakeall"]
      BY <2>1, <2>5
    <3>2. Waking' = Waking \cup {c} /\ Giving' = Giving \ {c}
      BY <1>0, <3>1, LabelSets
    <3>3. Waking' = wk /\ Giving' = Giving
      BY <1>4, <3>2
    <3> QED BY <2>3, <2>4, <3>3, Zenon DEF PlaceInv
  <2>6. CASE ~(Len(ts) > 1)
    <3>1. pc' = [pc EXCEPT ![c] = Return(c)]
      BY <2>1, <2>6
    <3>2. Return(c) # "wakeall" /\ Return(c) \notin {"give", "back"}
      BY <1>2
    <3>3. Waking' = Waking \ {c} /\ Giving' = Giving \ {c}
      BY <1>0, <3>1, <3>2, LabelSets
    <3>4. Waking' = wk \ {c} /\ Giving' = Giving \ {c}
      BY <1>4, <3>3
    <3>5. list'[c] = <<>>
      <4>1. Tail(ts) \in Seq(Threads) /\ Len(Tail(ts)) = Len(ts) - 1 /\ Len(ts) \in Nat
        BY <1>4
      <4>2. Tail(ts) = <<>>
        BY <2>6, <4>1
      <4> QED BY <1>4, <4>2
    <3>6. World(Online, c_curthread', c_isidle', c_runqueue', c_zombies', list', wk \ {c}, Giving \ {c},
                wc_threads', count_wchan', newthread', t_state', t_cpu')
      BY <2>3, <3>5, ListDone, Zenon
    <3> QED BY <2>4, <3>4, <3>6, Zenon DEF PlaceInv
  <2> QED BY <2>5, <2>6
<1>5. CASE wchan_wakeall(c)
  <2>1. /\ WakeFirst(c, wc_threads) /\ wc_threads # <<>> /\ wc_threads' = <<>> /\ Waking = {}
        /\ c \notin Giving /\ wc_threads \in Seq(Threads)
    <3>1. wc_threads \in Seq(Threads)
      BY <1>0 DEF PlaceInv, World, WorldType
    <3> QED BY <1>5, <3>1 DEF wchan_wakeall, Unlocked, Interruptible, Waking, Giving
  <2> DEFINE li == [list EXCEPT ![c] = wc_threads]
  <2>2. World(Online, c_curthread, c_isidle, c_runqueue, c_zombies, li, {c}, Giving,
              <<>>, count_wchan, newthread, t_state, t_cpu)
    BY <1>1, <2>1, TakeSleepers, Zenon
  <2>3. World(Online, c_curthread, c_isidle, c_runqueue, c_zombies, li, {c}, Giving,
              wc_threads', count_wchan, newthread, t_state, t_cpu)
    BY <2>1, <2>2, Zenon
  <2>4. /\ li[c] = wc_threads /\ list' = [li EXCEPT ![c] = Tail(wc_threads)]
        /\ li \in [Cpus -> Seq(Threads)] /\ c \in {c} /\ {c} \ {c} = Waking \ {c}
    BY <1>0, <2>1 DEF WakeFirst
  <2> HIDE DEF li
  <2> QED BY <1>4, <2>1, <2>3, <2>4
<1>6. CASE WakeNext(c)
  <2>1. /\ WakeFirst(c, list[c]) /\ wc_threads' = wc_threads /\ list[c] # <<>> /\ c \in Waking
        /\ c \notin Giving /\ list[c] \in Seq(Threads)
        /\ list' = [list EXCEPT ![c] = Tail(list[c])]
    BY <1>0, <1>6 DEF WakeNext, SchedulerInv, PcOK, Waking, Giving, WakeFirst
  <2>2. World(Online, c_curthread, c_isidle, c_runqueue, c_zombies, list, Waking, Giving,
              wc_threads', count_wchan, newthread, t_state, t_cpu)
    BY <1>1, <2>1, Zenon
  <2> QED BY <1>0, <1>4, <2>1, <2>2
<1> QED BY <1>3, <1>5, <1>6

\* thread_yield after schedule() has made the run queue q of the old one; a cpu that is
\* idle returns from it at once.
LEMMA Yields ==
  ASSUME SchedulerInv, UNCHANGED bootVars, NEW c \in Online, c \in Cpus, pc[c] \notin Private,
         NEW q \in Seq(Threads), Once(q), \A x : In(x, q) <=> In(x, c_runqueue[c]), Yield(c, q),
         UNCHANGED <<list, newthread, wc_threads, count_wchan>>
  PROVE  /\ PlaceInv'
         /\ \/ Switched(c, wc_threads', count_wchan')
            \/ /\ c_isidle[c] /\ pc' = [pc EXCEPT ![c] = "resume"] /\ c_isidle' = c_isidle
               /\ c_runqueue' = [c_runqueue EXCEPT ![c] = q]
<1>0. RestType /\ PlaceInv
  BY DEF SchedulerInv
<1>1. World(Online, c_curthread, c_isidle, c_runqueue, c_zombies, list, Waking, Giving,
            wc_threads, count_wchan, newthread, t_state, t_cpu)
  BY <1>0 DEF PlaceInv
<1>2. CASE c_isidle[c]
  <2>1. /\ c_runqueue' = [c_runqueue EXCEPT ![c] = q] /\ pc' = [pc EXCEPT ![c] = "resume"]
        /\ UNCHANGED <<c_curthread, c_isidle, c_zombies, t_state, t_cpu>>
    BY <1>2 DEF Yield
  <2>2. World(Online, c_curthread, c_isidle, [c_runqueue EXCEPT ![c] = q], c_zombies, list, Waking,
              Giving, wc_threads, count_wchan, newthread, t_state, t_cpu)
    BY <1>1, Rearrange, Zenon
  <2>3. World(Online, c_curthread', c_isidle', c_runqueue', c_zombies', list', Waking, Giving,
              wc_threads', count_wchan', newthread', t_state', t_cpu')
    BY <2>1, <2>2, Zenon
  <2>4. "resume" \notin Private
    BY DEF Private
  <2>5. Waking' = Waking /\ Giving' = Giving
    BY <1>0, <2>1, <2>4, Relabelled
  <2> QED BY <1>2, <2>1, <2>3, <2>5, PlacesAre
<1>3. CASE ~c_isidle[c]
  <2>1. PICK w : SwitchReady(c, q, w)
    BY <1>3 DEF Yield
  <2>2. Switched(c, wc_threads, count_wchan)
    BY <1>0, <1>3, <2>1, SwitchesReady
  <2>3. Switched(c, wc_threads', count_wchan')
    BY <2>2, Zenon
  <2> QED BY <1>0, <2>3, Lands
<1> QED BY <1>2, <1>3

\* The end of hardclock: schedule(), then thread_yield.
LEMMA PlaceTick ==
  ASSUME SchedulerInv, UNCHANGED bootVars, NEW c \in Cpus, pc[c] \notin Private \cup {"off"},
         NEW h, EndOfTick(c, h), UNCHANGED <<list, newthread, wc_threads, count_wchan>>
  PROVE  /\ PlaceInv' /\ c \in Online
         /\ \/ Switched(c, wc_threads', count_wchan')
            \/ /\ c_isidle[c] /\ pc' = [pc EXCEPT ![c] = "resume"] /\ c_isidle' = c_isidle
               /\ \E q : c_runqueue' = [c_runqueue EXCEPT ![c] = q]
            \/ UNCHANGED <<pc, c_isidle, c_runqueue>>
<1>0. RestType /\ PlaceInv
  BY DEF SchedulerInv
<1>1. c \in Online /\ c_runqueue[c] \in Seq(Threads) /\ Once(c_runqueue[c])
  <2>1. c \in Online
    BY ActorFacts
  <2> QED BY <1>0, <2>1 DEF PlaceInv, World, WorldType, QueueOK
<1>2. World(Online, c_curthread, c_isidle, c_runqueue, c_zombies, list, Waking, Giving,
            wc_threads, count_wchan, newthread, t_state, t_cpu)
  BY <1>0 DEF PlaceInv
<1> DEFINE q == c_runqueue[c]
           p == Aged(q, priority)
           e == AgedHead(ends)
<1>3. CASE ~ScheduleDue(h)
  <2>1. Yield(c, q)
    BY <1>3 DEF EndOfTick
  <2> HIDE DEF q
  <2>2. q \in Seq(Threads) /\ Once(q) /\ \A x : In(x, q) <=> In(x, c_runqueue[c])
    BY <1>1 DEF q
  <2>3. /\ PlaceInv'
        /\ \/ Switched(c, wc_threads', count_wchan')
           \/ /\ c_isidle[c] /\ pc' = [pc EXCEPT ![c] = "resume"] /\ c_isidle' = c_isidle
              /\ c_runqueue' = [c_runqueue EXCEPT ![c] = q]
    BY <1>1, <2>1, <2>2, Yields
  <2> QED BY <1>1, <2>3
<1>4. CASE ScheduleDue(h) /\ StepsOff(q, p, e)
  <2>1. UNCHANGED <<pc, c_curthread, c_isidle, c_runqueue, c_zombies, t_state, t_cpu>>
    BY <1>4 DEF EndOfTick, cpuVars
  <2>2. World(Online, c_curthread', c_isidle', c_runqueue', c_zombies', list', Waking, Giving,
              wc_threads', count_wchan', newthread', t_state', t_cpu')
    BY <1>2, <2>1, Zenon
  <2>3. Waking' = Waking /\ Giving' = Giving
    BY <2>1 DEF Waking, Giving
  <2> QED BY <1>1, <2>1, <2>2, <2>3, PlacesAre
<1>5. CASE ScheduleDue(h) /\ ~StepsOff(q, p, e)
  <2> DEFINE r == Sorted(q, p)
  <2>1. Yield(c, r)
    BY <1>5 DEF EndOfTick
  <2> HIDE DEF p, e, r
  <2>2. r \in Seq(Threads) /\ Once(r) /\ \A x : In(x, r) <=> In(x, c_runqueue[c])
    BY <1>1, SortedKeeps DEF r
  <2>3. /\ PlaceInv'
        /\ \/ Switched(c, wc_threads', count_wchan')
           \/ /\ c_isidle[c] /\ pc' = [pc EXCEPT ![c] = "resume"] /\ c_isidle' = c_isidle
              /\ c_runqueue' = [c_runqueue EXCEPT ![c] = r]
    BY <1>1, <2>1, <2>2, Yields
  <2> QED BY <1>1, <2>3
<1> QED BY <1>3, <1>4, <1>5

\* thread_consider_migration leaves every thread in its place.
LEMMA PlaceMigrate ==
  ASSUME SchedulerInv, UNCHANGED bootVars, NEW c \in Cpus,
         TakeVictims(c) \/ GiveVictims(c) \/ Leftovers(c)
  PROVE  PlaceInv'
<1>0. /\ RestType /\ PlaceInv /\ pc \in [Cpus -> CpuLabels] /\ list \in [Cpus -> Seq(Threads)]
      /\ c_runqueue \in [Cpus -> Seq(Threads)] /\ aging \in BOOLEAN
      /\ mig[c] \in [i : 0 .. NumCpus, my : Nat, total : Nat, send : Nat]
  BY DEF SchedulerInv, RestType, PlaceInv, World, WorldType
<1>1. World(Online, c_curthread, c_isidle, c_runqueue, c_zombies, list, Waking, Giving,
            wc_threads, count_wchan, newthread, t_state, t_cpu)
  BY <1>0 DEF PlaceInv
<1>2. UNCHANGED <<c_curthread, c_isidle, c_zombies, wc_threads, count_wchan, newthread, t_state>>
  BY DEF TakeVictims, GiveVictims, Leftovers, countVars
<1>3. Online' = Online /\ MigOK(c) /\ PcOK(c)
  BY OnlineStays DEF SchedulerInv
<1>4. CASE TakeVictims(c)
  <2> DEFINE q == c_runqueue[c]
             left == Len(q) - mig[c].send
  <2>1. /\ pc[c] = "take" /\ c_runqueue' = [c_runqueue EXCEPT ![c] = SubSeq(q, 1, left)]
        /\ list' = [list EXCEPT ![c] = SubSeq(q, left + 1, Len(q))]
        /\ GiveFrom(c, 0, mig[c].send, list'[c]) /\ t_cpu' = t_cpu
    BY <1>4 DEF TakeVictims
  <2>2. /\ q \in Seq(Threads) /\ mig[c].send \in 1 .. Len(q) /\ left \in 0 .. Len(q)
        /\ Len(q) - left = mig[c].send
    BY <1>0, <1>3, <2>1 DEF MigOK
  <2>3. c \notin Waking /\ list[c] = <<>>
    <3>1. pc[c] \notin Private
      BY <2>1 DEF Private
    <3> QED BY <2>1, <3>1, ActorFacts DEF Waking
  <2> HIDE DEF left
  <2>4. World(Online, c_curthread, c_isidle, [c_runqueue EXCEPT ![c] = SubSeq(q, 1, left)], c_zombies,
              [list EXCEPT ![c] = SubSeq(q, left + 1, Len(q))], Waking, Giving \cup {c},
              wc_threads, count_wchan, newthread, t_state, t_cpu)
    BY <1>1, <2>2, <2>3, CutQueue, Zenon
  <2>5. World(Online, c_curthread', c_isidle', c_runqueue', c_zombies', list', Waking, Giving \cup {c},
              wc_threads', count_wchan', newthread', t_state', t_cpu')
    BY <1>2, <2>1, <2>4, Zenon
  <2>6. list'[c] # <<>>
    <3>1. list'[c] = SubSeq(q, left + 1, Len(q))
      BY <1>0, <2>1
    <3>2. Len(SubSeq(q, left + 1, Len(q))) = Len(q) - left
      BY <2>2
    <3> QED BY <2>2, <3>1, <3>2
  <2>7. PICK l \in {"give", "back"} : pc' = [pc EXCEPT ![c] = l]
    BY <2>1, <2>6 DEF GiveFrom
  <2>8. Waking' = Waking /\ Giving' = Giving \cup {c}
    <3>1. l # "wakeall"
      BY <2>7
    <3>2. Waking' = Waking \ {c} /\ Giving' = Giving \cup {c}
      BY <1>0, <2>7, <3>1, LabelSets
    <3> QED BY <2>3, <3>2
  <2> QED BY <1>3, <2>5, <2>8, Zenon DEF PlaceInv
<1>5. CASE GiveVictims(c)
  <2> DEFINE m == mig[c]
             room == OneShare(m.total) - Len(c_runqueue[m.i])
             g == Given(c_curthread[c], list[c], IF room > 0 THEN room ELSE 0, m.send)
  <2>1. /\ pc[c] = "give" /\ list' = [list EXCEPT ![c] = g.rest]
        /\ c_runqueue' = [c_runqueue EXCEPT ![m.i] = c_runqueue[m.i] \o g.moved]
        /\ Rehome(g.moved, m.i) /\ GiveFrom(c, m.i + 1, g.send, g.rest)
    BY <1>5 DEF GiveVictims
  <2>2. m.i \in Online /\ m.i # c /\ m.send \in 1 .. Len(list[c]) /\ c \in Online
    <3>0. m.i \in Nat
      BY <1>0, SchedulerAssumption
    <3>1. m.i < Cardinality(Online) /\ m.i # c /\ m.send \in 1 .. Len(list[c])
      BY <1>3, <2>1 DEF MigOK
    <3>2. c \in Online
      BY <2>1, ActorFacts
    <3> QED BY <1>0, <3>0, <3>1, <3>2, OnlineFacts
  <2>3. c \in Giving /\ c \notin Waking /\ Once(list[c]) /\ list[c] \in Seq(Threads)
    <3>1. ListOK(c_runqueue, list, Waking, Giving, wc_threads, count_wchan, newthread, t_state, t_cpu)
      BY <1>1 DEF World
    <3>2. Once(list[c])
      BY <3>1 DEF ListOK
    <3> QED BY <1>0, <2>1, <3>2 DEF Giving, Waking
  <2>4. /\ g.moved \in Seq(Threads) /\ g.rest \in Seq(Threads) /\ Once(g.moved) /\ Once(g.rest)
        /\ (\A x : In(x, list[c]) <=> In(x, g.moved) \/ In(x, g.rest))
        /\ (\A x : ~(In(x, g.moved) /\ In(x, g.rest))) /\ ~In(c_curthread[c], g.moved)
    <3>1. (IF room > 0 THEN room ELSE 0) \in Nat
      <4>1. m.total \in Nat /\ m.i \in Cpus
        BY <1>0, <2>2, OnlineFacts
      <4>2. Len(c_runqueue[m.i]) \in Nat
        BY <1>0, <4>1
      <4>3. OneShare(m.total) \in Int
        BY <1>0, <4>1, OnlineFacts DEF OneShare
      <4> QED BY <4>2, <4>3
    <3>2. m.send \in Nat /\ m.send <= Len(list[c])
      BY <2>2, <2>3
    <3> HIDE DEF room, m
    <3> QED BY <2>3, <3>1, <3>2, GivenSplits
  <2>5. t_cpu' = Rehomed(t_cpu, g.moved, m.i)
    BY <2>1 DEF Rehome, Rehomed, In
  <2> HIDE DEF g, m
  <2>6. World(Online, c_curthread, c_isidle, [c_runqueue EXCEPT ![m.i] = c_runqueue[m.i] \o g.moved],
              c_zombies, [list EXCEPT ![c] = g.rest], Waking, Giving,
              wc_threads, count_wchan, newthread, t_state, Rehomed(t_cpu, g.moved, m.i))
    BY <1>1, <2>2, <2>3, <2>4, GiveAway, Zenon
  <2>7. World(Online, c_curthread', c_isidle', c_runqueue', c_zombies', list', Waking, Giving,
              wc_threads', count_wchan', newthread', t_state', t_cpu')
    BY <1>2, <2>1, <2>5, <2>6, Zenon
  <2>8. CASE pc' = [pc EXCEPT ![c] = "give"] \/ pc' = [pc EXCEPT ![c] = "back"]
    <3>1. Waking' = Waking \ {c} /\ Giving' = Giving \cup {c}
      BY <1>0, <2>8, LabelSets
    <3>2. Waking' = Waking /\ Giving' = Giving
      BY <2>3, <3>1
    <3> QED BY <1>3, <2>7, <3>2, Zenon DEF PlaceInv
  <2>9. CASE pc' = [pc EXCEPT ![c] = "tick"] /\ g.rest = <<>>
    <3>1. Waking' = Waking \ {c} /\ Giving' = Giving \ {c}
      BY <1>0, <2>9, LabelSets
    <3>2. list'[c] = <<>>
      BY <1>0, <2>1, <2>9
    <3>3. World(Online, c_curthread', c_isidle', c_runqueue', c_zombies', list', Waking \ {c}, Giving \ {c},
                wc_threads', count_wchan', newthread', t_state', t_cpu')
      BY <2>7, <3>2, ListDone, Zenon
    <3> QED BY <1>3, <3>1, <3>3, Zenon DEF PlaceInv
  <2> QED BY <2>1, <2>8, <2>9 DEF GiveFrom
<1>6. CASE Leftovers(c)
  <2>1. /\ pc[c] = "back" /\ c_runqueue' = [c_runqueue EXCEPT ![c] = c_runqueue[c] \o list[c]]
        /\ list' = [list EXCEPT ![c] = <<>>] /\ pc' = [pc EXCEPT ![c] = "tick"] /\ t_cpu' = t_cpu
    BY <1>6 DEF Leftovers, TakeBack
  <2>2. c \in Giving /\ c \notin Waking
    BY <2>1 DEF Giving, Waking
  <2>3. World(Online, c_curthread, c_isidle, [c_runqueue EXCEPT ![c] = c_runqueue[c] \o list[c]],
              c_zombies, [list EXCEPT ![c] = <<>>], Waking, Giving \ {c},
              wc_threads, count_wchan, newthread, t_state, t_cpu)
    BY <1>1, <2>2, PutBack, Zenon
  <2>4. World(Online, c_curthread', c_isidle', c_runqueue', c_zombies', list', Waking, Giving \ {c},
              wc_threads', count_wchan', newthread', t_state', t_cpu')
    BY <1>2, <2>1, <2>3, Zenon
  <2>5. Waking' = Waking \ {c} /\ Giving' = Giving \ {c}
    BY <1>0, <2>1, LabelSets
  <2>6. Waking' = Waking
    BY <2>2, <2>5
  <2> QED BY <1>3, <2>4, <2>5, <2>6, Zenon DEF PlaceInv
<1> QED BY <1>4, <1>5, <1>6

(***************************************************************************)
(* What a step of cpu c may do to the others: append to their run queues,  *)
(* and call them if they idle.                                             *)
(***************************************************************************)
Fed(c) ==
    /\ ipi_line' \in [Cpus -> BOOLEAN]
    /\ \A d \in Cpus : d # c =>
        /\ Len(c_runqueue'[d]) >= Len(c_runqueue[d])
        /\ ipi_line[d] => ipi_line'[d]
        /\ c_runqueue'[d] = c_runqueue[d] \/ (c_isidle[d] => ipi_line'[d])

Others(c) ==
    /\ Fed(c)
    /\ \A d \in Cpus : d # c => /\ pc'[d] = pc[d] /\ c_isidle'[d] = c_isidle[d]
                                /\ list'[d] = list[d] /\ mig'[d] = mig[d]

\* What a step of one cpu may do to the others keeps their part of the invariant.
LEMMA OthersKeep ==
  ASSUME SchedulerInv, PlaceInv', UNCHANGED bootVars, NEW c \in Cpus, Others(c),
         PcOK(c)', MigOK(c)', CallOK(c)'
  PROVE  \A d \in Cpus : PcOK(d)' /\ MigOK(d)' /\ CallOK(d)'
<1>1. Online' = Online /\ Cardinality(Online)' = Cardinality(Online)
  BY OnlineStays
<1>2. c_runqueue \in [Cpus -> Seq(Threads)] /\ c_runqueue' \in [Cpus -> Seq(Threads)]
  BY DEF SchedulerInv, PlaceInv, World, WorldType
<1>3. ASSUME NEW d \in Cpus, d # c PROVE PcOK(d)' /\ MigOK(d)' /\ CallOK(d)'
  <2>1. PcOK(d) /\ MigOK(d) /\ CallOK(d)
    BY DEF SchedulerInv
  <2>2. /\ pc'[d] = pc[d] /\ c_isidle'[d] = c_isidle[d] /\ list'[d] = list[d] /\ mig'[d] = mig[d]
        /\ Len(c_runqueue'[d]) >= Len(c_runqueue[d])
        /\ ipi_line[d] => ipi_line'[d]
        /\ c_runqueue'[d] = c_runqueue[d] \/ (c_isidle[d] => ipi_line'[d])
    BY <1>3 DEF Others, Fed
  <2>3. PcOK(d)'
    BY <1>1, <2>1, <2>2 DEF PcOK
  <2>4. MigOK(d)'
    <3>0. mig[d] \in [i : 0 .. NumCpus, my : Nat, total : Nat, send : Nat]
      BY DEF SchedulerInv, RestType
    <3>1. /\ Len(c_runqueue'[d]) \in Nat /\ Len(c_runqueue[d]) \in Nat /\ mig[d].my \in Nat
          /\ mig[d].send \in Nat
      BY <1>2, <3>0
    <3> QED BY <1>1, <2>1, <2>2, <3>1 DEF MigOK
  <2>5. CallOK(d)'
    BY <2>1, <2>2 DEF CallOK, PcOK
  <2> QED BY <2>3, <2>4, <2>5
<1> QED BY <1>3

\* thread_make_runnable only adds to a run queue, and calls the cpu if it is idle.
LEMMA Feeds ==
  ASSUME SchedulerInv, NEW c \in Cpus, NEW t \in Threads, thread_make_runnable(c, t)
  PROVE  Fed(c)
<1>1. c_runqueue \in [Cpus -> Seq(Threads)] /\ t_cpu[t] \in Cpus /\ c_isidle \in [Cpus -> BOOLEAN]
  BY DEF SchedulerInv, PlaceInv, World, WorldType
<1>2. ipi_line \in [Cpus -> BOOLEAN]
  BY DEF SchedulerInv, RestType
<1> DEFINE e == t_cpu[t]
           q == Append(c_runqueue[e], t)
<1>3. /\ c_runqueue' = [c_runqueue EXCEPT ![e] = q]
      /\ ipi_line' = [ipi_line EXCEPT ![e] = ipi_line[e] \/ (c_isidle[e] /\ e # c)]
  BY DEF thread_make_runnable, Unidle
<1>4. Len(q) >= Len(c_runqueue[e])
  BY <1>1
<1> HIDE DEF e, q
<1>5. e \in Cpus
  BY <1>1 DEF e
<1>6. ipi_line' \in [Cpus -> BOOLEAN]
  BY <1>1, <1>2, <1>3, <1>5
<1>7. ASSUME NEW d \in Cpus, d # c
      PROVE  /\ Len(c_runqueue'[d]) >= Len(c_runqueue[d]) /\ (ipi_line[d] => ipi_line'[d])
             /\ c_runqueue'[d] = c_runqueue[d] \/ (c_isidle[d] => ipi_line'[d])
  <2>1. CASE d = e
    BY <1>1, <1>2, <1>3, <1>4, <1>5, <1>7, <2>1
  <2>2. CASE d # e
    <3>1. c_runqueue'[d] = c_runqueue[d] /\ ipi_line'[d] = ipi_line[d] /\ Len(c_runqueue[d]) \in Nat
      BY <1>1, <1>2, <1>3, <1>5, <2>2
    <3> QED BY <3>1
  <2> QED BY <2>1, <2>2
<1> QED BY <1>6, <1>7 DEF Fed

\* A step that touches no run queue but its own.
LEMMA NotFed ==
  ASSUME SchedulerInv, NEW c \in Cpus, ipi_line' \in [Cpus -> BOOLEAN],
         \A d \in Cpus : d # c => c_runqueue'[d] = c_runqueue[d] /\ ipi_line'[d] = ipi_line[d]
  PROVE  Fed(c)
<1>1. \A d \in Cpus : Len(c_runqueue[d]) \in Nat
  BY DEF SchedulerInv, PlaceInv, World, WorldType
<1> QED BY <1>1 DEF Fed

\* Waking the menu only adds to a run queue.
LEMMA FeedsCounter ==
  ASSUME SchedulerInv, NEW c \in Cpus, WakeCounter(c)
  PROVE  Fed(c)
<1>1. CASE count_wchan # <<>>
  BY <1>1, Feeds, ThreadFacts DEF WakeCounter
<1>2. CASE count_wchan = <<>>
  <2>1. c_runqueue' = c_runqueue /\ ipi_line' = ipi_line /\ ipi_line \in [Cpus -> BOOLEAN]
    BY <1>2 DEF WakeCounter, SchedulerInv, RestType
  <2> QED BY <2>1, NotFed
<1> QED BY <1>1, <1>2

Calm(c) == Others(c) /\ PcOK(c)' /\ MigOK(c)' /\ CallOK(c)'

\* A running cpu goes on, after what may have made threads runnable.
LEMMA CalmRun ==
  ASSUME SchedulerInv, UNCHANGED bootVars, NEW c \in Cpus,
         \/ Fork(c) \/ ForkCount(c) \/ ForkReady(c) \/ Exit(c) \/ ExitCount(c)
         \/ WaitForCount(c) /\ thread_count = tc
  PROVE  Calm(c)
<1>1. pc[c] = "run" /\ UNCHANGED <<pc, c_isidle, list, mig>>
  <2>1. CASE Fork(c) \/ ForkCount(c) \/ ForkReady(c)
    BY <2>1 DEF Fork, ForkCount, ForkReady, Busy, Running, cpuVars, clockVars
  <2>2. CASE Exit(c) \/ ExitCount(c)
    BY <2>2 DEF Exit, ExitCount, Running, cpuVars, clockVars
  <2>3. CASE WaitForCount(c) /\ thread_count = tc
    BY <2>3 DEF WaitForCount, Running, cpuVars, clockVars
  <2> QED BY <2>1, <2>2, <2>3
<1>2. Fed(c)
  <2>0. ipi_line \in [Cpus -> BOOLEAN]
    BY DEF SchedulerInv, RestType
  <2>1. CASE ForkCount(c) \/ ExitCount(c)
    BY <2>1, FeedsCounter DEF ForkCount, ExitCount
  <2>2. CASE Fork(c) \/ Exit(c) \/ (WaitForCount(c) /\ thread_count = tc)
    <3>1. c_runqueue' = c_runqueue /\ ipi_line' = ipi_line
      BY <2>2 DEF Fork, Exit, WaitForCount, cpuVars
    <3> QED BY <2>0, <3>1, NotFed
  <2>3. CASE ForkReady(c)
    <3>1. thread_make_runnable(c, newthread[c_curthread[c]])
      BY <2>3 DEF ForkReady
    <3>2. newthread[c_curthread[c]] # NULL /\ c_curthread[c] \in Threads
      BY <2>3, ActorFacts DEF ForkReady, Running, SchedulerInv, AtOK
    <3>3. newthread[c_curthread[c]] \in Threads
      BY <3>2, ThreadFacts DEF SchedulerInv, PlaceInv, World, NewbornOK
    <3> QED BY <3>1, <3>3, Feeds
  <2> QED BY <2>1, <2>2, <2>3
<1>3. PcOK(c)' /\ MigOK(c)' /\ CallOK(c)'
  <2>1. PcOK(c) /\ Online' = Online
    BY OnlineStays DEF SchedulerInv
  <2> QED BY <1>1, <2>1 DEF PcOK, MigOK, CallOK
<1> QED BY <1>1, <1>2, <1>3 DEF Calm, Others

\* A cpu returns from a wakeup or from an interrupt.
LEMMA CalmWake ==
  ASSUME SchedulerInv, UNCHANGED bootVars, NEW c \in Cpus,
         \/ wchan_wakeone(c) \/ wchan_wakeall(c) \/ WakeNext(c)
         \/ interprocessor_interrupt(c) \/ ClearIpi(c)
  PROVE  Calm(c)
<1>0. /\ ipi_line \in [Cpus -> BOOLEAN] /\ pc \in [Cpus -> CpuLabels]
      /\ c_isidle \in [Cpus -> BOOLEAN]
      /\ list \in [Cpus -> Seq(Threads)] /\ wc_threads \in Seq(Threads) /\ Online' = Online
      /\ PcOK(c)
  BY OnlineStays DEF SchedulerInv, RestType, PlaceInv, World, WorldType
<1>1. c_isidle' = c_isidle /\ mig' = mig /\ c \in Online
  <2>1. pc[c] # "off"
    BY DEF wchan_wakeone, wchan_wakeall, WakeNext, interprocessor_interrupt, ClearIpi, Interruptible
  <2>2. c_isidle' = c_isidle /\ mig' = mig
    BY DEF wchan_wakeone, wchan_wakeall, WakeNext, WakeFirst, interprocessor_interrupt, ClearIpi,
       clockVars
  <2> QED BY <2>1, <2>2, ActorFacts
<1>2. ASSUME NEW ts \in Seq(Threads), ts # <<>>, WakeFirst(c, ts)
      PROVE  /\ Fed(c) /\ \A d \in Cpus : d # c => list'[d] = list[d]
             /\ pc' = [pc EXCEPT ![c] = Return(c)]
                \/ (pc' = [pc EXCEPT ![c] = "wakeall"] /\ list'[c] # <<>>)
  <2>1. /\ Head(ts) \in Threads /\ Len(Tail(ts)) = Len(ts) - 1 /\ Len(ts) \in Nat
        /\ Tail(ts) \in Seq(Threads)
    BY <1>2
  <2>2. thread_make_runnable(c, Head(ts)) /\ list' = [list EXCEPT ![c] = Tail(ts)]
    BY <1>2 DEF WakeFirst
  <2>3. Fed(c)
    BY <2>1, <2>2, Feeds
  <2>4. CASE Len(ts) > 1
    <3>1. pc' = [pc EXCEPT ![c] = "wakeall"]
      BY <1>2, <2>4 DEF WakeFirst
    <3>2. Tail(ts) # <<>>
      <4> DEFINE x == Tail(ts)
      <4>1. Len(x) # 0
        BY <2>1, <2>4
      <4> HIDE DEF x
      <4>2. x # <<>>
        BY <4>1
      <4> QED BY <4>2 DEF x
    <3> QED BY <1>0, <2>2, <2>3, <3>1, <3>2
  <2>5. CASE ~(Len(ts) > 1)
    <3>1. pc' = [pc EXCEPT ![c] = Return(c)]
      BY <1>2, <2>5 DEF WakeFirst
    <3> QED BY <1>0, <2>2, <2>3, <3>1
  <2> QED BY <2>4, <2>5
<1>3. /\ Fed(c) /\ \A d \in Cpus : d # c => list'[d] = list[d]
      /\ \E l \in {"run", "resume", "ipi", "wakeall"} :
            /\ pc' = [pc EXCEPT ![c] = l]
            /\ l \in {"run", "resume"} => l = Return(c)
            /\ l = "wakeall" => list'[c] # <<>>
  <2>0. Return(c) \in {"run", "resume"}
    BY DEF Return
  <2>1. CASE wchan_wakeone(c)
    <3>1. pc' = [pc EXCEPT ![c] = Return(c)] /\ list' = list
      BY <2>1 DEF wchan_wakeone
    <3>2. CASE wc_threads = <<>>
      <4>1. c_runqueue' = c_runqueue /\ ipi_line' = ipi_line
        BY <2>1, <3>2 DEF wchan_wakeone
      <4>2. Fed(c)
        BY <1>0, <4>1, NotFed
      <4> QED BY <2>0, <3>1, <4>2
    <3>3. CASE wc_threads # <<>>
      <4>1. thread_make_runnable(c, Head(wc_threads)) /\ Head(wc_threads) \in Threads
        BY <1>0, <2>1, <3>3 DEF wchan_wakeone
      <4>2. Fed(c)
        BY <4>1, Feeds
      <4> QED BY <2>0, <3>1, <4>2
    <3> QED BY <3>2, <3>3
  <2>2. CASE wchan_wakeall(c)
    <3>1. WakeFirst(c, wc_threads) /\ wc_threads # <<>>
      BY <2>2 DEF wchan_wakeall
    <3> QED BY <1>0, <1>2, <2>0, <3>1
  <2>3. CASE WakeNext(c)
    <3>1. WakeFirst(c, list[c]) /\ list[c] # <<>> /\ list[c] \in Seq(Threads)
      BY <1>0, <2>3 DEF WakeNext, PcOK
    <3> QED BY <1>2, <2>0, <3>1
  <2>4. CASE interprocessor_interrupt(c)
    <3>1. /\ pc' = [pc EXCEPT ![c] = "ipi"] /\ list' = list /\ c_runqueue' = c_runqueue
          /\ ipi_line' = ipi_line
      BY <2>4 DEF interprocessor_interrupt
    <3>2. Fed(c)
      BY <1>0, <3>1, NotFed
    <3> QED BY <3>1, <3>2
  <2>5. CASE ClearIpi(c)
    <3>1. /\ pc' = [pc EXCEPT ![c] = Return(c)] /\ list' = list /\ c_runqueue' = c_runqueue
          /\ ipi_line' = [ipi_line EXCEPT ![c] = FALSE]
      BY <2>5 DEF ClearIpi
    <3>2. ipi_line' \in [Cpus -> BOOLEAN] /\ \A d \in Cpus : d # c => ipi_line'[d] = ipi_line[d]
      BY <1>0, <3>1
    <3>3. Fed(c)
      BY <3>1, <3>2, NotFed
    <3> QED BY <2>0, <3>1, <3>3
  <2> QED BY <2>1, <2>2, <2>3, <2>4, <2>5
<1>4. PICK l \in {"run", "resume", "ipi", "wakeall"} :
            /\ pc' = [pc EXCEPT ![c] = l]
            /\ l \in {"run", "resume"} => l = Return(c)
            /\ l = "wakeall" => list'[c] # <<>>
  BY <1>3
<1>5. pc'[c] = l /\ \A d \in Cpus : d # c => pc'[d] = pc[d]
  BY <1>0, <1>4
<1>6. PcOK(c)'
  <2>1. l = "resume" => c_isidle[c]
    BY <1>4 DEF Return
  <2>2. l = "run" => ~c_isidle[c]
    BY <1>4 DEF Return
  <2> QED BY <1>0, <1>1, <1>4, <1>5, <2>1, <2>2 DEF PcOK
<1>7. MigOK(c)' /\ CallOK(c)'
  BY <1>5 DEF MigOK, CallOK
<1> QED BY <1>1, <1>3, <1>5, <1>6, <1>7 DEF Calm, Others

\* A cpu switches.
LEMMA CalmSwitch ==
  ASSUME SchedulerInv, UNCHANGED bootVars, NEW c \in Online, c \in Cpus, NEW wc, NEW cw,
         Switched(c, wc, cw),
         UNCHANGED <<list, ipi_line>>, \A d \in Cpus : d # c => mig'[d] = mig[d]
  PROVE  Calm(c)
<1>0. ipi_line \in [Cpus -> BOOLEAN] /\ pc \in [Cpus -> CpuLabels] /\ Online' = Online
  BY OnlineStays DEF SchedulerInv, RestType
<1>1. /\ \/ pc' = [pc EXCEPT ![c] = "run"] /\ ~c_isidle'[c]
         \/ pc' = [pc EXCEPT ![c] = "idle"] /\ c_isidle'[c] /\ c_runqueue'[c] = <<>>
      /\ \A d \in Cpus : d # c => c_runqueue'[d] = c_runqueue[d] /\ c_isidle'[d] = c_isidle[d]
  BY DEF Switched
<1>2. \A d \in Cpus : d # c => pc'[d] = pc[d]
  BY <1>0, <1>1
<1>3. \/ pc'[c] = "run" /\ ~c_isidle'[c]
      \/ pc'[c] = "idle" /\ c_isidle'[c] /\ c_runqueue'[c] = <<>>
  BY <1>0, <1>1
<1>4. Fed(c)
  BY <1>0, <1>1, NotFed
<1>5. PcOK(c)' /\ MigOK(c)' /\ CallOK(c)'
  BY <1>0, <1>3 DEF PcOK, MigOK, CallOK
<1> QED BY <1>1, <1>2, <1>4, <1>5 DEF Calm, Others

(***************************************************************************)
(* thread_consider_migration.                                              *)
(***************************************************************************)
MigType == [i : 0 .. NumCpus, my : Nat, total : Nat, send : Nat]

\* The local variables of thread_consider_migration when it starts to give.
LEMMA SentRecord ==
  ASSUME NEW k \in MigType, NEW x \in Nat, NEW r, r = [k EXCEPT !.i = 0, !.send = x]
  PROVE  r \in MigType /\ r.send = x
<1>1. 0 \in 0 .. NumCpus
  BY SchedulerAssumption
<1>2. /\ k = [i |-> k.i, my |-> k.my, total |-> k.total, send |-> k.send] /\ k.my \in Nat
      /\ k.total \in Nat
  BY DEF MigType
<1>3. r = [i |-> 0, my |-> k.my, total |-> k.total, send |-> x]
  BY <1>2
<1> QED BY <1>1, <1>2, <1>3 DEF MigType

\* The share of a cpu is a number.
LEMMA ShareIsNat ==
  ASSUME aging \in BOOLEAN, NEW total \in Nat
  PROVE  OneShare(total) \in Nat
<1>1. Cardinality(Online) \in Nat /\ Cardinality(Online) >= 1
  BY OnlineFacts, SchedulerAssumption
<1> DEFINE n == Cardinality(Online)
<1> HIDE DEF n
<1>2. n \in Nat /\ n >= 1
  BY <1>1 DEF n
<1>3. (total + n - 1) \div n \in Nat
  BY <1>2
<1> QED BY <1>3 DEF OneShare, n

\* Counting the run queue of one more cpu.
LEMMA Counts ==
  ASSUME SchedulerInv, UNCHANGED bootVars, NEW c \in Online, c \in Cpus, NEW m \in MigType,
         m.i < Cardinality(Online), m.my <= Len(c_runqueue[c]), CountQueue(c, Counted(c, m)),
         UNCHANGED <<c_isidle, c_runqueue, list, ipi_line>>, list[c] = <<>>
  PROVE  mig' \in [Cpus -> MigType] /\ Calm(c)
<1>0. /\ mig \in [Cpus -> MigType] /\ pc \in [Cpus -> CpuLabels]
      /\ c_runqueue \in [Cpus -> Seq(Threads)]
      /\ aging \in BOOLEAN /\ ipi_line \in [Cpus -> BOOLEAN]
  BY DEF SchedulerInv, RestType, PlaceInv, World, WorldType, MigType
<1>1. /\ Online' = Online /\ Cardinality(Online)' = Cardinality(Online) /\ NumCpus \in Nat
      /\ Cardinality(Online) \in 1 .. NumCpus
  BY <1>0, OnlineStays, OnlineFacts, SchedulerAssumption
<1> DEFINE k == Counted(c, m)
           card == Cardinality(Online)
           extra == k.my - OneShare(k.total)
<1>2. /\ k \in MigType /\ k.i <= card /\ k.my <= Len(c_runqueue[c])
  <2>1. m.i \in Online /\ m.i \in Cpus
    <3>1. m.i \in Nat
      BY <1>1 DEF MigType
    <3> QED BY <1>0, <3>1, OnlineFacts
  <2>2. /\ Len(c_runqueue[m.i]) \in Nat /\ m.i \in 0 .. NumCpus /\ m.total \in Nat /\ m.my \in Nat
        /\ m.send \in Nat
    BY <1>0, <2>1 DEF MigType
  <2> DEFINE n == Len(c_runqueue[m.i])
  <2> DEFINE y == IF m.i = c THEN n ELSE m.my
  <2>3. k = [m EXCEPT !.i = m.i + 1, !.total = m.total + n, !.my = y]
    BY DEF Counted
  <2> HIDE DEF n, k
  <2>4. n \in Nat /\ (m.i = c => n = Len(c_runqueue[c]))
    BY <2>2 DEF n
  <2>6. m.i + 1 \in 0 .. NumCpus /\ m.total + n \in Nat /\ y \in Nat /\ y <= Len(c_runqueue[c])
    <3>1. m.i + 1 \in 0 .. NumCpus
      BY <1>1, <2>2
    <3>2. m.total + n \in Nat
      BY <2>2, <2>4
    <3>3. CASE m.i = c
      <4>1. y = n /\ n <= n
        BY <2>4, <3>3
      <4> QED BY <2>4, <3>1, <3>2, <3>3, <4>1
    <3>4. CASE m.i # c
      <4>1. y = m.my
        BY <3>4
      <4> QED BY <2>2, <3>1, <3>2, <4>1
    <3> QED BY <3>3, <3>4
  <2> HIDE DEF y
  <2>5. k \in MigType /\ k.i = m.i + 1 /\ k.my = y
    <3> DEFINE a == m.i + 1
               b == m.total + n
    <3>1. a \in 0 .. NumCpus /\ b \in Nat /\ k = [m EXCEPT !.i = a, !.total = b, !.my = y]
      BY <2>3, <2>6
    <3>2. a = m.i + 1
      OBVIOUS
    <3> HIDE DEF a, b
    <3>3. k \in MigType /\ k.i = a /\ k.my = y
      <4>1. m \in MigType /\ a \in 0 .. NumCpus /\ b \in Nat /\ y \in Nat
        BY <2>6, <3>1
      <4>2. k = [m EXCEPT !.i = a, !.total = b, !.my = y]
        BY <3>1
      <4> HIDE DEF y
      <4> QED BY <4>1, <4>2 DEF MigType
    <3> QED BY <3>2, <3>3
  <2> QED BY <1>1, <2>2, <2>5, <2>6
<1>3. CountQueue(c, k)
  OBVIOUS
<1> HIDE DEF k
<1>4. /\ k.i \in 0 .. NumCpus /\ k.my \in Nat /\ k.total \in Nat /\ k.send \in Nat
      /\ OneShare(k.total) \in Nat
  <2>1. k.i \in 0 .. NumCpus /\ k.my \in Nat /\ k.total \in Nat /\ k.send \in Nat
    BY <1>2 DEF MigType
  <2> QED BY <1>0, <2>1, ShareIsNat
<1>5. Fed(c)
  BY <1>0, NotFed
<1>6. CASE k.i < card
  <2>1. mig' = [mig EXCEPT ![c] = k] /\ pc' = [pc EXCEPT ![c] = "count"]
    BY <1>1, <1>3, <1>4, <1>6 DEF CountQueue
  <2>2. /\ mig' \in [Cpus -> MigType] /\ mig'[c] = k /\ pc'[c] = "count"
        /\ \A d \in Cpus : d # c => mig'[d] = mig[d] /\ pc'[d] = pc[d]
    BY <1>0, <1>2, <2>1
  <2>3. PcOK(c)' /\ CallOK(c)'
    BY <1>1, <2>2 DEF PcOK, CallOK
  <2>4. MigOK(c)'
    BY <1>1, <1>2, <1>6, <2>2 DEF MigOK
  <2> QED BY <1>5, <2>2, <2>3, <2>4 DEF Calm, Others
<1>7. CASE k.i = card /\ extra <= 0
  <2>1. mig' = [mig EXCEPT ![c] = Idle0] /\ pc' = [pc EXCEPT ![c] = "tick"]
    BY <1>1, <1>3, <1>4, <1>7 DEF CountQueue
  <2>2. Idle0 \in MigType
    BY <1>1 DEF Idle0, MigType
  <2>3. /\ mig' \in [Cpus -> MigType] /\ pc'[c] = "tick"
        /\ \A d \in Cpus : d # c => mig'[d] = mig[d] /\ pc'[d] = pc[d]
    BY <1>0, <2>1, <2>2
  <2>4. PcOK(c)' /\ CallOK(c)' /\ MigOK(c)'
    BY <1>1, <2>3 DEF PcOK, CallOK, MigOK
  <2> QED BY <1>5, <2>3, <2>4 DEF Calm, Others
<1>8. CASE k.i = card /\ extra > 0
  <2> DEFINE r == [k EXCEPT !.i = 0, !.send = extra]
  <2>1. mig' = [mig EXCEPT ![c] = r] /\ pc' = [pc EXCEPT ![c] = "take"]
    BY <1>1, <1>3, <1>4, <1>8 DEF CountQueue
  <2>2. extra \in Nat /\ extra >= 1 /\ extra <= Len(c_runqueue[c]) /\ Len(c_runqueue[c]) \in Nat
    BY <1>0, <1>2, <1>4, <1>8
  <2> HIDE DEF extra
  <2>3. r \in MigType /\ r.send = extra
    BY <1>2, <2>2, SentRecord, Zenon
  <2> HIDE DEF r
  <2>4. /\ mig' \in [Cpus -> MigType] /\ mig'[c] = r /\ pc'[c] = "take"
        /\ \A d \in Cpus : d # c => mig'[d] = mig[d] /\ pc'[d] = pc[d]
    BY <1>0, <2>1, <2>3
  <2>5. PcOK(c)' /\ CallOK(c)'
    BY <1>1, <2>4 DEF PcOK, CallOK
  <2>6. MigOK(c)'
    BY <2>2, <2>3, <2>4 DEF MigOK
  <2> QED BY <1>5, <2>4, <2>5, <2>6 DEF Calm, Others
<1> QED BY <1>1, <1>2, <1>4, <1>6, <1>7, <1>8

\* Going on to the next cpu that may have room.
LEMMA Gives ==
  ASSUME SchedulerInv, UNCHANGED bootVars, NEW c \in Online, c \in Cpus, NEW i \in Nat,
         i <= Cardinality(Online),
         NEW send \in Nat, NEW v \in Seq(Threads), send <= Len(v), GiveFrom(c, i, send, v), list'[c] = v
  PROVE  /\ mig' \in [Cpus -> MigType] /\ PcOK(c)' /\ MigOK(c)' /\ CallOK(c)'
         /\ \A d \in Cpus : d # c => mig'[d] = mig[d] /\ pc'[d] = pc[d]
<1>0. mig \in [Cpus -> MigType] /\ pc \in [Cpus -> CpuLabels] /\ aging \in BOOLEAN
  BY DEF SchedulerInv, RestType, MigType
<1>1. /\ Online' = Online /\ Cardinality(Online)' = Cardinality(Online) /\ NumCpus \in Nat
      /\ Cardinality(Online) \in 1 .. NumCpus /\ c \in Int
  BY <1>0, OnlineStays, OnlineFacts, SchedulerAssumption DEF Cpus
<1> DEFINE j == IF i = c THEN i + 1 ELSE i
           card == Cardinality(Online)
<1>2. CASE send > 0 /\ j < card /\ mig' = [mig EXCEPT ![c].i = j, ![c].send = send] /\ pc' = [pc EXCEPT ![c] = "give"]
  <2> DEFINE r == [[mig[c] EXCEPT !.i = j] EXCEPT !.send = send]
  <2>1. j \in 0 .. NumCpus /\ j # c
    BY <1>1, <1>2
  <2> HIDE DEF j
  <2>2. mig[c] \in MigType
    BY <1>0
  <2>3. r \in MigType /\ r.send = send /\ r.i = j
    BY <2>1, <2>2 DEF MigType
  <2>4. mig' = [mig EXCEPT ![c] = r]
    BY <1>0, <1>2
  <2> HIDE DEF r
  <2>5. /\ mig' \in [Cpus -> MigType] /\ mig'[c] = r /\ pc'[c] = "give"
        /\ \A d \in Cpus : d # c => mig'[d] = mig[d] /\ pc'[d] = pc[d]
    BY <1>0, <1>2, <2>3, <2>4
  <2>6. PcOK(c)' /\ CallOK(c)'
    BY <1>1, <2>5 DEF PcOK, CallOK
  <2>7. MigOK(c)'
    BY <1>1, <1>2, <2>1, <2>3, <2>5 DEF MigOK
  <2> QED BY <2>5, <2>6, <2>7
<1>3. ASSUME NEW l \in {"tick", "back"}, mig' = [mig EXCEPT ![c] = Idle0],
             pc' = [pc EXCEPT ![c] = l]
      PROVE  /\ mig' \in [Cpus -> MigType] /\ PcOK(c)' /\ MigOK(c)' /\ CallOK(c)'
             /\ \A d \in Cpus : d # c => mig'[d] = mig[d] /\ pc'[d] = pc[d]
  <2>1. Idle0 \in MigType
    BY <1>1 DEF Idle0, MigType
  <2>2. /\ mig' \in [Cpus -> MigType] /\ pc'[c] = l
        /\ \A d \in Cpus : d # c => mig'[d] = mig[d] /\ pc'[d] = pc[d]
    BY <1>0, <1>3, <2>1
  <2>3. PcOK(c)' /\ CallOK(c)' /\ MigOK(c)'
    BY <1>1, <2>2 DEF PcOK, CallOK, MigOK
  <2> QED BY <2>2, <2>3
<1>4. \/ send > 0 /\ j < card /\ mig' = [mig EXCEPT ![c].i = j, ![c].send = send] /\ pc' = [pc EXCEPT ![c] = "give"]
      \/ \E l \in {"tick", "back"} : mig' = [mig EXCEPT ![c] = Idle0] /\ pc' = [pc EXCEPT ![c] = l]
  BY DEF GiveFrom
<1> QED BY <1>2, <1>3, <1>4

\* Counting moves no thread.
LEMMA PlaceCount ==
  ASSUME SchedulerInv, UNCHANGED bootVars, NEW c \in Cpus, pc[c] \notin Private, NEW m,
         CountQueue(c, m),
         UNCHANGED <<c_curthread, c_isidle, c_runqueue, c_zombies, list>>,
         UNCHANGED <<wc_threads, count_wchan, newthread, t_state, t_cpu>>
  PROVE  PlaceInv'
<1>0. RestType /\ PlaceInv
  BY DEF SchedulerInv
<1>1. World(Online, c_curthread, c_isidle, c_runqueue, c_zombies, list, Waking, Giving,
            wc_threads, count_wchan, newthread, t_state, t_cpu)
  BY <1>0 DEF PlaceInv
<1>2. World(Online, c_curthread', c_isidle', c_runqueue', c_zombies', list', Waking, Giving,
            wc_threads', count_wchan', newthread', t_state', t_cpu')
  BY <1>1, Zenon
<1>3. PICK l \in {"count", "tick", "take"} : pc' = [pc EXCEPT ![c] = l]
  BY DEF CountQueue
<1>4. l \notin Private
  BY DEF Private
<1>5. Waking' = Waking /\ Giving' = Giving
  BY <1>0, <1>3, <1>4, Relabelled
<1> QED BY <1>2, <1>5, PlacesAre

\* The clock interrupt.
LEMMA CalmTick ==
  ASSUME SchedulerInv, UNCHANGED bootVars, NEW c \in Cpus, pc[c] \notin Private \cup {"off"},
         NEW h, EndOfTick(c, h), UNCHANGED <<ipi_line, list, mig, newthread, wc_threads, count_wchan>>
  PROVE  PlaceInv' /\ Calm(c)
<1>0. /\ ipi_line \in [Cpus -> BOOLEAN] /\ pc \in [Cpus -> CpuLabels]
      /\ c_runqueue \in [Cpus -> Seq(Threads)]
      /\ Online' = Online /\ Cardinality(Online)' = Cardinality(Online) /\ PcOK(c) /\ MigOK(c)
      /\ CallOK(c)
  BY OnlineStays DEF SchedulerInv, RestType, PlaceInv, World, WorldType
<1>1. PlaceInv' /\ c \in Online
  BY PlaceTick
<1>2. \/ Switched(c, wc_threads', count_wchan')
      \/ /\ c_isidle[c] /\ pc' = [pc EXCEPT ![c] = "resume"] /\ c_isidle' = c_isidle
         /\ \E q : c_runqueue' = [c_runqueue EXCEPT ![c] = q]
      \/ UNCHANGED <<pc, c_isidle, c_runqueue>>
  BY PlaceTick
<1>3. CASE Switched(c, wc_threads', count_wchan')
  BY <1>1, <1>3, CalmSwitch
<1>4. CASE /\ c_isidle[c] /\ pc' = [pc EXCEPT ![c] = "resume"] /\ c_isidle' = c_isidle
           /\ \E q : c_runqueue' = [c_runqueue EXCEPT ![c] = q]
  <2>1. pc'[c] = "resume" /\ \A d \in Cpus : d # c => pc'[d] = pc[d]
    BY <1>0, <1>4
  <2>2. \A d \in Cpus : d # c => c_runqueue'[d] = c_runqueue[d]
    BY <1>0, <1>4
  <2>3. Fed(c)
    BY <1>0, <2>2, NotFed
  <2>4. PcOK(c)' /\ MigOK(c)' /\ CallOK(c)'
    BY <1>0, <1>1, <1>4, <2>1 DEF PcOK, MigOK, CallOK
  <2> QED BY <1>1, <1>4, <2>1, <2>3, <2>4 DEF Calm, Others
<1>5. CASE UNCHANGED <<pc, c_isidle, c_runqueue>>
  <2>1. Fed(c)
    BY <1>0, <1>5, NotFed
  <2>2. PcOK(c)' /\ MigOK(c)' /\ CallOK(c)'
    BY <1>0, <1>5 DEF PcOK, MigOK, CallOK
  <2> QED BY <1>1, <1>5, <2>1, <2>2 DEF Calm, Others
<1> QED BY <1>1, <1>2, <1>3, <1>4, <1>5

\* The clock interrupt and the counting that it begins.
LEMMA CalmClock ==
  ASSUME SchedulerInv, UNCHANGED bootVars, NEW c \in Cpus, hardclock(c) \/ Tick(c) \/ CountNext(c)
  PROVE  PlaceInv' /\ Calm(c) /\ mig' \in [Cpus -> MigType]
<1>0. /\ mig \in [Cpus -> MigType] /\ c_runqueue \in [Cpus -> Seq(Threads)] /\ aging \in BOOLEAN
      /\ MigOK(c) /\ NumCpus \in Nat
  BY SchedulerAssumption DEF SchedulerInv, RestType, PlaceInv, World, WorldType, MigType
<1>1. pc[c] \in {"run", "idle", "resume", "count", "tick"}
  BY DEF hardclock, Interruptible, Tick, CountNext
<1>2. pc[c] \notin Private /\ pc[c] \notin Private \cup {"off"}
  BY <1>1 DEF Private
<1>3. list[c] = <<>> /\ c \in Online
  BY <1>1, <1>2, ActorFacts
<1>4. UNCHANGED <<ipi_line, list, newthread, wc_threads, count_wchan>>
  BY DEF hardclock, Tick, CountNext, countVars
<1>5. ASSUME NEW m \in MigType, m.i < Cardinality(Online), m.my <= Len(c_runqueue[c]),
             CountQueue(c, Counted(c, m)),
             UNCHANGED <<c_curthread, c_isidle, c_runqueue, c_zombies, t_state, t_cpu>>
      PROVE  PlaceInv' /\ Calm(c) /\ mig' \in [Cpus -> MigType]
  <2>1. mig' \in [Cpus -> MigType] /\ Calm(c)
    BY <1>3, <1>4, <1>5, Counts
  <2>2. PlaceInv'
    BY <1>2, <1>4, <1>5, PlaceCount
  <2> QED BY <2>1, <2>2
<1>6. ASSUME NEW h, EndOfTick(c, h), mig' = mig
      PROVE  PlaceInv' /\ Calm(c) /\ mig' \in [Cpus -> MigType]
  BY <1>0, <1>2, <1>4, <1>6, CalmTick
<1>7. CASE Tick(c)
  BY <1>6, <1>7 DEF Tick, clockVars
<1>8. CASE CountNext(c)
  <2>1. /\ pc[c] = "count" /\ CountQueue(c, Counted(c, mig[c])) /\ mig[c] \in MigType
        /\ UNCHANGED <<c_curthread, c_isidle, c_runqueue, c_zombies, t_state, t_cpu>>
    BY <1>0, <1>8 DEF CountNext
  <2>2. mig[c].i < Cardinality(Online) /\ mig[c].my <= Len(c_runqueue[c])
    BY <1>0, <2>1 DEF MigOK
  <2> QED BY <1>5, <2>1, <2>2
<1>9. CASE hardclock(c)
  <2>1. \/ \E h : EndOfTick(c, h) /\ mig' = mig
        \/ /\ CountQueue(c, Counted(c, Idle0))
           /\ UNCHANGED <<c_curthread, c_isidle, c_runqueue, c_zombies, t_state, t_cpu>>
    BY <1>9 DEF hardclock
  <2>2. Idle0 \in MigType /\ Idle0.i < Cardinality(Online) /\ Idle0.my <= Len(c_runqueue[c])
    <3>1. Cardinality(Online) \in 1 .. NumCpus /\ Len(c_runqueue[c]) \in Nat
      BY <1>0, OnlineFacts
    <3> QED BY <1>0, <3>1 DEF Idle0, MigType
  <2> QED BY <1>5, <1>6, <2>1, <2>2
<1> QED BY <1>7, <1>8, <1>9

\* Migration.
LEMMA CalmMigrate ==
  ASSUME SchedulerInv, UNCHANGED bootVars, NEW c \in Cpus,
         TakeVictims(c) \/ GiveVictims(c) \/ Leftovers(c)
  PROVE  Calm(c) /\ mig' \in [Cpus -> MigType]
<1>0. /\ mig \in [Cpus -> MigType] /\ c_runqueue \in [Cpus -> Seq(Threads)] /\ aging \in BOOLEAN
      /\ MigOK(c) /\ NumCpus \in Nat /\ list \in [Cpus -> Seq(Threads)]
      /\ ipi_line \in [Cpus -> BOOLEAN]
      /\ c_isidle \in [Cpus -> BOOLEAN] /\ pc \in [Cpus -> CpuLabels]
  BY SchedulerAssumption DEF SchedulerInv, RestType, PlaceInv, World, WorldType, MigType
<1>1. c_isidle' = c_isidle /\ c \in Online /\ Online' = Online
  <2>1. pc[c] # "off" /\ c_isidle' = c_isidle
    BY DEF TakeVictims, GiveVictims, Leftovers
  <2> QED BY <2>1, ActorFacts, OnlineStays
<1>2. ASSUME NEW i \in Nat, i <= Cardinality(Online), NEW send \in Nat, NEW v \in Seq(Threads),
             send <= Len(v),
             GiveFrom(c, i, send, v), list' = [list EXCEPT ![c] = v], Fed(c)
      PROVE  Calm(c) /\ mig' \in [Cpus -> MigType]
  <2>1. list'[c] = v /\ \A d \in Cpus : d # c => list'[d] = list[d]
    BY <1>0, <1>2
  <2>2. /\ mig' \in [Cpus -> MigType] /\ PcOK(c)' /\ MigOK(c)' /\ CallOK(c)'
        /\ \A d \in Cpus : d # c => mig'[d] = mig[d] /\ pc'[d] = pc[d]
    BY <1>1, <1>2, <2>1, Gives
  <2> QED BY <1>1, <1>2, <2>1, <2>2 DEF Calm, Others
<1>3. CASE TakeVictims(c)
  <2> DEFINE q == c_runqueue[c]
             left == Len(q) - mig[c].send
             v == SubSeq(q, left + 1, Len(q))
  <2>1. /\ pc[c] = "take" /\ c_runqueue' = [c_runqueue EXCEPT ![c] = SubSeq(q, 1, left)]
        /\ list' = [list EXCEPT ![c] = v] /\ ipi_line' = ipi_line
        /\ GiveFrom(c, 0, mig[c].send, list'[c])
    BY <1>3 DEF TakeVictims
  <2>2. /\ q \in Seq(Threads) /\ mig[c].send \in 1 .. Len(q) /\ left \in 0 .. Len(q)
        /\ Len(q) - left = mig[c].send
    BY <1>0, <2>1 DEF MigOK
  <2> HIDE DEF left
  <2>3. v \in Seq(Threads) /\ Len(v) = mig[c].send /\ mig[c].send \in Nat
    BY <2>2
  <2>4. GiveFrom(c, 0, mig[c].send, v) /\ \A d \in Cpus : d # c => c_runqueue'[d] = c_runqueue[d]
    BY <1>0, <2>1
  <2>5. Fed(c)
    BY <1>0, <2>1, <2>4, NotFed
  <2>6. 0 <= Cardinality(Online) /\ 0 \in Nat
    BY <1>0, OnlineFacts
  <2> HIDE DEF v
  <2>7. mig[c].send <= Len(v) /\ list' = [list EXCEPT ![c] = v]
    BY <2>1, <2>3
  <2> QED BY <1>2, <2>3, <2>4, <2>5, <2>6, <2>7
<1>4. CASE GiveVictims(c)
  <2> DEFINE m == mig[c]
             room == OneShare(m.total) - Len(c_runqueue[m.i])
             g == Given(c_curthread[c], list[c], IF room > 0 THEN room ELSE 0, m.send)
  <2>1. /\ pc[c] = "give" /\ list' = [list EXCEPT ![c] = g.rest]
        /\ c_runqueue' = [c_runqueue EXCEPT ![m.i] = c_runqueue[m.i] \o g.moved]
        /\ (g.moved = <<>> /\ ipi_line' = ipi_line) \/ (g.moved # <<>> /\ Unidle(c, m.i))
        /\ GiveFrom(c, m.i + 1, g.send, g.rest)
    BY <1>4 DEF GiveVictims
  <2>2. /\ m.i \in Cpus /\ m.i # c /\ m.send \in 1 .. Len(list[c]) /\ m.i \in Nat
        /\ m.i + 1 <= Cardinality(Online)
        /\ m.total \in Nat
    <3>0. m.i \in Nat /\ m.total \in Nat
      BY <1>0 DEF MigType
    <3>1. m.i < Cardinality(Online) /\ m.i # c /\ m.send \in 1 .. Len(list[c])
      BY <1>0, <2>1 DEF MigOK
    <3>2. Cardinality(Online) \in Nat
      BY <1>0, OnlineFacts
    <3> QED BY <1>0, <3>0, <3>1, <3>2, OnlineFacts
  <2>3. /\ g.moved \in Seq(Threads) /\ g.rest \in Seq(Threads) /\ g.send \in Nat
        /\ g.send <= Len(g.rest)
    <3>1. (IF room > 0 THEN room ELSE 0) \in Nat
      <4>1. Len(c_runqueue[m.i]) \in Nat
        BY <1>0, <2>2
      <4>2. OneShare(m.total) \in Nat
        BY <1>0, <2>2, ShareIsNat
      <4> QED BY <4>1, <4>2
    <3>2. m.send \in Nat /\ m.send <= Len(list[c]) /\ list[c] \in Seq(Threads)
      BY <1>0, <2>2
    <3>3. Once(list[c])
      BY DEF SchedulerInv, PlaceInv, World, ListOK
    <3> HIDE DEF room, m
    <3> QED BY <3>1, <3>2, <3>3, GivenSplits
  <2> HIDE DEF g
  <2>4. Fed(c)
    <3> DEFINE e == m.i
               q == c_runqueue[m.i] \o g.moved
    <3>1. Len(q) >= Len(c_runqueue[e]) /\ (g.moved = <<>> => q = c_runqueue[e]) /\ e \in Cpus /\ e # c
      <4>1. e \in Cpus /\ e # c /\ c_runqueue[e] \in Seq(Threads)
        BY <1>0, <2>2
      <4> DEFINE x == c_runqueue[e]
                 y == g.moved
      <4>2. x \in Seq(Threads) /\ y \in Seq(Threads) /\ q = x \o y
        BY <2>3, <4>1
      <4> HIDE DEF e, q, x, y
      <4>3. Len(x \o y) >= Len(x) /\ (y = <<>> => x \o y = x)
        <5>1. Len(x \o y) = Len(x) + Len(y) /\ Len(x) \in Nat /\ Len(y) \in Nat
          BY <4>2
        <5>2. x \o <<>> = x
          BY <4>2, ConcatEmptySeq
        <5>3. Len(x \o y) >= Len(x)
          BY <5>1
        <5>4. y = <<>> => x \o y = x
          BY <5>2, Zenon
        <5> QED BY <5>3, <5>4
      <4>4. Len(q) >= Len(x) /\ (y = <<>> => q = x)
        BY <4>2, <4>3
      <4> QED BY <4>1, <4>4 DEF x, y
    <3>2. c_runqueue' = [c_runqueue EXCEPT ![e] = q]
      BY <2>1
    <3>3. \/ g.moved = <<>> /\ ipi_line' = ipi_line
          \/ ipi_line' = [ipi_line EXCEPT ![e] = ipi_line[e] \/ (c_isidle[e] /\ e # c)]
      BY <2>1 DEF Unidle
    <3> HIDE DEF e, q, m
    <3>4. ipi_line' \in [Cpus -> BOOLEAN]
      BY <1>0, <3>1, <3>3
    <3>5. ASSUME NEW d \in Cpus, d # c
          PROVE  /\ Len(c_runqueue'[d]) >= Len(c_runqueue[d]) /\ (ipi_line[d] => ipi_line'[d])
                 /\ c_runqueue'[d] = c_runqueue[d] \/ (c_isidle[d] => ipi_line'[d])
      <4>1. CASE d = e
        <5>1. c_runqueue'[d] = q
          BY <1>0, <3>1, <3>2, <4>1
        <5>2. CASE g.moved = <<>> /\ ipi_line' = ipi_line
          BY <3>1, <4>1, <5>1, <5>2
        <5>3. CASE ipi_line' = [ipi_line EXCEPT ![e] = ipi_line[e] \/ (c_isidle[e] /\ e # c)]
          <6>1. ipi_line'[e] = (ipi_line[e] \/ (c_isidle[e] /\ e # c))
            BY <1>0, <3>1, <5>3
          <6> QED BY <3>1, <4>1, <5>1, <6>1
        <5> QED BY <3>3, <5>2, <5>3
      <4>2. CASE d # e
        <5>1. /\ c_runqueue'[d] = c_runqueue[d] /\ ipi_line'[d] = ipi_line[d]
              /\ Len(c_runqueue[d]) \in Nat
          BY <1>0, <3>1, <3>2, <3>3, <4>2
        <5> QED BY <5>1
      <4> QED BY <4>1, <4>2
    <3> QED BY <3>4, <3>5 DEF Fed
  <2>5. m.i + 1 \in Nat
    BY <2>2
  <2> HIDE DEF m
  <2> QED BY <1>2, <2>1, <2>2, <2>3, <2>4, <2>5
<1>5. CASE Leftovers(c)
  <2>1. /\ c_runqueue' = [c_runqueue EXCEPT ![c] = c_runqueue[c] \o list[c]]
        /\ list' = [list EXCEPT ![c] = <<>>] /\ pc' = [pc EXCEPT ![c] = "tick"]
        /\ ipi_line' = ipi_line /\ mig' = mig
    BY <1>5 DEF Leftovers, TakeBack, clockVars
  <2>2. /\ pc'[c] = "tick"
        /\ \A d \in Cpus : d # c => pc'[d] = pc[d] /\ list'[d] = list[d] /\ c_runqueue'[d] = c_runqueue[d]
    BY <1>0, <2>1
  <2>3. Fed(c)
    BY <1>0, <2>1, <2>2, NotFed
  <2>4. PcOK(c)' /\ MigOK(c)' /\ CallOK(c)'
    BY <1>1, <2>2 DEF PcOK, MigOK, CallOK
  <2> QED BY <1>0, <1>1, <2>1, <2>2, <2>3, <2>4 DEF Calm, Others
<1> QED BY <1>3, <1>4, <1>5

-----------------------------------------------------------------------------
(***************************************************************************)
(* The rest of the invariant, and the invariant.                           *)
(***************************************************************************)
LEMMA RelabelsOne ==
  ASSUME NEW c, CpuStep(c)
  PROVE  pc' = pc \/ \E l \in CpuLabels : pc' = [pc EXCEPT ![c] = l]
<1>1. CASE Fork(c) \/ ForkCount(c) \/ ForkReady(c) \/ Exit(c) \/ ExitCount(c)
  BY <1>1 DEF Fork, ForkCount, ForkReady, Exit, ExitCount, cpuVars
<1>2. CASE WaitForCount(c) \/ ExitSwitch(c) \/ wchan_sleep(c) \/ Resume(c)
  BY <1>2 DEF WaitForCount, ExitSwitch, wchan_sleep, Resume, SwitchSleep, SwitchZombie, Dispatch,
     GoIdle,
              cpuVars, CpuLabels
<1>3. CASE wchan_wakeone(c) \/ wchan_wakeall(c) \/ WakeNext(c) \/ interprocessor_interrupt(c) \/ ClearIpi(c)
  BY <1>3 DEF wchan_wakeone, wchan_wakeall, WakeNext, WakeFirst, interprocessor_interrupt, ClearIpi,
     Return,
              CpuLabels
<1>4. CASE CountNext(c) \/ TakeVictims(c) \/ GiveVictims(c) \/ Leftovers(c)
  <2>1. \E l \in {"count", "tick", "take", "give", "back"} : pc' = [pc EXCEPT ![c] = l]
    BY <1>4 DEF CountNext, TakeVictims, GiveVictims, Leftovers, CountQueue, GiveFrom
  <2> QED BY <2>1 DEF CpuLabels
<1>5. CASE thread_yield(c)
  BY <1>5 DEF thread_yield, SwitchReady, Dispatch, GoIdle, CpuLabels
<1>6. ASSUME NEW h, EndOfTick(c, h) PROVE pc' = pc \/ \E l \in CpuLabels : pc' = [pc EXCEPT ![c] = l]
  <2>1. pc' = pc \/ \E q : Yield(c, q)
    BY <1>6 DEF EndOfTick, cpuVars
  <2>2. ASSUME NEW q, Yield(c, q) PROVE \E l \in CpuLabels : pc' = [pc EXCEPT ![c] = l]
    BY <2>2 DEF Yield, SwitchReady, Dispatch, GoIdle, CpuLabels
  <2> QED BY <2>1, <2>2
<1>7. CASE hardclock(c)
  <2>1. (\E h : EndOfTick(c, h)) \/ CountQueue(c, Counted(c, Idle0))
    BY <1>7 DEF hardclock
  <2>2. ASSUME NEW m, CountQueue(c, m) PROVE \E l \in CpuLabels : pc' = [pc EXCEPT ![c] = l]
    BY <2>2 DEF CountQueue, CpuLabels
  <2> QED BY <1>6, <2>1, <2>2
<1>8. CASE Tick(c)
  BY <1>6, <1>8 DEF Tick
<1> QED BY <1>1, <1>2, <1>3, <1>4, <1>5, <1>7, <1>8 DEF CpuStep

\* The steps that are not of the clock leave the list's ends and the clock alone.
LEMMA AgeStays ==
  ASSUME NEW c, CpuStep(c), ~hardclock(c), ~Tick(c)
  PROVE  UNCHANGED <<c_hardclocks, ends, fault>>
<1>1. CASE Fork(c) \/ ForkCount(c) \/ ForkReady(c) \/ Exit(c) \/ ExitCount(c) \/ WaitForCount(c) \/ ExitSwitch(c)
  BY <1>1 DEF Fork, ForkCount, ForkReady, Exit, ExitCount, WaitForCount, ExitSwitch, clockVars,
     ageVars
<1>2. CASE \/ thread_yield(c) \/ wchan_sleep(c) \/ Resume(c)
           \/ wchan_wakeone(c) \/ wchan_wakeall(c) \/ WakeNext(c) \/ interprocessor_interrupt(c)
           \/ ClearIpi(c)
  BY <1>2 DEF thread_yield, wchan_sleep, Resume, wchan_wakeone, wchan_wakeall, WakeNext, WakeFirst,
              interprocessor_interrupt, ClearIpi, clockVars, ageVars
<1>3. CASE CountNext(c) \/ TakeVictims(c) \/ GiveVictims(c) \/ Leftovers(c)
  BY <1>3 DEF CountNext, TakeVictims, GiveVictims, Leftovers, clockVars, ageVars
<1> QED BY <1>1, <1>2, <1>3 DEF CpuStep

\* The ticks that threads have waited are counted up in the final kernel, and reset.
LEMMA WaitingType ==
  ASSUME NEW c, CpuStep(c), NEW V, 0 \in V, aging => \A n \in V : n + 1 \in V,
         waited \in [Threads -> V]
  PROVE  waited' \in [Threads -> V]
<1>1. ASSUME NEW q, NEW st, NEW zs, NEW w \in [Threads -> V], Dispatch(c, q, st, zs, w)
      PROVE  waited' \in [Threads -> V]
  <2>1. waited' = w \/ waited' = [w EXCEPT ![Head(q)] = 0]
    BY <1>1 DEF Dispatch
  <2> QED BY <2>1
<1>2. ASSUME NEW q, NEW w \in [Threads -> V], SwitchReady(c, q, w)
      PROVE  waited' \in [Threads -> V]
  <2>1. waited' = w \/ Dispatch(c, Append(q, c_curthread[c]), [t_state EXCEPT ![c_curthread[c]] = "S_READY"],
                                c_zombies[c], w)
    BY <1>2 DEF SwitchReady
  <2> QED BY <1>1, <2>1
<1>3. CASE Fork(c) \/ ForkCount(c) \/ ForkReady(c) \/ Exit(c) \/ ExitCount(c)
  BY <1>3 DEF Fork, ForkCount, ForkReady, Exit, ExitCount
<1>4. CASE wchan_wakeone(c) \/ wchan_wakeall(c) \/ WakeNext(c) \/ interprocessor_interrupt(c) \/ ClearIpi(c)
  BY <1>4 DEF wchan_wakeone, wchan_wakeall, WakeNext, WakeFirst, interprocessor_interrupt, ClearIpi
<1>5. CASE CountNext(c) \/ TakeVictims(c) \/ GiveVictims(c) \/ Leftovers(c)
  <2>1. (CountNext(c) => waited' = waited) /\ (Leftovers(c) => waited' = waited)
    BY DEF CountNext, Leftovers
  <2>2. (TakeVictims(c) => waited' = waited) /\ (GiveVictims(c) => waited' = waited)
    BY DEF TakeVictims, GiveVictims
  <2> QED BY <1>5, <2>1, <2>2
<1>6. CASE WaitForCount(c) \/ wchan_sleep(c) \/ ExitSwitch(c) \/ Resume(c)
  <2>1. waited' = waited \/ \E q, st, zs : Dispatch(c, q, st, zs, waited)
    BY <1>6 DEF WaitForCount, wchan_sleep, ExitSwitch, Resume, SwitchSleep, SwitchZombie
  <2> QED BY <1>1, <2>1
<1>7. CASE thread_yield(c)
  BY <1>2, <1>7 DEF thread_yield
<1>8. CASE hardclock(c) \/ Tick(c)
  <2>1. waited' = waited \/ \E h : EndOfTick(c, h)
    BY <1>8 DEF hardclock, Tick
  <2>2. waited' = waited \/ \E q : Yield(c, q)
    BY <2>1 DEF EndOfTick
  <2>3. ASSUME NEW q, Yield(c, q) PROVE waited' \in [Threads -> V]
    <3> DEFINE w == [t \in Threads |-> IF \E i \in DOMAIN q : q[i] = t THEN waited[t] + 1 ELSE waited[t]]
    <3>1. aging => w \in [Threads -> V]
      OBVIOUS
    <3>2. waited' = waited \/ (aging /\ SwitchReady(c, q, w)) \/ SwitchReady(c, q, waited)
      BY <2>3 DEF Yield
    <3> QED BY <1>2, <3>1, <3>2
  <2> QED BY <2>2, <2>3
<1> QED BY <1>3, <1>4, <1>5, <1>6, <1>7, <1>8 DEF CpuStep

\* Only the steps of a thread that starts others, waits for them or exits change these.
LEMMA QuietSteps ==
  ASSUME NEW c, CpuStep(c), ~(Fork(c) \/ ForkCount(c) \/ ForkReady(c)),
         ~(WaitForCount(c) \/ Exit(c)),
         ~(ExitCount(c) \/ ExitSwitch(c))
  PROVE  UNCHANGED <<at, newthread, count_wchan, thread_count, tc>>
<1>1. CASE thread_yield(c) \/ wchan_sleep(c) \/ Resume(c) \/ interprocessor_interrupt(c) \/ ClearIpi(c)
  BY <1>1 DEF thread_yield, wchan_sleep, Resume, interprocessor_interrupt, ClearIpi, countVars
<1>2. CASE wchan_wakeone(c) \/ wchan_wakeall(c) \/ WakeNext(c)
  BY <1>2 DEF wchan_wakeone, wchan_wakeall, WakeNext, WakeFirst, countVars
<1>3. CASE CountNext(c) \/ TakeVictims(c) \/ GiveVictims(c) \/ Leftovers(c) \/ hardclock(c) \/ Tick(c)
  BY <1>3 DEF CountNext, TakeVictims, GiveVictims, Leftovers, hardclock, Tick, countVars
<1> QED BY <1>1, <1>2, <1>3 DEF CpuStep

\* Only thread_fork, the exit of a thread and schedule() change priorities.
LEMMA PriorityStays ==
  ASSUME NEW c, CpuStep(c), ~(Fork(c) \/ ExitSwitch(c) \/ hardclock(c) \/ Tick(c))
  PROVE  priority' = priority
<1>1. CASE ForkCount(c) \/ ForkReady(c) \/ Exit(c) \/ ExitCount(c) \/ WaitForCount(c)
  BY <1>1 DEF ForkCount, ForkReady, Exit, ExitCount, WaitForCount, ageVars
<1>2. CASE \/ thread_yield(c) \/ wchan_sleep(c) \/ Resume(c) \/ wchan_wakeone(c) \/ wchan_wakeall(c)
           \/ WakeNext(c) \/ interprocessor_interrupt(c) \/ ClearIpi(c)
  BY <1>2 DEF thread_yield, wchan_sleep, Resume, wchan_wakeone, wchan_wakeall, WakeNext, WakeFirst,
              interprocessor_interrupt, ClearIpi, ageVars
<1>3. CASE CountNext(c) \/ TakeVictims(c) \/ GiveVictims(c) \/ Leftovers(c)
  BY <1>3 DEF CountNext, TakeVictims, GiveVictims, Leftovers, ageVars
<1> QED BY <1>1, <1>2, <1>3 DEF CpuStep

\* What a call of schedule() does to the priorities.
LEMMA Ages ==
  ASSUME NEW c, NEW h, EndOfTick(c, h), priority \in [Threads -> Nat],
         ends \in [head : Int, tail : Int]
  PROVE  /\ priority' \in [Threads -> Nat] /\ ends' \in [head : Int, tail : Int]
         /\ fault' = fault \/ fault' = TRUE
<1> DEFINE p == Aged(c_runqueue[c], priority)
           e == AgedHead(ends)
<1>1. p \in [Threads -> Nat]
  BY DEF Aged
<1>2. e \in [head : Int, tail : Int]
  BY DEF AgedHead
<1> HIDE DEF p, e
<1>3. \/ UNCHANGED ageVars
      \/ priority' = p /\ ends' = e /\ (fault' = fault \/ fault' = TRUE)
  BY DEF EndOfTick, p, e
<1> QED BY <1>1, <1>2, <1>3 DEF ageVars

\* A step keeps the types of the variables that PlaceInv does not speak of.
LEMMA RestKeeps ==
  ASSUME SchedulerInv, UNCHANGED bootVars, NEW c \in Cpus, CpuStep(c), Fed(c),
         mig' \in [Cpus -> MigType]
  PROVE  RestType'
<1>0. RestType
  BY DEF SchedulerInv
<1>1. aging' \in BOOLEAN /\ zeroed' \in BOOLEAN /\ late' \subseteq Hatchers
  BY <1>0 DEF RestType, bootVars
<1>2. pc' \in [Cpus -> CpuLabels]
  <2>1. pc \in [Cpus -> CpuLabels]
    BY <1>0 DEF RestType
  <2> QED BY <2>1, RelabelsOne
<1>3. /\ ipi_line' \in [Cpus -> BOOLEAN]
      /\ mig' \in [Cpus -> [i : 0 .. NumCpus, my : Nat, total : Nat, send : Nat]]
  BY DEF Fed, MigType
<1>4. waited' \in [Threads -> Nat]
  <2>1. 0 \in Nat /\ (\A n \in Nat : n + 1 \in Nat) /\ waited \in [Threads -> Nat]
    BY <1>0 DEF RestType
  <2> QED BY <2>1, WaitingType
<1>5. c_hardclocks' \in [Cpus -> 0 .. MIGRATE_HARDCLOCKS - 1] /\ fault' \in BOOLEAN
      /\ ends' \in [head : Int, tail : Int]
  <2>1. /\ c_hardclocks \in [Cpus -> 0 .. MIGRATE_HARDCLOCKS - 1] /\ fault \in BOOLEAN
        /\ ends \in [head : Int, tail : Int] /\ priority \in [Threads -> Nat]
    BY <1>0 DEF RestType
  <2>2. CASE ~hardclock(c) /\ ~Tick(c)
    BY <2>1, <2>2, AgeStays
  <2>3. CASE hardclock(c)
    <3> DEFINE h == (c_hardclocks[c] + 1) % MIGRATE_HARDCLOCKS
    <3>1. h \in 0 .. MIGRATE_HARDCLOCKS - 1
      <4>1. c_hardclocks[c] + 1 \in Int /\ MIGRATE_HARDCLOCKS \in Nat \ {0}
        BY <2>1, SchedulerAssumption
      <4> QED BY <4>1
    <3>2. /\ c_hardclocks' = [c_hardclocks EXCEPT ![c] = h]
          /\ EndOfTick(c, h) \/ UNCHANGED ageVars
      BY <2>3 DEF hardclock
    <3> HIDE DEF h
    <3>3. c_hardclocks' \in [Cpus -> 0 .. MIGRATE_HARDCLOCKS - 1]
      BY <2>1, <3>1, <3>2
    <3> QED BY <2>1, <3>2, <3>3, Ages DEF ageVars
  <2>4. CASE Tick(c)
    <3>1. EndOfTick(c, c_hardclocks[c]) /\ c_hardclocks' = c_hardclocks
      BY <2>4 DEF Tick, clockVars
    <3> QED BY <2>1, <3>1, Ages
  <2> QED BY <2>2, <2>3, <2>4
<1>6. priority' \in [Threads -> Nat]
  <2>1. priority \in [Threads -> Nat] /\ ends \in [head : Int, tail : Int]
    BY <1>0 DEF RestType
  <2>2. CASE Fork(c)
    <3>1. PICK k \in Kids : priority' = [priority EXCEPT ![k] = 0]
      BY <2>2 DEF Fork
    <3> QED BY <2>1, <3>1
  <2>3. CASE ExitSwitch(c)
    <3>1. priority' = [priority EXCEPT ![c_curthread[c]] = 0]
      BY <2>3 DEF ExitSwitch
    <3> QED BY <2>1, <3>1
  <2>4. CASE hardclock(c) \/ Tick(c)
    <3>1. (\E h : EndOfTick(c, h)) \/ UNCHANGED ageVars
      BY <2>4 DEF hardclock, Tick
    <3> QED BY <2>1, <3>1, Ages DEF ageVars
  <2>5. CASE ~(Fork(c) \/ ExitSwitch(c) \/ hardclock(c) \/ Tick(c))
    <3>1. priority' = priority
      BY <2>5, PriorityStays
    <3> QED BY <2>1, <3>1
  <2> QED BY <2>2, <2>3, <2>4, <2>5
<1>7. /\ at' \in [Threads -> ThreadLabels]
      /\ thread_count' \in 0 .. UINT - 1 /\ tc' \in 0 .. UINT - 1 \cup {NULL}
  <2>1. /\ at \in [Threads -> ThreadLabels]
        /\ thread_count \in 0 .. UINT - 1 /\ tc \in 0 .. UINT - 1 \cup {NULL}
    BY <1>0 DEF RestType
  <2>2. CASE Fork(c)
    <3>1. /\ at' = [at EXCEPT ![c_curthread[c]] = "fork"] /\ thread_count' = thread_count
          /\ tc' = tc \/ tc' = thread_count
      BY <2>2 DEF Fork, ReadCount, Goto
    <3> QED BY <2>1, <3>1 DEF ThreadLabels
  <2>3. CASE ForkCount(c) \/ ExitCount(c)
    <3>1. /\ \E l \in {"born", "gone"} : at' = [at EXCEPT ![c_curthread[c]] = l]
          /\ thread_count' = (thread_count + 1) % UINT \/ thread_count' = (thread_count - 1) % UINT
          /\ tc' = tc
      BY <2>3 DEF ForkCount, ExitCount, Goto, Down
    <3>2. UINT \in Nat \ {0}
      <4>1. Cardinality(Kids) \in Nat
        BY SchedulerAssumption, FS_CardinalityType
      <4> QED BY <4>1, SchedulerAssumption
    <3>3. thread_count' \in 0 .. UINT - 1
      BY <2>1, <3>1, <3>2
    <3> QED BY <2>1, <3>1, <3>3 DEF ThreadLabels
  <2>4. CASE ForkReady(c) \/ WaitForCount(c) \/ Exit(c) \/ ExitSwitch(c)
    <3>1. /\ at' = at \/ \E l \in ThreadLabels : at' = [at EXCEPT ![c_curthread[c]] = l]
          /\ thread_count' = thread_count /\ (tc' = tc \/ tc' = NULL)
      BY <2>4 DEF ForkReady, WaitForCount, Exit, ExitSwitch, Goto, ThreadLabels, countVars
    <3> QED BY <2>1, <3>1
  <2>5. CASE ~(Fork(c) \/ ForkCount(c) \/ ExitCount(c) \/ ForkReady(c) \/ WaitForCount(c) \/ Exit(c) \/ ExitSwitch(c))
    BY <2>1, <2>5, QuietSteps
  <2> QED BY <2>2, <2>3, <2>4, <2>5
<1> QED BY <1>1, <1>2, <1>3, <1>4, <1>5, <1>6, <1>7 DEF RestType

\* A step keeps AtOK.
LEMMA AtKeeps ==
  ASSUME SchedulerInv, NEW c \in Cpus, CpuStep(c)
  PROVE  AtOK'
<1> DEFINE u == c_curthread[c]
<1>0. /\ at \in [Threads -> ThreadLabels] /\ newthread \in [Threads -> Kids \cup {NULL}]
      /\ u \in Threads /\ AtOK
      /\ NULL \notin Kids
  BY ActorFacts, ThreadFacts DEF SchedulerInv, RestType, PlaceInv, World, WorldType
<1>1. ASSUME \/ at' = at
             \/ /\ at[u] \notin {"fork", "born"}
                /\ \E l \in {"user"} \cup IF u = Menu THEN {} ELSE {"exit", "gone"} :
                       at' = [at EXCEPT ![u] = l],
             newthread' = newthread
      PROVE  AtOK'
  BY <1>0, <1>1 DEF AtOK
<1>2. CASE Fork(c)
  <2>1. PICK k \in Kids : newthread' = [newthread EXCEPT ![u] = k]
    BY <1>2 DEF Fork
  <2>2. at' = [at EXCEPT ![u] = "fork"]
    BY <1>2 DEF Fork, Goto
  <2> QED BY <1>0, <2>1, <2>2 DEF AtOK
<1>3. CASE ForkCount(c)
  <2>1. at[u] = "fork" /\ at' = [at EXCEPT ![u] = "born"] /\ newthread' = newthread
    BY <1>3 DEF ForkCount, Running, Goto
  <2> QED BY <1>0, <2>1 DEF AtOK
<1>4. CASE ForkReady(c)
  <2>1. /\ newthread' = [newthread EXCEPT ![u] = NULL]
        /\ \E l \in {"user", "wait"} : at' = [at EXCEPT ![u] = l] /\ (l = "wait" => u = Menu)
    BY <1>4 DEF ForkReady, Goto
  <2> QED BY <1>0, <2>1 DEF AtOK
<1>5. CASE WaitForCount(c)
  BY <1>1, <1>5 DEF WaitForCount, Running, Goto
<1>6. CASE Exit(c)
  BY <1>1, <1>6 DEF Exit, Running, Goto
<1>7. CASE ExitCount(c)
  <2>1. at[u] = "exit" /\ at' = [at EXCEPT ![u] = "gone"] /\ newthread' = newthread
    BY <1>7 DEF ExitCount, Running, Goto
  <2> QED BY <1>0, <1>1, <2>1 DEF AtOK
<1>8. CASE ExitSwitch(c)
  BY <1>1, <1>8 DEF ExitSwitch, Running, Goto
<1>9. CASE ~(Fork(c) \/ ForkCount(c) \/ ExitCount(c) \/ ForkReady(c) \/ WaitForCount(c) \/ Exit(c) \/ ExitSwitch(c))
  BY <1>1, <1>9, QuietSteps
<1> QED BY <1>2, <1>3, <1>4, <1>5, <1>6, <1>7, <1>8, <1>9

\* The menu does not sleep while it runs, and only the menu changes tc.
LEMMA CountKeeps ==
  ASSUME SchedulerInv, NEW c \in Cpus, CpuStep(c)
  PROVE  NoMissedCount'
<1> DEFINE u == c_curthread[c]
<1>0. NoMissedCount /\ thread_count \in Nat /\ NULL \notin Nat /\ AtOK
  <2>1. thread_count \in 0 .. UINT - 1
    BY DEF SchedulerInv, RestType
  <2> QED BY <2>1, SchedulerAssumption DEF SchedulerInv
<1>1. CASE Fork(c)
  <2>1. UNCHANGED <<count_wchan, thread_count>> /\ (tc' = tc \/ u = Menu) /\ pc[c] = "run"
    BY <1>1 DEF Fork, ReadCount, Busy, Running
  <2>2. t_state[u] = "S_RUN"
    BY <2>1, ActorFacts
  <2>3. u = Menu => count_wchan = <<>>
    <3>1. ChannelOK(wc_threads, count_wchan, t_state) /\ count_wchan \in Seq(Threads)
      BY DEF SchedulerInv, PlaceInv, World, WorldType
    <3>2. count_wchan # <<>> => In(Head(count_wchan), count_wchan) /\ Head(count_wchan) \in Threads
      BY <3>1, InHead
    <3> QED BY <2>2, <3>1, <3>2 DEF ChannelOK
  <2> QED BY <1>0, <2>1, <2>3 DEF NoMissedCount
<1>2. CASE ForkCount(c) \/ ExitCount(c)
  BY <1>2 DEF ForkCount, ExitCount, WakeCounter, NoMissedCount
<1>3. CASE WaitForCount(c)
  BY <1>0, <1>3 DEF WaitForCount, NoMissedCount
<1>4. CASE ForkReady(c) \/ Exit(c) \/ ExitSwitch(c)
  BY <1>0, <1>4 DEF ForkReady, Exit, ExitSwitch, countVars, NoMissedCount
<1>5. CASE ~(Fork(c) \/ ForkCount(c) \/ ExitCount(c) \/ ForkReady(c) \/ WaitForCount(c) \/ Exit(c) \/ ExitSwitch(c))
  BY <1>0, <1>5, QuietSteps DEF NoMissedCount
<1> QED BY <1>1, <1>2, <1>3, <1>4, <1>5

\* A step of a cpu keeps the invariant.
LEMMA CpuStepKeeps ==
  ASSUME SchedulerInv, UNCHANGED bootVars, NEW c \in Cpus, CpuStep(c)
  PROVE  SchedulerInv'
<1>0. mig \in [Cpus -> MigType]
  BY DEF SchedulerInv, RestType, MigType
<1>1. PlaceInv' /\ Calm(c) /\ mig' \in [Cpus -> MigType]
  <2>1. CASE Fork(c) \/ ForkCount(c) \/ ForkReady(c) \/ ExitCount(c)
    <3>1. mig' = mig
      BY <2>1 DEF Fork, ForkCount, ForkReady, ExitCount, clockVars
    <3> QED BY <1>0, <2>1, <3>1, PlaceFork, CalmRun
  <2>2. CASE Exit(c) \/ (WaitForCount(c) /\ thread_count = tc)
    <3>1. mig' = mig
      BY <2>2 DEF Exit, WaitForCount, clockVars
    <3> QED BY <1>0, <2>2, <3>1, PlaceStill, CalmRun
  <2>3. CASE /\ WaitForCount(c) \/ ExitSwitch(c) \/ thread_yield(c) \/ wchan_sleep(c) \/ Resume(c)
             /\ ~(WaitForCount(c) /\ thread_count = tc)
    <3>1. mig' = mig /\ UNCHANGED <<list, ipi_line>>
      BY <2>3 DEF WaitForCount, ExitSwitch, thread_yield, wchan_sleep, Resume, clockVars
    <3>2. PlaceInv' /\ c \in Online /\ Switched(c, wc_threads', count_wchan')
      BY <2>3, PlaceSwitch
    <3>3. Calm(c)
      BY <3>1, <3>2, CalmSwitch
    <3> QED BY <1>0, <3>1, <3>2, <3>3
  <2>4. CASE interprocessor_interrupt(c) \/ ClearIpi(c)
    <3>1. mig' = mig
      BY <2>4 DEF interprocessor_interrupt, ClearIpi, clockVars
    <3> QED BY <1>0, <2>4, <3>1, PlaceStill, CalmWake
  <2>5. CASE wchan_wakeone(c) \/ wchan_wakeall(c) \/ WakeNext(c)
    <3>1. mig' = mig
      BY <2>5 DEF wchan_wakeone, wchan_wakeall, WakeNext, WakeFirst, clockVars
    <3> QED BY <1>0, <2>5, <3>1, PlaceWake, CalmWake
  <2>6. CASE TakeVictims(c) \/ GiveVictims(c) \/ Leftovers(c)
    BY <2>6, PlaceMigrate, CalmMigrate
  <2>7. CASE hardclock(c) \/ Tick(c) \/ CountNext(c)
    BY <2>7, CalmClock
  <2> QED BY <2>1, <2>2, <2>3, <2>4, <2>5, <2>6, <2>7 DEF CpuStep
<1>2. \A d \in Cpus : PcOK(d)' /\ MigOK(d)' /\ CallOK(d)'
  <2>1. Others(c) /\ PcOK(c)' /\ MigOK(c)' /\ CallOK(c)'
    BY <1>1 DEF Calm
  <2> QED BY <1>1, <2>1, OthersKeep
<1>3. RestType'
  BY <1>1, RestKeeps DEF Calm, Others
<1>4. AtOK' /\ NoMissedCount'
  BY AtKeeps, CountKeeps
<1> QED BY <1>1, <1>2, <1>3, <1>4 DEF SchedulerInv

\* The invariant holds when the machine has booted.
LEMMA SchedulerInit == Init => SchedulerInv
<1> SUFFICES ASSUME Init PROVE SchedulerInv
  OBVIOUS
<1> USE ThreadFacts
<1>1. /\ aging \in BOOLEAN /\ late \subseteq Hatchers /\ Hatchers \subseteq Cpus
      /\ Online \subseteq Cpus /\ Menu \in Online /\ (aging => late = {})
  <2>1. aging \in BOOLEAN /\ late \subseteq Hatchers /\ (aging => late = {}) /\ Hatchers \subseteq Cpus
    BY DEF Init, Hatchers
  <2> QED BY <2>1, OnlineFacts
<1>2. late \subseteq Online
  BY <1>1 DEF Online
<1>3. pc = [c \in Cpus |-> IF c \notin Online THEN "off"
                           ELSE IF c \in {Menu} \cup late THEN "run" ELSE "idle"]
  BY DEF Init
<1>4. /\ pc \in [Cpus -> CpuLabels]
      /\ \A c \in Cpus : /\ pc[c] \in {"off", "run", "idle"}
                         /\ pc[c] = "off" <=> c \notin Online
  BY <1>3 DEF CpuLabels
<1>5. Waking = {} /\ Giving = {}
  BY <1>4 DEF Waking, Giving
<1>6. /\ c_curthread = [c \in Cpus |-> c] /\ c_isidle = [c \in Cpus |-> pc[c] = "idle"]
      /\ c_runqueue = [c \in Cpus |-> <<>>] /\ list = [c \in Cpus |-> <<>>]
      /\ c_zombies = [c \in Cpus |-> IF pc[c] = "idle" THEN {c} ELSE {}]
      /\ wc_threads = <<>> /\ count_wchan = <<>> /\ newthread = [t \in Threads |-> NULL]
      /\ t_state = [t \in Threads |->
                    IF t \in Kids \/ t \notin Online THEN "S_FREE"
                    ELSE IF pc[t] = "run" THEN "S_RUN" ELSE "S_ZOMBIE"]
      /\ t_cpu = [t \in Threads |-> IF t \in Cpus THEN t ELSE Menu]
  BY DEF Init, cpu_create
<1>7. /\ \A t \in Threads : /\ t \in Cpus => t_cpu[t] = t
                            /\ t \notin Cpus => t_cpu[t] = Menu /\ t_state[t] = "S_FREE"
                            /\ t_state[t] = "S_RUN" <=> t \in Online /\ pc[t] = "run"
                            /\ t_state[t] = "S_ZOMBIE" <=> t \in Online /\ pc[t] = "idle"
                            /\ t_state[t] \in {"S_FREE", "S_RUN", "S_ZOMBIE"}
      /\ \A c \in Cpus : c_curthread[c] = c /\ (c_isidle[c] <=> pc[c] = "idle")
      /\ \A c \in Cpus : \A t \in c_zombies[c] : t = c /\ pc[c] = "idle"
      /\ \A c \in Cpus : pc[c] = "idle" => c \in c_zombies[c]
  BY <1>1, <1>4, <1>6 DEF Threads
<1>8. \A t : ~In(t, <<>>)
  BY DEF In
<1>9. PlaceInv
  <2>1. WorldType(Online, c_curthread, c_isidle, c_runqueue, c_zombies, list, {}, {},
                  wc_threads, count_wchan, newthread, t_state, t_cpu)
    <3>1. <<>> \in Seq(Threads)
      OBVIOUS
    <3>2. /\ c_curthread \in [Cpus -> Threads] /\ c_isidle \in [Cpus -> BOOLEAN]
          /\ c_runqueue \in [Cpus -> Seq(Threads)] /\ list \in [Cpus -> Seq(Threads)]
          /\ c_zombies \in [Cpus -> SUBSET Threads] /\ newthread \in [Threads -> Kids \cup {NULL}]
          /\ t_cpu \in [Threads -> Cpus]
      BY <1>6, <3>1
    <3>3. t_state \in [Threads -> States]
      BY <1>6 DEF States
    <3> QED BY <1>1, <1>6, <3>1, <3>2, <3>3 DEF WorldType
  <2>2. \A c \in Cpus : c_runqueue[c] = <<>> /\ list[c] = <<>>
    BY <1>6
  <2>3. QueueOK(c_runqueue, newthread, t_state, t_cpu)
    BY <1>8, <2>2, OnceEmpty DEF QueueOK
  <2>4. ListOK(c_runqueue, list, {}, {}, wc_threads, count_wchan, newthread, t_state, t_cpu)
    BY <1>8, <2>2, OnceEmpty DEF ListOK
  <2>5. ChannelOK(wc_threads, count_wchan, t_state)
    BY <1>6, <1>8, OnceEmpty DEF ChannelOK
  <2>6. ZombieOK(c_zombies, t_state, t_cpu)
    BY <1>4, <1>7 DEF ZombieOK
  <2>7. NewbornOK(newthread, t_state)
    BY <1>6 DEF NewbornOK
  <2>8. CurrentOK(Online, c_curthread, c_isidle, t_state, t_cpu)
    <3>1. \A c \in Online : /\ t_cpu[c_curthread[c]] = c /\ t_state[c_curthread[c]] # "S_FREE"
                            /\ t_state[c_curthread[c]] = "S_RUN" <=> ~c_isidle[c]
      <4> SUFFICES ASSUME NEW c \in Online
                   PROVE  /\ t_cpu[c_curthread[c]] = c /\ t_state[c_curthread[c]] # "S_FREE"
                          /\ t_state[c_curthread[c]] = "S_RUN" <=> ~c_isidle[c]
        OBVIOUS
      <4>1. c \in Cpus /\ c \in Threads /\ pc[c] \in {"run", "idle"} /\ c_curthread[c] = c
        BY <1>1, <1>4, <1>7
      <4>2. t_cpu[c] = c /\ (t_state[c] = "S_RUN" <=> pc[c] = "run") /\ (t_state[c] = "S_ZOMBIE" <=> pc[c] = "idle")
        BY <1>7, <4>1
      <4> QED BY <1>7, <4>1, <4>2
    <3>2. \A t \in Threads : t_state[t] # "S_FREE" => t \in Online /\ t_cpu[t] = t /\ c_curthread[t] = t
      BY <1>1, <1>7
    <3> QED BY <3>1, <3>2 DEF CurrentOK
  <2>9. CoverOK(c_runqueue, c_zombies, list, wc_threads, count_wchan, newthread, t_state, t_cpu)
    BY <1>1, <1>7 DEF CoverOK
  <2> QED BY <1>5, <2>1, <2>3, <2>4, <2>5, <2>6, <2>7, <2>8, <2>9 DEF PlaceInv, World
<1>10. RestType
  <2>1. aging \in BOOLEAN /\ zeroed \in BOOLEAN /\ fault \in BOOLEAN
    BY DEF Init
  <2>2. c_hardclocks \in [Cpus -> 0 .. MIGRATE_HARDCLOCKS - 1]
    BY SchedulerAssumption DEF Init, cpu_create
  <2>3. ipi_line \in [Cpus -> BOOLEAN] /\ at \in [Threads -> ThreadLabels]
    BY DEF Init, cpu_create, ThreadLabels
  <2>4. mig \in [Cpus -> [i : 0 .. NumCpus, my : Nat, total : Nat, send : Nat]]
    <3>1. Idle0 \in [i : 0 .. NumCpus, my : Nat, total : Nat, send : Nat]
      BY SchedulerAssumption DEF Idle0
    <3> QED BY <3>1 DEF Init
  <2>5. thread_count \in 0 .. UINT - 1 /\ tc \in 0 .. UINT - 1 \cup {NULL}
    <3>1. Cardinality(Kids) \in Nat
      BY SchedulerAssumption, FS_CardinalityType
    <3> QED BY <3>1, SchedulerAssumption DEF Init
  <2>6. priority \in [Threads -> Nat] /\ waited \in [Threads -> Nat]
    BY DEF Init
  <2>7. ends \in [head : Int, tail : Int]
    <3>1. ends \in BootEnds(aging)
      BY DEF Init
    <3>2. CASE aging
      <4>1. ends \in [head : EndPriorities, tail : EndPriorities] /\ EndPriorities \subseteq Int
        BY <3>1, <3>2, SchedulerAssumption DEF BootEnds
      <4> QED BY <4>1
    <3>3. CASE ~aging
      <4>1. ends = [head |-> 0, tail |-> 0]
        BY <3>1, <3>3 DEF BootEnds
      <4> QED BY <4>1
    <3> QED BY <3>2, <3>3
  <2> QED BY <1>1, <1>4, <2>1, <2>2, <2>3, <2>4, <2>5, <2>6, <2>7 DEF RestType
<1>11. \A c \in Cpus : PcOK(c) /\ MigOK(c) /\ CallOK(c)
  BY <1>4, <1>6, <1>7 DEF PcOK, MigOK, CallOK
<1>12. AtOK /\ NoMissedCount
  BY DEF Init, AtOK, NoMissedCount
<1> QED BY <1>9, <1>10, <1>11, <1>12 DEF SchedulerInv

\* Every step keeps the invariant.
LEMMA SchedulerStep == SchedulerInv /\ [Next]_vars => SchedulerInv'
<1> SUFFICES ASSUME SchedulerInv, [Next]_vars PROVE SchedulerInv'
  OBVIOUS
<1>1. CASE Next
  <2>1. PICK c \in Cpus : CpuStep(c)
    BY <1>1 DEF Next
  <2>2. UNCHANGED bootVars
    BY <1>1 DEF Next
  <2> QED BY <2>1, <2>2, CpuStepKeeps
<1>2. CASE UNCHANGED vars
  <2>1. /\ UNCHANGED bootVars /\ UNCHANGED cpuVars /\ UNCHANGED clockVars /\ UNCHANGED countVars
        /\ UNCHANGED ageVars
        /\ UNCHANGED <<ipi_line, list, t_state, t_cpu, at, newthread, wc_threads, waited>>
    BY <1>2 DEF vars
  <2>2. /\ UNCHANGED <<aging, late, zeroed, pc, c_curthread, c_isidle, c_runqueue, c_zombies, c_hardclocks, mig>>
        /\ UNCHANGED <<count_wchan, thread_count, tc, priority, ends, fault>>
    BY <2>1 DEF bootVars, cpuVars, clockVars, countVars, ageVars
  <2>3. Online' = Online /\ Cardinality(Online)' = Cardinality(Online)
    BY <2>1, OnlineStays
  <2>4. RestType'
    BY <2>1, <2>2 DEF SchedulerInv, RestType
  <2>5. PlaceInv'
    <3>1. Waking' = Waking /\ Giving' = Giving
      BY <2>2 DEF Waking, Giving
    <3>2. PlaceInv
      BY DEF SchedulerInv
    <3> QED BY <2>1, <2>2, <2>3, <3>1, <3>2, Zenon DEF PlaceInv
  <2>6. \A c \in Cpus : PcOK(c)' /\ MigOK(c)' /\ CallOK(c)'
    BY <2>1, <2>2, <2>3 DEF SchedulerInv, PcOK, MigOK, CallOK
  <2>7. AtOK' /\ NoMissedCount'
    BY <2>1, <2>2 DEF SchedulerInv, AtOK, NoMissedCount
  <2> QED BY <2>4, <2>5, <2>6, <2>7 DEF SchedulerInv
<1> QED BY <1>1, <1>2

\* What the kernel keeps of its threads, cpus and counts in every reachable state: the
\* parts above, on which the theorems below rest.
THEOREM SchedulerInvariant == Spec => []SchedulerInv
BY SchedulerInit, SchedulerStep, PTL DEF Spec

-----------------------------------------------------------------------------
(***************************************************************************)
(* What follows.                                                           *)
(***************************************************************************)
\* The variables have their types.
THEOREM TypeCorrect == Spec => []TypeOK
<1>1. SchedulerInv => TypeOK
  BY DEF SchedulerInv, RestType, PlaceInv, World, WorldType, TypeOK
<1> QED BY <1>1, SchedulerInvariant, PTL

\* thread_consider_migration and the wakeups agree with t_cpu on where a thread is.
THEOREM Homes == Spec => []HomeCpu
<1>1. SchedulerInv => HomeCpu
  <2> SUFFICES ASSUME SchedulerInv, NEW c \in Online
               PROVE  t_cpu[c_curthread[c]] = c /\ \A i \in DOMAIN c_runqueue[c] : t_cpu[c_runqueue[c][i]] = c
    BY DEF HomeCpu
  <2>1. /\ CurrentOK(Online, c_curthread, c_isidle, t_state, t_cpu)
        /\ QueueOK(c_runqueue, newthread, t_state, t_cpu)
        /\ c_runqueue \in [Cpus -> Seq(Threads)] /\ c \in Cpus
    BY DEF SchedulerInv, PlaceInv, World, WorldType
  <2>2. ASSUME NEW i \in DOMAIN c_runqueue[c] PROVE t_cpu[c_runqueue[c][i]] = c
    <3>1. c_runqueue[c][i] \in Threads /\ In(c_runqueue[c][i], c_runqueue[c])
      BY <2>1 DEF In
    <3> QED BY <2>1, <3>1 DEF QueueOK
  <2> QED BY <2>1, <2>2 DEF CurrentOK
<1> QED BY <1>1, SchedulerInvariant, PTL

\* ipi_send has been called for every idle cpu that has work.
THEOREM IdleCalled == Spec => []IdleIsCalled
<1>1. SchedulerInv => IdleIsCalled
  <2> SUFFICES ASSUME SchedulerInv, NEW c \in Online PROVE pc[c] = "idle" /\ c_runqueue[c] # <<>> => ipi_line[c]
    BY DEF IdleIsCalled
  <2>1. c \in Cpus
    BY DEF SchedulerInv, PlaceInv, World, WorldType
  <2> QED BY <2>1 DEF SchedulerInv, CallOK
<1> QED BY <1>1, SchedulerInvariant, PTL

\* exorcise frees no thread whose stack is in use.
THEOREM StacksKept == Spec => []StacksAreKept
<1>1. SchedulerInv => StacksAreKept
  BY DEF SchedulerInv, PlaceInv, World, CurrentOK, StacksAreKept
<1> QED BY <1>1, SchedulerInvariant, PTL

\* The threads that thread_consider_migration removes from lists are on them.
THEOREM Victims == Spec => []VictimsExist
<1>1. SchedulerInv => VictimsExist
  <2> SUFFICES ASSUME SchedulerInv, NEW c \in Online
               PROVE  /\ pc[c] = "take" => mig[c].send <= Len(c_runqueue[c])
                      /\ pc[c] = "give" => mig[c].send <= Len(list[c])
    BY DEF VictimsExist
  <2>1. /\ c \in Cpus /\ c_runqueue \in [Cpus -> Seq(Threads)] /\ list \in [Cpus -> Seq(Threads)]
    BY DEF SchedulerInv, PlaceInv, World, WorldType
  <2>2. MigOK(c) /\ Len(c_runqueue[c]) \in Nat /\ Len(list[c]) \in Nat
    BY <2>1 DEF SchedulerInv
  <2> QED BY <2>2 DEF MigOK
<1> QED BY <1>1, SchedulerInvariant, PTL

\* thread_wait_for_count misses no change of thread_count.
THEOREM NoCountMissed == Spec => []NoMissedCount
<1>1. SchedulerInv => NoMissedCount
  BY DEF SchedulerInv
<1> QED BY <1>1, SchedulerInvariant, PTL

(***************************************************************************)
(* The places of a thread.                                                 *)
(***************************************************************************)
LEMMA PlaceKinds ==
  ASSUME NEW t, NEW x
  PROVE  x \in Places(t) <=>
           \/ \E c \in Cpus : \E i \in DOMAIN c_runqueue[c] : c_runqueue[c][i] = t /\ x = <<"c_runqueue", c, i>>
           \/ \E c \in Cpus : \E i \in DOMAIN list[c] : list[c][i] = t /\ x = <<"list", c, i>>
           \/ \E i \in DOMAIN wc_threads : wc_threads[i] = t /\ x = <<"wc_threads", NULL, i>>
           \/ \E i \in DOMAIN count_wchan : count_wchan[i] = t /\ x = <<"count_wchan", NULL, i>>
           \/ \E c \in Cpus : t \in c_zombies[c] /\ x = <<"c_zombies", c, NULL>>
           \/ \E u \in Threads : newthread[u] = t /\ x = <<"newthread", u, NULL>>
<1> DEFINE A == Linked("c_runqueue", c_runqueue, t)
           B == Linked("list", list, t)
           C == {"wc_threads"} \X {NULL} \X Spots(wc_threads, t)
           D == {"count_wchan"} \X {NULL} \X Spots(count_wchan, t)
           E == {"c_zombies"} \X {c \in Cpus : t \in c_zombies[c]} \X {NULL}
           F == {"newthread"} \X {u \in Threads : newthread[u] = t} \X {NULL}
<1>1. x \in A <=>
        \E c \in Cpus : \E i \in DOMAIN c_runqueue[c] : c_runqueue[c][i] = t /\ x = <<"c_runqueue", c, i>>
  BY DEF Linked, Spots
<1>2. x \in B <=>
        \E c \in Cpus : \E i \in DOMAIN list[c] : list[c][i] = t /\ x = <<"list", c, i>>
  BY DEF Linked, Spots
<1>3. x \in C <=>
        \E i \in DOMAIN wc_threads : wc_threads[i] = t /\ x = <<"wc_threads", NULL, i>>
  BY DEF Spots
<1>4. x \in D <=>
        \E i \in DOMAIN count_wchan : count_wchan[i] = t /\ x = <<"count_wchan", NULL, i>>
  BY DEF Spots
<1>5. x \in E <=>
        \E c \in Cpus : t \in c_zombies[c] /\ x = <<"c_zombies", c, NULL>>
  OBVIOUS
<1>6. x \in F <=>
        \E u \in Threads : newthread[u] = t /\ x = <<"newthread", u, NULL>>
  OBVIOUS
<1>7. Places(t) = A \cup B \cup C \cup D \cup E \cup F
  BY Zenon DEF Places
<1> HIDE DEF A, B, C, D, E, F
<1>8. x \in Places(t) <=> x \in A \/ x \in B \/ x \in C \/ x \in D \/ x \in E \/ x \in F
  BY <1>7
<1> QED BY <1>1, <1>2, <1>3, <1>4, <1>5, <1>6, <1>8, Zenon

\* No two lists hold a thread, and a list holds it once.
LEMMA OnePlace ==
  ASSUME SchedulerInv, NEW t \in Threads, NEW x \in Places(t), NEW y \in Places(t)
  PROVE  x = y
<1>1. /\ QueueOK(c_runqueue, newthread, t_state, t_cpu)
      /\ ChannelOK(wc_threads, count_wchan, t_state)
      /\ ListOK(c_runqueue, list, Waking, Giving, wc_threads, count_wchan, newthread, t_state, t_cpu)
      /\ ZombieOK(c_zombies, t_state, t_cpu) /\ NewbornOK(newthread, t_state)
  BY DEF SchedulerInv, PlaceInv, World
<1> DEFINE Q(z) == \E c \in Cpus : \E i \in DOMAIN c_runqueue[c] : c_runqueue[c][i] = t /\ z = <<"c_runqueue", c, i>>
           L(z) == \E c \in Cpus : \E i \in DOMAIN list[c] : list[c][i] = t /\ z = <<"list", c, i>>
           S(z) == \E i \in DOMAIN wc_threads : wc_threads[i] = t /\ z = <<"wc_threads", NULL, i>>
           C(z) == \E i \in DOMAIN count_wchan : count_wchan[i] = t /\ z = <<"count_wchan", NULL, i>>
           Z(z) == \E c \in Cpus : t \in c_zombies[c] /\ z = <<"c_zombies", c, NULL>>
           N(z) == \E u \in Threads : newthread[u] = t /\ z = <<"newthread", u, NULL>>
<1>2. ASSUME NEW z \in Places(t) PROVE Q(z) \/ L(z) \/ S(z) \/ C(z) \/ Z(z) \/ N(z)
  BY PlaceKinds
<1>3. /\ \A z : Q(z) => \E c \in Cpus : In(t, c_runqueue[c])
      /\ \A z : L(z) => \E c \in Cpus : In(t, list[c])
      /\ \A z : S(z) => In(t, wc_threads)
      /\ \A z : C(z) => In(t, count_wchan)
      /\ \A z : Z(z) => \E c \in Cpus : t \in c_zombies[c]
      /\ \A z : N(z) => \E u \in Threads : newthread[u] = t
  BY DEF In
<1>4. t # NULL /\ \A z : ~In(z, <<>>)
  BY ThreadFacts DEF In
<1>5. \A c \in Cpus : In(t, c_runqueue[c]) => t_state[t] = "S_READY" /\ t_cpu[t] = c /\ \A u \in Threads : newthread[u] # t
  BY <1>1 DEF QueueOK
<1>6. \A c \in Cpus : In(t, list[c]) =>
        \/ /\ c \in Waking /\ t_state[t] = "S_SLEEP" /\ ~In(t, wc_threads) /\ ~In(t, count_wchan)
        \/ /\ t_state[t] = "S_READY" /\ t_cpu[t] = c /\ ~In(t, c_runqueue[c]) /\ \A u \in Threads : newthread[u] # t
  BY <1>1, <1>4 DEF ListOK
<1>7. /\ In(t, wc_threads) => t_state[t] = "S_SLEEP" /\ ~In(t, count_wchan)
      /\ In(t, count_wchan) => t_state[t] = "S_SLEEP"
      /\ \A c \in Cpus : t \in c_zombies[c] => t_state[t] = "S_ZOMBIE" /\ t_cpu[t] = c
      /\ \A u \in Threads : newthread[u] = t => t_state[t] = "S_READY"
      /\ \A u, v \in Threads : newthread[u] = t /\ newthread[v] = t => u = v
      /\ \A c, d \in Waking : c = d
  BY <1>1, <1>4 DEF ChannelOK, ZombieOK, NewbornOK, ListOK
<1>8. /\ Q(x) => Q(y)
      /\ L(x) => L(y)
      /\ S(x) => S(y)
      /\ C(x) => C(y)
      /\ Z(x) => Z(y)
      /\ N(x) => N(y)
  <2> DEFINE q == \E c \in Cpus : In(t, c_runqueue[c])
             l == \E c \in Cpus : In(t, list[c])
             s == In(t, wc_threads)
             k == In(t, count_wchan)
             z == \E c \in Cpus : t \in c_zombies[c]
             n == \E u \in Threads : newthread[u] = t
  <2>1. /\ ~(q /\ l) /\ ~(q /\ s) /\ ~(q /\ k) /\ ~(q /\ z) /\ ~(q /\ n) /\ ~(l /\ s) /\ ~(l /\ k)
        /\ ~(l /\ z) /\ ~(l /\ n)
        /\ ~(s /\ k) /\ ~(s /\ z) /\ ~(s /\ n) /\ ~(k /\ z) /\ ~(k /\ n) /\ ~(z /\ n)
    BY <1>5, <1>6, <1>7
  <2> HIDE DEF q, l, s, k, z, n
  <2>2. /\ Q(x) \/ Q(y) => q
        /\ L(x) \/ L(y) => l
        /\ S(x) \/ S(y) => s
        /\ C(x) \/ C(y) => k
        /\ Z(x) \/ Z(y) => z
        /\ N(x) \/ N(y) => n
    BY <1>3 DEF q, l, s, k, z, n
  <2>3. (Q(x) \/ L(x) \/ S(x) \/ C(x) \/ Z(x) \/ N(x)) /\ (Q(y) \/ L(y) \/ S(y) \/ C(y) \/ Z(y) \/ N(y))
    BY <1>2
  <2> HIDE DEF Q, L, S, C, Z, N
  <2> QED BY <2>1, <2>2, <2>3
<1>9. CASE Q(x) /\ Q(y)
  <2>1. PICK c \in Cpus : \E i \in DOMAIN c_runqueue[c] : c_runqueue[c][i] = t /\ x = <<"c_runqueue", c, i>>
    BY <1>9
  <2>2. PICK i \in DOMAIN c_runqueue[c] : c_runqueue[c][i] = t /\ x = <<"c_runqueue", c, i>>
    BY <2>1
  <2>3. PICK d \in Cpus : \E j \in DOMAIN c_runqueue[d] : c_runqueue[d][j] = t /\ y = <<"c_runqueue", d, j>>
    BY <1>9
  <2>4. PICK j \in DOMAIN c_runqueue[d] : c_runqueue[d][j] = t /\ y = <<"c_runqueue", d, j>>
    BY <2>3
  <2>5. c = d
    <3>1. In(t, c_runqueue[c]) /\ In(t, c_runqueue[d])
      BY <2>2, <2>4 DEF In
    <3> QED BY <1>5, <3>1
  <2>6. Once(c_runqueue[c])
    BY <1>1 DEF QueueOK
  <2>7. i = j
    BY <2>2, <2>4, <2>5, <2>6 DEF Once
  <2> QED BY <2>2, <2>4, <2>5, <2>7
<1>10. CASE L(x) /\ L(y)
  <2>1. PICK c \in Cpus : \E i \in DOMAIN list[c] : list[c][i] = t /\ x = <<"list", c, i>>
    BY <1>10
  <2>2. PICK i \in DOMAIN list[c] : list[c][i] = t /\ x = <<"list", c, i>>
    BY <2>1
  <2>3. PICK d \in Cpus : \E j \in DOMAIN list[d] : list[d][j] = t /\ y = <<"list", d, j>>
    BY <1>10
  <2>4. PICK j \in DOMAIN list[d] : list[d][j] = t /\ y = <<"list", d, j>>
    BY <2>3
  <2>5. c = d
    <3>1. In(t, list[c]) /\ In(t, list[d])
      BY <2>2, <2>4 DEF In
    <3> QED BY <1>6, <1>7, <3>1
  <2>6. Once(list[c])
    BY <1>1 DEF ListOK
  <2>7. i = j
    BY <2>2, <2>4, <2>5, <2>6 DEF Once
  <2> QED BY <2>2, <2>4, <2>5, <2>7
<1>11. CASE S(x) /\ S(y)
  BY <1>1, <1>11 DEF ChannelOK, Once
<1>12. CASE C(x) /\ C(y)
  BY <1>1, <1>12 DEF ChannelOK, Once
<1>13. CASE Z(x) /\ Z(y)
  <2>1. PICK c \in Cpus : t \in c_zombies[c] /\ x = <<"c_zombies", c, NULL>>
    BY <1>13
  <2>2. PICK d \in Cpus : t \in c_zombies[d] /\ y = <<"c_zombies", d, NULL>>
    BY <1>13
  <2> QED BY <1>7, <2>1, <2>2
<1>14. CASE N(x) /\ N(y)
  <2>1. PICK u \in Threads : newthread[u] = t /\ x = <<"newthread", u, NULL>>
    BY <1>14
  <2>2. PICK v \in Threads : newthread[v] = t /\ y = <<"newthread", v, NULL>>
    BY <1>14
  <2>3. u = v
    BY <1>7, <2>1, <2>2
  <2> QED BY <2>1, <2>2, <2>3
<1>15. Q(x) \/ L(x) \/ S(x) \/ C(x) \/ Z(x) \/ N(x)
  BY <1>2
<1> HIDE DEF Q, L, S, C, Z, N
<1> QED BY <1>8, <1>9, <1>10, <1>11, <1>12, <1>13, <1>14, <1>15

\* A thread is on a list, or about to be put on one, exactly if its state says so.
LEMMA PlacesByState ==
  ASSUME SchedulerInv, NEW t \in Threads
  PROVE  Places(t) # {} <=> t_state[t] \in {"S_READY", "S_SLEEP", "S_ZOMBIE"}
<1>1. /\ QueueOK(c_runqueue, newthread, t_state, t_cpu)
      /\ ChannelOK(wc_threads, count_wchan, t_state)
      /\ ListOK(c_runqueue, list, Waking, Giving, wc_threads, count_wchan, newthread, t_state, t_cpu)
      /\ ZombieOK(c_zombies, t_state, t_cpu) /\ NewbornOK(newthread, t_state)
      /\ CoverOK(c_runqueue, c_zombies, list, wc_threads, count_wchan, newthread, t_state, t_cpu)
      /\ t_cpu[t] \in Cpus
  BY DEF SchedulerInv, PlaceInv, World, WorldType
<1>2. Places(t) # {} <=>
        \/ \E c \in Cpus : In(t, c_runqueue[c]) \/ In(t, list[c]) \/ t \in c_zombies[c]
        \/ In(t, wc_threads) \/ In(t, count_wchan)
        \/ \E u \in Threads : newthread[u] = t
  <2>1. ASSUME NEW x \in Places(t)
        PROVE  \/ \E c \in Cpus : In(t, c_runqueue[c]) \/ In(t, list[c]) \/ t \in c_zombies[c]
               \/ In(t, wc_threads) \/ In(t, count_wchan)
               \/ \E u \in Threads : newthread[u] = t
    BY PlaceKinds, Zenon DEF In
  <2>2. ASSUME NEW c \in Cpus, In(t, c_runqueue[c]) PROVE Places(t) # {}
    <3>1. PICK i \in DOMAIN c_runqueue[c] : c_runqueue[c][i] = t
      BY <2>2 DEF In
    <3> QED BY <3>1, PlaceKinds, Zenon
  <2>3. ASSUME NEW c \in Cpus, In(t, list[c]) PROVE Places(t) # {}
    <3>1. PICK i \in DOMAIN list[c] : list[c][i] = t
      BY <2>3 DEF In
    <3> QED BY <3>1, PlaceKinds, Zenon
  <2>4. In(t, wc_threads) \/ In(t, count_wchan) => Places(t) # {}
    BY PlaceKinds, Zenon DEF In
  <2>5. ASSUME NEW c \in Cpus, t \in c_zombies[c] PROVE Places(t) # {}
    BY <2>5, PlaceKinds, Zenon
  <2>6. ASSUME NEW u \in Threads, newthread[u] = t PROVE Places(t) # {}
    BY <2>6, PlaceKinds, Zenon
  <2> QED BY <2>1, <2>2, <2>3, <2>4, <2>5, <2>6
<1>3. t # NULL /\ \A z : ~In(z, <<>>)
  BY ThreadFacts DEF In
<1>4. t_state[t] \in {"S_READY", "S_SLEEP", "S_ZOMBIE"} => Places(t) # {}
  BY <1>1, <1>2 DEF CoverOK
<1>5. Places(t) # {} => t_state[t] \in {"S_READY", "S_SLEEP", "S_ZOMBIE"}
  <2>1. \A c \in Cpus : In(t, c_runqueue[c]) => t_state[t] = "S_READY"
    BY <1>1 DEF QueueOK
  <2>2. \A c \in Cpus : In(t, list[c]) => t_state[t] \in {"S_SLEEP", "S_READY"}
    BY <1>1, <1>3 DEF ListOK
  <2>3. In(t, wc_threads) \/ In(t, count_wchan) => t_state[t] = "S_SLEEP"
    BY <1>1 DEF ChannelOK
  <2>4. \A c \in Cpus : t \in c_zombies[c] => t_state[t] = "S_ZOMBIE"
    BY <1>1 DEF ZombieOK
  <2>5. \A u \in Threads : newthread[u] = t => t_state[t] = "S_READY"
    BY <1>1, <1>3 DEF NewbornOK
  <2> QED BY <1>2, <2>1, <2>2, <2>3, <2>4, <2>5
<1> QED BY <1>4, <1>5

\* Each thread is where its state says, once: on a run queue, a wait channel, a private
\* list, a list of zombies or with its creator, or it is what a cpu runs.
THEOREM OneList == Spec => []OnOneList
<1>1. SchedulerInv => OnOneList
  <2> SUFFICES ASSUME SchedulerInv, NEW t \in Threads
               PROVE  /\ Cardinality(Places(t)) = IF t_state[t] \in {"S_READY", "S_SLEEP", "S_ZOMBIE"} THEN 1 ELSE 0
                      /\ t_state[t] = "S_RUN" <=> \E c \in Online : c_curthread[c] = t /\ ~c_isidle[c]
    BY DEF OnOneList
  <2>1. CASE t_state[t] \in {"S_READY", "S_SLEEP", "S_ZOMBIE"}
    <3>1. PICK x : x \in Places(t)
      BY <2>1, PlacesByState
    <3>2. Places(t) = {x}
      BY <3>1, OnePlace
    <3>3. Cardinality(Places(t)) = 1
      BY <3>2, FS_Singleton
    <3>4. t_state[t] # "S_RUN"
      BY <2>1
    <3>5. \A c \in Online : c_curthread[c] = t => c_isidle[c]
      BY <3>4 DEF SchedulerInv, PlaceInv, World, CurrentOK
    <3> QED BY <2>1, <3>3, <3>4, <3>5
  <2>2. CASE t_state[t] \notin {"S_READY", "S_SLEEP", "S_ZOMBIE"}
    <3>1. Cardinality(Places(t)) = 0
      <4>1. Places(t) = {}
        BY <2>2, PlacesByState
      <4> QED BY <4>1, FS_EmptySet
    <3>2. CurrentOK(Online, c_curthread, c_isidle, t_state, t_cpu)
      BY DEF SchedulerInv, PlaceInv, World
    <3>3. t_state[t] = "S_RUN" => t_cpu[t] \in Online /\ c_curthread[t_cpu[t]] = t
      BY <3>2 DEF CurrentOK
    <3>4. t_state[t] = "S_RUN" => ~c_isidle[t_cpu[t]]
      BY <3>2, <3>3 DEF CurrentOK
    <3>5. \A c \in Online : c_curthread[c] = t /\ ~c_isidle[c] => t_state[t] = "S_RUN"
      BY <3>2 DEF CurrentOK
    <3>6. t_state[t] = "S_RUN" <=> \E c \in Online : c_curthread[c] = t /\ ~c_isidle[c]
      BY <3>3, <3>4, <3>5
    <3> QED BY <2>2, <3>1, <3>6
  <2> QED BY <2>1, <2>2
<1> QED BY <1>1, SchedulerInvariant, PTL

(***************************************************************************)
(* schedule() and the ends of the list.  It ages the head with the threads *)
(* on the list, so no thread becomes older than the head.                  *)
(***************************************************************************)
AgeInv ==
    zeroed => /\ ~fault /\ ends.tail = 0
              /\ ends.head \in Nat /\ \A t \in Threads : priority[t] <= ends.head

\* With 0 in the tail end and no priority above the head end, schedule() takes no end for a
\* thread.
LEMMA HeadIsOldest ==
  ASSUME NEW q \in Seq(Threads), NEW p \in [Threads -> Nat], NEW e, e.tail = 0, e.head \in Nat,
         \A t \in Threads : p[t] <= e.head
  PROVE  ~StepsOff(q, p, e)
<1>1. CASE q = <<>>
  BY <1>1 DEF StepsOff
<1>2. CASE q # <<>>
  <2>1. q[1] \in Threads /\ q[Len(q)] \in Threads
    BY <1>2
  <2>2. p[q[1]] <= e.head /\ p[q[1]] \in Nat /\ p[q[Len(q)]] \in Nat
    BY <2>1
  <2>3. ~(p[q[1]] > e.head) /\ ~(e.tail > p[q[Len(q)]])
    BY <2>2
  <2> QED BY <1>2, <2>3 DEF StepsOff
<1> QED BY <1>1, <1>2

\* The head end ages with every call of schedule(), so no thread overtakes it.
LEMMA AgeStep == SchedulerInv /\ AgeInv /\ [Next]_vars => AgeInv'
<1> SUFFICES ASSUME SchedulerInv, AgeInv, [Next]_vars, zeroed'
             PROVE  /\ ~fault' /\ ends'.tail = 0
                    /\ ends'.head \in Nat /\ \A t \in Threads : priority'[t] <= ends'.head
  BY DEF AgeInv
<1>0. zeroed
  BY DEF Next, vars, bootVars
<1>1. /\ priority \in [Threads -> Nat] /\ ends \in [head : Int, tail : Int]
      /\ c_runqueue \in [Cpus -> Seq(Threads)]
      /\ ~fault /\ ends.tail = 0 /\ ends.head \in Nat /\ \A t \in Threads : priority[t] <= ends.head
  BY <1>0 DEF SchedulerInv, RestType, PlaceInv, World, WorldType, AgeInv
<1>2. CASE UNCHANGED vars
  BY <1>1, <1>2 DEF vars, ageVars
<1>3. CASE Next
  <2>1. PICK c \in Cpus : CpuStep(c)
    BY <1>3 DEF Next
  <2>2. ASSUME NEW h, EndOfTick(c, h)
        PROVE  /\ ~fault' /\ ends'.tail = 0
               /\ ends'.head \in Nat /\ \A t \in Threads : priority'[t] <= ends'.head
    <3> DEFINE q == c_runqueue[c]
               p == Aged(q, priority)
               e == AgedHead(ends)
    <3>1. p \in [Threads -> Nat] /\ \A t \in Threads : p[t] <= priority[t] + 1
      BY <1>1 DEF Aged
    <3>2. e.tail = 0 /\ e.head = ends.head + 1
      BY <1>1 DEF AgedHead
    <3>3. \/ UNCHANGED ageVars
          \/ StepsOff(q, p, e)
          \/ priority' = p /\ ends' = e /\ fault' = fault
      BY <2>2 DEF EndOfTick
    <3> HIDE DEF q, p, e
    <3>4. q \in Seq(Threads)
      BY <1>1 DEF q
    <3>5. e.head \in Nat /\ \A t \in Threads : p[t] <= e.head
      BY <1>1, <3>1, <3>2
    <3>6. ~StepsOff(q, p, e)
      BY <3>1, <3>2, <3>4, <3>5, HeadIsOldest
    <3> QED BY <1>1, <3>2, <3>3, <3>5, <3>6 DEF ageVars
  <2>3. CASE ~hardclock(c) /\ ~Tick(c)
    <3>1. ends' = ends /\ fault' = fault
      BY <2>1, <2>3, AgeStays
    <3>2. priority' = priority \/ \E t : priority' = [priority EXCEPT ![t] = 0]
      <4>1. CASE Fork(c) \/ ExitSwitch(c)
        BY <4>1 DEF Fork, ExitSwitch
      <4>2. CASE ~(Fork(c) \/ ExitSwitch(c))
        BY <2>1, <2>3, <4>2, PriorityStays
      <4> QED BY <4>1, <4>2
    <3>3. \A t \in Threads : priority'[t] = priority[t] \/ priority'[t] = 0
      BY <1>1, <3>2
    <3> DEFINE n == ends.head
    <3>4. n \in Nat /\ \A t \in Threads : priority[t] <= n
      BY <1>1
    <3> HIDE DEF n
    <3>5. \A t \in Threads : priority'[t] <= n
      BY <3>3, <3>4
    <3>6. ends'.head = n /\ ends'.tail = 0 /\ ~fault'
      BY <1>1, <3>1 DEF n
    <3> QED BY <3>4, <3>5, <3>6
  <2>4. CASE hardclock(c) \/ Tick(c)
    <3>1. (\E h : EndOfTick(c, h)) \/ UNCHANGED ageVars
      BY <2>4 DEF hardclock, Tick
    <3> QED BY <1>1, <2>2, <3>1 DEF ageVars
  <2> QED BY <2>3, <2>4
<1> QED BY <1>2, <1>3

\* If threadlist_init has left zeros in the ends of the list, schedule() never follows
\* an end's missing tln_self, whatever threads come, wait and go.
THEOREM EndsStay == Spec => []EndsStayPut
<1>1. Init => AgeInv
  <2> SUFFICES ASSUME Init, zeroed PROVE /\ ~fault /\ ends.tail = 0
                                         /\ ends.head \in Nat /\ \A t \in Threads : priority[t] <= ends.head
    BY DEF AgeInv
  <2>1. ends = [head |-> 0, tail |-> 0] /\ priority = [t \in Threads |-> 0] /\ fault = FALSE
    BY DEF Init
  <2> QED BY <2>1
<1>2. AgeInv => EndsStayPut
  BY DEF AgeInv, EndsStayPut
<1> QED BY <1>1, <1>2, AgeStep, SchedulerInvariant, PTL DEF Spec

-----------------------------------------------------------------------------
(***************************************************************************)
(* thread_count.  No step but thread_fork and thread_exit makes a thread   *)
(* dead or brings one to life.                                             *)
(***************************************************************************)
DeadStates == {"S_ZOMBIE", "S_FREE"}
Dead(t) == t_state[t] \in DeadStates

\* A thread that is put away alive, as st says, stays alive in the switch.
LEMMA DispatchKills ==
  ASSUME NEW c, NEW q, NEW st \in [Threads -> States], NEW zs, NEW w, Dispatch(c, q, st, zs, w),
         q # <<>> => st[Head(q)] \notin DeadStates, \A t \in zs : st[t] \in DeadStates
  PROVE  \A t \in Threads : Dead(t)' <=> st[t] \in DeadStates
<1>1. CASE q # <<>>
  <2>1. t_state' = [t \in Threads |-> IF t = Head(q) THEN "S_RUN"
                                      ELSE IF t \in zs THEN "S_FREE" ELSE st[t]]
    BY <1>1 DEF Dispatch
  <2> QED BY <1>1, <2>1 DEF Dead, DeadStates
<1>2. CASE q = <<>>
  BY <1>2 DEF Dispatch, GoIdle, Dead
<1> QED BY <1>1, <1>2

\* A switch of a thread that stays ready ends no thread.
LEMMA YieldKills ==
  ASSUME SchedulerInv, NEW c \in Cpus, c \in Online, ~c_isidle[c],
         NEW q \in Seq(Threads), \A x : In(x, q) => In(x, c_runqueue[c]), NEW w, SwitchReady(c, q, w)
  PROVE  \A t \in Threads : Dead(t)' <=> Dead(t)
<1> DEFINE u == c_curthread[c]
           st == [t_state EXCEPT ![u] = "S_READY"]
<1>1. /\ t_state \in [Threads -> States] /\ u \in Threads /\ t_state[u] = "S_RUN"
      /\ \A t \in c_zombies[c] : t \in Threads /\ t_state[t] = "S_ZOMBIE"
      /\ \A t \in Threads : In(t, c_runqueue[c]) => t_state[t] = "S_READY"
  <2>1. /\ t_state \in [Threads -> States] /\ c_curthread \in [Cpus -> Threads]
        /\ c_zombies \in [Cpus -> SUBSET Threads]
        /\ CurrentOK(Online, c_curthread, c_isidle, t_state, t_cpu)
        /\ ZombieOK(c_zombies, t_state, t_cpu)
        /\ QueueOK(c_runqueue, newthread, t_state, t_cpu)
    BY DEF SchedulerInv, PlaceInv, World, WorldType
  <2> QED BY <2>1 DEF CurrentOK, ZombieOK, QueueOK
<1>2. st \in [Threads -> States] /\ \A t \in Threads : st[t] = IF t = u THEN "S_READY" ELSE t_state[t]
  BY <1>1 DEF States
<1> HIDE DEF st
<1>3. CASE q = <<>>
  BY <1>3 DEF SwitchReady, Dead
<1>4. CASE q # <<>>
  <2> DEFINE a == Append(q, u)
  <2>1. Dispatch(c, a, st, c_zombies[c], w)
    BY <1>4 DEF SwitchReady, st
  <2>2. Head(a) = Head(q) /\ Head(q) \in Threads /\ In(Head(q), q)
    BY <1>1, <1>4, InHead
  <2>3. st[Head(a)] = "S_READY"
    BY <1>1, <1>2, <2>2
  <2>4. \A t \in c_zombies[c] : st[t] = "S_ZOMBIE"
    BY <1>1, <1>2
  <2> HIDE DEF a
  <2>5. \A t \in Threads : Dead(t)' <=> st[t] \in DeadStates
    <3>1. (a # <<>> => st[Head(a)] \notin DeadStates) /\ \A t \in c_zombies[c] : st[t] \in DeadStates
      BY <2>3, <2>4 DEF DeadStates
    <3> QED BY <1>2, <2>1, <3>1, DispatchKills
  <2> QED BY <1>1, <1>2, <2>5 DEF Dead, DeadStates
<1> QED BY <1>3, <1>4

\* A thread that is made runnable was alive and stays so.
LEMMA WakesAlive ==
  ASSUME t_state \in [Threads -> States], NEW c, NEW x, thread_make_runnable(c, x),
         t_state[x] \in {"S_SLEEP", "S_READY"}
  PROVE  \A t \in Threads : Dead(t)' <=> Dead(t)
BY DEF thread_make_runnable, Dead, DeadStates

\* What a cpu's lists say about the threads that a step of it touches.
LEMMA TouchedAlive ==
  ASSUME SchedulerInv, NEW c \in Cpus
  PROVE  /\ t_state \in [Threads -> States] /\ c_curthread[c] \in Threads
         /\ \A t \in c_zombies[c] : t \in Threads /\ t_state[t] = "S_ZOMBIE"
         /\ c_runqueue[c] # <<>> => Head(c_runqueue[c]) \in Threads /\ t_state[Head(c_runqueue[c])] = "S_READY"
         /\ wc_threads # <<>> => t_state[Head(wc_threads)] = "S_SLEEP"
         /\ count_wchan # <<>> => t_state[Menu] = "S_SLEEP"
         /\ pc[c] = "wakeall" => t_state[Head(list[c])] = "S_SLEEP"
         /\ \A u \in Threads : newthread[u] # NULL => t_state[newthread[u]] = "S_READY"
<1>1. /\ t_state \in [Threads -> States] /\ c_curthread \in [Cpus -> Threads]
      /\ c_zombies \in [Cpus -> SUBSET Threads]
      /\ c_runqueue \in [Cpus -> Seq(Threads)] /\ list \in [Cpus -> Seq(Threads)]
      /\ wc_threads \in Seq(Threads) /\ count_wchan \in Seq(Threads)
  BY DEF SchedulerInv, PlaceInv, World, WorldType
<1>2. /\ ZombieOK(c_zombies, t_state, t_cpu) /\ NewbornOK(newthread, t_state)
      /\ QueueOK(c_runqueue, newthread, t_state, t_cpu)
      /\ ChannelOK(wc_threads, count_wchan, t_state)
      /\ ListOK(c_runqueue, list, Waking, Giving, wc_threads, count_wchan, newthread, t_state, t_cpu)
  BY DEF SchedulerInv, PlaceInv, World
<1>3. \A t \in c_zombies[c] : t \in Threads /\ t_state[t] = "S_ZOMBIE"
  BY <1>1, <1>2 DEF ZombieOK
<1>4. ASSUME NEW s \in Seq(Threads), s # <<>> PROVE Head(s) \in Threads /\ In(Head(s), s)
  BY <1>4, InHead
<1>5. c_runqueue[c] # <<>> => Head(c_runqueue[c]) \in Threads /\ t_state[Head(c_runqueue[c])] = "S_READY"
  <2>1. c_runqueue[c] \in Seq(Threads)
    BY <1>1
  <2>2. c_runqueue[c] # <<>> => Head(c_runqueue[c]) \in Threads /\ In(Head(c_runqueue[c]), c_runqueue[c])
    BY <1>4, <2>1
  <2> QED BY <1>2, <2>2 DEF QueueOK
<1>6. wc_threads # <<>> => t_state[Head(wc_threads)] = "S_SLEEP"
  <2>1. wc_threads # <<>> => Head(wc_threads) \in Threads /\ In(Head(wc_threads), wc_threads)
    BY <1>1, <1>4
  <2> QED BY <1>2, <2>1 DEF ChannelOK
<1>7. count_wchan # <<>> => t_state[Menu] = "S_SLEEP"
  <2>1. count_wchan # <<>> => Head(count_wchan) \in Threads /\ In(Head(count_wchan), count_wchan)
    BY <1>1, <1>4
  <2> QED BY <1>2, <2>1 DEF ChannelOK
<1>8. pc[c] = "wakeall" => t_state[Head(list[c])] = "S_SLEEP"
  <2>1. pc[c] = "wakeall" => list[c] # <<>> /\ c \in Waking
    BY DEF SchedulerInv, PcOK, Waking
  <2>2. list[c] # <<>> => Head(list[c]) \in Threads /\ In(Head(list[c]), list[c])
    <3>1. list[c] \in Seq(Threads)
      BY <1>1
    <3> QED BY <1>4, <3>1
  <2> QED BY <1>2, <2>1, <2>2 DEF ListOK
<1>9. \A u \in Threads : newthread[u] # NULL => t_state[newthread[u]] = "S_READY"
  BY <1>2 DEF NewbornOK
<1> QED BY <1>1, <1>3, <1>5, <1>6, <1>7, <1>8, <1>9

\* Only thread_fork and the last switch of a thread change which threads are alive.
LEMMA Mortality ==
  ASSUME SchedulerInv, NEW c \in Cpus, CpuStep(c), ~Fork(c), ~ExitSwitch(c)
  PROVE  \A t \in Threads : Dead(t)' <=> Dead(t)
<1> DEFINE u == c_curthread[c]
<1>1. t_state \in [Threads -> States] /\ u \in Threads /\ (pc[c] = "run" => t_state[u] = "S_RUN")
  BY ActorFacts, TouchedAlive
<1>2. ASSUME t_state' = t_state PROVE \A t \in Threads : Dead(t)' <=> Dead(t)
  <2>1. \A t \in Threads : t_state'[t] = t_state[t]
    BY <1>2
  <2> QED BY <2>1 DEF Dead
<1>3. CASE \/ Exit(c) \/ interprocessor_interrupt(c) \/ ClearIpi(c) \/ CountNext(c)
           \/ TakeVictims(c) \/ GiveVictims(c) \/ Leftovers(c)
  <2>1. t_state' = t_state
    BY <1>3 DEF Exit, interprocessor_interrupt, ClearIpi, CountNext, TakeVictims, GiveVictims,
       Leftovers
  <2> QED BY <1>2, <2>1
<1>4. CASE ForkCount(c) \/ ExitCount(c)
  <2>1. WakeCounter(c)
    BY <1>4 DEF ForkCount, ExitCount
  <2>2. t_state' = t_state \/ (thread_make_runnable(c, Menu) /\ t_state[Menu] = "S_SLEEP")
    BY <2>1, TouchedAlive DEF WakeCounter
  <2> QED BY <1>1, <1>2, <2>2, WakesAlive
<1>5. CASE ForkReady(c)
  <2>1. thread_make_runnable(c, newthread[u]) /\ newthread[u] # NULL
    BY <1>1, <1>5 DEF ForkReady, Running, SchedulerInv, AtOK
  <2>2. t_state[newthread[u]] = "S_READY"
    BY <1>1, <2>1, TouchedAlive
  <2> QED BY <1>1, <2>1, <2>2, WakesAlive
<1>6. CASE wchan_wakeone(c) \/ wchan_wakeall(c) \/ WakeNext(c)
  <2>1. \/ t_state' = t_state
        \/ wc_threads # <<>> /\ thread_make_runnable(c, Head(wc_threads))
        \/ pc[c] = "wakeall" /\ thread_make_runnable(c, Head(list[c]))
    BY <1>6 DEF wchan_wakeone, wchan_wakeall, WakeNext, WakeFirst
  <2>2. /\ wc_threads # <<>> => t_state[Head(wc_threads)] = "S_SLEEP"
        /\ pc[c] = "wakeall" => t_state[Head(list[c])] = "S_SLEEP"
    BY TouchedAlive
  <2> QED BY <1>1, <1>2, <2>1, <2>2, WakesAlive
<1>7. CASE WaitForCount(c) \/ wchan_sleep(c)
  <2>1. pc[c] = "run" /\ (t_state' = t_state \/ SwitchSleep(c))
    BY <1>7 DEF WaitForCount, wchan_sleep, Busy, Running
  <2>2. CASE SwitchSleep(c)
    <3> DEFINE st == [t_state EXCEPT ![u] = "S_SLEEP"]
    <3>1. st \in [Threads -> States] /\ \A t \in Threads : st[t] = IF t = u THEN "S_SLEEP" ELSE t_state[t]
      BY <1>1 DEF States
    <3>2. Dispatch(c, c_runqueue[c], st, c_zombies[c], waited)
      BY <2>2 DEF SwitchSleep
    <3> HIDE DEF st
    <3>3. /\ c_runqueue[c] # <<>> => st[Head(c_runqueue[c])] = "S_READY"
          /\ \A t \in c_zombies[c] : st[t] = "S_ZOMBIE"
      BY <1>1, <2>1, <3>1, TouchedAlive
    <3>4. \A t \in Threads : Dead(t)' <=> st[t] \in DeadStates
      <4>1. /\ c_runqueue[c] # <<>> => st[Head(c_runqueue[c])] \notin DeadStates
            /\ \A t \in c_zombies[c] : st[t] \in DeadStates
        BY <3>3 DEF DeadStates
      <4> QED BY <3>1, <3>2, <4>1, DispatchKills
    <3> QED BY <1>1, <2>1, <3>1, <3>4 DEF Dead, DeadStates
  <2> QED BY <1>2, <2>1, <2>2
<1>8. CASE Resume(c)
  <2>1. Dispatch(c, c_runqueue[c], t_state, c_zombies[c], waited)
    BY <1>8 DEF Resume
  <2>2. /\ c_runqueue[c] # <<>> => t_state[Head(c_runqueue[c])] \notin DeadStates
        /\ \A t \in c_zombies[c] : t_state[t] \in DeadStates
    BY TouchedAlive DEF DeadStates
  <2> QED BY <1>1, <2>1, <2>2, DispatchKills DEF Dead
<1>9. CASE thread_yield(c) \/ hardclock(c) \/ Tick(c)
  <2>1. /\ c_runqueue[c] \in Seq(Threads) /\ pc[c] # "off"
        /\ \A q \in Seq(Threads) : \A p : Sorted(q, p) \in Seq(Threads) /\ \A x : In(x, Sorted(q, p)) <=> In(x, q)
    <3>1. pc[c] # "off"
      BY <1>9 DEF thread_yield, hardclock, Tick, Busy, Running, Interruptible
    <3> QED BY <3>1, SortedKeeps DEF SchedulerInv, PlaceInv, World, WorldType
  <2>2. c \in Online /\ (pc[c] = "run" => ~c_isidle[c])
    BY <2>1, ActorFacts
  <2>3. \/ t_state' = t_state
        \/ thread_yield(c)
        \/ Yield(c, c_runqueue[c])
        \/ \E p : Yield(c, Sorted(c_runqueue[c], p))
    BY <1>9 DEF hardclock, Tick, EndOfTick
  <2>4. ASSUME NEW q \in Seq(Threads), \A x : In(x, q) => In(x, c_runqueue[c]), Yield(c, q)
        PROVE  \A t \in Threads : Dead(t)' <=> Dead(t)
    <3>1. t_state' = t_state \/ (~c_isidle[c] /\ \E w : SwitchReady(c, q, w))
      BY <2>4 DEF Yield
    <3> QED BY <1>2, <2>2, <2>4, <3>1, YieldKills
  <2>5. CASE thread_yield(c)
    <3>1. SwitchReady(c, c_runqueue[c], waited) /\ pc[c] = "run"
      BY <2>5 DEF thread_yield, Busy, Running
    <3> QED BY <2>1, <2>2, <3>1, YieldKills
  <2> QED BY <1>2, <2>1, <2>3, <2>4, <2>5
<1> QED BY <1>3, <1>4, <1>5, <1>6, <1>7, <1>8, <1>9 DEF CpuStep

\* The last switch of a thread ends that thread and no other.
LEMMA ExitKills ==
  ASSUME SchedulerInv, NEW c \in Cpus, ExitSwitch(c)
  PROVE  \A t \in Threads : Dead(t)' <=> Dead(t) \/ t = c_curthread[c]
<1> DEFINE u == c_curthread[c]
           st == [t_state EXCEPT ![u] = "S_ZOMBIE"]
           zs == c_zombies[c] \cup {u}
<1>1. pc[c] = "run" /\ Dispatch(c, c_runqueue[c], st, zs, waited)
  BY DEF ExitSwitch, Running, SwitchZombie
<1>2. t_state \in [Threads -> States] /\ u \in Threads /\ t_state[u] = "S_RUN"
  BY <1>1, ActorFacts, TouchedAlive
<1>3. st \in [Threads -> States] /\ \A t \in Threads : st[t] = IF t = u THEN "S_ZOMBIE" ELSE t_state[t]
  BY <1>2 DEF States
<1> HIDE DEF st
<1>4. /\ c_runqueue[c] # <<>> => st[Head(c_runqueue[c])] = "S_READY"
      /\ \A t \in zs : st[t] = "S_ZOMBIE"
  BY <1>2, <1>3, TouchedAlive
<1> HIDE DEF zs
<1>5. \A t \in Threads : Dead(t)' <=> st[t] \in DeadStates
  <2>1. /\ c_runqueue[c] # <<>> => st[Head(c_runqueue[c])] \notin DeadStates
        /\ \A t \in zs : st[t] \in DeadStates
    BY <1>4 DEF DeadStates
  <2> QED BY <1>1, <1>3, <2>1, DispatchKills
<1> QED BY <1>2, <1>3, <1>5 DEF Dead, DeadStates

\* Threads that do not run, or not yet, are not in the middle of anything, and the
\* boot threads that thread_start_cpus has waited for are dead.
LabelInv ==
    /\ \A t \in Threads : Dead(t) => at[t] = "user"
    /\ \A u \in Threads : newthread[u] # NULL => at[newthread[u]] = "user"
    /\ \A c \in Hatchers \ late : Dead(c)

\* A step changes the place of the running thread only.
LEMMA AtMoves ==
  ASSUME NEW c, CpuStep(c)
  PROVE  at' = at \/ (pc[c] = "run" /\ \E l \in ThreadLabels : at' = [at EXCEPT ![c_curthread[c]] = l])
<1>1. CASE Fork(c) \/ ForkCount(c) \/ ForkReady(c)
  BY <1>1 DEF Fork, ForkCount, ForkReady, Busy, Running, Goto, ThreadLabels
<1>2. CASE WaitForCount(c) \/ Exit(c) \/ ExitCount(c) \/ ExitSwitch(c)
  BY <1>2 DEF WaitForCount, Exit, ExitCount, ExitSwitch, Running, Goto, ThreadLabels
<1>3. CASE ~(Fork(c) \/ ForkCount(c) \/ ExitCount(c) \/ ForkReady(c) \/ WaitForCount(c) \/ Exit(c) \/ ExitSwitch(c))
  BY <1>3, QuietSteps
<1> QED BY <1>1, <1>2, <1>3

\* Only thread_fork changes which threads are newborn.
LEMMA NewbornsStay ==
  ASSUME NEW c, CpuStep(c), ~Fork(c), ~ForkReady(c)
  PROVE  newthread' = newthread
<1>1. CASE ForkCount(c) \/ WaitForCount(c) \/ Exit(c) \/ ExitCount(c) \/ ExitSwitch(c)
  BY <1>1 DEF ForkCount, WaitForCount, Exit, ExitCount, ExitSwitch
<1>2. CASE ~(ForkCount(c) \/ WaitForCount(c) \/ Exit(c) \/ ExitCount(c) \/ ExitSwitch(c))
  BY <1>2, QuietSteps
<1> QED BY <1>1, <1>2

\* What Fork does.
LEMMA ForkFacts ==
  ASSUME SchedulerInv, NEW c \in Cpus, Fork(c)
  PROVE  \E k \in Kids :
            /\ t_state[k] = "S_FREE" /\ k # c_curthread[c] /\ newthread[c_curthread[c]] = NULL
            /\ newthread' = [newthread EXCEPT ![c_curthread[c]] = k]
            /\ at' = [at EXCEPT ![c_curthread[c]] = "fork"]
            /\ \A t \in Threads : Dead(t)' <=> Dead(t) /\ t # k
<1> DEFINE u == c_curthread[c]
<1>1. PICK k \in Kids : /\ t_state[k] = "S_FREE" /\ t_state' = [t_state EXCEPT ![k] = "S_READY"]
                        /\ newthread' = [newthread EXCEPT ![u] = k]
  BY DEF Fork
<1>2. pc[c] = "run" /\ at[u] = "user" /\ at' = [at EXCEPT ![u] = "fork"]
  BY DEF Fork, Busy, Running, Goto
<1>3. t_state[u] = "S_RUN" /\ u \in Threads /\ t_state \in [Threads -> States]
  BY <1>2, ActorFacts, TouchedAlive
<1>4. newthread[u] = NULL
  BY <1>2, <1>3 DEF SchedulerInv, AtOK
<1>5. \A t \in Threads : Dead(t)' <=> Dead(t) /\ t # k
  BY <1>1, <1>3, ThreadFacts DEF Dead, DeadStates
<1> QED BY <1>1, <1>2, <1>3, <1>4, <1>5

\* A step keeps LabelInv.
LEMMA LabelStep ==
  ASSUME SchedulerInv, LabelInv, UNCHANGED bootVars, NEW c \in Cpus, CpuStep(c)
  PROVE  LabelInv'
<1> DEFINE u == c_curthread[c]
<1>1. /\ at \in [Threads -> ThreadLabels] /\ newthread \in [Threads -> Kids \cup {NULL}]
      /\ u \in Threads
      /\ pc[c] = "run" => ~Dead(u) /\ \A v \in Threads : newthread[v] # u
  <2>1. /\ at \in [Threads -> ThreadLabels] /\ newthread \in [Threads -> Kids \cup {NULL}]
        /\ u \in Threads
    BY TouchedAlive DEF SchedulerInv, RestType, PlaceInv, World, WorldType
  <2>2. pc[c] = "run" => t_state[u] = "S_RUN"
    BY ActorFacts
  <2>3. \A v \in Threads : newthread[v] # NULL => t_state[newthread[v]] = "S_READY"
    BY TouchedAlive
  <2> QED BY <2>1, <2>2, <2>3, ThreadFacts DEF Dead, DeadStates
<1>2. \A t \in Threads : at'[t] = at[t] \/ (t = u /\ pc[c] = "run")
  BY <1>1, AtMoves
<1>3. late' = late
  BY DEF bootVars
<1>4. CASE Fork(c)
  <2>1. PICK k \in Kids : /\ t_state[k] = "S_FREE" /\ k # u
                          /\ newthread' = [newthread EXCEPT ![u] = k]
                          /\ \A t \in Threads : Dead(t)' <=> Dead(t) /\ t # k
    BY <1>4, ForkFacts
  <2>2. k \in Threads /\ Dead(k) /\ k \notin Cpus
    BY <2>1, ThreadFacts DEF Dead, DeadStates
  <2>3. \A t \in Threads : Dead(t)' => at'[t] = "user"
    BY <1>1, <1>2, <2>1 DEF LabelInv
  <2>4. \A v \in Threads : newthread'[v] # NULL => at'[newthread'[v]] = "user"
    <3> SUFFICES ASSUME NEW v \in Threads, newthread'[v] # NULL PROVE at'[newthread'[v]] = "user"
      OBVIOUS
    <3>1. CASE v = u
      <4>1. newthread'[v] = k
        BY <1>1, <2>1, <3>1
      <4> QED BY <1>2, <2>1, <2>2, <4>1 DEF LabelInv
    <3>2. CASE v # u
      <4>1. newthread'[v] = newthread[v] /\ newthread[v] \in Threads
        BY <1>1, <2>1, <3>2, ThreadFacts
      <4> QED BY <1>1, <1>2, <4>1 DEF LabelInv
    <3> QED BY <3>1, <3>2
  <2>5. \A d \in Hatchers \ late' : Dead(d)'
    BY <1>3, <2>1, <2>2, ThreadFacts DEF LabelInv, Hatchers
  <2> QED BY <2>3, <2>4, <2>5 DEF LabelInv
<1>5. CASE ~Fork(c)
  <2>1. \A v \in Threads : newthread'[v] # NULL => newthread'[v] = newthread[v]
    <3>1. newthread' = newthread \/ newthread' = [newthread EXCEPT ![u] = NULL]
      BY <1>5, NewbornsStay DEF ForkReady
    <3> QED BY <1>1, <3>1
  <2>2. \A v \in Threads : newthread'[v] # NULL => at'[newthread'[v]] = "user"
    <3> SUFFICES ASSUME NEW v \in Threads, newthread'[v] # NULL PROVE at'[newthread'[v]] = "user"
      OBVIOUS
    <3>1. newthread'[v] = newthread[v] /\ newthread[v] \in Threads /\ newthread[v] # NULL
      BY <1>1, <2>1, ThreadFacts
    <3> QED BY <1>1, <1>2, <3>1 DEF LabelInv
  <2>3. \A t \in Threads : Dead(t) => Dead(t)'
    BY <1>5, Mortality, ExitKills
  <2>4. \A t \in Threads : Dead(t)' => Dead(t) \/ at'[t] = "user"
    <3>1. ExitSwitch(c) => at' = [at EXCEPT ![u] = "user"]
      BY DEF ExitSwitch, Goto
    <3>2. ExitSwitch(c) => at'[u] = "user"
      BY <1>1, <3>1
    <3> QED BY <1>5, <3>2, Mortality, ExitKills
  <2>5. \A t \in Threads : Dead(t)' => at'[t] = "user"
    BY <1>1, <1>2, <2>4 DEF LabelInv
  <2>6. \A d \in Hatchers \ late' : Dead(d)'
    BY <1>3, <2>3, ThreadFacts DEF LabelInv, Hatchers
  <2> QED BY <2>2, <2>5, <2>6 DEF LabelInv
<1> QED BY <1>4, <1>5

Living == {k \in Kids : ~Gone(k) /\ ~Uncounted(k)}
LateGone == {c \in late : Gone(c)}

\* A boot thread that exits after thread_start_cpus has set thread_count to 1 takes
\* one off it for which nothing was added.
CountIsShortByLate ==
    Cardinality(late) <= 1 => thread_count = 1 + Cardinality(Living) - Cardinality(LateGone)

\* The sets that are counted are finite, and thread_count cannot wrap.
LEMMA LivingFinite ==
  ASSUME late \subseteq Hatchers
  PROVE  /\ IsFiniteSet(Living) /\ Cardinality(Living) \in Nat
         /\ Cardinality(Living) <= Cardinality(Kids)
         /\ IsFiniteSet(LateGone) /\ Cardinality(LateGone) \in Nat
         /\ Cardinality(LateGone) <= Cardinality(late)
         /\ IsFiniteSet(late) /\ Cardinality(late) \in Nat /\ Cardinality(Kids) \in Nat
         /\ 1 + Cardinality(Kids) < UINT
<1>1. IsFiniteSet(Kids) /\ Cardinality(Kids) \in Nat
  BY SchedulerAssumption, FS_CardinalityType
<1>2. IsFiniteSet(Living) /\ Cardinality(Living) <= Cardinality(Kids)
  <2>1. Living \in SUBSET Kids
    BY DEF Living
  <2> QED BY <1>1, <2>1, FS_Subset
<1>3. IsFiniteSet(late)
  <2>1. IsFiniteSet(Cpus)
    <3>1. Cpus = 0 .. NumCpus - 1 /\ 0 \in Int /\ NumCpus - 1 \in Int
      BY SchedulerAssumption DEF Cpus
    <3> QED BY <3>1, FS_Interval
  <2>2. late \in SUBSET Cpus
    BY DEF Hatchers
  <2> QED BY <2>1, <2>2, FS_Subset
<1>4. IsFiniteSet(LateGone) /\ Cardinality(LateGone) <= Cardinality(late)
  <2>1. LateGone \in SUBSET late
    BY DEF LateGone
  <2> QED BY <1>3, <2>1, FS_Subset
<1>5. 1 + Cardinality(Kids) < UINT
  BY <1>1, SchedulerAssumption
<1> QED BY <1>1, <1>2, <1>3, <1>4, <1>5, FS_CardinalityType

\* A running thread other than the menu is counted, so the count is not 0.
LEMMA RunnerCounted ==
  ASSUME SchedulerInv, LabelInv, NEW c \in Cpus, pc[c] = "run", c_curthread[c] # Menu,
         at[c_curthread[c]] \in {"user", "exit"}
  PROVE  /\ c_curthread[c] \in Living \/ c_curthread[c] \in late \ LateGone
         /\ CountIsShortByLate /\ Cardinality(late) <= 1 => thread_count >= 1
<1> DEFINE u == c_curthread[c]
<1>1. /\ u \in Threads /\ t_state[u] = "S_RUN" /\ late \subseteq Hatchers
      /\ \A v \in Threads : newthread[v] # NULL => t_state[newthread[v]] = "S_READY"
  BY ActorFacts, TouchedAlive DEF SchedulerInv, RestType
<1>2. ~Dead(u) /\ ~Gone(u) /\ ~Uncounted(u)
  BY <1>1, ThreadFacts DEF Dead, DeadStates, Gone, Uncounted
<1>3. u \in Kids \/ u \in late
  <2>1. u \in Kids \/ u \in Hatchers
    BY <1>1 DEF Threads, Hatchers
  <2> QED BY <1>2, <2>1 DEF LabelInv
<1>4. u \in Living \/ u \in late \ LateGone
  BY <1>2, <1>3 DEF Living, LateGone
<1>5. ASSUME CountIsShortByLate, Cardinality(late) <= 1 PROVE thread_count >= 1
  <2>1. thread_count = 1 + Cardinality(Living) - Cardinality(LateGone)
    BY <1>5 DEF CountIsShortByLate, Living, LateGone
  <2>2. /\ IsFiniteSet(Living) /\ Cardinality(Living) \in Nat /\ Cardinality(LateGone) \in Nat
        /\ Cardinality(LateGone) <= Cardinality(late) /\ IsFiniteSet(late)
        /\ Cardinality(late) \in Nat
    BY <1>1, LivingFinite
  <2>3. CASE u \in Living
    <3>1. Cardinality(Living) # 0
      BY <2>2, <2>3, FS_EmptySet
    <3> QED BY <1>5, <2>1, <2>2, <3>1
  <2>4. CASE u \in late \ LateGone
    <3>1. LateGone \in SUBSET late
      BY DEF LateGone
    <3>2. Cardinality(late) # Cardinality(LateGone)
      BY <2>2, <2>4, <3>1, FS_Subset
    <3> QED BY <1>5, <2>1, <2>2, <3>2
  <2> QED BY <1>4, <2>3, <2>4
<1> QED BY <1>4, <1>5

\* A step that ends and starts no thread keeps the count right.
LEMMA SameCount ==
  ASSUME CountIsShortByLate, UNCHANGED <<late, thread_count>>, Living' = Living,
         LateGone' = LateGone
  PROVE  CountIsShortByLate'
BY DEF CountIsShortByLate, Living, LateGone

\* What such a step is.
LEMMA SameLives ==
  ASSUME late' = late, late \subseteq Threads, \A t \in Threads : Gone(t)' <=> Gone(t),
         \A t \in Kids : Uncounted(t)' <=> Uncounted(t)
  PROVE  Living' = Living /\ LateGone' = LateGone
<1>1. \A k \in Kids : k \in Living' <=> k \in Living
  BY ThreadFacts DEF Living
<1>2. Living' \subseteq Kids /\ Living \subseteq Kids
  BY DEF Living
<1>3. LateGone' = LateGone
  BY DEF LateGone
<1> QED BY <1>1, <1>2, <1>3

\* Every step keeps the count right.
LEMMA CountStep ==
  ASSUME SchedulerInv, LabelInv, CountIsShortByLate, UNCHANGED bootVars, NEW c \in Cpus, CpuStep(c)
  PROVE  CountIsShortByLate'
<1> DEFINE u == c_curthread[c]
<1>0. late' = late /\ late \subseteq Hatchers /\ late \subseteq Threads /\ late \subseteq Cpus
  BY ThreadFacts DEF bootVars, SchedulerInv, RestType, Hatchers
<1>1. /\ at \in [Threads -> ThreadLabels] /\ newthread \in [Threads -> Kids \cup {NULL}]
      /\ u \in Threads
      /\ pc[c] = "run" => ~Dead(u)
      /\ \A v \in Threads : newthread[v] # NULL => newthread[v] \in Threads /\ ~Dead(newthread[v])
      /\ \A v, w \in Threads : newthread[v] # NULL /\ newthread[v] = newthread[w] => v = w
      /\ AtOK /\ thread_count \in 0 .. UINT - 1
  <2>1. /\ at \in [Threads -> ThreadLabels] /\ newthread \in [Threads -> Kids \cup {NULL}]
        /\ u \in Threads
        /\ NewbornOK(newthread, t_state) /\ AtOK /\ thread_count \in 0 .. UINT - 1
    BY TouchedAlive DEF SchedulerInv, RestType, PlaceInv, World, WorldType
  <2>2. pc[c] = "run" => t_state[u] = "S_RUN"
    BY ActorFacts
  <2> QED BY <2>1, <2>2 DEF Dead, DeadStates, NewbornOK
<1>2. \A t : /\ Gone(t) <=> at[t] = "gone" \/ Dead(t)
             /\ Gone(t)' <=> at'[t] = "gone" \/ Dead(t)'
  BY DEF Gone, Dead, DeadStates
<1>3. NULL \notin Kids /\ Kids \subseteq Threads
  BY ThreadFacts
<1>4. CASE Fork(c)
  <2>1. PICK k \in Kids : /\ t_state[k] = "S_FREE" /\ k # u /\ newthread[u] = NULL
                          /\ newthread' = [newthread EXCEPT ![u] = k]
                          /\ at' = [at EXCEPT ![u] = "fork"]
                          /\ \A t \in Threads : Dead(t)' <=> Dead(t) /\ t # k
    BY <1>4, ForkFacts
  <2>2. pc[c] = "run" /\ at[u] = "user" /\ thread_count' = thread_count
    BY <1>4 DEF Fork, Busy, Running
  <2>3. k \notin Living /\ k \notin Living'
    <3>1. Gone(k)
      BY <1>2, <2>1 DEF Dead, DeadStates
    <3>2. newthread'[u] = k /\ at'[u] = "fork"
      BY <1>1, <2>1
    <3> QED BY <1>1, <3>1, <3>2 DEF Living, Uncounted
  <2>4. \A t \in Threads : t # k => (Gone(t)' <=> Gone(t))
    BY <1>1, <1>2, <2>1, <2>2
  <2>5. \A t \in Kids : t # k => (Uncounted(t)' <=> Uncounted(t))
    BY <1>1, <1>3, <2>1, <2>2 DEF Uncounted
  <2>6. LateGone' = LateGone
    <3>1. k \notin late
      BY <1>0, <2>1, ThreadFacts
    <3> QED BY <1>0, <2>4, <3>1 DEF LateGone
  <2>7. \A t \in Kids : t \in Living' <=> t \in Living
    BY <1>3, <2>3, <2>4, <2>5 DEF Living
  <2>8. Living' = Living
    <3>1. Living' \subseteq Kids /\ Living \subseteq Kids
      BY DEF Living
    <3> QED BY <2>7, <3>1
  <2> QED BY <1>0, <2>2, <2>6, <2>8, SameCount
<1>5. CASE ForkCount(c)
  <2> DEFINE k == newthread[u]
  <2>1. /\ pc[c] = "run" /\ at[u] = "fork" /\ at' = [at EXCEPT ![u] = "born"]
        /\ newthread' = newthread
        /\ thread_count' = (thread_count + 1) % UINT
    BY <1>5 DEF ForkCount, Running, Goto
  <2>2. k \in Kids /\ k # NULL /\ ~Dead(k) /\ at[k] = "user" /\ k # u
    BY <1>1, <2>1 DEF AtOK, LabelInv
  <2>3. ~Fork(c) /\ ~ExitSwitch(c)
    BY <2>1 DEF Fork, ExitSwitch, Busy, Running
  <2>4. \A t \in Threads : Gone(t)' <=> Gone(t)
    BY <1>1, <1>2, <2>1, <2>3, Mortality
  <2>5. Uncounted(k) /\ ~Gone(k)
    BY <1>1, <1>2, <2>1, <2>2 DEF Uncounted
  <2>6. \A t \in Kids : Uncounted(t)' <=> Uncounted(t) /\ t # k
    BY <1>1, <1>3, <2>1, <2>2 DEF Uncounted
  <2>7. Living' = Living \cup {k} /\ k \notin Living
    <3>1. k \notin Living
      BY <2>5 DEF Living
    <3>2. \A t \in Kids : t \in Living' <=> t \in Living \/ t = k
      BY <1>3, <2>2, <2>4, <2>5, <2>6 DEF Living
    <3>3. Living' \subseteq Kids /\ Living \subseteq Kids
      BY DEF Living
    <3> QED BY <2>2, <3>1, <3>2, <3>3
  <2>8. LateGone' = LateGone
    BY <1>0, <2>4 DEF LateGone
  <2> HIDE DEF k
  <2>9. SUFFICES ASSUME Cardinality(late) <= 1
                 PROVE  thread_count' = 1 + Cardinality(Living') - Cardinality(LateGone')
    BY <1>0 DEF CountIsShortByLate, Living, LateGone
  <2>10. thread_count = 1 + Cardinality(Living) - Cardinality(LateGone)
    BY <2>9 DEF CountIsShortByLate, Living, LateGone
  <2>11. /\ Cardinality(Living) \in Nat /\ Cardinality(LateGone) \in Nat
         /\ Cardinality(Kids) \in Nat /\ 1 + Cardinality(Kids) < UINT /\ IsFiniteSet(Living)
    BY <1>0, LivingFinite
  <2>12. Cardinality(Living') = Cardinality(Living) + 1
    BY <2>7, <2>11, FS_AddElement
  <2>13. Cardinality(Living') <= Cardinality(Kids)
    <3>1. Living' \in SUBSET Kids /\ IsFiniteSet(Kids)
      BY SchedulerAssumption DEF Living
    <3> QED BY <3>1, FS_Subset
  <2>14. thread_count + 1 \in 0 .. UINT - 1
    <3> DEFINE n == Cardinality(Living')
               a == Cardinality(Kids)
    <3>1. n <= a /\ thread_count + 1 <= 1 + n /\ n \in Nat /\ thread_count \in Nat
      BY <1>1, <2>10, <2>11, <2>12, <2>13
    <3>2. a \in Nat /\ UINT \in Nat /\ 1 + a < UINT
      BY <2>11, SchedulerAssumption
    <3> HIDE DEF n, a
    <3> QED BY <3>1, <3>2
  <2>15. thread_count' = thread_count + 1
    <3>1. UINT \in Nat /\ UINT > 0
      BY <2>11, SchedulerAssumption
    <3> QED BY <2>1, <2>14, <3>1
  <2> QED BY <2>8, <2>10, <2>11, <2>12, <2>15
<1>6. CASE ExitCount(c)
  <2>1. /\ pc[c] = "run" /\ at[u] = "exit" /\ at' = [at EXCEPT ![u] = "gone"]
        /\ newthread' = newthread
        /\ thread_count' = (thread_count - 1) % UINT
    BY <1>6 DEF ExitCount, Running, Goto, Down
  <2>2. u # Menu /\ ~Dead(u) /\ at'[u] = "gone"
    BY <1>1, <2>1 DEF AtOK
  <2>3. ~Fork(c) /\ ~ExitSwitch(c)
    BY <2>1 DEF Fork, ExitSwitch, Busy, Running
  <2>4. \A t \in Threads : Gone(t)' <=> Gone(t) \/ t = u
    BY <1>1, <1>2, <2>1, <2>2, <2>3, Mortality
  <2>5. \A t \in Kids : Uncounted(t)' <=> Uncounted(t)
    BY <1>1, <2>1 DEF Uncounted
  <2>6. u \in Living \/ u \in late \ LateGone
    BY <2>1, <2>2, RunnerCounted
  <2>7. Living' = Living \ {u}
    <3>1. \A t \in Kids : t \in Living' <=> t \in Living /\ t # u
      BY <1>3, <2>4, <2>5 DEF Living
    <3>2. Living' \subseteq Kids /\ Living \subseteq Kids
      BY DEF Living
    <3> QED BY <3>1, <3>2
  <2>8. LateGone' = IF u \in late THEN LateGone \cup {u} ELSE LateGone
    BY <1>0, <2>4 DEF LateGone
  <2>9. u \in Living => u \notin late
    BY <1>0, ThreadFacts DEF Living
  <2>10. SUFFICES ASSUME Cardinality(late) <= 1
                  PROVE  thread_count' = 1 + Cardinality(Living') - Cardinality(LateGone')
    BY <1>0 DEF CountIsShortByLate, Living, LateGone
  <2>11. thread_count = 1 + Cardinality(Living) - Cardinality(LateGone)
    BY <2>10 DEF CountIsShortByLate, Living, LateGone
  <2>12. /\ Cardinality(Living) \in Nat /\ Cardinality(LateGone) \in Nat
         /\ IsFiniteSet(Living) /\ IsFiniteSet(LateGone)
    BY <1>0, LivingFinite
  <2>13. thread_count' = thread_count - 1
    <3>1. thread_count >= 1
      BY <2>1, <2>2, <2>10, RunnerCounted
    <3>2. UINT \in Nat /\ thread_count - 1 \in 0 .. UINT - 1
      BY <1>1, <3>1, SchedulerAssumption
    <3> QED BY <2>1, <3>2
  <2>14. CASE u \in Living
    <3>1. Cardinality(Living') = Cardinality(Living) - 1 /\ LateGone' = LateGone
      BY <2>7, <2>8, <2>9, <2>12, <2>14, FS_RemoveElement
    <3> QED BY <2>11, <2>12, <2>13, <3>1
  <2>15. CASE u \in late \ LateGone
    <3>1. Living' = Living
      BY <2>7, <2>9, <2>15
    <3>2. Cardinality(LateGone') = Cardinality(LateGone) + 1
      BY <2>8, <2>12, <2>15, FS_AddElement
    <3> QED BY <2>11, <2>12, <2>13, <3>1, <3>2
  <2> QED BY <2>6, <2>14, <2>15
<1>7. CASE Exit(c)
  <2>1. /\ pc[c] = "run" /\ at[u] = "user" /\ u # Menu /\ newthread' = newthread
        /\ thread_count' = thread_count
        /\ at' = [at EXCEPT ![u] = IF thread_count # 0 THEN "exit" ELSE "gone"]
    BY <1>7 DEF Exit, Running, Goto, countVars
  <2>2. CASE Cardinality(late) <= 1
    <3>1. thread_count >= 1
      BY <2>1, <2>2, RunnerCounted
    <3>0. thread_count # 0
      BY <1>1, <3>1
    <3>2. at' = [at EXCEPT ![u] = "exit"]
      BY <2>1, <3>0
    <3>3. ~Fork(c) /\ ~ExitSwitch(c)
      <4>1. Fork(c) => at' = [at EXCEPT ![u] = "fork"]
        BY DEF Fork, Goto
      <4>2. ExitSwitch(c) => at[u] = "gone"
        BY DEF ExitSwitch, Running
      <4>3. at'[u] = "exit" /\ (Fork(c) => at'[u] = "fork")
        BY <1>1, <3>2, <4>1
      <4> QED BY <2>1, <4>2, <4>3
    <3>4. \A t \in Threads : Gone(t)' <=> Gone(t)
      BY <1>1, <1>2, <2>1, <3>2, <3>3, Mortality
    <3>5. \A t \in Kids : Uncounted(t)' <=> Uncounted(t)
      BY <1>1, <2>1, <3>2 DEF Uncounted
    <3> QED BY <1>0, <2>1, <3>4, <3>5, SameLives, SameCount
  <2>3. CASE ~(Cardinality(late) <= 1)
    BY <1>0, <2>3 DEF CountIsShortByLate
  <2> QED BY <2>2, <2>3
<1>8. CASE ExitSwitch(c)
  <2>1. /\ pc[c] = "run" /\ at[u] = "gone" /\ at' = [at EXCEPT ![u] = "user"]
        /\ newthread' = newthread /\ thread_count' = thread_count
    BY <1>8 DEF ExitSwitch, Running, Goto, countVars
  <2>2. \A t \in Threads : Gone(t)' <=> Gone(t)
    BY <1>1, <1>2, <1>8, <2>1, ExitKills
  <2>3. \A t \in Kids : Uncounted(t)' <=> Uncounted(t)
    BY <1>1, <2>1 DEF Uncounted
  <2> QED BY <1>0, <2>1, <2>2, <2>3, SameLives, SameCount
<1>9. CASE ForkReady(c)
  <2>1. /\ pc[c] = "run" /\ at[u] = "born" /\ newthread' = [newthread EXCEPT ![u] = NULL]
        /\ thread_count' = thread_count
        /\ \E l \in {"user", "wait"} : at' = [at EXCEPT ![u] = l]
    BY <1>9 DEF ForkReady, Running, Goto, countVars
  <2>2. ~Fork(c) /\ ~ExitSwitch(c)
    BY <2>1 DEF Fork, ExitSwitch, Busy, Running
  <2>3. \A t \in Threads : Gone(t)' <=> Gone(t)
    BY <1>1, <1>2, <2>1, <2>2, Mortality
  <2>4. \A t \in Kids : Uncounted(t)' <=> Uncounted(t)
    BY <1>1, <1>3, <2>1 DEF Uncounted
  <2> QED BY <1>0, <2>1, <2>3, <2>4, SameLives, SameCount
<1>10. CASE WaitForCount(c)
  <2>1. /\ at[u] = "wait" /\ newthread' = newthread /\ thread_count' = thread_count
        /\ at' = at \/ at' = [at EXCEPT ![u] = "user"]
    BY <1>10 DEF WaitForCount, Running, Goto
  <2>2. ~Fork(c) /\ ~ExitSwitch(c)
    BY <2>1 DEF Fork, ExitSwitch, Busy, Running
  <2>3. \A t \in Threads : Gone(t)' <=> Gone(t)
    BY <1>1, <1>2, <2>1, <2>2, Mortality
  <2>4. \A t \in Kids : Uncounted(t)' <=> Uncounted(t)
    BY <1>1, <2>1 DEF Uncounted
  <2> QED BY <1>0, <2>1, <2>3, <2>4, SameLives, SameCount
<1>11. CASE ~(Fork(c) \/ ForkCount(c) \/ ExitCount(c) \/ ForkReady(c) \/ WaitForCount(c) \/ Exit(c) \/ ExitSwitch(c))
  <2>1. UNCHANGED <<at, newthread, thread_count>>
    BY <1>11, QuietSteps
  <2>2. \A t \in Threads : Gone(t)' <=> Gone(t)
    BY <1>2, <1>11, <2>1, Mortality
  <2>3. \A t \in Kids : Uncounted(t)' <=> Uncounted(t)
    BY <2>1 DEF Uncounted
  <2> QED BY <1>0, <2>1, <2>2, <2>3, SameLives, SameCount
<1> QED BY <1>4, <1>5, <1>6, <1>7, <1>8, <1>9, <1>10, <1>11

\* At boot only the menu and the boot threads that were not waited for live.
LEMMA FirstLives ==
  ASSUME Init
  PROVE  /\ LabelInv
         /\ \A k \in Kids : Dead(k)
         /\ \A c \in late : ~Dead(c)
<1>1. /\ at = [t \in Threads |-> "user"] /\ newthread = [t \in Threads |-> NULL]
      /\ late \subseteq Hatchers /\ (aging => late = {}) /\ aging \in BOOLEAN
  BY DEF Init
<1>2. \A c \in Hatchers : c \in Cpus /\ c \in Threads /\ c # Menu /\ c \notin Kids
  BY ThreadFacts DEF Hatchers
<1>3. t_state = [t \in Threads |->
                   IF t \in Kids \/ t \notin Online THEN "S_FREE"
                   ELSE IF pc[t] = "run" THEN "S_RUN" ELSE "S_ZOMBIE"]
  BY DEF Init
<1>4. pc = [c \in Cpus |-> IF c \notin Online THEN "off"
                           ELSE IF c \in {Menu} \cup late THEN "run" ELSE "idle"]
  BY DEF Init
<1>5. late \subseteq Online
  BY <1>1, <1>2 DEF Online
<1>6. \A k \in Kids : Dead(k)
  BY <1>3, ThreadFacts DEF Dead, DeadStates
<1>7. \A c \in Hatchers \ late : Dead(c)
  BY <1>2, <1>3, <1>4 DEF Dead, DeadStates
<1>8. \A c \in late : pc[c] = "run"
  BY <1>1, <1>2, <1>4, <1>5
<1>9. \A c \in late : t_state[c] = "S_RUN"
  BY <1>1, <1>2, <1>3, <1>5, <1>8
<1>10. \A c \in late : ~Dead(c)
  BY <1>9 DEF Dead, DeadStates
<1>11. LabelInv
  BY <1>1, <1>7 DEF LabelInv
<1> QED BY <1>6, <1>10, <1>11

\* A thread that is not there, or not yet, has no place in the code of thread_fork,
\* thread_wait_for_count and thread_exit.
THEOREM LabelInvariant == Spec => []LabelInv
<1>1. Init => LabelInv
  BY FirstLives
<1>2. SchedulerInv /\ LabelInv /\ [Next]_vars => LabelInv'
  <2> SUFFICES ASSUME SchedulerInv, LabelInv, [Next]_vars PROVE LabelInv'
    OBVIOUS
  <2>1. CASE Next
    <3>1. PICK c \in Cpus : CpuStep(c)
      BY <2>1 DEF Next
    <3>2. UNCHANGED bootVars
      BY <2>1 DEF Next
    <3> QED BY <3>1, <3>2, LabelStep
  <2>2. CASE UNCHANGED vars
    <3>1. UNCHANGED <<late, t_state, at, newthread>>
      BY <2>2 DEF vars, bootVars
    <3> QED BY <3>1 DEF LabelInv, Dead
  <2> QED BY <2>1, <2>2
<1> QED BY <1>1, <1>2, SchedulerInvariant, PTL DEF Spec

\* How far the count that thread_wait_for_count compares is off when a boot thread was
\* late: it is the number of threads that have been forked and have not exited, the menu
\* among them, less one from the moment the boot thread has exited, for good.
THEOREM CountShort == Spec => []CountIsShortByLate
<1>1. Init => CountIsShortByLate
  <2> SUFFICES ASSUME Init PROVE CountIsShortByLate
    OBVIOUS
  <2>1. /\ at = [t \in Threads |-> "user"] /\ thread_count = 1 /\ late \subseteq Hatchers
    BY DEF Init
  <2>2. (\A k \in Kids : Dead(k)) /\ (\A c \in late : ~Dead(c))
    BY FirstLives
  <2>3. \A t \in Threads : Gone(t) <=> Dead(t)
    BY <2>1 DEF Gone, Dead, DeadStates
  <2>4. Kids \subseteq Threads /\ late \subseteq Threads
    BY <2>1, ThreadFacts DEF Hatchers
  <2>5. Living = {} /\ LateGone = {}
    BY <2>2, <2>3, <2>4 DEF Living, LateGone
  <2>6. Cardinality(Living) = 0 /\ Cardinality(LateGone) = 0
    BY <2>5, FS_EmptySet
  <2> QED BY <2>1, <2>6 DEF CountIsShortByLate, Living, LateGone
<1>2. SchedulerInv /\ LabelInv /\ CountIsShortByLate /\ [Next]_vars => CountIsShortByLate'
  <2> SUFFICES ASSUME SchedulerInv, LabelInv, CountIsShortByLate, [Next]_vars PROVE CountIsShortByLate'
    OBVIOUS
  <2>1. CASE Next
    <3>1. PICK c \in Cpus : CpuStep(c)
      BY <2>1 DEF Next
    <3>2. UNCHANGED bootVars
      BY <2>1 DEF Next
    <3> QED BY <3>1, <3>2, CountStep
  <2>2. CASE UNCHANGED vars
    <3>1. UNCHANGED <<late, t_state, at, newthread, thread_count>>
      BY <2>2 DEF vars, bootVars, countVars
    <3> QED BY <3>1 DEF CountIsShortByLate, Living, LateGone, Gone, Uncounted
  <2> QED BY <2>1, <2>2
<1> QED BY <1>1, <1>2, SchedulerInvariant, LabelInvariant, PTL DEF Spec

\* The count is right if no boot thread was late, as the comment at thread.c:451 assumes.
THEOREM CountRight == Spec => []CountIsRight
<1>1. CountIsShortByLate => CountIsRight
  <2> SUFFICES ASSUME CountIsShortByLate, late = {}
               PROVE  thread_count = 1 + Cardinality(Living)
    BY DEF CountIsRight, Living
  <2>1. LateGone = {} /\ Cardinality(late) = 0 /\ Cardinality(LateGone) = 0
    BY FS_EmptySet DEF LateGone
  <2>2. Cardinality(Living) \in Nat
    BY LivingFinite
  <2> QED BY <2>1, <2>2 DEF CountIsShortByLate
<1> QED BY <1>1, CountShort, PTL

-----------------------------------------------------------------------------
(***************************************************************************)
(* The waiting times of the final kernel.  Load puts the ticks a thread    *)
(* has waited and its place in the run queue into one number.  A tick      *)
(* lowers it by one, the tick with schedule() raises it by no more than    *)
(* SCHEDULE_HARDCLOCKS - 1, which Limit allows for by the ticks since the  *)
(* last one.                                                               *)
(***************************************************************************)
Load(w, i) == (SCHEDULE_HARDCLOCKS - 1) * w + SCHEDULE_HARDCLOCKS * i
Limit(ph) == SCHEDULE_HARDCLOCKS * Cardinality(Kids) + SCHEDULE_HARDCLOCKS - 1 - ph

Patient(idle, q, w, ph) ==
    /\ \A t \in Threads : ~In(t, q) => w[t] = 0
    /\ idle => \A t \in Threads : w[t] = 0
    /\ ~idle => \A i \in DOMAIN q : Load(w[q[i]], i) <= Limit(ph)

\* Everyone on q has waited no longer than the limit allows one place further ahead.
Due(q, w, ph) == \A i \in DOMAIN q : Load(w[q[i]], i - 1) <= Limit(ph)

\* How a tick and a change of place change the load.
LEMMA LoadFacts ==
  ASSUME NEW w \in Nat, NEW i \in Int
  PROVE  /\ Load(w, i) \in Int
         /\ Load(w, i - 1) = Load(w, i) - SCHEDULE_HARDCLOCKS
         /\ Load(w + 1, i) = Load(w, i) + SCHEDULE_HARDCLOCKS - 1
         /\ \A j \in Int : i <= j => Load(w, i) <= Load(w, j)
<1> DEFINE S == SCHEDULE_HARDCLOCKS
<1>1. S \in Nat /\ S - 1 \in Nat
  BY SchedulerAssumption
<1> HIDE DEF S
<1>2. (S - 1) * w \in Int /\ S * i \in Int
  BY <1>1
<1>3. S * (i - 1) = S * i - S
  BY <1>1
<1>4. (S - 1) * (w + 1) = (S - 1) * w + (S - 1)
  BY <1>1
<1>5. ASSUME NEW j \in Int, i <= j PROVE Load(w, i) <= Load(w, j)
  <2>1. S * i <= S * j /\ S * j \in Int
    BY <1>1, <1>5, TimesMore
  <2> QED BY <1>2, <2>1 DEF Load, S
<1> QED BY <1>1, <1>2, <1>3, <1>4, <1>5 DEF Load, S

\* How the limit changes in the course of SCHEDULE_HARDCLOCKS ticks.
LEMMA LimitFacts ==
  ASSUME NEW ph \in 0 .. SCHEDULE_HARDCLOCKS - 1
  PROVE  /\ Limit(ph) \in Int /\ Limit(ph + 1) = Limit(ph) - 1 /\ Limit(ph) <= Limit(0)
         /\ Limit(0) = Limit(SCHEDULE_HARDCLOCKS - 1) + SCHEDULE_HARDCLOCKS - 1
         /\ \A i \in Int : i <= Cardinality(Kids) => Load(0, i) <= Limit(ph)
<1> DEFINE S == SCHEDULE_HARDCLOCKS
           n == Cardinality(Kids)
<1>1. S \in Nat /\ S - 1 \in Nat /\ n \in Nat /\ ph \in 0 .. S - 1
  BY SchedulerAssumption, FS_CardinalityType
<1> HIDE DEF S, n
<1>2. S * n \in Int
  BY <1>1
<1>3. ASSUME NEW i \in Int, i <= n PROVE Load(0, i) <= Limit(ph)
  <2>1. S * i <= S * n /\ S * i \in Int
    BY <1>1, <1>3, TimesMore
  <2>2. (S - 1) * 0 = 0
    BY <1>1
  <2> QED BY <1>1, <1>2, <2>1, <2>2 DEF Load, Limit, S, n
<1> QED BY <1>1, <1>2, <1>3 DEF Limit, S, n

\* The last one of n threads is never more than n * SCHEDULE_HARDCLOCKS away.
LEMMA PatienceHolds ==
  ASSUME NEW w \in Nat, NEW i \in Nat \ {0}, NEW ph \in 0 .. SCHEDULE_HARDCLOCKS - 1,
         Load(w, i) <= Limit(ph)
  PROVE  w < Patience
<1> DEFINE S == SCHEDULE_HARDCLOCKS
           n == Cardinality(Kids)
           d == ((n - 1) * S) \div (S - 1)
           r == ((n - 1) * S) % (S - 1)
<1>1. S \in Nat /\ S - 1 \in Nat \ {0} /\ n \in Nat /\ ph \in 0 .. S - 1
  BY SchedulerAssumption, FS_CardinalityType
<1>2. (n - 1) * S \in Int
  BY <1>1
<1>3. d \in Int /\ r \in 0 .. S - 1 - 1 /\ (n - 1) * S = (S - 1) * d + r
  <2> DEFINE a == (n - 1) * S
             b == S - 1
  <2>1. a \in Int /\ b \in Nat /\ b > 0
    BY <1>1, <1>2
  <2> HIDE DEF a, b, S, n
  <2>2. a \div b \in Int /\ a % b \in 0 .. b - 1 /\ a = b * (a \div b) + (a % b)
    BY <2>1, DivMod, Zenon
  <2> QED BY <2>2, Zenon DEF a, b, d, r
<1>4. Patience = d + 2
  BY DEF Patience
<1> HIDE DEF S, n, d, r
<1>5. (S - 1) * w + S * i <= S * n + S - 1 - ph
  BY DEF Load, Limit, S, n
<1>6. S * 1 <= S * i /\ S * i \in Int /\ S * 1 = S /\ (n - 1) * S = S * n - S /\ S * n \in Int
  BY <1>1, TimesMore
<1>7. (S - 1) * w \in Int /\ (S - 1) * d \in Int /\ (S - 1) * (d + 2) = (S - 1) * d + (S - 1) + (S - 1)
  BY <1>1, <1>3
<1>8. (S - 1) * w < (S - 1) * (d + 2)
  BY <1>1, <1>3, <1>5, <1>6, <1>7
<1>9. ~(d + 2 <= w)
  <2>1. d + 2 <= w => (S - 1) * (d + 2) <= (S - 1) * w
    BY <1>1, <1>3, TimesMore
  <2> QED BY <1>1, <1>3, <1>7, <1>8, <2>1
<1> QED BY <1>3, <1>4, <1>9

\* A thread that has not waited can be.
LEMMA PatiencePositive == Patience \in Int /\ 0 < Patience
<1> DEFINE S == SCHEDULE_HARDCLOCKS
           n == Cardinality(Kids)
<1>1. S \in Nat /\ S - 1 \in Nat \ {0} /\ n \in Nat /\ n # 0
  BY SchedulerAssumption, FS_CardinalityType, FS_EmptySet
<1>2. Patience = ((n - 1) * S) \div (S - 1) + 2
  BY DEF Patience
<1> HIDE DEF S, n
<1>3. n - 1 \in Nat /\ (n - 1) * S \in Nat
  BY <1>1
<1>4. ((n - 1) * S) \div (S - 1) \in Nat
  BY <1>1, <1>3
<1> QED BY <1>2, <1>4

\* Threads that have not waited are due, wherever there is room.
LEMMA NewIsDue ==
  ASSUME NEW q \in Seq(Threads), NEW w, \A i \in DOMAIN q : w[q[i]] = 0,
         Len(q) <= Cardinality(Kids) + 1, NEW ph \in 0 .. SCHEDULE_HARDCLOCKS - 1
  PROVE  Due(q, w, ph)
<1> SUFFICES ASSUME NEW i \in DOMAIN q PROVE Load(w[q[i]], i - 1) <= Limit(ph)
  BY DEF Due
<1>1. i - 1 \in Int /\ i - 1 <= Cardinality(Kids) /\ w[q[i]] = 0
  <2>1. Cardinality(Kids) \in Nat
    BY SchedulerAssumption, FS_CardinalityType
  <2>2. i \in 1 .. Len(q) /\ Len(q) \in Nat
    OBVIOUS
  <2> QED BY <2>1, <2>2
<1> QED BY <1>1, LimitFacts, Zenon

\* A patient queue is due.
LEMMA PatientIsDue ==
  ASSUME NEW q \in Seq(Threads), NEW w \in [Threads -> Nat], NEW ph \in 0 .. SCHEDULE_HARDCLOCKS - 1,
         Patient(FALSE, q, w, ph)
  PROVE  Due(q, w, ph)
<1> SUFFICES ASSUME NEW i \in DOMAIN q PROVE Load(w[q[i]], i - 1) <= Limit(ph)
  BY DEF Due
<1>1. i \in Int /\ w[q[i]] \in Nat /\ SCHEDULE_HARDCLOCKS \in Nat
  BY SchedulerAssumption
<1>2. Load(w[q[i]], i) <= Limit(ph)
  BY DEF Patient
<1>3. Load(w[q[i]], i) \in Int /\ Load(w[q[i]], i - 1) = Load(w[q[i]], i) - SCHEDULE_HARDCLOCKS
  BY <1>1, LoadFacts
<1>4. Limit(ph) \in Int
  BY LimitFacts
<1> QED BY <1>1, <1>2, <1>3, <1>4

\* The thread that goes to the end of the queue is due.
LEMMA DueGrows ==
  ASSUME NEW q \in Seq(Threads), NEW t \in Threads, NEW w, w[t] = 0, Len(q) <= Cardinality(Kids),
         NEW ph \in 0 .. SCHEDULE_HARDCLOCKS - 1, Due(q, w, ph)
  PROVE  Due(Append(q, t), w, ph)
<1> DEFINE r == Append(q, t)
<1>1. /\ DOMAIN r = 1 .. Len(q) + 1 /\ r[Len(q) + 1] = t /\ \A i \in 1 .. Len(q) : r[i] = q[i]
      /\ Len(q) \in Nat /\ DOMAIN q = 1 .. Len(q)
  OBVIOUS
<1> HIDE DEF r
<1>2. ASSUME NEW i \in 1 .. Len(q) + 1 PROVE Load(w[r[i]], i - 1) <= Limit(ph)
  <2>1. CASE i = Len(q) + 1
    <3>1. i - 1 = Len(q) /\ i - 1 \in Int /\ r[i] = t
      BY <1>1, <2>1
    <3> QED BY <3>1, LimitFacts, Zenon
  <2>2. CASE i # Len(q) + 1
    <3>1. i \in DOMAIN q /\ r[i] = q[i]
      BY <1>1, <1>2, <2>2
    <3> QED BY <3>1 DEF Due
  <2> QED BY <2>1, <2>2
<1>3. Due(r, w, ph)
  BY <1>1, <1>2 DEF Due
<1> QED BY <1>3 DEF r

\* The first thread of a queue that is due is chosen.
LEMMA FirstIsChosen ==
  ASSUME NEW q \in Seq(Threads), q # <<>>, Once(q), NEW w \in [Threads -> Nat], NEW ph,
         \A t \in Threads : ~In(t, q) => w[t] = 0, Due(q, w, ph)
  PROVE  Patient(FALSE, Tail(q), [w EXCEPT ![Head(q)] = 0], ph)
<1> DEFINE h == Head(q)
           r == Tail(q)
           v == [w EXCEPT ![h] = 0]
<1>1. h \in Threads /\ In(h, q)
  BY InHead
<1>2. ~In(h, r) /\ \A x : In(x, q) <=> In(x, r) \/ x = h
  BY OnceTail
<1>3. /\ r \in Seq(Threads) /\ DOMAIN r = 1 .. Len(r) /\ Len(r) \in Nat
      /\ \A i \in 1 .. Len(r) : i + 1 \in DOMAIN q /\ (i + 1) - 1 = i
  OBVIOUS
<1>4. \A i \in 1 .. Len(r) : r[i] = q[i + 1]
  OBVIOUS
<1> HIDE DEF h, r
<1>5. \A t \in Threads : v[t] = IF t = h THEN 0 ELSE w[t]
  BY <1>1
<1> HIDE DEF v
<1>6. \A t \in Threads : ~In(t, r) => v[t] = 0
  BY <1>2, <1>5
<1>7. ASSUME NEW i \in 1 .. Len(r) PROVE Load(v[r[i]], i) <= Limit(ph)
  <2>0. i \in DOMAIN r /\ r[i] = r[i]
    BY <1>3, <1>7
  <2>1. r[i] \in Threads /\ In(r[i], r)
    BY <1>3, <2>0 DEF In
  <2>2. v[r[i]] = w[q[i + 1]]
    BY <1>2, <1>4, <1>5, <2>1
  <2> QED BY <1>3, <2>2 DEF Due
<1>8. Patient(FALSE, r, v, ph)
  BY <1>3, <1>6, <1>7 DEF Patient
<1> QED BY <1>8 DEF h, r, v

\* A thread that becomes ready goes to the end.
LEMMA PatientGrows ==
  ASSUME NEW q \in Seq(Threads), NEW t \in Threads, ~In(t, q), NEW w \in [Threads -> Nat],
         NEW idle \in BOOLEAN, ~idle => Len(q) + 1 <= Cardinality(Kids),
         NEW ph \in 0 .. SCHEDULE_HARDCLOCKS - 1, Patient(idle, q, w, ph)
  PROVE  Patient(idle, Append(q, t), w, ph)
<1> DEFINE r == Append(q, t)
<1>1. /\ DOMAIN r = 1 .. Len(q) + 1 /\ r[Len(q) + 1] = t /\ \A i \in 1 .. Len(q) : r[i] = q[i]
      /\ Len(q) \in Nat /\ DOMAIN q = 1 .. Len(q)
  OBVIOUS
<1>2. \A x : In(x, q) => In(x, r)
  BY <1>1 DEF In
<1> HIDE DEF r
<1>3. \A x \in Threads : ~In(x, r) => w[x] = 0
  BY <1>2 DEF Patient
<1>4. w[t] = 0
  BY DEF Patient
<1>5. ASSUME ~idle, NEW i \in 1 .. Len(q) + 1 PROVE Load(w[r[i]], i) <= Limit(ph)
  <2>1. CASE i = Len(q) + 1
    <3>1. i \in Int /\ i <= Cardinality(Kids) /\ r[i] = t
      BY <1>1, <1>5, <2>1
    <3> QED BY <1>4, <3>1, LimitFacts, Zenon
  <2>2. CASE i # Len(q) + 1
    <3>1. i \in DOMAIN q /\ r[i] = q[i]
      BY <1>1, <1>5, <2>2
    <3> QED BY <1>5, <3>1 DEF Patient
  <2> QED BY <2>1, <2>2
<1>6. Patient(idle, r, w, ph)
  BY <1>1, <1>3, <1>5 DEF Patient
<1> QED BY <1>6 DEF r

\* schedule() moves a thread back by one place at most.
LEMMA SortedNear ==
  ASSUME NEW q \in Seq(Threads), NEW p, NEW i \in DOMAIN q
  PROVE  \E j \in DOMAIN q : Sorted(q, p)[i] = q[j] /\ i - 1 <= j
<1> DEFINE f == Swaps(q, p)
<1>1. DOMAIN q = 1 .. Len(q) /\ Len(q) \in Nat /\ i \in 1 .. Len(q)
  OBVIOUS
<1>2. f[i] => i < Len(q)
  BY SwapsIs DEF SwapAt
<1>3. Sorted(q, p)[i] = IF f[i] THEN q[i + 1] ELSE IF i > 1 /\ f[i - 1] THEN q[i - 1] ELSE q[i]
  BY DEF Sorted
<1> HIDE DEF f
<1>4. CASE f[i]
  <2>1. i + 1 \in DOMAIN q /\ i - 1 <= i + 1
    BY <1>1, <1>2, <1>4
  <2> QED BY <1>3, <1>4, <2>1
<1>5. CASE ~f[i] /\ i > 1 /\ f[i - 1]
  <2>1. i - 1 \in DOMAIN q /\ i - 1 <= i - 1
    BY <1>1, <1>5
  <2> QED BY <1>3, <1>5, <2>1
<1>6. CASE ~f[i] /\ ~(i > 1 /\ f[i - 1])
  <2>1. i - 1 <= i
    BY <1>1
  <2> QED BY <1>3, <1>6, <2>1
<1> QED BY <1>4, <1>5, <1>6

\* The waiting times after a tick, for those on queue q.
Older(q, w) == [t \in Threads |-> IF \E i \in DOMAIN q : q[i] = t THEN w[t] + 1 ELSE w[t]]

\* The load after a tick without and with schedule().
LEMMA OlderLoads ==
  ASSUME NEW w \in Nat, NEW i \in Int
  PROVE  Load(w + 1, i - 1) = Load(w, i) - 1 /\ Load(w + 1, i) = Load(w, i) + SCHEDULE_HARDCLOCKS - 1
<1>1. /\ Load(w, i) \in Int /\ Load(w, i - 1) \in Int /\ i - 1 \in Int
      /\ Load(w, i - 1) = Load(w, i) - SCHEDULE_HARDCLOCKS
      /\ Load(w + 1, i) = Load(w, i) + SCHEDULE_HARDCLOCKS - 1
  BY LoadFacts
<1>2. Load(w + 1, i - 1) = Load(w, i - 1) + SCHEDULE_HARDCLOCKS - 1
  BY <1>1, LoadFacts
<1> QED BY <1>1, <1>2, SchedulerAssumption

\* After a tick everyone is due.
LEMMA TickIsDue ==
  ASSUME NEW q \in Seq(Threads), NEW w \in [Threads -> Nat], NEW ph \in 0 .. SCHEDULE_HARDCLOCKS - 1,
         Patient(FALSE, q, w, ph)
  PROVE  /\ ph # SCHEDULE_HARDCLOCKS - 1 => Due(q, Older(q, w), ph + 1)
         /\ ph = SCHEDULE_HARDCLOCKS - 1 =>
                \A p : Due(Sorted(q, p), Older(Sorted(q, p), w), 0)
<1> DEFINE S == SCHEDULE_HARDCLOCKS
<1>1. S \in Nat /\ DOMAIN q = 1 .. Len(q) /\ Len(q) \in Nat
  BY SchedulerAssumption
<1>2. \A i \in DOMAIN q : q[i] \in Threads /\ w[q[i]] \in Nat /\ i \in Int /\ Load(w[q[i]], i) <= Limit(ph)
  BY <1>1 DEF Patient
<1>3. Limit(ph) \in Int /\ Limit(ph + 1) = Limit(ph) - 1 /\ (ph = S - 1 => Limit(0) = Limit(ph) + S - 1)
  BY LimitFacts
<1> HIDE DEF S
<1>4. ASSUME NEW i \in DOMAIN q PROVE Load(Older(q, w)[q[i]], i - 1) <= Limit(ph + 1)
  <2>1. Older(q, w)[q[i]] = w[q[i]] + 1
    BY <1>2, <1>4 DEF Older
  <2>2. Load(w[q[i]] + 1, i - 1) = Load(w[q[i]], i) - 1 /\ Load(w[q[i]], i) \in Int
    BY <1>2, OlderLoads, LoadFacts
  <2> QED BY <1>2, <1>3, <2>1, <2>2
<1>5. Due(q, Older(q, w), ph + 1)
  BY <1>4 DEF Due
<1>6. ASSUME ph = S - 1, NEW p PROVE Due(Sorted(q, p), Older(Sorted(q, p), w), 0)
  <2> DEFINE r == Sorted(q, p)
  <2>1. r \in Seq(Threads) /\ Len(r) = Len(q)
    BY SortedKeeps
  <2>2. DOMAIN r = DOMAIN q
    BY <2>1
  <2>3. ASSUME NEW i \in DOMAIN q PROVE \E j \in DOMAIN q : r[i] = q[j] /\ i - 1 <= j
    BY <2>3, SortedNear
  <2> HIDE DEF r
  <2>4. ASSUME NEW i \in DOMAIN q PROVE Load(Older(r, w)[r[i]], i - 1) <= Limit(0)
    <3>1. PICK j \in DOMAIN q : r[i] = q[j] /\ i - 1 <= j
      BY <2>3, <2>4
    <3>2. Older(r, w)[r[i]] = w[q[j]] + 1 /\ i - 1 \in Int /\ j \in Int /\ w[q[j]] \in Nat /\ w[q[j]] + 1 \in Nat
      BY <1>1, <1>2, <2>2, <2>4, <3>1 DEF Older
    <3>3. Load(w[q[j]] + 1, i - 1) <= Load(w[q[j]] + 1, j) /\ Load(w[q[j]] + 1, i - 1) \in Int
      BY <3>1, <3>2, LoadFacts
    <3>4. Load(w[q[j]] + 1, j) = Load(w[q[j]], j) + S - 1 /\ Load(w[q[j]], j) \in Int
      BY <3>2, OlderLoads, LoadFacts DEF S
    <3>5. Load(w[q[j]], j) <= Limit(ph) /\ Limit(0) = Limit(ph) + S - 1
      BY <1>2, <1>3, <1>6
    <3> QED BY <1>1, <1>3, <3>2, <3>3, <3>4, <3>5
  <2> QED BY <2>2, <2>4 DEF Due, r
<1> QED BY <1>5, <1>6 DEF S

\* schedule() and the tick that follows it know the same threads.
LEMMA OlderFacts ==
  ASSUME NEW q \in Seq(Threads), NEW w \in [Threads -> Nat]
  PROVE  /\ Older(q, w) \in [Threads -> Nat]
         /\ \A t \in Threads : ~In(t, q) => Older(q, w)[t] = w[t]
BY DEF Older, In

-----------------------------------------------------------------------------
\* The ticks since schedule() was called; the one in progress at label "tick" is not over.
Phase == IF pc[Menu] = "tick" THEN SCHEDULE_HARDCLOCKS - 1
         ELSE c_hardclocks[Menu] % SCHEDULE_HARDCLOCKS

\* The final kernel has one cpu, which never has more than its share of the threads, and
\* which idles only when nobody waits.
WaitInv ==
    /\ ~aging => waited \in [Threads -> {0}]
    /\ aging => /\ late = {}
                /\ pc[Menu] \notin {"count", "take", "give", "back"}
                /\ pc[Menu] = "tick" => c_hardclocks[Menu] = 0
                /\ Patient(c_isidle[Menu], c_runqueue[Menu], waited, Phase)

\* In the final kernel only the menu and the threads it can have started are ready.
LEMMA QueueLength ==
  ASSUME SchedulerInv, LabelInv, late = {}
  PROVE  /\ Len(c_runqueue[Menu]) <= Cardinality(Kids) + 1
         /\ ~c_isidle[Menu] => Len(c_runqueue[Menu]) <= Cardinality(Kids)
<1> DEFINE q == c_runqueue[Menu]
           T == Kids \cup {Menu}
           u == c_curthread[Menu]
<1>1. /\ q \in Seq(Threads) /\ Once(q) /\ u \in Threads
      /\ \A t \in Threads : In(t, q) => t_state[t] = "S_READY"
      /\ ~c_isidle[Menu] => t_state[u] = "S_RUN"
  <2>1. PlaceInv /\ RestType
    BY DEF SchedulerInv
  <2>2. Menu \in Online
    BY <2>1, OnlineFacts DEF RestType
  <2> QED BY <2>1, <2>2, ThreadFacts DEF PlaceInv, World, WorldType, QueueOK, CurrentOK
<1>2. \A t \in Threads : t_state[t] \in {"S_READY", "S_RUN"} => t \in T
  <2>1. \A c \in Hatchers : Dead(c)
    BY DEF LabelInv
  <2>2. \A t \in Threads : t \in Hatchers \/ t \in T
    BY DEF Threads, Hatchers
  <2> QED BY <2>1, <2>2 DEF Dead, DeadStates
<1>3. /\ IsFiniteSet(T) /\ Cardinality(Kids) \in Nat /\ Cardinality(T) = Cardinality(Kids) + 1
  BY SchedulerAssumption, ThreadFacts, FS_AddElement, FS_CardinalityType
<1>4. \A x : In(x, q) => x \in Threads /\ x \in T
  <2>1. \A x : In(x, q) => x \in Threads
    BY <1>1 DEF In
  <2> QED BY <1>1, <1>2, <2>1
<1> HIDE DEF T, q
<1>5. Len(q) <= Cardinality(T)
  BY <1>1, <1>3, <1>4, OnceLength
<1>6. ASSUME ~c_isidle[Menu] PROVE Len(q) <= Cardinality(Kids)
  <2>1. u \in T /\ \A x : In(x, q) => x # u
    BY <1>1, <1>2, <1>4, <1>6
  <2>2. IsFiniteSet(T \ {u}) /\ Cardinality(T \ {u}) = Cardinality(T) - 1
    BY <1>3, <2>1, FS_RemoveElement
  <2>3. \A x : In(x, q) => x \in T \ {u}
    BY <1>4, <2>1
  <2>4. Len(q) <= Cardinality(T \ {u})
    BY <1>1, <2>2, <2>3, OnceLength
  <2> QED BY <1>3, <2>2, <2>4
<1> QED BY <1>3, <1>5, <1>6 DEF q

\* What is known of the only cpu of the final kernel.
LEMMA FinalKernel ==
  ASSUME SchedulerInv, aging
  PROVE  /\ Menu \in Cpus /\ Online = {Menu} /\ waited \in [Threads -> Nat]
         /\ c_runqueue \in [Cpus -> Seq(Threads)] /\ Once(c_runqueue[Menu])
         /\ c_isidle \in [Cpus -> BOOLEAN] /\ pc \in [Cpus -> CpuLabels]
         /\ c_curthread[Menu] \in Threads
         /\ ~c_isidle[Menu] => ~In(c_curthread[Menu], c_runqueue[Menu])
         /\ c_hardclocks \in [Cpus -> 0 .. MIGRATE_HARDCLOCKS - 1]
<1>1. RestType /\ PlaceInv
  BY DEF SchedulerInv
<1>2. Menu \in Cpus /\ Online = {Menu}
  BY ThreadFacts DEF Online
<1>3. /\ c_runqueue \in [Cpus -> Seq(Threads)] /\ c_isidle \in [Cpus -> BOOLEAN]
      /\ c_curthread[Menu] \in Threads
      /\ QueueOK(c_runqueue, newthread, t_state, t_cpu)
      /\ CurrentOK(Online, c_curthread, c_isidle, t_state, t_cpu)
  BY <1>1, <1>2 DEF PlaceInv, World, WorldType
<1>4. ~c_isidle[Menu] => t_state[c_curthread[Menu]] = "S_RUN"
  BY <1>2, <1>3 DEF CurrentOK
<1> QED BY <1>1, <1>2, <1>3, <1>4 DEF RestType, QueueOK

\* Every step is one of a cpu that is there.
LEMMA ActorsAreOnline ==
  ASSUME SchedulerInv, NEW c \in Cpus, CpuStep(c)
  PROVE  c \in Online
<1>1. CASE Fork(c) \/ ForkCount(c) \/ ForkReady(c) \/ WaitForCount(c) \/ Exit(c) \/ ExitCount(c)
  BY <1>1, ActorFacts DEF Fork, ForkCount, ForkReady, WaitForCount, Exit, ExitCount, Busy, Running
<1>2. CASE ExitSwitch(c) \/ thread_yield(c) \/ wchan_sleep(c) \/ wchan_wakeone(c) \/ wchan_wakeall(c)
  BY <1>2, ActorFacts DEF ExitSwitch, thread_yield, wchan_sleep, wchan_wakeone, wchan_wakeall, Busy,
                          Running, Interruptible
<1>3. CASE WakeNext(c) \/ Resume(c) \/ interprocessor_interrupt(c) \/ ClearIpi(c) \/ hardclock(c) \/ Tick(c)
  BY <1>3, ActorFacts DEF WakeNext, Resume, interprocessor_interrupt, ClearIpi, hardclock, Tick,
                          Interruptible
<1>4. CASE CountNext(c) \/ TakeVictims(c) \/ GiveVictims(c) \/ Leftovers(c)
  BY <1>4, ActorFacts DEF CountNext, TakeVictims, GiveVictims, Leftovers
<1> QED BY <1>1, <1>2, <1>3, <1>4 DEF CpuStep

\* What a step needs to know of the run queue it leaves.
ShortQueue ==
    /\ c_runqueue[Menu] \in Seq(Threads) /\ Once(c_runqueue[Menu])
    /\ ~c_isidle[Menu] => Len(c_runqueue[Menu]) <= Cardinality(Kids)

\* The run queue is short in every state, so in the next one too.
LEMMA QueueIsShort == SchedulerInv /\ LabelInv /\ aging /\ late = {} => ShortQueue
<1> SUFFICES ASSUME SchedulerInv, LabelInv, aging, late = {} PROVE ShortQueue
  OBVIOUS
<1>1. c_runqueue[Menu] \in Seq(Threads) /\ Once(c_runqueue[Menu])
  BY FinalKernel
<1>2. ~c_isidle[Menu] => Len(c_runqueue[Menu]) <= Cardinality(Kids)
  BY QueueLength
<1> QED BY <1>1, <1>2 DEF ShortQueue

LEMMA QueueStaysShort == (SchedulerInv /\ LabelInv /\ aging /\ late = {})' => ShortQueue'
BY QueueIsShort, PTL

\* The labels between two ticks.
Between == {"run", "idle", "resume", "ipi", "wakeall"}

\* A step between two ticks.
LEMMA StaysBetween ==
  ASSUME WaitInv, aging, UNCHANGED bootVars, pc[Menu] # "tick", pc'[Menu] \in Between,
         c_hardclocks' = c_hardclocks,
         Patient(c_isidle'[Menu], c_runqueue'[Menu], waited', Phase)
  PROVE  WaitInv'
<1>1. pc'[Menu] \notin {"tick", "count", "take", "give", "back"}
  BY DEF Between
<1>2. Phase' = Phase
  BY <1>1 DEF Phase
<1>3. Patient(c_isidle[Menu], c_runqueue[Menu], waited, Phase)'
  BY <1>2 DEF Patient
<1> QED BY <1>1, <1>3 DEF WaitInv, bootVars

LEMMA PhaseType ==
  ASSUME SchedulerInv, aging
  PROVE  Phase \in 0 .. SCHEDULE_HARDCLOCKS - 1
<1>1. SCHEDULE_HARDCLOCKS \in Nat \ {0} /\ c_hardclocks[Menu] \in Nat
  <2>1. c_hardclocks[Menu] \in 0 .. MIGRATE_HARDCLOCKS - 1
    BY FinalKernel
  <2> QED BY <2>1, SchedulerAssumption
<1>2. c_hardclocks[Menu] % SCHEDULE_HARDCLOCKS \in 0 .. SCHEDULE_HARDCLOCKS - 1
  BY <1>1, ModNext
<1> QED BY <1>1, <1>2 DEF Phase

\* The switch to the first thread of a queue that is due, or to the idle loop.
LEMMA PatientDispatch ==
  ASSUME SchedulerInv, aging, NEW q \in Seq(Threads), Once(q), NEW w \in [Threads -> Nat], NEW ph,
         \A t \in Threads : ~In(t, q) => w[t] = 0, Due(q, w, ph),
         NEW st, NEW zs, Dispatch(Menu, q, st, zs, w)
  PROVE  /\ Patient(c_isidle'[Menu], c_runqueue'[Menu], waited', ph)
         /\ pc'[Menu] \in {"run", "idle"}
<1>1. /\ Menu \in Cpus /\ c_runqueue \in [Cpus -> Seq(Threads)] /\ c_isidle \in [Cpus -> BOOLEAN]
      /\ pc \in [Cpus -> CpuLabels]
  BY FinalKernel
<1>2. CASE q # <<>>
  <2>1. /\ c_runqueue'[Menu] = Tail(q) /\ c_isidle'[Menu] = FALSE /\ pc'[Menu] = "run"
        /\ waited' = [w EXCEPT ![Head(q)] = 0]
    BY <1>1, <1>2 DEF Dispatch
  <2>2. Patient(FALSE, Tail(q), [w EXCEPT ![Head(q)] = 0], ph)
    BY <1>2, FirstIsChosen
  <2> QED BY <2>1, <2>2
<1>3. CASE q = <<>>
  <2>1. c_isidle'[Menu] = TRUE /\ waited' = w /\ pc'[Menu] = "idle"
    BY <1>1, <1>3 DEF Dispatch, GoIdle
  <2>2. \A t \in Threads : w[t] = 0
    BY <1>3, OnceEmpty
  <2> QED BY <2>1, <2>2 DEF Patient
<1> QED BY <1>2, <1>3

\* thread_switch(S_READY) with a queue that is due.
LEMMA PatientReady ==
  ASSUME SchedulerInv, LabelInv, aging, late = {}, ~c_isidle[Menu],
         NEW q \in Seq(Threads), Once(q), Len(q) = Len(c_runqueue[Menu]),
         \A x : In(x, q) <=> In(x, c_runqueue[Menu]),
         NEW w \in [Threads -> Nat], \A t \in Threads : ~In(t, q) => w[t] = 0,
         NEW ph \in 0 .. SCHEDULE_HARDCLOCKS - 1, Due(q, w, ph), SwitchReady(Menu, q, w)
  PROVE  /\ Patient(c_isidle'[Menu], c_runqueue'[Menu], waited', ph)
         /\ pc'[Menu] \in {"run", "idle"}
<1> DEFINE u == c_curthread[Menu]
<1>1. /\ Menu \in Cpus /\ c_runqueue \in [Cpus -> Seq(Threads)] /\ u \in Threads /\ ~In(u, q)
      /\ pc \in [Cpus -> CpuLabels]
  BY FinalKernel
<1>2. Len(q) <= Cardinality(Kids)
  BY QueueLength
<1>3. CASE q = <<>>
  <2>1. waited' = w /\ pc'[Menu] = "run" /\ UNCHANGED <<c_isidle, c_runqueue>>
    BY <1>1, <1>3 DEF SwitchReady
  <2>2. c_runqueue[Menu] = <<>> /\ DOMAIN c_runqueue[Menu] = {}
    BY <1>1, <1>3
  <2>3. \A t \in Threads : w[t] = 0
    BY <1>3, OnceEmpty
  <2> QED BY <2>1, <2>2, <2>3 DEF Patient
<1>4. CASE q # <<>>
  <2>1. PICK st, zs : Dispatch(Menu, Append(q, u), st, zs, w)
    BY <1>4 DEF SwitchReady
  <2>2. /\ Append(q, u) \in Seq(Threads) /\ Once(Append(q, u))
        /\ \A x : In(x, Append(q, u)) <=> In(x, q) \/ x = u
    BY <1>1, OnceAppend
  <2>3. Due(Append(q, u), w, ph)
    BY <1>1, <1>2, DueGrows
  <2>4. \A t \in Threads : ~In(t, Append(q, u)) => w[t] = 0
    BY <2>2
  <2> QED BY <2>1, <2>2, <2>3, <2>4, PatientDispatch
<1> QED BY <1>3, <1>4

\* A thread becomes ready.
LEMMA PatientWake ==
  ASSUME SchedulerInv, WaitInv, aging, ShortQueue', waited' = waited, c_isidle' = c_isidle, NEW t,
         c_runqueue'[Menu] = c_runqueue[Menu] \/ c_runqueue'[Menu] = Append(c_runqueue[Menu], t)
  PROVE  Patient(c_isidle'[Menu], c_runqueue'[Menu], waited', Phase)
<1> DEFINE q == c_runqueue[Menu]
<1>1. /\ q \in Seq(Threads) /\ waited \in [Threads -> Nat] /\ c_isidle[Menu] \in BOOLEAN
      /\ Patient(c_isidle[Menu], q, waited, Phase) /\ Phase \in 0 .. SCHEDULE_HARDCLOCKS - 1
  BY FinalKernel, PhaseType DEF WaitInv
<1>2. CASE c_runqueue'[Menu] = q
  BY <1>1, <1>2
<1>3. CASE c_runqueue'[Menu] = Append(q, t)
  <2>2. c_runqueue'[Menu] \in Seq(Threads) /\ Once(c_runqueue'[Menu])
    BY DEF ShortQueue, Once
  <2>3. Append(q, t) \in Seq(Threads) /\ Once(Append(q, t))
    BY <1>3, <2>2
  <2>4. t \in Threads /\ ~In(t, q)
    <3> DEFINE r == Append(q, t)
    <3>1. /\ DOMAIN r = 1 .. Len(q) + 1 /\ r[Len(q) + 1] = t /\ \A i \in 1 .. Len(q) : r[i] = q[i]
          /\ Len(q) \in Nat /\ DOMAIN q = 1 .. Len(q)
      BY <1>1
    <3> HIDE DEF r
    <3>2. Len(q) + 1 \in DOMAIN r /\ r \in Seq(Threads) /\ Once(r)
      BY <2>3, <3>1 DEF r
    <3>3. t \in Threads
      BY <3>1, <3>2
    <3>4. \A i \in 1 .. Len(q) : i \in DOMAIN r /\ i # Len(q) + 1
      BY <3>1
    <3> QED BY <3>1, <3>2, <3>3, <3>4 DEF In, Once
  <2>5. ~c_isidle[Menu] => Len(q) + 1 <= Cardinality(Kids)
    <3>1. ~c_isidle'[Menu] => Len(c_runqueue'[Menu]) <= Cardinality(Kids)
      BY DEF ShortQueue
    <3>2. Len(Append(q, t)) = Len(q) + 1
      BY <1>1
    <3> QED BY <1>3, <3>1, <3>2
  <2> QED BY <1>1, <1>3, <2>4, <2>5, PatientGrows
<1> QED BY <1>2, <1>3

\* The steps without a switch.
LEMMA WaitsQuiet ==
  ASSUME SchedulerInv, WaitInv, aging, ShortQueue', UNCHANGED bootVars,
         \/ Fork(Menu) \/ ForkCount(Menu) \/ ForkReady(Menu) \/ Exit(Menu) \/ ExitCount(Menu)
         \/ wchan_wakeone(Menu) \/ wchan_wakeall(Menu) \/ WakeNext(Menu)
         \/ interprocessor_interrupt(Menu) \/ ClearIpi(Menu)
  PROVE  WaitInv'
<1>1. Menu \in Cpus /\ pc \in [Cpus -> CpuLabels] /\ c_runqueue \in [Cpus -> Seq(Threads)]
  BY FinalKernel
<1>2. /\ pc[Menu] # "tick" /\ pc'[Menu] \in Between
      /\ UNCHANGED <<waited, c_isidle, c_hardclocks>>
      /\ c_runqueue' = c_runqueue \/ \E t : thread_make_runnable(Menu, t)
  <2>1. CASE Fork(Menu) \/ Exit(Menu) \/ interprocessor_interrupt(Menu) \/ ClearIpi(Menu)
    BY <1>1, <2>1 DEF Fork, Exit, interprocessor_interrupt, ClearIpi, Busy, Running, Interruptible, Return,
                      Between, cpuVars, clockVars
  <2>2. CASE ForkCount(Menu) \/ ForkReady(Menu) \/ ExitCount(Menu)
    BY <1>1, <2>2 DEF ForkCount, ForkReady, ExitCount, WakeCounter, Running, Between, clockVars
  <2>3. CASE wchan_wakeone(Menu) \/ wchan_wakeall(Menu) \/ WakeNext(Menu)
    BY <1>1, <2>3 DEF wchan_wakeone, wchan_wakeall, WakeNext, WakeFirst, Interruptible, Return, Between,
                      clockVars
  <2> QED BY <2>1, <2>2, <2>3
<1>3. \E t : c_runqueue'[Menu] = c_runqueue[Menu] \/ c_runqueue'[Menu] = Append(c_runqueue[Menu], t)
  <2>1. ASSUME NEW t, thread_make_runnable(Menu, t)
        PROVE  c_runqueue'[Menu] = c_runqueue[Menu] \/ c_runqueue'[Menu] = Append(c_runqueue[Menu], t)
    <3>1. c_runqueue' = [c_runqueue EXCEPT ![t_cpu[t]] = Append(c_runqueue[t_cpu[t]], t)]
      BY <2>1 DEF thread_make_runnable
    <3> QED BY <1>1, <3>1
  <2> QED BY <1>2, <2>1
<1>4. PICK t : c_runqueue'[Menu] = c_runqueue[Menu] \/ c_runqueue'[Menu] = Append(c_runqueue[Menu], t)
  BY <1>3
<1>5. waited' = waited /\ c_isidle' = c_isidle
  BY <1>2
<1>6. Patient(c_isidle'[Menu], c_runqueue'[Menu], waited', Phase)
  BY <1>4, <1>5, PatientWake
<1>7. pc[Menu] # "tick" /\ pc'[Menu] \in Between /\ c_hardclocks' = c_hardclocks
  BY <1>2
<1> QED BY <1>6, <1>7, StaysBetween

\* The steps with a switch that are not of the clock.
LEMMA WaitsSwitch ==
  ASSUME SchedulerInv, LabelInv, WaitInv, aging, UNCHANGED bootVars,
         \/ WaitForCount(Menu) \/ ExitSwitch(Menu) \/ thread_yield(Menu) \/ wchan_sleep(Menu)
         \/ Resume(Menu)
  PROVE  WaitInv'
<1> DEFINE q == c_runqueue[Menu]
<1>1. /\ Menu \in Cpus /\ pc \in [Cpus -> CpuLabels] /\ q \in Seq(Threads) /\ Once(q)
      /\ waited \in [Threads -> Nat] /\ late = {} /\ c_isidle[Menu] \in BOOLEAN
      /\ Patient(c_isidle[Menu], q, waited, Phase) /\ Phase \in 0 .. SCHEDULE_HARDCLOCKS - 1
      /\ pc[Menu] = "run" => ~c_isidle[Menu]
      /\ pc[Menu] = "resume" => c_isidle[Menu]
  BY FinalKernel, ActorFacts, PhaseType DEF WaitInv
<1>2. \A t \in Threads : ~In(t, q) => waited[t] = 0
  BY <1>1 DEF Patient
<1>3. Due(q, waited, Phase)
  <2>1. CASE ~c_isidle[Menu]
    <3>1. Patient(FALSE, q, waited, Phase)
      BY <1>1, <2>1
    <3> QED BY <1>1, <3>1, PatientIsDue
  <2>2. CASE c_isidle[Menu]
    <3>1. \A i \in DOMAIN q : q[i] \in Threads /\ waited[q[i]] = 0
      BY <1>1, <2>2 DEF Patient
    <3>2. Len(q) <= Cardinality(Kids) + 1
      BY <1>1, QueueLength
    <3> QED BY <1>1, <3>1, <3>2, NewIsDue
  <2> QED BY <2>1, <2>2
<1>4. c_hardclocks' = c_hardclocks /\ pc[Menu] # "tick"
  BY DEF WaitForCount, ExitSwitch, thread_yield, wchan_sleep, Resume, Busy, Running, clockVars
<1>5. "run" \in Between /\ "idle" \in Between
  BY DEF Between
<1>6. /\ Patient(c_isidle'[Menu], c_runqueue'[Menu], waited', Phase) /\ pc'[Menu] \in Between
  <2>1. CASE thread_yield(Menu)
    <3>1. SwitchReady(Menu, q, waited) /\ ~c_isidle[Menu]
      BY <1>1, <2>1 DEF thread_yield, Busy, Running
    <3> QED BY <1>1, <1>2, <1>3, <1>5, <3>1, PatientReady
  <2>2. CASE WaitForCount(Menu) /\ thread_count = tc
    <3>1. UNCHANGED <<waited, c_isidle, c_runqueue, pc>> /\ pc[Menu] = "run"
      BY <2>2 DEF WaitForCount, Running, cpuVars
    <3> QED BY <1>1, <1>5, <3>1
  <2>3. CASE ~thread_yield(Menu) /\ ~(WaitForCount(Menu) /\ thread_count = tc)
    <3>1. PICK st, zs : Dispatch(Menu, q, st, zs, waited)
      BY <2>3 DEF WaitForCount, ExitSwitch, wchan_sleep, Resume, SwitchSleep, SwitchZombie
    <3> QED BY <1>1, <1>2, <1>3, <1>5, <3>1, PatientDispatch
  <2> QED BY <2>1, <2>2, <2>3
<1> QED BY <1>4, <1>6, StaysBetween

\* thread_yield at the end of a tick.
LEMMA WaitsYield ==
  ASSUME SchedulerInv, LabelInv, WaitInv, aging,
         NEW q \in Seq(Threads), Once(q), Len(q) = Len(c_runqueue[Menu]),
         \A x : In(x, q) <=> In(x, c_runqueue[Menu]),
         NEW ph \in 0 .. SCHEDULE_HARDCLOCKS - 1,
         ~c_isidle[Menu] => Due(q, Older(q, waited), ph), Yield(Menu, q)
  PROVE  /\ Patient(c_isidle'[Menu], c_runqueue'[Menu], waited', ph)
         /\ pc'[Menu] \in {"run", "idle", "resume"}
<1>1. /\ Menu \in Cpus /\ pc \in [Cpus -> CpuLabels] /\ waited \in [Threads -> Nat] /\ late = {}
      /\ c_isidle[Menu] \in BOOLEAN /\ Patient(c_isidle[Menu], c_runqueue[Menu], waited, Phase)
  BY FinalKernel DEF WaitInv
<1>2. CASE c_isidle[Menu]
  <2>1. c_isidle' = c_isidle /\ waited' = waited /\ pc'[Menu] = "resume"
    BY <1>1, <1>2 DEF Yield
  <2>2. \A t \in Threads : waited[t] = 0
    BY <1>1, <1>2 DEF Patient
  <2>3. Patient(c_isidle'[Menu], c_runqueue'[Menu], waited', ph)
    BY <1>2, <2>1, <2>2 DEF Patient
  <2> QED BY <2>1, <2>3
<1>3. CASE ~c_isidle[Menu]
  <2>1. SwitchReady(Menu, q, Older(q, waited))
    BY <1>3 DEF Yield, Older
  <2>2. /\ Older(q, waited) \in [Threads -> Nat]
        /\ \A t \in Threads : ~In(t, q) => Older(q, waited)[t] = waited[t]
    BY <1>1, OlderFacts
  <2>3. \A t \in Threads : ~In(t, q) => Older(q, waited)[t] = 0
    BY <1>1, <2>2 DEF Patient
  <2>4. Due(q, Older(q, waited), ph)
    BY <1>3
  <2>5. Patient(c_isidle'[Menu], c_runqueue'[Menu], waited', ph) /\ pc'[Menu] \in {"run", "idle"}
    BY <1>1, <1>3, <2>1, <2>2, <2>3, <2>4, PatientReady
  <2> QED BY <2>5
<1> QED BY <1>2, <1>3

\* The end of tick h.
LEMMA WaitsTick ==
  ASSUME SchedulerInv, LabelInv, WaitInv, aging, NEW h \in Nat,
         Phase = SCHEDULE_HARDCLOCKS - 1 <=> h % SCHEDULE_HARDCLOCKS = 0,
         Phase # SCHEDULE_HARDCLOCKS - 1 => h % SCHEDULE_HARDCLOCKS = Phase + 1,
         EndOfTick(Menu, h)
  PROVE  \/ /\ Patient(c_isidle'[Menu], c_runqueue'[Menu], waited', h % SCHEDULE_HARDCLOCKS)
            /\ pc'[Menu] \in {"run", "idle", "resume"}
         \/ /\ UNCHANGED <<c_isidle, c_runqueue, waited, pc>>
            /\ h % SCHEDULE_HARDCLOCKS = 0
<1> DEFINE q == c_runqueue[Menu]
           S == SCHEDULE_HARDCLOCKS
<1>1. /\ q \in Seq(Threads) /\ Once(q) /\ waited \in [Threads -> Nat]
      /\ c_isidle[Menu] \in BOOLEAN /\ Phase \in 0 .. S - 1
      /\ Patient(c_isidle[Menu], q, waited, Phase) /\ Menu \in Cpus
  BY FinalKernel, PhaseType DEF WaitInv
<1>2. h % S \in 0 .. S - 1
  <2>1. S \in Nat \ {0}
    BY SchedulerAssumption
  <2> HIDE DEF S
  <2> QED BY <2>1, ModNext
<1>3. ~c_isidle[Menu] =>
        /\ Phase # S - 1 => Due(q, Older(q, waited), Phase + 1)
        /\ Phase = S - 1 => \A p : Due(Sorted(q, p), Older(Sorted(q, p), waited), 0)
  <2> SUFFICES ASSUME ~c_isidle[Menu]
               PROVE  /\ Phase # S - 1 => Due(q, Older(q, waited), Phase + 1)
                      /\ Phase = S - 1 => \A p : Due(Sorted(q, p), Older(Sorted(q, p), waited), 0)
    OBVIOUS
  <2>1. Patient(FALSE, q, waited, Phase)
    BY <1>1
  <2> QED BY <1>1, <2>1, TickIsDue
<1>4. CASE h % S # 0
  <2>1. Yield(Menu, q)
    BY <1>4 DEF EndOfTick, ScheduleDue
  <2>2. Phase # S - 1 /\ h % S = Phase + 1
    BY <1>4
  <2> HIDE DEF S
  <2>3. ~c_isidle[Menu] => Due(q, Older(q, waited), h % S)
    BY <1>3, <2>2
  <2>4. /\ Patient(c_isidle'[Menu], c_runqueue'[Menu], waited', h % S)
        /\ pc'[Menu] \in {"run", "idle", "resume"}
    BY <1>1, <1>2, <2>1, <2>3, WaitsYield DEF S
  <2> QED BY <2>4 DEF S
<1>5. CASE h % S = 0
  <2>1. \/ UNCHANGED <<c_isidle, c_runqueue, waited, pc>>
        \/ \E p : Yield(Menu, Sorted(q, p))
    BY <1>5 DEF EndOfTick, ScheduleDue, cpuVars
  <2>2. ASSUME NEW p, Yield(Menu, Sorted(q, p))
        PROVE  /\ Patient(c_isidle'[Menu], c_runqueue'[Menu], waited', h % S)
               /\ pc'[Menu] \in {"run", "idle", "resume"}
    <3> DEFINE r == Sorted(q, p)
    <3>1. r \in Seq(Threads) /\ Len(r) = Len(q) /\ Once(r) /\ \A x : In(x, r) <=> In(x, q)
      BY <1>1, SortedKeeps
    <3>2. ~c_isidle[Menu] => Due(r, Older(r, waited), h % S)
      BY <1>3, <1>5
    <3>3. Yield(Menu, r)
      BY <2>2
    <3> HIDE DEF r, S
    <3> QED BY <1>1, <1>2, <3>1, <3>2, <3>3, WaitsYield DEF S
  <2> QED BY <1>5, <2>1, <2>2
<1> QED BY <1>4, <1>5

\* What the counter of the ticks says of the calls of schedule().
LEMMA ClockFacts ==
  ASSUME NEW a \in 0 .. MIGRATE_HARDCLOCKS - 1
  PROVE  LET h == (a + 1) % MIGRATE_HARDCLOCKS
             S == SCHEDULE_HARDCLOCKS
         IN  /\ h \in 0 .. MIGRATE_HARDCLOCKS - 1
             /\ h = 0 => a % S = S - 1
             /\ h # 0 => h = a + 1
             /\ a % S = S - 1 <=> (a + 1) % S = 0
             /\ a % S # S - 1 => (a + 1) % S = (a % S) + 1
<1> DEFINE S == SCHEDULE_HARDCLOCKS
           M == MIGRATE_HARDCLOCKS
<1>1. /\ a \in Nat /\ a + 1 \in Nat /\ S \in Nat \ {0} /\ M \in Nat \ {0} /\ M % S = 0 /\ a \in 0 .. M - 1
      /\ a \in Int
  BY SchedulerAssumption
<1> HIDE DEF S, M
<1>2. /\ a % M \in 0 .. M - 1 /\ (a + 1) % M \in 0 .. M - 1
      /\ a % M = M - 1 => (a + 1) % M = 0
      /\ a % M # M - 1 => (a + 1) % M = (a % M) + 1
  BY <1>1, ModNext, Zenon
<1>3. a % M = a
  <2>1. a = M * 0 + a /\ 0 \in Int
    BY <1>1
  <2> QED BY <1>1, <2>1, ModIs
<1>4. /\ a % S \in 0 .. S - 1
      /\ a % S = S - 1 => (a + 1) % S = 0
      /\ a % S # S - 1 => (a + 1) % S = (a % S) + 1
  BY <1>1, ModNext, Zenon
<1>5. (a + 1) % M = 0 => a + 1 = M
  BY <1>1, <1>2, <1>3
<1>6. (a + 1) % M # 0 => (a + 1) % M = a + 1
  BY <1>1, <1>2, <1>3
<1>7. a % S = S - 1 <=> (a + 1) % S = 0
  BY <1>1, <1>4
<1>8. (a + 1) % M = 0 => a % S = S - 1
  BY <1>1, <1>5, <1>7
<1> QED BY <1>2, <1>4, <1>6, <1>7, <1>8 DEF S, M

\* A queue that may be as loaded as ph allows may be so where schedule() has just been called.
LEMMA PatientEases ==
  ASSUME NEW idle, NEW q \in Seq(Threads), NEW w \in [Threads -> Nat],
         NEW ph \in 0 .. SCHEDULE_HARDCLOCKS - 1, Patient(idle, q, w, ph)
  PROVE  Patient(idle, q, w, 0)
<1>1. Limit(ph) \in Int /\ Limit(ph) <= Limit(0)
  BY LimitFacts
<1>2. 0 \in 0 .. SCHEDULE_HARDCLOCKS - 1
  BY SchedulerAssumption
<1>3. Limit(0) \in Int
  BY <1>2, LimitFacts
<1>4. ASSUME ~idle, NEW i \in DOMAIN q PROVE Load(w[q[i]], i) <= Limit(0)
  <2>1. w[q[i]] \in Nat /\ i \in Int /\ Load(w[q[i]], i) <= Limit(ph)
    BY <1>4 DEF Patient
  <2>2. Load(w[q[i]], i) \in Int
    BY <2>1, LoadFacts
  <2> QED BY <1>1, <1>3, <2>1, <2>2
<1> QED BY <1>4 DEF Patient

\* The final kernel's only cpu has no more than its share: it migrates nothing.
LEMMA NothingMigrates ==
  ASSUME SchedulerInv, aging, CountQueue(Menu, Counted(Menu, Idle0))
  PROVE  pc'[Menu] = "tick"
<1> DEFINE n == Len(c_runqueue[Menu])
           m == Counted(Menu, Idle0)
<1>1. Menu \in Cpus /\ pc \in [Cpus -> CpuLabels] /\ n \in Nat /\ Online = {Menu} /\ Menu = 0
  BY FinalKernel DEF Menu
<1>2. Cardinality(Online) = 1
  BY <1>1, FS_Singleton
<1>3. m.i = 1 /\ m.my = n /\ m.total = n
  BY <1>1 DEF Counted, Idle0
<1> HIDE DEF m, n
<1>4. OneShare(m.total) = n
  <2>1. OneShare(m.total) = (n + 1 - 1) \div 1
    BY <1>2, <1>3 DEF OneShare
  <2>2. n + 1 - 1 = n /\ n \div 1 = n
    BY <1>1
  <2> QED BY <2>1, <2>2
<1>5. CountQueue(Menu, m)
  BY DEF m
<1>6. m.my - OneShare(m.total) = 0 /\ m.i = Cardinality(Online)
  BY <1>1, <1>2, <1>3, <1>4
<1>7. pc' = [pc EXCEPT ![Menu] = "tick"]
  BY <1>2, <1>3, <1>5, <1>6 DEF CountQueue
<1> QED BY <1>1, <1>7

\* The ticks.
LEMMA WaitsClock ==
  ASSUME SchedulerInv, LabelInv, WaitInv, aging, UNCHANGED bootVars, hardclock(Menu) \/ Tick(Menu)
  PROVE  WaitInv'
<1> DEFINE S == SCHEDULE_HARDCLOCKS
           a == c_hardclocks[Menu]
           h == (a + 1) % MIGRATE_HARDCLOCKS
<1>1. /\ Menu \in Cpus /\ pc \in [Cpus -> CpuLabels] /\ c_runqueue[Menu] \in Seq(Threads)
      /\ waited \in [Threads -> Nat] /\ late = {} /\ S \in Nat \ {0, 1}
      /\ Patient(c_isidle[Menu], c_runqueue[Menu], waited, Phase) /\ Phase \in 0 .. S - 1
      /\ a \in 0 .. MIGRATE_HARDCLOCKS - 1 /\ c_hardclocks \in [Cpus -> 0 .. MIGRATE_HARDCLOCKS - 1]
  BY FinalKernel, PhaseType, SchedulerAssumption DEF WaitInv
<1>2. /\ aging' = aging /\ late' = late
  BY DEF bootVars
<1>3. ASSUME pc'[Menu] \in {"run", "idle", "resume"},
             Patient(c_isidle'[Menu], c_runqueue'[Menu], waited', c_hardclocks'[Menu] % S)
      PROVE  WaitInv'
  <2>1. Phase' = c_hardclocks'[Menu] % S
    BY <1>3 DEF Phase
  <2>2. Patient(c_isidle[Menu], c_runqueue[Menu], waited, Phase)'
    BY <1>3, <2>1 DEF Patient
  <2> QED BY <1>1, <1>2, <1>3, <2>2 DEF WaitInv
<1>4. ASSUME pc'[Menu] = "tick", c_hardclocks'[Menu] = 0, Phase = S - 1,
             UNCHANGED <<c_isidle, c_runqueue, waited>>
      PROVE  WaitInv'
  <2>1. Phase' = S - 1
    BY <1>4 DEF Phase
  <2>2. Patient(c_isidle[Menu], c_runqueue[Menu], waited, Phase)'
    BY <1>1, <1>4, <2>1 DEF Patient
  <2> QED BY <1>1, <1>2, <1>4, <2>2 DEF WaitInv
<1>5. CASE hardclock(Menu)
  <2>1. /\ pc[Menu] \in {"run", "idle", "resume"} /\ c_hardclocks'[Menu] = h /\ Phase = a % S
    BY <1>1, <1>5 DEF hardclock, Interruptible, Phase
  <2>2. /\ h \in 0 .. MIGRATE_HARDCLOCKS - 1
        /\ h = 0 => a % S = S - 1
        /\ h # 0 => h = a + 1
        /\ a % S = S - 1 <=> (a + 1) % S = 0
        /\ a % S # S - 1 => (a + 1) % S = (a % S) + 1
    BY <1>1, ClockFacts
  <2>3. CASE h = 0
    <3>1. CountQueue(Menu, Counted(Menu, Idle0)) /\ UNCHANGED <<c_isidle, c_runqueue, waited>>
      BY <1>5, <2>3 DEF hardclock
    <3>2. pc'[Menu] = "tick"
      BY <3>1, NothingMigrates
    <3> QED BY <1>4, <2>1, <2>2, <2>3, <3>1, <3>2
  <2>4. CASE h # 0
    <3>1. EndOfTick(Menu, h)
      BY <1>5, <2>4 DEF hardclock
    <3>2. h \in Nat /\ (Phase = S - 1 <=> h % S = 0) /\ (Phase # S - 1 => h % S = Phase + 1)
      BY <2>1, <2>2, <2>4
    <3> HIDE DEF h, S
    <3>3. \/ /\ Patient(c_isidle'[Menu], c_runqueue'[Menu], waited', h % S)
             /\ pc'[Menu] \in {"run", "idle", "resume"}
          \/ /\ UNCHANGED <<c_isidle, c_runqueue, waited, pc>>
             /\ h % S = 0
      BY <3>1, <3>2, WaitsTick DEF S
    <3>4. CASE UNCHANGED <<c_isidle, c_runqueue, waited, pc>> /\ h % S = 0
      <4>1. Patient(c_isidle[Menu], c_runqueue[Menu], waited, 0)
        BY <1>1, PatientEases DEF S
      <4> QED BY <1>3, <2>1, <3>4, <4>1
    <3> QED BY <1>3, <2>1, <3>3, <3>4
  <2> QED BY <2>3, <2>4
<1>6. CASE Tick(Menu)
  <2>1. pc[Menu] = "tick" /\ EndOfTick(Menu, a) /\ c_hardclocks' = c_hardclocks
    BY <1>6 DEF Tick, clockVars
  <2>2. a = 0 /\ Phase = S - 1
    BY <2>1 DEF WaitInv, Phase
  <2>3. 0 % S = 0
    <3> HIDE DEF S
    <3>1. 0 = S * 0 + 0 /\ 0 \in Int /\ 0 \in 0 .. S - 1 /\ S \in Nat \ {0}
      BY <1>1
    <3> QED BY <3>1, ModIs, Zenon
  <2>4. 0 \in Nat /\ EndOfTick(Menu, 0) /\ (Phase = S - 1 <=> 0 % S = 0) /\ (Phase # S - 1 => 0 % S = Phase + 1)
    BY <2>1, <2>2, <2>3
  <2> HIDE DEF S
  <2>5. \/ /\ Patient(c_isidle'[Menu], c_runqueue'[Menu], waited', 0 % S)
           /\ pc'[Menu] \in {"run", "idle", "resume"}
        \/ UNCHANGED <<c_isidle, c_runqueue, waited, pc>>
    BY <2>4, WaitsTick DEF S
  <2> QED BY <1>3, <1>4, <2>1, <2>2, <2>5
<1> QED BY <1>5, <1>6

\* Every step keeps the waiting times within the limit.
LEMMA WaitStep ==
  ASSUME SchedulerInv, LabelInv, WaitInv, UNCHANGED bootVars, NEW c \in Cpus, CpuStep(c)
  PROVE  WaitInv'
<1>1. /\ aging' = aging /\ late' = late
  BY DEF bootVars
<1>2. CASE ~aging
  <2>1. waited' \in [Threads -> {0}]
    BY <1>2, WaitingType DEF WaitInv
  <2> QED BY <1>1, <1>2, <2>1 DEF WaitInv
<1>3. CASE aging
  <2>1. c = Menu
    BY <1>3, ActorsAreOnline DEF Online
  <2>2. late = {} /\ pc[Menu] \notin {"count", "take", "give", "back"}
    BY <1>3 DEF WaitInv
  <2>3. ShortQueue'
    <3>1. SchedulerInv' /\ LabelInv'
      BY CpuStepKeeps, LabelStep
    <3> QED BY <1>1, <1>3, <2>2, <3>1, QueueStaysShort
  <2>4. CASE \/ Fork(Menu) \/ ForkCount(Menu) \/ ForkReady(Menu) \/ Exit(Menu) \/ ExitCount(Menu)
             \/ wchan_wakeone(Menu) \/ wchan_wakeall(Menu) \/ WakeNext(Menu)
             \/ interprocessor_interrupt(Menu) \/ ClearIpi(Menu)
    BY <1>3, <2>3, <2>4, WaitsQuiet
  <2>5. CASE \/ WaitForCount(Menu) \/ ExitSwitch(Menu) \/ thread_yield(Menu) \/ wchan_sleep(Menu)
             \/ Resume(Menu)
    BY <1>3, <2>5, WaitsSwitch
  <2>6. CASE hardclock(Menu) \/ Tick(Menu)
    BY <1>3, <2>6, WaitsClock
  <2>7. ~(CountNext(Menu) \/ TakeVictims(Menu) \/ GiveVictims(Menu) \/ Leftovers(Menu))
    BY <2>2 DEF CountNext, TakeVictims, GiveVictims, Leftovers
  <2>8. CpuStep(Menu)
    BY <2>1
  <2> QED BY <2>4, <2>5, <2>6, <2>7, <2>8 DEF CpuStep
<1> QED BY <1>2, <1>3

\* In the final kernel no thread on the run queue is passed over for Patience ticks.
THEOREM NobodyStarves == Spec => []NotStarved
<1>1. Init => WaitInv
  <2> SUFFICES ASSUME Init PROVE WaitInv
    OBVIOUS
  <2>1. /\ waited = [t \in Threads |-> 0] /\ c_runqueue[Menu] = <<>> /\ (aging => late = {})
        /\ pc[Menu] = "run" /\ aging \in BOOLEAN
    BY ThreadFacts DEF Init, cpu_create, Online
  <2>2. Patient(c_isidle[Menu], c_runqueue[Menu], waited, Phase)
    <3>1. DOMAIN c_runqueue[Menu] = {} /\ \A t \in Threads : waited[t] = 0
      BY <2>1
    <3> QED BY <3>1 DEF Patient
  <2> QED BY <2>1, <2>2 DEF WaitInv
<1>2. SchedulerInv /\ LabelInv /\ WaitInv /\ [Next]_vars => WaitInv'
  <2> SUFFICES ASSUME SchedulerInv, LabelInv, WaitInv, [Next]_vars PROVE WaitInv'
    OBVIOUS
  <2>1. CASE Next
    <3>1. PICK c \in Cpus : CpuStep(c)
      BY <2>1 DEF Next
    <3>2. UNCHANGED bootVars
      BY <2>1 DEF Next
    <3> QED BY <3>1, <3>2, WaitStep
  <2>2. CASE UNCHANGED vars
    <3>1. UNCHANGED <<aging, late, pc, c_isidle, c_runqueue, c_hardclocks, waited>>
      BY <2>2 DEF vars, bootVars, cpuVars, clockVars
    <3> QED BY <3>1 DEF WaitInv, Patient, Phase
  <2> QED BY <2>1, <2>2
<1>3. SchedulerInv /\ WaitInv => NotStarved
  <2> SUFFICES ASSUME SchedulerInv, WaitInv, NEW t \in Threads PROVE waited[t] < Patience
    BY DEF NotStarved
  <2>1. CASE waited[t] = 0
    BY <2>1, PatiencePositive
  <2>2. CASE aging /\ waited[t] # 0
    <3>1. /\ Patient(c_isidle[Menu], c_runqueue[Menu], waited, Phase)
          /\ waited[t] \in Nat /\ c_runqueue[Menu] \in Seq(Threads)
          /\ Phase \in 0 .. SCHEDULE_HARDCLOCKS - 1 /\ c_isidle[Menu] \in BOOLEAN
      BY <2>2, FinalKernel, PhaseType DEF WaitInv
    <3>2. In(t, c_runqueue[Menu]) /\ ~c_isidle[Menu]
      BY <2>2, <3>1 DEF Patient
    <3>3. PICK i \in DOMAIN c_runqueue[Menu] : c_runqueue[Menu][i] = t
      BY <3>2 DEF In
    <3>4. i \in Nat \ {0} /\ Load(waited[t], i) <= Limit(Phase)
      BY <3>1, <3>2, <3>3 DEF Patient
    <3> QED BY <3>1, <3>4, PatienceHolds
  <2>3. CASE ~aging
    <3>1. waited[t] = 0
      BY <2>3 DEF WaitInv
    <3> QED BY <2>1, <3>1
  <2>4. aging \in BOOLEAN
    BY DEF SchedulerInv, RestType
  <2> QED BY <2>1, <2>2, <2>3, <2>4
<1> QED BY <1>1, <1>2, <1>3, SchedulerInvariant, LabelInvariant, PTL DEF Spec
=============================================================================
