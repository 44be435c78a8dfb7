------------------------------- MODULE Facts -------------------------------
(***************************************************************************)
(* Facts about numbers, finite sets and sequences that the proofs of       *)
(* several components use.                                                 *)
(***************************************************************************)
EXTENDS Integers, Sequences, FiniteSets, FiniteSetTheorems, WellFoundedInduction, TLAPS

\* A set of natural numbers that is not empty has a least element.
LEMMA LeastOf ==
  ASSUME NEW S \in SUBSET Nat, S # {}, NEW R, IsWellFoundedOn(R, Nat),
         \A i, j \in Nat : j < i => <<j, i>> \in R
  PROVE  \E i \in S : \A j \in S : i <= j
<1>1. PICK i \in S : \A j \in S : ~ (<<j, i>> \in R)
  BY WFMin
<1>2. \A j \in S : j \in Nat /\ i \in Nat /\ ~ (j < i)
  BY <1>1, Zenon
<1>3. \A j \in S : i <= j
  BY <1>2
<1> QED BY <1>3

\* A set of numbers that is not empty has a least one.
LEMMA NatLeast ==
  ASSUME NEW S \in SUBSET Nat, S # {}
  PROVE  \E i \in S : \A j \in S : i <= j
<1>1. \A i, j \in Nat : j < i => <<j, i>> \in OpToRel(<, Nat)
  BY Zenon DEF OpToRel
<1> QED BY <1>1, LeastOf, NatLessThanWellFounded, Zenon

\* Adding to or taking from a finite set.
LEMMA CardGrows ==
  ASSUME NEW S, IsFiniteSet(S), NEW T, NEW x, T \subseteq S \cup {x}
  PROVE  IsFiniteSet(T) /\ Cardinality(T) <= Cardinality(S) + 1
<1>1. IsFiniteSet(S \cup {x}) /\ Cardinality(S) \in Nat
  BY FS_AddElement, FS_CardinalityType
<1>2. Cardinality(S \cup {x}) = Cardinality(S) \/ Cardinality(S \cup {x}) = Cardinality(S) + 1
  BY FS_AddElement
<1>3. IsFiniteSet(T) /\ Cardinality(T) <= Cardinality(S \cup {x}) /\ Cardinality(T) \in Nat
  BY <1>1, FS_Subset, FS_CardinalityType
<1> QED BY <1>1, <1>2, <1>3

\* What lies within a finite set without one of its members is smaller by one.
LEMMA CardShrinks ==
  ASSUME NEW S, IsFiniteSet(S), NEW T, NEW x \in S, T \subseteq S \ {x}
  PROVE  IsFiniteSet(T) /\ Cardinality(T) <= Cardinality(S) - 1
<1>1. /\ IsFiniteSet(S \ {x}) /\ Cardinality(S \ {x}) = Cardinality(S) - 1
      /\ Cardinality(S) \in Nat
  BY FS_RemoveElement, FS_CardinalityType
<1>2. IsFiniteSet(T) /\ Cardinality(T) <= Cardinality(S \ {x})
  BY <1>1, FS_Subset
<1> QED BY <1>1, <1>2

\* A subset of a finite set is finite and not larger.
LEMMA CardWithin ==
  ASSUME NEW S, IsFiniteSet(S), NEW T, T \subseteq S
  PROVE  IsFiniteSet(T) /\ Cardinality(T) <= Cardinality(S) /\ Cardinality(T) \in Nat
BY FS_Subset, FS_CardinalityType

\* A finite set with a member has at least one.
LEMMA CardHasOne ==
  ASSUME NEW S, IsFiniteSet(S), NEW x \in S
  PROVE  Cardinality(S) >= 1
BY FS_EmptySet, FS_CardinalityType

\* Two members of a set make its cardinality at least two.
LEMMA CardAtMostOne ==
  ASSUME NEW S, IsFiniteSet(S), Cardinality(S) <= 1, NEW x \in S, NEW y \in S
  PROVE  x = y
<1>1. /\ IsFiniteSet(S \ {x}) /\ Cardinality(S \ {x}) = Cardinality(S) - 1
      /\ Cardinality(S) \in Nat /\ Cardinality(S \ {x}) \in Nat
  BY FS_RemoveElement, FS_CardinalityType
<1>2. S \ {x} = {}
  BY <1>1, FS_EmptySet
<1> QED BY <1>2

-----------------------------------------------------------------------------
(***************************************************************************)
(* Lists of things that are on them once.                                  *)
(***************************************************************************)
In(x, s) == \E i \in DOMAIN s : s[i] = x
Once(s) == \A i, j \in DOMAIN s : s[i] = s[j] => i = j

\* The empty list.
LEMMA OnceEmpty == Once(<<>>) /\ \A x : ~In(x, <<>>)
BY DEF Once, In

\* The members of a list.
LEMMA InType ==
  ASSUME NEW S, NEW s \in Seq(S), NEW x, In(x, s)
  PROVE  x \in S /\ s # <<>>
BY DEF In

\* The first member of a list.
LEMMA InHead ==
  ASSUME NEW S, NEW s \in Seq(S), s # <<>>
  PROVE  In(Head(s), s) /\ Head(s) \in S
BY DEF In

\* Appending adds one member.
LEMMA OnceAppend ==
  ASSUME NEW S, NEW s \in Seq(S), NEW y \in S
  PROVE  /\ Append(s, y) \in Seq(S) /\ Append(s, y) # <<>> /\ Len(Append(s, y)) = Len(s) + 1
         /\ \A x : In(x, Append(s, y)) <=> In(x, s) \/ x = y
         /\ Once(s) /\ ~In(y, s) => Once(Append(s, y))
<1> DEFINE r == Append(s, y)
<1>1. /\ r \in Seq(S) /\ r # <<>> /\ DOMAIN r = DOMAIN s \cup {Len(s) + 1}
      /\ \A i \in DOMAIN s : r[i] = s[i] /\ i # Len(s) + 1
      /\ r[Len(s) + 1] = y /\ Len(r) = Len(s) + 1
  OBVIOUS
<1> HIDE DEF r
<1>2. \A x : In(x, r) <=> In(x, s) \/ x = y
  BY <1>1 DEF In
<1>3. Once(s) /\ ~In(y, s) => Once(r)
  BY <1>1 DEF In, Once
<1> QED BY <1>1, <1>2, <1>3 DEF r

\* Taking the first member off the list.
LEMMA OnceTail ==
  ASSUME NEW S, NEW s \in Seq(S), s # <<>>
  PROVE  /\ Tail(s) \in Seq(S) /\ Len(Tail(s)) = Len(s) - 1
         /\ \A x : In(x, s) <=> In(x, Tail(s)) \/ x = Head(s)
         /\ Once(s) => Once(Tail(s)) /\ ~In(Head(s), Tail(s))
<1> DEFINE r == Tail(s)
<1>1. /\ r \in Seq(S) /\ Len(r) = Len(s) - 1 /\ Head(s) = s[1] /\ 1 \in DOMAIN s
      /\ \A i \in DOMAIN r : i + 1 \in DOMAIN s /\ r[i] = s[i + 1] /\ i \in Nat /\ i # 0
      /\ \A i \in DOMAIN s : i # 1 => i - 1 \in DOMAIN r /\ r[i - 1] = s[i]
  OBVIOUS
<1> HIDE DEF r
<1>2. \A x : In(x, s) <=> In(x, r) \/ x = Head(s)
  BY <1>1 DEF In
<1>3. ASSUME Once(s) PROVE Once(r)
  <2>1. ASSUME NEW i \in DOMAIN r, NEW j \in DOMAIN r, r[i] = r[j] PROVE i = j
    <3>1. i + 1 = j + 1
      BY <1>1, <1>3, <2>1 DEF Once
    <3> QED BY <1>1, <3>1
  <2> QED BY <2>1 DEF Once
<1>4. ASSUME Once(s) PROVE ~In(Head(s), r)
  <2>1. ASSUME NEW i \in DOMAIN r, r[i] = Head(s) PROVE FALSE
    <3>1. i + 1 = 1
      BY <1>1, <1>4, <2>1 DEF Once
    <3> QED BY <1>1, <3>1
  <2> QED BY <2>1 DEF In
<1> QED BY <1>1, <1>2, <1>3, <1>4 DEF r

\* Putting one list behind another.
LEMMA OnceConcat ==
  ASSUME NEW S, NEW s \in Seq(S), NEW r \in Seq(S)
  PROVE  /\ s \o r \in Seq(S) /\ Len(s \o r) = Len(s) + Len(r)
         /\ \A x : In(x, s \o r) <=> In(x, s) \/ In(x, r)
         /\ Once(s) /\ Once(r) /\ (\A x \in S : ~(In(x, s) /\ In(x, r))) => Once(s \o r)
<1> DEFINE q == s \o r
<1>1. /\ q \in Seq(S) /\ Len(q) = Len(s) + Len(r)
      /\ \A i \in DOMAIN s : i \in DOMAIN q /\ q[i] = s[i] /\ i \in 1 .. Len(s)
      /\ \A i \in DOMAIN r : Len(s) + i \in DOMAIN q /\ q[Len(s) + i] = r[i]
      /\ \A i \in DOMAIN q : i \in DOMAIN s \/ (i - Len(s) \in DOMAIN r /\ q[i] = r[i - Len(s)])
      /\ DOMAIN q \subseteq Int /\ Len(s) \in Int
  OBVIOUS
<1>0. \A i \in DOMAIN s : s[i] \in S
  OBVIOUS
<1> HIDE DEF q
<1>2. \A x : In(x, q) <=> In(x, s) \/ In(x, r)
  BY <1>1 DEF In
<1>3. ASSUME Once(s), Once(r), \A x \in S : ~(In(x, s) /\ In(x, r)) PROVE Once(q)
  <2>1. ASSUME NEW i \in DOMAIN q, NEW j \in DOMAIN q, q[i] = q[j] PROVE i = j
    <3>1. CASE i \in DOMAIN s /\ j \in DOMAIN s
      BY <1>1, <1>3, <2>1, <3>1 DEF Once
    <3>2. CASE i \notin DOMAIN s /\ j \notin DOMAIN s
      <4>1. i - Len(s) = j - Len(s)
        BY <1>1, <1>3, <2>1, <3>2 DEF Once
      <4> QED BY <1>1, <4>1
    <3>3. CASE i \in DOMAIN s /\ j \notin DOMAIN s
      <4>1. In(q[i], s) /\ In(q[j], r) /\ q[i] \in S
        BY <1>0, <1>1, <3>3 DEF In
      <4> QED BY <1>3, <2>1, <4>1
    <3>4. CASE i \notin DOMAIN s /\ j \in DOMAIN s
      <4>1. In(q[j], s) /\ In(q[i], r) /\ q[j] \in S
        BY <1>0, <1>1, <3>4 DEF In
      <4> QED BY <1>3, <2>1, <4>1
    <3> QED BY <3>1, <3>2, <3>3, <3>4
  <2> QED BY <2>1 DEF Once
<1> QED BY <1>1, <1>2, <1>3 DEF q

\* A list cut in two.
LEMMA OnceCut ==
  ASSUME NEW S, NEW s \in Seq(S), NEW m \in 0 .. Len(s)
  PROVE  /\ SubSeq(s, 1, m) \in Seq(S) /\ Len(SubSeq(s, 1, m)) = m
         /\ SubSeq(s, m + 1, Len(s)) \in Seq(S) /\ Len(SubSeq(s, m + 1, Len(s))) = Len(s) - m
         /\ \A x : In(x, s) <=> In(x, SubSeq(s, 1, m)) \/ In(x, SubSeq(s, m + 1, Len(s)))
         /\ Once(s) =>
              /\ Once(SubSeq(s, 1, m)) /\ Once(SubSeq(s, m + 1, Len(s)))
              /\ \A x : ~(In(x, SubSeq(s, 1, m)) /\ In(x, SubSeq(s, m + 1, Len(s))))
<1> DEFINE a == SubSeq(s, 1, m)
           b == SubSeq(s, m + 1, Len(s))
<1>1. /\ a \in Seq(S) /\ Len(a) = m /\ \A i \in DOMAIN a : i \in DOMAIN s /\ i <= m /\ a[i] = s[i]
      /\ \A i \in DOMAIN s : i <= m => i \in DOMAIN a
      /\ DOMAIN s \subseteq Int
  OBVIOUS
<1>2. /\ b \in Seq(S) /\ Len(b) = Len(s) - m
      /\ \A i \in DOMAIN b : m + i \in DOMAIN s /\ i > 0 /\ i \in Nat /\ b[i] = s[m + i]
      /\ \A i \in DOMAIN s : i > m => i - m \in DOMAIN b /\ b[i - m] = s[i]
  <2>1. b \in Seq(S) /\ Len(b) = Len(s) - m
    OBVIOUS
  <2>2. \A i \in DOMAIN b : m + i \in DOMAIN s /\ i > 0 /\ i \in Nat /\ b[i] = s[m + i]
    OBVIOUS
  <2>3. ASSUME NEW i \in DOMAIN s, i > m PROVE i - m \in DOMAIN b /\ b[i - m] = s[i]
    <3>1. i - m \in DOMAIN b /\ m + (i - m) = i
      BY <2>1, <2>3
    <3> HIDE DEF b
    <3> QED BY <2>2, <3>1
  <2> QED BY <2>1, <2>2, <2>3
<1> HIDE DEF a, b
<1>3. \A x : In(x, s) <=> In(x, a) \/ In(x, b)
  BY <1>1, <1>2 DEF In
<1>4. ASSUME Once(s) PROVE Once(a)
  BY <1>1, <1>4 DEF Once
<1>5. ASSUME Once(s) PROVE Once(b)
  <2>1. ASSUME NEW i \in DOMAIN b, NEW j \in DOMAIN b, b[i] = b[j] PROVE i = j
    <3>1. m + i = m + j
      BY <1>2, <1>5, <2>1 DEF Once
    <3> QED BY <1>2, <3>1
  <2> QED BY <2>1 DEF Once
<1>6. ASSUME Once(s), NEW x, In(x, a), In(x, b) PROVE FALSE
  <2>1. PICK i \in DOMAIN a : a[i] = x
    BY <1>6 DEF In
  <2>2. PICK j \in DOMAIN b : b[j] = x
    BY <1>6 DEF In
  <2>3. i = m + j
    BY <1>1, <1>2, <1>6, <2>1, <2>2 DEF Once
  <2> QED BY <1>1, <1>2, <2>3
<1> QED BY <1>1, <1>2, <1>3, <1>4, <1>5, <1>6 DEF a, b

\* A sequence without repetitions is as long as there are things in it.
LEMMA OnceLength ==
  ASSUME NEW T, IsFiniteSet(T), NEW U, NEW s \in Seq(U), Once(s), \A x : In(x, s) => x \in T
  PROVE  Len(s) <= Cardinality(T) /\ ((\A x \in T : In(x, s)) => Len(s) = Cardinality(T))
<1>1. Len(s) \in Nat /\ DOMAIN s = 1 .. Len(s) /\ s = [i \in 1 .. Len(s) |-> s[i]]
  OBVIOUS
<1>2. s \in Injection(1 .. Len(s), T)
  <2>1. \A i \in 1 .. Len(s) : s[i] \in T
    BY <1>1 DEF In
  <2>2. s \in [1 .. Len(s) -> T]
    BY <1>1, <2>1
  <2>3. \A i, j \in 1 .. Len(s) : s[i] = s[j] => i = j
    BY <1>1 DEF Once
  <2> QED BY <1>1, <2>2, <2>3, Zenon DEF Injection, IsInjective
<1>3. Cardinality(1 .. Len(s)) = Len(s) /\ Cardinality(T) \in Nat
  <2>1. Cardinality(1 .. Len(s)) = IF 1 > Len(s) THEN 0 ELSE Len(s) - 1 + 1
    BY <1>1, FS_Interval
  <2> QED BY <1>1, <2>1, FS_CardinalityType
<1>4. ASSUME \A x \in T : In(x, s) PROVE s \in Surjection(1 .. Len(s), T)
  <2>1. s \in [1 .. Len(s) -> T]
    BY <1>2 DEF Injection
  <2>2. \A x \in T : \E i \in 1 .. Len(s) : s[i] = x
    BY <1>1, <1>4 DEF In
  <2> QED BY <2>1, <2>2 DEF Surjection
<1> QED BY <1>2, <1>3, <1>4, FS_Injection

\* Multiplying keeps the order.
LEMMA TimesMore ==
  ASSUME NEW a \in Nat, NEW i \in Int, NEW j \in Int, i <= j
  PROVE  a * i <= a * j
<1>1. PICK d \in Nat : j = i + d
  <2>1. j - i \in Nat /\ j = i + (j - i)
    OBVIOUS
  <2> QED BY <2>1
<1>2. a * j = a * i + a * d /\ a * d \in Nat /\ a * i \in Int
  BY <1>1
<1> QED BY <1>2

\* Quotient and remainder.
LEMMA DivMod ==
  ASSUME NEW a \in Int, NEW m \in Nat, m > 0
  PROVE  a \div m \in Int /\ a % m \in 0 .. m - 1 /\ a = m * (a \div m) + (a % m)
<1>1. a \div m \in Int /\ a % m \in 0 .. m - 1
  OBVIOUS
<1>2. a = m * (a \div m) + (a % m)
  OBVIOUS
<1> QED BY <1>1, <1>2

\* A quotient and a remainder that fit are the ones.
LEMMA ModIs ==
  ASSUME NEW a \in Int, NEW m \in Nat \ {0}, NEW q \in Int, NEW r \in 0 .. m - 1, a = m * q + r
  PROVE  a % m = r
<1> DEFINE k == a \div m
           x == a % m
<1>0. m \in Nat /\ m > 0 /\ a \in Int
  OBVIOUS
<1>1. k \in Int /\ x \in 0 .. m - 1
  BY <1>0, DivMod, Zenon
<1>2. a = m * k + x
  BY <1>0, DivMod, Zenon
<1> HIDE DEF k, x
<1>3. ~(k + 1 <= q)
  <2>1. ASSUME k + 1 <= q PROVE m * (k + 1) <= m * q
    BY <1>1, <2>1, TimesMore
  <2>2. m * (k + 1) = m * k + m /\ m * k \in Int /\ m * q \in Int
    BY <1>1
  <2> QED BY <1>1, <1>2, <2>1, <2>2
<1>4. ~(q + 1 <= k)
  <2>1. ASSUME q + 1 <= k PROVE m * (q + 1) <= m * k
    BY <1>1, <2>1, TimesMore
  <2>2. m * (q + 1) = m * q + m /\ m * k \in Int /\ m * q \in Int
    BY <1>1
  <2> QED BY <1>1, <1>2, <2>1, <2>2
<1>5. k = q
  BY <1>1, <1>3, <1>4
<1>6. x = r
  BY <1>1, <1>2, <1>5
<1> QED BY <1>6 DEF x

\* The remainder counts up and starts over.
LEMMA ModNext ==
  ASSUME NEW a \in Nat, NEW m \in Nat \ {0}
  PROVE  /\ a % m \in 0 .. m - 1
         /\ a % m = m - 1 => (a + 1) % m = 0
         /\ a % m # m - 1 => (a + 1) % m = (a % m) + 1
<1> DEFINE k == a \div m
           x == a % m
<1>0. m \in Nat /\ m > 0 /\ a \in Int
  OBVIOUS
<1>1. k \in Int /\ x \in 0 .. m - 1
  BY <1>0, DivMod, Zenon
<1>2. a = m * k + x
  BY <1>0, DivMod, Zenon
<1> HIDE DEF k, x
<1>3. ASSUME x = m - 1 PROVE (a + 1) % m = 0
  <2>1. m * (k + 1) = m * k + m /\ m * k \in Int
    BY <1>1
  <2>2. a + 1 \in Int /\ a + 1 = m * (k + 1) + 0 /\ k + 1 \in Int /\ 0 \in 0 .. m - 1
    BY <1>1, <1>2, <1>3, <2>1
  <2> QED BY <2>2, ModIs
<1>4. ASSUME x # m - 1 PROVE (a + 1) % m = x + 1
  <2>1. m * k \in Int
    BY <1>1
  <2>2. a + 1 \in Int /\ a + 1 = m * k + (x + 1) /\ x + 1 \in 0 .. m - 1
    BY <1>1, <1>2, <1>4, <2>1
  <2> QED BY <1>1, <2>2, ModIs
<1> QED BY <1>1, <1>3, <1>4 DEF x
=============================================================================
