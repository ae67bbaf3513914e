------------------------- MODULE FusionGroupsProofs -------------------------
(***************************************************************************)
(* What the recursion typed_fusion gives when no edge leads backwards.     *)
(* Before that, facts about natural numbers and finite sets of them that   *)
(* the proofs about setLexicalOrder and normalize use as well: induction   *)
(* without an operator as a parameter, and the orders in which a set may   *)
(* be gone through.                                                        *)
(***************************************************************************)
EXTENDS FusionGroups, FiniteSetTheorems, TLAPS

\* The finite sets 0 .. n are well founded, so there is a smallest number.
LEMMA SmallestNumber ==
    ASSUME NEW T \in SUBSET Nat, T # {}
    PROVE  \E m \in T : \A k \in T : m <= k
<1> DEFINE U == {0 .. n : n \in T}
<1>1. U \subseteq FiniteSubsetsOf(Nat) /\ U # {}
  <2>1. \A n \in T : IsFiniteSet(0 .. n) /\ 0 .. n \in SUBSET Nat
    BY FS_Interval
  <2> QED
    BY <2>1 DEF FiniteSubsetsOf
<1>2. PICK u \in U : \A v \in U : ~(<<v, u>> \in StrictSubsetOrdering(Nat))
  <2> HIDE DEF U
  <2> QED
    BY <1>1, FS_StrictSubsetOrderingWellFounded, WFMin
<1>3. PICK m \in T : u = 0 .. m
  OBVIOUS
<1>4. ASSUME NEW k \in T, k < m PROVE FALSE
  <2>1. 0 .. k \in U /\ 0 .. k \subseteq 0 .. m /\ 0 .. k # 0 .. m
    BY <1>4
  <2>2. <<0 .. k, 0 .. m>> \in StrictSubsetOrdering(Nat)
    BY <2>1 DEF StrictSubsetOrdering
  <2> QED
    BY <1>2, <1>3, <2>1, <2>2
<1> QED
  BY <1>4

\* What holds of 0, and of n + 1 when of n, holds of every number.
LEMMA EveryNumber ==
    ASSUME NEW S \in SUBSET Nat, 0 \in S, \A n \in S : n + 1 \in S
    PROVE  S = Nat
<1> DEFINE T == Nat \ S
<1>1. SUFFICES ASSUME T # {} PROVE FALSE
  OBVIOUS
<1>2. PICK m \in T : \A k \in T : m <= k
  <2> HIDE DEF T
  <2>1. T \in SUBSET Nat
    BY DEF T
  <2> QED
    BY <1>1, <2>1, SmallestNumber
<1>3. m \in Nat \ {0} /\ m - 1 \in Nat /\ m - 1 \notin T
  BY <1>2
<1> QED
  BY <1>2, <1>3

\* An injection of the first numbers in a set of as many elements reaches all of them.
Enumerates(q, S) ==
    /\ q \in [1 .. Cardinality(S) -> S]
    /\ \A i, j \in 1 .. Cardinality(S) : i < j => q[i] # q[j]

LEMMA EnumerationIsOnto ==
    ASSUME NEW S, IsFiniteSet(S), NEW q, Enumerates(q, S), NEW s \in S
    PROVE  \E n \in 1 .. Cardinality(S) : q[n] = s
<1> DEFINE c == Cardinality(S)
<1>1. c \in Nat /\ IsFiniteSet(1 .. c) /\ Cardinality(1 .. c) = c
  <2>1. c \in Nat
    BY FS_CardinalityType
  <2> HIDE DEF c
  <2>2. Cardinality(1 .. c) = IF 1 > c THEN 0 ELSE c - 1 + 1
    BY <2>1, FS_Interval
  <2> QED
    BY <2>1, <2>2, FS_Interval
<1> HIDE DEF c
<1>2. \A i, j \in 1 .. c : q[i] = q[j] => i = j
  BY <1>1 DEF c, Enumerates
<1>3. q \in Injection(1 .. c, S)
  BY <1>2 DEF Injection, IsInjective, c, Enumerates
<1>4. q \in Surjection(1 .. c, S)
  BY <1>1, <1>3, FS_Injection DEF c
<1> QED
  BY <1>4 DEF Surjection, c

\* The elements of a set from the smallest to the largest.
Ascends(q, S) ==
    q \in [1 .. Cardinality(S) -> S] /\ \A i, j \in DOMAIN q : i < j => q[i] < q[j]

\* Two ascending orders of a set are the same: where they differed first, the smaller
\* element would be nowhere in the other.
LEMMA AscendsFirst ==
    ASSUME NEW S \in SUBSET Nat, IsFiniteSet(S), NEW q, Ascends(q, S), NEW r, Ascends(r, S),
           NEW k \in 1 .. Cardinality(S), \A i \in 1 .. k - 1 : q[i] = r[i], q[k] < r[k]
    PROVE  FALSE
<1>1. Cardinality(S) \in Nat
  BY FS_CardinalityType
<1> DEFINE c == Cardinality(S)
<1>2. /\ q \in [1 .. c -> S] /\ r \in [1 .. c -> S]
      /\ \A i, j \in 1 .. c : i < j => q[i] < q[j] /\ r[i] < r[j]
  BY DEF Ascends
<1> HIDE DEF c
<1>3. \A i \in 1 .. c : q[i] \in Nat /\ r[i] \in Nat
  BY <1>2
<1>4. Enumerates(r, S)
  BY <1>2, <1>3 DEF Enumerates, c
<1>5. PICK n \in 1 .. c : r[n] = q[k]
  <2>1. q[k] \in S
    BY <1>2 DEF c
  <2> QED
    BY <1>4, <2>1, EnumerationIsOnto DEF c
<1>6. k \in 1 .. c /\ c \in Nat
  BY <1>1 DEF c
<1>7. CASE n < k
  <2>1. n \in 1 .. k - 1 /\ q[n] = q[k] /\ q[n] < q[k]
    BY <1>2, <1>5, <1>6, <1>7
  <2> QED
    BY <1>3, <2>1
<1>8. CASE n = k
  BY <1>3, <1>5, <1>6, <1>8
<1>9. CASE n > k
  <2>1. r[k] < r[n]
    BY <1>2, <1>6, <1>9
  <2> QED
    BY <1>3, <1>5, <1>6, <2>1
<1> QED
  BY <1>6, <1>7, <1>8, <1>9

LEMMA AscendsOnce ==
    ASSUME NEW S \in SUBSET Nat, IsFiniteSet(S), NEW q, Ascends(q, S), NEW r, Ascends(r, S)
    PROVE  q = r
<1> DEFINE c == Cardinality(S)
           D == {k \in 1 .. c : q[k] # r[k]}
<1>1. c \in Nat
  BY FS_CardinalityType
<1>2. q \in [1 .. c -> S] /\ r \in [1 .. c -> S]
  BY DEF Ascends
<1>3. ASSUME D # {} PROVE FALSE
  <2>1. PICK k \in D : \A i \in D : k <= i
    <3>1. D \in SUBSET Nat
      BY <1>1
    <3> HIDE DEF D
    <3> QED
      BY <1>3, <3>1, SmallestNumber
  <2>2. k \in 1 .. c /\ q[k] # r[k] /\ \A i \in 1 .. k - 1 : q[i] = r[i]
    BY <1>1, <2>1
  <2>3. q[k] \in Nat /\ r[k] \in Nat
    BY <1>2, <2>2
  <2>4. CASE q[k] < r[k]
    BY <2>2, <2>4, AscendsFirst
  <2>5. CASE r[k] < q[k]
    BY <2>2, <2>5, AscendsFirst
  <2> QED
    BY <2>2, <2>3, <2>4, <2>5
<1>4. \A k \in 1 .. c : q[k] = r[k]
  BY <1>3
<1>5. q = [k \in 1 .. c |-> q[k]] /\ r = [k \in 1 .. c |-> r[k]]
  BY <1>2
<1> HIDE DEF c, D
<1> QED
  BY <1>4, <1>5

\* Every finite set of numbers has an ascending order: its smallest element, then the rest.
LEMMA AscendsExists ==
    ASSUME NEW S \in SUBSET Nat, IsFiniteSet(S)
    PROVE  \E q : Ascends(q, S)
<1> DEFINE Sized(n) == {A \in SUBSET Nat : IsFiniteSet(A) /\ Cardinality(A) = n}
           T == {n \in Nat : \A A \in Sized(n) : \E q : Ascends(q, A)}
<1>1. 0 \in T
  <2> SUFFICES ASSUME NEW A \in Sized(0) PROVE \E q : Ascends(q, A)
    OBVIOUS
  <2>1. Ascends([i \in 1 .. 0 |-> 0], A)
    BY DEF Ascends
  <2> QED
    BY <2>1
<1>2. ASSUME NEW n \in T PROVE n + 1 \in T
  <2> SUFFICES ASSUME NEW A \in Sized(n + 1) PROVE \E q : Ascends(q, A)
    OBVIOUS
  <2>1. A \in SUBSET Nat /\ IsFiniteSet(A) /\ Cardinality(A) = n + 1 /\ n \in Nat
    OBVIOUS
  <2>2. A # {}
    BY <2>1, FS_EmptySet
  <2>3. PICK m \in A : \A k \in A : m <= k
    BY <2>1, <2>2, SmallestNumber
  <2>4. IsFiniteSet(A \ {m}) /\ Cardinality(A \ {m}) = n
    <3>1. IsFiniteSet(A \ {m}) /\ Cardinality(A \ {m}) = Cardinality(A) - 1
      BY <2>1, FS_RemoveElement
    <3> QED
      BY <2>1, <3>1
  <2>5. A \ {m} \in Sized(n)
    BY <2>1, <2>4
  <2>6. PICK r : Ascends(r, A \ {m})
    BY <2>5
  <2> DEFINE q == [i \in 1 .. n + 1 |-> IF i = 1 THEN m ELSE r[i - 1]]
  <2>7. r \in [1 .. n -> A \ {m}] /\ \A i, j \in 1 .. n : i < j => r[i] < r[j]
    BY <2>4, <2>6 DEF Ascends
  <2>8. q \in [1 .. n + 1 -> A]
    BY <2>1, <2>7
  <2>9. ASSUME NEW i \in 1 .. n + 1, NEW j \in 1 .. n + 1, i < j PROVE q[i] < q[j]
    <3>1. j - 1 \in 1 .. n /\ q[j] = r[j - 1] /\ r[j - 1] \in A \ {m}
      BY <2>1, <2>7, <2>9
    <3>2. CASE i = 1
      <4>1. q[i] = m /\ m <= r[j - 1] /\ m # r[j - 1] /\ m \in Nat /\ r[j - 1] \in Nat
        BY <2>1, <2>3, <3>1, <3>2
      <4> HIDE DEF q
      <4> QED
        BY <3>1, <4>1
    <3>3. CASE i # 1
      <4>1. i - 1 \in 1 .. n /\ q[i] = r[i - 1] /\ i - 1 < j - 1
        BY <2>1, <2>9, <3>3
      <4> HIDE DEF q
      <4> QED
        BY <2>7, <3>1, <4>1
    <3> QED
      BY <3>2, <3>3
  <2>10. Ascends(q, A)
    <3> HIDE DEF q
    <3> QED
      BY <2>1, <2>8, <2>9 DEF Ascends
  <2> QED
    BY <2>10
<1>3. T = Nat
  <2>1. T \in SUBSET Nat
    OBVIOUS
  <2> HIDE DEF T
  <2> QED
    BY <1>1, <1>2, <2>1, EveryNumber
<1>4. Cardinality(S) \in Nat /\ S \in Sized(Cardinality(S))
  BY FS_CardinalityType
<1> QED
  BY <1>3, <1>4

-----------------------------------------------------------------------------
(***************************************************************************)
(* The sequences of typed_fusion.                                          *)
(***************************************************************************)
LEMMA SortedFacts ==
    ASSUME NEW S \in SUBSET Nat, IsFiniteSet(S)
    PROVE  /\ Ascends(Sorted(S), S)
           /\ Sorted(S) \in Seq(S) /\ Len(Sorted(S)) = Cardinality(S)
           /\ \A i, j \in 1 .. Cardinality(S) : Sorted(S)[i] = Sorted(S)[j] => i = j
           /\ \A v \in S : \E i \in 1 .. Cardinality(S) : Sorted(S)[i] = v
<1>1. Sorted(S) \in Ascending(S)
  <2>1. PICK q : Ascends(q, S)
    BY AscendsExists
  <2> QED
    BY <2>1 DEF Sorted, Ascends, Ascending
<1> DEFINE c == Cardinality(S)
           q == Sorted(S)
<1>2. c \in Nat
  BY FS_CardinalityType
<1>3. Ascends(q, S)
  BY <1>1 DEF Ascends, Ascending
<1> HIDE DEF q
<1>4. q \in [1 .. c -> S] /\ \A i, j \in 1 .. c : i < j => q[i] < q[j]
  BY <1>3 DEF Ascends
<1> HIDE DEF c
<1>5. \A i, j \in 1 .. c : i # j => q[i] # q[j]
  <2> SUFFICES ASSUME NEW i \in 1 .. c, NEW j \in 1 .. c, i # j PROVE q[i] # q[j]
    OBVIOUS
  <2>1. q[i] \in Nat /\ q[j] \in Nat
    BY <1>4
  <2>2. i < j \/ j < i
    BY <1>2
  <2> QED
    BY <1>4, <2>1, <2>2
<1>6. Enumerates(q, S)
  <2>1. \A i, j \in 1 .. c : i < j => i # j
    BY <1>2
  <2> QED
    BY <1>4, <1>5, <2>1 DEF Enumerates, c
<1>7. \A v \in S : \E i \in 1 .. c : q[i] = v
  BY <1>6, EnumerationIsOnto DEF c
<1>8. q \in Seq(S) /\ Len(q) = c
  BY <1>2, <1>4
<1> QED
  BY <1>3, <1>5, <1>7, <1>8 DEF c, q

Occurs(w, v) == \E i \in DOMAIN w : w[i] = v
NoneTwice(w) == \A i, j \in DOMAIN w : w[i] = w[j] => i = j

\* The front of a queue leaves it and the elements of q join it.
LEMMA QueueGoesOn ==
    ASSUME NEW A, NEW w \in Seq(A), w # <<>>, NoneTwice(w), NEW q \in Seq(A), NoneTwice(q),
           \A v \in A : ~(Occurs(w, v) /\ Occurs(q, v))
    PROVE  /\ Tail(w) \o q \in Seq(A) /\ NoneTwice(Tail(w) \o q)
           /\ Head(w) \in A /\ Occurs(w, Head(w))
           /\ \A v \in A : Occurs(Tail(w) \o q, v) <=> (Occurs(w, v) /\ v # Head(w)) \/ Occurs(q, v)
<1> DEFINE u == Tail(w) \o q
           a == Len(w) - 1
           b == Len(q)
<1>1. /\ Len(w) \in Nat /\ Len(w) # 0 /\ DOMAIN w = 1 .. Len(w) /\ b \in Nat /\ DOMAIN q = 1 .. b
      /\ Head(w) = w[1] /\ \A i \in 1 .. Len(w) : w[i] \in A
  OBVIOUS
<1>2. /\ Tail(w) \in Seq(A) /\ Len(Tail(w)) = a
      /\ \A i \in 1 .. a : Tail(w)[i] = w[i + 1]
  OBVIOUS
<1>3. /\ u \in Seq(A) /\ Len(u) = a + b /\ DOMAIN u = 1 .. a + b
      /\ \A i \in 1 .. a + b : u[i] = IF i <= a THEN Tail(w)[i] ELSE q[i - a]
  BY <1>1, <1>2
<1> HIDE DEF u
<1>4. \A i \in 1 .. a : i \in 1 .. a + b /\ i + 1 \in 1 .. Len(w) /\ u[i] = w[i + 1]
  BY <1>1, <1>2, <1>3
<1>5. \A i \in 1 .. b : a + i \in 1 .. a + b /\ u[a + i] = q[i]
  <2> SUFFICES ASSUME NEW i \in 1 .. b PROVE a + i \in 1 .. a + b /\ u[a + i] = q[i]
    OBVIOUS
  <2>1. a + i \in 1 .. a + b /\ ~(a + i <= a) /\ a + i - a = i
    BY <1>1
  <2> QED
    BY <1>3, <2>1
<1>6. \A i \in 1 .. a + b : i \in 1 .. a \/ (i - a \in 1 .. b /\ a + (i - a) = i)
  BY <1>1
<1>7. ASSUME NEW v \in A
      PROVE  Occurs(u, v) <=> (Occurs(w, v) /\ v # Head(w)) \/ Occurs(q, v)
  <2>1. ASSUME Occurs(u, v) PROVE (Occurs(w, v) /\ v # Head(w)) \/ Occurs(q, v)
    <3>1. PICK i \in 1 .. a + b : u[i] = v
      BY <1>3, <2>1 DEF Occurs
    <3>2. CASE i \in 1 .. a
      <4>1. i + 1 \in 1 .. Len(w) /\ w[i + 1] = v /\ i + 1 # 1 /\ 1 \in 1 .. Len(w)
        BY <1>1, <1>4, <3>1, <3>2
      <4> QED
        BY <1>1, <4>1 DEF NoneTwice, Occurs
    <3>3. CASE i - a \in 1 .. b /\ a + (i - a) = i
      BY <1>1, <1>5, <3>1, <3>3 DEF Occurs
    <3> QED
      BY <1>6, <3>2, <3>3
  <2>2. ASSUME Occurs(w, v), v # Head(w) PROVE Occurs(u, v)
    <3>1. PICK i \in 1 .. Len(w) : w[i] = v
      BY <1>1, <2>2 DEF Occurs
    <3>2. i - 1 \in 1 .. a /\ i - 1 + 1 = i
      BY <1>1, <2>2, <3>1
    <3> QED
      BY <1>3, <1>4, <3>1, <3>2 DEF Occurs
  <2>3. ASSUME Occurs(q, v) PROVE Occurs(u, v)
    BY <1>1, <1>3, <1>5, <2>3 DEF Occurs
  <2> QED
    BY <2>1, <2>2, <2>3
<1>8. ASSUME NEW i \in 1 .. a + b, NEW j \in 1 .. a + b, u[i] = u[j] PROVE i = j
  <2>1. CASE i \in 1 .. a /\ j \in 1 .. a
    <3>1. i + 1 = j + 1
      BY <1>1, <1>4, <1>8, <2>1 DEF NoneTwice
    <3> QED
      BY <1>1, <2>1, <3>1
  <2>2. CASE i - a \in 1 .. b /\ a + (i - a) = i /\ j - a \in 1 .. b /\ a + (j - a) = j
    <3>1. u[a + (i - a)] = q[i - a] /\ u[a + (j - a)] = q[j - a]
      BY <1>5, <2>2
    <3>2. q[i - a] = q[j - a] /\ i - a \in DOMAIN q /\ j - a \in DOMAIN q
      BY <1>1, <1>8, <2>2, <3>1
    <3>3. i - a = j - a
      BY <3>2 DEF NoneTwice
    <3> QED
      BY <2>2, <3>3
  <2>3. \A m \in 1 .. a, n \in 1 .. b : u[m] # u[a + n]
    <3> SUFFICES ASSUME NEW m \in 1 .. a, NEW n \in 1 .. b, u[m] = u[a + n] PROVE FALSE
      OBVIOUS
    <3>1. u[m] = w[m + 1] /\ m + 1 \in 1 .. Len(w) /\ u[a + n] = q[n]
      BY <1>4, <1>5
    <3> QED
      BY <1>1, <3>1 DEF Occurs
  <2> QED
    BY <1>6, <1>8, <2>1, <2>2, <2>3
<1>9. NoneTwice(u)
  BY <1>3, <1>8 DEF NoneTwice
<1>10. Head(w) \in A /\ Occurs(w, Head(w))
  <2>1. 1 \in 1 .. Len(w)
    BY <1>1
  <2> QED
    BY <1>1, <2>1 DEF Occurs
<1> QED
  BY <1>3, <1>7, <1>9, <1>10 DEF u

-----------------------------------------------------------------------------
(***************************************************************************)
(* The recursion.                                                          *)
(***************************************************************************)
\* h is the function by which typed_fusion goes from one vertex to the next.
Computes(h, n, es, b, t) ==
    h = [k \in 0 .. n |-> IF k = 0 THEN Begun(n, es)
                          ELSE IF h[k - 1].work = <<>> THEN h[k - 1]
                          ELSE Taken(h[k - 1], b, t)]

LEMMA ComputesExists ==
  ASSUME NEW n \in Nat, NEW es, NEW b, NEW t
  PROVE  \E h : Computes(h, n, es, b, t)
<1> DEFINE Then(x) == IF x.work = <<>> THEN x ELSE Taken(x, b, t)
           Goes(h, m) == h = [k \in 0 .. m |-> IF k = 0 THEN Begun(n, es) ELSE Then(h[k - 1])]
           S == {m \in Nat : \E h : Goes(h, m)}
<1> HIDE DEF Then
<1>1. 0 \in S
  <2>1. Goes([k \in 0 .. 0 |-> Begun(n, es)], 0)
    OBVIOUS
  <2> QED BY <2>1
<1>2. ASSUME NEW m \in S PROVE m + 1 \in S
  <2>1. PICK f : Goes(f, m)
    OBVIOUS
  <2> DEFINE h == [k \in 0 .. m + 1 |-> IF k = m + 1 THEN Then(f[m]) ELSE f[k]]
  <2>2. \A k \in 0 .. m : f[k] = IF k = 0 THEN Begun(n, es) ELSE Then(f[k - 1])
    BY <2>1
  <2>3. ASSUME NEW k \in 0 .. m + 1 PROVE h[k] = IF k = 0 THEN Begun(n, es) ELSE Then(h[k - 1])
    <3>1. CASE k = m + 1
      <4>1. k # 0 /\ k - 1 = m /\ m \in 0 .. m + 1 /\ m # m + 1
        BY <3>1
      <4>2. h[k] = Then(f[m]) /\ h[k - 1] = f[m]
        BY <3>1, <4>1
      <4> HIDE DEF h
      <4> QED BY <4>1, <4>2
    <3>2. CASE k # m + 1
      <4>1. k \in 0 .. m /\ h[k] = f[k]
        BY <3>2
      <4>2. k # 0 => k - 1 \in 0 .. m + 1 /\ k - 1 # m + 1 /\ h[k - 1] = f[k - 1]
        BY <3>2
      <4>3. CASE k = 0
        <5> HIDE DEF h
        <5> QED BY <2>2, <4>1, <4>3
      <4>4. CASE k # 0
        <5> HIDE DEF h
        <5> QED BY <2>2, <4>1, <4>2, <4>4
      <4> QED BY <4>3, <4>4
    <3> QED BY <3>1, <3>2
  <2>4. h = [k \in 0 .. m + 1 |-> h[k]]
    OBVIOUS
  <2>5. Goes(h, m + 1)
    <3> HIDE DEF h
    <3> QED BY <2>3, <2>4
  <2> HIDE DEF h, Goes
  <2>6. \E g : Goes(g, m + 1)
    BY <2>5
  <2>7. m + 1 \in Nat
    OBVIOUS
  <2> QED BY <2>6, <2>7
<1>3. S = Nat
  <2>1. S \in SUBSET Nat
    OBVIOUS
  <2> HIDE DEF S
  <2> QED BY <1>1, <1>2, <2>1, EveryNumber
<1>4. PICK h : Goes(h, n)
  BY <1>3
<1>5. Computes(h, n, es, b, t)
  BY <1>4 DEF Computes, Then
<1> QED BY <1>5


LEMMA TypedFusionIs ==
  ASSUME NEW n \in Nat, NEW es, NEW b, NEW t
  PROVE  \E h : Computes(h, n, es, b, t) /\ typed_fusion(n, es, b, t) = h[n].group
<1> DEFINE f == CHOOSE h : Computes(h, n, es, b, t)
<1>1. typed_fusion(n, es, b, t) = f[n].group
  BY DEF typed_fusion, Computes
<1>2. Computes(f, n, es, b, t)
  <2> HIDE DEF Computes
  <2> QED BY ComputesExists
<1> QED BY <1>1, <1>2

\* After k vertices: groups are numbered without gaps; the edges that are left are those
\* of the vertices without a group; the work list holds, once each, those that no edge
\* leads to any more.
GroupsSound(st, k, n, es) ==
    /\ st.lastnum \in 0 .. k /\ st.lastfused \in 0 .. st.lastnum
    /\ st.group \in [1 .. n -> 0 .. st.lastnum]
    /\ st.barrier \in [1 .. n -> 0 .. st.lastnum]
    /\ st.next \in [0 .. n -> 0 .. st.lastnum]
    /\ \A m \in 1 .. st.lastnum : \E v \in 1 .. n : st.group[v] = m
    /\ st.edges = {e \in es : st.group[e[1]] = 0}
    /\ st.work \in Seq(1 .. n) /\ NoneTwice(st.work)
    /\ \A v \in 1 .. n : Occurs(st.work, v) <=> st.group[v] = 0 /\ \A e \in st.edges : e[2] # v
    /\ \A v \in 1 .. n : st.group[v] # 0 => \A e \in st.edges : e[2] # v
    /\ st.work # <<>> => Cardinality({v \in 1 .. n : st.group[v] # 0}) = k

LEMMA BegunSound ==
  ASSUME NEW n \in Nat, NEW es \in SUBSET ((1 .. n) \X (1 .. n))
  PROVE  GroupsSound(Begun(n, es), 0, n, es)
<1> DEFINE S == Sources(es, 1 .. n)
           q == Sorted(S)
           group == [v \in 1 .. n |-> 0]
<1>1. IsFiniteSet(S) /\ S \in SUBSET Nat /\ S \subseteq 1 .. n
  <2>1. S \subseteq 1 .. n /\ IsFiniteSet(1 .. n)
    BY FS_Interval DEF Sources
  <2> HIDE DEF S
  <2>2. S \in SUBSET Nat
    BY <2>1
  <2>3. IsFiniteSet(S)
    BY <2>1, FS_Subset
  <2> QED BY <2>1, <2>2, <2>3
<1>2. \A v \in 1 .. n : v \in S <=> \A e \in es : e[2] # v
  BY DEF Sources
<1> HIDE DEF S
<1>3. /\ q \in Seq(S) /\ Len(q) = Cardinality(S)
      /\ \A i, j \in 1 .. Cardinality(S) : q[i] = q[j] => i = j
      /\ \A v \in S : \E i \in 1 .. Cardinality(S) : q[i] = v
  BY <1>1, SortedFacts
<1>4. Begun(n, es) = [work |-> q, edges |-> es, group |-> group, barrier |-> group,
                      next |-> [k \in 0 .. n |-> 0], lastfused |-> 0, lastnum |-> 0]
  BY DEF Begun, S
<1> HIDE DEF q
<1>5. q \in Seq(1 .. n) /\ NoneTwice(q)
  <2>1. DOMAIN q = 1 .. Len(q)
    BY <1>3
  <2>2. q \in Seq(1 .. n)
    <3>1. S \subseteq 1 .. n /\ q \in Seq(S)
      BY <1>1, <1>3
    <3>2. q = [i \in 1 .. Len(q) |-> q[i]] /\ Len(q) \in Nat /\ \A i \in 1 .. Len(q) : q[i] \in S
      BY <3>1
    <3> QED BY <3>1, <3>2
  <2> QED BY <1>3, <2>1, <2>2 DEF NoneTwice
<1>6. \A v \in 1 .. n : Occurs(q, v) <=> v \in S
  <2> SUFFICES ASSUME NEW v \in 1 .. n PROVE Occurs(q, v) <=> v \in S
    OBVIOUS
  <2>1. DOMAIN q = 1 .. Len(q) /\ \A i \in 1 .. Len(q) : q[i] \in S
    BY <1>3
  <2> QED BY <1>3, <2>1 DEF Occurs
<1>7. group \in [1 .. n -> 0 .. 0] /\ \A v \in 1 .. n : group[v] = 0
  OBVIOUS
<1> HIDE DEF group
<1>8. es = {e \in es : group[e[1]] = 0}
  BY <1>7
<1>9. Cardinality({v \in 1 .. n : group[v] # 0}) = 0
  <2>1. {v \in 1 .. n : group[v] # 0} = {}
    BY <1>7
  <2> QED BY <2>1, FS_EmptySet
<1> DEFINE st == Begun(n, es)
<1>10. /\ st.work = q /\ st.edges = es /\ st.group = group /\ st.barrier = group
       /\ st.next = [k \in 0 .. n |-> 0] /\ st.lastfused = 0 /\ st.lastnum = 0
  BY <1>4
<1> HIDE DEF st
<1>11. GroupsSound(st, 0, n, es)
  BY <1>2, <1>5, <1>6, <1>7, <1>8, <1>9, <1>10 DEF GroupsSound
<1> QED BY <1>11 DEF st

LEMMA TakenSound ==
  ASSUME NEW n \in Nat, NEW es \in SUBSET ((1 .. n) \X (1 .. n)), NEW b, NEW t,
         NEW k \in 0 .. n - 1, NEW st, GroupsSound(st, k, n, es), st.work # <<>>
  PROVE  GroupsSound(Taken(st, b, t), k + 1, n, es)
<1> DEFINE x == Head(st.work)
           p == st.next[st.barrier[x]]
           join == t[x] /\ p # 0
           num == IF join THEN p ELSE st.lastnum + 1
           begins == t[x] /\ ~join
           from == {e \in st.edges : e[1] = x}
           rest == st.edges \ from
           S == Sources(rest, {e[2] : e \in from})
           q == Sorted(S)
           group == [st.group EXCEPT ![x] = num]
           barrier == [m \in DOMAIN st.barrier |->
                         IF <<x, m>> \notin from THEN st.barrier[m]
                         ELSE MaxOf(st.barrier[m], IF t[m] /\ <<x, m>> \in b THEN num ELSE st.barrier[x])]
           next == IF begins THEN [st.next EXCEPT ![st.lastfused] = num] ELSE st.next
           lastfused == IF begins THEN num ELSE st.lastfused
           lastnum == IF join THEN st.lastnum ELSE st.lastnum + 1
<1>1. Taken(st, b, t) = [work |-> Tail(st.work) \o q, edges |-> rest, group |-> group, barrier |-> barrier,
                         next |-> next, lastfused |-> lastfused, lastnum |-> lastnum]
  BY DEF Taken
<1>2. /\ st.lastnum \in 0 .. k /\ st.lastfused \in 0 .. st.lastnum
      /\ st.group \in [1 .. n -> 0 .. st.lastnum]
      /\ st.barrier \in [1 .. n -> 0 .. st.lastnum]
      /\ st.next \in [0 .. n -> 0 .. st.lastnum]
      /\ \A m \in 1 .. st.lastnum : \E v \in 1 .. n : st.group[v] = m
      /\ st.edges = {e \in es : st.group[e[1]] = 0}
      /\ st.work \in Seq(1 .. n) /\ NoneTwice(st.work)
      /\ \A v \in 1 .. n : Occurs(st.work, v) <=> st.group[v] = 0 /\ \A e \in st.edges : e[2] # v
      /\ \A v \in 1 .. n : st.group[v] # 0 => \A e \in st.edges : e[2] # v
      /\ Cardinality({v \in 1 .. n : st.group[v] # 0}) = k
  BY DEF GroupsSound
<1>3. x \in 1 .. n /\ Occurs(st.work, x)
  <2> DEFINE w == st.work
  <2>1. w \in Seq(1 .. n) /\ w # <<>> /\ x = Head(w)
    BY <1>2
  <2> HIDE DEF w, x
  <2>2. 1 \in DOMAIN w /\ w[1] = x /\ x \in 1 .. n
    BY <2>1
  <2>3. Occurs(w, x)
    BY <2>2 DEF Occurs
  <2> QED BY <2>2, <2>3 DEF w
<1>4. st.group[x] = 0 /\ \A e \in st.edges : e[2] # x
  BY <1>2, <1>3
<1>5. \A e \in st.edges : e = <<e[1], e[2]>> /\ e[1] \in 1 .. n /\ e[2] \in 1 .. n
  BY <1>2
<1> HIDE DEF x
<1> DEFINE l == st.lastnum
<1>6. /\ l \in 0 .. k /\ st.lastfused \in 0 .. l /\ k \in 0 .. n - 1 /\ st.barrier \in [1 .. n -> 0 .. l]
      /\ st.next \in [0 .. n -> 0 .. l] /\ st.group \in [1 .. n -> 0 .. l]
  BY <1>2
<1>7. /\ num \in 1 .. lastnum /\ lastnum \in 0 .. k + 1 /\ lastfused \in 0 .. lastnum
      /\ l <= lastnum
      /\ lastnum = l \/ (lastnum = l + 1 /\ num = lastnum)
  <2> HIDE DEF l
  <2>1. st.barrier[x] \in 0 .. n
    BY <1>3, <1>6
  <2>2. p \in 0 .. l
    BY <1>6, <2>1
  <2>3. /\ num = IF join THEN p ELSE l + 1
        /\ lastnum = IF join THEN l ELSE l + 1
        /\ lastfused = num \/ lastfused = st.lastfused
        /\ join => p # 0
    BY DEF l
  <2> HIDE DEF num, lastnum, lastfused, join, p
  <2>4. CASE join
    <3>1. num = p /\ lastnum = l /\ p # 0
      BY <2>3, <2>4
    <3> QED BY <1>6, <2>2, <2>3, <3>1
  <2>5. CASE ~join
    <3>1. num = l + 1 /\ lastnum = l + 1
      BY <2>3, <2>5
    <3> QED BY <1>6, <2>3, <3>1
  <2> QED BY <2>4, <2>5
<1> HIDE DEF p, join, num, lastnum, lastfused, l
<1>8. next \in [0 .. n -> 0 .. lastnum]
  <2>1. 0 .. l \subseteq 0 .. lastnum /\ num \in 0 .. lastnum
    BY <1>6, <1>7
  <2>2. st.next \in [0 .. n -> 0 .. lastnum]
    BY <1>6, <2>1
  <2> QED BY <2>1, <2>2
<1> HIDE DEF begins, next
<1>9. barrier \in [1 .. n -> 0 .. lastnum]
  <2>1. ASSUME NEW m \in 1 .. n PROVE barrier[m] \in 0 .. lastnum
    <3>1. st.barrier[m] \in 0 .. lastnum /\ st.barrier[x] \in 0 .. lastnum /\ num \in 0 .. lastnum
      BY <1>3, <1>6, <1>7
    <3> QED BY <1>6, <3>1 DEF MaxOf
  <2>2. DOMAIN st.barrier = 1 .. n
    BY <1>6
  <2> QED BY <2>1, <2>2
<1> HIDE DEF barrier
<1>10. /\ group \in [1 .. n -> 0 .. lastnum]
       /\ \A v \in 1 .. n : group[v] = IF v = x THEN num ELSE st.group[v]
  <2>1. st.group \in [1 .. n -> 0 .. lastnum] /\ num \in 0 .. lastnum
    BY <1>6, <1>7
  <2> QED BY <1>3, <2>1
<1> HIDE DEF group
<1>11. \A m \in 1 .. lastnum : \E v \in 1 .. n : group[v] = m
  <2> SUFFICES ASSUME NEW m \in 1 .. lastnum PROVE \E v \in 1 .. n : group[v] = m
    OBVIOUS
  <2>1. CASE m \in 1 .. l
    <3>1. PICK v \in 1 .. n : st.group[v] = m
      BY <1>2, <2>1 DEF l
    <3>2. v # x
      BY <1>4, <2>1, <3>1
    <3> QED BY <1>10, <3>1, <3>2
  <2>2. CASE m = num
    BY <1>3, <1>10, <2>2
  <2> QED BY <1>6, <1>7, <2>1, <2>2
<1>12. rest = {e \in es : group[e[1]] = 0}
  <2>1. num # 0
    BY <1>7
  <2>2. \A e \in es : group[e[1]] = 0 <=> st.group[e[1]] = 0 /\ e[1] # x
    BY <1>4, <1>10, <2>1
  <2>3. rest = {e \in st.edges : e[1] # x}
    OBVIOUS
  <2> HIDE DEF rest
  <2> QED BY <1>2, <2>2, <2>3
<1>13. \A v : v \in S <=> (\E e \in from : e[2] = v) /\ \A e \in rest : e[2] # v
  BY DEF Sources
<1>14. \A e : e \in rest <=> e \in st.edges /\ e[1] # x
  OBVIOUS
<1>15. \A e : e \in from <=> e \in st.edges /\ e[1] = x
  OBVIOUS
<1> HIDE DEF S, from, rest
<1>16. S \subseteq 1 .. n /\ S \in SUBSET Nat /\ IsFiniteSet(S)
  <2>1. ASSUME NEW v \in S PROVE v \in 1 .. n
    <3>1. PICK e \in from : e[2] = v
      BY <1>13
    <3> QED BY <1>5, <1>15, <3>1
  <2>2. S \subseteq 1 .. n
    BY <2>1
  <2>3. IsFiniteSet(1 .. n)
    BY FS_Interval
  <2>4. IsFiniteSet(S)
    BY <2>2, <2>3, FS_Subset
  <2> QED BY <2>2, <2>4
<1>17. /\ q \in Seq(S) /\ Len(q) = Cardinality(S)
       /\ \A i, j \in 1 .. Cardinality(S) : q[i] = q[j] => i = j
       /\ \A v \in S : \E i \in 1 .. Cardinality(S) : q[i] = v
  BY <1>16, SortedFacts
<1> HIDE DEF q
<1>18. q \in Seq(1 .. n) /\ NoneTwice(q) /\ \A v : Occurs(q, v) <=> v \in S
  <2>1. DOMAIN q = 1 .. Len(q) /\ \A i \in 1 .. Len(q) : q[i] \in S
    BY <1>17
  <2>2. q \in Seq(1 .. n)
    BY <1>16, <1>17
  <2> QED BY <1>17, <2>1, <2>2 DEF NoneTwice, Occurs
<1>19. ASSUME NEW v \in S PROVE st.group[v] = 0 /\ ~Occurs(st.work, v) /\ v # x
  <2>1. PICK e \in from : e[2] = v
    BY <1>13
  <2>2. e \in st.edges /\ v \in 1 .. n
    BY <1>15, <1>16, <2>1
  <2> QED BY <1>2, <1>4, <2>1, <2>2
<1>20. /\ Tail(st.work) \o q \in Seq(1 .. n) /\ NoneTwice(Tail(st.work) \o q)
       /\ \A v \in 1 .. n : Occurs(Tail(st.work) \o q, v) <=> (Occurs(st.work, v) /\ v # x) \/ v \in S
  <2>1. \A v \in 1 .. n : ~(Occurs(st.work, v) /\ Occurs(q, v))
    BY <1>18, <1>19
  <2> DEFINE w == st.work
  <2>2. w \in Seq(1 .. n) /\ w # <<>> /\ NoneTwice(w) /\ q \in Seq(1 .. n) /\ NoneTwice(q)
    BY <1>2, <1>18
  <2>3. \A v \in 1 .. n : ~(Occurs(w, v) /\ Occurs(q, v))
    BY <2>1
  <2>4. x = Head(w)
    BY DEF x
  <2> HIDE DEF w
  <2>5. /\ Tail(w) \o q \in Seq(1 .. n) /\ NoneTwice(Tail(w) \o q)
        /\ \A v \in 1 .. n : Occurs(Tail(w) \o q, v) <=> (Occurs(w, v) /\ v # Head(w)) \/ Occurs(q, v)
    BY <2>2, <2>3, QueueGoesOn
  <2> QED BY <1>18, <2>4, <2>5 DEF w
<1>21. ASSUME NEW v \in 1 .. n
       PROVE  (Occurs(st.work, v) /\ v # x) \/ v \in S <=> group[v] = 0 /\ \A e \in rest : e[2] # v
  <2>1. group[v] = 0 <=> v # x /\ st.group[v] = 0
    BY <1>4, <1>7, <1>10
  <2>2. CASE \A e \in st.edges : e[2] # v
    BY <1>2, <1>13, <1>14, <1>15, <2>1, <2>2
  <2>3. CASE \E e \in st.edges : e[2] = v
    <3>1. ~Occurs(st.work, v) /\ v # x /\ st.group[v] = 0
      BY <1>2, <1>4, <2>3
    <3>2. (\A e \in rest : e[2] # v) => v \in S
      BY <1>13, <1>14, <1>15, <2>3
    <3> QED BY <1>13, <2>1, <3>1, <3>2
  <2> QED BY <2>2, <2>3
<1>22. \A v \in 1 .. n : group[v] # 0 => \A e \in rest : e[2] # v
  BY <1>2, <1>4, <1>10, <1>14
<1>23. Cardinality({v \in 1 .. n : group[v] # 0}) = k + 1
  <2> DEFINE G == {v \in 1 .. n : st.group[v] # 0}
  <2>1. IsFiniteSet(1 .. n)
    BY FS_Interval
  <2>2. {v \in 1 .. n : group[v] # 0} = G \cup {x}
    BY <1>3, <1>7, <1>10
  <2>3. IsFiniteSet(G) /\ x \notin G
    BY <1>4, <2>1, FS_Subset
  <2>4. Cardinality(G) = k
    BY <1>2
  <2> HIDE DEF G
  <2> QED BY <2>2, <2>3, <2>4, FS_AddElement
<1> DEFINE u == Taken(st, b, t)
<1>24. /\ u.work = Tail(st.work) \o q /\ u.edges = rest /\ u.group = group /\ u.barrier = barrier
       /\ u.next = next /\ u.lastfused = lastfused /\ u.lastnum = lastnum
  BY <1>1
<1> HIDE DEF u
<1>25. /\ u.work \in Seq(1 .. n) /\ NoneTwice(u.work)
       /\ \A v \in 1 .. n : Occurs(u.work, v) <=> u.group[v] = 0 /\ \A e \in u.edges : e[2] # v
  BY <1>20, <1>21, <1>24
<1>26. GroupsSound(u, k + 1, n, es)
  <2>1. /\ u.lastnum \in 0 .. k + 1 /\ u.lastfused \in 0 .. u.lastnum
        /\ u.group \in [1 .. n -> 0 .. u.lastnum]
        /\ u.barrier \in [1 .. n -> 0 .. u.lastnum]
        /\ u.next \in [0 .. n -> 0 .. u.lastnum]
    BY <1>7, <1>8, <1>9, <1>10, <1>24
  <2>2. /\ \A m \in 1 .. u.lastnum : \E v \in 1 .. n : u.group[v] = m
        /\ u.edges = {e \in es : u.group[e[1]] = 0}
    BY <1>11, <1>12, <1>24
  <2>3. /\ \A v \in 1 .. n : u.group[v] # 0 => \A e \in u.edges : e[2] # v
        /\ Cardinality({v \in 1 .. n : u.group[v] # 0}) = k + 1
    BY <1>22, <1>23, <1>24
  <2> QED BY <1>25, <2>1, <2>2, <2>3 DEF GroupsSound
<1> QED BY <1>26 DEF u

\* With no edge backwards every vertex gets a group, and every group a vertex.
LEMMA EveryVertexGetsAGroup ==
  ASSUME NEW n \in Nat, n # 0, NEW es \in SUBSET ((1 .. n) \X (1 .. n)), \A e \in es : e[1] < e[2],
         NEW b, NEW t
  PROVE  \E l \in 1 .. n : /\ typed_fusion(n, es, b, t) \in [1 .. n -> 1 .. l]
                           /\ \A m \in 1 .. l : \E v \in 1 .. n : typed_fusion(n, es, b, t)[v] = m
<1>1. PICK h : Computes(h, n, es, b, t) /\ typed_fusion(n, es, b, t) = h[n].group
  BY TypedFusionIs
<1> DEFINE Then(y) == IF y.work = <<>> THEN y ELSE Taken(y, b, t)
           R == {k \in Nat : k <= n => GroupsSound(h[k], k, n, es)}
<1>2. h = [k \in 0 .. n |-> IF k = 0 THEN Begun(n, es) ELSE Then(h[k - 1])]
  BY <1>1 DEF Computes
<1>3. h[0] = Begun(n, es) /\ \A k \in 0 .. n : k # 0 => h[k] = Then(h[k - 1])
  <2> HIDE DEF Then
  <2> QED BY <1>2
<1>4. 0 \in R
  BY <1>3, BegunSound
<1>5. ASSUME NEW k \in R PROVE k + 1 \in R
  <2> SUFFICES ASSUME k + 1 <= n PROVE GroupsSound(h[k + 1], k + 1, n, es)
    OBVIOUS
  <2>1. k \in 0 .. n - 1 /\ GroupsSound(h[k], k, n, es) /\ k + 1 \in 0 .. n /\ k + 1 # 0 /\ k + 1 - 1 = k
    OBVIOUS
  <2>2. h[k + 1] = Then(h[k])
    <3> DEFINE d == k + 1
    <3>1. h[d] = Then(h[d - 1])
      BY <1>3, <2>1
    <3> HIDE DEF Then
    <3> QED BY <2>1, <3>1
  <2>3. CASE h[k].work = <<>>
    <3> DEFINE u == h[k]
    <3>1. h[k + 1] = u
      BY <2>2, <2>3
    <3>2. GroupsSound(u, k, n, es) /\ u.work = <<>>
      BY <2>1, <2>3
    <3> HIDE DEF u
    <3>3. u.lastnum \in 0 .. k + 1
      BY <2>1, <3>2 DEF GroupsSound
    <3>4. GroupsSound(u, k + 1, n, es)
      BY <3>2, <3>3 DEF GroupsSound
    <3> QED BY <3>1, <3>4
  <2>4. CASE h[k].work # <<>>
    BY <2>1, <2>2, <2>4, TakenSound
  <2> QED BY <2>3, <2>4
<1>6. R = Nat
  <2>1. R \in SUBSET Nat
    OBVIOUS
  <2> HIDE DEF R
  <2> QED BY <1>4, <1>5, <2>1, EveryNumber
<1> DEFINE st == h[n]
<1>7. GroupsSound(st, n, n, es)
  BY <1>6
<1> HIDE DEF st
<1> DEFINE U == {v \in 1 .. n : st.group[v] = 0}
           G == {v \in 1 .. n : st.group[v] # 0}
<1>8. st.group \in [1 .. n -> 0 .. st.lastnum] /\ st.lastnum \in 0 .. n
  BY <1>7 DEF GroupsSound
<1>9. U = {}
  <2>1. CASE st.work = <<>>
    <3> SUFFICES ASSUME U # {} PROVE FALSE
      OBVIOUS
    <3>1. PICK v \in U : \A w \in U : v <= w
      <4>1. U \in SUBSET Nat
        OBVIOUS
      <4> HIDE DEF U
      <4> QED BY <4>1, SmallestNumber
    <3>2. ~Occurs(st.work, v)
      BY <2>1 DEF Occurs
    <3>3. PICK e \in st.edges : e[2] = v
      BY <1>7, <3>1, <3>2 DEF GroupsSound
    <3>4. e \in es /\ st.group[e[1]] = 0
      BY <1>7, <3>3 DEF GroupsSound
    <3>5. e[1] \in U /\ e[1] < v
      BY <3>3, <3>4
    <3> QED BY <3>1, <3>5
  <2>2. CASE st.work # <<>>
    <3>1. Cardinality(G) = n
      BY <1>7, <2>2 DEF GroupsSound
    <3>2. IsFiniteSet(1 .. n) /\ Cardinality(1 .. n) = n /\ G \subseteq 1 .. n
      BY FS_Interval
    <3>3. G = 1 .. n
      <4> HIDE DEF G
      <4> QED BY <3>1, <3>2, FS_Subset
    <3> QED BY <3>3
  <2> QED BY <2>1, <2>2
<1>10. st.group \in [1 .. n -> 1 .. st.lastnum]
  BY <1>8, <1>9
<1>11. st.lastnum \in 1 .. n
  <2>1. 1 \in 1 .. n
    OBVIOUS
  <2>2. st.group[1] \in 1 .. st.lastnum
    BY <1>10, <2>1
  <2> QED BY <1>8, <2>2
<1>12. \A m \in 1 .. st.lastnum : \E v \in 1 .. n : st.group[v] = m
  BY <1>7 DEF GroupsSound
<1> QED BY <1>1, <1>10, <1>11, <1>12 DEF st
=============================================================================
