--------------------- MODULE LoopTransformationsProofs ---------------------
(***************************************************************************)
(* Proofs about LoopTransformations, for every set of programs, script,    *)
(* number of loops and infinity: the dependence graph that the commands    *)
(* hand on knows every dependence of the loops as they are, and a perfect  *)
(* nest that is permuted, skewed and shifted runs as the program does.     *)
(***************************************************************************)
EXTENDS LoopTransformations, DependenceVectorProofs

-----------------------------------------------------------------------------
(***************************************************************************)
(* Induction, and sums.                                                    *)
(***************************************************************************)
\* g is the function by which SumUpTo adds up f.
Adds(f, n, g) == g = [i \in 0 .. n |-> IF i = 0 THEN 0 ELSE f[i] + g[i - 1]]

LEMMA AddsExists ==
    ASSUME NEW f, NEW n \in Nat
    PROVE  \E g : Adds(f, n, g)
<1> DEFINE S == {m \in Nat : \E g : Adds(f, m, g)}
<1>1. 0 \in S
  <2>1. Adds(f, 0, [i \in 0 .. 0 |-> 0])
    BY DEF Adds
  <2> QED
    BY <2>1
<1>2. ASSUME NEW m \in S PROVE m + 1 \in S
  <2>1. PICK g : Adds(f, m, g)
    OBVIOUS
  <2> DEFINE h == [i \in 0 .. m + 1 |-> IF i = m + 1 THEN f[m + 1] + g[m] ELSE g[i]]
  <2>2. \A i \in 0 .. m : g[i] = IF i = 0 THEN 0 ELSE f[i] + g[i - 1]
    BY <2>1 DEF Adds
  <2>3. \A i \in 0 .. m + 1 : h[i] = IF i = 0 THEN 0 ELSE f[i] + h[i - 1]
    <3> SUFFICES ASSUME NEW i \in 0 .. m + 1 PROVE h[i] = IF i = 0 THEN 0 ELSE f[i] + h[i - 1]
      OBVIOUS
    <3>1. CASE i = m + 1
      BY <3>1
    <3>2. CASE i # m + 1
      <4>1. i \in 0 .. m /\ h[i] = g[i]
        BY <3>2
      <4>2. i # 0 => i - 1 \in 0 .. m + 1 /\ i - 1 # m + 1 /\ h[i - 1] = g[i - 1]
        BY <3>2
      <4> HIDE DEF h
      <4> QED
        BY <2>2, <4>1, <4>2
    <3> QED
      BY <3>1, <3>2
  <2>4. h = [i \in 0 .. m + 1 |-> IF i = 0 THEN 0 ELSE f[i] + h[i - 1]]
    <3>1. h = [i \in 0 .. m + 1 |-> h[i]]
      OBVIOUS
    <3> HIDE DEF h
    <3> QED
      BY <2>3, <3>1
  <2>5. Adds(f, m + 1, h)
    <3> HIDE DEF h
    <3> QED
      BY <2>4 DEF Adds
  <2> QED
    BY <2>5
<1> HIDE DEF S
<1>3. S = Nat
  <2>1. S \in SUBSET Nat
    BY DEF S
  <2> QED
    BY <1>1, <1>2, <2>1, EveryNumber
<1> QED
  BY <1>3 DEF S

LEMMA AddsUnique ==
    ASSUME NEW f, NEW n \in Nat, NEW m \in 0 .. n, NEW g, Adds(f, n, g), NEW h, Adds(f, m, h)
    PROVE  g[m] = h[m]
<1> DEFINE S == {k \in Nat : k <= m => g[k] = h[k]}
<1>1. /\ \A i \in 0 .. n : g[i] = IF i = 0 THEN 0 ELSE f[i] + g[i - 1]
      /\ \A i \in 0 .. m : h[i] = IF i = 0 THEN 0 ELSE f[i] + h[i - 1]
  BY DEF Adds
<1>2. 0 \in S
  BY <1>1
<1>3. ASSUME NEW k \in S PROVE k + 1 \in S
  <2>1. CASE k + 1 <= m
    <3>1. k + 1 \in 0 .. n /\ k + 1 \in 0 .. m /\ k + 1 # 0 /\ (k + 1) - 1 = k /\ k <= m
      BY <2>1
    <3>2. g[k + 1] = f[k + 1] + g[k] /\ h[k + 1] = f[k + 1] + h[k]
      BY <1>1, <3>1
    <3> QED
      BY <3>1, <3>2
  <2> QED
    BY <2>1
<1> HIDE DEF S
<1>4. S = Nat
  <2>1. S \in SUBSET Nat
    BY DEF S
  <2> QED
    BY <1>2, <1>3, <2>1, EveryNumber
<1> QED
  BY <1>4 DEF S

\* The sum by recurrence, the way it is used below.
LEMMA SumUpToIs ==
    ASSUME NEW f
    PROVE  /\ SumUpTo(f, 0) = 0
           /\ \A n \in Nat : SumUpTo(f, n + 1) = f[n + 1] + SumUpTo(f, n)
<1> DEFINE G(n) == CHOOSE g : Adds(f, n, g)
<1>1. \A n \in Nat : Adds(f, n, G(n)) /\ SumUpTo(f, n) = G(n)[n]
  BY AddsExists DEF Adds, SumUpTo
<1> HIDE DEF G
<1>2. SumUpTo(f, 0) = 0
  <2>1. G(0) = [i \in 0 .. 0 |-> IF i = 0 THEN 0 ELSE f[i] + G(0)[i - 1]]
    BY <1>1 DEF Adds
  <2> QED
    BY <1>1, <2>1
<1>3. ASSUME NEW n \in Nat PROVE SumUpTo(f, n + 1) = f[n + 1] + SumUpTo(f, n)
  <2>1. \A i \in 0 .. n + 1 : G(n + 1)[i] = IF i = 0 THEN 0 ELSE f[i] + G(n + 1)[i - 1]
    <3> DEFINE g == G(n + 1)
    <3>1. g = [i \in 0 .. n + 1 |-> IF i = 0 THEN 0 ELSE f[i] + g[i - 1]]
      BY <1>1 DEF Adds
    <3> HIDE DEF g
    <3>2. \A i \in 0 .. n + 1 : g[i] = IF i = 0 THEN 0 ELSE f[i] + g[i - 1]
      BY <3>1
    <3> QED
      BY <3>2 DEF g
  <2>2. G(n + 1)[n + 1] = f[n + 1] + G(n + 1)[n]
    BY <2>1
  <2>3. G(n + 1)[n] = G(n)[n]
    BY <1>1, AddsUnique
  <2> QED
    BY <1>1, <2>2, <2>3
<1> QED
  BY <1>2, <1>3

LEMMA SumIsInt ==
    ASSUME NEW n \in Nat, NEW f, \A k \in 1 .. n : f[k] \in Int
    PROVE  SumUpTo(f, n) \in Int
<1> DEFINE S == {m \in Nat : m <= n => SumUpTo(f, m) \in Int}
<1>1. 0 \in S
  BY SumUpToIs
<1>2. ASSUME NEW m \in S PROVE m + 1 \in S
  <2>1. SumUpTo(f, m + 1) = f[m + 1] + SumUpTo(f, m)
    BY SumUpToIs
  <2> QED
    BY <2>1
<1> HIDE DEF S
<1>3. S = Nat
  <2>1. S \in SUBSET Nat
    BY DEF S
  <2> QED
    BY <1>1, <1>2, <2>1, EveryNumber
<1> QED
  BY <1>3 DEF S

LEMMA SumIsMonotonic ==
    ASSUME NEW n \in Nat, NEW f, NEW g,
           \A k \in 1 .. n : f[k] \in Int /\ g[k] \in Int /\ f[k] <= g[k]
    PROVE  SumUpTo(f, n) <= SumUpTo(g, n)
<1> DEFINE S == {m \in Nat : m <= n => /\ SumUpTo(f, m) \in Int /\ SumUpTo(g, m) \in Int
                                       /\ SumUpTo(f, m) <= SumUpTo(g, m)}
<1>1. 0 \in S
  BY SumUpToIs
<1>2. ASSUME NEW m \in S PROVE m + 1 \in S
  <2>1. /\ SumUpTo(f, m + 1) = f[m + 1] + SumUpTo(f, m)
        /\ SumUpTo(g, m + 1) = g[m + 1] + SumUpTo(g, m)
    BY SumUpToIs
  <2> QED
    BY <2>1
<1> HIDE DEF S
<1>3. S = Nat
  <2>1. S \in SUBSET Nat
    BY DEF S
  <2> QED
    BY <1>1, <1>2, <2>1, EveryNumber
<1> QED
  BY <1>3 DEF S

\* A linear combination of terms adds up to the one of the sums.
AddsUp(n, h, c, f, g) == SumUpTo(h, n) = c * SumUpTo(f, n) + SumUpTo(g, n)

LEMMA SumIsLinear ==
    ASSUME NEW n \in Nat, NEW h, NEW c \in Int, NEW f, NEW g,
           \A k \in 1 .. n : f[k] \in Int /\ g[k] \in Int /\ h[k] = c * f[k] + g[k]
    PROVE  AddsUp(n, h, c, f, g)
<1> DEFINE S == {m \in Nat : m <= n => /\ SumUpTo(f, m) \in Int /\ SumUpTo(g, m) \in Int
                                       /\ SumUpTo(h, m) = c * SumUpTo(f, m) + SumUpTo(g, m)}
<1>1. 0 \in S
  BY SumUpToIs
<1>2. ASSUME NEW m \in S PROVE m + 1 \in S
  <2>1. /\ SumUpTo(f, m + 1) = f[m + 1] + SumUpTo(f, m)
        /\ SumUpTo(g, m + 1) = g[m + 1] + SumUpTo(g, m)
        /\ SumUpTo(h, m + 1) = h[m + 1] + SumUpTo(h, m)
    BY SumUpToIs
  <2>2. ASSUME NEW u \in Int, NEW v \in Int PROVE c * (u + v) = c * u + c * v
    OBVIOUS
  <2>3. ASSUME m + 1 <= n
        PROVE  /\ SumUpTo(f, m + 1) \in Int /\ SumUpTo(g, m + 1) \in Int
               /\ SumUpTo(h, m + 1) = c * SumUpTo(f, m + 1) + SumUpTo(g, m + 1)
    <3>1. m + 1 \in 1 .. n
      BY <2>3
    <3>2. f[m + 1] \in Int /\ g[m + 1] \in Int /\ h[m + 1] = c * f[m + 1] + g[m + 1]
      BY <3>1
    <3>3. /\ SumUpTo(f, m) \in Int /\ SumUpTo(g, m) \in Int
          /\ SumUpTo(h, m) = c * SumUpTo(f, m) + SumUpTo(g, m)
      BY <2>3
    <3>4. c * (f[m + 1] + SumUpTo(f, m)) = c * f[m + 1] + c * SumUpTo(f, m)
      BY <2>2, <3>2, <3>3
    <3> QED
      BY <2>1, <3>2, <3>3, <3>4
  <2> QED
    BY <2>3
<1> HIDE DEF S
<1>3. S = Nat
  <2>1. S \in SUBSET Nat
    BY DEF S
  <2> QED
    BY <1>1, <1>2, <2>1, EveryNumber
<1> QED
  BY <1>3 DEF S, AddsUp

\* A sum with one term that may not be zero.
LEMMA SumOfOne ==
    ASSUME NEW n \in Nat, NEW l \in 1 .. n, NEW f, f[l] \in Int,
           \A k \in 1 .. n : k # l => f[k] = 0
    PROVE  SumUpTo(f, n) = f[l]
<1> DEFINE S == {m \in Nat : m <= n => SumUpTo(f, m) = IF m < l THEN 0 ELSE f[l]}
<1>1. 0 \in S
  BY SumUpToIs
<1>2. ASSUME NEW m \in S PROVE m + 1 \in S
  <2>1. SumUpTo(f, m + 1) = f[m + 1] + SumUpTo(f, m)
    BY SumUpToIs
  <2> QED
    BY <2>1
<1> HIDE DEF S
<1>3. S = Nat
  <2>1. S \in SUBSET Nat
    BY DEF S
  <2> QED
    BY <1>1, <1>2, <2>1, EveryNumber
<1> QED
  BY <1>3 DEF S

LEMMA SumOfNone ==
    ASSUME NEW n \in Nat, NEW f, \A k \in 1 .. n : f[k] = 0
    PROVE  SumUpTo(f, n) = 0
<1> DEFINE S == {m \in Nat : m <= n => SumUpTo(f, m) = 0}
<1>1. 0 \in S
  BY SumUpToIs
<1>2. ASSUME NEW m \in S PROVE m + 1 \in S
  <2>1. SumUpTo(f, m + 1) = f[m + 1] + SumUpTo(f, m)
    BY SumUpToIs
  <2> QED
    BY <2>1
<1> HIDE DEF S
<1>3. S = Nat
  <2>1. S \in SUBSET Nat
    BY DEF S
  <2> QED
    BY <1>1, <1>2, <2>1, EveryNumber
<1> QED
  BY <1>3 DEF S

\* The terms of a skewed loop: over the loops it is a sum of, and over an iteration.
Column(a, L, k) == [l \in Levels |-> a[l] * L[l][k]]
Row(L, I, l) == [k \in Levels |-> L[l][k] * I[k]]
Skewed(a, L, I, m) == [k \in Levels |-> SumUpTo(Column(a, L, k), m) * I[k]]
Summed(a, L, I) == [l \in Levels |-> a[l] * SumUpTo(Row(L, I, l), Dim)]

TermsType(a, L, I) ==
    /\ \A k, l \in Levels : /\ a[l] \in Int /\ L[l][k] \in Int /\ I[k] \in Int
                            /\ Column(a, L, k)[l] = a[l] * L[l][k]
                            /\ Column(a, L, k)[l] \in Int
                            /\ Row(L, I, l)[k] = L[l][k] * I[k]
                            /\ Row(L, I, l)[k] \in Int
    /\ \A k \in Levels : \A m \in 0 .. Dim : SumUpTo(Column(a, L, k), m) \in Int
    /\ \A l \in Levels : SumUpTo(Row(L, I, l), Dim) \in Int

LEMMA TermTypes ==
    ASSUME NEW a \in [Levels -> Int], NEW L \in [Levels -> [Levels -> Int]], NEW I \in [Levels -> Int]
    PROVE  TermsType(a, L, I)
<1>1. Levels = 1 .. Dim /\ Dim \in Nat
  BY DimAssumption DEF Levels, Dims
<1>2. \A k, l \in Levels : a[l] \in Int /\ L[l][k] \in Int /\ I[k] \in Int
  OBVIOUS
<1>3. \A k, l \in Levels : /\ Column(a, L, k)[l] = a[l] * L[l][k]
                           /\ Row(L, I, l)[k] = L[l][k] * I[k]
  BY DEF Column, Row
<1>4. ASSUME NEW u \in Int, NEW v \in Int PROVE u * v \in Int
  OBVIOUS
<1>5. \A k, l \in Levels : Column(a, L, k)[l] \in Int /\ Row(L, I, l)[k] \in Int
  BY <1>2, <1>3, <1>4
<1>6. ASSUME NEW k \in Levels, NEW m \in 0 .. Dim PROVE SumUpTo(Column(a, L, k), m) \in Int
  <2>1. \A l \in 1 .. m : Column(a, L, k)[l] \in Int
    BY <1>1, <1>5
  <2> QED
    BY <1>1, <2>1, SumIsInt
<1>7. ASSUME NEW l \in Levels PROVE SumUpTo(Row(L, I, l), Dim) \in Int
  BY <1>1, <1>5, SumIsInt
<1> QED
  BY <1>2, <1>3, <1>5, <1>6, <1>7 DEF TermsType

LEMMA SumsExchangeStep ==
    ASSUME NEW a \in [Levels -> Int], NEW L \in [Levels -> [Levels -> Int]], NEW I \in [Levels -> Int],
           NEW m \in Nat, m + 1 <= Dim,
           SumUpTo(Skewed(a, L, I, m), Dim) = SumUpTo(Summed(a, L, I), m)
    PROVE  SumUpTo(Skewed(a, L, I, m + 1), Dim) = SumUpTo(Summed(a, L, I), m + 1)
<1> DEFINE left(n) == Skewed(a, L, I, n)
           right == Summed(a, L, I)
           row == Row(L, I, m + 1)
<1>1. m + 1 \in Levels /\ m \in 0 .. Dim /\ Dim \in Nat /\ a[m + 1] \in Int /\ Levels = 1 .. Dim
  <2>1. Levels = 1 .. Dim /\ Dim \in Nat
    BY DimAssumption DEF Levels, Dims
  <2> QED
    BY <2>1
<1>2. \A k \in Levels : /\ row[k] \in Int /\ left(m)[k] \in Int
                        /\ left(m + 1)[k] = a[m + 1] * row[k] + left(m)[k]
  <2> SUFFICES ASSUME NEW k \in Levels
               PROVE  /\ row[k] \in Int /\ left(m)[k] \in Int
                      /\ left(m + 1)[k] = a[m + 1] * row[k] + left(m)[k]
    OBVIOUS
  <2> DEFINE col == Column(a, L, k)
  <2>1. SumUpTo(col, m + 1) = col[m + 1] + SumUpTo(col, m)
    BY SumUpToIs
  <2>2. /\ L[m + 1][k] \in Int /\ I[k] \in Int /\ row[k] \in Int
        /\ SumUpTo(col, m) \in Int
        /\ col[m + 1] = a[m + 1] * L[m + 1][k] /\ row[k] = L[m + 1][k] * I[k]
    <3> DEFINE l == m + 1
    <3> HIDE DEF l
    <3>1. l \in Levels /\ m \in 0 .. Dim
      BY <1>1 DEF l
    <3>2. /\ L[l][k] \in Int /\ I[k] \in Int /\ Row(L, I, l)[k] \in Int
          /\ Column(a, L, k)[l] = a[l] * L[l][k] /\ Row(L, I, l)[k] = L[l][k] * I[k]
          /\ SumUpTo(Column(a, L, k), m) \in Int
      <4>1. TermsType(a, L, I)
        BY TermTypes
      <4> QED
        BY <3>1, <4>1 DEF TermsType
    <3> QED
      BY <3>2 DEF l
  <2>3. left(m)[k] = SumUpTo(col, m) * I[k] /\ left(m + 1)[k] = SumUpTo(col, m + 1) * I[k]
    BY DEF Skewed
  <2>4. ASSUME NEW u \in Int, NEW v \in Int, NEW w \in Int, NEW z \in Int
        PROVE  (u * v + w) * z = u * (v * z) + w * z /\ w * z \in Int
    OBVIOUS
  <2> HIDE DEF col, row, left
  <2>5. (a[m + 1] * L[m + 1][k] + SumUpTo(col, m)) * I[k]
            = a[m + 1] * (L[m + 1][k] * I[k]) + SumUpTo(col, m) * I[k]
        /\ SumUpTo(col, m) * I[k] \in Int
    BY <1>1, <2>2, <2>4
  <2> QED
    BY <2>1, <2>2, <2>3, <2>5
<1>3. SumUpTo(left(m + 1), Dim) = a[m + 1] * SumUpTo(row, Dim) + SumUpTo(left(m), Dim)
  <2> DEFINE f == left(m)
             h == left(m + 1)
  <2> HIDE DEF f, h, row
  <2>1. \A k \in 1 .. Dim : row[k] \in Int /\ f[k] \in Int /\ h[k] = a[m + 1] * row[k] + f[k]
    BY <1>1, <1>2 DEF f, h
  <2>2. SumUpTo(h, Dim) = a[m + 1] * SumUpTo(row, Dim) + SumUpTo(f, Dim)
    <3>1. AddsUp(Dim, h, a[m + 1], row, f)
      BY <1>1, <2>1, SumIsLinear
    <3> QED
      BY <3>1 DEF AddsUp
  <2> QED
    BY <2>2 DEF f, h
<1>4. right[m + 1] = a[m + 1] * SumUpTo(row, Dim)
  BY <1>1 DEF Summed
<1>5. SumUpTo(right, m + 1) = right[m + 1] + SumUpTo(right, m)
  BY SumUpToIs
<1> HIDE DEF left, right, row
<1>6. SumUpTo(left(m), Dim) = SumUpTo(right, m)
  BY DEF left, right
<1>7. SumUpTo(left(m + 1), Dim) = SumUpTo(right, m + 1)
  BY <1>3, <1>4, <1>5, <1>6
<1> QED
  BY <1>7 DEF left, right

\* Summing a skewed loop over an iteration is skewing the sums.
LEMMA SumsExchange ==
    ASSUME NEW a \in [Levels -> Int], NEW L \in [Levels -> [Levels -> Int]], NEW I \in [Levels -> Int]
    PROVE  SumUpTo(Skewed(a, L, I, Dim), Dim) = SumUpTo(Summed(a, L, I), Dim)
<1> DEFINE S == {m \in Nat : m <= Dim => SumUpTo(Skewed(a, L, I, m), Dim) = SumUpTo(Summed(a, L, I), m)}
<1>1. 0 \in S
  <2>1. \A k \in Levels : I[k] \in Int /\ SumUpTo(Column(a, L, k), 0) = 0
    BY SumUpToIs
  <2>2. \A k \in 1 .. Dim : Skewed(a, L, I, 0)[k] = 0
    BY <2>1 DEF Skewed, Levels, Dims
  <2>3. SumUpTo(Skewed(a, L, I, 0), Dim) = 0
    BY <2>2, DimAssumption, SumOfNone
  <2> QED
    BY <2>3, SumUpToIs
<1>2. ASSUME NEW m \in S PROVE m + 1 \in S
  <2>1. ASSUME m + 1 <= Dim
        PROVE  SumUpTo(Skewed(a, L, I, m + 1), Dim) = SumUpTo(Summed(a, L, I), m + 1)
    <3>1. SumUpTo(Skewed(a, L, I, m), Dim) = SumUpTo(Summed(a, L, I), m)
      BY <2>1, DimAssumption
    <3> QED
      BY <2>1, <3>1, SumsExchangeStep
  <2> QED
    BY <2>1
<1> HIDE DEF S
<1>3. S = Nat
  <2>1. S \in SUBSET Nat
    BY DEF S
  <2> QED
    BY <1>1, <1>2, <2>1, EveryNumber
<1>4. Dim \in S
  BY <1>3, DimAssumption
<1> QED
  BY <1>4, DimAssumption DEF S

-----------------------------------------------------------------------------
(***************************************************************************)
(* The graph of a program: the part of normalize that admits a distance    *)
(* becomes an edge in the direction in which the program runs.             *)
(***************************************************************************)
ZeroAt(dv, k) == dv.lbounds[k] = 0 /\ dv.ubounds[k] = 0

\* Dimension i is the first in which the vector is not zero, and excludes zero there.
LeadsAt(dv, i) ==
    /\ \A k \in Dims : k < i => ZeroAt(dv, k)
    /\ IsDecidedAt(dv, i)

LEMMA NormalizedLeads ==
    ASSUME NEW w \in DependenceVectors, NEW dv \in normalize(w)
    PROVE  IsZeroVector(dv) \/ \E i \in Dims : LeadsAt(dv, i)
<1>1. \A k \in Dims : k \in Nat
  BY DimAssumption DEF Dims
<1>2. CASE dv = ZeroPart(w)
  <2>1. \A k \in Dims : /\ dv.lbounds[k] = IF IsOpenBefore(w, k + 1) THEN 0 ELSE w.lbounds[k]
                        /\ dv.ubounds[k] = IF IsOpenBefore(w, k + 1) THEN 0 ELSE w.ubounds[k]
    BY <1>2, WithZeroBounds DEF ZeroPart
  <2> DEFINE T == {k \in Dims : IsDecidedAt(w, k)}
  <2>2. CASE T = {}
    <3>1. \A k \in Dims : IsOpenBefore(w, k + 1)
      BY <1>1, <2>2, DimAssumption DEF IsOpenBefore, Dims
    <3> QED
      BY <2>1, <3>1 DEF IsZeroVector
  <2>3. CASE T # {}
    <3>1. PICK i \in T : \A k \in T : i <= k
      <4>1. T \in SUBSET Nat
        BY <1>1
      <4> HIDE DEF T
      <4> QED
        BY <2>3, <4>1, SmallestNumber
    <3>2. \A k \in Dims : k < i => IsOpenBefore(w, k + 1)
      BY <1>1, <3>1, DimAssumption DEF IsOpenBefore, Dims
    <3>3. ~IsOpenBefore(w, i + 1)
      BY <1>1, <3>1, DimAssumption DEF IsOpenBefore, Dims
    <3>4. LeadsAt(dv, i)
      BY <2>1, <3>1, <3>2, <3>3 DEF LeadsAt, ZeroAt, IsDecidedAt, IsPositiveAt, IsNegativeAt
    <3> QED
      BY <3>1, <3>4
  <2> QED
    BY <2>2, <2>3
<1>3. CASE \E i \in Dims : dv = NegativePart(w, i)
  <2>1. PICK i \in Dims : dv = NegativePart(w, i)
    BY <1>3
  <2>2. \A k \in Dims : /\ dv.lbounds[k] = IF k < i THEN 0 ELSE w.lbounds[k]
                        /\ dv.ubounds[k] = IF k = i THEN -1 ELSE IF k < i THEN 0 ELSE w.ubounds[k]
    BY <2>1, NegativeBounds
  <2>3. LeadsAt(dv, i)
    BY <1>1, <2>2 DEF LeadsAt, ZeroAt, IsDecidedAt, IsNegativeAt
  <2> QED
    BY <2>3
<1>4. CASE \E i \in Dims : dv = PositivePart(w, i)
  <2>1. PICK i \in Dims : dv = PositivePart(w, i)
    BY <1>4
  <2>2. \A k \in Dims : /\ dv.ubounds[k] = IF k < i THEN 0 ELSE w.ubounds[k]
                        /\ dv.lbounds[k] = IF k = i THEN 1 ELSE IF k < i THEN 0 ELSE w.lbounds[k]
    BY <2>1, PositiveBounds
  <2>3. LeadsAt(dv, i)
    BY <1>1, <2>2 DEF LeadsAt, ZeroAt, IsDecidedAt, IsPositiveAt
  <2> QED
    BY <2>3
<1> QED
  BY <1>2, <1>3, <1>4 DEF normalize

LEMMA OutermostIs ==
    ASSUME NEW ls \in SUBSET Nat, NEW l \in ls, \A k \in ls : l <= k
    PROVE  Outermost(ls) = l
<1>1. Outermost(ls) \in ls /\ \A k \in ls : Outermost(ls) <= k
  BY DEF Outermost
<1> DEFINE o == Outermost(ls)
<1> HIDE DEF o
<1>2. o \in Nat /\ l \in Nat /\ o <= l /\ l <= o
  BY <1>1 DEF o
<1>3. o = l
  BY <1>2
<1> QED
  BY <1>3 DEF o

LEMMA CommonLoopsType ==
    ASSUME NEW p, NEW i, NEW j
    PROVE  /\ CommonLoops(p, i, j) \in 0 .. Dim
           /\ CommonLoops(p, i, j) = CommonLoops(p, j, i)
           /\ i = j => CommonLoops(p, i, j) = Dim
<1> DEFINE same == {l \in Levels : \A k \in 1 .. l : p.loops[i][k] = p.loops[j][k]}
           back == {l \in Levels : \A k \in 1 .. l : p.loops[j][k] = p.loops[i][k]}
<1>1. IsFiniteSet(1 .. Dim) /\ Cardinality(1 .. Dim) = Dim
  BY DimAssumption, FS_Interval
<1>2. same \subseteq 1 .. Dim /\ same = back
  BY DEF Levels, Dims
<1>3. CommonLoops(p, i, j) = Cardinality(same) /\ CommonLoops(p, j, i) = Cardinality(back)
  BY DEF CommonLoops
<1>4. i = j => same = 1 .. Dim
  BY DEF Levels, Dims
<1> HIDE DEF same, back
<1>5. IsFiniteSet(same) /\ Cardinality(same) \in Nat /\ Cardinality(same) <= Dim
  BY <1>1, <1>2, FS_Subset, FS_CardinalityType
<1> QED
  BY <1>1, <1>2, <1>3, <1>4, <1>5, DimAssumption

-----------------------------------------------------------------------------
\* A conflict between statements of the program, the first of the two in front.
IsConflict(c) ==
    /\ c.from \in Nat /\ c.to \in Nat /\ c.from <= c.to
    /\ c.lbounds \in [Dims -> Bounds] /\ c.ubounds \in [Dims -> Bounds]

Opposite(x) == [d \in Dims |-> -x[d]]

\* The direction in which the program runs the pair, from the first loop that decides.
LEMMA FirstRunsFirstIs ==
    ASSUME NEW c, IsConflict(c), NEW x \in [Dims -> Int]
    PROVE  /\ \A i \in Dims :
                  i <= CommonLoops(program, c.from, c.to) /\ x[i] # 0 /\ ZeroBefore(x, i)
                      => (FirstRunsFirst(c, x) <=> x[i] > 0)
           /\ (\A i \in Dims : i <= CommonLoops(program, c.from, c.to) => x[i] = 0)
                  => (FirstRunsFirst(c, x) <=> c.from < c.to)
<1> DEFINE n == CommonLoops(program, c.from, c.to)
           open == {l \in 1 .. n : x[l] # 0}
<1>1. n \in 0 .. Dim /\ Dim \in Nat /\ Dims = 1 .. Dim
  BY CommonLoopsType, DimAssumption DEF Dims
<1>2. FirstRunsFirst(c, x) <=> IF open = {} THEN c.from < c.to ELSE x[Outermost(open)] > 0
  BY DEF FirstRunsFirst
<1> HIDE DEF n
<1>3. ASSUME NEW i \in Dims, i <= n, x[i] # 0, ZeroBefore(x, i)
      PROVE  FirstRunsFirst(c, x) <=> x[i] > 0
  <2>1. i \in open /\ open \in SUBSET Nat /\ \A k \in open : i <= k
    BY <1>1, <1>3 DEF ZeroBefore
  <2> HIDE DEF open
  <2> QED
    BY <1>2, <2>1, OutermostIs
<1>4. ASSUME \A i \in Dims : i <= n => x[i] = 0
      PROVE  FirstRunsFirst(c, x) <=> c.from < c.to
  <2>1. open = {}
    BY <1>1, <1>4
  <2> QED
    BY <1>2, <2>1
<1> QED
  BY <1>3, <1>4 DEF n

\* What the analysis believes of the direction, from the first loop in which the lower
\* bound is not zero.
LEMMA ValidIs ==
    ASSUME NEW p, NEW i, NEW j, NEW dv \in DependenceVectors, NEW before \in BOOLEAN
    PROVE  /\ \A d \in Dims :
                  d <= CommonLoops(p, i, j) /\ dv.lbounds[d] # 0 /\ ZeroBefore(dv.lbounds, d)
                      => (is_dependence_valid(p, i, j, dv, before) <=> dv.lbounds[d] > 0)
           /\ (\A d \in Dims : d <= CommonLoops(p, i, j) => dv.lbounds[d] = 0)
                  => (is_dependence_valid(p, i, j, dv, before) <=> before)
<1> DEFINE n == CommonLoops(p, i, j)
           open == {l \in 1 .. n : dv.lbounds[l] # 0}
<1>1. n \in 0 .. Dim /\ Dim \in Nat /\ Dims = 1 .. Dim
  BY CommonLoopsType, DimAssumption DEF Dims
<1>2. is_dependence_valid(p, i, j, dv, before) <=> IF open = {} THEN before ELSE dv.lbounds[Outermost(open)] > 0
  BY DEF is_dependence_valid
<1> HIDE DEF n
<1>3. ASSUME NEW d \in Dims, d <= n, dv.lbounds[d] # 0, ZeroBefore(dv.lbounds, d)
      PROVE  is_dependence_valid(p, i, j, dv, before) <=> dv.lbounds[d] > 0
  <2>1. d \in open /\ open \in SUBSET Nat /\ \A k \in open : d <= k
    BY <1>1, <1>3 DEF ZeroBefore
  <2> HIDE DEF open
  <2> QED
    BY <1>2, <2>1, OutermostIs
<1>4. ASSUME \A d \in Dims : d <= n => dv.lbounds[d] = 0
      PROVE  is_dependence_valid(p, i, j, dv, before) <=> before
  <2>1. open = {}
    BY <1>1, <1>4
  <2> QED
    BY <1>2, <2>1
<1> QED
  BY <1>3, <1>4 DEF n

\* The edge of a pair, in the direction in which the program runs it.
Remembers(edges, c, x) ==
    IF FirstRunsFirst(c, x)
    THEN \E e \in edges : e.from = c.from /\ e.to = c.to /\ Admits(e.dv, x)
    ELSE \E e \in edges : e.from = c.to /\ e.to = c.from /\ Admits(e.dv, Opposite(x))

\* The vector read from the other end.
Turned(v, dv) == /\ v.lbounds = [d \in Dims |-> -dv.ubounds[d]]
                 /\ v.ubounds = [d \in Dims |-> -dv.lbounds[d]]

LEMMA NegatedIs ==
    ASSUME NEW dv \in DependenceVectors
    PROVE  /\ Negated(dv) \in DependenceVectors /\ Turned(Negated(dv), dv)
           /\ reverse(dv) \in DependenceVectors /\ Turned(reverse(dv), dv)
<1>1. /\ [d \in Dims |-> -dv.ubounds[d]] \in [Dims -> Bounds]
      /\ [d \in Dims |-> -dv.lbounds[d]] \in [Dims -> Bounds]
  BY InfAssumption DEF Bounds, DependenceVectors
<1> DEFINE lb == [d \in Dims |-> -dv.ubounds[d]]
           ub == [d \in Dims |-> -dv.lbounds[d]]
<1>2. Negated(dv) = [dv EXCEPT !.lbounds = lb, !.ubounds = ub]
  BY DEF Negated
<1>3. reverse(dv) = [lbounds |-> lb, ubounds |-> ub, quasi |-> TRUE]
  BY DEF reverse
<1> HIDE DEF lb, ub
<1>4. lb \in [Dims -> Bounds] /\ ub \in [Dims -> Bounds]
  BY <1>1 DEF lb, ub
<1>5. /\ Negated(dv).lbounds = lb /\ Negated(dv).ubounds = ub
      /\ reverse(dv).lbounds = lb /\ reverse(dv).ubounds = ub
  BY <1>2, <1>3 DEF DependenceVectors
<1>6. reverse(dv) \in DependenceVectors
  BY <1>3, <1>4 DEF DependenceVectors
<1>7. Negated(dv) \in DependenceVectors
  BY <1>1 DEF DependenceVectors, Negated
<1> QED
  BY <1>5, <1>6, <1>7 DEF Turned, lb, ub

LEMMA TurnedAdmits ==
    ASSUME NEW dv \in DependenceVectors, NEW v, Turned(v, dv), NEW x \in [Dims -> Int]
    PROVE  Admits(dv, x) <=> Admits(v, Opposite(x))
<1>1. \A k \in Dims : /\ v.lbounds[k] = -dv.ubounds[k] /\ v.ubounds[k] = -dv.lbounds[k]
                      /\ Opposite(x)[k] = -x[k] /\ x[k] \in Int
                      /\ dv.lbounds[k] \in Int /\ dv.ubounds[k] \in Int
  BY Integral DEF Turned, Opposite
<1>2. Inf \in Int
  BY InfAssumption
<1> HIDE DEF Turned
<1> QED
  BY <1>1, <1>2 DEF Admits

LEMMA WholeType ==
    ASSUME NEW c, IsConflict(c)
    PROVE  Whole(c) \in DependenceVectors
BY DEF IsConflict, Whole, DependenceVectors

\* The three ways in which a vector that admits x may begin.
LEMMA PairIsRemembered ==
    ASSUME NEW c, IsConflict(c), NEW x \in [Dims -> Int], Admits(Whole(c), x),
           c.from # c.to \/ \E d \in Dims : x[d] # 0
    PROVE  Remembers(DependencesOf(program, c), c, x)
<1> DEFINE w == Whole(c)
           n == CommonLoops(program, c.from, c.to)
<1>1. w \in DependenceVectors
  BY WholeType
<1>2. PICK dv \in normalize(w) : Admits(dv, x)
  BY <1>1, NormalizeLosesNone
<1>3. dv \in DependenceVectors
  BY <1>1, NormalizedType
<1>4. /\ n \in 0 .. Dim /\ n = CommonLoops(program, c.to, c.from)
      /\ c.from = c.to => n = Dim
      /\ c.from \in Nat /\ c.to \in Nat /\ c.from <= c.to
      /\ Dim \in Nat /\ Dims = 1 .. Dim /\ Inf \in Nat \ {0}
  BY CommonLoopsType, DimAssumption, InfAssumption DEF Dims, IsConflict
<1>5. \A k \in Dims : /\ dv.lbounds[k] = -Inf \/ dv.lbounds[k] <= x[k]
                      /\ dv.ubounds[k] = Inf \/ x[k] <= dv.ubounds[k]
                      /\ dv.lbounds[k] \in Int /\ dv.ubounds[k] \in Int /\ x[k] \in Int
  BY <1>2, <1>3, Integral DEF Admits
<1>9. \A k \in Dims : /\ k \in Nat
                      /\ dv.lbounds[k] > 0 => x[k] > 0 /\ ~(dv.ubounds[k] < 0)
                      /\ dv.ubounds[k] < 0 => x[k] < 0
                      /\ dv.lbounds[k] = 0 /\ dv.ubounds[k] = 0 => x[k] = 0
  <2>1. Inf \in Int /\ Inf > 0 /\ \A k \in Dims : k \in Nat
    BY <1>4
  <2> QED
    BY <1>5, <2>1
<1> HIDE DEF n, w
<1>6. CASE IsZeroVector(dv)
  <2>1. \A k \in Dims : dv.lbounds[k] = 0 /\ dv.ubounds[k] = 0 /\ x[k] = 0
    BY <1>9, <1>6 DEF IsZeroVector
  <2>2. dv \in dependences1(c)
    BY <1>2, <2>1 DEF dependences1, IsNegativeFirst, IsNegativeAt, w
  <2>3. is_dependence_valid(program, c.from, c.to, dv, TRUE)
    BY <1>3, <2>1, ValidIs
  <2>4. Edge(c.from, c.to, dv) \in DependencesOf(program, c)
    BY <2>2, <2>3 DEF DependencesOf
  <2>5. FirstRunsFirst(c, x)
    BY <1>4, <2>1, FirstRunsFirstIs
  <2> QED
    BY <1>2, <2>4, <2>5 DEF Remembers, Edge
<1>7. CASE \E i \in Dims : LeadsAt(dv, i) /\ dv.lbounds[i] > 0
  <2>1. PICK i \in Dims : LeadsAt(dv, i) /\ dv.lbounds[i] > 0
    BY <1>7
  <2>2. /\ \A k \in Dims : k < i => dv.lbounds[k] = 0 /\ dv.ubounds[k] = 0 /\ x[k] = 0
        /\ x[i] > 0
    BY <1>9, <2>1 DEF LeadsAt, ZeroAt
  <2>3. ~IsNegativeFirst(dv) /\ ~IsZeroVector(dv)
    <3>1. ASSUME NEW k \in Dims, IsOpenBefore(dv, k), IsNegativeAt(dv, k) PROVE FALSE
      <4>1. dv.ubounds[k] < 0 /\ k \in Int /\ i \in Int
        BY <1>4, <3>1 DEF IsNegativeAt
      <4>2. CASE k < i
        BY <4>1, <4>2, <2>2
      <4>3. CASE k = i
        BY <1>9, <2>1, <4>1, <4>3
      <4>4. CASE k > i
        <5>1. i \in 1 .. k - 1
          BY <1>4, <4>4
        <5> QED
          BY <2>1, <3>1, <5>1 DEF IsOpenBefore, IsDecidedAt, IsPositiveAt
      <4> QED
        BY <4>1, <4>2, <4>3, <4>4
    <3>2. ~IsZeroVector(dv)
      BY <2>1 DEF IsZeroVector
    <3> QED
      BY <3>1, <3>2 DEF IsNegativeFirst
  <2>4. dv \in dependences1(c)
    BY <1>2, <2>3 DEF dependences1, w
  <2>5. ZeroBefore(dv.lbounds, i) /\ ZeroBefore(x, i)
    BY <2>2 DEF ZeroBefore
  <2>6. is_dependence_valid(program, c.from, c.to, dv, TRUE) /\ FirstRunsFirst(c, x)
    <3>1. CASE i <= n
      <4>1. dv.lbounds[i] # 0 /\ x[i] # 0
        BY <2>1, <2>2
      <4>2. is_dependence_valid(program, c.from, c.to, dv, TRUE) <=> dv.lbounds[i] > 0
        BY <1>3, <2>5, <3>1, <4>1, ValidIs DEF n
      <4>3. FirstRunsFirst(c, x) <=> x[i] > 0
        BY <2>5, <3>1, <4>1, FirstRunsFirstIs DEF n
      <4> QED
        BY <2>1, <2>2, <4>2, <4>3
    <3>2. CASE ~(i <= n)
      <4>1. \A k \in Dims : k <= n => dv.lbounds[k] = 0 /\ x[k] = 0
        BY <1>4, <2>2, <3>2
      <4>2. c.from < c.to
        BY <1>4, <3>2
      <4> QED
        BY <1>3, <4>1, <4>2, ValidIs, FirstRunsFirstIs DEF n
    <3> QED
      BY <3>1, <3>2
  <2>7. Edge(c.from, c.to, dv) \in DependencesOf(program, c)
    BY <2>4, <2>6 DEF DependencesOf
  <2> QED
    BY <1>2, <2>6, <2>7 DEF Remembers, Edge
<1>8. CASE \E i \in Dims : LeadsAt(dv, i) /\ dv.ubounds[i] < 0
  <2>1. PICK i \in Dims : LeadsAt(dv, i) /\ dv.ubounds[i] < 0
    BY <1>8
  <2>2. /\ \A k \in Dims : k < i => dv.lbounds[k] = 0 /\ dv.ubounds[k] = 0 /\ x[k] = 0
        /\ x[i] < 0
    BY <1>9, <2>1 DEF LeadsAt, ZeroAt
  <2>3. IsNegativeFirst(dv)
    <3>1. IsOpenBefore(dv, i)
      BY <1>4, <2>2 DEF IsOpenBefore, IsDecidedAt, IsPositiveAt, IsNegativeAt
    <3> QED
      BY <2>1, <3>1 DEF IsNegativeFirst, IsNegativeAt
  <2> DEFINE v == Negated(dv)
  <2>4. v \in dependences2(c)
    BY <1>2, <2>3 DEF dependences2, w
  <2>5. v \in DependenceVectors /\ Turned(v, dv)
    BY <1>3, NegatedIs
  <2>6. reverse(v) \in DependenceVectors /\ Turned(reverse(v), v)
    BY <2>5, NegatedIs
  <2>7. Admits(v, Opposite(x))
    BY <1>2, <1>3, <2>5, TurnedAdmits
  <2>8. Admits(reverse(v), x)
    <3>1. \A k \in Dims : /\ reverse(v).lbounds[k] = dv.lbounds[k]
                          /\ reverse(v).ubounds[k] = dv.ubounds[k]
      <4> HIDE DEF v
      <4> QED
        BY <1>5, <2>5, <2>6 DEF Turned
    <3> HIDE DEF v
    <3> QED
      BY <1>2, <3>1 DEF Admits
  <2> HIDE DEF v
  <2>9. \A k \in Dims : v.lbounds[k] = -dv.ubounds[k]
    BY <2>5 DEF Turned
  <2>10. ZeroBefore(v.lbounds, i) /\ ZeroBefore(x, i) /\ v.lbounds[i] > 0
    BY <1>5, <2>1, <2>2, <2>9 DEF ZeroBefore
  <2>11. CASE i <= n
    <3>1. is_dependence_valid(program, c.to, c.from, v, FALSE)
      <4>1. v.lbounds[i] # 0
        BY <2>10
      <4>2. is_dependence_valid(program, c.to, c.from, v, FALSE) <=> v.lbounds[i] > 0
        BY <1>4, <2>5, <2>10, <2>11, <4>1, ValidIs
      <4> QED
        BY <2>10, <4>2
    <3>2. ~FirstRunsFirst(c, x)
      <4>1. x[i] # 0 /\ ~(x[i] > 0)
        BY <1>5, <2>2
      <4>2. FirstRunsFirst(c, x) <=> x[i] > 0
        BY <2>10, <2>11, <4>1, FirstRunsFirstIs DEF n
      <4> QED
        BY <4>1, <4>2
    <3>3. Edge(c.to, c.from, v) \in DependencesOf(program, c)
      BY <2>4, <3>1 DEF DependencesOf
    <3> QED
      BY <2>7, <3>2, <3>3 DEF Remembers, Edge
  <2>12. CASE ~(i <= n)
    <3>1. \A k \in Dims : k <= n => v.lbounds[k] = 0 /\ x[k] = 0
      BY <1>4, <1>5, <2>2, <2>9, <2>12
    <3>2. c.from < c.to
      BY <1>4, <2>12
    <3>3. ~is_dependence_valid(program, c.to, c.from, v, FALSE)
      BY <1>4, <2>5, <3>1, ValidIs
    <3>4. FirstRunsFirst(c, x)
      BY <3>1, <3>2, FirstRunsFirstIs DEF n
    <3>5. Edge(c.from, c.to, reverse(v)) \in DependencesOf(program, c)
      BY <2>4, <3>3 DEF DependencesOf
    <3> QED
      BY <2>8, <3>4, <3>5 DEF Remembers, Edge
  <2> QED
    BY <2>11, <2>12
<1> QED
  BY <1>1, <1>2, <1>6, <1>7, <1>8, NormalizedLeads DEF LeadsAt, IsDecidedAt, IsPositiveAt, IsNegativeAt

-----------------------------------------------------------------------------
(***************************************************************************)
(* The invariant.  The commands move the bounds of vectors freely, so they *)
(* are integers and no more.  A command that throws leaves the graph and   *)
(* the loops as they were, so that the graph knows every dependence even   *)
(* then.                                                                   *)
(***************************************************************************)
Vectors == [lbounds : [Dims -> Int], ubounds : [Dims -> Int], quasi : BOOLEAN]
Edges == [from : Stmts, to : Stmts, dv : Vectors]
Schedules == [Stmts -> [Levels -> [Levels -> Int]]]
Constants == [Stmts -> [Levels -> Int]]

\* Time and the distance of two iterations, of the loops given by ln and of.
TimeOf(ln, of, s, I, l) == SumUpTo(Row(ln[s], I, l), Dim) + of[s][l]
DistanceOf(ln, of, i, I, j, J) == [l \in Levels |-> TimeOf(ln, of, j, J, l) - TimeOf(ln, of, i, I, l)]

IsKnown(ln, of, g, q) ==
    \E e \in g : e.from = q[1] /\ e.to = q[3] /\ Admits(e.dv, DistanceOf(ln, of, q[1], q[2], q[3], q[4]))
KnowsAll(ln, of, g) == \A p \in Pairs, I \in Iterations : IsKnown(ln, of, g, Directed(p, I))

IInv ==
    /\ program \in Programs
    /\ lin \in Schedules
    /\ off \in Constants
    /\ dep \subseteq Edges
    /\ KnowsAll(lin, off, dep)

LEMMA CoveredWhenKnown ==
    ASSUME KnowsAll(lin, off, dep)
    PROVE  Covered
<1> SUFFICES ASSUME NEW p \in Pairs, NEW I \in Iterations
             PROVE  LET q == Directed(p, I)
                    IN  \E dv \in getEdge(dep, q[1], q[3]) :
                            Admits(dv, [l \in Levels |-> Time(q[3], q[4], l) - Time(q[1], q[2], l)])
  BY DEF Covered
<1> DEFINE q == Directed(p, I)
<1>1. PICK e \in dep : /\ e.from = q[1] /\ e.to = q[3]
                       /\ Admits(e.dv, DistanceOf(lin, off, q[1], q[2], q[3], q[4]))
  BY DEF KnowsAll, IsKnown
<1>2. [l \in Levels |-> Time(q[3], q[4], l) - Time(q[1], q[2], l)]
          = DistanceOf(lin, off, q[1], q[2], q[3], q[4])
  BY DEF DistanceOf, TimeOf, Time, Row
<1> HIDE DEF q
<1>3. e.dv \in getEdge(dep, q[1], q[3])
  BY <1>1 DEF getEdge
<1> QED
  BY <1>1, <1>2, <1>3 DEF q

\* The pairs of a program, and their iterations.
LEMMA PairFacts ==
    ASSUME ProgramsFit, program \in Programs, NEW p \in Pairs, NEW I \in Iterations
    PROVE  /\ p.c \in program.conflicts /\ IsConflict(p.c)
           /\ p.c.from \in Stmts /\ p.c.to \in Stmts
           /\ p.x \in [Dims -> Int] /\ Admits(Whole(p.c), p.x)
           /\ p.c.from # p.c.to \/ \E d \in Dims : p.x[d] # 0
           /\ I \in [Levels -> Int]
<1> DEFINE Depends(c, x) == c.from # c.to \/ \E d \in Dims : x[d] # 0
<1>1. PICK c \in program.conflicts : p \in {[c |-> c, x |-> x] : x \in {y \in DistancesOf(c) : Depends(c, y)}}
  BY DEF Pairs
<1>5. PICK x \in DistancesOf(c) : p = [c |-> c, x |-> x] /\ Depends(c, x)
  BY <1>1
<1>2. x \in [Dims -> Int] /\ Admits(Whole(c), x)
  BY DEF DistancesOf
<1>3. c.from \in Stmts /\ c.to \in Stmts /\ IsConflict(c)
  BY DEF ProgramsFit, IsConflict, Stmts
<1>4. I \in [Levels -> Int]
  BY DEF Iterations
<1> QED
  BY <1>5, <1>2, <1>3, <1>4

\* At first every loop is a loop of the program.
LEMMA TimeAtFirst ==
    ASSUME NEW s \in Stmts, NEW l \in Levels, NEW I \in [Levels -> Int],
           lin = [i \in Stmts |-> [m \in Levels |-> [k \in Levels |-> IF k = m THEN 1 ELSE 0]]],
           off = [i \in Stmts |-> [m \in Levels |-> 0]]
    PROVE  TimeOf(lin, off, s, I, l) = I[l]
<1> DEFINE f == Row(lin[s], I, l)
<1>1. \A k \in Levels : f[k] = IF k = l THEN I[l] ELSE 0
  <2>1. \A k \in Levels : lin[s][l][k] = IF k = l THEN 1 ELSE 0
    OBVIOUS
  <2>2. \A k \in Levels : f[k] = lin[s][l][k] * I[k] /\ I[k] \in Int
    BY DEF Row
  <2> HIDE DEF f
  <2> QED
    BY <2>1, <2>2
<1>2. l \in 1 .. Dim /\ Dim \in Nat /\ I[l] \in Int /\ Levels = 1 .. Dim
  BY DimAssumption DEF Levels, Dims
<1> HIDE DEF f
<1>3. SumUpTo(f, Dim) = I[l]
  BY <1>1, <1>2, SumOfOne
<1>4. off[s][l] = 0
  OBVIOUS
<1> QED
  BY <1>2, <1>3, <1>4 DEF f, TimeOf

LEMMA InitKnows ==
    ASSUME ProgramsFit, Init
    PROVE  KnowsAll(lin, off, dep)
<1> SUFFICES ASSUME NEW p \in Pairs, NEW I \in Iterations
             PROVE  IsKnown(lin, off, dep, Directed(p, I))
  BY DEF KnowsAll
<1> DEFINE J == [k \in Levels |-> I[k] + p.x[k]]
           c == p.c
           x == p.x
<1>1. program \in Programs /\ dep = Dependences(program)
  BY DEF Init
<1>2. /\ c \in program.conflicts /\ IsConflict(c)
      /\ c.from \in Stmts /\ c.to \in Stmts
      /\ x \in [Dims -> Int] /\ Admits(Whole(c), x)
      /\ c.from # c.to \/ \E d \in Dims : x[d] # 0
      /\ I \in [Levels -> Int]
  BY <1>1, PairFacts
<1>3. Directed(p, I) = IF FirstRunsFirst(c, x) THEN <<c.from, I, c.to, J>> ELSE <<c.to, J, c.from, I>>
  BY DEF Directed
<1>4. J \in [Levels -> Int] /\ \A k \in Levels : J[k] = I[k] + x[k]
  BY <1>2 DEF Levels
<1>5. DependencesOf(program, c) \subseteq dep
  BY <1>1, <1>2 DEF Dependences
<1> HIDE DEF J, c, x
<1>6. \A s \in Stmts : \A K \in [Levels -> Int] : \A l \in Levels : TimeOf(lin, off, s, K, l) = K[l]
  BY TimeAtFirst DEF Init
<1>7. DistanceOf(lin, off, c.from, I, c.to, J) = x
  <2>1. \A l \in Levels : TimeOf(lin, off, c.to, J, l) - TimeOf(lin, off, c.from, I, l) = x[l]
    BY <1>2, <1>4, <1>6 DEF Levels
  <2> QED
    BY <1>2, <2>1 DEF DistanceOf, Levels
<1>8. DistanceOf(lin, off, c.to, J, c.from, I) = Opposite(x)
  <2>1. \A l \in Levels : TimeOf(lin, off, c.from, I, l) - TimeOf(lin, off, c.to, J, l) = -x[l]
    BY <1>2, <1>4, <1>6 DEF Levels
  <2> QED
    BY <1>2, <2>1 DEF DistanceOf, Levels, Opposite
<1>9. Remembers(DependencesOf(program, c), c, x)
  BY <1>2, PairIsRemembered
<1>10. CASE FirstRunsFirst(c, x)
  BY <1>3, <1>5, <1>7, <1>9, <1>10 DEF Remembers, IsKnown
<1>11. CASE ~FirstRunsFirst(c, x)
  BY <1>3, <1>5, <1>8, <1>9, <1>11 DEF Remembers, IsKnown
<1> QED
  BY <1>10, <1>11

LEMMA VectorsAreIntegral ==
    /\ DependenceVectors \subseteq Vectors
    /\ \A dv \in Vectors : dv.lbounds \in [Dims -> Int] /\ dv.ubounds \in [Dims -> Int]
<1>1. [Dims -> Bounds] \subseteq [Dims -> Int]
  BY InfAssumption DEF Bounds
<1> QED
  BY <1>1 DEF DependenceVectors, Vectors

LEMMA InitEdges ==
    ASSUME ProgramsFit, Init
    PROVE  dep \subseteq Edges
<1>1. program \in Programs /\ dep = Dependences(program)
  BY DEF Init
<1> SUFFICES ASSUME NEW c \in program.conflicts PROVE DependencesOf(program, c) \subseteq Edges
  BY <1>1 DEF Dependences
<1>2. c.from \in Stmts /\ c.to \in Stmts /\ IsConflict(c)
  BY <1>1 DEF ProgramsFit, IsConflict, Stmts
<1>3. \A dv \in normalize(Whole(c)) : dv \in DependenceVectors
  BY <1>2, WholeType, NormalizedType
<1>4. \A dv \in DependenceVectors : /\ dv \in Vectors
                                    /\ Negated(dv) \in DependenceVectors
                                    /\ reverse(dv) \in DependenceVectors
  BY NegatedIs, VectorsAreIntegral
<1>5. \A dv \in dependences1(c) \cup dependences2(c) : dv \in DependenceVectors
  BY <1>3, <1>4 DEF dependences1, dependences2
<1>6. \A dv \in Vectors : Edge(c.from, c.to, dv) \in Edges /\ Edge(c.to, c.from, dv) \in Edges
  BY <1>2 DEF Edge, Edges
<1> QED
  BY <1>4, <1>5, <1>6 DEF DependencesOf

-----------------------------------------------------------------------------
(***************************************************************************)
(* The commands.  What a graph knows is kept when each edge has one that   *)
(* admits what becomes of the distances that it admits.                    *)
(***************************************************************************)
KeepsEdge(e, ln, of, g2, ln2, of2) ==
    \E e2 \in g2 :
        /\ e2.from = e.from /\ e2.to = e.to
        /\ \A I, J \in [Levels -> Int] :
               Admits(e.dv, DistanceOf(ln, of, e.from, I, e.to, J))
                   => Admits(e2.dv, DistanceOf(ln2, of2, e.from, I, e.to, J))
Keeps(g, ln, of, g2, ln2, of2) == \A e \in g : KeepsEdge(e, ln, of, g2, ln2, of2)

LEMMA KeptIsKnown ==
    ASSUME ProgramsFit, program \in Programs,
           NEW g, NEW ln, NEW of, NEW g2, NEW ln2, NEW of2,
           KnowsAll(ln, of, g), Keeps(g, ln, of, g2, ln2, of2)
    PROVE  KnowsAll(ln2, of2, g2)
<1> SUFFICES ASSUME NEW p \in Pairs, NEW I \in Iterations
             PROVE  IsKnown(ln2, of2, g2, Directed(p, I))
  BY DEF KnowsAll
<1> DEFINE q == Directed(p, I)
           J == [k \in Levels |-> I[k] + p.x[k]]
<1>1. I \in [Levels -> Int] /\ p.x \in [Levels -> Int]
  BY PairFacts DEF Levels
<1>2. J \in [Levels -> Int]
  BY <1>1
<1>3. q[2] \in [Levels -> Int] /\ q[4] \in [Levels -> Int]
  <2>1. q = <<p.c.from, I, p.c.to, J>> \/ q = <<p.c.to, J, p.c.from, I>>
    BY DEF Directed
  <2> HIDE DEF q, J
  <2> QED
    BY <1>1, <1>2, <2>1
<1> HIDE DEF q
<1>4. IsKnown(ln, of, g, q)
  BY DEF KnowsAll, q
<1>5. PICK e \in g : /\ e.from = q[1] /\ e.to = q[3]
                     /\ Admits(e.dv, DistanceOf(ln, of, q[1], q[2], q[3], q[4]))
  BY <1>4 DEF IsKnown
<1>6. KeepsEdge(e, ln, of, g2, ln2, of2)
  BY DEF Keeps
<1>7. IsKnown(ln2, of2, g2, q)
  BY <1>3, <1>5, <1>6 DEF KeepsEdge, IsKnown
<1> QED
  BY <1>7 DEF q

LEMMA EdgeWith ==
    ASSUME NEW e \in Edges, NEW v \in Vectors
    PROVE  /\ [e EXCEPT !.dv = v] \in Edges
           /\ [e EXCEPT !.dv = v].from = e.from
           /\ [e EXCEPT !.dv = v].to = e.to
           /\ [e EXCEPT !.dv = v].dv = v
BY DEF Edges

LEMMA EdgeFacts ==
    ASSUME NEW e \in Edges
    PROVE  e.from \in Stmts /\ e.to \in Stmts /\ e.dv \in Vectors
BY DEF Edges

\* Times are numbers, the same where the loops of a statement are.
LEMMA TimeType ==
    ASSUME NEW ln \in Schedules, NEW of \in Constants, NEW s \in Stmts,
           NEW I \in [Levels -> Int], NEW l \in Levels
    PROVE  TimeOf(ln, of, s, I, l) \in Int
<1> DEFINE f == Row(ln[s], I, l)
<1>1. \A k \in Levels : ln[s][l][k] \in Int /\ I[k] \in Int
  BY DEF Schedules
<1>2. \A k \in Levels : f[k] \in Int
  BY <1>1 DEF Row
<1> HIDE DEF f
<1>3. SumUpTo(f, Dim) \in Int
  BY <1>2, DimAssumption, SumIsInt DEF Levels, Dims
<1>4. of[s][l] \in Int
  BY DEF Constants
<1> QED
  BY <1>3, <1>4 DEF TimeOf, f

LEMMA TimeSame ==
    ASSUME NEW ln, NEW of, NEW ln2, NEW of2, NEW s, NEW I, NEW l, NEW m,
           ln2[s][l] = ln[s][m], of2[s][l] = of[s][m]
    PROVE  TimeOf(ln2, of2, s, I, l) = TimeOf(ln, of, s, I, m)
BY DEF TimeOf, Row

LEMMA DistanceAt ==
    ASSUME NEW ln, NEW of, NEW i, NEW j, NEW I, NEW J, NEW l \in Levels
    PROVE  DistanceOf(ln, of, i, I, j, J)[l] = TimeOf(ln, of, j, J, l) - TimeOf(ln, of, i, I, l)
BY DEF DistanceOf

\* A vector that says nothing new of the dimensions that stay, and nothing of others.
LEMMA UnknownAdmits ==
    ASSUME NEW dv \in Vectors, NEW ds, NEW x, NEW y,
           \A d \in Dims : d \notin ds => y[d] = x[d]
    PROVE  /\ Unknown(dv, ds) \in Vectors
           /\ Admits(dv, x) => Admits(Unknown(dv, ds), y)
<1> DEFINE lb == [d \in Dims |-> IF d \in ds THEN -Inf ELSE dv.lbounds[d]]
           ub == [d \in Dims |-> IF d \in ds THEN Inf ELSE dv.ubounds[d]]
<1>1. lb \in [Dims -> Int] /\ ub \in [Dims -> Int]
  BY InfAssumption DEF Vectors
<1>2. \A d \in Dims : /\ lb[d] = IF d \in ds THEN -Inf ELSE dv.lbounds[d]
                      /\ ub[d] = IF d \in ds THEN Inf ELSE dv.ubounds[d]
  OBVIOUS
<1>3. Unknown(dv, ds) = [dv EXCEPT !.lbounds = lb, !.ubounds = ub]
  BY DEF Unknown
<1> HIDE DEF lb, ub
<1>4. Unknown(dv, ds) = [lbounds |-> lb, ubounds |-> ub, quasi |-> dv.quasi]
  BY <1>3 DEF Vectors
<1>5. Unknown(dv, ds) \in Vectors
  BY <1>1, <1>4 DEF Vectors
<1>6. Unknown(dv, ds).lbounds = lb /\ Unknown(dv, ds).ubounds = ub
  BY <1>4
<1>7. Admits(dv, x) => Admits(Unknown(dv, ds), y)
  BY <1>2, <1>6 DEF Admits
<1> QED
  BY <1>5, <1>7

-----------------------------------------------------------------------------
(***************************************************************************)
(* permute.                                                                *)
(***************************************************************************)
PermutedLoops(active, pi) ==
    [s \in Stmts |-> IF s \in active THEN [l \in Levels |-> lin[s][pi[l]]] ELSE lin[s]]
PermutedConstants(active, pi) ==
    [s \in Stmts |-> IF s \in active THEN [l \in Levels |-> off[s][pi[l]]] ELSE off[s]]

LEMMA PermutedAdmits ==
    ASSUME NEW dv \in Vectors, NEW pi \in [Levels -> Levels], NEW x, NEW y,
           \A d \in Dims : y[d] = x[pi[d]]
    PROVE  /\ Permuted(dv, pi) \in Vectors
           /\ Admits(dv, x) => Admits(Permuted(dv, pi), y)
<1> DEFINE lb == [i \in Dims |-> dv.lbounds[pi[i]]]
           ub == [i \in Dims |-> dv.ubounds[pi[i]]]
<1>1. lb \in [Dims -> Int] /\ ub \in [Dims -> Int]
  BY DEF Vectors, Levels
<1>2. \A d \in Dims : lb[d] = dv.lbounds[pi[d]] /\ ub[d] = dv.ubounds[pi[d]] /\ pi[d] \in Dims
  BY DEF Levels
<1>3. Permuted(dv, pi) = [dv EXCEPT !.lbounds = lb, !.ubounds = ub]
  BY DEF Permuted
<1> HIDE DEF lb, ub
<1>4. Permuted(dv, pi) = [lbounds |-> lb, ubounds |-> ub, quasi |-> dv.quasi]
  BY <1>3 DEF Vectors
<1>5. Permuted(dv, pi) \in Vectors
  BY <1>1, <1>4 DEF Vectors
<1>6. Permuted(dv, pi).lbounds = lb /\ Permuted(dv, pi).ubounds = ub
  BY <1>4
<1>7. Admits(dv, x) => Admits(Permuted(dv, pi), y)
  BY <1>2, <1>6 DEF Admits
<1> QED
  BY <1>5, <1>7

LEMMA PermuteKeeps ==
    ASSUME lin \in Schedules, off \in Constants, dep \subseteq Edges,
           NEW active, NEW pi \in [Levels -> Levels]
    PROVE  /\ PermutedLoops(active, pi) \in Schedules
           /\ PermutedConstants(active, pi) \in Constants
           /\ PermutedGraph(active, pi) \subseteq Edges
           /\ Keeps(dep, lin, off, PermutedGraph(active, pi), PermutedLoops(active, pi),
                    PermutedConstants(active, pi))
<1> DEFINE ln == PermutedLoops(active, pi)
           of == PermutedConstants(active, pi)
           vector(e) == IF Within(e, active) THEN Permuted(e.dv, pi)
                        ELSE IF Outside(e, active) THEN e.dv
                        ELSE Unknown(e.dv, {d \in Dims : pi[d] # d})
           edge(e) == [e EXCEPT !.dv = vector(e)]
           D(e, I, J) == DistanceOf(lin, off, e.from, I, e.to, J)
           D2(e, I, J) == DistanceOf(ln, of, e.from, I, e.to, J)
<1>1. ln \in Schedules /\ of \in Constants
  BY DEF PermutedLoops, PermutedConstants, Schedules, Constants
<1>2. PermutedGraph(active, pi) = {edge(e) : e \in dep}
  BY DEF PermutedGraph
<1>3. ASSUME NEW s \in Stmts, NEW I, NEW l \in Levels
      PROVE  TimeOf(ln, of, s, I, l) = IF s \in active THEN TimeOf(lin, off, s, I, pi[l])
                                       ELSE TimeOf(lin, off, s, I, l)
  <2>1. CASE s \in active
    <3>1. ln[s][l] = lin[s][pi[l]] /\ of[s][l] = off[s][pi[l]]
      BY <2>1 DEF PermutedLoops, PermutedConstants
    <3> HIDE DEF ln, of
    <3> QED
      BY <2>1, <3>1, TimeSame
  <2>2. CASE s \notin active
    <3>1. ln[s] = lin[s] /\ of[s] = off[s]
      BY <2>2 DEF PermutedLoops, PermutedConstants
    <3> HIDE DEF ln, of
    <3> QED
      BY <2>2, <3>1, TimeSame
  <2> QED
    BY <2>1, <2>2
<1> HIDE DEF ln, of
<1>4. ASSUME NEW e \in dep, NEW I, NEW J
      PROVE  /\ vector(e) \in Vectors
             /\ Admits(e.dv, D(e, I, J)) => Admits(vector(e), D2(e, I, J))
  <2>1. e.from \in Stmts /\ e.to \in Stmts /\ e.dv \in Vectors
    BY EdgeFacts
  <2>2. \A l \in Levels : D(e, I, J)[l] = TimeOf(lin, off, e.to, J, l) - TimeOf(lin, off, e.from, I, l)
    BY DistanceAt
  <2>3. \A l \in Levels : D2(e, I, J)[l] = TimeOf(ln, of, e.to, J, l) - TimeOf(ln, of, e.from, I, l)
    BY DistanceAt
  <2>4. \A l \in Levels : pi[l] \in Levels
    OBVIOUS
  <2> DEFINE x == D(e, I, J)
             y == D2(e, I, J)
  <2>5. CASE Within(e, active)
    <3>1. \A d \in Dims : y[d] = x[pi[d]]
      <4> HIDE DEF D, D2
      <4> QED
        BY <1>3, <2>1, <2>2, <2>3, <2>4, <2>5 DEF Within, Levels
    <3> HIDE DEF x, y
    <3>2. Permuted(e.dv, pi) \in Vectors /\ (Admits(e.dv, x) => Admits(Permuted(e.dv, pi), y))
      BY <2>1, <3>1, PermutedAdmits
    <3> QED
      BY <2>5, <3>2 DEF x, y
  <2>6. CASE ~Within(e, active) /\ Outside(e, active)
    <3>1. y = x
      BY <1>3, <2>1, <2>6 DEF Outside, DistanceOf
    <3> QED
      BY <2>1, <2>6, <3>1
  <2>7. CASE ~Within(e, active) /\ ~Outside(e, active)
    <3>1. \A d \in Dims : d \notin {k \in Dims : pi[k] # k} => y[d] = x[d]
      <4> SUFFICES ASSUME NEW d \in Dims, pi[d] = d PROVE y[d] = x[d]
        OBVIOUS
      <4>1. /\ TimeOf(ln, of, e.to, J, d) = TimeOf(lin, off, e.to, J, d)
            /\ TimeOf(ln, of, e.from, I, d) = TimeOf(lin, off, e.from, I, d)
        BY <1>3, <2>1 DEF Levels
      <4> HIDE DEF D, D2
      <4> QED
        BY <2>2, <2>3, <4>1 DEF Levels
    <3> HIDE DEF x, y
    <3>2. /\ Unknown(e.dv, {d \in Dims : pi[d] # d}) \in Vectors
          /\ Admits(e.dv, x) => Admits(Unknown(e.dv, {d \in Dims : pi[d] # d}), y)
      BY <2>1, <3>1, UnknownAdmits
    <3> QED
      BY <2>7, <3>2 DEF x, y
  <2> QED
    BY <2>5, <2>6, <2>7
<1> HIDE DEF vector
<1>5. ASSUME NEW e \in dep
      PROVE  edge(e) \in Edges /\ KeepsEdge(e, lin, off, PermutedGraph(active, pi), ln, of)
  <2>1. vector(e) \in Vectors
    BY <1>4
  <2>2. edge(e) \in Edges /\ edge(e).from = e.from /\ edge(e).to = e.to /\ edge(e).dv = vector(e)
    BY <2>1, EdgeWith
  <2>3. edge(e) \in PermutedGraph(active, pi)
    BY <1>2
  <2> HIDE DEF edge
  <2> QED
    BY <1>4, <2>2, <2>3 DEF KeepsEdge
<1>6. PermutedGraph(active, pi) \subseteq Edges
  BY <1>2, <1>5
<1>7. Keeps(dep, lin, off, PermutedGraph(active, pi), ln, of)
  BY <1>5 DEF Keeps
<1> QED
  BY <1>1, <1>6, <1>7 DEF ln, of

-----------------------------------------------------------------------------
(***************************************************************************)
(* skew, and with it scale and reverse.                                    *)
(***************************************************************************)
Weighted(a, x) == [k \in Dims |-> a[k] * x[k]]

LEMMA TimesIsMonotonic ==
    ASSUME NEW c \in Int, NEW u \in Int, NEW v \in Int, u <= v
    PROVE  /\ c * u \in Int /\ c * v \in Int
           /\ c > 0 => c * u <= c * v
           /\ c < 0 => c * v <= c * u
           /\ c = 0 => c * u = 0 /\ c * v = 0
<1>1. c * u \in Int /\ c * v \in Int
  OBVIOUS
<1>2. c * v = c * u + c * (v - u)
  OBVIOUS
<1>3. CASE c > 0
  <2>1. c * (v - u) >= 0
    BY <1>3
  <2> QED
    BY <1>1, <1>2, <1>3, <2>1
<1>4. CASE c < 0
  <2>1. c * (v - u) <= 0
    BY <1>4
  <2> QED
    BY <1>1, <1>2, <1>4, <2>1
<1>5. CASE c = 0
  BY <1>5
<1> QED
  BY <1>1, <1>3, <1>4, <1>5

LEMMA BoundType ==
    ASSUME NEW dv \in Vectors, NEW a \in [Dims -> Int]
    PROVE  LowerBound(dv, a) \in Int /\ UpperBound(dv, a) \in Int
<1> DEFINE f == [k \in Dims |-> a[k] * LowerTerm(dv, a, k)]
           g == [k \in Dims |-> a[k] * UpperTerm(dv, a, k)]
<1>1. \A k \in Dims : /\ a[k] \in Int /\ LowerTerm(dv, a, k) \in Int /\ UpperTerm(dv, a, k) \in Int
  BY VectorsAreIntegral DEF LowerTerm, UpperTerm
<1>2. ASSUME NEW u \in Int, NEW v \in Int PROVE u * v \in Int
  OBVIOUS
<1>3. \A k \in Dims : f[k] \in Int /\ g[k] \in Int
  BY <1>1, <1>2
<1> HIDE DEF f, g
<1>4. SumUpTo(f, Dim) \in Int /\ SumUpTo(g, Dim) \in Int
  BY <1>3, DimAssumption, SumIsInt DEF Dims
<1> QED
  BY <1>4, InfAssumption DEF LowerBound, UpperBound, f, g

LEMMA BoundsHold ==
    ASSUME NEW dv \in Vectors, NEW a \in [Dims -> Int], NEW x \in [Dims -> Int], Admits(dv, x)
    PROVE  /\ LowerBound(dv, a) = -Inf \/ LowerBound(dv, a) <= SumUpTo(Weighted(a, x), Dim)
           /\ UpperBound(dv, a) = Inf \/ SumUpTo(Weighted(a, x), Dim) <= UpperBound(dv, a)
<1> DEFINE f == [k \in Dims |-> a[k] * LowerTerm(dv, a, k)]
           g == [k \in Dims |-> a[k] * UpperTerm(dv, a, k)]
           h == Weighted(a, x)
<1>1. \A k \in Dims : /\ a[k] \in Int /\ x[k] \in Int
                      /\ dv.lbounds[k] \in Int /\ dv.ubounds[k] \in Int
                      /\ dv.lbounds[k] = -Inf \/ dv.lbounds[k] <= x[k]
                      /\ dv.ubounds[k] = Inf \/ x[k] <= dv.ubounds[k]
  BY VectorsAreIntegral DEF Admits
<1>2. Dim \in Nat /\ Dims = 1 .. Dim
  BY DimAssumption DEF Dims
<1>3. ASSUME ~LowerUnknown(dv, a)
      PROVE  LowerBound(dv, a) <= SumUpTo(h, Dim)
  <2>1. ASSUME NEW k \in Dims
        PROVE  f[k] \in Int /\ h[k] \in Int /\ f[k] <= h[k]
    <3>1. f[k] = a[k] * LowerTerm(dv, a, k) /\ h[k] = a[k] * x[k]
      BY DEF Weighted
    <3>2. CASE a[k] > 0
      <4>1. LowerTerm(dv, a, k) = dv.lbounds[k] /\ dv.lbounds[k] <= x[k]
        BY <1>1, <1>3, <3>2 DEF LowerTerm, LowerUnknown
      <4> QED
        BY <1>1, <3>1, <3>2, <4>1, TimesIsMonotonic
    <3>3. CASE a[k] < 0
      <4>1. LowerTerm(dv, a, k) = dv.ubounds[k] /\ x[k] <= dv.ubounds[k]
        BY <1>1, <1>3, <3>3 DEF LowerTerm, LowerUnknown
      <4> QED
        BY <1>1, <3>1, <3>3, <4>1, TimesIsMonotonic
    <3>4. CASE a[k] = 0
      <4>1. LowerTerm(dv, a, k) = dv.ubounds[k]
        BY <1>1, <3>4 DEF LowerTerm
      <4> QED
        BY <1>1, <3>1, <3>4, <4>1
    <3> QED
      BY <1>1, <3>2, <3>3, <3>4
  <2> HIDE DEF f, h
  <2>2. SumUpTo(f, Dim) <= SumUpTo(h, Dim)
    BY <1>2, <2>1, SumIsMonotonic
  <2> QED
    BY <1>3, <2>2 DEF LowerBound, f
<1>4. ASSUME ~UpperUnknown(dv, a)
      PROVE  SumUpTo(h, Dim) <= UpperBound(dv, a)
  <2>1. ASSUME NEW k \in Dims
        PROVE  g[k] \in Int /\ h[k] \in Int /\ h[k] <= g[k]
    <3>1. g[k] = a[k] * UpperTerm(dv, a, k) /\ h[k] = a[k] * x[k]
      BY DEF Weighted
    <3>2. CASE a[k] > 0
      <4>1. UpperTerm(dv, a, k) = dv.ubounds[k] /\ x[k] <= dv.ubounds[k]
        BY <1>1, <1>4, <3>2 DEF UpperTerm, UpperUnknown
      <4> QED
        BY <1>1, <3>1, <3>2, <4>1, TimesIsMonotonic
    <3>3. CASE a[k] < 0
      <4>1. UpperTerm(dv, a, k) = dv.lbounds[k] /\ dv.lbounds[k] <= x[k]
        BY <1>1, <1>4, <3>3 DEF UpperTerm, UpperUnknown
      <4> QED
        BY <1>1, <3>1, <3>3, <4>1, TimesIsMonotonic
    <3>4. CASE a[k] = 0
      <4>1. UpperTerm(dv, a, k) = dv.lbounds[k]
        BY <1>1, <3>4 DEF UpperTerm
      <4> QED
        BY <1>1, <3>1, <3>4, <4>1
    <3> QED
      BY <1>1, <3>2, <3>3, <3>4
  <2> HIDE DEF g, h
  <2>2. SumUpTo(h, Dim) <= SumUpTo(g, Dim)
    BY <1>2, <2>1, SumIsMonotonic
  <2> QED
    BY <1>4, <2>2 DEF UpperBound, g
<1> QED
  BY <1>3, <1>4 DEF LowerBound, UpperBound

LEMMA VectorWith ==
    ASSUME NEW dv \in Vectors, NEW lb, NEW ub, NEW v, v = [dv EXCEPT !.lbounds = lb, !.ubounds = ub]
    PROVE  v = [lbounds |-> lb, ubounds |-> ub, quasi |-> dv.quasi]
BY DEF Vectors

\* The bounds of a dimension of a vector replaced.
LEMMA SkewedIs ==
    ASSUME NEW dv \in Vectors, NEW level \in Dims, NEW a \in [Dims -> Int]
    PROVE  LET v == SkewedVector(dv, level, a)
           IN  /\ v \in Vectors
               /\ v.lbounds = [dv.lbounds EXCEPT ![level] = LowerBound(dv, a)]
               /\ v.ubounds = [dv.ubounds EXCEPT ![level] = UpperBound(dv, a)]
<1> DEFINE lb == [dv.lbounds EXCEPT ![level] = LowerBound(dv, a)]
           ub == [dv.ubounds EXCEPT ![level] = UpperBound(dv, a)]
           sv == [dv EXCEPT !.lbounds[level] = LowerBound(dv, a), !.ubounds[level] = UpperBound(dv, a)]
           w == [lbounds |-> lb, ubounds |-> ub, quasi |-> dv.quasi]
           q == dv.quasi /\ ~(isCarried(w, level) /\ hasPositive(w, level))
<1>1. lb \in [Dims -> Int] /\ ub \in [Dims -> Int] /\ dv.quasi \in BOOLEAN
  BY BoundType DEF Vectors
<1>2. sv = [dv EXCEPT !.lbounds = lb, !.ubounds = ub]
  OBVIOUS
<1> HIDE DEF lb, ub
<1>3. sv = w
  <2> HIDE DEF sv
  <2> QED
    BY <1>2, VectorWith
<1>4. SkewedVector(dv, level, a) = [sv EXCEPT !.quasi = @ /\ ~(isCarried(sv, level) /\ hasPositive(sv, level))]
  BY DEF SkewedVector
<1> HIDE DEF sv
<1>5. SkewedVector(dv, level, a) = [w EXCEPT !.quasi = q]
  BY <1>3, <1>4
<1> HIDE DEF q
<1>6. q \in BOOLEAN
  BY <1>1 DEF q
<1>7. SkewedVector(dv, level, a) = [lbounds |-> lb, ubounds |-> ub, quasi |-> q]
  BY <1>5
<1> QED
  BY <1>1, <1>6, <1>7 DEF Vectors, lb, ub

LEMMA SkewedAdmits ==
    ASSUME NEW dv \in Vectors, NEW level \in Dims, NEW a \in [Dims -> Int],
           NEW x \in [Dims -> Int], NEW y,
           y[level] = SumUpTo(Weighted(a, x), Dim), \A d \in Dims : d # level => y[d] = x[d]
    PROVE  /\ SkewedVector(dv, level, a) \in Vectors
           /\ Admits(dv, x) => Admits(SkewedVector(dv, level, a), y)
<1> DEFINE v == SkewedVector(dv, level, a)
<1>1. /\ v \in Vectors
      /\ v.lbounds = [dv.lbounds EXCEPT ![level] = LowerBound(dv, a)]
      /\ v.ubounds = [dv.ubounds EXCEPT ![level] = UpperBound(dv, a)]
  BY SkewedIs
<1>2. dv.lbounds \in [Dims -> Int] /\ dv.ubounds \in [Dims -> Int]
  BY DEF Vectors
<1> HIDE DEF v
<1>3. \A d \in Dims : /\ v.lbounds[d] = IF d = level THEN LowerBound(dv, a) ELSE dv.lbounds[d]
                      /\ v.ubounds[d] = IF d = level THEN UpperBound(dv, a) ELSE dv.ubounds[d]
  BY <1>1, <1>2
<1>4. ASSUME Admits(dv, x) PROVE Admits(v, y)
  <2>1. /\ LowerBound(dv, a) = -Inf \/ LowerBound(dv, a) <= y[level]
        /\ UpperBound(dv, a) = Inf \/ y[level] <= UpperBound(dv, a)
    BY <1>4, BoundsHold
  <2> QED
    BY <1>3, <1>4, <2>1 DEF Admits
<1> QED
  BY <1>1, <1>4 DEF v

SkewedLoops(S, level, a) ==
    [s \in Stmts |-> IF s \in S
                     THEN [lin[s] EXCEPT ![level] =
                             [k \in Levels |-> SumUpTo([l \in Levels |-> a[l] * lin[s][l][k]], Dim)]]
                     ELSE lin[s]]
SkewedConstants(S, level, a) ==
    [s \in Stmts |-> IF s \in S
                     THEN [off[s] EXCEPT ![level] = SumUpTo([l \in Levels |-> a[l] * off[s][l]], Dim)]
                     ELSE off[s]]
SkewedGraph(S, level, a) ==
    {[e EXCEPT !.dv = IF Within(e, S) THEN SkewedVector(e.dv, level, a)
                      ELSE IF Outside(e, S) THEN e.dv
                      ELSE Unknown(e.dv, {level})] : e \in dep}

\* The skewed loop of a statement runs at the sum of the times of its loops.
Times(ln, of, s, I) == [l \in Levels |-> TimeOf(ln, of, s, I, l)]

LEMMA SkewedTime ==
    ASSUME lin \in Schedules, off \in Constants, NEW S, NEW level \in Levels, NEW a \in [Levels -> Int],
           NEW s \in Stmts, s \in S, NEW I \in [Levels -> Int]
    PROVE  TimeOf(SkewedLoops(S, level, a), SkewedConstants(S, level, a), s, I, level)
           = SumUpTo(Weighted(a, Times(lin, off, s, I)), Dim)
<1> DEFINE L == lin[s]
           ln == SkewedLoops(S, level, a)
           of == SkewedConstants(S, level, a)
           f == Summed(a, L, I)
           g == [l \in Levels |-> a[l] * off[s][l]]
           h == Weighted(a, Times(lin, off, s, I))
<1>1. L \in [Levels -> [Levels -> Int]] /\ off[s] \in [Levels -> Int]
  BY DEF Schedules, Constants
<1>2. ln[s][level] = [k \in Levels |-> SumUpTo(Column(a, L, k), Dim)]
  BY <1>1 DEF SkewedLoops, Column
<1>3. of[s][level] = SumUpTo(g, Dim)
  BY <1>1 DEF SkewedConstants
<1> HIDE DEF ln, of, L
<1>4. Row(ln[s], I, level) = Skewed(a, L, I, Dim)
  BY <1>2 DEF Row, Skewed
<1>5. TimeOf(ln, of, s, I, level) = SumUpTo(f, Dim) + SumUpTo(g, Dim)
  BY <1>1, <1>3, <1>4, SumsExchange DEF TimeOf
<1>6. Dim \in Nat /\ Levels = 1 .. Dim /\ Dims = Levels
  BY DimAssumption DEF Levels, Dims
<1>7. ASSUME NEW l \in Levels
      PROVE  f[l] \in Int /\ g[l] \in Int /\ h[l] = 1 * f[l] + g[l]
  <2> DEFINE t == SumUpTo(Row(L, I, l), Dim)
  <2>1. TermsType(a, L, I)
    BY <1>1, TermTypes
  <2>2. t \in Int /\ a[l] \in Int /\ off[s][l] \in Int
    BY <1>1, <2>1 DEF TermsType
  <2>3. f[l] = a[l] * t /\ g[l] = a[l] * off[s][l]
    BY DEF Summed
  <2>4. h[l] = a[l] * (t + off[s][l])
    BY <1>6 DEF Weighted, Times, TimeOf, L
  <2>5. ASSUME NEW u \in Int, NEW v \in Int, NEW w \in Int
        PROVE  u * v \in Int /\ u * w \in Int /\ u * (v + w) = 1 * (u * v) + u * w
    OBVIOUS
  <2> HIDE DEF f, g, h, t
  <2> QED
    BY <2>2, <2>3, <2>4, <2>5
<1> HIDE DEF f, g, h
<1>8. AddsUp(Dim, h, 1, f, g)
  BY <1>6, <1>7, SumIsLinear
<1>9. SumUpTo(f, Dim) \in Int /\ SumUpTo(g, Dim) \in Int
  BY <1>6, <1>7, SumIsInt
<1>10. SumUpTo(h, Dim) = SumUpTo(f, Dim) + SumUpTo(g, Dim)
  BY <1>8, <1>9 DEF AddsUp
<1> QED
  BY <1>5, <1>10 DEF h, ln, of

\* So the distance in the skewed loop is the sum of the distances.
LEMMA WeightedDistance ==
    ASSUME NEW a \in [Levels -> Int], NEW u \in [Levels -> Int], NEW v \in [Levels -> Int],
           NEW x \in [Levels -> Int], \A l \in Levels : x[l] = v[l] - u[l]
    PROVE  SumUpTo(Weighted(a, v), Dim) - SumUpTo(Weighted(a, u), Dim) = SumUpTo(Weighted(a, x), Dim)
<1> DEFINE f == Weighted(a, u)
           g == Weighted(a, v)
           h == Weighted(a, x)
<1>1. Dim \in Nat /\ Levels = 1 .. Dim /\ Dims = Levels
  BY DimAssumption DEF Levels, Dims
<1>6. PICK c \in Int : c = -1
  OBVIOUS
<1>2. ASSUME NEW l \in Levels
      PROVE  f[l] \in Int /\ g[l] \in Int /\ h[l] = c * f[l] + g[l]
  <2>1. f[l] = a[l] * u[l] /\ g[l] = a[l] * v[l] /\ h[l] = a[l] * (v[l] - u[l])
    BY <1>1 DEF Weighted
  <2>2. a[l] \in Int /\ u[l] \in Int /\ v[l] \in Int
    OBVIOUS
  <2>3. ASSUME NEW p \in Int, NEW q \in Int, NEW r \in Int
        PROVE  p * q \in Int /\ p * r \in Int /\ p * (r - q) = -1 * (p * q) + p * r
    OBVIOUS
  <2> HIDE DEF f, g, h
  <2> QED
    BY <1>6, <2>1, <2>2, <2>3
<1> HIDE DEF f, g, h
<1>3. AddsUp(Dim, h, c, f, g)
  BY <1>1, <1>2, SumIsLinear
<1>4. SumUpTo(f, Dim) \in Int /\ SumUpTo(g, Dim) \in Int
  BY <1>1, <1>2, SumIsInt
<1>5. SumUpTo(h, Dim) = SumUpTo(g, Dim) - SumUpTo(f, Dim)
  BY <1>3, <1>4, <1>6 DEF AddsUp
<1> QED
  BY <1>4, <1>5 DEF f, g, h

LEMMA SkewKeeps ==
    ASSUME lin \in Schedules, off \in Constants, dep \subseteq Edges,
           NEW S, NEW level \in Levels, NEW a \in [Levels -> Int]
    PROVE  /\ SkewedLoops(S, level, a) \in Schedules
           /\ SkewedConstants(S, level, a) \in Constants
           /\ SkewedGraph(S, level, a) \subseteq Edges
           /\ Keeps(dep, lin, off, SkewedGraph(S, level, a), SkewedLoops(S, level, a),
                    SkewedConstants(S, level, a))
<1> DEFINE ln == SkewedLoops(S, level, a)
           of == SkewedConstants(S, level, a)
           g2 == SkewedGraph(S, level, a)
           vector(e) == IF Within(e, S) THEN SkewedVector(e.dv, level, a)
                        ELSE IF Outside(e, S) THEN e.dv
                        ELSE Unknown(e.dv, {level})
           edge(e) == [e EXCEPT !.dv = vector(e)]
           D(e, I, J) == DistanceOf(lin, off, e.from, I, e.to, J)
           D2(e, I, J) == DistanceOf(ln, of, e.from, I, e.to, J)
<1>1. ln \in Schedules /\ of \in Constants
  <2>1. ASSUME NEW s \in Stmts
        PROVE  /\ [k \in Levels |-> SumUpTo(Column(a, lin[s], k), Dim)] \in [Levels -> Int]
               /\ SumUpTo([l \in Levels |-> a[l] * off[s][l]], Dim) \in Int
               /\ lin[s] \in [Levels -> [Levels -> Int]] /\ off[s] \in [Levels -> Int]
    <3>1. lin[s] \in [Levels -> [Levels -> Int]] /\ off[s] \in [Levels -> Int]
      BY DEF Schedules, Constants
    <3>2. TermsType(a, lin[s], [l \in Levels |-> 0])
      BY <3>1, TermTypes
    <3>3. Dim \in 0 .. Dim
      BY DimAssumption
    <3> DEFINE f == [l \in Levels |-> a[l] * off[s][l]]
    <3>4. \A l \in Levels : f[l] = a[l] * off[s][l] /\ a[l] \in Int /\ off[s][l] \in Int
      BY <3>1
    <3>5. ASSUME NEW u \in Int, NEW v \in Int PROVE u * v \in Int
      OBVIOUS
    <3> HIDE DEF f
    <3>6. SumUpTo(f, Dim) \in Int
      BY <3>4, <3>5, DimAssumption, SumIsInt DEF Levels, Dims
    <3> QED
      BY <3>1, <3>2, <3>3, <3>6 DEF TermsType, f
  <2>2. ln = [s \in Stmts |-> IF s \in S THEN [lin[s] EXCEPT ![level] = [k \in Levels |-> SumUpTo(Column(a, lin[s], k), Dim)]]
                              ELSE lin[s]]
    BY DEF SkewedLoops, Column
  <2>3. ASSUME NEW s \in Stmts
        PROVE  /\ [lin[s] EXCEPT ![level] = [k \in Levels |-> SumUpTo(Column(a, lin[s], k), Dim)]]
                      \in [Levels -> [Levels -> Int]]
               /\ [off[s] EXCEPT ![level] = SumUpTo([l \in Levels |-> a[l] * off[s][l]], Dim)] \in [Levels -> Int]
    BY <2>1
  <2>4. ln \in Schedules
    <3> DEFINE R(s) == IF s \in S THEN [lin[s] EXCEPT ![level] = [k \in Levels |-> SumUpTo(Column(a, lin[s], k), Dim)]]
                       ELSE lin[s]
    <3>1. \A s \in Stmts : R(s) \in [Levels -> [Levels -> Int]]
      BY <2>1, <2>3
    <3>2. ln = [s \in Stmts |-> R(s)]
      BY <2>2
    <3> HIDE DEF R, ln
    <3> QED
      BY <3>1, <3>2 DEF Schedules
  <2>5. of \in Constants
    BY <2>1, <2>3 DEF SkewedConstants, Constants
  <2> QED
    BY <2>4, <2>5
<1>2. g2 = {edge(e) : e \in dep}
  BY DEF SkewedGraph
<1>3. ASSUME NEW s \in Stmts, NEW I \in [Levels -> Int], NEW l \in Levels
      PROVE  TimeOf(ln, of, s, I, l) = IF s \in S /\ l = level THEN SumUpTo(Weighted(a, Times(lin, off, s, I)), Dim)
                                       ELSE TimeOf(lin, off, s, I, l)
  <2>1. CASE s \in S /\ l = level
    BY <2>1, SkewedTime
  <2>2. CASE ~(s \in S /\ l = level)
    <3>1. lin[s] \in [Levels -> [Levels -> Int]] /\ off[s] \in [Levels -> Int]
      BY DEF Schedules, Constants
    <3>2. ln[s][l] = lin[s][l] /\ of[s][l] = off[s][l]
      BY <2>2, <3>1 DEF SkewedLoops, SkewedConstants
    <3> HIDE DEF ln, of
    <3> QED
      BY <2>2, <3>2, TimeSame
  <2> QED
    BY <2>1, <2>2
<1> HIDE DEF ln, of, g2
<1>4. ASSUME NEW e \in dep, NEW I \in [Levels -> Int], NEW J \in [Levels -> Int]
      PROVE  /\ vector(e) \in Vectors
             /\ Admits(e.dv, D(e, I, J)) => Admits(vector(e), D2(e, I, J))
  <2> DEFINE x == D(e, I, J)
             y == D2(e, I, J)
             u == Times(lin, off, e.from, I)
             v == Times(lin, off, e.to, J)
  <2>1. e.from \in Stmts /\ e.to \in Stmts /\ e.dv \in Vectors
    BY EdgeFacts
  <2>2. \A l \in Levels : y[l] = TimeOf(ln, of, e.to, J, l) - TimeOf(ln, of, e.from, I, l)
    BY DistanceAt
  <2>3. \A l \in Levels : x[l] = TimeOf(lin, off, e.to, J, l) - TimeOf(lin, off, e.from, I, l)
    BY DistanceAt
  <2>4. u \in [Levels -> Int] /\ v \in [Levels -> Int]
    BY <2>1, TimeType DEF Times
  <2>5. \A l \in Levels : u[l] = TimeOf(lin, off, e.from, I, l) /\ v[l] = TimeOf(lin, off, e.to, J, l)
    BY DEF Times
  <2>6. x \in [Levels -> Int]
    BY <2>1, TimeType DEF DistanceOf
  <2>7. \A d \in Dims : d # level => y[d] = x[d]
    <3> SUFFICES ASSUME NEW d \in Dims, d # level PROVE y[d] = x[d]
      OBVIOUS
    <3>1. /\ TimeOf(ln, of, e.to, J, d) = TimeOf(lin, off, e.to, J, d)
          /\ TimeOf(ln, of, e.from, I, d) = TimeOf(lin, off, e.from, I, d)
      BY <1>3, <2>1 DEF Levels
    <3> HIDE DEF x, y
    <3> QED
      BY <2>2, <2>3, <3>1 DEF Levels
  <2>8. CASE Within(e, S)
    <3>1. /\ TimeOf(ln, of, e.to, J, level) = SumUpTo(Weighted(a, v), Dim)
          /\ TimeOf(ln, of, e.from, I, level) = SumUpTo(Weighted(a, u), Dim)
      BY <1>3, <2>1, <2>8 DEF Within
    <3>2. y[level] = SumUpTo(Weighted(a, v), Dim) - SumUpTo(Weighted(a, u), Dim)
      BY <2>2, <3>1
    <3> HIDE DEF u, v, x, y
    <3>3. \A l \in Levels : x[l] = v[l] - u[l]
      BY <2>3, <2>5
    <3>4. y[level] = SumUpTo(Weighted(a, x), Dim)
      BY <2>4, <2>6, <3>2, <3>3, WeightedDistance
    <3>5. /\ SkewedVector(e.dv, level, a) \in Vectors
          /\ Admits(e.dv, x) => Admits(SkewedVector(e.dv, level, a), y)
      BY <2>1, <2>6, <2>7, <3>4, SkewedAdmits DEF Levels
    <3> QED
      BY <2>8, <3>5 DEF x, y
  <2>9. CASE ~Within(e, S) /\ Outside(e, S)
    <3>1. \A l \in Levels : y[l] = x[l]
      <4> SUFFICES ASSUME NEW l \in Levels PROVE y[l] = x[l]
        OBVIOUS
      <4>1. /\ TimeOf(ln, of, e.to, J, l) = TimeOf(lin, off, e.to, J, l)
            /\ TimeOf(ln, of, e.from, I, l) = TimeOf(lin, off, e.from, I, l)
        BY <1>3, <2>1, <2>9 DEF Outside
      <4> HIDE DEF x, y
      <4> QED
        BY <2>2, <2>3, <4>1
    <3> HIDE DEF x, y
    <3>2. Admits(e.dv, x) => Admits(e.dv, y)
      BY <3>1 DEF Admits, Levels
    <3> QED
      BY <2>1, <2>9, <3>2 DEF x, y
  <2>10. CASE ~Within(e, S) /\ ~Outside(e, S)
    <3> HIDE DEF x, y
    <3>1. /\ Unknown(e.dv, {level}) \in Vectors
          /\ Admits(e.dv, x) => Admits(Unknown(e.dv, {level}), y)
      BY <2>1, <2>7, UnknownAdmits
    <3> QED
      BY <2>10, <3>1 DEF x, y
  <2> QED
    BY <2>8, <2>9, <2>10
<1> HIDE DEF vector
<1>5. ASSUME NEW e \in dep
      PROVE  edge(e) \in Edges /\ KeepsEdge(e, lin, off, g2, ln, of)
  <2>1. [l \in Levels |-> 0] \in [Levels -> Int]
    OBVIOUS
  <2>2. vector(e) \in Vectors
    BY <1>4, <2>1
  <2>3. edge(e) \in Edges /\ edge(e).from = e.from /\ edge(e).to = e.to /\ edge(e).dv = vector(e)
    BY <2>2, EdgeWith
  <2>4. edge(e) \in g2
    BY <1>2
  <2> HIDE DEF edge
  <2> QED
    BY <1>4, <2>3, <2>4 DEF KeepsEdge
<1>6. g2 \subseteq Edges
  BY <1>2, <1>5
<1>7. Keeps(dep, lin, off, g2, ln, of)
  BY <1>5 DEF Keeps
<1> QED
  BY <1>1, <1>6, <1>7 DEF ln, of, g2

-----------------------------------------------------------------------------
(***************************************************************************)
(* shift.                                                                  *)
(***************************************************************************)
ShiftedConstants(S, level, amount) ==
    [s \in Stmts |-> IF s \in S THEN [off[s] EXCEPT ![level] = @ + amount] ELSE off[s]]
ShiftedVector(dv, level, by) ==
    [dv EXCEPT !.lbounds[level] = MovedLower(@, by), !.ubounds[level] = MovedUpper(@, by)]
ShiftedGraph(S, level, amount) ==
    {[e EXCEPT !.dv =
        IF Within(e, S) \/ Outside(e, S) THEN e.dv
        ELSE LET by == IF e.from \in S THEN -amount ELSE amount
             IN  [e.dv EXCEPT !.lbounds[level] = MovedLower(@, by), !.ubounds[level] = MovedUpper(@, by)]]
     : e \in dep}

LEMMA ShiftedAdmits ==
    ASSUME NEW dv \in Vectors, NEW level \in Dims, NEW by \in Int, NEW x \in [Dims -> Int], NEW y,
           y[level] = x[level] + by, \A d \in Dims : d # level => y[d] = x[d]
    PROVE  /\ ShiftedVector(dv, level, by) \in Vectors
           /\ Admits(dv, x) => Admits(ShiftedVector(dv, level, by), y)
<1> DEFINE v == ShiftedVector(dv, level, by)
           lb == [dv.lbounds EXCEPT ![level] = MovedLower(@, by)]
           ub == [dv.ubounds EXCEPT ![level] = MovedUpper(@, by)]
<1>1. dv.lbounds \in [Dims -> Int] /\ dv.ubounds \in [Dims -> Int] /\ dv.quasi \in BOOLEAN
  BY DEF Vectors
<1>2. lb \in [Dims -> Int] /\ ub \in [Dims -> Int]
  BY <1>1 DEF MovedLower, MovedUpper
<1>3. v = [dv EXCEPT !.lbounds = lb, !.ubounds = ub]
  BY DEF ShiftedVector
<1>4. \A d \in Dims : /\ lb[d] = IF d = level THEN MovedLower(dv.lbounds[d], by) ELSE dv.lbounds[d]
                      /\ ub[d] = IF d = level THEN MovedUpper(dv.ubounds[d], by) ELSE dv.ubounds[d]
  BY <1>1
<1> HIDE DEF v, lb, ub
<1>5. v = [lbounds |-> lb, ubounds |-> ub, quasi |-> dv.quasi]
  BY <1>3, VectorWith
<1>6. v \in Vectors
  BY <1>1, <1>2, <1>5 DEF Vectors
<1>7. ASSUME Admits(dv, x) PROVE Admits(v, y)
  <2>1. \A d \in Dims : /\ dv.lbounds[d] = -Inf \/ dv.lbounds[d] <= x[d]
                        /\ dv.ubounds[d] = Inf \/ x[d] <= dv.ubounds[d]
                        /\ dv.lbounds[d] \in Int /\ dv.ubounds[d] \in Int /\ x[d] \in Int
    BY <1>1, <1>7 DEF Admits
  <2>2. v.lbounds = lb /\ v.ubounds = ub
    BY <1>5
  <2>3. /\ lb[level] = -Inf \/ lb[level] <= y[level]
        /\ ub[level] = Inf \/ y[level] <= ub[level]
    BY <1>4, <2>1, InfAssumption DEF MovedLower, MovedUpper
  <2> QED
    BY <1>4, <2>1, <2>2, <2>3 DEF Admits
<1> QED
  BY <1>6, <1>7 DEF v

LEMMA ShiftKeeps ==
    ASSUME lin \in Schedules, off \in Constants, dep \subseteq Edges,
           NEW S, NEW level \in Levels, NEW amount \in Int
    PROVE  /\ ShiftedConstants(S, level, amount) \in Constants
           /\ ShiftedGraph(S, level, amount) \subseteq Edges
           /\ Keeps(dep, lin, off, ShiftedGraph(S, level, amount), lin, ShiftedConstants(S, level, amount))
<1> DEFINE of == ShiftedConstants(S, level, amount)
           g2 == ShiftedGraph(S, level, amount)
           by(e) == IF e.from \in S THEN -amount ELSE amount
           vector(e) == IF Within(e, S) \/ Outside(e, S) THEN e.dv ELSE ShiftedVector(e.dv, level, by(e))
           edge(e) == [e EXCEPT !.dv = vector(e)]
           D(e, I, J) == DistanceOf(lin, off, e.from, I, e.to, J)
           D2(e, I, J) == DistanceOf(lin, of, e.from, I, e.to, J)
<1>1. of \in Constants
  BY DEF ShiftedConstants, Constants
<1>2. g2 = {edge(e) : e \in dep}
  BY DEF ShiftedGraph, ShiftedVector
<1>3. ASSUME NEW s \in Stmts, NEW I \in [Levels -> Int], NEW l \in Levels
      PROVE  TimeOf(lin, of, s, I, l) = IF s \in S /\ l = level THEN TimeOf(lin, off, s, I, l) + amount
                                        ELSE TimeOf(lin, off, s, I, l)
  <2> DEFINE t == SumUpTo(Row(lin[s], I, l), Dim)
  <2>1. off[s] \in [Levels -> Int]
    BY DEF Constants
  <2>2. of[s][l] = IF s \in S /\ l = level THEN off[s][l] + amount ELSE off[s][l]
    BY <2>1 DEF ShiftedConstants
  <2>3. t + off[s][l] \in Int
    BY TimeType DEF TimeOf
  <2>4. t \in Int
    <3> DEFINE f == Row(lin[s], I, l)
    <3>1. \A k \in Levels : lin[s][l][k] \in Int /\ I[k] \in Int
      BY DEF Schedules
    <3>2. \A k \in Levels : f[k] \in Int
      BY <3>1 DEF Row
    <3> HIDE DEF f
    <3>3. SumUpTo(f, Dim) \in Int
      BY <3>2, DimAssumption, SumIsInt DEF Levels, Dims
    <3> QED
      BY <3>3 DEF f
  <2> HIDE DEF t, of
  <2>5. TimeOf(lin, of, s, I, l) = t + of[s][l] /\ TimeOf(lin, off, s, I, l) = t + off[s][l]
    BY DEF TimeOf, t
  <2> QED
    BY <2>1, <2>2, <2>4, <2>5
<1> HIDE DEF of, g2
<1>4. ASSUME NEW e \in dep, NEW I \in [Levels -> Int], NEW J \in [Levels -> Int]
      PROVE  /\ vector(e) \in Vectors
             /\ Admits(e.dv, D(e, I, J)) => Admits(vector(e), D2(e, I, J))
  <2> DEFINE x == D(e, I, J)
             y == D2(e, I, J)
             moved(s) == IF s \in S THEN amount ELSE 0
  <2>1. e.from \in Stmts /\ e.to \in Stmts /\ e.dv \in Vectors
    BY EdgeFacts
  <2>2. \A l \in Levels : y[l] = TimeOf(lin, of, e.to, J, l) - TimeOf(lin, of, e.from, I, l)
    BY DistanceAt
  <2>3. \A l \in Levels : x[l] = TimeOf(lin, off, e.to, J, l) - TimeOf(lin, off, e.from, I, l)
    BY DistanceAt
  <2>4. \A l \in Levels : TimeOf(lin, off, e.to, J, l) \in Int /\ TimeOf(lin, off, e.from, I, l) \in Int
    BY <2>1, TimeType
  <2>5. x \in [Levels -> Int]
    BY <2>1, TimeType DEF DistanceOf
  <2> HIDE DEF x, y
  <2>6. \A d \in Levels : d # level => y[d] = x[d]
    BY <1>3, <2>1, <2>2, <2>3
  <2>7. y[level] = x[level] + (moved(e.to) - moved(e.from))
    <3>1. /\ TimeOf(lin, of, e.to, J, level) = TimeOf(lin, off, e.to, J, level) + moved(e.to)
          /\ TimeOf(lin, of, e.from, I, level) = TimeOf(lin, off, e.from, I, level) + moved(e.from)
      BY <1>3, <2>1, <2>4
    <3>2. moved(e.to) \in Int /\ moved(e.from) \in Int
      OBVIOUS
    <3> HIDE DEF moved
    <3> QED
      BY <2>2, <2>3, <2>4, <3>1, <3>2
  <2>8. CASE Within(e, S) \/ Outside(e, S)
    <3>1. y[level] = x[level]
      BY <2>5, <2>7, <2>8 DEF Within, Outside
    <3>2. Admits(e.dv, x) => Admits(e.dv, y)
      BY <2>6, <3>1 DEF Admits, Levels
    <3> QED
      BY <2>1, <2>8, <3>2 DEF x, y
  <2>9. CASE ~(Within(e, S) \/ Outside(e, S))
    <3>1. by(e) \in Int /\ y[level] = x[level] + by(e)
      BY <2>5, <2>7, <2>9 DEF Within, Outside
    <3> HIDE DEF by
    <3>2. /\ ShiftedVector(e.dv, level, by(e)) \in Vectors
          /\ Admits(e.dv, x) => Admits(ShiftedVector(e.dv, level, by(e)), y)
      BY <2>1, <2>5, <2>6, <3>1, ShiftedAdmits DEF Levels
    <3> QED
      BY <2>9, <3>2 DEF x, y
  <2> QED
    BY <2>8, <2>9
<1> HIDE DEF vector
<1>5. ASSUME NEW e \in dep
      PROVE  edge(e) \in Edges /\ KeepsEdge(e, lin, off, g2, lin, of)
  <2>1. [l \in Levels |-> 0] \in [Levels -> Int]
    OBVIOUS
  <2>2. vector(e) \in Vectors
    BY <1>4, <2>1
  <2>3. edge(e) \in Edges /\ edge(e).from = e.from /\ edge(e).to = e.to /\ edge(e).dv = vector(e)
    BY <2>2, EdgeWith
  <2>4. edge(e) \in g2
    BY <1>2
  <2> HIDE DEF edge
  <2> QED
    BY <1>4, <2>3, <2>4 DEF KeepsEdge
<1>6. g2 \subseteq Edges
  BY <1>2, <1>5
<1>7. Keeps(dep, lin, off, g2, lin, of)
  BY <1>5 DEF Keeps
<1> QED
  BY <1>1, <1>6, <1>7 DEF of, g2

-----------------------------------------------------------------------------
(***************************************************************************)
(* The script.                                                             *)
(***************************************************************************)
LEMMA InitInvariant ==
    ASSUME ProgramsFit, Init
    PROVE  IInv
<1>1. program \in Programs
  BY DEF Init
<1>2. lin \in Schedules /\ off \in Constants
  BY DEF Init, Schedules, Constants
<1> QED
  BY <1>1, <1>2, InitEdges, InitKnows DEF IInv

\* A step that keeps what the graph knows keeps the invariant.
LEMMA StepInvariant ==
    ASSUME ProgramsFit, IInv, program' = program,
           lin' \in Schedules, off' \in Constants, dep' \subseteq Edges,
           Keeps(dep, lin, off, dep', lin', off')
    PROVE  IInv'
<1>1. KnowsAll(lin', off', dep')
  BY KeptIsKnown DEF IInv
<1>2. Stmts' = Stmts
  BY DEF Stmts
<1>3. Schedules' = Schedules /\ Constants' = Constants /\ Edges' = Edges
  BY <1>2 DEF Schedules, Constants, Edges
<1>4. Pairs' = Pairs
  BY DEF Pairs
<1>5. ASSUME NEW p, NEW I
      PROVE  Directed(p, I)' = Directed(p, I)
  BY DEF Directed, FirstRunsFirst
<1>6. KnowsAll(lin, off, dep)'
  <2> SUFFICES ASSUME NEW p \in Pairs, NEW I \in Iterations
               PROVE  IsKnown(lin', off', dep', Directed(p, I)')
    BY <1>4 DEF KnowsAll
  <2> QED
    BY <1>1, <1>5 DEF KnowsAll
<1> QED
  BY <1>3, <1>6 DEF IInv

LEMMA UnchangedInvariant ==
    ASSUME ProgramsFit, IInv, UNCHANGED <<program, lin, off, dep>>
    PROVE  IInv'
<1>1. Keeps(dep, lin, off, dep, lin, off)
  BY DEF Keeps, KeepsEdge
<1> QED
  BY <1>1, StepInvariant DEF IInv

LEMMA PermuteLoopsInvariant ==
    ASSUME ProgramsFit, IInv, program' = program, NEW active, NEW pi \in [Levels -> Levels],
           NEW k, NEW order, NEW lx, PermuteLoops(active, pi, k, order, lx)
    PROVE  IInv'
<1>1. CASE Raise
  BY <1>1, UnchangedInvariant DEF Raise, xform
<1>2. CASE /\ dep' = PermutedGraph(active, pi)
           /\ lin' = PermutedLoops(active, pi)
           /\ off' = PermutedConstants(active, pi)
  BY <1>2, PermuteKeeps, StepInvariant DEF IInv
<1> QED
  BY <1>1, <1>2 DEF PermuteLoops, PermutedLoops, PermutedConstants

LEMMA SkewByInvariant ==
    ASSUME ProgramsFit, IInv, program' = program, NEW S, NEW level \in Levels,
           NEW a \in [Levels -> Int], SkewBy(S, level, a)
    PROVE  IInv'
<1>1. CASE Raise
  BY <1>1, UnchangedInvariant DEF Raise, xform
<1>2. CASE /\ dep' = SkewedGraph(S, level, a)
           /\ lin' = SkewedLoops(S, level, a)
           /\ off' = SkewedConstants(S, level, a)
  BY <1>2, SkewKeeps, StepInvariant DEF IInv
<1> QED
  BY <1>1, <1>2 DEF SkewBy, SkewedGraph, SkewedLoops, SkewedConstants

\* What the commands of a script are called with.
LEMMA ScriptFits ==
    ASSUME ProgramsFit, program \in Programs
    PROVE  /\ script.levels \subseteq Levels
           /\ \A k \in script.skews : k.level \in Levels /\ k.amount \in [Levels -> Int]
BY DEF ProgramsFit, script, Levels

LEMMA NextInvariant ==
    ASSUME ProgramsFit, Amounts \subseteq Int, IInv, [Next]_vars
    PROVE  IInv'
<1>1. /\ script.levels \subseteq Levels
      /\ \A k \in script.skews : k.level \in Levels /\ k.amount \in [Levels -> Int]
  BY ScriptFits DEF IInv
<1>2. CASE Original
  <2>1. UNCHANGED <<program, lin, off, dep>>
    BY <1>2 DEF Original, Raise, xform
  <2> QED
    BY <2>1, UnchangedInvariant
<1>3. ASSUME NEW pi \in PermutationsAt(1, Dim), PermuteAll(pi)
      PROVE  IInv'
  <2>1. pi \in [Levels -> Levels] /\ program' = program
    BY <1>3 DEF PermutationsAt, PermuteAll, May
  <2> QED
    BY <1>3, <2>1, PermuteLoopsInvariant DEF PermuteAll
<1>4. ASSUME NEW s \in Stmts, NEW level \in script.levels, NEW n \in 1 .. Dim - level + 1,
             NEW pi \in PermutationsAt(level, n), Permute(s, level, pi)
      PROVE  IInv'
  <2>1. pi \in [Levels -> Levels] /\ program' = program
    BY <1>4 DEF PermutationsAt, Permute, May
  <2>2. \E active, order, lx : PermuteLoops(active, pi, level - 1, order, lx)
    BY <1>4 DEF Permute
  <2> QED
    BY <2>1, <2>2, PermuteLoopsInvariant
<1>5. ASSUME NEW S \in script.selections, NEW level \in script.levels, NEW n \in 1 .. Dim - level + 1,
             NEW pi \in PermutationsAt(level, n), PermuteSet(S, level, pi)
      PROVE  IInv'
  <2>1. pi \in [Levels -> Levels] /\ program' = program
    BY <1>5 DEF PermutationsAt, PermuteSet, May
  <2>2. PermuteLoops(S, pi, level - 1, 0, lex)
    BY <1>5 DEF PermuteSet
  <2> QED
    BY <2>1, <2>2, PermuteLoopsInvariant
<1>6. ASSUME NEW S \in script.selections, NEW k \in script.skews, skew(S, k.level, k.amount)
      PROVE  IInv'
  <2>1. program' = program /\ SkewBy(S, k.level, k.amount)
    BY <1>6 DEF skew, May
  <2> QED
    BY <1>1, <2>1, SkewByInvariant
<1>7. ASSUME NEW S \in script.selections, NEW level \in script.levels, Reverse(S, level)
      PROVE  IInv'
  <2> DEFINE a == [l \in Levels |-> IF l = level THEN -1 ELSE 0]
  <2>1. program' = program /\ SkewBy(S, level, a)
    BY <1>7 DEF Reverse, scale, May
  <2>2. a \in [Levels -> Int]
    OBVIOUS
  <2> HIDE DEF a
  <2> QED
    BY <1>1, <2>1, <2>2, SkewByInvariant
<1>8. ASSUME NEW S \in script.selections, NEW level \in script.levels, NEW amount \in Amounts,
             Shift(S, level, amount)
      PROVE  IInv'
  <2>1. /\ program' = program /\ lin' = lin
        /\ off' = ShiftedConstants(S, level, amount)
        /\ dep' = ShiftedGraph(S, level, amount)
    BY <1>8 DEF Shift, May, ShiftedConstants, ShiftedGraph
  <2>2. level \in Levels /\ amount \in Int
    BY <1>1
  <2> QED
    BY <2>1, <2>2, ShiftKeeps, StepInvariant DEF IInv
<1>9. ASSUME NEW S \in script.selections, NEW level \in script.levels, fuse(S, level)
      PROVE  IInv'
  <2>1. UNCHANGED <<program, lin, off, dep>>
    BY <1>9 DEF fuse, May, Raise, xform
  <2> QED
    BY <2>1, UnchangedInvariant
<1>10. ASSUME NEW S \in script.selections, NEW level \in script.levels, distribute(S, level)
       PROVE  IInv'
  <2>1. UNCHANGED <<program, lin, off, dep>>
    BY <1>10 DEF distribute, May, Raise, xform
  <2> QED
    BY <2>1, UnchangedInvariant
<1>11. CASE UNCHANGED vars
  BY <1>11, UnchangedInvariant DEF vars, xform
<1> QED
  BY <1>2, <1>3, <1>4, <1>5, <1>6, <1>7, <1>8, <1>9, <1>10, <1>11 DEF Next

\* The graph knows every dependence, whatever the commands: the distance of every two
\* iterations that depend on each other, in the loops as a script has transformed them,
\* is within the bounds of a vector from the statement that runs first to the other
\* (Loop::permute, Loop::skew, Loop::shift_to and what they do to dep).
THEOREM GraphKnowsAll ==
    ASSUME ProgramsFit, Amounts \subseteq Int
    PROVE  Spec => []Covered
<1>1. Init => IInv
  BY InitInvariant
<1>2. IInv /\ [Next]_vars => IInv'
  BY NextInvariant
<1>3. IInv => Covered
  BY CoveredWhenKnown DEF IInv
<1> QED
  BY <1>1, <1>2, <1>3, PTL DEF Spec

-----------------------------------------------------------------------------
(***************************************************************************)
(* The lexical order of statements that are all in the same loops.         *)
(***************************************************************************)
IsPerfect(p) == \A i, j \in DOMAIN p.loops : p.loops[i] = p.loops[j]

\* h is the function of the loops left by which setLexicalOrder goes down.
Descends(g, m, h) == h = [n \in 0 .. m |-> OrdersWith(g, n, IF n = 0 THEN <<>> ELSE h[n - 1])]

LEMMA DescendsExists ==
    ASSUME NEW g, NEW n \in Nat
    PROVE  \E h : Descends(g, n, h)
<1> DEFINE S == {m \in Nat : \E h : Descends(g, m, h)}
<1>1. 0 \in S
  <2>1. Descends(g, 0, [i \in 0 .. 0 |-> OrdersWith(g, 0, <<>>)])
    BY DEF Descends
  <2> QED
    BY <2>1
<1>2. ASSUME NEW m \in S PROVE m + 1 \in S
  <2>1. PICK f : Descends(g, m, f)
    OBVIOUS
  <2> DEFINE h == [i \in 0 .. m + 1 |-> IF i = m + 1 THEN OrdersWith(g, m + 1, f[m]) ELSE f[i]]
             At(i) == h[i] = OrdersWith(g, i, IF i = 0 THEN <<>> ELSE h[i - 1])
  <2>2. \A i \in 0 .. m : f[i] = OrdersWith(g, i, IF i = 0 THEN <<>> ELSE f[i - 1])
    BY <2>1 DEF Descends
  <2>3. ASSUME NEW i \in 0 .. m + 1 PROVE At(i)
    <3>1. CASE i = m + 1
      <4>1. i # 0 /\ i - 1 = m /\ m \in 0 .. m + 1 /\ m # m + 1
        BY <3>1
      <4>2. h[i] = OrdersWith(g, i, f[m]) /\ h[i - 1] = f[m]
        BY <3>1, <4>1
      <4> HIDE DEF h
      <4> QED
        BY <4>1, <4>2
    <3>2. CASE i # m + 1
      <4>1. i \in 0 .. m /\ h[i] = f[i]
        BY <3>2
      <4>2. i # 0 => i - 1 \in 0 .. m + 1 /\ i - 1 # m + 1 /\ h[i - 1] = f[i - 1]
        BY <3>2
      <4>3. CASE i = 0
        <5> HIDE DEF h
        <5> QED
          BY <2>2, <4>1, <4>3
      <4>4. CASE i # 0
        <5> HIDE DEF h
        <5> QED
          BY <2>2, <4>1, <4>2, <4>4
      <4> QED
        BY <4>3, <4>4
    <3> QED
      BY <3>1, <3>2
  <2>4. h = [i \in 0 .. m + 1 |-> h[i]]
    OBVIOUS
  <2> HIDE DEF h
  <2>5. h = [i \in 0 .. m + 1 |-> OrdersWith(g, i, IF i = 0 THEN <<>> ELSE h[i - 1])]
    BY <2>3, <2>4
  <2> QED
    BY <2>5 DEF Descends
<1> HIDE DEF S
<1>3. S = Nat
  <2>1. S \in SUBSET Nat
    BY DEF S
  <2> QED
    BY <1>1, <1>2, <2>1, EveryNumber
<1> QED
  BY <1>3 DEF S

\* Statements in the same loops are one group in each.
LEMMA SameLoopsAreOneGroup ==
    ASSUME IsPerfect(program), NEW active \in SUBSET Stmts, active # {}, Stmts \subseteq Nat, NEW g,
           NEW k \in 0 .. Dim - 1
    PROVE  Len(GroupsAt(g, k, active)) = 1 /\ GroupsAt(g, k, active)[1] = active
<1> DEFINE same(i) == {j \in active : program.loops[i][k + 1] = program.loops[j][k + 1]}
           F == {First(same(i)) : i \in active}
           m == First(active)
<1>1. \A i \in active : same(i) = active
  BY DEF IsPerfect, Stmts
<1>2. F = {m}
  BY <1>1
<1> DEFINE IsSorted(q, S) == q \in [1 .. Cardinality(S) -> S] /\ \A i, j \in DOMAIN q : i < j => q[i] < q[j]
<1>3. \E q : IsSorted(q, F)
  <2>1. Cardinality(F) = 1
    BY <1>2, FS_Singleton
  <2>2. [i \in 1 .. 1 |-> m] \in [1 .. 1 -> {m}]
    OBVIOUS
  <2>3. \A i, j \in 1 .. 1 : ~(i < j)
    OBVIOUS
  <2>4. IsSorted([i \in 1 .. 1 |-> m], F)
    BY <1>2, <2>1, <2>2, <2>3
  <2> QED
    BY <2>4
<1> HIDE DEF F, m
<1>4. IsSorted(Sorted(F), F)
  BY <1>3 DEF Sorted, Ascending
<1>5. Sorted(F) \in [1 .. 1 -> {m}] /\ Len(Sorted(F)) = 1 /\ Sorted(F)[1] = m
  <2>1. Sorted(F) \in [1 .. 1 -> {m}]
    BY <1>2, <1>4, FS_Singleton
  <2> QED
    BY <2>1
<1>6. m \in active
  <2>1. PICK i \in active : \A j \in active : i <= j
    BY SmallestNumber
  <2> QED
    BY <2>1 DEF First, m
<1>7. sort_by_same_loops(active, k + 1) = [n \in 1 .. Len(Sorted(F)) |-> same(Sorted(F)[n])]
  BY DEF sort_by_same_loops, F
<1> HIDE DEF same
<1>8. sort_by_same_loops(active, k + 1) = [n \in 1 .. 1 |-> active]
  BY <1>1, <1>5, <1>6, <1>7
<1>9. Len([n \in 1 .. 1 |-> active]) = 1
  OBVIOUS
<1> QED
  BY <1>8, <1>9 DEF GroupsAt

\* i comes before j behind the innermost loop when a vector leads there that no loop
\* carries.
InnermostEdges(g, S) ==
    {e \in S \X S : e[1] # e[2] /\ \E dv \in getEdge(g, e[1], e[2]) : ~has_been_carried_before(dv, Dim + 1)}

SameBefore(active, lx) == \A i, j \in active : \A k \in 0 .. Dim - 1 : lx[i][k] = lx[j][k]

\* The constants r of the statements of active are those of lx before place k and order
\* at that place; they tell statements apart behind the innermost loop only, and there by
\* an order of what is left of g.  The others keep the constants of lx.
IsOrdered(g, active, k, order, lx, r) ==
    /\ r \in LexicalConstants
    /\ \A i \in Stmts \ active : r[i] = lx[i]
    /\ \A i \in active : (\A m \in 0 .. k - 1 : r[i][m] = lx[i][m]) /\ (k < Dim => r[i][k] = order)
    /\ SameBefore(active, r)
    /\ \A e \in InnermostEdges(g, active) : r[e[1]][Dim] < r[e[2]][Dim]

LEMMA InnermostOrders ==
    ASSUME NEW active \in SUBSET Stmts, IsFiniteSet(active), NEW g, NEW order \in Int,
           NEW lx \in LexicalConstants, SameBefore(active, lx), NEW r \in Innermost(g, active, order, lx)
    PROVE  IsOrdered(g, active, Dim, order, lx, r)
<1>1. Dim \in Nat /\ Dim \in Places /\ 0 .. Dim - 1 \subseteq Places /\ Dim \notin 0 .. Dim - 1
  BY DimAssumption DEF Places
<1>2. \A i \in Stmts : lx[i] \in [Places -> Int]
  BY DEF LexicalConstants
<1> DEFINE with(f) == [i \in Stmts |-> IF i \in active THEN [lx[i] EXCEPT ![Dim] = f[i]] ELSE lx[i]]
<1>3. ASSUME NEW f \in [active -> Int], \A e \in InnermostEdges(g, active) : f[e[1]] < f[e[2]]
      PROVE  IsOrdered(g, active, Dim, order, lx, with(f))
  <2>1. with(f) \in LexicalConstants
    <3>1. ASSUME NEW i \in active PROVE [lx[i] EXCEPT ![Dim] = f[i]] \in [Places -> Int]
      BY <1>1, <1>2
    <3> QED
      BY <1>2, <3>1 DEF LexicalConstants
  <2>2. \A i \in Stmts \ active : with(f)[i] = lx[i]
    OBVIOUS
  <2>3. \A i \in active : /\ \A m \in 0 .. Dim - 1 : with(f)[i][m] = lx[i][m]
                          /\ with(f)[i][Dim] = f[i]
    BY <1>1, <1>2
  <2> HIDE DEF with
  <2>4. SameBefore(active, with(f))
    BY <2>3 DEF SameBefore
  <2>5. \A e \in InnermostEdges(g, active) : with(f)[e[1]][Dim] < with(f)[e[2]][Dim]
    BY <1>3, <2>3 DEF InnermostEdges
  <2> QED
    BY <1>1, <2>1, <2>2, <2>3, <2>4, <2>5 DEF IsOrdered
<1>4. CASE Cardinality(active) = 1
  <2> DEFINE f == [i \in active |-> 0]
  <2>1. r = with(f)
    BY <1>4 DEF Innermost
  <2>2. InnermostEdges(g, active) = {}
    <3>1. PICK s : active = {s}
      BY <1>4, FS_Singleton
    <3> QED
      BY <3>1 DEF InnermostEdges
  <2>3. f \in [active -> Int]
    OBVIOUS
  <2> HIDE DEF with, f
  <2> QED
    BY <1>3, <2>1, <2>2, <2>3
<1>5. CASE Cardinality(active) # 1
  <2> DEFINE c == Cardinality(active)
             es == InnermostEdges(g, active)
  <2>1. PICK q \in TopologicalOrders(active, es) :
            r = [i \in Stmts |-> IF i \in active
                                 THEN [lx[i] EXCEPT ![Dim] = order + (CHOOSE n \in DOMAIN q : q[n] = i) - 1]
                                 ELSE lx[i]]
    BY <1>5 DEF Innermost, InnermostEdges
  <2> DEFINE place(i) == CHOOSE n \in DOMAIN q : q[n] = i
             f == [i \in active |-> order + place(i) - 1]
  <2>2. /\ q \in [1 .. c -> active]
        /\ \A i, j \in 1 .. c : i < j => q[i] # q[j] /\ <<q[j], q[i]>> \notin es
    BY DEF TopologicalOrders
  <2>3. c \in Nat
    BY FS_CardinalityType
  <2> HIDE DEF es
  <2>4. \A i \in active : place(i) \in 1 .. c /\ q[place(i)] = i
    <3> SUFFICES ASSUME NEW i \in active PROVE place(i) \in 1 .. c /\ q[place(i)] = i
      OBVIOUS
    <3>1. Enumerates(q, active)
      BY <2>2 DEF Enumerates
    <3>2. \E n \in 1 .. c : q[n] = i
      BY <3>1, EnumerationIsOnto
    <3> QED
      BY <2>2, <3>2
  <2>5. r = with(f)
    BY <2>1
  <2> HIDE DEF place, c, with
  <2>6. f \in [active -> Int] /\ \A i \in active : f[i] = order + place(i) - 1
    BY <2>3, <2>4
  <2> HIDE DEF f
  <2>7. ASSUME NEW e \in es PROVE f[e[1]] < f[e[2]]
    <3>1. e = <<e[1], e[2]>> /\ e[1] \in active /\ e[2] \in active /\ e[1] # e[2]
      BY <2>7 DEF es, InnermostEdges
    <3>2. /\ place(e[1]) \in 1 .. c /\ q[place(e[1])] = e[1]
          /\ place(e[2]) \in 1 .. c /\ q[place(e[2])] = e[2]
      BY <2>4, <3>1
    <3>3. place(e[1]) < place(e[2])
      <4>1. place(e[1]) # place(e[2])
        BY <3>1, <3>2
      <4>2. ~(place(e[2]) < place(e[1]))
        BY <2>2, <3>1, <3>2
      <4> QED
        BY <2>3, <3>2, <4>1, <4>2
    <3> QED
      BY <2>3, <2>6, <3>1, <3>2, <3>3
  <2> QED
    BY <1>3, <2>5, <2>6, <2>7 DEF es
<1> QED
  BY <1>4, <1>5

\* Whatever setLexicalOrder sets for statements of a perfect nest is ordered.
LEMMA SetOrders ==
    ASSUME IsPerfect(program), Stmts \subseteq Nat,
           NEW active \in SUBSET Stmts, active # {}, IsFiniteSet(active),
           NEW g, NEW place \in 0 .. Dim, NEW first \in Int, NEW lx \in LexicalConstants,
           NEW r \in SetLexicalOrder(g, place, active, first, lx)
    PROVE  IsOrdered(g, active, place, first, lx, r)
<1> DEFINE set == CHOOSE h : Descends(g, Dim, h)
           R(n, o, l) == set[n][active][o][l]
           Good(n) == \A o \in Int, l \in LexicalConstants :
                          \A v \in R(n, o, l) : IsOrdered(g, active, Dim - n, o, l, v)
           S == {n \in Nat : n <= Dim => Good(n)}
<1>1. Dim \in Nat
  BY DimAssumption
<1>2. Descends(g, Dim, set)
  BY <1>1, DescendsExists
<1>3. SetLexicalOrder(g, place, active, first, lx) = R(Dim - place, first, lx)
  BY DEF SetLexicalOrder, Descends
<1> HIDE DEF set
<1>4. \A n \in 0 .. Dim : set[n] = OrdersWith(g, n, IF n = 0 THEN <<>> ELSE set[n - 1])
  BY <1>2 DEF Descends
<1>5. ASSUME NEW n \in 0 .. Dim, NEW o \in Int, NEW l \in LexicalConstants
      PROVE  R(n, o, l) = IF Differ(l, active, Dim - n) THEN {}
                          ELSE IF n = 0 THEN Innermost(g, active, o, l)
                          ELSE GroupOrders(g, Dim - n, set[n - 1], active, o, l)
  <2>1. set[n] = OrdersWith(g, n, IF n = 0 THEN <<>> ELSE set[n - 1])
    BY <1>4
  <2>3. CASE n = 0
    BY <2>1, <2>3 DEF OrdersWith
  <2>4. CASE n # 0
    BY <2>1, <2>4 DEF OrdersWith
  <2> QED
    BY <2>3, <2>4
<1> HIDE DEF R
<1>6. 0 \in S
  <2> SUFFICES ASSUME NEW o \in Int, NEW l \in LexicalConstants, NEW v \in R(0, o, l)
               PROVE  IsOrdered(g, active, Dim, o, l, v)
    BY <1>1
  <2>1. ~Differ(l, active, Dim) /\ v \in Innermost(g, active, o, l)
    BY <1>1, <1>5
  <2>2. SameBefore(active, l)
    BY <2>1 DEF Differ, SameBefore
  <2> QED
    BY <2>1, <2>2, InnermostOrders
<1>7. ASSUME NEW n \in S PROVE n + 1 \in S
  <2> SUFFICES ASSUME n + 1 <= Dim, NEW o \in Int, NEW l \in LexicalConstants, NEW v \in R(n + 1, o, l)
               PROVE  IsOrdered(g, active, Dim - (n + 1), o, l, v)
    OBVIOUS
  <2> DEFINE k == Dim - (n + 1)
             groups == GroupsAt(g, k, active)
             Followed(u, m) == UNION {set[n][groups[m]][o + m - 1][PlacedAt(w, groups[m], k, o + m - 1)] : w \in u}
             Ups(h) == h = [m \in 0 .. Len(groups) |-> IF m = 0 THEN {l} ELSE Followed(h[m - 1], m)]
             upto == CHOOSE h : Ups(h)
             placed == PlacedAt(l, active, k, o)
  <2>1. n + 1 \in 0 .. Dim /\ (n + 1) - 1 = n /\ n + 1 # 0 /\ k \in 0 .. Dim - 1
    BY <1>1
  <2>2. v \in GroupOrders(g, k, set[n], active, o, l)
    BY <1>5, <2>1
  <2>3. Len(groups) = 1 /\ groups[1] = active
    BY <2>1, SameLoopsAreOneGroup
  <2>4. v \in upto[Len(groups)]
    BY <2>2 DEF GroupOrders
  <2> HIDE DEF k, groups
  <2>5. \E h : Ups(h)
    <3> HIDE DEF Followed
    <3> DEFINE h == [m \in 0 .. 1 |-> IF m = 0 THEN {l} ELSE Followed({l}, m)]
    <3>1. h = [m \in 0 .. 1 |-> IF m = 0 THEN {l} ELSE Followed(h[m - 1], m)]
      <4>1. \A m \in 0 .. 1 : m = 0 \/ (m = 1 /\ m - 1 = 0)
        OBVIOUS
      <4>2. h[0] = {l} /\ h[1] = Followed({l}, 1)
        OBVIOUS
      <4> QED
        BY <4>1, <4>2
    <3> QED
      BY <2>3, <3>1
  <2>6. Ups(upto)
    <3> HIDE DEF Ups
    <3> QED
      BY <2>5
  <2> HIDE DEF upto
  <2>7. upto[1] = Followed({l}, 1)
    <3>1. upto[0] = {l} /\ upto[1] = Followed(upto[0], 1)
      <4> HIDE DEF Followed, placed
      <4>1. upto = [m \in 0 .. 1 |-> IF m = 0 THEN {l} ELSE Followed(upto[m - 1], m)]
        BY <2>3, <2>6
      <4>2. 0 \in 0 .. 1 /\ 1 \in 0 .. 1 /\ 1 # 0 /\ 1 - 1 = 0
        OBVIOUS
      <4> HIDE DEF Ups
      <4> QED
        BY <4>1, <4>2
    <3> QED
      BY <3>1
  <2>8. v \in set[n][active][o][placed]
    <3>1. o + 1 - 1 = o
      OBVIOUS
    <3>2. v \in Followed({l}, 1)
      <4> HIDE DEF Followed
      <4> QED
        BY <2>3, <2>4, <2>7
    <3> QED
      BY <2>3, <3>1, <3>2
  <2>9. placed \in LexicalConstants /\ k \in Places
    <3>1. k \in Places /\ \A i \in Stmts : l[i] \in [Places -> Int]
      BY <1>1, <2>1 DEF Places, LexicalConstants
    <3> QED
      BY <3>1 DEF PlacedAt, LexicalConstants
  <2>10. Good(n) /\ Dim - n = k + 1
    BY <1>1 DEF k
  <2>11. IsOrdered(g, active, k + 1, o, placed, v)
    BY <2>8, <2>9, <2>10 DEF R
  <2>12. \A i \in Stmts \ active : placed[i] = l[i]
    BY DEF PlacedAt
  <2>13. \A i \in active : /\ \A m \in 0 .. k - 1 : placed[i][m] = l[i][m]
                           /\ placed[i][k] = o
    <3>1. \A i \in active : l[i] \in [Places -> Int] /\ placed[i] = [l[i] EXCEPT ![k] = o]
      BY DEF PlacedAt, LexicalConstants
    <3>2. \A m \in 0 .. k - 1 : m # k /\ m \in Places
      BY <1>1, <2>1 DEF Places
    <3> HIDE DEF placed
    <3> QED
      BY <2>9, <3>1, <3>2
  <2> HIDE DEF placed
  <2>14. (\A m \in 0 .. k - 1 : m \in 0 .. k + 1 - 1) /\ k \in 0 .. k + 1 - 1
    BY <2>1
  <2>15. IsOrdered(g, active, k, o, l, v)
    BY <2>11, <2>12, <2>13, <2>14 DEF IsOrdered
  <2> QED
    BY <2>15 DEF k
<1> HIDE DEF S
<1>8. S = Nat
  <2>1. S \in SUBSET Nat
    BY DEF S
  <2> QED
    BY <1>6, <1>7, <2>1, EveryNumber
<1>9. Dim - place \in S /\ Dim - place <= Dim /\ Dim - (Dim - place) = place
  BY <1>1, <1>8
<1>10. Good(Dim - place)
  BY <1>9 DEF S
<1> QED
  BY <1>3, <1>9, <1>10

-----------------------------------------------------------------------------
(***************************************************************************)
(* Perfect nests under permute, skew, shift and distribute of all          *)
(* statements: the first place or loop that tells two iterations that      *)
(* depend on each other apart puts them in the order of the program.       *)
(***************************************************************************)
\* A loop is made a positive multiple of itself and any multiples of outer loops.
IsForwardSkew(k) == k.amount[k.level] > 0 /\ \A l \in Levels : l > k.level => k.amount[l] = 0

WholeCommands == {"permute", "permute_set", "skew", "shift", "distribute"}

IsWholeScript(p) ==
    /\ p.script.commands \subseteq WholeCommands
    /\ p.script.selections = {DOMAIN p.loops}
    /\ \A k \in p.script.skews : IsForwardSkew(k)

IsZero(x) == \A l \in Levels : x[l] = 0

\* The distance between the two iterations of a pair, in the loops given by ln and of.
PairDistance(ln, of, p, I) ==
    LET q == Directed(p, I) IN DistanceOf(ln, of, q[1], q[2], q[3], q[4])

\* No distance is negative, and with distance zero there are two statements.
RunsOn(ln, of, p, I) ==
    LET y == PairDistance(ln, of, p, I)
        q == Directed(p, I)
    IN  ~IsNegative(y) /\ (IsZero(y) => q[1] # q[3])

AllRunOn(ln, of) == \A p \in Pairs, I \in Iterations : RunsOn(ln, of, p, I)

\* At place k or in loop l the constants c and d and the distance x decide, the first
\* ones forwards.
PlaceDecides(x, c, d, k) ==
    c[k] < d[k] /\ (\A m \in 0 .. k - 1 : c[m] = d[m]) /\ \A m \in 1 .. k : x[m] = 0
LoopDecides(x, c, d, l) ==
    x[l] > 0 /\ (\A m \in 0 .. l - 1 : c[m] = d[m]) /\ \A m \in 1 .. l - 1 : x[m] = 0

Precedes(x, c, d) ==
    (\E k \in Places : PlaceDecides(x, c, d, k)) \/ \E l \in Levels : LoopDecides(x, c, d, l)

PairPrecedes(ln, of, lx, p, I) ==
    LET q == Directed(p, I) IN Precedes(PairDistance(ln, of, p, I), lx[q[1]], lx[q[3]])

AllPrecede(ln, of, lx) == \A p \in Pairs, I \in Iterations : PairPrecedes(ln, of, lx, p, I)

NoneQuasi(g) == \A e \in g : e.dv.quasi = FALSE

Forward ==
    ~raised =>
        /\ lex \in LexicalConstants
        /\ NoneQuasi(dep)
        /\ IF steps = 0 THEN AllRunOn(lin, off) ELSE AllPrecede(lin, off, lex)

\* What is known of a program in the scope of the theorem.
LEMMA PerfectFacts ==
    ASSUME ProgramsFit, program \in Programs, IsPerfect(program), IsWholeScript(program)
    PROVE  /\ Stmts # {} /\ Stmts \subseteq Nat /\ IsFiniteSet(Stmts)
           /\ script.selections = {Stmts}
           /\ \A k \in script.skews : IsForwardSkew(k)
           /\ script.commands \subseteq WholeCommands
BY DEF ProgramsFit, IsWholeScript, Stmts, script

LEMMA PerfectLoopsAreCommon ==
    ASSUME IsPerfect(program), NEW i \in Stmts, NEW j \in Stmts
    PROVE  CommonLoops(program, i, j) = Dim
<1> DEFINE same == {l \in Levels : \A k \in 1 .. l : program.loops[i][k] = program.loops[j][k]}
<1>1. same = 1 .. Dim
  BY DEF IsPerfect, Stmts, Levels, Dims
<1>2. Cardinality(1 .. Dim) = Dim
  BY DimAssumption, FS_Interval
<1> QED
  BY <1>1, <1>2 DEF CommonLoops

\* The four parts of a directed pair.
LEMMA DirectedFacts ==
    ASSUME ProgramsFit, program \in Programs, NEW p \in Pairs, NEW I \in Iterations
    PROVE  LET q == Directed(p, I)
           IN  /\ q[1] \in Stmts /\ q[3] \in Stmts
               /\ q[2] \in [Levels -> Int] /\ q[4] \in [Levels -> Int]
<1> DEFINE q == Directed(p, I)
           J == [k \in Levels |-> I[k] + p.x[k]]
<1>1. I \in [Levels -> Int] /\ p.x \in [Levels -> Int] /\ p.c.from \in Stmts /\ p.c.to \in Stmts
  BY PairFacts DEF Levels
<1>2. J \in [Levels -> Int]
  BY <1>1
<1>3. q = <<p.c.from, I, p.c.to, J>> \/ q = <<p.c.to, J, p.c.from, I>>
  BY DEF Directed
<1> HIDE DEF q, J
<1> QED
  BY <1>1, <1>2, <1>3 DEF q

LEMMA PairDistanceType ==
    ASSUME ProgramsFit, program \in Programs, NEW p \in Pairs, NEW I \in Iterations,
           NEW ln \in Schedules, NEW of \in Constants
    PROVE  PairDistance(ln, of, p, I) \in [Levels -> Int]
<1> DEFINE q == Directed(p, I)
<1>1. /\ q[1] \in Stmts /\ q[3] \in Stmts
      /\ q[2] \in [Levels -> Int] /\ q[4] \in [Levels -> Int]
  BY DirectedFacts
<1> HIDE DEF q
<1>2. \A l \in Levels : TimeOf(ln, of, q[3], q[4], l) - TimeOf(ln, of, q[1], q[2], l) \in Int
  BY <1>1, TimeType
<1> QED
  BY <1>2 DEF PairDistance, DistanceOf, q

\* The first dimension that is not zero.
LEMMA FirstNonzero ==
    ASSUME NEW x \in [Levels -> Int], ~IsZero(x)
    PROVE  \E l \in Levels : x[l] # 0 /\ \A k \in Levels : k < l => x[k] = 0
<1> DEFINE T == {l \in Levels : x[l] # 0}
<1>1. Levels = 1 .. Dim /\ Dim \in Nat
  BY DimAssumption DEF Levels, Dims
<1>2. T \in SUBSET Nat /\ T # {}
  BY <1>1 DEF IsZero
<1>3. PICK l \in T : \A k \in T : l <= k
  <2> HIDE DEF T
  <2> QED
    BY <1>2, SmallestNumber
<1> QED
  BY <1>1, <1>3

\* IsNegative, on the levels.
LEMMA NegativeIs ==
    ASSUME NEW x \in [Levels -> Int]
    PROVE  IsNegative(x) <=> \E l \in Levels : x[l] < 0 /\ \A k \in Levels : k < l => x[k] = 0
<1>1. Levels = 1 .. Dim /\ Dim \in Nat /\ Dims = Levels
  BY DimAssumption DEF Levels, Dims
<1>2. \A l \in Levels : 1 .. l - 1 = {k \in Levels : k < l}
  BY <1>1
<1> QED
  BY <1>1, <1>2 DEF IsNegative

\* The invariant says that the program runs forward.
LEMMA ForwardRuns ==
    ASSUME ProgramsFit, IInv, Forward
    PROVE  RunsForward
<1> SUFFICES ASSUME Started, NEW p \in Pairs, NEW I \in Iterations
             PROVE  RunsBefore(Directed(p, I))
  BY DEF RunsForward
<1> DEFINE q == Directed(p, I)
           y == PairDistance(lin, off, p, I)
           equal(l) == lex[q[1]][l - 1] = lex[q[3]][l - 1] /\ Time(q[1], q[2], l) = Time(q[3], q[4], l)
           less(l) == \/ lex[q[1]][l - 1] < lex[q[3]][l - 1]
                      \/ /\ lex[q[1]][l - 1] = lex[q[3]][l - 1]
                         /\ Time(q[1], q[2], l) < Time(q[3], q[4], l)
<1>1. /\ program \in Programs /\ lin \in Schedules /\ off \in Constants
      /\ ~raised /\ steps # 0
  BY DEF IInv, Started
<1>2. /\ q[1] \in Stmts /\ q[3] \in Stmts
      /\ q[2] \in [Levels -> Int] /\ q[4] \in [Levels -> Int]
  BY <1>1, DirectedFacts
<1>3. y \in [Levels -> Int] /\ \A l \in Levels : y[l] = TimeOf(lin, off, q[3], q[4], l) - TimeOf(lin, off, q[1], q[2], l)
  BY <1>1, PairDistanceType, DistanceAt DEF PairDistance
<1>4. Precedes(y, lex[q[1]], lex[q[3]])
  BY <1>1 DEF Forward, AllPrecede, PairPrecedes
<1> HIDE DEF q, y
<1>5. \A l \in Levels : TimeOf(lin, off, q[1], q[2], l) \in Int /\ TimeOf(lin, off, q[3], q[4], l) \in Int
  BY <1>1, <1>2, TimeType
<1>6. /\ \A l \in Levels : Time(q[1], q[2], l) = TimeOf(lin, off, q[1], q[2], l)
      /\ \A l \in Levels : Time(q[3], q[4], l) = TimeOf(lin, off, q[3], q[4], l)
  BY DEF Time, TimeOf, Row
<1>7. Levels = 1 .. Dim /\ Places = 0 .. Dim /\ Dim \in Nat
  BY DimAssumption DEF Levels, Dims, Places
<1>8. \A l \in Levels : /\ y[l] = 0 => Time(q[1], q[2], l) = Time(q[3], q[4], l)
                        /\ y[l] > 0 => Time(q[1], q[2], l) < Time(q[3], q[4], l)
  BY <1>3, <1>5, <1>6
<1>9. ASSUME NEW n \in Levels, less(n), \A m \in 1 .. n - 1 : equal(m)
      PROVE  RunsBefore(q)
  BY <1>9 DEF RunsBefore
<1>10. ASSUME NEW k \in Places, PlaceDecides(y, lex[q[1]], lex[q[3]], k)
       PROVE  RunsBefore(q)
  <2>1. \A m \in 1 .. k : equal(m)
    <3>1. \A m \in 1 .. k : m \in Levels /\ m - 1 \in 0 .. k - 1
      BY <1>7
    <3> QED
      BY <1>8, <1>10, <3>1 DEF PlaceDecides
  <2>2. lex[q[1]][k] < lex[q[3]][k]
    BY <1>10 DEF PlaceDecides
  <2>3. CASE k = Dim
    <3>1. \A l \in Levels : equal(l)
      BY <1>7, <2>1, <2>3
    <3> QED
      BY <2>2, <2>3, <3>1 DEF RunsBefore
  <2>4. CASE k # Dim
    <3>1. k + 1 \in Levels /\ (k + 1) - 1 = k
      BY <1>7, <2>4
    <3>2. PICK n \in Levels : n - 1 = k
      BY <3>1
    <3>3. less(n)
      BY <2>2, <3>2
    <3>4. \A m \in 1 .. n - 1 : equal(m)
      BY <2>1, <3>2
    <3> HIDE DEF less, equal
    <3> QED
      BY <1>9, <3>3, <3>4
  <2> QED
    BY <2>3, <2>4
<1>11. ASSUME NEW l \in Levels, LoopDecides(y, lex[q[1]], lex[q[3]], l)
       PROVE  RunsBefore(q)
  <2>1. \A m \in 1 .. l - 1 : equal(m)
    <3>1. \A m \in 1 .. l - 1 : m \in Levels /\ m - 1 \in 0 .. l - 1
      BY <1>7
    <3> QED
      BY <1>8, <1>11, <3>1 DEF LoopDecides
  <2>2. less(l)
    <3>1. l - 1 \in 0 .. l - 1
      BY <1>7
    <3> QED
      BY <1>8, <1>11, <3>1 DEF LoopDecides
  <2> HIDE DEF less, equal
  <2> QED
    BY <1>9, <2>1, <2>2
<1> QED
  BY <1>4, <1>10, <1>11 DEF Precedes, q

\* In a perfect nest the analysis never turns a vector round.
LEMMA PerfectNoneQuasi ==
    ASSUME ProgramsFit, Init, IsPerfect(program)
    PROVE  NoneQuasi(dep)
<1> SUFFICES ASSUME NEW c \in program.conflicts, NEW e \in DependencesOf(program, c)
             PROVE  e.dv.quasi = FALSE
  BY DEF Init, Dependences, NoneQuasi
<1>1. c.from \in Stmts /\ c.to \in Stmts /\ IsConflict(c)
  BY DEF Init, ProgramsFit, IsConflict, Stmts
<1>2. CommonLoops(program, c.from, c.to) = Dim /\ CommonLoops(program, c.to, c.from) = Dim
  BY <1>1, PerfectLoopsAreCommon
<1>3. Dim \in Nat /\ Dims = 1 .. Dim /\ \A d \in Dims : d <= Dim
  BY DimAssumption DEF Dims
<1>4. ASSUME NEW v \in normalize(Whole(c))
      PROVE  v \in DependenceVectors /\ v.quasi = FALSE
  <2>1. v \in DependenceVectors
    BY <1>1, WholeType, NormalizedType
  <2>2. Whole(c).quasi = FALSE
    BY DEF Whole
  <2>3. v.quasi = Whole(c).quasi
    <3> DEFINE w == Whole(c)
    <3>1. w \in DependenceVectors
      BY <1>1, WholeType
    <3>2. v \in normalize(w)
      OBVIOUS
    <3> HIDE DEF w
    <3> QED
      BY <3>1, <3>2 DEF normalize, NegativePart, PositivePart, ZeroPart, WithZero, DependenceVectors
  <2> QED
    BY <2>1, <2>2, <2>3
<1>5. ASSUME NEW v \in dependences1(c)
      PROVE  is_dependence_valid(program, c.from, c.to, v, TRUE) /\ v.quasi = FALSE
  <2>1. v \in normalize(Whole(c)) /\ ~IsNegativeFirst(v)
    BY DEF dependences1
  <2>2. v \in DependenceVectors /\ v.quasi = FALSE
    BY <1>4, <2>1
  <2>3. CASE IsZeroVector(v)
    BY <2>2, <2>3, ValidIs DEF IsZeroVector
  <2>4. CASE ~IsZeroVector(v)
    <3>1. PICK i \in Dims : LeadsAt(v, i)
      BY <1>1, <2>1, <2>4, WholeType, NormalizedLeads
    <3>2. \A k \in Dims : k < i => v.lbounds[k] = 0 /\ v.ubounds[k] = 0
      BY <3>1 DEF LeadsAt, ZeroAt
    <3>3. IsOpenBefore(v, i)
      BY <1>3, <3>2 DEF IsOpenBefore, IsDecidedAt, IsPositiveAt, IsNegativeAt
    <3>4. v.lbounds[i] > 0
      BY <2>1, <3>1, <3>3 DEF LeadsAt, IsDecidedAt, IsPositiveAt, IsNegativeFirst
    <3>5. v.lbounds[i] # 0 /\ ZeroBefore(v.lbounds, i) /\ i <= CommonLoops(program, c.from, c.to)
      BY <1>2, <1>3, <3>2, <3>4 DEF ZeroBefore
    <3> QED
      BY <2>2, <3>4, <3>5, ValidIs
  <2> QED
    BY <2>3, <2>4
<1>6. ASSUME NEW v \in dependences2(c)
      PROVE  is_dependence_valid(program, c.to, c.from, v, FALSE) /\ v.quasi = FALSE
  <2>1. PICK u \in normalize(Whole(c)) : IsNegativeFirst(u) /\ v = Negated(u)
    BY DEF dependences2
  <2>2. u \in DependenceVectors /\ u.quasi = FALSE
    BY <1>4
  <2>3. v.quasi = FALSE
    BY <2>1, <2>2 DEF Negated, DependenceVectors
  <2>4. v \in DependenceVectors /\ Turned(v, u)
    BY <2>1, <2>2, NegatedIs
  <2>5. PICK n \in Dims : IsOpenBefore(u, n) /\ IsNegativeAt(u, n)
    BY <2>1 DEF IsNegativeFirst
  <2>6. ~IsZeroVector(u)
    BY <2>5 DEF IsZeroVector, IsNegativeAt
  <2>7. PICK i \in Dims : LeadsAt(u, i)
    BY <1>1, <2>6, WholeType, NormalizedLeads
  <2>8. \A k \in Dims : k < i => u.lbounds[k] = 0 /\ u.ubounds[k] = 0
    BY <2>7 DEF LeadsAt, ZeroAt
  <2>9. n = i
    <3>1. ~(n < i)
      BY <2>5, <2>8 DEF IsNegativeAt
    <3>2. ~(i < n)
      <4> SUFFICES ASSUME i < n PROVE FALSE
        OBVIOUS
      <4>1. i \in 1 .. n - 1
        BY <1>3
      <4> QED
        BY <2>5, <2>7, <4>1 DEF IsOpenBefore, LeadsAt
    <3> QED
      BY <1>3, <3>1, <3>2
  <2>10. \A k \in Dims : v.lbounds[k] = -u.ubounds[k] /\ u.ubounds[k] \in Int
    BY <2>2, <2>4, Integral DEF Turned
  <2>11. v.lbounds[i] > 0 /\ v.lbounds[i] # 0 /\ ZeroBefore(v.lbounds, i) /\ i <= CommonLoops(program, c.to, c.from)
    BY <1>2, <1>3, <2>5, <2>8, <2>9, <2>10 DEF IsNegativeAt, ZeroBefore
  <2> QED
    BY <2>3, <2>4, <2>11, ValidIs
<1>7. \/ \E v \in dependences1(c) : e = Edge(c.from, c.to, v)
      \/ \E v \in dependences2(c) : e = Edge(c.to, c.from, v)
  BY <1>5, <1>6 DEF DependencesOf
<1>8. ASSUME NEW v \in dependences1(c), e = Edge(c.from, c.to, v)
      PROVE  e.dv.quasi = FALSE
  BY <1>5, <1>8 DEF Edge
<1>9. ASSUME NEW v \in dependences2(c), e = Edge(c.to, c.from, v)
      PROVE  e.dv.quasi = FALSE
  BY <1>6, <1>9 DEF Edge
<1> QED
  BY <1>7, <1>8, <1>9

\* At first the distance of a pair is its own, in the direction in which it runs.
LEMMA InitForward ==
    ASSUME ProgramsFit, Init, IsPerfect(program), IsWholeScript(program)
    PROVE  Forward
<1>1. program \in Programs /\ steps = 0
  BY DEF Init
<1>2. lin \in Schedules /\ off \in Constants /\ lex \in LexicalConstants
  BY DimAssumption DEF Init, Schedules, Constants, LexicalConstants, Places
<1>3. ASSUME NEW p \in Pairs, NEW I \in Iterations
      PROVE  RunsOn(lin, off, p, I)
  <2> DEFINE J == [k \in Levels |-> I[k] + p.x[k]]
             c == p.c
             x == p.x
             y == PairDistance(lin, off, p, I)
             q == Directed(p, I)
  <2>1. /\ IsConflict(c) /\ c.from \in Stmts /\ c.to \in Stmts
        /\ x \in [Levels -> Int] /\ I \in [Levels -> Int]
        /\ c.from # c.to \/ \E d \in Levels : x[d] # 0
    BY <1>1, PairFacts DEF Levels
  <2>2. J \in [Levels -> Int] /\ \A k \in Levels : J[k] = I[k] + x[k]
    BY <2>1
  <2>3. q = IF FirstRunsFirst(c, x) THEN <<c.from, I, c.to, J>> ELSE <<c.to, J, c.from, I>>
    BY DEF Directed
  <2>4. y = DistanceOf(lin, off, q[1], q[2], q[3], q[4])
    BY DEF PairDistance
  <2>5. \A s \in Stmts : \A K \in [Levels -> Int] : \A l \in Levels : TimeOf(lin, off, s, K, l) = K[l]
    BY TimeAtFirst DEF Init
  <2>6. CommonLoops(program, c.from, c.to) = Dim /\ \A l \in Levels : l <= Dim
    BY <2>1, PerfectLoopsAreCommon, DimAssumption DEF Levels, Dims
  <2> HIDE DEF J, c, x, y, q
  <2>7. \A l \in Levels : y[l] = IF FirstRunsFirst(c, x) THEN x[l] ELSE -x[l]
    <3> SUFFICES ASSUME NEW l \in Levels PROVE y[l] = IF FirstRunsFirst(c, x) THEN x[l] ELSE -x[l]
      OBVIOUS
    <3>1. y[l] = TimeOf(lin, off, q[3], q[4], l) - TimeOf(lin, off, q[1], q[2], l)
      BY <2>4, DistanceAt
    <3>2. CASE FirstRunsFirst(c, x)
      BY <2>1, <2>2, <2>3, <2>5, <3>1, <3>2
    <3>3. CASE ~FirstRunsFirst(c, x)
      BY <2>1, <2>2, <2>3, <2>5, <3>1, <3>3
    <3> QED
      BY <3>2, <3>3
  <2>8. y \in [Levels -> Int]
    BY <1>1, <1>2, PairDistanceType DEF y
  <2>9. CASE IsZero(x)
    <3>1. IsZero(y)
      BY <2>1, <2>7, <2>9 DEF IsZero
    <3>2. ~IsNegative(y)
      BY <2>8, <3>1, NegativeIs DEF IsZero
    <3>3. c.from # c.to
      BY <2>1, <2>9 DEF IsZero
    <3>4. q[1] # q[3]
      BY <2>3, <3>3
    <3> QED
      BY <1>1, <3>2, <3>4 DEF RunsOn, y, q
  <2>10. CASE ~IsZero(x)
    <3>1. PICK l \in Levels : x[l] # 0 /\ \A k \in Levels : k < l => x[k] = 0
      BY <2>1, <2>10, FirstNonzero
    <3>2. ZeroBefore(x, l) /\ l <= CommonLoops(program, c.from, c.to) /\ l \in Dims /\ x \in [Dims -> Int]
      BY <2>1, <2>6, <3>1 DEF ZeroBefore, Levels
    <3>3. FirstRunsFirst(c, x) <=> x[l] > 0
      BY <2>1, <3>1, <3>2, FirstRunsFirstIs
    <3>4. y[l] > 0
      BY <2>1, <2>7, <3>1, <3>3
    <3>5. ~IsZero(y)
      BY <3>4 DEF IsZero
    <3>6. ~IsNegative(y)
      <4> SUFFICES ASSUME NEW m \in Levels, y[m] < 0, \A k \in Levels : k < m => y[k] = 0
                   PROVE  FALSE
        BY <2>8, NegativeIs
      <4>1. \A k \in Levels : k < l => y[k] = 0
        BY <2>1, <2>7, <3>1
      <4>2. l \in Int /\ m \in Int
        BY DEF Levels, Dims
      <4> QED
        BY <2>8, <3>4, <4>1, <4>2
    <3> QED
      BY <3>5, <3>6 DEF RunsOn, y
  <2> QED
    BY <2>9, <2>10
<1>4. AllRunOn(lin, off)
  BY <1>3 DEF AllRunOn
<1> QED
  BY <1>1, <1>2, <1>4, PerfectNoneQuasi DEF Forward

\* Two statements whose constants tell them apart behind the innermost loop only, by an
\* order of a graph that knows every dependence, run their pairs forwards.
LEMMA OrderDecides ==
    ASSUME ProgramsFit, program \in Programs,
           NEW ln \in Schedules, NEW of \in Constants, NEW g \in SUBSET Edges, NEW lx, KnowsAll(ln, of, g),
           NEW active \in SUBSET Stmts, SameBefore(active, lx),
           \A e \in InnermostEdges(g, active) : lx[e[1]][Dim] < lx[e[2]][Dim],
           NEW p \in Pairs, NEW I \in Iterations, RunsOn(ln, of, p, I),
           Directed(p, I)[1] \in active, Directed(p, I)[3] \in active
    PROVE  PairPrecedes(ln, of, lx, p, I)
<1> DEFINE y == PairDistance(ln, of, p, I)
           q == Directed(p, I)
<1>1. ~IsNegative(y) /\ (IsZero(y) => q[1] # q[3])
  BY DEF RunsOn
<1>2. y \in [Levels -> Int] /\ q[1] \in active /\ q[3] \in active
  BY PairDistanceType
<1>3. PICK e \in g : e.from = q[1] /\ e.to = q[3] /\ Admits(e.dv, y)
  BY DEF KnowsAll, IsKnown, PairDistance
<1> HIDE DEF y, q
<1>4. \A m \in 0 .. Dim - 1 : lx[q[1]][m] = lx[q[3]][m]
  BY <1>2 DEF SameBefore
<1>5. Dim \in Nat /\ Levels = 1 .. Dim /\ Dim \in Places
  BY DimAssumption DEF Levels, Dims, Places
<1>6. CASE IsZero(y)
  <2>1. e.dv.lbounds \in [Dims -> Int] /\ e.dv.ubounds \in [Dims -> Int]
    BY EdgeFacts, VectorsAreIntegral
  <2>2. \A d \in Dims : ~IsDecidedAt(e.dv, d)
    <3> SUFFICES ASSUME NEW d \in Dims PROVE ~(e.dv.lbounds[d] > 0) /\ ~(e.dv.ubounds[d] < 0)
      BY DEF IsDecidedAt, IsPositiveAt, IsNegativeAt
    <3>1. y[d] = 0
      BY <1>6 DEF IsZero, Levels
    <3>2. /\ e.dv.lbounds[d] = -Inf \/ e.dv.lbounds[d] <= y[d]
          /\ e.dv.ubounds[d] = Inf \/ y[d] <= e.dv.ubounds[d]
      BY <1>3 DEF Admits
    <3> QED
      BY <2>1, <3>1, <3>2, InfAssumption
  <2>3. e.dv \in getEdge(g, q[1], q[3]) /\ ~has_been_carried_before(e.dv, Dim + 1)
    BY <1>3, <2>2 DEF getEdge, has_been_carried_before
  <2>4. <<q[1], q[3]>> \in InnermostEdges(g, active)
    BY <1>1, <1>2, <1>6, <2>3 DEF InnermostEdges
  <2>5. PlaceDecides(y, lx[q[1]], lx[q[3]], Dim)
    BY <1>4, <1>5, <1>6, <2>4 DEF PlaceDecides, IsZero
  <2> QED
    BY <1>5, <2>5 DEF PairPrecedes, Precedes, y, q
<1>7. CASE ~IsZero(y)
  <2>1. PICK l \in Levels : y[l] # 0 /\ \A k \in Levels : k < l => y[k] = 0
    BY <1>2, <1>7, FirstNonzero
  <2>2. ~(y[l] < 0)
    BY <1>1, <1>2, <2>1, NegativeIs
  <2>3. /\ \A m \in 1 .. l - 1 : m \in Levels /\ m < l
        /\ \A m \in 0 .. l - 1 : m \in 0 .. Dim - 1
    BY <1>5
  <2>4. LoopDecides(y, lx[q[1]], lx[q[3]], l)
    BY <1>2, <1>4, <2>1, <2>2, <2>3 DEF LoopDecides
  <2> QED
    BY <2>4 DEF PairPrecedes, Precedes, y, q
<1> QED
  BY <1>6, <1>7

\* What nothing but a place decides is of two statements.
LEMMA PrecedesZero ==
    ASSUME NEW x, NEW c, NEW d, Precedes(x, c, d), IsZero(x), c \in [Places -> Int], d \in [Places -> Int]
    PROVE  c # d
<1>1. \A l \in Levels : ~LoopDecides(x, c, d, l)
  BY DEF IsZero, LoopDecides
<1>2. PICK k \in Places : c[k] < d[k]
  BY <1>1 DEF Precedes, PlaceDecides
<1>3. c[k] \in Int /\ d[k] \in Int
  OBVIOUS
<1> QED
  BY <1>2, <1>3

\* A step into what runs forward.
LEMMA ForwardStep ==
    ASSUME program' = program, lex' \in LexicalConstants, NoneQuasi(dep'),
           AllPrecede(lin', off', lex'), steps' # 0
    PROVE  Forward'
<1>1. Stmts' = Stmts
  BY DEF Stmts
<1>2. LexicalConstants' = LexicalConstants
  BY <1>1 DEF LexicalConstants
<1>3. Pairs' = Pairs
  BY DEF Pairs
<1>4. ASSUME NEW p, NEW I
      PROVE  Directed(p, I)' = Directed(p, I)
  BY DEF Directed, FirstRunsFirst
<1>5. AllPrecede(lin, off, lex)'
  <2> SUFFICES ASSUME NEW p \in Pairs, NEW I \in Iterations
               PROVE  PairPrecedes(lin, off, lex, p, I)'
    BY <1>3 DEF AllPrecede
  <2>1. PairPrecedes(lin', off', lex', p, I)
    BY DEF AllPrecede
  <2> QED
    BY <1>4, <2>1 DEF PairPrecedes, PairDistance
<1>6. NoneQuasi(dep)'
  BY DEF NoneQuasi
<1> QED
  BY <1>2, <1>5, <1>6 DEF Forward

\* original sets an order of the graph as it is.
LEMMA OriginalForward ==
    ASSUME ProgramsFit, IInv, Forward, IsPerfect(program), IsWholeScript(program), Original
    PROVE  Forward'
<1>1. /\ program \in Programs /\ lin \in Schedules /\ off \in Constants /\ dep \subseteq Edges
      /\ KnowsAll(lin, off, dep)
  BY DEF IInv
<1>2. ~raised /\ lex \in LexicalConstants /\ NoneQuasi(dep) /\ AllRunOn(lin, off) /\ steps' # 0
  BY DEF Original, Forward
<1>3. CASE Raise
  BY <1>3 DEF Raise, Forward
<1>4. CASE lex' \in SetLexicalOrder(dep, 0, Stmts, 0, lex) /\ UNCHANGED <<program, lin, off, dep>>
  <2>1. 0 \in 0 .. Dim /\ 0 \in Int
    BY DimAssumption
  <2>2. Stmts # {} /\ Stmts \subseteq Nat /\ IsFiniteSet(Stmts)
    BY <1>1, PerfectFacts
  <2>3. IsOrdered(dep, Stmts, 0, 0, lex, lex')
    BY <1>2, <1>4, <2>1, <2>2, SetOrders
  <2>4. /\ lex' \in LexicalConstants /\ SameBefore(Stmts, lex')
        /\ \A e \in InnermostEdges(dep, Stmts) : lex'[e[1]][Dim] < lex'[e[2]][Dim]
    BY <2>3 DEF IsOrdered
  <2>5. AllPrecede(lin, off, lex')
    <3> SUFFICES ASSUME NEW p \in Pairs, NEW I \in Iterations PROVE PairPrecedes(lin, off, lex', p, I)
      BY DEF AllPrecede
    <3>1. RunsOn(lin, off, p, I)
      BY <1>2 DEF AllRunOn
    <3>2. Directed(p, I)[1] \in Stmts /\ Directed(p, I)[3] \in Stmts
      BY <1>1, DirectedFacts
    <3> QED
      BY <1>1, <2>4, <3>1, <3>2, OrderDecides
  <2> QED
    BY <1>2, <1>4, <2>4, <2>5, ForwardStep
<1> QED
  BY <1>3, <1>4 DEF Original, SetsOrder

\* Statements that agree up to a place or loop still do, and are told apart there as
\* they were.
LEMMA PrecedesKept ==
    ASSUME NEW x, NEW c, NEW d, Precedes(x, c, d), NEW z, NEW e, NEW f,
           \A m \in Places : (\A n \in 0 .. m - 1 : c[n] = d[n]) =>
               (c[m] < d[m] => e[m] < f[m]) /\ (c[m] = d[m] => e[m] = f[m]),
           \A l \in Levels : (\A n \in 0 .. l - 1 : c[n] = d[n]) => z[l] = x[l]
    PROVE  Precedes(z, e, f)
<1>1. Dim \in Nat /\ Levels = 1 .. Dim /\ Places = 0 .. Dim
  BY DimAssumption DEF Levels, Dims, Places
<1>2. ASSUME NEW m \in Places, \A n \in 0 .. m - 1 : c[n] = d[n]
      PROVE  /\ \A n \in 0 .. m - 1 : e[n] = f[n]
             /\ \A l \in 1 .. m : z[l] = x[l]
  <2>1. \A n \in 0 .. m - 1 : n \in Places /\ \A o \in 0 .. n - 1 : o \in 0 .. m - 1
    BY <1>1
  <2>2. \A l \in 1 .. m : l \in Levels /\ \A o \in 0 .. l - 1 : o \in 0 .. m - 1
    BY <1>1
  <2>3. ASSUME NEW n \in 0 .. m - 1 PROVE e[n] = f[n]
    <3>1. c[n] = d[n] /\ \A o \in 0 .. n - 1 : c[o] = d[o]
      BY <1>2, <2>1
    <3> QED
      BY <2>1, <3>1
  <2>4. ASSUME NEW l \in 1 .. m PROVE z[l] = x[l]
    <3>1. \A o \in 0 .. l - 1 : c[o] = d[o]
      BY <1>2, <2>2
    <3> QED
      BY <2>2, <3>1
  <2> QED
    BY <2>3, <2>4
<1>3. ASSUME NEW k \in Places, PlaceDecides(x, c, d, k)
      PROVE  Precedes(z, e, f)
  <2>1. \A n \in 0 .. k - 1 : c[n] = d[n]
    BY <1>3 DEF PlaceDecides
  <2>2. PlaceDecides(z, e, f, k)
    BY <1>2, <1>3, <2>1 DEF PlaceDecides
  <2> QED
    BY <2>2 DEF Precedes
<1>4. ASSUME NEW l \in Levels, LoopDecides(x, c, d, l)
      PROVE  Precedes(z, e, f)
  <2>1. l \in Places /\ l \in 1 .. l /\ 1 .. l - 1 \subseteq 1 .. l
    BY <1>1
  <2>2. \A n \in 0 .. l - 1 : c[n] = d[n]
    BY <1>4 DEF LoopDecides
  <2>3. LoopDecides(z, e, f, l)
    BY <1>2, <1>4, <2>1, <2>2 DEF LoopDecides
  <2> QED
    BY <2>3 DEF Precedes
<1> QED
  BY <1>3, <1>4 DEF Precedes

\* Permuted loops have the distances of the loops that they were, where both statements
\* are permuted; others change only between a permuted one and one that is not.
LEMMA PermutedDistance ==
    ASSUME ProgramsFit, program \in Programs, lin \in Schedules, off \in Constants,
           NEW active \in SUBSET Stmts,
           NEW pi \in [Levels -> Levels], NEW p \in Pairs, NEW I \in Iterations, NEW l \in Levels
    PROVE  LET q == Directed(p, I)
               z == PairDistance(PermutedLoops(active, pi), PermutedConstants(active, pi), p, I)
               y == PairDistance(lin, off, p, I)
           IN  /\ q[1] \in active /\ q[3] \in active => z[l] = y[pi[l]]
               /\ pi[l] = l \/ (q[1] \notin active /\ q[3] \notin active) => z[l] = y[l]
<1> DEFINE q == Directed(p, I)
           ln == PermutedLoops(active, pi)
           of == PermutedConstants(active, pi)
           z == PairDistance(ln, of, p, I)
           y == PairDistance(lin, off, p, I)
<1>1. q[1] \in Stmts /\ q[3] \in Stmts /\ pi[l] \in Levels
  BY DirectedFacts
<1>2. \A s \in Stmts : LET k == IF s \in active THEN pi[l] ELSE l
                       IN  ln[s][l] = lin[s][k] /\ of[s][l] = off[s][k]
  BY DEF PermutedLoops, PermutedConstants
<1> HIDE DEF ln, of
<1>3. \A s \in Stmts : \A K : TimeOf(ln, of, s, K, l) = TimeOf(lin, off, s, K, IF s \in active THEN pi[l] ELSE l)
  BY <1>2, TimeSame
<1>4. z[l] = TimeOf(ln, of, q[3], q[4], l) - TimeOf(ln, of, q[1], q[2], l)
  BY DistanceAt DEF PairDistance
<1>5. \A k \in Levels : y[k] = TimeOf(lin, off, q[3], q[4], k) - TimeOf(lin, off, q[1], q[2], k)
  BY DistanceAt DEF PairDistance
<1> HIDE DEF q, z, y
<1>6. CASE q[1] \in active /\ q[3] \in active
  BY <1>1, <1>3, <1>4, <1>5, <1>6 DEF q, ln, of, z, y
<1>7. CASE pi[l] = l \/ (q[1] \notin active /\ q[3] \notin active)
  <2>1. /\ TimeOf(ln, of, q[3], q[4], l) = TimeOf(lin, off, q[3], q[4], l)
        /\ TimeOf(ln, of, q[1], q[2], l) = TimeOf(lin, off, q[1], q[2], l)
    BY <1>1, <1>3, <1>7
  <2>2. z[l] = y[l]
    BY <1>4, <1>5, <2>1
  <2>3. q[1] \in active /\ q[3] \in active => pi[l] = l
    BY <1>7
  <2> QED
    BY <2>2, <2>3 DEF q, ln, of, z, y
<1> QED
  BY <1>6, <1>7 DEF q

\* permute throws unless no distance that a vector admits comes to be negative.
LEMMA PermutedNotNegative ==
    ASSUME NEW dv \in Vectors, NEW pi \in [Levels -> Levels], dv.quasi = FALSE, ~PermuteThrows(dv, pi),
           NEW y \in [Levels -> Int], Admits(Permuted(dv, pi), y)
    PROVE  ~IsNegative(y)
<1> DEFINE v == Permuted(dv, pi)
<1>1. v \in Vectors
  <2>1. \A d \in Dims : pi[d] \in Dims
    BY DEF Levels
  <2>2. dv.lbounds \in [Dims -> Int] /\ dv.ubounds \in [Dims -> Int]
    BY VectorsAreIntegral
  <2>3. /\ [i \in Dims |-> dv.lbounds[pi[i]]] \in [Dims -> Int]
        /\ [i \in Dims |-> dv.ubounds[pi[i]]] \in [Dims -> Int]
    BY <2>1, <2>2
  <2> QED
    BY <2>3 DEF Vectors, Permuted
<1>2. v.lbounds \in [Dims -> Int]
  BY <1>1, VectorsAreIntegral
<1>3. \A i \in Dims : v.lbounds[i] >= 0 \/ \E j \in 1 .. i - 1 : v.lbounds[j] > 0
  <2>1. ~IsViolated(dv, pi)
    BY DEF PermuteThrows
  <2>2. \A i \in Dims : \A j \in 1 .. i - 1 : j \in Dims
    BY DimAssumption DEF Dims
  <2> HIDE DEF v
  <2>3. \A i \in Dims : ~(v.lbounds[i] < 0 /\ \A j \in 1 .. i - 1 : v.lbounds[j] <= 0)
    BY <2>1 DEF IsViolated, v
  <2> QED
    BY <1>2, <2>2, <2>3
<1> HIDE DEF v
<1>4. \A d \in Dims : v.lbounds[d] = -Inf \/ v.lbounds[d] <= y[d]
  BY DEF Admits, v
<1> SUFFICES ASSUME NEW m \in Levels, y[m] < 0, \A k \in Levels : k < m => y[k] = 0
             PROVE  FALSE
  BY NegativeIs
<1>5. m \in Dims /\ \A j \in 1 .. m - 1 : j \in Dims /\ j \in Levels /\ j < m
  BY DimAssumption DEF Levels, Dims
<1>6. v.lbounds[m] < 0
  BY <1>2, <1>4, <1>5, InfAssumption
<1>7. PICK j \in 1 .. m - 1 : v.lbounds[j] > 0
  BY <1>2, <1>3, <1>5, <1>6
<1>8. y[j] = 0
  BY <1>5
<1> QED
  BY <1>2, <1>4, <1>5, <1>7, <1>8, InfAssumption

LEMMA PermutationIsOnto ==
    ASSUME NEW pi \in [Levels -> Levels], \A l, k \in Levels : pi[l] = pi[k] => l = k
    PROVE  \A l \in Levels : \E m \in Levels : pi[m] = l
<1> SUFFICES ASSUME NEW l \in Levels PROVE \E m \in Levels : pi[m] = l
  OBVIOUS
<1> DEFINE c == Cardinality(Levels)
<1>1. IsFiniteSet(Levels) /\ c = Dim /\ Levels = 1 .. Dim
  BY DimAssumption, FS_Interval DEF Levels, Dims
<1>2. IsFiniteSet(Levels)
  BY <1>1
<1>3. Enumerates(pi, Levels)
  BY <1>1, DimAssumption DEF Enumerates
<1>4. \E m \in 1 .. c : pi[m] = l
  BY <1>2, <1>3, EnumerationIsOnto
<1> HIDE DEF c
<1> QED
  BY <1>1, <1>4

\* permute of the statements active keeps the order if what is done to the others does.
LEMMA PermuteForward ==
    ASSUME ProgramsFit, IInv, Forward, IsPerfect(program), IsWholeScript(program), ~raised, steps # 0,
           steps' # 0, program' = program, NEW active \in SUBSET Stmts, active # {},
           NEW pi \in [Levels -> Levels], \A l, k \in Levels : pi[l] = pi[k] => l = k,
           NEW k \in 0 .. Dim, NEW order \in Int, NEW lx \in LexicalConstants,
           PermuteLoops(active, pi, k, order, lx),
           \A r \in LexicalConstants, p \in Pairs, I \in Iterations :
               /\ IsOrdered(PermutedGraph(active, pi), active, k, order, lx, r)
               /\ ~(Directed(p, I)[1] \in active /\ Directed(p, I)[3] \in active)
               => PairPrecedes(PermutedLoops(active, pi), PermutedConstants(active, pi), r, p, I)
    PROVE  Forward'
<1> DEFINE g == PermutedGraph(active, pi)
           ln == PermutedLoops(active, pi)
           of == PermutedConstants(active, pi)
<1>1. /\ program \in Programs /\ lin \in Schedules /\ off \in Constants /\ dep \subseteq Edges
      /\ KnowsAll(lin, off, dep)
  BY DEF IInv
<1>2. lex \in LexicalConstants /\ NoneQuasi(dep) /\ AllPrecede(lin, off, lex)
  BY DEF Forward
<1>3. CASE Raise
  BY <1>3 DEF Raise, Forward
<1>4. CASE /\ \A e \in dep : ~(Within(e, active) /\ PermuteThrows(e.dv, pi))
           /\ lex' \in SetLexicalOrder(g, k, active, order, lx)
           /\ dep' = g /\ lin' = ln /\ off' = of
  <2>1. /\ ln \in Schedules /\ of \in Constants /\ g \subseteq Edges
        /\ KnowsAll(ln, of, g)
    BY <1>1, PermuteKeeps, KeptIsKnown
  <2>2. \A e \in dep : e.from \in Stmts /\ e.to \in Stmts /\ e.dv \in Vectors
    BY <1>1, EdgeFacts
  <2> DEFINE vector(e) == IF Within(e, active) THEN Permuted(e.dv, pi)
                          ELSE IF Outside(e, active) THEN e.dv
                          ELSE Unknown(e.dv, {d \in Dims : pi[d] # d})
  <2>3. g = {[e EXCEPT !.dv = vector(e)] : e \in dep}
    BY DEF PermutedGraph
  <2> HIDE DEF vector
  <2>4. \A d \in g : \E e \in dep : d.dv = vector(e) /\ d.from = e.from /\ d.to = e.to
    <3>1. ASSUME NEW e \in dep
          PROVE  LET d == [e EXCEPT !.dv = vector(e)] IN d.dv = vector(e) /\ d.from = e.from /\ d.to = e.to
      BY <1>1 DEF Edges
    <3> QED
      BY <2>3, <3>1
  <2> HIDE DEF g, ln, of
  <2>5. NoneQuasi(g)
    <3> SUFFICES ASSUME NEW d \in g PROVE d.dv.quasi = FALSE
      BY DEF NoneQuasi
    <3>1. PICK e \in dep : d.dv = vector(e)
      BY <2>4
    <3>2. e.dv \in Vectors /\ e.dv.quasi = FALSE
      BY <1>2, <2>2 DEF NoneQuasi
    <3>3. Permuted(e.dv, pi).quasi = FALSE
      BY <3>2 DEF Permuted, Vectors
    <3>4. Unknown(e.dv, {n \in Dims : pi[n] # n}).quasi = FALSE
      BY <3>2 DEF Unknown, Vectors
    <3> QED
      BY <3>1, <3>2, <3>3, <3>4 DEF vector
  <2>6. ASSUME NEW p \in Pairs, NEW I \in Iterations,
               Directed(p, I)[1] \in active, Directed(p, I)[3] \in active
        PROVE  RunsOn(ln, of, p, I)
    <3> DEFINE y == PairDistance(lin, off, p, I)
               z == PairDistance(ln, of, p, I)
               q == Directed(p, I)
    <3>1. \A l \in Levels : z[l] = y[pi[l]]
      BY <1>1, <2>6, PermutedDistance DEF ln, of
    <3>2. z \in [Levels -> Int]
      BY <1>1, <2>1, PairDistanceType
    <3>3. PICK d \in g : d.from = q[1] /\ d.to = q[3] /\ Admits(d.dv, z)
      BY <2>1 DEF KnowsAll, IsKnown, PairDistance
    <3> HIDE DEF z, y
    <3>4. ~IsNegative(z)
      <4>1. PICK e \in dep : d.dv = vector(e) /\ d.from = e.from /\ d.to = e.to
        BY <2>4
      <4>2. Within(e, active)
        BY <2>6, <3>3, <4>1 DEF Within
      <4>3. /\ e.dv \in Vectors /\ e.dv.quasi = FALSE /\ ~PermuteThrows(e.dv, pi)
            /\ Admits(Permuted(e.dv, pi), z)
        BY <1>2, <1>4, <2>2, <3>3, <4>1, <4>2 DEF NoneQuasi, vector
      <4> QED
        BY <3>2, <4>3, PermutedNotNegative
    <3>5. IsZero(z) => IsZero(y)
      <4>1. \A l \in Levels : \E m \in Levels : pi[m] = l
        BY PermutationIsOnto
      <4> QED
        BY <3>1, <4>1 DEF IsZero
    <3>6. IsZero(y) => q[1] # q[3]
      <4>1. Precedes(y, lex[q[1]], lex[q[3]])
        BY <1>2 DEF AllPrecede, PairPrecedes, y
      <4>2. lex[q[1]] \in [Places -> Int] /\ lex[q[3]] \in [Places -> Int]
        BY <1>2, <2>6 DEF LexicalConstants
      <4> QED
        BY <4>1, <4>2, PrecedesZero
    <3> QED
      BY <3>4, <3>5, <3>6 DEF RunsOn, z
  <2>7. Stmts \subseteq Nat /\ IsFiniteSet(active)
    BY <1>1, PerfectFacts, FS_Subset
  <2>8. IsOrdered(g, active, k, order, lx, lex')
    BY <1>4, <2>7, SetOrders
  <2>9. /\ lex' \in LexicalConstants /\ SameBefore(active, lex')
        /\ \A e \in InnermostEdges(g, active) : lex'[e[1]][Dim] < lex'[e[2]][Dim]
    BY <2>8 DEF IsOrdered
  <2>10. AllPrecede(ln, of, lex')
    <3> SUFFICES ASSUME NEW p \in Pairs, NEW I \in Iterations PROVE PairPrecedes(ln, of, lex', p, I)
      BY DEF AllPrecede
    <3>1. CASE Directed(p, I)[1] \in active /\ Directed(p, I)[3] \in active
      BY <1>1, <2>1, <2>6, <2>9, <3>1, OrderDecides
    <3>2. CASE ~(Directed(p, I)[1] \in active /\ Directed(p, I)[3] \in active)
      BY <2>8, <2>9, <3>2 DEF g, ln, of
    <3> QED
      BY <3>1, <3>2
  <2> QED
    BY <1>4, <2>5, <2>9, <2>10, ForwardStep
<1> QED
  BY <1>3, <1>4 DEF PermuteLoops, SetsOrder, PermutedLoops, PermutedConstants

\* permute of all statements.
LEMMA PermuteAllForward ==
    ASSUME ProgramsFit, IInv, Forward, IsPerfect(program), IsWholeScript(program), ~raised, steps # 0,
           steps' # 0, program' = program,
           NEW pi \in [Levels -> Levels], \A l, k \in Levels : pi[l] = pi[k] => l = k,
           NEW k \in 0 .. Dim, PermuteLoops(Stmts, pi, k, 0, lex)
    PROVE  Forward'
<1>1. lex \in LexicalConstants /\ program \in Programs /\ 0 \in Int
  BY DEF Forward, IInv
<1>2. Stmts # {}
  BY <1>1, PerfectFacts
<1>3. \A p \in Pairs, I \in Iterations : Directed(p, I)[1] \in Stmts /\ Directed(p, I)[3] \in Stmts
  BY <1>1, DirectedFacts
<1> QED
  BY <1>1, <1>2, <1>3, PermuteForward

\* permute of the loops of one statement: the statements behind that loop make room, and
\* what a place or loop outside decides is decided there as before.
LEMMA PermuteOneForward ==
    ASSUME ProgramsFit, IInv, Forward, IsPerfect(program), IsWholeScript(program), ~raised, steps # 0,
           steps' # 0, program' = program,
           NEW s \in Stmts, NEW level \in Levels, NEW n, NEW pi \in PermutationsAt(level, n),
           Permute(s, level, pi)
    PROVE  Forward'
<1> DEFINE k == level - 1
           active == getStatements(lex, lex[s], level)
           next == [lex[s] EXCEPT ![k] = @ + 1]
           amount == Cardinality(active) - 1
           lx == shiftLexicalOrder(lex, next, k, amount)
           g == PermutedGraph(active, pi)
           ln == PermutedLoops(active, pi)
           of == PermutedConstants(active, pi)
<1>1. lex \in LexicalConstants /\ AllPrecede(lin, off, lex)
  BY DEF Forward
<1>2. program \in Programs /\ lin \in Schedules /\ off \in Constants
  BY DEF IInv
<1>3. Dim \in Nat /\ Levels = 1 .. Dim /\ Places = 0 .. Dim
  BY DimAssumption DEF Levels, Dims, Places
<1>4. k \in Nat /\ level = k + 1 /\ k \in 0 .. Dim /\ k \in Places /\ k < Dim
  BY <1>3
<1>5. PermuteLoops(active, pi, k, lex[s][k], lx)
  BY DEF Permute
<1>6. pi \in [Levels -> Levels] /\ \A l, m \in Levels : pi[l] = pi[m] => l = m
  BY DEF PermutationsAt
<1>7. \A l \in Levels : l <= k => pi[l] = l
  <2>1. \A l \in Levels : l \notin script.levels \cap level .. level + n - 1 => pi[l] = l
    BY DEF PermutationsAt
  <2>2. \A l \in Levels : l <= k => l \notin level .. level + n - 1
    BY <1>3, <1>4
  <2> QED
    BY <2>1, <2>2
<1>8. active \in SUBSET Stmts /\ s \in active
  BY DEF getStatements
<1>9. amount \in Nat
  <2>1. IsFiniteSet(active)
    BY <1>2, <1>8, PerfectFacts, FS_Subset
  <2>2. Cardinality(active) \in Nat /\ Cardinality(active) # 0
    BY <1>8, <2>1, FS_CardinalityType, FS_EmptySet
  <2> QED
    BY <2>2
<1>10. \A i \in active : \A m \in 0 .. k : lex[i][m] = lex[s][m]
  BY <1>4 DEF getStatements
<1>11. \A i \in Stmts \ active : \E m \in 0 .. k : lex[i][m] # lex[s][m]
  BY <1>4 DEF getStatements
<1>12. \A i \in Stmts : \A m \in Places : lex[i][m] \in Int
  BY <1>1 DEF LexicalConstants
<1> DEFINE inside(i) == \A m \in 0 .. k - 1 : lex[i][m] = lex[s][m]
           moved(i) == inside(i) /\ lex[i][k] > lex[s][k]
           new(i) == IF moved(i) THEN lex[i][k] + amount ELSE lex[i][k]
<1>13. ASSUME NEW i \in Stmts
       PROVE  /\ lx[i] \in [Places -> Int]
              /\ lx[i][k] = new(i)
              /\ \A m \in Places : m # k => lx[i][m] = lex[i][m]
  <2>1. /\ next[k] = lex[s][k] + 1
        /\ \A m \in 0 .. k - 1 : next[m] = lex[s][m]
    <3>1. lex[s] \in [Places -> Int]
      BY <1>1 DEF LexicalConstants
    <3> QED
      BY <1>3, <1>4, <3>1
  <2>2. i \in getStatements(lex, next, k) <=> inside(i)
    BY <2>1 DEF getStatements
  <2> HIDE DEF next, active, inside
  <2>3. lex[i] \in [Places -> Int] /\ lex[i][k] \in Int /\ lex[s][k] \in Int
    BY <1>1, <1>4, <1>12 DEF LexicalConstants
  <2>4. lx[i] = IF inside(i) /\ (amount > 0 => lex[i][k] >= lex[s][k] + 1) /\ (amount < 0 => lex[i][k] <= lex[s][k] + 1)
                THEN [lex[i] EXCEPT ![k] = @ + amount] ELSE lex[i]
    BY <2>1, <2>2 DEF shiftLexicalOrder
  <2> HIDE DEF lx, amount, k
  <2>5. CASE lx[i] = [lex[i] EXCEPT ![k] = @ + amount] /\ (amount = 0 \/ moved(i))
    <3>1. lx[i] \in [Places -> Int] /\ lx[i][k] = lex[i][k] + amount /\ \A m \in Places : m # k => lx[i][m] = lex[i][m]
      BY <1>4, <1>9, <2>3, <2>5
    <3> QED
      BY <1>9, <2>3, <2>5, <3>1
  <2>6. CASE lx[i] = lex[i] /\ ~moved(i)
    BY <2>3, <2>6
  <2>7. \/ lx[i] = [lex[i] EXCEPT ![k] = @ + amount] /\ (amount = 0 \/ moved(i))
        \/ lx[i] = lex[i] /\ ~moved(i)
    BY <1>9, <2>3, <2>4
  <2> QED
    BY <2>5, <2>6, <2>7
<1>14. lx \in LexicalConstants
  <2>1. lx = [i \in Stmts |-> lx[i]]
    BY DEF shiftLexicalOrder
  <2> HIDE DEF lx
  <2> QED
    BY <1>13, <2>1 DEF LexicalConstants
<1> HIDE DEF active, next, amount, lx, g, ln, of, inside, k
<1>15. ASSUME NEW r \in LexicalConstants, NEW p \in Pairs, NEW I \in Iterations,
              IsOrdered(g, active, k, lex[s][k], lx, r),
              ~(Directed(p, I)[1] \in active /\ Directed(p, I)[3] \in active)
       PROVE  PairPrecedes(ln, of, r, p, I)
  <2> DEFINE q == Directed(p, I)
             x == PairDistance(lin, off, p, I)
             z == PairDistance(ln, of, p, I)
             i == q[1]
             j == q[3]
  <2>1. i \in Stmts /\ j \in Stmts /\ Precedes(x, lex[i], lex[j])
    BY <1>1, <1>2, DirectedFacts DEF AllPrecede, PairPrecedes
  <2>2. \A l \in Levels : l <= k \/ (i \notin active /\ j \notin active) => z[l] = x[l]
    BY <1>2, <1>6, <1>7, <1>8, PermutedDistance DEF ln, of
  <2>3. ~(i \in active /\ j \in active)
    BY <1>15
  <2> HIDE DEF q, x, z, i, j
  <2>4. ASSUME NEW a \in Stmts
        PROVE  /\ \A m \in Places : m < k \/ (m # k /\ a \notin active) => r[a][m] = lex[a][m]
               /\ r[a][k] = new(a)
    <3>1. CASE a \in active
      <4>1. \A m \in 0 .. k - 1 : r[a][m] = lx[a][m]
        BY <1>15, <3>1 DEF IsOrdered
      <4>2. \A m \in Places : m < k => m \in 0 .. k - 1 /\ m # k
        BY <1>3, <1>4
      <4>3. r[a][k] = lex[s][k] /\ lex[a][k] = lex[s][k]
        BY <1>4, <1>10, <1>15, <3>1 DEF IsOrdered
      <4>4. ~moved(a)
        BY <1>4, <1>12, <4>3
      <4> QED
        BY <1>13, <3>1, <4>1, <4>2, <4>3, <4>4
    <3>2. CASE a \notin active
      <4>1. r[a] = lx[a]
        BY <1>15, <3>2 DEF IsOrdered
      <4>2. \A m \in Places : m < k => m # k
        BY <1>3, <1>4
      <4> QED
        BY <1>13, <4>1, <4>2
    <3> QED
      BY <3>1, <3>2
  <2>5. ASSUME \A m \in 0 .. k : lex[i][m] = lex[j][m]
        PROVE  i \notin active /\ j \notin active
    <3>1. i \in active => j \in active
      <4>1. i \in active => \A m \in 0 .. k : lex[j][m] = lex[s][m]
        BY <1>10, <2>5
      <4> QED
        BY <1>11, <2>1, <4>1
    <3>2. j \in active => i \in active
      <4>1. j \in active => \A m \in 0 .. k : lex[i][m] = lex[s][m]
        BY <1>10, <2>5
      <4> QED
        BY <1>11, <2>1, <4>1
    <3> QED
      BY <2>3, <3>1, <3>2
  <2>6. ASSUME NEW m \in Places, \A o \in 0 .. m - 1 : lex[i][o] = lex[j][o]
        PROVE  (lex[i][m] < lex[j][m] => r[i][m] < r[j][m]) /\ (lex[i][m] = lex[j][m] => r[i][m] = r[j][m])
    <3>1. CASE m < k
      BY <2>1, <2>4, <3>1
    <3>2. CASE m = k
      <4>1. inside(i) <=> inside(j)
        BY <2>6, <3>2 DEF inside
      <4>2. lex[i][k] \in Int /\ lex[j][k] \in Int /\ lex[s][k] \in Int
        BY <1>4, <1>12, <2>1
      <4>3. /\ lex[i][k] < lex[j][k] => new(i) < new(j)
            /\ lex[i][k] = lex[j][k] => new(i) = new(j)
        BY <1>9, <4>1, <4>2
      <4> QED
        BY <2>1, <2>4, <3>2, <4>3
    <3>3. CASE m > k
      <4>1. \A o \in 0 .. k : o \in 0 .. m - 1
        BY <1>3, <1>4, <3>3
      <4>2. i \notin active /\ j \notin active
        BY <2>5, <2>6, <4>1
      <4>3. m # k
        BY <1>3, <1>4, <3>3
      <4> QED
        BY <2>1, <2>4, <4>2, <4>3
    <3> QED
      BY <1>3, <1>4, <3>1, <3>2, <3>3
  <2>7. ASSUME NEW l \in Levels, \A o \in 0 .. l - 1 : lex[i][o] = lex[j][o]
        PROVE  z[l] = x[l]
    <3>1. CASE l <= k
      BY <2>2, <3>1
    <3>2. CASE ~(l <= k)
      <4>1. \A o \in 0 .. k : o \in 0 .. l - 1
        BY <1>3, <1>4, <3>2
      <4> QED
        BY <2>2, <2>5, <2>7, <4>1
    <3> QED
      BY <3>1, <3>2
  <2>8. Precedes(z, r[i], r[j])
    BY <2>1, <2>6, <2>7, PrecedesKept
  <2> QED
    BY <2>8 DEF PairPrecedes, q, x, z, i, j
<1>16. lex[s][k] \in Int
  BY <1>4, <1>12
<1> QED
  BY <1>4, <1>5, <1>6, <1>8, <1>14, <1>15, <1>16, PermuteForward DEF g, ln, of

\* A loop that is a positive multiple of itself and multiples of outer loops decides in
\* the direction in which it did.
LEMMA SkewedPrecedes ==
    ASSUME NEW x \in [Levels -> Int], NEW y \in [Levels -> Int], NEW level \in Levels,
           NEW a \in [Levels -> Int], a[level] > 0, \A l \in Levels : l > level => a[l] = 0,
           y[level] = SumUpTo(Weighted(a, x), Dim), \A l \in Levels : l # level => y[l] = x[l],
           NEW c, NEW d, Precedes(x, c, d)
    PROVE  Precedes(y, c, d)
<1>1. Levels = 1 .. Dim /\ Places = 0 .. Dim /\ Dim \in Nat /\ Dims = Levels
  BY DimAssumption DEF Levels, Dims, Places
<1> DEFINE f == Weighted(a, x)
<1>2. \A l \in Levels : f[l] = a[l] * x[l] /\ a[l] \in Int /\ x[l] \in Int
  BY <1>1 DEF Weighted
<1> HIDE DEF f
<1>3. ASSUME \A l \in Levels : l < level => x[l] = 0
      PROVE  y[level] = a[level] * x[level]
  <2>1. ASSUME NEW l \in Levels, l # level PROVE f[l] = 0
    <3>1. a[l] = 0 \/ x[l] = 0
      BY <1>1, <1>3, <2>1
    <3> QED
      BY <1>2, <3>1
  <2>2. f[level] \in Int
    <3>1. ASSUME NEW u \in Int, NEW v \in Int PROVE u * v \in Int
      OBVIOUS
    <3> QED
      BY <1>2, <3>1
  <2>3. SumUpTo(f, Dim) = f[level]
    BY <1>1, <2>1, <2>2, SumOfOne
  <2> QED
    BY <1>2, <2>3 DEF f
<1>4. ASSUME NEW u \in Int, u > 0, NEW v \in Int
      PROVE  (v > 0 => u * v > 0) /\ (v = 0 => u * v = 0)
  <2>1. v > 0 => u * v > 0
    BY <1>4
  <2>2. v = 0 => u * v = 0
    BY <1>4
  <2> QED
    BY <2>1, <2>2
<1>5. ASSUME NEW n \in Nat, \A m \in 1 .. n : m \in Levels /\ x[m] = 0
      PROVE  \A m \in 1 .. n : y[m] = 0
  <2> SUFFICES ASSUME NEW m \in 1 .. n PROVE y[m] = 0
    OBVIOUS
  <2>1. CASE m = level
    <3>1. \A l \in Levels : l < level => l \in 1 .. n
      BY <1>1, <2>1
    <3>2. y[level] = a[level] * x[level]
      BY <1>3, <1>5, <3>1
    <3> QED
      BY <1>2, <1>4, <1>5, <2>1, <3>2
  <2>2. CASE m # level
    BY <1>5, <2>2
  <2> QED
    BY <2>1, <2>2
<1>6. ASSUME NEW k \in Places, PlaceDecides(x, c, d, k)
      PROVE  PlaceDecides(y, c, d, k)
  <2>1. k \in Nat /\ \A m \in 1 .. k : m \in Levels /\ x[m] = 0
    BY <1>1, <1>6 DEF PlaceDecides
  <2>2. \A m \in 1 .. k : y[m] = 0
    BY <1>5, <2>1
  <2> QED
    BY <1>6, <2>2 DEF PlaceDecides
<1>7. ASSUME NEW l \in Levels, LoopDecides(x, c, d, l)
      PROVE  LoopDecides(y, c, d, l)
  <2>1. l - 1 \in Nat /\ \A m \in 1 .. l - 1 : m \in Levels /\ x[m] = 0
    BY <1>1, <1>7 DEF LoopDecides
  <2>2. \A m \in 1 .. l - 1 : y[m] = 0
    BY <1>5, <2>1
  <2>3. y[l] > 0
    <3>1. x[l] > 0
      BY <1>7 DEF LoopDecides
    <3>2. CASE l = level
      <4>1. \A m \in Levels : m < level => m \in 1 .. l - 1
        BY <1>1, <3>2
      <4>2. y[level] = a[level] * x[level]
        BY <1>3, <2>1, <4>1
      <4> QED
        BY <1>2, <1>4, <3>1, <3>2, <4>2
    <3>3. CASE l # level
      BY <3>1, <3>3
    <3> QED
      BY <3>2, <3>3
  <2> QED
    BY <1>7, <2>2, <2>3 DEF LoopDecides
<1> QED
  BY <1>6, <1>7 DEF Precedes

\* The distances in skewed loops.
LEMMA SkewedDistance ==
    ASSUME ProgramsFit, program \in Programs, lin \in Schedules, off \in Constants,
           NEW level \in Levels, NEW a \in [Levels -> Int], NEW p \in Pairs, NEW I \in Iterations
    PROVE  LET x == PairDistance(lin, off, p, I)
               y == PairDistance(SkewedLoops(Stmts, level, a), SkewedConstants(Stmts, level, a), p, I)
           IN  y[level] = SumUpTo(Weighted(a, x), Dim) /\ \A l \in Levels : l # level => y[l] = x[l]
<1> DEFINE q == Directed(p, I)
           ln == SkewedLoops(Stmts, level, a)
           of == SkewedConstants(Stmts, level, a)
           x == PairDistance(lin, off, p, I)
           y == PairDistance(ln, of, p, I)
           u == Times(lin, off, q[1], q[2])
           v == Times(lin, off, q[3], q[4])
<1>1. /\ q[1] \in Stmts /\ q[3] \in Stmts
      /\ q[2] \in [Levels -> Int] /\ q[4] \in [Levels -> Int]
  BY DirectedFacts
<1>2. \A l \in Levels : /\ x[l] = TimeOf(lin, off, q[3], q[4], l) - TimeOf(lin, off, q[1], q[2], l)
                        /\ y[l] = TimeOf(ln, of, q[3], q[4], l) - TimeOf(ln, of, q[1], q[2], l)
  BY DistanceAt DEF PairDistance
<1>3. x \in [Levels -> Int]
  BY PairDistanceType
<1>4. \A l \in Levels : l # level => \A s \in Stmts : ln[s][l] = lin[s][l] /\ of[s][l] = off[s][l]
  <2>1. \A s \in Stmts : lin[s] \in [Levels -> [Levels -> Int]] /\ off[s] \in [Levels -> Int]
    BY DEF Schedules, Constants
  <2> QED
    BY <2>1 DEF SkewedLoops, SkewedConstants
<1> HIDE DEF q, ln, of, x, y
<1>5. ASSUME NEW l \in Levels, l # level PROVE y[l] = x[l]
  <2>1. \A s \in Stmts : \A K : TimeOf(ln, of, s, K, l) = TimeOf(lin, off, s, K, l)
    BY <1>4, <1>5, TimeSame
  <2> QED
    BY <1>1, <1>2, <2>1
<1>6. u \in [Levels -> Int] /\ v \in [Levels -> Int] /\ \A l \in Levels : x[l] = v[l] - u[l]
  BY <1>1, <1>2, TimeType DEF Times
<1>7. y[level] = SumUpTo(Weighted(a, v), Dim) - SumUpTo(Weighted(a, u), Dim)
  <2>1. /\ TimeOf(ln, of, q[3], q[4], level) = SumUpTo(Weighted(a, v), Dim)
        /\ TimeOf(ln, of, q[1], q[2], level) = SumUpTo(Weighted(a, u), Dim)
    BY <1>1, SkewedTime DEF ln, of
  <2> QED
    BY <1>2, <2>1
<1> HIDE DEF u, v
<1>8. y[level] = SumUpTo(Weighted(a, x), Dim)
  BY <1>3, <1>6, <1>7, WeightedDistance
<1> QED
  BY <1>5, <1>8 DEF x, y, ln, of

LEMMA SkewForward ==
    ASSUME ProgramsFit, IInv, Forward, IsWholeScript(program), ~raised, steps # 0, steps' # 0,
           program' = program, NEW level \in Levels, NEW a \in [Levels -> Int],
           a[level] > 0, \A l \in Levels : l > level => a[l] = 0, SkewBy(Stmts, level, a)
    PROVE  Forward'
<1> DEFINE g == SkewedGraph(Stmts, level, a)
           ln == SkewedLoops(Stmts, level, a)
           of == SkewedConstants(Stmts, level, a)
<1>1. program \in Programs /\ lin \in Schedules /\ off \in Constants /\ dep \subseteq Edges
  BY DEF IInv
<1>2. lex \in LexicalConstants /\ NoneQuasi(dep) /\ AllPrecede(lin, off, lex)
  BY DEF Forward
<1>3. CASE Raise
  BY <1>3 DEF Raise, Forward
<1>4. CASE lex' = lex /\ dep' = g /\ lin' = ln /\ off' = of
  <2>1. ln \in Schedules /\ of \in Constants
    BY <1>1, SkewKeeps
  <2>2. \A e \in dep : e.from \in Stmts /\ e.to \in Stmts /\ e.dv \in Vectors
    BY <1>1, EdgeFacts
  <2>3. g = {[e EXCEPT !.dv = SkewedVector(e.dv, level, a)] : e \in dep}
    BY <2>2 DEF SkewedGraph, Within
  <2>4. \A d \in g : \E e \in dep : d.dv = SkewedVector(e.dv, level, a)
    BY <1>1, <2>3 DEF Edges
  <2> HIDE DEF g, ln, of
  <2>5. NoneQuasi(g)
    <3> SUFFICES ASSUME NEW d \in g PROVE d.dv.quasi = FALSE
      BY DEF NoneQuasi
    <3>1. PICK e \in dep : d.dv = SkewedVector(e.dv, level, a)
      BY <2>4
    <3>2. e.dv.quasi = FALSE
      BY <1>2 DEF NoneQuasi
    <3> QED
      BY <2>2, <3>1, <3>2 DEF SkewedVector, Vectors
  <2>6. ASSUME NEW p \in Pairs, NEW I \in Iterations
        PROVE  PairPrecedes(ln, of, lex, p, I)
    <3> DEFINE x == PairDistance(lin, off, p, I)
               y == PairDistance(ln, of, p, I)
               q == Directed(p, I)
    <3>1. y[level] = SumUpTo(Weighted(a, x), Dim) /\ \A l \in Levels : l # level => y[l] = x[l]
      BY <1>1, SkewedDistance DEF ln, of
    <3>2. x \in [Levels -> Int] /\ y \in [Levels -> Int]
      BY <1>1, <2>1, PairDistanceType
    <3>3. Precedes(x, lex[q[1]], lex[q[3]])
      BY <1>2 DEF AllPrecede, PairPrecedes
    <3> HIDE DEF x, y, q
    <3>4. Precedes(y, lex[q[1]], lex[q[3]])
      BY <3>1, <3>2, <3>3, SkewedPrecedes
    <3> QED
      BY <3>4 DEF PairPrecedes, y, q
  <2>7. AllPrecede(ln, of, lex)
    BY <2>6 DEF AllPrecede
  <2> QED
    BY <1>2, <1>4, <2>5, <2>7, ForwardStep
<1> QED
  BY <1>3, <1>4 DEF SkewBy, SkewedGraph, SkewedLoops, SkewedConstants

\* Shifting all statements changes no distance.
LEMMA ShiftForward ==
    ASSUME ProgramsFit, IInv, Forward, ~raised, steps # 0, steps' # 0,
           program' = program, NEW level \in Levels, NEW amount \in Int,
           lin' = lin, lex' = lex, off' = ShiftedConstants(Stmts, level, amount),
           dep' = ShiftedGraph(Stmts, level, amount)
    PROVE  Forward'
<1> DEFINE of == ShiftedConstants(Stmts, level, amount)
           moved(l) == IF l = level THEN amount ELSE 0
<1>1. program \in Programs /\ lin \in Schedules /\ off \in Constants /\ dep \subseteq Edges
  BY DEF IInv
<1>2. lex \in LexicalConstants /\ NoneQuasi(dep) /\ AllPrecede(lin, off, lex)
  BY DEF Forward
<1>3. NoneQuasi(dep')
  <2>1. \A e \in dep : Within(e, Stmts)
    BY <1>1, EdgeFacts DEF Within
  <2>2. dep' = {[e EXCEPT !.dv = e.dv] : e \in dep}
    BY <2>1 DEF ShiftedGraph
  <2>3. \A e \in dep : [e EXCEPT !.dv = e.dv].dv = e.dv
    BY <1>1 DEF Edges
  <2> QED
    BY <1>2, <2>2, <2>3 DEF NoneQuasi
<1>4. of \in Constants
  BY <1>1, ShiftKeeps
<1>5. ASSUME NEW s \in Stmts, NEW I \in [Levels -> Int], NEW l \in Levels
      PROVE  TimeOf(lin, of, s, I, l) = TimeOf(lin, off, s, I, l) + moved(l)
  <2> DEFINE f == Row(lin[s], I, l)
  <2>1. \A k \in Levels : f[k] \in Int
    <3>1. \A k \in Levels : lin[s][l][k] \in Int /\ I[k] \in Int
      BY <1>1 DEF Schedules
    <3> QED
      BY <3>1 DEF Row
  <2> HIDE DEF f
  <2>2. SumUpTo(f, Dim) \in Int
    BY <2>1, DimAssumption, SumIsInt DEF Levels, Dims
  <2>3. off[s] \in [Levels -> Int] /\ off[s][l] \in Int
    BY <1>1 DEF Constants
  <2>4. of[s][l] = off[s][l] + moved(l)
    BY <2>3 DEF ShiftedConstants
  <2>5. moved(l) \in Int
    OBVIOUS
  <2> HIDE DEF of, moved
  <2> QED
    BY <2>2, <2>3, <2>4, <2>5 DEF TimeOf, f
<1>6. ASSUME NEW p \in Pairs, NEW I \in Iterations
      PROVE  PairPrecedes(lin, of, lex, p, I)
  <2> DEFINE q == Directed(p, I)
             x == PairDistance(lin, off, p, I)
             y == PairDistance(lin, of, p, I)
  <2>1. /\ q[1] \in Stmts /\ q[3] \in Stmts
        /\ q[2] \in [Levels -> Int] /\ q[4] \in [Levels -> Int]
    BY <1>1, DirectedFacts
  <2>2. \A l \in Levels : /\ x[l] = TimeOf(lin, off, q[3], q[4], l) - TimeOf(lin, off, q[1], q[2], l)
                          /\ y[l] = TimeOf(lin, of, q[3], q[4], l) - TimeOf(lin, of, q[1], q[2], l)
    BY DistanceAt DEF PairDistance
  <2>3. x \in [Levels -> Int] /\ y \in [Levels -> Int]
    BY <1>1, <1>4, PairDistanceType
  <2>4. PairPrecedes(lin, off, lex, p, I)
    BY <1>2 DEF AllPrecede
  <2> HIDE DEF of, q, x, y
  <2>5. ASSUME NEW l \in Levels PROVE y[l] = x[l]
    <3>1. /\ TimeOf(lin, off, q[1], q[2], l) \in Int
          /\ TimeOf(lin, off, q[3], q[4], l) \in Int
      BY <1>1, <2>1, TimeType
    <3>2. /\ TimeOf(lin, of, q[1], q[2], l) = TimeOf(lin, off, q[1], q[2], l) + moved(l)
          /\ TimeOf(lin, of, q[3], q[4], l) = TimeOf(lin, off, q[3], q[4], l) + moved(l)
      BY <1>5, <2>1
    <3>3. moved(l) \in Int
      OBVIOUS
    <3> HIDE DEF moved
    <3> QED
      BY <2>2, <3>1, <3>2, <3>3
  <2>6. y = x
    BY <2>3, <2>5
  <2> QED
    BY <2>4, <2>6 DEF PairPrecedes, x, y
<1>7. AllPrecede(lin, of, lex)
  BY <1>6 DEF AllPrecede
<1> QED
  BY <1>2, <1>3, <1>7, ForwardStep

LEMMA ForwardUnchanged ==
    ASSUME Forward, UNCHANGED vars
    PROVE  Forward'
<1>1. UNCHANGED <<program, lin, off, lex, dep, steps, raised>>
  BY DEF vars, xform
<1>2. CASE raised
  BY <1>1, <1>2 DEF Forward
<1>3. CASE ~raised /\ steps # 0
  <2>1. lex' \in LexicalConstants /\ NoneQuasi(dep') /\ AllPrecede(lin', off', lex')
    BY <1>1, <1>3 DEF Forward
  <2> QED
    BY <1>1, <1>3, <2>1, ForwardStep
<1>4. CASE ~raised /\ steps = 0
  <2>1. lex \in LexicalConstants /\ NoneQuasi(dep) /\ AllRunOn(lin, off)
    BY <1>4 DEF Forward
  <2>2. LexicalConstants' = LexicalConstants /\ Pairs' = Pairs
    BY <1>1 DEF LexicalConstants, Stmts, Pairs
  <2>3. \A p, I : Directed(p, I)' = Directed(p, I)
    BY <1>1 DEF Directed, FirstRunsFirst
  <2>4. AllRunOn(lin, off)'
    <3> SUFFICES ASSUME NEW p \in Pairs, NEW I \in Iterations PROVE RunsOn(lin, off, p, I)'
      BY <2>2 DEF AllRunOn
    <3>1. RunsOn(lin, off, p, I)
      BY <2>1 DEF AllRunOn
    <3> QED
      BY <1>1, <2>3, <3>1 DEF RunsOn, PairDistance
  <2> QED
    BY <1>1, <1>4, <2>1, <2>2, <2>4 DEF Forward, NoneQuasi
<1> QED
  BY <1>2, <1>3, <1>4

-----------------------------------------------------------------------------
(***************************************************************************)
(* distribute.                                                             *)
(***************************************************************************)
\* Statements that reach each other are a component; every statement is in one.
LEMMA ComponentsPartition ==
    ASSUME IsFiniteSet(Stmts), NEW es
    PROVE  LET cs == {c \cap Stmts : c \in Components(Stmts, es)} \ {{}}
           IN  /\ IsFiniteSet(cs)
               /\ \A c \in cs : c \in SUBSET Stmts
               /\ \A i \in Stmts : \E c \in cs : i \in c
               /\ \A c, d \in cs : \A i \in Stmts : i \in c /\ i \in d => c = d
<1> DEFINE inS == {e \in es : e[1] \in Stmts /\ e[2] \in Stmts}
           R(i) == Reached(inS, {i})
           Comp(i) == {j \in Stmts : j \in R(i) /\ i \in R(j)}
           cs == {c \cap Stmts : c \in Components(Stmts, es)} \ {{}}
<1>1. Components(Stmts, es) = {Comp(i) : i \in Stmts}
  BY DEF Components
<1> DEFINE Closed(C) == \A e \in inS : e[1] \in C => e[2] \in C
<1>2. \A i, j : j \in R(i) <=> j \in Stmts /\ \A C \in SUBSET Stmts : i \in C /\ Closed(C) => j \in C
  BY DEF Reached
<1> HIDE DEF inS, R, Closed
<1>3. \A i \in Stmts : i \in R(i)
  BY <1>2
<1>4. \A i, j, k \in Stmts : j \in R(i) /\ k \in R(j) => k \in R(i)
  BY <1>2
<1>5. \A i, j \in Stmts : j \in Comp(i) => Comp(i) = Comp(j)
  BY <1>4
<1>6. \A i \in Stmts : Comp(i) \in SUBSET Stmts /\ i \in Comp(i)
  BY <1>3
<1> HIDE DEF Comp
<1>7. cs = {Comp(i) : i \in Stmts}
  <2>1. \A i \in Stmts : Comp(i) \cap Stmts = Comp(i) /\ Comp(i) # {}
    BY <1>6
  <2> QED
    BY <1>1, <2>1
<1> HIDE DEF cs
<1>8. IsFiniteSet(cs)
  <2>1. cs \in SUBSET SUBSET Stmts
    BY <1>6, <1>7
  <2>2. IsFiniteSet(SUBSET Stmts)
    BY FS_SUBSET
  <2> QED
    BY <2>1, <2>2, FS_Subset
<1>9. \A c \in cs : c \in SUBSET Stmts
  BY <1>6, <1>7
<1>10. \A i \in Stmts : \E c \in cs : i \in c
  BY <1>6, <1>7
<1>11. ASSUME NEW c \in cs, NEW d \in cs, NEW i \in Stmts, i \in c, i \in d
       PROVE  c = d
  <2>1. PICK j \in Stmts, k \in Stmts : c = Comp(j) /\ d = Comp(k)
    BY <1>7
  <2> QED
    BY <1>5, <1>11, <2>1
<1> QED
  BY <1>8, <1>9, <1>10, <1>11 DEF cs

\* No statement that is not distributed joins a group.
LEMMA NoneJoins ==
    ASSUME NEW es, NEW groups
    PROVE  Joined(Sorted({}), es, groups) = groups
<1> DEFINE q == Sorted({})
           Join(gs, n) ==
               LET needs == {k \in DOMAIN gs : \E i \in gs[k] : <<q[n], i>> \in es}
                   after == {k \in DOMAIN gs : \E i \in gs[k] : <<i, q[n]>> \in es}
                   place == IF needs # {} THEN First(needs)
                            ELSE IF after # {} THEN CHOOSE m \in after : \A k \in after : k <= m ELSE 1
               IN  [gs EXCEPT ![place] = @ \cup {q[n]}]
           Ups(h) == h = [n \in 0 .. Len(q) |-> IF n = 0 THEN groups ELSE Join(h[n - 1], n)]
           upto == CHOOSE h : Ups(h)
<1>1. Len(q) = 0
  <2>1. {} \in SUBSET Nat /\ IsFiniteSet({}) /\ Cardinality({}) = 0
    BY FS_EmptySet
  <2> QED
    BY <2>1, SortedFacts
<1>2. Joined(Sorted({}), es, groups) = upto[Len(q)]
  BY DEF Joined
<1> HIDE DEF q, Join
<1>3. Ups([n \in 0 .. 0 |-> groups])
  <2>1. \A n \in 0 .. 0 : n = 0
    OBVIOUS
  <2> QED
    BY <1>1, <2>1
<1>4. Ups(upto)
  <2> HIDE DEF Ups
  <2> QED
    BY <1>3
<1> HIDE DEF upto
<1>5. upto[0] = groups
  BY <1>1, <1>4
<1> QED
  BY <1>1, <1>2, <1>5

\* One more group becomes a loop.
DistributedWith(done, group, ref, level, n) ==
    LET order == ref[level - 1] + n - 1
        placed == PlacedAt(done.lex, group, level - 1, order)
        inside == getStatements(placed, [ref EXCEPT ![level - 1] = order], level)
    IN  [lex |-> [i \in Stmts |-> IF i \in inside THEN [placed[i] EXCEPT ![level] = @ - done.shifted]
                                  ELSE placed[i]],
         shifted |-> done.shifted + Cardinality(group)]

\* h is the function of the groups so far by which they are distributed.
Distributes(h, groups, ref, level, lx, m) ==
    h = [n \in 0 .. m |-> IF n = 0 THEN [lex |-> lx, shifted |-> 0]
                          ELSE DistributedWith(h[n - 1], groups[n], ref, level, n)]

LEMMA DistributesExists ==
    ASSUME NEW groups, NEW ref, NEW level, NEW lx, NEW m \in Nat
    PROVE  \E h : Distributes(h, groups, ref, level, lx, m)
<1> DEFINE first == [lex |-> lx, shifted |-> 0]
           With(u, n) == DistributedWith(u, groups[n], ref, level, n)
           Ups(h, n) == h = [i \in 0 .. n |-> IF i = 0 THEN first ELSE With(h[i - 1], i)]
           S == {n \in Nat : \E h : Ups(h, n)}
<1> HIDE DEF With, first
<1>1. 0 \in S
  <2>1. Ups([i \in 0 .. 0 |-> first], 0)
    OBVIOUS
  <2> HIDE DEF Ups
  <2> QED
    BY <2>1
<1>2. ASSUME NEW n \in S PROVE n + 1 \in S
  <2>1. n \in Nat /\ \E h : Ups(h, n)
    OBVIOUS
  <2>2. PICK f : Ups(f, n)
    <3> HIDE DEF Ups
    <3> QED
      BY <2>1
  <2> DEFINE h == [i \in 0 .. n + 1 |-> IF i = n + 1 THEN With(f[n], n + 1) ELSE f[i]]
             At(i) == h[i] = IF i = 0 THEN first ELSE With(h[i - 1], i)
  <2>3. \A i \in 0 .. n : f[i] = IF i = 0 THEN first ELSE With(f[i - 1], i)
    BY <2>2
  <2>4. ASSUME NEW i \in 0 .. n + 1 PROVE At(i)
    <3>1. CASE i = n + 1
      <4>1. i # 0 /\ i - 1 = n /\ n \in 0 .. n + 1 /\ n # n + 1
        BY <2>1, <3>1
      <4>2. h[i] = With(f[n], i) /\ h[i - 1] = f[n]
        BY <3>1, <4>1
      <4> HIDE DEF h
      <4> QED
        BY <4>1, <4>2
    <3>2. CASE i # n + 1
      <4>1. i \in 0 .. n /\ h[i] = f[i]
        BY <2>1, <3>2
      <4>2. i # 0 => i - 1 \in 0 .. n + 1 /\ i - 1 # n + 1 /\ h[i - 1] = f[i - 1]
        BY <2>1, <3>2
      <4> HIDE DEF h
      <4>3. CASE i = 0
        BY <2>3, <4>1, <4>3
      <4>4. CASE i # 0
        BY <2>3, <4>1, <4>2, <4>4
      <4> QED
        BY <4>3, <4>4
    <3> QED
      BY <3>1, <3>2
  <2>5. h = [i \in 0 .. n + 1 |-> h[i]]
    OBVIOUS
  <2> HIDE DEF h
  <2>6. Ups(h, n + 1)
    BY <2>4, <2>5
  <2> HIDE DEF Ups
  <2> QED
    BY <2>1, <2>6
<1> HIDE DEF S
<1>3. S = Nat
  <2>1. S \in SUBSET Nat
    BY DEF S
  <2> QED
    BY <1>1, <1>2, <2>1, EveryNumber
<1>4. PICK h : Ups(h, m)
  <2> HIDE DEF Ups
  <2> QED
    BY <1>3 DEF S
<1> QED
  BY <1>4 DEF Distributes, With, first

\* The group is set apart at the place before the loop; behind the loop its constants
\* begin again.
SetsApart(next, done, group, ref, level, n) ==
    /\ next.lex \in LexicalConstants /\ next.shifted \in Int
    /\ \A i \in Stmts \ group : next.lex[i] = done.lex[i]
    /\ \A i \in group :
           /\ next.lex[i][level - 1] = ref[level - 1] + n - 1
           /\ next.lex[i][level] = done.lex[i][level] - done.shifted
           /\ \A m \in Places : m # level - 1 /\ m # level => next.lex[i][m] = done.lex[i][m]

LEMMA OneDistributed ==
    ASSUME NEW level \in Levels, NEW ref \in [Places -> Int], NEW done,
           done.lex \in LexicalConstants, done.shifted \in Int,
           NEW group \in SUBSET Stmts, IsFiniteSet(group), NEW n \in Nat,
           \A i \in Stmts : \A m \in 0 .. level - 2 : done.lex[i][m] = ref[m],
           \A i \in Stmts \ group : done.lex[i][level - 1] # ref[level - 1] + n - 1
    PROVE  SetsApart(DistributedWith(done, group, ref, level, n), done, group, ref, level, n)
<1> DEFINE k == level - 1
           order == ref[k] + n - 1
           lx == done.lex
           placed == PlacedAt(lx, group, k, order)
           apart == [ref EXCEPT ![k] = order]
           inside == getStatements(placed, apart, level)
           set == [i \in Stmts |-> IF i \in inside THEN [placed[i] EXCEPT ![level] = @ - done.shifted]
                                   ELSE placed[i]]
           next == DistributedWith(done, group, ref, level, n)
<1>1. /\ level \in Places /\ k \in Places /\ k # level /\ k \in 0 .. level - 1
      /\ \A m \in 0 .. level - 1 : m = k \/ m \in 0 .. level - 2
      /\ \A m \in 0 .. level - 2 : m \in Places /\ m # k
  BY DimAssumption DEF Levels, Dims, Places
<1>2. order \in Int /\ \A i \in Stmts : lx[i] \in [Places -> Int]
  BY <1>1 DEF LexicalConstants
<1>3. next.lex = set /\ next.shifted = done.shifted + Cardinality(group)
  BY DEF DistributedWith
<1>4. next.shifted \in Int
  BY <1>3, FS_CardinalityType
<1>5. apart[k] = order /\ \A m \in 0 .. level - 2 : apart[m] = ref[m]
  BY <1>1
<1>6. ASSUME NEW i \in group
      PROVE  /\ placed[i] \in [Places -> Int] /\ placed[i][k] = order
             /\ \A m \in Places : m # k => placed[i][m] = lx[i][m]
  <2>1. placed[i] = [lx[i] EXCEPT ![k] = order]
    BY DEF PlacedAt
  <2> QED
    BY <1>1, <1>2, <2>1
<1>7. \A i \in Stmts \ group : placed[i] = lx[i]
  BY DEF PlacedAt
<1>8. \A i \in Stmts : i \in inside <=> \A m \in 0 .. level - 1 : placed[i][m] = apart[m]
  BY DEF getStatements
<1> HIDE DEF placed, apart, inside, k, order, next
<1>9. ASSUME NEW i \in Stmts \ group
      PROVE  set[i] = lx[i]
  <2>1. placed[i][k] # apart[k]
    BY <1>5, <1>7 DEF k, order
  <2>2. i \notin inside
    BY <1>1, <1>8, <2>1
  <2> QED
    BY <1>7, <2>2
<1>10. ASSUME NEW i \in group
       PROVE  /\ set[i] \in [Places -> Int] /\ set[i][k] = order
              /\ set[i][level] = lx[i][level] - done.shifted
              /\ \A m \in Places : m # k /\ m # level => set[i][m] = lx[i][m]
  <2>1. \A m \in 0 .. level - 1 : placed[i][m] = apart[m]
    BY <1>1, <1>5, <1>6
  <2>2. set[i] = [placed[i] EXCEPT ![level] = @ - done.shifted]
    BY <1>8, <2>1
  <2> HIDE DEF set
  <2> QED
    BY <1>1, <1>2, <1>6, <2>2
<1>11. set \in LexicalConstants
  <2>1. \A i \in Stmts : set[i] \in [Places -> Int]
    BY <1>2, <1>9, <1>10
  <2>2. set = [i \in Stmts |-> set[i]]
    OBVIOUS
  <2> HIDE DEF set
  <2> QED
    BY <2>1, <2>2 DEF LexicalConstants
<1> HIDE DEF set
<1> QED
  BY <1>3, <1>4, <1>9, <1>10, <1>11 DEF SetsApart, next, k, order

\* Each group gets the next constant at the place before the loop, and one shift behind
\* it.
DistributesTo(r, ref, level, lx, M, at) ==
    /\ r \in LexicalConstants
    /\ \E c \in [1 .. M -> Int] : \A i \in Stmts :
           /\ r[i][level - 1] = ref[level - 1] + at[i] - 1
           /\ r[i][level] = lx[i][level] - c[at[i]]
           /\ \A m \in Places : m # level - 1 /\ m # level => r[i][m] = lx[i][m]

LEMMA DistributedSets ==
    ASSUME NEW level \in Levels, NEW ref \in [Places -> Int], NEW lx \in LexicalConstants,
           NEW M \in Nat, NEW q, Len(q) = M, NEW at \in [Stmts -> 1 .. M],
           \A m \in 1 .. M : q[m] \in SUBSET Stmts /\ IsFiniteSet(q[m]),
           \A m \in 1 .. M : \A i \in Stmts : i \in q[m] <=> at[i] = m,
           \A i \in Stmts : \A m \in 0 .. level - 2 : lx[i][m] = ref[m],
           \A i \in Stmts : lx[i][level - 1] = ref[level - 1] + M - 1
    PROVE  DistributesTo(Distributed(q, ref, level, lx), ref, level, lx, M, at)
<1> DEFINE k == level - 1
           h == CHOOSE f : Distributes(f, q, ref, level, lx, M)
           Set(n) == /\ h[n].lex \in LexicalConstants /\ h[n].shifted \in Int
                     /\ \A i \in Stmts : n < at[i] => h[n].lex[i] = lx[i]
                     /\ \A i \in Stmts : at[i] <= n =>
                            /\ h[n].lex[i][k] = ref[k] + at[i] - 1
                            /\ h[n].lex[i][level] = lx[i][level] - h[at[i] - 1].shifted
                            /\ \A m \in Places : m # k /\ m # level => h[n].lex[i][m] = lx[i][m]
           T == {n \in Nat : n <= M => \A m \in 0 .. n : Set(m)}
<1>1. /\ level \in Places /\ k \in Places /\ k # level
      /\ \A m \in 0 .. level - 2 : m \in Places /\ m # k /\ m # level
  BY DimAssumption DEF Levels, Dims, Places
<1>2. Distributes(h, q, ref, level, lx, M)
  BY DistributesExists
<1>3. Distributed(q, ref, level, lx) = h[M].lex
  BY DEF Distributed, DistributedWith, Distributes
<1> HIDE DEF h
<1>4. \A n \in 0 .. M : h[n] = IF n = 0 THEN [lex |-> lx, shifted |-> 0]
                               ELSE DistributedWith(h[n - 1], q[n], ref, level, n)
  BY <1>2 DEF Distributes
<1>5. 0 \in T
  <2>1. h[0] = [lex |-> lx, shifted |-> 0]
    BY <1>4
  <2>2. \A i \in Stmts : at[i] \in 1 .. M
    OBVIOUS
  <2>3. Set(0)
    BY <2>1, <2>2
  <2> HIDE DEF Set
  <2>4. \A m \in 0 .. 0 : m = 0
    OBVIOUS
  <2> QED
    BY <2>3, <2>4
<1>6. ASSUME NEW n \in T PROVE n + 1 \in T
  <2> SUFFICES ASSUME n + 1 <= M PROVE \A m \in 0 .. n + 1 : Set(m)
    OBVIOUS
  <2>1. n \in Nat /\ n + 1 \in 1 .. M /\ n + 1 \in 0 .. M /\ n + 1 # 0 /\ (n + 1) - 1 = n /\ n \in 0 .. n
    OBVIOUS
  <2>2. \A m \in 0 .. n : Set(m)
    BY <2>1
  <2>3. Set(n)
    BY <2>1, <2>2
  <2> DEFINE done == h[n]
             next == h[n + 1]
             group == q[n + 1]
  <2>4. next = DistributedWith(done, group, ref, level, n + 1)
    BY <1>4, <2>1
  <2>5. \A i \in Stmts : at[i] \in 1 .. M /\ (i \in group <=> at[i] = n + 1)
    BY <2>1
  <2>6. group \in SUBSET Stmts /\ IsFiniteSet(group) /\ done.lex \in LexicalConstants /\ done.shifted \in Int
    BY <2>1, <2>3
  <2> HIDE DEF done, next, group
  <2>7. ASSUME NEW i \in Stmts
        PROVE  /\ \A m \in 0 .. level - 2 : done.lex[i][m] = ref[m]
               /\ i \notin group => done.lex[i][k] # ref[k] + (n + 1) - 1
    <3>1. ref[k] \in Int /\ at[i] \in Nat
      BY <1>1, <2>5
    <3>2. CASE n < at[i]
      <4>1. done.lex[i] = lx[i]
        BY <2>3, <3>2 DEF done
      <4> QED
        BY <2>1, <2>5, <3>1, <3>2, <4>1
    <3>3. CASE ~(n < at[i])
      <4>1. /\ done.lex[i][k] = ref[k] + at[i] - 1
            /\ \A m \in Places : m # k /\ m # level => done.lex[i][m] = lx[i][m]
        BY <2>1, <2>3, <3>1, <3>3 DEF done
      <4>2. \A m \in 0 .. level - 2 : done.lex[i][m] = lx[i][m]
        BY <1>1, <4>1
      <4> QED
        BY <2>1, <3>1, <3>3, <4>1, <4>2
    <3> QED
      BY <3>2, <3>3
  <2>8. /\ next.lex \in LexicalConstants /\ next.shifted \in Int
        /\ \A i \in Stmts \ group : next.lex[i] = done.lex[i]
        /\ \A i \in group :
               /\ next.lex[i][k] = ref[k] + (n + 1) - 1
               /\ next.lex[i][level] = done.lex[i][level] - done.shifted
               /\ \A m \in Places : m # k /\ m # level => next.lex[i][m] = done.lex[i][m]
    <3>1. PICK j \in Nat : j = n + 1
      BY <2>1
    <3>2. /\ \A i \in Stmts : \A m \in 0 .. level - 2 : done.lex[i][m] = ref[m]
          /\ \A i \in Stmts \ group : done.lex[i][level - 1] # ref[level - 1] + j - 1
      BY <2>7, <3>1
    <3> HIDE DEF Set, k
    <3>3. SetsApart(DistributedWith(done, group, ref, level, j), done, group, ref, level, j)
      BY <2>6, <3>2, OneDistributed
    <3>4. next = DistributedWith(done, group, ref, level, j)
      BY <2>4, <3>1
    <3> QED
      BY <3>1, <3>3, <3>4 DEF k, SetsApart
  <2>9. ASSUME NEW i \in Stmts, n + 1 < at[i]
        PROVE  next.lex[i] = lx[i]
    <3>1. i \notin group /\ n < at[i]
      BY <2>1, <2>5, <2>9
    <3> QED
      BY <2>3, <2>8, <3>1 DEF done
  <2>10. ASSUME NEW i \in Stmts, at[i] <= n + 1
         PROVE  /\ next.lex[i][k] = ref[k] + at[i] - 1
                /\ next.lex[i][level] = lx[i][level] - h[at[i] - 1].shifted
                /\ \A m \in Places : m # k /\ m # level => next.lex[i][m] = lx[i][m]
    <3>1. CASE at[i] = n + 1
      <4>1. i \in group /\ n < at[i] /\ at[i] - 1 = n
        BY <2>1, <2>5, <3>1
      <4>2. done.lex[i] = lx[i]
        BY <2>3, <4>1 DEF done
      <4> QED
        BY <2>8, <3>1, <4>1, <4>2 DEF done
    <3>2. CASE at[i] # n + 1
      <4>1. i \notin group /\ at[i] <= n
        BY <2>1, <2>5, <2>10, <3>2
      <4>2. next.lex[i] = done.lex[i]
        BY <2>8, <4>1
      <4> QED
        BY <2>3, <4>1, <4>2 DEF done
    <3> QED
      BY <3>1, <3>2
  <2>11. Set(n + 1)
    BY <2>8, <2>9, <2>10 DEF next
  <2> HIDE DEF Set
  <2>12. \A m \in 0 .. n + 1 : m \in 0 .. n \/ m = n + 1
    BY <2>1
  <2> QED
    BY <2>2, <2>11, <2>12
<1>7. T = Nat
  <2>1. T \in SUBSET Nat
    BY DEF T
  <2> HIDE DEF T
  <2> QED
    BY <1>5, <1>6, <2>1, EveryNumber
<1>8. \A n \in 0 .. M : Set(n)
  <2> HIDE DEF Set
  <2>1. M \in T
    BY <1>7
  <2> QED
    BY <2>1
<1> HIDE DEF T
<1> DEFINE c == [m \in 1 .. M |-> h[m - 1].shifted]
<1>9. c \in [1 .. M -> Int]
  <2>1. \A m \in 1 .. M : m - 1 \in 0 .. M
    OBVIOUS
  <2> QED
    BY <1>8, <2>1
<1>10. h[M].lex \in LexicalConstants /\ \A i \in Stmts :
           /\ h[M].lex[i][k] = ref[k] + at[i] - 1
           /\ h[M].lex[i][level] = lx[i][level] - c[at[i]]
           /\ \A m \in Places : m # k /\ m # level => h[M].lex[i][m] = lx[i][m]
  <2>1. M \in 0 .. M /\ \A i \in Stmts : at[i] \in 1 .. M /\ at[i] <= M
    OBVIOUS
  <2>2. \A i \in Stmts : c[at[i]] = h[at[i] - 1].shifted
    BY <2>1
  <2> HIDE DEF c
  <2> QED
    BY <1>8, <2>1, <2>2
<1> HIDE DEF c
<1> QED
  BY <1>3, <1>9, <1>10 DEF DistributesTo

\* The components are placed in an order of what no outer loop carries, so that what no
\* outer loop tells apart in two components the place before the loop does.
LEMMA DistributeForward ==
    ASSUME ProgramsFit, IInv, Forward, ~raised, steps # 0, steps' # 0, program' = program,
           Stmts # {}, Stmts \subseteq Nat, IsFiniteSet(Stmts),
           NEW level \in Levels, distribute(Stmts, level)
    PROVE  Forward'
<1> DEFINE k == level - 1
           ref == lex[First(Stmts)]
           es == {e \in Stmts \X Stmts : e[1] # e[2] /\ MustPrecede(dep, e[1], e[2], level)}
           cs == {c \cap Stmts : c \in Components(Stmts, es)} \ {{}}
           M == Cardinality(cs)
           before == ComponentEdges(cs, es)
<1>1. /\ program \in Programs /\ dep \subseteq Edges /\ KnowsAll(lin, off, dep)
      /\ lex \in LexicalConstants /\ NoneQuasi(dep) /\ AllPrecede(lin, off, lex)
  BY DEF IInv, Forward
<1>2. /\ Dim \in Nat /\ Levels = 1 .. Dim /\ Places = 0 .. Dim /\ Levels = Dims
      /\ level \in Nat /\ k \in Nat /\ k \in Places /\ level \in Places /\ level = k + 1
  BY DimAssumption DEF Levels, Dims, Places
<1>3. Stmts \subseteq getStatements(lex, ref, level)
  BY DEF distribute
<1>4. getStatements(lex, ref, level) = Stmts
  BY <1>3 DEF getStatements
<1>5. CASE Raise
  BY <1>5 DEF Raise, Forward
<1>6. CASE ~Raise
  <2>1. /\ UNCHANGED <<lin, off, dep, raised>>
        /\ \E q \in TopologicalOrders(cs, before) :
               lex' = Distributed(Joined(Sorted(Stmts \ Stmts), es, q), ref, level,
                          shiftLexicalOrder(lex, ref, k, Len(Joined(Sorted(Stmts \ Stmts), es, q)) - 1))
    BY <1>4, <1>6 DEF distribute
  <2>2. PICK q \in TopologicalOrders(cs, before) :
            lex' = Distributed(Joined(Sorted(Stmts \ Stmts), es, q), ref, level,
                       shiftLexicalOrder(lex, ref, k, Len(Joined(Sorted(Stmts \ Stmts), es, q)) - 1))
    BY <2>1
  <2> DEFINE lx == shiftLexicalOrder(lex, ref, k, M - 1)
  <2>3. /\ IsFiniteSet(cs)
        /\ \A c \in cs : c \in SUBSET Stmts
        /\ \A i \in Stmts : \E c \in cs : i \in c
        /\ \A c, d \in cs : \A i \in Stmts : i \in c /\ i \in d => c = d
    <3> HIDE DEF es
    <3> QED
      BY ComponentsPartition
  <2>4. /\ \A e \in Stmts \X Stmts : e[1] # e[2] /\ MustPrecede(dep, e[1], e[2], level) => e \in es
        /\ before = ComponentEdges(cs, es)
    <3> HIDE DEF cs
    <3> QED
      OBVIOUS
  <2> HIDE DEF es, cs, before, M
  <2>5. M \in Nat \ {0}
    <3>1. PICK i : i \in Stmts
      OBVIOUS
    <3>2. cs # {}
      BY <2>3, <3>1
    <3> QED
      BY <2>3, <3>2, FS_CardinalityType, FS_EmptySet DEF M
  <2>6. /\ q \in [1 .. M -> cs]
        /\ \A m, n \in 1 .. M : m < n => q[m] # q[n] /\ <<q[n], q[m]>> \notin before
    BY DEF TopologicalOrders, M
  <2>7. \A c \in cs : \E m \in 1 .. M : q[m] = c
    <3>1. Enumerates(q, cs)
      BY <2>6 DEF Enumerates, M
    <3> QED
      BY <2>3, <3>1, EnumerationIsOnto DEF M
  <2>8. Len(q) = M
    BY <2>5, <2>6
  <2>9. lex' = Distributed(q, ref, level, lx)
    <3>1. Joined(Sorted(Stmts \ Stmts), es, q) = q
      <4>1. Stmts \ Stmts = {}
        OBVIOUS
      <4> QED
        BY <4>1, NoneJoins
    <3> QED
      BY <2>2, <2>8, <3>1
  <2> DEFINE at == [i \in Stmts |-> CHOOSE m \in 1 .. M : i \in q[m]]
  <2>10. \A i \in Stmts : \E m \in 1 .. M : i \in q[m]
    BY <2>3, <2>7
  <2>11. at \in [Stmts -> 1 .. M] /\ \A i \in Stmts : i \in q[at[i]]
    BY <2>10
  <2> HIDE DEF at
  <2>12. \A m \in 1 .. M : \A i \in Stmts : i \in q[m] <=> at[i] = m
    <3> SUFFICES ASSUME NEW m \in 1 .. M, NEW i \in Stmts, i \in q[m] PROVE at[i] = m
      BY <2>11
    <3>1. at[i] \in 1 .. M /\ q[m] \in cs /\ q[at[i]] \in cs
      BY <2>6, <2>11
    <3>2. q[m] = q[at[i]]
      BY <2>3, <2>11, <3>1
    <3>3. ~(m < at[i]) /\ ~(at[i] < m)
      BY <2>6, <3>1, <3>2
    <3> QED
      BY <2>5, <3>1, <3>3
  <2>13. \A m \in 1 .. M : q[m] \in SUBSET Stmts /\ IsFiniteSet(q[m])
    BY <2>3, <2>6, FS_Subset
  <2>14. ref \in [Places -> Int]
    <3>1. First(Stmts) \in Stmts
      <4>1. PICK i \in Stmts : \A j \in Stmts : i <= j
        BY SmallestNumber
      <4> QED
        BY <4>1 DEF First
    <3> QED
      BY <1>1, <3>1 DEF LexicalConstants
  <2>15. \A i \in Stmts : \A m \in 0 .. k : lex[i][m] = ref[m]
    BY <1>2, <1>4 DEF getStatements
  <2> HIDE DEF ref
  <2>16. ASSUME NEW i \in Stmts
         PROVE  /\ lx[i] \in [Places -> Int] /\ lx[i][k] = ref[k] + M - 1
                /\ \A m \in Places : m # k => lx[i][m] = lex[i][m]
    <3>1. lex[i] \in [Places -> Int] /\ lex[i][k] = ref[k] /\ ref[k] \in Int
      BY <1>1, <1>2, <2>14, <2>15 DEF LexicalConstants
    <3>2. i \in getStatements(lex, ref, k)
      BY <1>2, <2>15 DEF getStatements
    <3>3. lx[i] = [lex[i] EXCEPT ![k] = @ + (M - 1)]
      BY <3>1, <3>2 DEF shiftLexicalOrder
    <3> HIDE DEF lx, k
    <3> QED
      BY <1>2, <2>5, <3>1, <3>3
  <2>17. lx \in LexicalConstants
    <3>1. lx = [i \in Stmts |-> lx[i]]
      BY DEF shiftLexicalOrder
    <3> HIDE DEF lx
    <3> QED
      BY <2>16, <3>1 DEF LexicalConstants
  <2> HIDE DEF lx
  <2>18. /\ \A i \in Stmts : \A m \in 0 .. level - 2 : lx[i][m] = ref[m]
         /\ \A i \in Stmts : lx[i][level - 1] = ref[level - 1] + M - 1
    <3>1. \A m \in 0 .. level - 2 : m \in 0 .. k /\ m \in Places /\ m # k
      BY <1>2
    <3> QED
      BY <2>15, <2>16, <3>1
  <2> DEFINE r == Distributed(q, ref, level, lx)
  <2>19. /\ r \in LexicalConstants
         /\ \E c \in [1 .. M -> Int] : \A i \in Stmts :
                /\ r[i][level - 1] = ref[level - 1] + at[i] - 1
                /\ r[i][level] = lx[i][level] - c[at[i]]
                /\ \A m \in Places : m # level - 1 /\ m # level => r[i][m] = lx[i][m]
    <3>1. M \in Nat
      BY <2>5
    <3>2. DistributesTo(r, ref, level, lx, M, at)
      BY <2>8, <2>11, <2>12, <2>13, <2>14, <2>17, <2>18, <3>1, DistributedSets
    <3> QED
      BY <3>2 DEF DistributesTo
  <2> HIDE DEF r
  <2>20. PICK c \in [1 .. M -> Int] : \A i \in Stmts :
                /\ r[i][k] = ref[k] + at[i] - 1
                /\ r[i][level] = lx[i][level] - c[at[i]]
                /\ \A m \in Places : m # k /\ m # level => r[i][m] = lx[i][m]
    BY <2>19
  <2>21. /\ \A i \in Stmts : r[i][level] = lex[i][level] - c[at[i]]
         /\ \A i \in Stmts : \A m \in Places : m # k /\ m # level => r[i][m] = lex[i][m]
    BY <1>2, <2>16, <2>20
  <2> HIDE DEF k
  <2>22. ASSUME NEW p \in Pairs, NEW I \in Iterations
         PROVE  PairPrecedes(lin, off, r, p, I)
    <3> DEFINE s == Directed(p, I)
               x == PairDistance(lin, off, p, I)
               i == s[1]
               j == s[3]
    <3>1. i \in Stmts /\ j \in Stmts /\ Precedes(x, lex[i], lex[j])
      BY <1>1, DirectedFacts DEF AllPrecede, PairPrecedes
    <3>2. PICK e \in dep : e.from = i /\ e.to = j /\ Admits(e.dv, x)
      BY <1>1 DEF KnowsAll, IsKnown, PairDistance
    <3> HIDE DEF s, x, i, j
    <3>3. at[i] \in 1 .. M /\ at[j] \in 1 .. M /\ ref[k] \in Int
      BY <1>2, <2>11, <2>14, <3>1
    <3>4. \A m \in 0 .. k - 1 : m \in Places /\ m # k /\ m # level
      BY <1>2
    <3>5. \A m \in 0 .. k - 1 : r[i][m] = r[j][m]
      <4>1. \A m \in 0 .. k - 1 : lex[i][m] = ref[m] /\ lex[j][m] = ref[m]
        BY <1>2, <2>15, <3>1
      <4> QED
        BY <2>21, <3>1, <3>4, <4>1
    <3>6. CASE at[i] = at[j]
      <4>1. ASSUME NEW m \in Places
            PROVE  /\ lex[i][m] < lex[j][m] => r[i][m] < r[j][m]
                   /\ lex[i][m] = lex[j][m] => r[i][m] = r[j][m]
        <5>1. lex[i][m] \in Int /\ lex[j][m] \in Int
          BY <1>1, <3>1 DEF LexicalConstants
        <5>2. CASE m = k
          <6>1. lex[i][k] = lex[j][k] /\ r[i][k] = r[j][k]
            BY <1>2, <2>15, <2>20, <3>1, <3>6
          <6> QED
            BY <5>1, <5>2, <6>1
        <5>3. CASE m = level
          <6>1. c[at[i]] \in Int /\ c[at[j]] = c[at[i]]
            BY <3>3, <3>6
          <6>2. r[i][m] = lex[i][m] - c[at[i]] /\ r[j][m] = lex[j][m] - c[at[j]]
            BY <2>21, <3>1, <5>3
          <6> HIDE DEF r
          <6> QED
            BY <5>1, <6>1, <6>2
        <5>4. CASE m # k /\ m # level
          BY <2>21, <3>1, <5>4
        <5> QED
          BY <5>2, <5>3, <5>4
      <4>2. Precedes(x, r[i], r[j])
        BY <3>1, <4>1, PrecedesKept
      <4> QED
        BY <4>2 DEF PairPrecedes, s, x, i, j
    <3>7. ASSUME at[i] # at[j], \A m \in 1 .. k : x[m] = 0
          PROVE  PairPrecedes(lin, off, r, p, I)
      <4>1. MustPrecede(dep, i, j, level)
        <5>1. e.dv.lbounds \in [Dims -> Int] /\ e.dv.ubounds \in [Dims -> Int]
          BY <1>1, EdgeFacts, VectorsAreIntegral
        <5>2. ASSUME NEW d \in Dims, d < level
              PROVE  ~(e.dv.lbounds[d] > 0) /\ ~(e.dv.ubounds[d] < 0)
          <6>1. d \in 1 .. k
            BY <1>2, <5>2
          <6>2. x[d] = 0
            BY <3>7, <6>1
          <6>3. /\ e.dv.lbounds[d] = -Inf \/ e.dv.lbounds[d] <= x[d]
                /\ e.dv.ubounds[d] = Inf \/ x[d] <= e.dv.ubounds[d]
            BY <3>2 DEF Admits
          <6> QED
            BY <5>1, <6>2, <6>3, InfAssumption
        <5>3. ~has_been_carried_before(e.dv, level)
          BY <5>2 DEF has_been_carried_before, IsDecidedAt, IsPositiveAt, IsNegativeAt
        <5>4. e.dv \in getEdge(dep, i, j)
          BY <3>2 DEF getEdge
        <5> QED
          BY <5>3, <5>4 DEF MustPrecede, isCarried
      <4>2. i # j
        BY <3>7
      <4>3. <<i, j>> \in es
        BY <2>4, <3>1, <4>1, <4>2
      <4>4. q[at[i]] \in cs /\ q[at[j]] \in cs /\ i \in q[at[i]] /\ j \in q[at[j]]
        BY <2>6, <2>11, <3>1, <3>3
      <4>5. q[at[i]] # q[at[j]]
        BY <2>12, <3>1, <3>3, <3>7, <4>4
      <4>6. <<q[at[i]], q[at[j]]>> \in before
        BY <2>4, <4>3, <4>4, <4>5 DEF ComponentEdges
      <4>7. ~(at[j] < at[i])
        BY <2>6, <3>3, <4>6
      <4>8. r[i][k] < r[j][k]
        BY <2>5, <2>20, <3>1, <3>3, <3>7, <4>7
      <4>9. PlaceDecides(x, r[i], r[j], k)
        BY <3>5, <3>7, <4>8 DEF PlaceDecides
      <4> QED
        BY <1>2, <4>9 DEF PairPrecedes, Precedes, s, x, i, j
    <3>8. ASSUME NEW m \in Places, PlaceDecides(x, lex[i], lex[j], m)
          PROVE  \A n \in 1 .. k : x[n] = 0
      <4>1. lex[i][m] < lex[j][m] /\ lex[i][m] \in Int /\ lex[j][m] \in Int
        BY <1>1, <3>1, <3>8 DEF LexicalConstants, PlaceDecides
      <4>2. m \notin 0 .. k
        <5>1. m \in 0 .. k => lex[i][m] = lex[j][m]
          BY <2>15, <3>1
        <5> QED
          BY <4>1, <5>1
      <4>3. \A n \in 1 .. k : n \in 1 .. m
        BY <1>2, <4>2
      <4> QED
        BY <3>8, <4>3 DEF PlaceDecides
    <3>9. ASSUME NEW l \in Levels, LoopDecides(x, lex[i], lex[j], l), ~(l < level)
          PROVE  \A n \in 1 .. k : x[n] = 0
      <4>1. \A n \in 1 .. k : n \in 1 .. l - 1
        BY <1>2, <3>9
      <4> QED
        BY <3>9, <4>1 DEF LoopDecides
    <3>10. ASSUME NEW l \in Levels, LoopDecides(x, lex[i], lex[j], l), l < level
           PROVE  PairPrecedes(lin, off, r, p, I)
      <4>1. \A m \in 0 .. l - 1 : m \in 0 .. k - 1
        BY <1>2, <3>10
      <4>2. LoopDecides(x, r[i], r[j], l)
        BY <3>5, <3>10, <4>1 DEF LoopDecides
      <4> QED
        BY <4>2 DEF PairPrecedes, Precedes, s, x, i, j
    <3> QED
      BY <3>1, <3>6, <3>7, <3>8, <3>9, <3>10 DEF Precedes
  <2>23. AllPrecede(lin', off', lex')
    BY <2>1, <2>9, <2>22 DEF AllPrecede, r
  <2>24. NoneQuasi(dep') /\ lex' \in LexicalConstants
    BY <1>1, <2>1, <2>9, <2>19 DEF r
  <2> QED
    BY <2>23, <2>24, ForwardStep
<1> QED
  BY <1>5, <1>6

LEMMA NextForward ==
    ASSUME ProgramsFit, Amounts \subseteq Int, IInv, Forward, IsPerfect(program), IsWholeScript(program),
           [Next]_vars
    PROVE  Forward'
<1>1. /\ script.levels \subseteq Levels
      /\ \A k \in script.skews : k.level \in Levels /\ k.amount \in [Levels -> Int]
      /\ script.steps \in Nat
  BY ScriptFits DEF IInv, ProgramsFit, script
<1>2. /\ \A S \in script.selections : S = Stmts
      /\ \A k \in script.skews : IsForwardSkew(k)
      /\ script.commands \subseteq WholeCommands
      /\ Stmts # {} /\ Stmts \subseteq Nat /\ IsFiniteSet(Stmts)
  BY PerfectFacts DEF IInv
<1>3. ASSUME NEW command, May(command)
      PROVE  /\ command \in WholeCommands
             /\ ~raised /\ steps # 0 /\ steps' # 0 /\ program' = program
  BY <1>1, <1>2, <1>3 DEF May
<1>4. ASSUME NEW level \in Nat, NEW n, NEW pi \in PermutationsAt(level, n)
      PROVE  pi \in [Levels -> Levels] /\ \A l, k \in Levels : pi[l] = pi[k] => l = k
  BY DEF PermutationsAt
<1>5. \A level \in Levels : level \in Nat /\ level - 1 \in 0 .. Dim
  BY DimAssumption DEF Levels, Dims
<1>6. CASE Original
  BY <1>6, OriginalForward
<1>7. ASSUME NEW pi \in PermutationsAt(1, Dim), PermuteAll(pi)
      PROVE  Forward'
  <2>1. ~raised /\ steps # 0 /\ steps' # 0 /\ program' = program /\ PermuteLoops(Stmts, pi, 0, 0, lex)
    BY <1>3, <1>7 DEF PermuteAll
  <2>2. 0 \in 0 .. Dim
    BY DimAssumption
  <2> QED
    BY <1>4, <2>1, <2>2, PermuteAllForward
<1>8. ASSUME NEW s \in Stmts, NEW level \in script.levels, NEW n \in 1 .. Dim - level + 1,
             NEW pi \in PermutationsAt(level, n), Permute(s, level, pi)
      PROVE  Forward'
  <2>1. level \in Levels /\ level \in Nat
    BY <1>1, <1>5
  <2>2. ~raised /\ steps # 0 /\ steps' # 0 /\ program' = program
    BY <1>3, <1>8 DEF Permute
  <2> QED
    BY <1>8, <2>1, <2>2, PermuteOneForward
<1>9. ASSUME NEW S \in script.selections, NEW level \in script.levels, NEW n \in 1 .. Dim - level + 1,
             NEW pi \in PermutationsAt(level, n), PermuteSet(S, level, pi)
      PROVE  Forward'
  <2>1. level \in Nat /\ level - 1 \in 0 .. Dim
    BY <1>1, <1>5
  <2>2. ~raised /\ steps # 0 /\ steps' # 0 /\ program' = program /\ PermuteLoops(Stmts, pi, level - 1, 0, lex)
    BY <1>2, <1>3, <1>9 DEF PermuteSet
  <2> QED
    BY <1>4, <2>1, <2>2, PermuteAllForward
<1>10. ASSUME NEW S \in script.selections, NEW k \in script.skews, skew(S, k.level, k.amount)
       PROVE  Forward'
  <2>1. /\ ~raised /\ steps # 0 /\ steps' # 0 /\ program' = program
        /\ SkewBy(Stmts, k.level, k.amount)
    BY <1>2, <1>3, <1>10 DEF skew
  <2>2. /\ k.level \in Levels /\ k.amount \in [Levels -> Int]
        /\ k.amount[k.level] > 0 /\ \A l \in Levels : l > k.level => k.amount[l] = 0
    BY <1>1, <1>2 DEF IsForwardSkew
  <2> QED
    BY <2>1, <2>2, SkewForward
<1>11. ASSUME NEW S \in script.selections, NEW level \in script.levels, Reverse(S, level)
       PROVE  Forward'
  <2>1. "reverse" \in WholeCommands
    BY <1>3, <1>11 DEF Reverse
  <2> QED
    BY <2>1 DEF WholeCommands
<1>12. ASSUME NEW S \in script.selections, NEW level \in script.levels, NEW amount \in Amounts,
              Shift(S, level, amount)
       PROVE  Forward'
  <2>1. S = Stmts /\ level \in Levels /\ amount \in Int
    BY <1>1, <1>2
  <2>2. /\ ~raised /\ steps # 0 /\ steps' # 0 /\ program' = program
        /\ lin' = lin /\ lex' = lex
        /\ off' = ShiftedConstants(Stmts, level, amount)
        /\ dep' = ShiftedGraph(Stmts, level, amount)
    BY <1>3, <1>12, <2>1 DEF Shift, ShiftedConstants, ShiftedGraph
  <2> QED
    BY <2>1, <2>2, ShiftForward
<1>13. ASSUME NEW S \in script.selections, NEW level \in script.levels, fuse(S, level)
       PROVE  Forward'
  <2>1. "fuse" \in WholeCommands
    BY <1>3, <1>13 DEF fuse
  <2> QED
    BY <2>1 DEF WholeCommands
<1>14. ASSUME NEW S \in script.selections, NEW level \in script.levels, distribute(S, level)
       PROVE  Forward'
  <2>1. S = Stmts /\ level \in Levels
    BY <1>1, <1>2
  <2>2. ~raised /\ steps # 0 /\ steps' # 0 /\ program' = program
    BY <1>3, <1>14 DEF distribute
  <2> QED
    BY <1>2, <1>14, <2>1, <2>2, DistributeForward
<1>15. CASE UNCHANGED vars
  BY <1>15, ForwardUnchanged
<1> QED
  BY <1>6, <1>7, <1>8, <1>9, <1>10, <1>11, <1>12, <1>13, <1>14, <1>15 DEF Next

\* The scripts of which the theorem speaks: any commands permute, skew, shift and
\* distribute, of all statements of a perfect nest.
InScope(p) == IsPerfect(p) /\ IsWholeScript(p)

\* Whatever is permuted, skewed, shifted and distributed, a perfect nest runs every two
\* iterations that depend on each other in the order in which the program did: permute
\* throws unless no vector can come to be negative, an outer loop added to an inner one
\* turns no dependence round, distribute keeps in one loop what it must and orders the
\* rest, and setLexicalOrder orders what no loop carries (Loop::permute, Loop::skew,
\* Loop::distribute, Loop::setLexicalOrder).
THEOREM PerfectNestsRunForward ==
    ASSUME ProgramsFit, Amounts \subseteq Int
    PROVE  Spec => [](InScope(program) => WholeRunsForward)
<1> DEFINE Inv == IInv /\ (InScope(program) => Forward)
<1>1. Init => Inv
  BY InitInvariant, InitForward DEF InScope
<1>2. Inv /\ [Next]_vars => Inv'
  <2> SUFFICES ASSUME Inv, [Next]_vars PROVE Inv'
    OBVIOUS
  <2>1. IInv'
    BY NextInvariant
  <2>2. program' = program
    BY DEF Next, Original, PermuteAll, Permute, PermuteSet, skew, Reverse, Shift, fuse, distribute, May, vars
  <2>3. InScope(program)' => InScope(program)
    BY <2>2
  <2> QED
    BY <2>1, <2>3, NextForward DEF InScope
<1>3. Inv => (InScope(program) => WholeRunsForward)
  BY ForwardRuns DEF WholeRunsForward
<1> QED
  BY <1>1, <1>2, <1>3, PTL DEF Spec

-----------------------------------------------------------------------------
(***************************************************************************)
(* original accepts every program: setLexicalOrder finds constants for the *)
(* graph that the analysis makes.                                          *)
(***************************************************************************)
\* Behind a loop that two statements do not share they have no more in common.
LEMMA CommonLoopsEnd ==
    ASSUME NEW p, NEW i, NEW j, NEW d \in Dims, p.loops[i][d] # p.loops[j][d]
    PROVE  CommonLoops(p, i, j) < d
<1> DEFINE same == {l \in Levels : \A k \in 1 .. l : p.loops[i][k] = p.loops[j][k]}
<1>1. Dim \in Nat /\ d \in 1 .. Dim
  BY DimAssumption DEF Dims
<1>2. same \subseteq 1 .. d - 1
  <2> SUFFICES ASSUME NEW l \in same, ~(l \in 1 .. d - 1) PROVE FALSE
    OBVIOUS
  <2>1. l \in 1 .. Dim /\ d \in 1 .. l
    BY <1>1 DEF Levels, Dims
  <2> QED
    BY <2>1
<1>3. CommonLoops(p, i, j) = Cardinality(same)
  BY DEF CommonLoops
<1> HIDE DEF same
<1>4. IsFiniteSet(1 .. d - 1) /\ Cardinality(1 .. d - 1) = d - 1
  <2> DEFINE b == d - 1
  <2>1. b \in Nat
    BY <1>1
  <2> HIDE DEF b
  <2>2. IsFiniteSet(1 .. b) /\ Cardinality(1 .. b) = b
    BY <2>1, FS_Interval
  <2> QED
    BY <2>2 DEF b
<1>5. Cardinality(same) <= d - 1 /\ Cardinality(same) \in Nat
  BY <1>2, <1>4, FS_Subset, FS_CardinalityType
<1> QED
  BY <1>1, <1>3, <1>5

\* A dependence that no common loop decides leads from a statement to a later one.
LEMMA UndecidedPointsForward ==
    ASSUME NEW c, IsConflict(c), NEW e \in DependencesOf(program, c), e.from # e.to,
           \A k \in Dims : k <= CommonLoops(program, e.from, e.to) => ~IsDecidedAt(e.dv, k)
    PROVE  e.from < e.to
<1> DEFINE n == CommonLoops(program, c.from, c.to)
<1>1. /\ n \in 0 .. Dim /\ CommonLoops(program, c.to, c.from) = n
      /\ c.from \in Nat /\ c.to \in Nat /\ c.from <= c.to /\ Whole(c) \in DependenceVectors
  BY CommonLoopsType, WholeType DEF IsConflict
<1> HIDE DEF n
<1>2. ASSUME NEW v \in normalize(Whole(c)), \A k \in Dims : k <= n => ~IsDecidedAt(v, k)
      PROVE  \A k \in Dims : k <= n => ZeroAt(v, k)
  <2>1. CASE IsZeroVector(v)
    BY <2>1 DEF IsZeroVector, ZeroAt
  <2>2. CASE \E i \in Dims : LeadsAt(v, i)
    <3>1. PICK i \in Dims : LeadsAt(v, i)
      BY <2>2
    <3>2. ~(i <= n)
      BY <1>2, <3>1 DEF LeadsAt
    <3>3. \A k \in Dims : k <= n => k < i
      BY <1>1, <3>2, DimAssumption DEF Dims
    <3> QED
      BY <3>1, <3>3 DEF LeadsAt
  <2> QED
    BY <1>1, <2>1, <2>2, NormalizedLeads
<1>3. \A v \in normalize(Whole(c)) : v \in DependenceVectors
  BY <1>1, NormalizedType
<1>4. ASSUME NEW v \in DependenceVectors, NEW u, Turned(u, v), NEW k \in Dims
      PROVE  /\ IsDecidedAt(u, k) <=> IsDecidedAt(v, k)
             /\ ZeroAt(u, k) <=> ZeroAt(v, k)
  <2>1. u.lbounds[k] = -v.ubounds[k] /\ u.ubounds[k] = -v.lbounds[k]
    BY <1>4 DEF Turned
  <2>2. v.lbounds[k] \in Int /\ v.ubounds[k] \in Int
    BY Integral
  <2> QED
    BY <2>1, <2>2 DEF IsDecidedAt, IsPositiveAt, IsNegativeAt, ZeroAt
<1>5. ASSUME NEW v \in dependences1(c),
             e = IF is_dependence_valid(program, c.from, c.to, v, TRUE)
                 THEN Edge(c.from, c.to, v) ELSE Edge(c.to, c.from, reverse(v))
      PROVE  e.from < e.to
  <2>1. v \in normalize(Whole(c)) /\ v \in DependenceVectors
    BY <1>3 DEF dependences1
  <2>2. CASE is_dependence_valid(program, c.from, c.to, v, TRUE)
    <3>1. e.from = c.from /\ e.to = c.to
      BY <1>5, <2>2 DEF Edge
    <3> QED
      BY <1>1, <3>1
  <2>3. CASE ~is_dependence_valid(program, c.from, c.to, v, TRUE)
    <3>1. e.from = c.to /\ e.to = c.from /\ e.dv = reverse(v)
      BY <1>5, <2>3 DEF Edge
    <3>2. \A k \in Dims : k <= n => ~IsDecidedAt(v, k)
      BY <1>1, <1>4, <2>1, <3>1, NegatedIs
    <3>3. \A k \in Dims : k <= n => v.lbounds[k] = 0
      BY <1>2, <2>1, <3>2 DEF ZeroAt
    <3> QED
      BY <2>1, <2>3, <3>3, ValidIs DEF n
  <2> QED
    BY <2>2, <2>3
<1>6. ASSUME NEW u \in dependences2(c),
             e = IF is_dependence_valid(program, c.to, c.from, u, FALSE)
                 THEN Edge(c.to, c.from, u) ELSE Edge(c.from, c.to, reverse(u))
      PROVE  e.from < e.to
  <2>1. PICK v \in normalize(Whole(c)) : u = Negated(v)
    BY DEF dependences2
  <2>2. v \in DependenceVectors /\ u \in DependenceVectors /\ Turned(u, v)
    BY <1>3, <2>1, NegatedIs
  <2>3. CASE ~is_dependence_valid(program, c.to, c.from, u, FALSE)
    <3>1. e.from = c.from /\ e.to = c.to
      BY <1>6, <2>3 DEF Edge
    <3> QED
      BY <1>1, <3>1
  <2>4. CASE is_dependence_valid(program, c.to, c.from, u, FALSE)
    <3>1. e.from = c.to /\ e.to = c.from /\ e.dv = u
      BY <1>6, <2>4 DEF Edge
    <3>2. \A k \in Dims : k <= n => ~IsDecidedAt(v, k)
      BY <1>1, <1>4, <2>2, <3>1
    <3>3. \A k \in Dims : k <= n => u.lbounds[k] = 0
      BY <1>2, <1>4, <2>1, <2>2, <3>2 DEF ZeroAt
    <3> QED
      BY <1>1, <2>2, <2>4, <3>3, ValidIs
  <2> QED
    BY <2>3, <2>4
<1> QED
  BY <1>5, <1>6 DEF DependencesOf

StmtsAreNumbers == Stmts \subseteq Nat /\ IsFiniteSet(Stmts)

\* The groups by loops of the program come in the order of these loops.
LEMMA GroupsAreInOrder ==
    ASSUME InTextOrder(program), StmtsAreNumbers, program.loops \in [Stmts -> [Dims -> Nat]],
           NEW active \in SUBSET Stmts, active # {}, NEW d \in Dims
    PROVE  LET s == sort_by_same_loops(active, d)
           IN  /\ Len(s) \in Nat \ {0} /\ DOMAIN s = 1 .. Len(s)
               /\ \A v \in DOMAIN s : s[v] \in (SUBSET active) \ {{}}
               /\ \A v, w \in DOMAIN s : v < w =>
                      \A i \in s[v], j \in s[w] : program.loops[i][d] < program.loops[j][d]
<1> DEFINE same(i) == {j \in active : program.loops[i][d] = program.loops[j][d]}
           F == {First(same(i)) : i \in active}
           q == Sorted(F)
           s == sort_by_same_loops(active, d)
<1>1. active \in SUBSET Nat /\ IsFiniteSet(active) /\ \A i \in active : program.loops[i][d] \in Nat
  BY FS_Subset DEF StmtsAreNumbers
<1>2. \A i \in active : same(i) \in SUBSET active /\ i \in same(i)
  OBVIOUS
<1>3. ASSUME NEW i \in active PROVE First(same(i)) \in same(i)
  <2> DEFINE T == same(i)
  <2>1. T \in SUBSET Nat /\ T # {}
    BY <1>1, <1>2
  <2> HIDE DEF T
  <2>2. PICK m \in T : \A k \in T : m <= k
    BY <2>1, SmallestNumber
  <2>3. First(T) \in T
    BY <2>2 DEF First
  <2> QED
    BY <2>3 DEF T
<1>4. ASSUME NEW i \in active, NEW j \in active, program.loops[i][d] = program.loops[j][d]
      PROVE  same(i) = same(j)
  BY <1>4
<1>5. \A i, j \in F : program.loops[i][d] = program.loops[j][d] => i = j
  <2> SUFFICES ASSUME NEW i \in active, NEW j \in active,
                      program.loops[First(same(i))][d] = program.loops[First(same(j))][d]
               PROVE  First(same(i)) = First(same(j))
    OBVIOUS
  <2>1. /\ program.loops[First(same(i))][d] = program.loops[i][d]
        /\ program.loops[First(same(j))][d] = program.loops[j][d]
    <3>1. First(same(i)) \in same(i) /\ First(same(j)) \in same(j)
      BY <1>3
    <3> QED
      BY <3>1
  <2>2. same(i) = same(j)
    <3>1. program.loops[i][d] = program.loops[j][d]
      BY <2>1
    <3> QED
      BY <1>4, <3>1
  <2> QED
    BY <2>2
<1>6. F \subseteq active /\ F # {}
  <2>1. \A i \in active : First(same(i)) \in active
    BY <1>2, <1>3
  <2> HIDE DEF same
  <2> QED
    BY <2>1
<1>7. s = [n \in 1 .. Len(q) |-> same(q[n])]
  BY DEF sort_by_same_loops
<1> HIDE DEF F
<1>8. F \in SUBSET Nat /\ IsFiniteSet(F)
  BY <1>1, <1>6, FS_Subset
<1>9. Ascends(q, F) /\ Len(q) = Cardinality(F)
  BY <1>8, SortedFacts
<1> DEFINE c == Cardinality(F)
<1>10. c \in Nat \ {0}
  BY <1>6, <1>8, FS_CardinalityType, FS_EmptySet
<1>11. q \in [1 .. c -> F] /\ \A i, j \in 1 .. c : i < j => q[i] < q[j]
  BY <1>9 DEF Ascends
<1> HIDE DEF q, c
<1>12. Len(q) = c
  BY <1>9 DEF c
<1> HIDE DEF s
<1>13. Len(s) = c /\ DOMAIN s = 1 .. c /\ \A v \in 1 .. c : s[v] = same(q[v])
  <2> HIDE DEF same
  <2> QED
    BY <1>7, <1>10, <1>12
<1>14. \A v \in 1 .. c : s[v] \in (SUBSET active) \ {{}}
  <2> SUFFICES ASSUME NEW v \in 1 .. c PROVE s[v] \in (SUBSET active) \ {{}}
    OBVIOUS
  <2>1. q[v] \in active
    BY <1>6, <1>11
  <2> QED
    BY <1>2, <1>13, <2>1
<1>15. ASSUME NEW v \in 1 .. c, NEW w \in 1 .. c, v < w, NEW i \in s[v], NEW j \in s[w]
       PROVE  program.loops[i][d] < program.loops[j][d]
  <2>1. q[v] \in F /\ q[w] \in F /\ q[v] < q[w]
    BY <1>11, <1>15
  <2>2. q[v] \in active /\ q[w] \in active /\ q[v] \in Nat /\ q[w] \in Nat
    BY <1>1, <1>6, <2>1
  <2>3. program.loops[i][d] = program.loops[q[v]][d] /\ program.loops[j][d] = program.loops[q[w]][d]
    BY <1>13
  <2>4. program.loops[q[v]][d] <= program.loops[q[w]][d]
    BY <2>1, <2>2 DEF InTextOrder, Stmts
  <2>5. program.loops[q[v]][d] # program.loops[q[w]][d]
    <3>1. q[v] # q[w]
      BY <2>1, <2>2
    <3> QED
      BY <1>5, <2>1, <3>1
  <2>6. program.loops[q[v]][d] \in Nat /\ program.loops[q[w]][d] \in Nat
    BY <1>1, <2>2
  <2> DEFINE x == program.loops[q[v]][d]
             y == program.loops[q[w]][d]
  <2>7. x \in Nat /\ y \in Nat /\ x <= y /\ x # y
    BY <2>4, <2>5, <2>6
  <2>8. program.loops[i][d] = x /\ program.loops[j][d] = y
    BY <2>3
  <2> HIDE DEF x, y
  <2>9. x < y
    BY <2>7
  <2> QED
    BY <2>8, <2>9
<1> QED
  BY <1>10, <1>13, <1>14, <1>15 DEF s

\* The graph of the program leads from a group to later ones only, so that the groups can
\* be fused.
LEMMA GroupsAtIs ==
    ASSUME InTextOrder(program), StmtsAreNumbers, program.loops \in [Stmts -> [Dims -> Nat]],
           \A c \in program.conflicts : IsConflict(c),
           NEW active \in SUBSET Stmts, active # {}, NEW k \in 0 .. Dim - 1
    PROVE  LET groups == GroupsAt(Dependences(program), k, active)
           IN  Len(groups) \in Nat \ {0} /\ \A n \in 1 .. Len(groups) : groups[n] \in (SUBSET active) \ {{}}
<1> DEFINE d == k + 1
           g == Dependences(program)
           s == sort_by_same_loops(active, d)
           num == typed_fusion(Len(s), InducedEdges(g, s, d), InducedBad(g, s, d), [v \in DOMAIN s |-> TRUE])
           last == IF \E v \in DOMAIN s : num[v] = 0 THEN 0 ELSE Cardinality({num[v] : v \in DOMAIN s})
           fused == [n \in 1 .. last |-> UNION {s[v] : v \in {u \in DOMAIN s : num[u] = n}}]
<1>1. d \in Dims
  BY DimAssumption DEF Dims
<1>2. /\ Len(s) \in Nat \ {0} /\ DOMAIN s = 1 .. Len(s)
      /\ \A v \in DOMAIN s : s[v] \in (SUBSET active) \ {{}}
      /\ \A v, w \in DOMAIN s : v < w =>
             \A i \in s[v], j \in s[w] : program.loops[i][d] < program.loops[j][d]
  BY <1>1, GroupsAreInOrder
<1>3. GroupsAt(g, k, active) = IF Len(s) = 1 THEN s ELSE IF InducedThrows(g, s, d) THEN <<>> ELSE fused
  BY DEF GroupsAt, FusedGroups
<1> HIDE DEF s, d
<1>4. ASSUME NEW v \in DOMAIN s, NEW w \in DOMAIN s, NEW i \in s[v], NEW j \in s[w],
             NEW dv \in getEdge(g, i, j), has_been_carried_at(dv, d), v # w
      PROVE  v < w
  <2>1. PICK e \in g : e.from = i /\ e.to = j /\ e.dv = dv
    BY DEF getEdge
  <2> PICK c \in program.conflicts : e \in DependencesOf(program, c)
    BY DEF Dependences
  <2>2. v \in Nat /\ w \in Nat /\ i \in active /\ j \in active
    BY <1>2
  <2>3. i \in Nat /\ j \in Nat /\ program.loops[i][d] \in Nat /\ program.loops[j][d] \in Nat
    BY <1>1, <2>2 DEF StmtsAreNumbers
  <2>4. program.loops[i][d] # program.loops[j][d]
    BY <1>2, <1>4, <2>2, <2>3
  <2>5. CommonLoops(program, i, j) < d /\ CommonLoops(program, i, j) \in Nat
    BY <1>1, <2>4, CommonLoopsEnd, CommonLoopsType, DimAssumption
  <2>6. i # j
    BY <2>4
  <2>7. \A m \in Dims : m <= CommonLoops(program, i, j) => ~IsDecidedAt(dv, m)
    BY <1>1, <1>4, <2>5, DimAssumption DEF has_been_carried_at, IsOpenBefore, Dims
  <2>8. i < j
    BY <2>1, <2>6, <2>7, UndecidedPointsForward
  <2>9. ASSUME w < v PROVE FALSE
    <3>1. program.loops[j][d] < program.loops[i][d]
      BY <1>2, <2>9
    <3>2. program.loops[i][d] <= program.loops[j][d]
      BY <1>1, <2>2, <2>8 DEF InTextOrder, Stmts
    <3> QED
      BY <2>3, <3>1, <3>2
  <2> QED
    BY <1>4, <2>2, <2>9
<1> HIDE DEF g
<1>5. \A v, w \in DOMAIN s : \A p \in CarriedPairs(g, s[v], s[w], d) : v # w => v < w
  <2> SUFFICES ASSUME NEW v \in DOMAIN s, NEW w \in DOMAIN s, NEW p \in CarriedPairs(g, s[v], s[w], d), v # w
               PROVE  v < w
    OBVIOUS
  <2>1. p \in s[v] \X s[w]
    BY DEF CarriedPairs
  <2>2. PICK dv \in getEdge(g, p[1], p[2]) : has_been_carried_at(dv, d)
    BY DEF CarriedPairs
  <2> QED
    BY <1>4, <2>1, <2>2
<1>6. ~InducedThrows(g, s, d)
  <2> SUFFICES ASSUME NEW i \in DOMAIN s, NEW j \in DOMAIN s, i < j,
                      NEW q \in CarriedPairs(g, s[j], s[i], d)
               PROVE  FALSE
    BY DEF InducedThrows
  <2>1. i \in Nat /\ j \in Nat /\ i # j
    BY <1>2
  <2>2. j < i
    BY <1>5, <2>1
  <2> QED
    BY <2>1, <2>2
<1> DEFINE es == InducedEdges(g, s, d)
           m == Len(s)
<1>7. es \in SUBSET ((1 .. m) \X (1 .. m)) /\ \A e \in es : e[1] < e[2]
  <2>1. es \subseteq (DOMAIN s) \X (DOMAIN s)
    BY DEF InducedEdges
  <2>2. ASSUME NEW e \in es PROVE e[1] < e[2]
    <3>1. e[1] \in DOMAIN s /\ e[2] \in DOMAIN s /\ e[1] # e[2]
      BY DEF InducedEdges
    <3>2. PICK p : p \in CarriedPairs(g, s[e[1]], s[e[2]], d)
      BY DEF InducedEdges, Carries
    <3> QED
      BY <1>5, <3>1, <3>2
  <2> QED
    BY <1>2, <2>1, <2>2
<1> HIDE DEF es
<1>8. PICK l \in 1 .. m : num \in [1 .. m -> 1 .. l] /\ \A n \in 1 .. l : \E v \in 1 .. m : num[v] = n
  <2> DEFINE bad == InducedBad(g, s, d)
             types == [v \in DOMAIN s |-> TRUE]
  <2>1. m \in Nat /\ m # 0
    BY <1>2
  <2> HIDE DEF bad, types, m
  <2>2. \E l \in 1 .. m : /\ typed_fusion(m, es, bad, types) \in [1 .. m -> 1 .. l]
                          /\ \A n \in 1 .. l : \E v \in 1 .. m : typed_fusion(m, es, bad, types)[v] = n
    <3>1. es \in SUBSET ((1 .. m) \X (1 .. m))
      BY <1>7
    <3>2. \A e \in es : e[1] < e[2]
      BY <1>7
    <3> DEFINE Complete(b, t) ==
                 \E l \in 1 .. m : /\ typed_fusion(m, es, b, t) \in [1 .. m -> 1 .. l]
                                   /\ \A n \in 1 .. l : \E v \in 1 .. m : typed_fusion(m, es, b, t)[v] = n
    <3>3. \A b, t : Complete(b, t)
      BY <2>1, <3>1, <3>2, EveryVertexGetsAGroup
    <3> HIDE DEF Complete
    <3>4. Complete(bad, types)
      BY <3>3
    <3> QED
      BY <3>4 DEF Complete
  <2> QED
    BY <2>2 DEF es, bad, types, m
<1> HIDE DEF num
<1>9. last = l
  <2>1. m \in Nat /\ DOMAIN s = 1 .. m /\ l \in Nat
    BY <1>2
  <2>2. ~\E v \in DOMAIN s : num[v] = 0
    BY <1>8, <2>1
  <2>3. {num[v] : v \in DOMAIN s} = 1 .. l
    BY <1>8, <2>1
  <2>4. Cardinality(1 .. l) = l
    BY <1>8, <2>1, FS_Interval
  <2> QED
    BY <2>2, <2>3, <2>4
<1>10. \A n \in 1 .. l : UNION {s[v] : v \in {u \in DOMAIN s : num[u] = n}} \in (SUBSET active) \ {{}}
  <2> SUFFICES ASSUME NEW n \in 1 .. l
               PROVE  UNION {s[v] : v \in {u \in DOMAIN s : num[u] = n}} \in (SUBSET active) \ {{}}
    OBVIOUS
  <2>1. PICK v \in DOMAIN s : num[v] = n
    BY <1>2, <1>8
  <2>2. \A u \in DOMAIN s : s[u] \subseteq active
    BY <1>2
  <2>3. PICK i : i \in s[v]
    BY <1>2
  <2> QED
    BY <2>1, <2>2, <2>3
<1>11. fused = [n \in 1 .. l |-> UNION {s[v] : v \in {u \in DOMAIN s : num[u] = n}}]
  BY <1>9
<1>12. Len(fused) = l /\ \A n \in 1 .. l : fused[n] \in (SUBSET active) \ {{}}
  <2> HIDE DEF fused
  <2>1. l \in Nat
    BY <1>2
  <2> QED
    BY <1>10, <1>11, <2>1
<1> HIDE DEF fused, last
<1>13. \A n \in 1 .. Len(s) : s[n] \in (SUBSET active) \ {{}}
  BY <1>2
<1>14. l \in Nat \ {0}
  BY <1>2
<1>15. g = Dependences(program)
  BY DEF g
<1> DEFINE groups == GroupsAt(g, k, active)
<1>16. groups = s \/ groups = fused
  BY <1>3, <1>6 DEF g
<1> HIDE DEF groups
<1>17. Len(groups) \in Nat \ {0} /\ \A n \in 1 .. Len(groups) : groups[n] \in (SUBSET active) \ {{}}
  BY <1>2, <1>12, <1>13, <1>14, <1>16
<1> QED
  BY <1>17 DEF groups, g

\* r has the constants of lx in the places before k.
KeepsBefore(r, lx, k) == r \in LexicalConstants /\ \A i \in Stmts, j \in 0 .. k - 1 : r[i][j] = lx[i][j]

\* Nothing leads back from a statement to one before it behind the innermost loop: the
\* order of the numbers is one that topoSort may find.
LEMMA InnermostAccepts ==
    ASSUME StmtsAreNumbers, \A c \in program.conflicts : IsConflict(c),
           NEW active \in SUBSET Stmts, active # {}, NEW order \in Int, NEW lx \in LexicalConstants
    PROVE  LET R == Innermost(Dependences(program), active, order, lx)
           IN  R # {} /\ \A r \in R : KeepsBefore(r, lx, Dim)
<1> DEFINE g == Dependences(program)
           c == Cardinality(active)
           es == InnermostEdges(g, active)
           place(q, i) == CHOOSE n \in DOMAIN q : q[n] = i
           set(q) == [i \in Stmts |-> IF i \in active THEN [lx[i] EXCEPT ![Dim] = order + place(q, i) - 1] ELSE lx[i]]
<1>1. Dim \in Nat /\ Dim \in Places /\ 0 .. Dim - 1 \subseteq Places /\ Dim \notin 0 .. Dim - 1
  BY DimAssumption DEF Places
<1>2. \A i \in Stmts : lx[i] \in [Places -> Int]
  BY DEF LexicalConstants
<1>3. active \in SUBSET Nat /\ IsFiniteSet(active) /\ c \in Nat
  BY FS_Subset, FS_CardinalityType DEF StmtsAreNumbers
<1>4. ASSUME NEW f \in [Stmts -> Int]
      PROVE  KeepsBefore([i \in Stmts |-> IF i \in active THEN [lx[i] EXCEPT ![Dim] = f[i]] ELSE lx[i]], lx, Dim)
  <2> DEFINE r == [i \in Stmts |-> IF i \in active THEN [lx[i] EXCEPT ![Dim] = f[i]] ELSE lx[i]]
  <2>1. ASSUME NEW i \in Stmts PROVE r[i] \in [Places -> Int] /\ \A j \in 0 .. Dim - 1 : r[i][j] = lx[i][j]
    <3>1. lx[i] \in [Places -> Int] /\ f[i] \in Int
      BY <1>2
    <3> QED
      BY <1>1, <3>1
  <2>2. r = [i \in Stmts |-> r[i]]
    OBVIOUS
  <2> HIDE DEF r
  <2>3. r \in LexicalConstants
    BY <2>1, <2>2 DEF LexicalConstants
  <2>4. KeepsBefore(r, lx, Dim)
    BY <2>1, <2>3 DEF KeepsBefore
  <2> QED
    BY <2>4 DEF r
<1>5. CASE c = 1
  <2>1. Innermost(g, active, order, lx) =
          {[i \in Stmts |-> IF i \in active THEN [lx[i] EXCEPT ![Dim] = 0] ELSE lx[i]]}
    BY <1>5 DEF Innermost
  <2> DEFINE f == [i \in Stmts |-> 0]
             with(h) == [i \in Stmts |-> IF i \in active THEN [lx[i] EXCEPT ![Dim] = h[i]] ELSE lx[i]]
  <2>2. f \in [Stmts -> Int]
    OBVIOUS
  <2>3. KeepsBefore(with(f), lx, Dim)
    <3> HIDE DEF f
    <3> QED
      BY <1>4, <2>2
  <2>4. with(f) = [i \in Stmts |-> IF i \in active THEN [lx[i] EXCEPT ![Dim] = 0] ELSE lx[i]]
    OBVIOUS
  <2> QED
    BY <2>1, <2>3, <2>4
<1>6. CASE c # 1
  <2>1. Innermost(g, active, order, lx) = {set(q) : q \in TopologicalOrders(active, es)}
    BY <1>6 DEF Innermost, InnermostEdges
  <2>2. \A e \in es : e[1] \in Nat /\ e[2] \in Nat /\ e[1] < e[2]
    <3> SUFFICES ASSUME NEW e \in es PROVE e[1] < e[2] /\ e[1] \in active /\ e[2] \in active
      BY <1>3
    <3>1. e[1] \in active /\ e[2] \in active /\ e[1] # e[2]
      BY DEF InnermostEdges
    <3>2. PICK dv \in getEdge(g, e[1], e[2]) : ~has_been_carried_before(dv, Dim + 1)
      BY DEF InnermostEdges
    <3>3. PICK d \in g : d.from = e[1] /\ d.to = e[2] /\ d.dv = dv
      BY DEF getEdge
    <3>4. PICK cf \in program.conflicts : d \in DependencesOf(program, cf)
      BY DEF Dependences
    <3>5. \A k \in Dims : ~IsDecidedAt(dv, k)
      BY <1>1, <3>2 DEF has_been_carried_before, Dims
    <3>6. d.from < d.to
      BY <3>1, <3>3, <3>4, <3>5, UndecidedPointsForward
    <3> QED
      BY <3>1, <3>3, <3>6
  <2> HIDE DEF es
  <2>3. \E q : q \in TopologicalOrders(active, es)
    <3>1. PICK q : Ascends(q, active)
      BY <1>3, AscendsExists
    <3>2. q \in [1 .. c -> active] /\ \A i, j \in 1 .. c : i < j => q[i] < q[j]
      BY <3>1 DEF Ascends
    <3>3. ASSUME NEW i \in 1 .. c, NEW j \in 1 .. c, i < j
          PROVE  q[i] # q[j] /\ <<q[j], q[i]>> \notin es
      <4>1. q[i] \in Nat /\ q[j] \in Nat /\ q[i] < q[j]
        BY <1>3, <3>2, <3>3
      <4>2. ASSUME <<q[j], q[i]>> \in es PROVE FALSE
        <5>1. q[j] < q[i]
          BY <2>2, <4>2
        <5> QED
          BY <4>1, <5>1
      <4> QED
        BY <4>1, <4>2
    <3> QED
      BY <3>2, <3>3 DEF TopologicalOrders
  <2>4. ASSUME NEW q \in TopologicalOrders(active, es) PROVE KeepsBefore(set(q), lx, Dim)
    <3>1. q \in [1 .. c -> active] /\ \A i, j \in 1 .. c : i < j => q[i] # q[j]
      BY DEF TopologicalOrders
    <3>2. \A i \in active : \E n \in 1 .. c : q[n] = i
      BY <1>3, <3>1, EnumerationIsOnto DEF Enumerates
    <3>3. \A i \in active : place(q, i) \in Int
      BY <1>3, <3>1, <3>2
    <3> DEFINE f == [i \in Stmts |-> IF i \in active THEN order + place(q, i) - 1 ELSE 0]
    <3> HIDE DEF place
    <3>4. f \in [Stmts -> Int]
      BY <3>3
    <3> DEFINE with(h) == [i \in Stmts |-> IF i \in active THEN [lx[i] EXCEPT ![Dim] = h[i]] ELSE lx[i]]
    <3>5. KeepsBefore(with(f), lx, Dim)
      <4> HIDE DEF f
      <4> QED
        BY <1>4, <3>4
    <3>6. with(f) = set(q)
      OBVIOUS
    <3> QED
      BY <3>5, <3>6
  <2> HIDE DEF set
  <2> QED
    BY <2>1, <2>3, <2>4
<1> QED
  BY <1>5, <1>6

\* h is the function of the groups so far by which the groups are gone through.
OneAfterTheOther(h, inner, groups, k, order, lx, m) ==
    h = [n \in 0 .. m |->
           IF n = 0 THEN {lx}
           ELSE UNION {inner[groups[n]][order + n - 1][PlacedAt(l, groups[n], k, order + n - 1)] : l \in h[n - 1]}]

LEMMA OneAfterTheOtherExists ==
    ASSUME NEW inner, NEW groups, NEW k, NEW order, NEW lx, NEW m \in Nat
    PROVE  \E h : OneAfterTheOther(h, inner, groups, k, order, lx, m)
<1> DEFINE With(u, n) == UNION {inner[groups[n]][order + n - 1][PlacedAt(l, groups[n], k, order + n - 1)] : l \in u}
           Ups(h, n) == h = [i \in 0 .. n |-> IF i = 0 THEN {lx} ELSE With(h[i - 1], i)]
           S == {n \in Nat : \E h : Ups(h, n)}
<1> HIDE DEF With
<1>1. 0 \in S
  <2>1. Ups([i \in 0 .. 0 |-> {lx}], 0)
    OBVIOUS
  <2> HIDE DEF Ups
  <2> QED
    BY <2>1
<1>2. ASSUME NEW n \in S PROVE n + 1 \in S
  <2>1. n \in Nat /\ \E h : Ups(h, n)
    OBVIOUS
  <2>2. PICK f : Ups(f, n)
    <3> HIDE DEF Ups
    <3> QED
      BY <2>1
  <2> DEFINE h == [i \in 0 .. n + 1 |-> IF i = n + 1 THEN With(f[n], n + 1) ELSE f[i]]
             At(i) == h[i] = IF i = 0 THEN {lx} ELSE With(h[i - 1], i)
  <2>3. \A i \in 0 .. n : f[i] = IF i = 0 THEN {lx} ELSE With(f[i - 1], i)
    BY <2>2
  <2>4. ASSUME NEW i \in 0 .. n + 1 PROVE At(i)
    <3>1. CASE i = n + 1
      <4>1. i # 0 /\ i - 1 = n /\ n \in 0 .. n + 1 /\ n # n + 1
        BY <2>1, <3>1
      <4>2. h[i] = With(f[n], i) /\ h[i - 1] = f[n]
        BY <3>1, <4>1
      <4> HIDE DEF h
      <4> QED
        BY <4>1, <4>2
    <3>2. CASE i # n + 1
      <4>1. i \in 0 .. n /\ h[i] = f[i]
        BY <2>1, <3>2
      <4>2. i # 0 => i - 1 \in 0 .. n + 1 /\ i - 1 # n + 1 /\ h[i - 1] = f[i - 1]
        BY <2>1, <3>2
      <4> HIDE DEF h
      <4>3. CASE i = 0
        BY <2>3, <4>1, <4>3
      <4>4. CASE i # 0
        BY <2>3, <4>1, <4>2, <4>4
      <4> QED
        BY <4>3, <4>4
    <3> QED
      BY <3>1, <3>2
  <2>5. h = [i \in 0 .. n + 1 |-> h[i]]
    OBVIOUS
  <2> HIDE DEF h
  <2>6. Ups(h, n + 1)
    BY <2>4, <2>5
  <2> HIDE DEF Ups
  <2> QED
    BY <2>1, <2>6
<1> HIDE DEF S
<1>3. S = Nat
  <2>1. S \in SUBSET Nat
    BY DEF S
  <2> QED
    BY <1>1, <1>2, <2>1, EveryNumber
<1>4. PICK h : Ups(h, m)
  <2> HIDE DEF Ups
  <2> QED
    BY <1>3 DEF S
<1> QED
  BY <1>4 DEF OneAfterTheOther, With

\* From constants that agree on active before place k some may be set, and only such that
\* keep those places.
Accepts(orders, active, k) ==
    \A order \in Int, lx \in LexicalConstants :
        ~Differ(lx, active, k) =>
            /\ orders[active][order][lx] # {}
            /\ \A r \in orders[active][order][lx] : KeepsBefore(r, lx, k)

\* What the groups accept one by one they accept one after the other.
LEMMA GroupOrdersAccepts ==
    ASSUME NEW g, NEW k \in 0 .. Dim - 1, NEW inner, NEW active \in SUBSET Stmts, NEW order \in Int,
           NEW lx \in LexicalConstants, ~Differ(lx, active, k),
           LET groups == GroupsAt(g, k, active)
           IN  /\ Len(groups) \in Nat \ {0}
               /\ \A n \in 1 .. Len(groups) :
                      groups[n] \in SUBSET active /\ Accepts(inner, groups[n], k + 1)
    PROVE  LET R == GroupOrders(g, k, inner, active, order, lx)
           IN  R # {} /\ \A r \in R : KeepsBefore(r, lx, k)
<1> DEFINE groups == GroupsAt(g, k, active)
           len == Len(groups)
           upto == CHOOSE h : OneAfterTheOther(h, inner, groups, k, order, lx, len)
<1>1. len \in Nat \ {0} /\ \A n \in 1 .. len : groups[n] \in SUBSET active /\ Accepts(inner, groups[n], k + 1)
  OBVIOUS
<1>2. GroupOrders(g, k, inner, active, order, lx) = upto[len]
  <2>1. groups # <<>>
    BY <1>1
  <2> QED
    BY <2>1 DEF GroupOrders, OneAfterTheOther
<1> HIDE DEF groups, len
<1>3. OneAfterTheOther(upto, inner, groups, k, order, lx, len)
  BY <1>1, OneAfterTheOtherExists
<1> HIDE DEF upto
<1> DEFINE placed(l, n) == PlacedAt(l, groups[n], k, order + n - 1)
           With(n, u) == UNION {inner[groups[n]][order + n - 1][placed(l, n)] : l \in u}
<1>4. upto = [n \in 0 .. len |-> IF n = 0 THEN {lx} ELSE With(n, upto[n - 1])]
  BY <1>3 DEF OneAfterTheOther
<1>5. upto[0] = {lx} /\ \A n \in 0 .. len : n # 0 => upto[n] = With(n, upto[n - 1])
  <2>1. 0 \in 0 .. len
    BY <1>1
  <2> HIDE DEF With
  <2> QED
    BY <1>4, <2>1
<1> DEFINE Sound(u) == u # {} /\ \A r \in u : KeepsBefore(r, lx, k)
           S == {n \in Nat : n <= len => Sound(upto[n])}
<1>6. Dim \in Nat /\ k \in Places /\ k \in Nat /\ 0 .. k - 1 \subseteq Places
  BY DimAssumption DEF Places
<1>7. ASSUME NEW l, KeepsBefore(l, lx, k), NEW n \in 1 .. len
      PROVE  /\ placed(l, n) \in LexicalConstants /\ ~Differ(placed(l, n), groups[n], k + 1)
             /\ \A i \in Stmts, j \in 0 .. k - 1 : placed(l, n)[i][j] = lx[i][j]
  <2> DEFINE o == order + n - 1
             p == PlacedAt(l, groups[n], k, o)
  <2>1. o \in Int
    BY <1>1
  <2>2. groups[n] \in SUBSET active
    BY <1>1
  <2> HIDE DEF o
  <2>3. ASSUME NEW i \in Stmts
        PROVE  /\ p[i] \in [Places -> Int] /\ (i \in groups[n] => p[i][k] = o)
               /\ \A j \in 0 .. k - 1 : p[i][j] = lx[i][j]
    <3>1. l[i] \in [Places -> Int] /\ \A j \in 0 .. k - 1 : l[i][j] = lx[i][j]
      BY <1>7 DEF KeepsBefore, LexicalConstants
    <3>2. p[i] = IF i \in groups[n] THEN [l[i] EXCEPT ![k] = o] ELSE l[i]
      BY DEF PlacedAt
    <3>3. k \notin 0 .. k - 1
      BY <1>6
    <3> HIDE DEF p
    <3> QED
      BY <1>6, <2>1, <3>1, <3>2, <3>3
  <2>4. p = [i \in Stmts |-> p[i]]
    BY DEF PlacedAt
  <2> HIDE DEF p
  <2>5. p \in LexicalConstants
    BY <2>3, <2>4 DEF LexicalConstants
  <2>6. ~Differ(p, groups[n], k + 1)
    <3> SUFFICES ASSUME NEW i \in groups[n], NEW j \in groups[n], NEW m \in 0 .. k + 1 - 1
                 PROVE  p[i][m] = p[j][m]
      BY DEF Differ
    <3>1. i \in active /\ j \in active /\ i \in Stmts /\ j \in Stmts
      BY <2>2
    <3>2. m = k \/ m \in 0 .. k - 1
      BY <1>6
    <3>3. CASE m = k
      BY <2>3, <3>1, <3>3
    <3>4. CASE m \in 0 .. k - 1
      <4>1. lx[i][m] = lx[j][m]
        BY <3>1, <3>4 DEF Differ
      <4> QED
        BY <2>3, <3>1, <3>4, <4>1
    <3> QED
      BY <3>2, <3>3, <3>4
  <2> QED
    BY <2>3, <2>5, <2>6 DEF p, o
<1> HIDE DEF placed
<1>8. 0 \in S
  <2>1. KeepsBefore(lx, lx, k)
    BY DEF KeepsBefore
  <2>2. Sound(upto[0])
    BY <1>5, <2>1
  <2> QED
    BY <2>2
<1>9. ASSUME NEW n \in S PROVE n + 1 \in S
  <2> SUFFICES ASSUME n + 1 <= len PROVE Sound(upto[n + 1])
    OBVIOUS
  <2> DEFINE m == n + 1
             from(l) == inner[groups[m]][order + m - 1][placed(l, m)]
  <2>1. n \in Nat /\ m \in 1 .. len /\ m \in 0 .. len /\ m # 0 /\ m - 1 = n /\ order + m - 1 \in Int
    BY <1>1
  <2>2. Sound(upto[n])
    BY <1>1
  <2> HIDE DEF m
  <2>3. ASSUME NEW l \in upto[n] PROVE from(l) # {} /\ \A r \in from(l) : KeepsBefore(r, lx, k)
    <3>1. KeepsBefore(l, lx, k)
      BY <2>2
    <3>2. /\ placed(l, m) \in LexicalConstants /\ ~Differ(placed(l, m), groups[m], k + 1)
          /\ \A i \in Stmts, j \in 0 .. k - 1 : placed(l, m)[i][j] = lx[i][j]
      BY <1>7, <2>1, <3>1
    <3>3. Accepts(inner, groups[m], k + 1)
      BY <1>1, <2>1
    <3>4. from(l) # {} /\ \A r \in from(l) : KeepsBefore(r, placed(l, m), k + 1)
      BY <2>1, <3>2, <3>3 DEF Accepts
    <3> HIDE DEF from
    <3>5. ASSUME NEW r \in from(l) PROVE KeepsBefore(r, lx, k)
      <4>1. r \in LexicalConstants /\ \A i \in Stmts, j \in 0 .. k + 1 - 1 : r[i][j] = placed(l, m)[i][j]
        BY <3>4 DEF KeepsBefore
      <4>2. \A j \in 0 .. k - 1 : j \in 0 .. k + 1 - 1
        BY <1>6
      <4> QED
        BY <3>2, <4>1, <4>2 DEF KeepsBefore
    <3> QED
      BY <3>4, <3>5
  <2>4. upto[m] = UNION {from(l) : l \in upto[n]}
    <3>1. upto[m] = With(m, upto[n])
      <4> HIDE DEF With
      <4> QED
        BY <1>5, <2>1
    <3> QED
      BY <3>1
  <2> HIDE DEF from
  <2>5. PICK l : l \in upto[n]
    BY <2>2
  <2>6. upto[m] # {}
    BY <2>3, <2>4, <2>5
  <2>7. \A r \in upto[m] : KeepsBefore(r, lx, k)
    BY <2>3, <2>4
  <2> QED
    BY <2>6, <2>7 DEF m
<1> HIDE DEF S
<1>10. S = Nat
  <2>1. S \in SUBSET Nat
    BY DEF S
  <2> QED
    BY <1>8, <1>9, <2>1, EveryNumber
<1>11. Sound(upto[len])
  <2>1. len \in S /\ len <= len
    BY <1>1, <1>10
  <2> QED
    BY <2>1 DEF S
<1> QED
  BY <1>2, <1>11

\* setLexicalOrder accepts every set of statements at every place of the program's own
\* graph, by induction on the loops behind the place.
LEMMA SetLexicalOrderAccepts ==
    ASSUME InTextOrder(program), StmtsAreNumbers, program.loops \in [Stmts -> [Dims -> Nat]],
           \A c \in program.conflicts : IsConflict(c),
           NEW place \in 0 .. Dim, NEW first \in Int, NEW lx \in LexicalConstants,
           NEW active \in SUBSET Stmts, active # {}, ~Differ(lx, active, place)
    PROVE  LET R == SetLexicalOrder(Dependences(program), place, active, first, lx)
           IN  R # {} /\ \A r \in R : KeepsBefore(r, lx, place)
<1> DEFINE g == Dependences(program)
           set == CHOOSE h : Descends(g, Dim, h)
           Good(n) == \A a \in (SUBSET Stmts) \ {{}} : Accepts(set[n], a, Dim - n)
           S == {n \in Nat : n <= Dim => Good(n)}
<1>1. Dim \in Nat
  BY DimAssumption
<1>2. SetLexicalOrder(g, place, active, first, lx) = set[Dim - place][active][first][lx]
  BY DEF SetLexicalOrder, Descends
<1> HIDE DEF g
<1>3. Descends(g, Dim, set)
  BY <1>1, DescendsExists
<1> HIDE DEF set
<1>4. \A n \in 0 .. Dim : set[n] = OrdersWith(g, n, IF n = 0 THEN <<>> ELSE set[n - 1])
  BY <1>3 DEF Descends
<1>5. ASSUME NEW n \in 0 .. Dim, NEW a \in SUBSET Stmts, NEW o \in Int, NEW l \in LexicalConstants
      PROVE  set[n][a][o][l] = IF Differ(l, a, Dim - n) THEN {}
                               ELSE IF n = 0 THEN Innermost(g, a, o, l)
                               ELSE GroupOrders(g, Dim - n, set[n - 1], a, o, l)
  <2>1. set[n] = OrdersWith(g, n, IF n = 0 THEN <<>> ELSE set[n - 1])
    BY <1>4
  <2>2. CASE n = 0
    BY <2>1, <2>2 DEF OrdersWith
  <2>3. CASE n # 0
    BY <2>1, <2>3 DEF OrdersWith
  <2> QED
    BY <2>2, <2>3
<1>6. 0 \in S
  <2>1. Dim - 0 = Dim
    BY <1>1
  <2>2. ASSUME NEW a \in (SUBSET Stmts) \ {{}}, NEW o \in Int, NEW l \in LexicalConstants, ~Differ(l, a, Dim)
        PROVE  set[0][a][o][l] # {} /\ \A r \in set[0][a][o][l] : KeepsBefore(r, l, Dim)
    <3>1. set[0][a][o][l] = Innermost(g, a, o, l)
      BY <1>1, <1>5, <2>1, <2>2
    <3> QED
      BY <3>1, InnermostAccepts DEF g
  <2>3. \A a \in (SUBSET Stmts) \ {{}} : Accepts(set[0], a, Dim)
    BY <2>2 DEF Accepts
  <2>4. Good(0)
    BY <2>1, <2>3
  <2> HIDE DEF Good
  <2> QED
    BY <2>4
<1>7. ASSUME NEW n \in S PROVE n + 1 \in S
  <2> DEFINE k == Dim - (n + 1)
  <2> n \in Nat
    OBVIOUS
  <2> SUFFICES ASSUME n + 1 <= Dim PROVE Good(n + 1)
    OBVIOUS
  <2>1. SUFFICES ASSUME NEW a \in (SUBSET Stmts) \ {{}}, NEW o \in Int,
                        NEW l \in LexicalConstants, ~Differ(l, a, k)
                 PROVE  set[n + 1][a][o][l] # {} /\ \A r \in set[n + 1][a][o][l] : KeepsBefore(r, l, k)
    BY DEF Accepts
  <2>2. n \in Nat /\ n + 1 \in 0 .. Dim /\ (n + 1) - 1 = n /\ n + 1 # 0 /\ k \in 0 .. Dim - 1 /\ k + 1 = Dim - n
    <3> HIDE DEF S, Good
    <3>1. n \in Nat /\ n + 1 <= Dim
      OBVIOUS
    <3> QED
      BY <1>1, <3>1
  <2>3. Good(n)
    BY <1>1, <2>1
  <2> HIDE DEF k
  <2>4. set[n + 1][a][o][l] = GroupOrders(g, k, set[n], a, o, l)
    BY <1>5, <2>1, <2>2 DEF k
  <2> DEFINE groups == GroupsAt(g, k, a)
  <2>5. Len(groups) \in Nat \ {0} /\ \A m \in 1 .. Len(groups) : groups[m] \in (SUBSET a) \ {{}}
    BY <2>2, GroupsAtIs DEF g
  <2>6. \A m \in 1 .. Len(groups) : groups[m] \in SUBSET a /\ Accepts(set[n], groups[m], k + 1)
    <3> SUFFICES ASSUME NEW m \in 1 .. Len(groups)
                 PROVE  groups[m] \in SUBSET a /\ Accepts(set[n], groups[m], k + 1)
      OBVIOUS
    <3>1. groups[m] \in (SUBSET a) \ {{}}
      BY <2>5
    <3> HIDE DEF groups
    <3>2. groups[m] \in (SUBSET Stmts) \ {{}}
      BY <3>1
    <3> QED
      BY <2>2, <2>3, <3>1, <3>2
  <2> HIDE DEF g
  <2>7. LET R == GroupOrders(g, k, set[n], a, o, l) IN R # {} /\ \A r \in R : KeepsBefore(r, l, k)
    BY <2>1, <2>2, <2>5, <2>6, GroupOrdersAccepts
  <2> QED
    BY <2>4, <2>7
<1> HIDE DEF S
<1>8. S = Nat
  <2>1. S \in SUBSET Nat
    BY DEF S
  <2> QED
    BY <1>6, <1>7, <2>1, EveryNumber
<1>9. Good(Dim - place)
  <2>1. Dim - place \in S /\ Dim - place <= Dim
    BY <1>1, <1>8
  <2> QED
    BY <2>1 DEF S
<1>10. Accepts(set[Dim - place], active, place)
  <2>1. Dim - (Dim - place) = place
    BY <1>1
  <2>2. active \in (SUBSET Stmts) \ {{}}
    OBVIOUS
  <2> QED
    BY <1>9, <2>1, <2>2
<1>11. set[Dim - place][active][first][lx] # {} /\ \A r \in set[Dim - place][active][first][lx] : KeepsBefore(r, lx, place)
  BY <1>10 DEF Accepts
<1> QED
  BY <1>2, <1>11 DEF g

\* Before the first command the graph is the program's and no constants are set; only
\* that command does not count as one that may throw.
BeforeOriginal ==
    /\ program \in Programs
    /\ steps \in Nat
    /\ steps = 0 => ~raised /\ dep = Dependences(program) /\ lex = [s \in Stmts |-> [k \in Places |-> 0]]
    /\ raised => steps > 1

\* original finds constants.
LEMMA OriginalFinds ==
    ASSUME ProgramsFit, ProgramsInTextOrder, BeforeOriginal, steps = 0
    PROVE  SetLexicalOrder(dep, 0, Stmts, 0, lex) # {}
<1>1. InTextOrder(program) /\ Stmts # {}
  BY DEF ProgramsInTextOrder, BeforeOriginal, InTextOrder, Stmts
<1>2. StmtsAreNumbers /\ program.loops \in [Stmts -> [Dims -> Nat]]
  BY DEF ProgramsFit, BeforeOriginal, StmtsAreNumbers, Stmts
<1>3. \A c \in program.conflicts : IsConflict(c)
  BY DEF ProgramsFit, BeforeOriginal, IsConflict, Stmts
<1>4. lex \in LexicalConstants /\ ~Differ(lex, Stmts, 0)
  BY DEF BeforeOriginal, LexicalConstants, Differ
<1>5. 0 \in 0 .. Dim /\ 0 \in Int /\ Stmts \in SUBSET Stmts
  BY DimAssumption
<1>6. SetLexicalOrder(Dependences(program), 0, Stmts, 0, lex) # {}
  BY <1>1, <1>2, <1>3, <1>4, <1>5, SetLexicalOrderAccepts
<1> QED
  BY <1>6 DEF BeforeOriginal

LEMMA NextBeforeOriginal ==
    ASSUME ProgramsFit, ProgramsInTextOrder, BeforeOriginal, [Next]_vars
    PROVE  BeforeOriginal'
<1>1. CASE Original
  <2>1. steps = 0 /\ ~raised /\ steps' = 1 /\ program' = program
    BY <1>1 DEF Original
  <2>2. raised' = raised
    <3>1. SetLexicalOrder(dep, 0, Stmts, 0, lex) # {}
      BY <2>1, OriginalFinds
    <3> QED
      BY <1>1, <3>1 DEF Original, SetsOrder
  <2> QED
    BY <2>1, <2>2 DEF BeforeOriginal
<1>2. ASSUME NEW command, May(command) PROVE BeforeOriginal'
  <2>1. steps \in 1 .. script.steps /\ steps' = steps + 1 /\ program' = program
    BY <1>2 DEF May
  <2>2. steps \in Nat
    BY DEF BeforeOriginal
  <2>3. script.steps \in Nat
    BY DEF BeforeOriginal, ProgramsFit, script
  <2>4. steps' \in Nat /\ steps' > 1
    BY <2>1, <2>2, <2>3
  <2> QED
    BY <2>1, <2>4 DEF BeforeOriginal
<1>3. CASE UNCHANGED vars
  BY <1>3 DEF BeforeOriginal, vars, xform, Stmts, Dependences
<1>4. Next => Original \/ \E command : May(command)
  BY DEF Next, PermuteAll, Permute, PermuteSet, skew, Reverse, scale, Shift, fuse, distribute
<1> QED
  BY <1>1, <1>2, <1>3, <1>4

\* The first command of a script never throws, whatever the program: a dependence that no
\* common loop decides leads to a later statement, so that the groups of each loop, which
\* come in the order of the text, are fused without a cycle and what is behind the
\* innermost loop has a topological order (Loop::original, Loop::setLexicalOrder).
THEOREM OriginalTakesEveryProgram ==
    ASSUME ProgramsFit, ProgramsInTextOrder
    PROVE  Spec => []OriginalAccepts
<1>1. Init => BeforeOriginal
  BY DEF Init, BeforeOriginal
<1>2. BeforeOriginal /\ [Next]_vars => BeforeOriginal'
  BY NextBeforeOriginal
<1>3. BeforeOriginal => OriginalAccepts
  BY DEF BeforeOriginal, OriginalAccepts
<1> QED
  BY <1>1, <1>2, <1>3, PTL DEF Spec
=============================================================================
