----------------------- MODULE DependenceVectorProofs -----------------------
(***************************************************************************)
(* Proofs about DependenceVector, for every number of dimensions and every *)
(* infinity: what normalize splits a vector into.                          *)
(***************************************************************************)
EXTENDS DependenceVector, FusionGroupsProofs

\* The bounds of vectors are bounds, and integers.
LEMMA Integral ==
    ASSUME NEW dv \in DependenceVectors, NEW k \in Dims
    PROVE  k \in Nat /\ dv.lbounds[k] \in Int /\ dv.ubounds[k] \in Int
BY DimAssumption, InfAssumption DEF Dims, Bounds, DependenceVectors

LEMMA WithZeroType ==
    ASSUME NEW dv \in DependenceVectors, NEW Z
    PROVE  /\ WithZero(dv, Z) \in DependenceVectors
           /\ WithZero(dv, Z).quasi = dv.quasi
<1>1. 0 \in Bounds
  BY InfAssumption DEF Bounds
<1>2. /\ [i \in Dims |-> IF i \in Z THEN 0 ELSE dv.lbounds[i]] \in [Dims -> Bounds]
      /\ [i \in Dims |-> IF i \in Z THEN 0 ELSE dv.ubounds[i]] \in [Dims -> Bounds]
  BY <1>1 DEF DependenceVectors
<1> QED
  BY <1>2 DEF DependenceVectors, WithZero

LEMMA NormalizedType ==
    ASSUME NEW dv \in DependenceVectors, NEW v \in normalize(dv)
    PROVE  v \in DependenceVectors /\ v.quasi = dv.quasi
<1>1. 1 \in Bounds /\ -1 \in Bounds
  BY InfAssumption DEF Bounds
<1>2. CASE v = ZeroPart(dv)
  BY <1>2, WithZeroType DEF ZeroPart
<1>3. CASE \E i \in Dims : v = NegativePart(dv, i)
  <2>1. PICK i \in Dims : v = NegativePart(dv, i)
    BY <1>3
  <2> DEFINE w == WithZero(dv, Before(i))
  <2>2. w \in DependenceVectors /\ w.quasi = dv.quasi
    BY WithZeroType
  <2>3. [w EXCEPT !.ubounds[i] = -1] \in DependenceVectors /\ [w EXCEPT !.ubounds[i] = -1].quasi = w.quasi
    <3> HIDE DEF w
    <3> QED  BY <2>2, <1>1 DEF DependenceVectors
  <2> QED
    BY <2>1, <2>2, <2>3 DEF NegativePart
<1>4. CASE \E i \in Dims : v = PositivePart(dv, i)
  <2>1. PICK i \in Dims : v = PositivePart(dv, i)
    BY <1>4
  <2> DEFINE w == WithZero(dv, Before(i))
  <2>2. w \in DependenceVectors /\ w.quasi = dv.quasi
    BY WithZeroType
  <2>3. [w EXCEPT !.lbounds[i] = 1] \in DependenceVectors /\ [w EXCEPT !.lbounds[i] = 1].quasi = w.quasi
    <3> HIDE DEF w
    <3> QED  BY <2>2, <1>1 DEF DependenceVectors
  <2> QED
    BY <2>1, <2>2, <2>3 DEF PositivePart
<1> QED
  BY <1>2, <1>3, <1>4 DEF normalize

LEMMA WithZeroBounds ==
    ASSUME NEW dv \in DependenceVectors, NEW Z, NEW k \in Dims
    PROVE  /\ WithZero(dv, Z).lbounds[k] = IF k \in Z THEN 0 ELSE dv.lbounds[k]
           /\ WithZero(dv, Z).ubounds[k] = IF k \in Z THEN 0 ELSE dv.ubounds[k]
<1> DEFINE lb == [i \in Dims |-> IF i \in Z THEN 0 ELSE dv.lbounds[i]]
           ub == [i \in Dims |-> IF i \in Z THEN 0 ELSE dv.ubounds[i]]
<1>1. WithZero(dv, Z) = [dv EXCEPT !.lbounds = lb, !.ubounds = ub]
  BY DEF WithZero
<1>2. lb[k] = (IF k \in Z THEN 0 ELSE dv.lbounds[k]) /\ ub[k] = IF k \in Z THEN 0 ELSE dv.ubounds[k]
  OBVIOUS
<1> HIDE DEF lb, ub
<1> QED
  BY <1>1, <1>2 DEF DependenceVectors

LEMMA NegativeBounds ==
    ASSUME NEW dv \in DependenceVectors, NEW i \in Dims, NEW k \in Dims
    PROVE  /\ NegativePart(dv, i).lbounds[k] = IF k < i THEN 0 ELSE dv.lbounds[k]
           /\ NegativePart(dv, i).ubounds[k] = IF k = i THEN -1
                                               ELSE IF k < i THEN 0 ELSE dv.ubounds[k]
<1> DEFINE w == WithZero(dv, Before(i))
<1>1. w \in DependenceVectors
  BY WithZeroType
<1>2. NegativePart(dv, i) = [w EXCEPT !.ubounds[i] = -1]
  BY DEF NegativePart
<1>3. /\ w.lbounds[k] = IF k < i THEN 0 ELSE dv.lbounds[k]
      /\ w.ubounds[k] = IF k < i THEN 0 ELSE dv.ubounds[k]
  BY WithZeroBounds DEF Before
<1> HIDE DEF w
<1> QED
  BY <1>1, <1>2, <1>3 DEF DependenceVectors

LEMMA PositiveBounds ==
    ASSUME NEW dv \in DependenceVectors, NEW i \in Dims, NEW k \in Dims
    PROVE  /\ PositivePart(dv, i).ubounds[k] = IF k < i THEN 0 ELSE dv.ubounds[k]
           /\ PositivePart(dv, i).lbounds[k] = IF k = i THEN 1
                                               ELSE IF k < i THEN 0 ELSE dv.lbounds[k]
<1> DEFINE w == WithZero(dv, Before(i))
<1>1. w \in DependenceVectors
  BY WithZeroType
<1>2. PositivePart(dv, i) = [w EXCEPT !.lbounds[i] = 1]
  BY DEF PositivePart
<1>3. /\ w.lbounds[k] = IF k < i THEN 0 ELSE dv.lbounds[k]
      /\ w.ubounds[k] = IF k < i THEN 0 ELSE dv.ubounds[k]
  BY WithZeroBounds DEF Before
<1> HIDE DEF w
<1> QED
  BY <1>1, <1>2, <1>3 DEF DependenceVectors

\* The distance x is zero before dimension i.
ZeroBefore(x, i) == \A j \in Dims : j < i => x[j] = 0

\* Which distances the parts admit.
LEMMA PartAdmits ==
    ASSUME NEW dv \in DependenceVectors, NEW x \in [Dims -> Int], Admits(dv, x),
           NEW i \in Dims
    PROVE  /\ Admits(NegativePart(dv, i), x) <=> x[i] < 0 /\ ZeroBefore(x, i)
           /\ Admits(PositivePart(dv, i), x) <=> x[i] > 0 /\ ZeroBefore(x, i)
           /\ Admits(ZeroPart(dv), x) <=> \A k \in Dims : IsOpenBefore(dv, k + 1) => x[k] = 0
<1>1. \A k \in Dims : x[k] \in Int /\ k \in Nat
  BY DimAssumption DEF Dims
<1>2. Inf \in Nat /\ Inf > 0
  BY InfAssumption
<1>3. \A k \in Dims : /\ dv.lbounds[k] = -Inf \/ dv.lbounds[k] <= x[k]
                      /\ dv.ubounds[k] = Inf \/ x[k] <= dv.ubounds[k]
  BY DEF Admits
<1>4. Admits(NegativePart(dv, i), x) <=> x[i] < 0 /\ ZeroBefore(x, i)
  <2> DEFINE v == NegativePart(dv, i)
  <2>1. \A k \in Dims : /\ v.lbounds[k] = IF k < i THEN 0 ELSE dv.lbounds[k]
                        /\ v.ubounds[k] = IF k = i THEN -1 ELSE IF k < i THEN 0 ELSE dv.ubounds[k]
    BY NegativeBounds
  <2> HIDE DEF v
  <2>2. ASSUME Admits(v, x) PROVE x[i] < 0 /\ ZeroBefore(x, i)
    BY <1>1, <1>2, <2>1, <2>2 DEF Admits, ZeroBefore
  <2>3. ASSUME x[i] < 0, ZeroBefore(x, i) PROVE Admits(v, x)
    BY <1>1, <1>2, <1>3, <2>1, <2>3 DEF Admits, ZeroBefore
  <2> QED
    BY <2>2, <2>3 DEF v
<1>5. Admits(PositivePart(dv, i), x) <=> x[i] > 0 /\ ZeroBefore(x, i)
  <2> DEFINE v == PositivePart(dv, i)
  <2>1. \A k \in Dims : /\ v.ubounds[k] = IF k < i THEN 0 ELSE dv.ubounds[k]
                        /\ v.lbounds[k] = IF k = i THEN 1 ELSE IF k < i THEN 0 ELSE dv.lbounds[k]
    BY PositiveBounds
  <2> HIDE DEF v
  <2>2. ASSUME Admits(v, x) PROVE x[i] > 0 /\ ZeroBefore(x, i)
    BY <1>1, <1>2, <2>1, <2>2 DEF Admits, ZeroBefore
  <2>3. ASSUME x[i] > 0, ZeroBefore(x, i) PROVE Admits(v, x)
    BY <1>1, <1>2, <1>3, <2>1, <2>3 DEF Admits, ZeroBefore
  <2> QED
    BY <2>2, <2>3 DEF v
<1>6. Admits(ZeroPart(dv), x) <=> \A k \in Dims : IsOpenBefore(dv, k + 1) => x[k] = 0
  <2> DEFINE v == ZeroPart(dv)
  <2>1. \A k \in Dims : /\ v.lbounds[k] = IF IsOpenBefore(dv, k + 1) THEN 0 ELSE dv.lbounds[k]
                        /\ v.ubounds[k] = IF IsOpenBefore(dv, k + 1) THEN 0 ELSE dv.ubounds[k]
    BY WithZeroBounds DEF ZeroPart
  <2> HIDE DEF v
  <2>2. ASSUME Admits(v, x), NEW k \in Dims, IsOpenBefore(dv, k + 1) PROVE x[k] = 0
    BY <1>1, <1>2, <2>1, <2>2 DEF Admits
  <2>3. ASSUME \A k \in Dims : IsOpenBefore(dv, k + 1) => x[k] = 0 PROVE Admits(v, x)
    BY <1>1, <1>2, <1>3, <2>1, <2>3 DEF Admits
  <2> QED
    BY <2>2, <2>3 DEF v
<1> QED
  BY <1>4, <1>5, <1>6

\* A distance goes to the part of the first dimension in which it is not zero, if that
\* is not after the first that excludes zero.
LEMMA NormalizeLosesNone ==
    ASSUME NEW dv \in DependenceVectors, NEW x \in [Dims -> Int], Admits(dv, x)
    PROVE  \E v \in normalize(dv) : Admits(v, x)
<1> DEFINE T == {k \in Dims : IsOpenBefore(dv, k + 1) /\ x[k] # 0}
<1>1. CASE T = {}
  <2>1. \A k \in Dims : IsOpenBefore(dv, k + 1) => x[k] = 0
    BY <1>1
  <2>2. CASE Dims = {}
    <3>1. Admits(ZeroPart(dv), x)
      BY <2>2 DEF Admits
    <3> QED
      BY <3>1 DEF normalize
  <2>3. CASE Dims # {}
    <3>1. Admits(ZeroPart(dv), x)
      BY <2>1, <2>3, PartAdmits
    <3> QED
      BY <3>1 DEF normalize
  <2> QED
    BY <2>2, <2>3
<1>2. CASE T # {}
  <2>1. T \in SUBSET Nat
    BY DimAssumption DEF Dims
  <2>2. PICK i \in T : \A k \in T : i <= k
    <3> HIDE DEF T
    <3> QED
      BY <1>2, <2>1, SmallestNumber
  <2>3. \A k \in Dims : k \in Nat /\ x[k] \in Int
    BY DimAssumption DEF Dims
  <2>4. ASSUME NEW j \in Dims, j < i PROVE x[j] = 0
    <3>1. \A k \in 1 .. j : k \in 1 .. i
      BY <2>3, <2>4
    <3>2. IsOpenBefore(dv, j + 1)
      BY <2>3, <3>1 DEF IsOpenBefore
    <3> QED
      BY <2>2, <2>3, <2>4, <3>2
  <2>5. ZeroBefore(x, i)
    BY <2>4 DEF ZeroBefore
  <2>6. /\ dv.lbounds[i] = -Inf \/ dv.lbounds[i] <= x[i]
        /\ dv.ubounds[i] = Inf \/ x[i] <= dv.ubounds[i]
        /\ dv.lbounds[i] \in Int /\ dv.ubounds[i] \in Int
    BY Integral DEF Admits
  <2>7. CASE x[i] < 0
    <3>1. dv.lbounds[i] < 0
      BY <2>3, <2>6, <2>7, InfAssumption
    <3>2. NegativePart(dv, i) \in normalize(dv)
      BY <3>1 DEF normalize
    <3> QED
      BY <2>5, <2>7, <3>2, PartAdmits
  <2>8. CASE x[i] > 0
    <3>1. dv.ubounds[i] > 0
      BY <2>3, <2>6, <2>8, InfAssumption
    <3>2. PositivePart(dv, i) \in normalize(dv)
      BY <3>1 DEF normalize
    <3> QED
      BY <2>5, <2>8, <3>2, PartAdmits
  <2> QED
    BY <2>3, <2>7, <2>8
<1> QED
  BY <1>1, <1>2

LEMMA NormalizeDoublesNone ==
    ASSUME NEW dv \in DependenceVectors, NEW x \in [Dims -> Int], Admits(dv, x),
           NEW v \in normalize(dv), NEW w \in normalize(dv), Admits(v, x), Admits(w, x)
    PROVE  v = w
<1> DEFINE Led(u, i) == /\ IsOpenBefore(dv, i + 1) /\ ZeroBefore(x, i)
                        /\ \/ u = NegativePart(dv, i) /\ x[i] < 0
                           \/ u = PositivePart(dv, i) /\ x[i] > 0
           Zero(u) == u = ZeroPart(dv) /\ \A k \in Dims : IsOpenBefore(dv, k + 1) => x[k] = 0
<1>1. \A k \in Dims : k \in Nat /\ x[k] \in Int
  BY DimAssumption DEF Dims
<1>2. ASSUME NEW u \in normalize(dv), Admits(u, x)
      PROVE  Zero(u) \/ \E i \in Dims : Led(u, i)
  <2>1. CASE u = ZeroPart(dv)
    BY <1>2, <2>1, PartAdmits
  <2>2. CASE \E i \in Dims : IsOpenBefore(dv, i + 1) /\ u = NegativePart(dv, i)
    BY <1>2, <2>2, PartAdmits
  <2>3. CASE \E i \in Dims : IsOpenBefore(dv, i + 1) /\ u = PositivePart(dv, i)
    BY <1>2, <2>3, PartAdmits
  <2> QED
    BY <1>2, <2>1, <2>2, <2>3 DEF normalize
<1>3. ASSUME NEW i \in Dims, NEW j \in Dims, Led(v, i), Led(w, j)
      PROVE  v = w
  <2>1. x[i] # 0 /\ x[j] # 0
    BY <1>1, <1>3
  <2>2. i = j
    BY <1>1, <1>3, <2>1 DEF ZeroBefore
  <2> QED
    BY <1>1, <1>3, <2>2
<1>4. ASSUME NEW i \in Dims, NEW u, Led(u, i), Zero(ZeroPart(dv))
      PROVE  FALSE
  BY <1>1, <1>4
<1> HIDE DEF Led
<1> QED
  BY <1>2, <1>3, <1>4
=============================================================================
