------------------------- MODULE DependencesProofs -------------------------
(***************************************************************************)
(* Proofs about Dependences, for every number of dimensions and every      *)
(* infinity.                                                               *)
(***************************************************************************)
EXTENDS Dependences, DependenceVectorProofs

\* The vectors are vectors, and the accepted permutations keep the distance within
\* the bounds of the vector that is followed.
IInv ==
    /\ TypeOK
    /\ vector.quasi = FALSE
    /\ Admits(vector, distance)
    /\ StaysForward

-----------------------------------------------------------------------------
\* permute gives vectors of the same dimensions and bounds.
LEMMA PermutedType ==
    ASSUME NEW dv \in DependenceVectors, NEW pi \in Permutations
    PROVE  /\ Permuted(dv, pi) \in DependenceVectors
           /\ Permuted(dv, pi).quasi = dv.quasi
BY DEF DependenceVectors, Permutations, Permuted

\* A permutation that turns a distance round is refused: the dimension in which it
\* turns negative has a negative lower bound, and none before it a positive one.
LEMMA ReversalIsViolation ==
    ASSUME NEW dv \in DependenceVectors, NEW x \in [Dims -> Distances], Admits(dv, x),
           NEW pi \in Permutations, IsNegative([i \in Dims |-> x[pi[i]]])
    PROVE  IsViolated(dv, pi)
<1> DEFINE y == [i \in Dims |-> x[pi[i]]]
           p == Permuted(dv, pi)
<1>1. PICK i \in Dims : y[i] < 0 /\ \A j \in 1 .. i - 1 : y[j] = 0
  BY DEF IsNegative
<1>2. \A k \in Dims : pi[k] \in Dims /\ y[k] = x[pi[k]] /\ p.lbounds[k] = dv.lbounds[pi[k]]
  BY DEF Permutations, Permuted, DependenceVectors
<1>3. \A k \in Dims : dv.lbounds[k] = -Inf \/ dv.lbounds[k] <= x[k]
  BY DEF Admits
<1>4. \A k \in Dims : x[k] \in Int /\ dv.lbounds[k] \in Int
  <2>1. Distances \subseteq Int
    BY InfAssumption DEF Distances
  <2>2. Bounds \subseteq Int
    BY InfAssumption DEF Bounds
  <2>3. dv.lbounds \in [Dims -> Bounds]
    BY DEF DependenceVectors
  <2> QED
    BY <2>1, <2>2, <2>3
<1>5. \A k \in Dims : p.lbounds[k] = -Inf \/ p.lbounds[k] <= y[k]
  BY <1>2, <1>3
<1>6. \A k \in Dims : y[k] \in Int /\ p.lbounds[k] \in Int
  BY <1>2, <1>4
<1> HIDE DEF y, p
<1>7. p.lbounds[i] < 0
  BY <1>1, <1>5, <1>6, InfAssumption
<1>8. \A j \in 1 .. i - 1 : j \in Dims
  BY DimAssumption DEF Dims
<1>9. \A j \in 1 .. i - 1 : p.lbounds[j] <= 0
  BY <1>1, <1>5, <1>6, <1>8, InfAssumption
<1> QED
  BY <1>7, <1>9 DEF IsViolated, p

-----------------------------------------------------------------------------
(* What permute splits a vector into.                                      *)

LEMMA SplitExactly ==
    ASSUME NEW dv \in DependenceVectors, NEW x \in [Dims -> Distances], Admits(dv, x),
           NEW pi \in Permutations
    PROVE  LET y == [i \in Dims |-> x[pi[i]]]
           IN  /\ \E v \in permute(dv, pi) : Admits(v, y)
               /\ \A v, w \in permute(dv, pi) : Admits(v, y) /\ Admits(w, y) => v = w
<1> DEFINE y == [i \in Dims |-> x[pi[i]]]
           p == Permuted(dv, pi)
<1>1. p \in DependenceVectors /\ y \in [Dims -> Int]
  BY PermutedType, InfAssumption DEF Permutations, Distances
<1>2. \A k \in Dims : /\ pi[k] \in Dims /\ y[k] = x[pi[k]]
                      /\ p.lbounds[k] = dv.lbounds[pi[k]] /\ p.ubounds[k] = dv.ubounds[pi[k]]
  BY DEF Permutations, Permuted, DependenceVectors
<1>3. Admits(p, y)
  <2> HIDE DEF p, y
  <2> QED
    BY <1>2 DEF Admits
<1> HIDE DEF p, y
<1>4. \E v \in permute(dv, pi) : Admits(v, y)
  BY <1>1, <1>3, NormalizeLosesNone DEF permute, p
<1>5. \A v, w \in permute(dv, pi) : Admits(v, y) /\ Admits(w, y) => v = w
  BY <1>1, <1>3, NormalizeDoublesNone DEF permute, p
<1> QED
  BY <1>4, <1>5 DEF y

\* A permutation that is not refused leaves vectors whose first distance that is not
\* zero is positive: a part that is negative first would have been a violation.
LEMMA PartsAreNormalized ==
    ASSUME NEW dv \in DependenceVectors, NEW x \in [Dims -> Distances], Admits(dv, x),
           NEW pi \in Permutations, ~IsViolated(dv, pi), NEW v \in permute(dv, pi)
    PROVE  IsNormalized(v)
<1> DEFINE p == Permuted(dv, pi)
<1>1. p \in DependenceVectors /\ v \in normalize(p)
  BY PermutedType DEF permute
<1>2. \A i \in Dims : p.lbounds[i] < 0 => \E j \in 1 .. i - 1 : ~(p.lbounds[j] <= 0)
  BY DEF IsViolated
<1>3. \A i \in Dims : p.ubounds[i] < 0 => p.lbounds[i] < 0
  <2> SUFFICES ASSUME NEW i \in Dims, p.ubounds[i] < 0 PROVE p.lbounds[i] < 0
    OBVIOUS
  <2>1. pi[i] \in Dims /\ p.lbounds[i] = dv.lbounds[pi[i]] /\ p.ubounds[i] = dv.ubounds[pi[i]]
    BY DEF Permutations, Permuted, DependenceVectors
  <2> DEFINE k == pi[i]
  <2>2. /\ dv.lbounds[k] \in Int /\ dv.ubounds[k] \in Int /\ x[k] \in Int
        /\ dv.lbounds[k] = -Inf \/ dv.lbounds[k] <= x[k]
        /\ dv.ubounds[k] = Inf \/ x[k] <= dv.ubounds[k]
    BY <2>1, Integral, InfAssumption DEF Admits, Distances
  <2> HIDE DEF k, p
  <2> QED
    BY <2>1, <2>2, InfAssumption DEF k
<1> HIDE DEF p
<1>4. \A k \in Dims : k \in Nat /\ k >= 1 /\ p.lbounds[k] \in Int /\ p.ubounds[k] \in Int
  BY <1>1, Integral, DimAssumption DEF Dims
<1>5. \A i \in Dims : \A j \in 1 .. i - 1 : j \in Dims /\ j < i
  BY DimAssumption DEF Dims
<1>6. CASE v = ZeroPart(p)
  <2>1. \A k \in Dims : /\ v.lbounds[k] = IF IsOpenBefore(p, k + 1) THEN 0 ELSE p.lbounds[k]
                        /\ v.ubounds[k] = IF IsOpenBefore(p, k + 1) THEN 0 ELSE p.ubounds[k]
    BY <1>1, <1>6, WithZeroBounds DEF ZeroPart
  <2> SUFFICES ASSUME NEW i \in Dims, \A j \in 1 .. i - 1 : v.lbounds[j] = 0 /\ v.ubounds[j] = 0
               PROVE  v.lbounds[i] > 0 \/ (v.lbounds[i] = 0 /\ v.ubounds[i] = 0)
    BY DEF IsNormalized
  <2>2. CASE IsOpenBefore(p, i + 1)
    BY <2>1, <2>2
  <2>3. CASE ~IsOpenBefore(p, i + 1)
    <3>1. PICK j \in 1 .. i : IsDecidedAt(p, j)
      BY <1>4, <2>3 DEF IsOpenBefore
    <3>2. j \in Dims /\ ~IsOpenBefore(p, j + 1)
      BY <1>4, <1>5, <3>1 DEF IsOpenBefore
    <3>3. ~(v.lbounds[j] = 0 /\ v.ubounds[j] = 0)
      BY <1>4, <2>1, <3>1, <3>2 DEF IsDecidedAt, IsPositiveAt, IsNegativeAt
    <3>4. j = i
      BY <1>4, <3>1, <3>3
    <3>5. \A k \in 1 .. i - 1 : p.lbounds[k] <= 0
      <4> SUFFICES ASSUME NEW k \in 1 .. i - 1 PROVE p.lbounds[k] <= 0
        OBVIOUS
      <4>1. k \in Dims /\ k \in Nat /\ k >= 1 /\ v.lbounds[k] = 0
        BY <1>4, <1>5
      <4>2. CASE IsOpenBefore(p, k + 1)
        <5>1. ~IsDecidedAt(p, k)
          BY <4>1, <4>2 DEF IsOpenBefore
        <5> QED
          BY <1>4, <4>1, <5>1 DEF IsDecidedAt, IsPositiveAt
      <4>3. CASE ~IsOpenBefore(p, k + 1)
        BY <1>4, <2>1, <4>1, <4>3
      <4> QED
        BY <4>2, <4>3
    <3>6. p.lbounds[i] > 0
      BY <1>2, <1>3, <1>4, <3>1, <3>4, <3>5 DEF IsDecidedAt, IsPositiveAt, IsNegativeAt
    <3> QED
      BY <2>1, <2>3, <3>6
  <2> QED
    BY <2>2, <2>3
<1>7. ASSUME NEW i \in Dims, IsOpenBefore(p, i + 1), p.lbounds[i] < 0 PROVE FALSE
  <2>1. PICK j \in 1 .. i - 1 : ~(p.lbounds[j] <= 0)
    BY <1>2, <1>7
  <2>2. j \in 1 .. (i + 1) - 1
    BY <1>4, <2>1
  <2>3. j \in Dims /\ ~IsDecidedAt(p, j)
    BY <1>5, <1>7, <2>2 DEF IsOpenBefore
  <2> QED
    BY <1>4, <2>1, <2>3 DEF IsDecidedAt, IsPositiveAt
<1>8. ASSUME NEW i \in Dims, v = PositivePart(p, i) PROVE IsNormalized(v)
  <2>1. \A k \in Dims : /\ v.ubounds[k] = IF k < i THEN 0 ELSE p.ubounds[k]
                        /\ v.lbounds[k] = IF k = i THEN 1 ELSE IF k < i THEN 0 ELSE p.lbounds[k]
    BY <1>1, <1>8, PositiveBounds
  <2> SUFFICES ASSUME NEW k \in Dims, \A j \in 1 .. k - 1 : v.lbounds[j] = 0 /\ v.ubounds[j] = 0
               PROVE  v.lbounds[k] > 0 \/ (v.lbounds[k] = 0 /\ v.ubounds[k] = 0)
    BY DEF IsNormalized
  <2>2. CASE k < i
    BY <1>4, <2>1, <2>2
  <2>3. CASE k = i
    BY <1>4, <2>1, <2>3
  <2>4. CASE k > i
    <3>1. i \in 1 .. k - 1 /\ v.lbounds[i] = 1
      BY <1>4, <2>1, <2>4
    <3> QED
      BY <3>1
  <2> QED
    BY <1>4, <2>2, <2>3, <2>4
<1> QED
  BY <1>1, <1>6, <1>7, <1>8 DEF normalize

-----------------------------------------------------------------------------
LEMMA InitIInv == Init => IInv
BY DEF Init, IInv, TypeOK, StaysForward

LEMMA PermuteIInv ==
    ASSUME IInv, NEW pi \in Permutations, Permute(pi)
    PROVE  IInv'
<1>1. CASE PermuteThrows(vector, pi)
  BY <1>1 DEF IInv, TypeOK, StaysForward, Permute, Admits, IsNegative
<1>2. CASE ~PermuteThrows(vector, pi)
  <2>1. /\ distance' = [i \in Dims |-> distance[pi[i]]]
        /\ vector' \in permute(vector, pi)
        /\ Admits(vector', distance')
        /\ raised' = raised
    BY <1>2 DEF Permute
  <2>2. Permuted(vector, pi) \in DependenceVectors /\ Permuted(vector, pi).quasi = FALSE
    BY PermutedType DEF IInv, TypeOK
  <2>3. vector' \in DependenceVectors /\ vector'.quasi = FALSE
    BY <2>1, <2>2, NormalizedType DEF permute
  <2>4. distance' \in [Dims -> Distances]
    BY <2>1 DEF IInv, TypeOK, Permutations
  <2>5. ~IsViolated(vector, pi)
    BY <1>2 DEF IInv, PermuteThrows
  <2>6. ~IsNegative(distance')
    BY <2>1, <2>5, ReversalIsViolation DEF IInv, TypeOK
  <2> QED
    BY <2>1, <2>3, <2>4, <2>6 DEF IInv, TypeOK, StaysForward
<1> QED
  BY <1>1, <1>2

LEMMA NextIInv == IInv /\ [Next]_vars => IInv'
<1> SUFFICES ASSUME IInv, [Next]_vars PROVE IInv'
  OBVIOUS
<1>1. CASE Next
  BY <1>1, PermuteIInv DEF Next
<1>2. CASE UNCHANGED vars
  BY <1>2 DEF IInv, TypeOK, StaysForward, Admits, IsNegative, vars
<1> QED
  BY <1>1, <1>2

-----------------------------------------------------------------------------
\* The bounds of every vector that permute and normalize give are bounds of a vector
\* (DependenceVector::permute).
THEOREM VectorsStayVectors == Spec => []TypeOK
<1>1. IInv => TypeOK
  BY DEF IInv
<1> QED
  BY <1>1, InitIInv, NextIInv, PTL DEF Spec

\* However many loops are permuted, and however often, no pair of iterations that
\* depend is turned round (the violated flag of DependenceVector::permute).
THEOREM NeverTurnedRound == Spec => []StaysForward
<1>1. IInv => StaysForward
  BY DEF IInv
<1> QED
  BY <1>1, InitIInv, NextIInv, PTL DEF Spec

\* However the loops are permuted, one of the vectors that a vector is split into admits
\* the distance, and only one (DependenceVector::normalize): no dependence is forgotten
\* when a vector is replaced by its parts, and none is counted twice.
THEOREM PartsAreExact == Spec => []SplitsExactly
<1>1. IInv => SplitsExactly
  BY SplitExactly DEF IInv, TypeOK, SplitsExactly
<1> QED
  BY <1>1, InitIInv, NextIInv, PTL DEF Spec

\* Every vector that accepted permutations leave has a positive first distance, unless
\* all are zero (DependenceVector::permute), which is what isCarried and the violation
\* test take for granted.
THEOREM VectorsStayNormalized == Spec => []StaysNormalized
<1> DEFINE J == IInv /\ StaysNormalized
<1>1. Init => J
  BY InitIInv DEF Init, StaysNormalized
<1>2. J /\ [Next]_vars => J'
  <2> SUFFICES ASSUME J, [Next]_vars PROVE StaysNormalized'
    BY NextIInv
  <2>1. CASE UNCHANGED vars
    BY <2>1 DEF vars, StaysNormalized, IsNormalized
  <2>2. ASSUME NEW pi \in Permutations, Permute(pi) PROVE StaysNormalized'
    <3>1. CASE PermuteThrows(vector, pi)
      BY <2>2, <3>1 DEF Permute, StaysNormalized, IsNormalized
    <3>2. CASE ~PermuteThrows(vector, pi)
      <4>1. vector' \in permute(vector, pi) /\ ~IsViolated(vector, pi)
        BY <2>2, <3>2 DEF Permute, PermuteThrows, IInv
      <4> QED
        BY <4>1, PartsAreNormalized DEF IInv, TypeOK, StaysNormalized
    <3> QED
      BY <3>1, <3>2
  <2> QED
    BY <2>1, <2>2 DEF Next
<1>3. J => StaysNormalized
  OBVIOUS
<1> HIDE DEF J
<1> QED
  BY <1>1, <1>2, <1>3, PTL DEF Spec
=============================================================================
