------------------------- MODULE DependenceVector -------------------------
(***************************************************************************)
(* DependenceVector of src/omega/chill/dep.cc: the distances between the   *)
(* iterations of two statements, a lower and an upper bound for each       *)
(* dimension of the iteration space.  Dimensions count from 1 here and     *)
(* from 0 in the code.                                                     *)
(***************************************************************************)
EXTENDS Integers

CONSTANTS
    Dim,   \* the number of dimensions
    Inf    \* posInfinity, an integer

ASSUME DimAssumption == Dim \in Nat
ASSUME InfAssumption == Inf \in Nat \ {0}

Dims == 1 .. Dim
Bounds == -Inf .. Inf

DependenceVectors == [lbounds : [Dims -> Bounds], ubounds : [Dims -> Bounds], quasi : BOOLEAN]

\* The bounds of dimension d exclude zero: such a dimension carries the dependence.
IsPositiveAt(dv, d) == dv.lbounds[d] > 0
IsNegativeAt(dv, d) == dv.ubounds[d] < 0
IsDecidedAt(dv, d) == IsPositiveAt(dv, d) \/ IsNegativeAt(dv, d)
IsOpenBefore(dv, d) == \A i \in 1 .. d - 1 : ~IsDecidedAt(dv, i)

has_been_carried_before(dv, d) == \E i \in Dims : i < d /\ IsDecidedAt(dv, i)

has_been_carried_at(dv, d) ==
    d \in Dims /\ IsOpenBefore(dv, d) /\ ~(dv.lbounds[d] = 0 /\ dv.ubounds[d] = 0)

has_negative_been_carried_at(dv, d) ==
    d \in Dims /\ IsOpenBefore(dv, d) /\ dv.lbounds[d] < 0

\* With the default distance, posInfinity, the bounds of d itself are no matter.
isCarried(dv, d) == ~has_been_carried_before(dv, d)

hasPositive(dv, d) == dv.lbounds[d] > 0
hasNegative(dv, d) == dv.ubounds[d] < 0

-----------------------------------------------------------------------------
\* dv with zero in the dimensions Z.
WithZero(dv, Z) ==
    [dv EXCEPT !.lbounds = [i \in Dims |-> IF i \in Z THEN 0 ELSE dv.lbounds[i]],
               !.ubounds = [i \in Dims |-> IF i \in Z THEN 0 ELSE dv.ubounds[i]]]

\* The dimensions before i.
Before(i) == {j \in Dims : j < i}

\* What is left when the dimensions that may be zero are, up to the first that may not.
ZeroPart(dv) == WithZero(dv, {i \in Dims : IsOpenBefore(dv, i + 1)})

\* The vectors that are negative, and positive, in dimension i for the first time.
NegativePart(dv, i) == [WithZero(dv, Before(i)) EXCEPT !.ubounds[i] = -1]
PositivePart(dv, i) == [WithZero(dv, Before(i)) EXCEPT !.lbounds[i] = 1]

WithoutZero(dv) ==
    {NegativePart(dv, i) : i \in {j \in Dims : IsOpenBefore(dv, j + 1) /\ dv.lbounds[j] < 0}}
    \cup {PositivePart(dv, i) : i \in {j \in Dims : IsOpenBefore(dv, j + 1) /\ dv.ubounds[j] > 0}}

normalize(dv) ==
    {NegativePart(dv, i) : i \in {j \in Dims : IsOpenBefore(dv, j + 1) /\ dv.lbounds[j] < 0}}
    \cup {PositivePart(dv, i) : i \in {j \in Dims : IsOpenBefore(dv, j + 1) /\ dv.ubounds[j] > 0}}
    \cup {ZeroPart(dv)}

Permuted(dv, pi) ==
    [dv EXCEPT !.lbounds = [i \in Dims |-> dv.lbounds[pi[i]]],
               !.ubounds = [i \in Dims |-> dv.ubounds[pi[i]]]]

FirstIsNegative(dv, pi) == \E i \in Dims : i = 1 /\ Permuted(dv, pi).lbounds[i] < 0

\* permute throws when a vector may come to be negative.
IsViolated(dv, pi) ==
    LET p == Permuted(dv, pi)
    IN  \E i \in Dims : p.lbounds[i] < 0 /\ \A j \in 1 .. i - 1 : p.lbounds[j] <= 0
PermuteThrows(dv, pi) == IsViolated(dv, pi) /\ ~dv.quasi

permute(dv, pi) == normalize(Permuted(dv, pi))

\* The dependence the other way round, which is remembered to be quasi.
reverse(dv) ==
    [lbounds |-> [i \in Dims |-> -dv.ubounds[i]],
     ubounds |-> [i \in Dims |-> -dv.lbounds[i]],
     quasi |-> TRUE]

-----------------------------------------------------------------------------
(***************************************************************************)
(* What the bounds stand for.                                              *)
(***************************************************************************)
\* The distance x is within the bounds of dv.
Admits(dv, x) ==
    \A i \in Dims : /\ dv.lbounds[i] = -Inf \/ dv.lbounds[i] <= x[i]
                    /\ dv.ubounds[i] = Inf \/ x[i] <= dv.ubounds[i]

IsNegative(x) == \E i \in Dims : x[i] < 0 /\ \A j \in 1 .. i - 1 : x[j] = 0

\* The first dimension that is not zero is positive, or all are zero.
IsNormalized(dv) ==
    \A i \in Dims : (\A j \in 1 .. i - 1 : dv.lbounds[j] = 0 /\ dv.ubounds[j] = 0) =>
        \/ dv.lbounds[i] > 0
        \/ dv.lbounds[i] = 0 /\ dv.ubounds[i] = 0
=============================================================================
