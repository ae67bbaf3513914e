------------------------ MODULE DependentIterations ------------------------
(***************************************************************************)
(* Two iterations that depend, and what DependenceVector's header promises *)
(* of them: distance is how far they are apart, vector is what is left of  *)
(* the dependence vector that was found for them.                          *)
(***************************************************************************)
EXTENDS DependenceVector

\* The distances in one dimension, within the infinities.
Distances == 1 - Inf .. Inf - 1

VARIABLES
    vector,    \* the vector that admits the distance
    distance

Permutations == {pi \in [Dims -> Dims] : \A i, j \in Dims : pi[i] = pi[j] => i = j}

\* The header says of all vectors that the first distance that is not zero is
\* positive: permute keeps it so.
StaysNormalized == IsNormalized(vector)

\* No distance is lost and none doubled when a vector is split (normalize): however
\* the loops are permuted, one of the vectors admits it, and only one.
SplitsExactly ==
    \A pi \in Permutations :
        LET x == [i \in Dims |-> distance[pi[i]]]
        IN  /\ \E v \in permute(vector, pi) : Admits(v, x)
            /\ \A v, w \in permute(vector, pi) : Admits(v, x) /\ Admits(w, x) => v = w

\* The first of two iterations that depend stays the first, whatever permutations are
\* accepted: one that would turn a distance round is refused.
StaysForward == ~IsNegative(distance)
=============================================================================
