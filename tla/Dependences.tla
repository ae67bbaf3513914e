---------------------------- MODULE Dependences ----------------------------
(***************************************************************************)
(* One dependence through a sequence of DependenceVector's operations: the *)
(* loops of two iterations that do depend are permuted again and again.    *)
(***************************************************************************)
EXTENDS DependentIterations

VARIABLE raised     \* permute threw: the dependence would be violated

vars == <<vector, distance, raised>>

\* The dependences of a program are normalized and run forwards.
Init ==
    /\ vector \in DependenceVectors
    /\ distance \in [Dims -> Distances]
    /\ raised = FALSE
    /\ \A i \in Dims : vector.lbounds[i] <= vector.ubounds[i]
    /\ vector.quasi = FALSE
    /\ IsNormalized(vector)
    /\ Admits(vector, distance)
    /\ ~IsNegative(distance)

\* The loops are permuted; of the vectors that become of one, the one that admits
\* the distance is followed.
Permute(pi) ==
    /\ ~raised
    /\ IF PermuteThrows(vector, pi)
       THEN raised' = TRUE /\ UNCHANGED <<vector, distance>>
       ELSE /\ distance' = [i \in Dims |-> distance[pi[i]]]
            /\ vector' \in {v \in permute(vector, pi) : Admits(v, distance')}
            /\ UNCHANGED raised

Next == \E pi \in Permutations : Permute(pi)

Spec == Init /\ [][Next]_vars

-----------------------------------------------------------------------------
TypeOK ==
    /\ vector \in DependenceVectors
    /\ distance \in [Dims -> Distances]
    /\ raised \in BOOLEAN
=============================================================================
