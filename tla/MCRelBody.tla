------------------------------ MODULE MCRelBody -------------------------------
(* Instances of RelBody small enough for TLC.                              *)
EXTENDS RelBody, TLC

\* Projection keeps a point as it is: what matters here is who holds which
\* formula, not its geometry.
MCKept == [t \in Argument_Tuple |-> [p \in Point |-> p]]

\* Handles and addresses are interchangeable.
MCSymmetry == Permutations(Handle) \cup Permutations(Body)

InputTuples == {"in"}
===============================================================================
