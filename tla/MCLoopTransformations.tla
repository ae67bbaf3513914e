----------------------- MODULE MCLoopTransformations -----------------------
(***************************************************************************)
(* Instances of LoopTransformations for TLC.                               *)
(***************************************************************************)
EXTENDS LoopTransformations

\* The loops that m statements may be in: nests in textual order, told apart by numbers.
IsNest(h) ==
    /\ \A l \in Levels : h[1][l] = 1
    /\ \A s \in DOMAIN h \ {1}, l \in Levels :
           LET opened == \E k \in 1 .. l - 1 : h[s][k] # h[s - 1][k]
           IN  h[s][l] \in (IF opened THEN {} ELSE {h[s - 1][l]}) \cup {h[s - 1][l] + 1}
Nests(m) == {h \in [1 .. m -> [Levels -> 1 .. m]] : IsNest(h)}
Perfect(m) == {h \in Nests(m) : \A s \in 1 .. m : h[s] = h[1]}

\* The distances in one dimension: one, or a range.
Range(lo, hi) == [lo |-> lo, hi |-> hi]
Points == {Range(-1, -1), Range(0, 0), Range(1, 1)}
Ranges == Points \cup {Range(0, 1), Range(-1, 1)}

\* What m statements may conflict in, with a range for each dimension, or with distance
\* zero in all but the first.
Conflicts(m, rs) ==
    {[from |-> f[1], to |-> f[2], lbounds |-> [d \in Dims |-> r[d].lo], ubounds |-> [d \in Dims |-> r[d].hi]] :
        f \in {g \in (1 .. m) \X (1 .. m) : g[1] <= g[2]}, r \in rs}
AnyRanges == [Dims -> Ranges]
OuterRanges == {r \in AnyRanges : \A d \in Dims \ {1} : r[d] = Range(0, 0)}

OneOf(cs) == {{c} : c \in cs}
TwoOf(cs) == {{c, d} : c, d \in cs}

Script(commands, selections, levels, skews, max) ==
    [commands |-> commands, selections |-> selections, levels |-> levels, skews |-> skews, steps |-> max]
Cases(nests, conflicts, script1) == [loops : nests, conflicts : conflicts, script : {script1}]

All(m) == {1 .. m}
Any(m) == (SUBSET (1 .. m)) \ {{}}

\* One loop is added to another, an outer one to an inner one, or any.
Adding(l, k) == [level |-> l, amount |-> [n \in Dims |-> IF n \in {k, l} THEN 1 ELSE 0]]
InnerSkews == {Adding(p[1], p[2]) : p \in {q \in Dims \X Dims : q[1] > q[2]}}
AnySkews == {Adding(p[1], p[2]) : p \in {q \in Dims \X Dims : q[1] # q[2]}}

\* Two statements in any loops, with any two conflicts: original only.
Originals == Cases(Nests(2), TwoOf(Conflicts(2, AnyRanges)), Script({}, All(2), {}, {}, 0))

\* Two statements in one nest.
OneNest == Cases(Perfect(2), OneOf(Conflicts(2, AnyRanges)),
                 Script({"permute", "skew", "distribute"}, All(2), Levels, InnerSkews, 2))

\* Two statements, in one loop or in two that can be fused.
Fusible == Cases({h \in Nests(2) : h[2][1] = h[2][2]}, TwoOf(Conflicts(2, OuterRanges)),
                 Script({"permute", "fuse", "distribute", "reverse"}, All(2), {1}, {}, 3))

\* Three statements in one loop.
Three == Cases(Perfect(3), TwoOf(Conflicts(3, OuterRanges)),
               Script({"permute", "distribute"}, All(3), {1}, {}, 2))

\* Everything, on some of the statements.
Everything == Cases(Nests(2), OneOf(Conflicts(2, AnyRanges)),
                    Script({"permute", "permute_set", "skew", "reverse", "shift", "fuse", "distribute"},
                           Any(2), Levels, AnySkews, 2))

MCPrograms == Originals \cup OneNest \cup Fusible \cup Three \cup Everything
MCAmounts == {-1, 1}

\* One nest, skewed by any of its loops.
MCSkewed == Cases(Perfect(2), OneOf(Conflicts(2, AnyRanges)), Script({"skew"}, All(2), Levels, AnySkews, 1))

\* Three loops one after the other, which original may fuse.
OneEach(m) == [s \in 1 .. m |-> [l \in Levels |-> s]]
MCSeparate == Cases({OneEach(3)}, TwoOf(Conflicts(3, OuterRanges)), Script({}, All(3), {}, {}, 0))
=============================================================================
