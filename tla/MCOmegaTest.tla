---------------------------- MODULE MCOmegaTest ----------------------------
(***************************************************************************)
(* Instances of OmegaTest for TLC.                                         *)
(***************************************************************************)
EXTENDS OmegaTest

Row(c, a) == [k \in 0 .. Len(a) |-> IF k = 0 THEN c ELSE a[k]]
Negated(a) == [k \in DOMAIN a |-> -a[k]]
Ask(n, eqs, geqs) == [var |-> [k \in 1 .. n |-> k], EQs |-> eqs, GEQs |-> geqs, freed |-> FALSE]

\* lo <= a . x <= lo + w
Slab(a, lo, w) == {Row(-lo, a), Row(lo + w, Negated(a))}
Slabs(as, los, ws) == {Slab(s[1], s[2], s[3]) : s \in as \X los \X ws}

\* Two slabs across each other.  The coefficients of a variable are the same or have no
\* common factor.
Directions == {<<2, 3>>, <<3, 2>>, <<3, -2>>, <<2, -3>>, <<5, 3>>, <<3, -5>>}
Crossed == {Ask(2, <<>>, s \cup t) : s, t \in Slabs(Directions, 1 .. 2, 1 .. 3)}

\* Three half planes.
HalfPlanes == {Row(c, a) : c \in {-2, 1}, a \in {<<2, 3>>, <<-3, 2>>, <<3, -5>>, <<-2, -3>>, <<1, -7>>}}
Triangles == {Ask(2, <<>>, {r, s, t}) : r, s, t \in HalfPlanes}

\* One or two equalities, and a slab.
Lines == {Row(c, a) : c \in {-1, 0, 3}, a \in {<<3, 5>>, <<2, 4>>, <<5, 3>>}}
OnLines ==
    {Ask(2, e, s) : e \in {<<r>> : r \in Lines} \cup {<<r, t>> : r, t \in Lines},
                    s \in {{}} \cup Slabs({<<5, 0>>, <<3, 2>>}, 1 .. 2, {1, 4})}

\* In three dimensions: a plane and a slab, or two slabs and a half space.
Planes == {<<Row(c, <<3, 5, 7>>)>> : c \in {-1, 2}}
Spaces == {Ask(3, e, s \cup t) : e \in {<<>>} \cup Planes,
              s \in Slabs({<<2, 3, 0>>, <<3, 2, 5>>}, {1}, {1, 3}),
              t \in Slabs({<<3, -2, 0>>, <<0, 5, -3>>}, {1}, {1, 2})}

\* Four variables in a chain: without the last one the third has no lower bound any more.
Tails == {{}, {Row(0, <<2, -1, 0, 0>>), Row(3, <<-1, 0, -1, 0>>)}, Slab(<<2, 3, 0, 0>>, 1, 3)}
Chains ==
    {Ask(4, <<>>, Slab(<<0, 0, 3, 5>>, lo, 4) \cup {Row(0, <<0, 1, -1, 0>>)} \cup t) : lo \in {0, 1}, t \in Tails}

\* Small triangles in which the coefficients of a variable have a common factor.
MCSlivers == {Ask(2, <<>>, {Row(c, <<4, -3>>), Row(d, <<-1, 6>>), Row(5, <<-5, -2>>)}) : c \in 0 .. 2, d \in -3 .. -1}

MCProblems == Crossed \cup Triangles \cup OnLines \cup Spaces \cup Chains
MCCoordinates == <<-24 .. 24, -24 .. 24, -6 .. 6, -3 .. 3>>
=============================================================================
