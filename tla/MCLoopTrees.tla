---------------------------- MODULE MCLoopTrees ----------------------------
(***************************************************************************)
(* The scanner, for TLC, on nests of two loops that are bounded by         *)
(* constants and by one symbolic constant n.                               *)
(***************************************************************************)
EXTENDS LoopTrees

\* x <= y + c, and a box.
Le(x, y, c) == <<x, y, c>>
AtLeast(c, x) == <<Zero, x, -c>>
AtMost(x, c) == <<x, Zero, c>>

\* 0 <= t1 <= t2 < n, and the same with the loops exchanged.
UpperTriangle == {AtLeast(0, 1), Le(1, 2, 0), Le(2, Symbol, -1)}
LowerTriangle == {AtLeast(0, 2), Le(2, 1, 0), Le(1, Symbol, -1)}
\* 0 <= t1 < n and t1 <= t2 <= t1 + 1.
Band == {AtLeast(0, 1), Le(1, Symbol, -1), Le(1, 2, 0), Le(2, 1, 1)}
\* 1 <= t1 <= n and 0 <= t2 <= 2.
Columns == {AtLeast(1, 1), Le(1, Symbol, 0), AtLeast(0, 2), AtMost(2, 2)}
Square == {AtLeast(0, 1), Le(1, Symbol, -1), AtLeast(0, 2), Le(2, Symbol, -1)}
Box(a, b, c, d) == {AtLeast(a, 1), AtMost(1, b), AtLeast(c, 2), AtMost(2, d)}
\* 0 <= t1 = t2 < n.
Diagonal == {AtLeast(0, 1), Le(1, 2, 0), Le(2, 1, 0), Le(1, Symbol, -1)}
\* 0 <= t1, t1 + 1 = t2 < n, and 0 <= t1 <= t2 <= 4.
Superdiagonal == {AtLeast(0, 1), Le(1, 2, -1), Le(2, 1, 1), Le(2, Symbol, -1)}
BigTriangle == {AtLeast(0, 1), Le(1, 2, 0), AtMost(2, 4)}

Shapes == {UpperTriangle, LowerTriangle, Band, Columns, Box(0, 2, 1, 3), Box(2, 4, 0, 1)}
Nest(spaces, known, effort, upright) ==
    [spaces |-> spaces, known |-> known, effort |-> effort, upright |-> upright]
Three ==
    {<<UpperTriangle, LowerTriangle, Box(0, 2, 1, 3)>>, <<Box(0, 2, 1, 3), Box(2, 4, 0, 1), Columns>>,
     <<Band, UpperTriangle, Box(2, 4, 0, 1)>>}

MCNests ==
    {Nest(<<a, b>>, True, effort, TRUE) : a, b \in Shapes, effort \in {0, 2}}
    \cup {Nest(spaces, {AtLeast(1, Symbol)}, 1, upright) : spaces \in Three, upright \in BOOLEAN}
MCDiagonal == {Nest(<<Diagonal, Square>>, True, 1, TRUE)}
MCSuperdiagonal == {Nest(<<Superdiagonal, BigTriangle>>, True, 0, TRUE)}
MCSymbols == 0 .. 3
MCIterations == 0 .. 6
=============================================================================
