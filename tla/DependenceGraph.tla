-------------------------- MODULE DependenceGraph --------------------------
(***************************************************************************)
(* A program, its loops as a script has transformed them, and the graph of *)
(* its dependences.  A program is given by the loops that its statements   *)
(* are in and by the pairs of iterations that touch the same data; the     *)
(* graph is what the analysis of src/omega/chill makes of these pairs.  So *)
(* what the commands believe and what is true can be compared.             *)
(***************************************************************************)
EXTENDS DependenceVector, FiniteSets

CONSTANTS
    Apart,    \* how far apart the iterations of a pair may be in a loop
    Extent    \* the last iteration of a loop

ASSUME ExtentsAssumption == Apart \in Nat /\ Extent \in Nat

Levels == Dims

VARIABLES
    program,
    lin,     \* lin[s][l][k]: the coefficient of original loop k in loop l of s (xform)
    off,     \* off[s][l]: the constant in loop l of s (xform)
    lex,     \* lex[s][k]: the lexical constant of s after k loops (xform)
    dep,     \* the dependence graph, a set of [from, to, dv] records
    steps,   \* the number of commands so far
    raised   \* a command threw, which ends the script

Stmts == DOMAIN program.loops

\* f[1] + .. + f[n]
SumUpTo(f, n) ==
    LET sum[i \in 0 .. n] == IF i = 0 THEN 0 ELSE f[i] + sum[i - 1]
    IN  sum[n]

-----------------------------------------------------------------------------
(***************************************************************************)
(* The dependence graph of a program.                                      *)
(***************************************************************************)
\* The number of loops, from the outermost, that both statements are in.
CommonLoops(p, i, j) ==
    LET same == {l \in Levels : \A k \in 1 .. l : p.loops[i][k] = p.loops[j][k]}
    IN  Cardinality(same)

Negated(dv) ==
    [dv EXCEPT !.lbounds = [d \in Dims |-> -dv.ubounds[d]],
               !.ubounds = [d \in Dims |-> -dv.lbounds[d]]]

IsNegativeFirst(dv) == \E i \in Dims : IsOpenBefore(dv, i) /\ IsNegativeAt(dv, i)

IsZeroVector(dv) == \A i \in Dims : dv.lbounds[i] = 0 /\ dv.ubounds[i] = 0

\* relation2dependences: the vectors of a conflict from its first statement, and,
\* turned round, those from its second.
Whole(c) == [lbounds |-> c.lbounds, ubounds |-> c.ubounds, quasi |-> FALSE]
dependences1(c) == {dv \in normalize(Whole(c)) :
                       ~IsNegativeFirst(dv) /\ ~(c.from = c.to /\ IsZeroVector(dv))}
dependences2(c) == {Negated(dv) : dv \in {v \in normalize(Whole(c)) : IsNegativeFirst(v)}}

AlwaysValid(p, i, j, dv, before) == TRUE

Outermost(ls) == CHOOSE l \in ls : \A k \in ls : l <= k

\* The first of the common loops that decides, or before.
is_dependence_valid(p, i, j, dv, before) ==
    LET open == {l \in 1 .. CommonLoops(p, i, j) : dv.lbounds[l] # 0}
    IN  IF open = {} THEN before ELSE dv.lbounds[Outermost(open)] > 0

Edge(i, j, dv) == [from |-> i, to |-> j, dv |-> dv]

DependencesOf(p, c) ==
    {IF is_dependence_valid(p, c.from, c.to, dv, TRUE)
     THEN Edge(c.from, c.to, dv) ELSE Edge(c.to, c.from, reverse(dv)) : dv \in dependences1(c)}
    \cup
    {IF is_dependence_valid(p, c.to, c.from, dv, FALSE)
     THEN Edge(c.to, c.from, dv) ELSE Edge(c.from, c.to, reverse(dv)) : dv \in dependences2(c)}

Dependences(p) == UNION {DependencesOf(p, c) : c \in p.conflicts}

getEdge(g, i, j) == {e.dv : e \in {d \in g : d.from = i /\ d.to = j}}

-----------------------------------------------------------------------------
(***************************************************************************)
(* What the program does: pairs of iterations that touch the same data.    *)
(***************************************************************************)
\* The distances of a conflict.
DistancesOf(c) == {x \in [Dims -> -Apart .. Apart] : Admits(Whole(c), x)}

\* In the program itself the iteration of c.from runs before the one of c.to at
\* distance x.
FirstRunsFirst(c, x) ==
    LET open == {l \in 1 .. CommonLoops(program, c.from, c.to) : x[l] # 0}
    IN  IF open = {} THEN c.from < c.to ELSE x[Outermost(open)] > 0

Pairs == UNION {{[c |-> c, x |-> x] : x \in {y \in DistancesOf(c) :
                     c.from # c.to \/ \E d \in Dims : y[d] # 0}} : c \in program.conflicts}

Iterations == [Levels -> 0 .. Extent]

\* When iteration I of statement s runs its loop l.
Time(s, I, l) == SumUpTo([k \in Levels |-> lin[s][l][k] * I[k]], Dim) + off[s][l]

\* The statements of a pair and their iterations, the one that runs first in front.
Directed(p, I) ==
    LET J == [k \in Levels |-> I[k] + p.x[k]]
    IN  IF FirstRunsFirst(p.c, p.x) THEN <<p.c.from, I, p.c.to, J>> ELSE <<p.c.to, J, p.c.from, I>>

-----------------------------------------------------------------------------
\* The graph knows every dependence: the distance of every two iterations that depend,
\* in the loops as they are now, is within the bounds of a vector.
Covered ==
    ~raised => \A p \in Pairs, I \in Iterations :
        LET q == Directed(p, I)
        IN  \E dv \in getEdge(dep, q[1], q[3]) :
                Admits(dv, [l \in Levels |-> Time(q[3], q[4], l) - Time(q[1], q[2], l)])

-----------------------------------------------------------------------------
(***************************************************************************)
(* The order in which the program as transformed runs.                     *)
(***************************************************************************)
\* The loops and the constants in the order in which they decide: 0, loop 1, 1, ...
\* Statements that nothing tells apart are generated in the order of their numbers.
RunsBefore(q) ==
    LET equal(l) == lex[q[1]][l - 1] = lex[q[3]][l - 1] /\ Time(q[1], q[2], l) = Time(q[3], q[4], l)
        less(l) == \/ lex[q[1]][l - 1] < lex[q[3]][l - 1]
                   \/ /\ lex[q[1]][l - 1] = lex[q[3]][l - 1]
                      /\ Time(q[1], q[2], l) < Time(q[3], q[4], l)
    IN  \/ \E l \in Levels : less(l) /\ \A k \in 1 .. l - 1 : equal(k)
        \/ /\ \A l \in Levels : equal(l)
           /\ \/ lex[q[1]][Dim] < lex[q[3]][Dim]
              \/ lex[q[1]][Dim] = lex[q[3]][Dim] /\ q[1] < q[3]

Started == steps > 0 /\ ~raised

\* The program as transformed runs every two iterations that depend in the order in
\* which the program itself does.
RunsForward ==
    Started => \A p \in Pairs, I \in Iterations : RunsBefore(Directed(p, I))

\* The program as transformed runs every two iterations that depend in the order in
\* which the program itself does, for the scripts that name all statements.
WholeRunsForward == program.script.selections = {Stmts} => RunsForward

\* original, with which every script begins, takes every program: the order in which
\* the program is written is one it may give (Loop::original).
OriginalAccepts == raised => steps > 1
=============================================================================
