------------------------ MODULE LoopTransformations ------------------------
(***************************************************************************)
(* A CHiLL script on one Loop of src/omega/chill: statements with their    *)
(* lexical constants and their schedule, the dependence graph, and the     *)
(* commands original, permute, skew, reverse, shift, fuse and distribute.  *)
(* Every statement has Dim loops, which are loops of the program           *)
(* (LoopLevelOriginal).                                                    *)
(*                                                                         *)
(* The script of a program says what commands may be called with: their    *)
(* names, sets of statements, loops, skews and number.                     *)
(***************************************************************************)
EXTENDS DependenceGraph, FusionGroups

CONSTANTS
    Programs,    \* [loops, conflicts, script] records
    Amounts      \* the amounts that loops are shifted by

\* Statements are numbered; conflicts are given from the first of the two.
ProgramsFit ==
    \A p \in Programs :
        /\ p.loops \in [DOMAIN p.loops -> [Dims -> Nat]]
        /\ DOMAIN p.loops \subseteq Nat /\ IsFiniteSet(DOMAIN p.loops)
        /\ \A c \in p.conflicts :
               /\ c.from \in DOMAIN p.loops /\ c.to \in DOMAIN p.loops /\ c.from <= c.to
               /\ c.lbounds \in [Dims -> Bounds] /\ c.ubounds \in [Dims -> Bounds]
        /\ p.script.selections \subseteq (SUBSET DOMAIN p.loops) \ {{}}
        /\ p.script.levels \subseteq Dims /\ p.script.steps \in Nat
        /\ \A k \in p.script.skews : k.level \in Dims /\ k.amount \in [Dims -> Int]

\* Loops are numbered in the order of the text: a statement is in a loop of the ones before
\* it, with all that is around that loop, or in one that begins behind them.
InTextOrder(p) ==
    /\ DOMAIN p.loops # {}
    /\ \A i, j \in DOMAIN p.loops, l \in Dims :
           i < j => /\ p.loops[i][l] <= p.loops[j][l]
                    /\ p.loops[i][l] = p.loops[j][l] => \A k \in 1 .. l : p.loops[i][k] = p.loops[j][k]
ProgramsInTextOrder == \A p \in Programs : InTextOrder(p)

Places == 0 .. Dim     \* the places of lexical constants: before, between and after the loops

script == program.script

xform == <<lin, off, lex>>
vars == <<program, xform, dep, steps, raised>>

-----------------------------------------------------------------------------
(***************************************************************************)
(* The lexical order, on a function lx of lexical constants.               *)
(***************************************************************************)
\* The statements that share the constants of ref in the places before k.
getStatements(lx, ref, k) == {i \in Stmts : \A j \in 0 .. k - 1 : lx[i][j] = ref[j]}

shiftLexicalOrder(lx, ref, k, amount) ==
    [i \in Stmts |->
        IF /\ i \in getStatements(lx, ref, k)
           /\ amount > 0 => lx[i][k] >= ref[k]
           /\ amount < 0 => lx[i][k] <= ref[k]
        THEN [lx[i] EXCEPT ![k] = @ + amount]
        ELSE lx[i]]

\* The statements of active by the loop of the program they are in at a level, the
\* loops in the order of their first statements.
sort_by_same_loops(active, level) ==
    LET same(i) == {j \in active : program.loops[i][level] = program.loops[j][level]}
        firsts == Sorted({First(same(i)) : i \in active})
    IN  [k \in 1 .. Len(firsts) |-> same(firsts[k])]

\* The pairs of statements of two groups in the order they are compared.
PairsInOrder(p, q) == p[1] < q[1] \/ (p[1] = q[1] /\ p[2] <= q[2])

CarriedPairs(g, A, B, d) == {p \in A \X B : \E dv \in getEdge(g, p[1], p[2]) : has_been_carried_at(dv, d)}
Carries(g, A, B, d) == CarriedPairs(g, A, B, d) # {}
NeverNegative(g, A, B, d) == FALSE

CarriesNegative(g, A, B, d) ==
    \E p \in A \X B : \E dv \in getEdge(g, p[1], p[2]) : has_negative_been_carried_at(dv, d)

\* construct_induced_graph_at_level: the pairs of groups with a dependence carried at
\* dimension d, the bad ones, and whether a cycle is noticed.
InducedEdges(g, s, d) == {e \in (DOMAIN s) \X (DOMAIN s) : e[1] # e[2] /\ Carries(g, s[e[1]], s[e[2]], d)}
InducedBad(g, s, d) == {e \in InducedEdges(g, s, d) : CarriesNegative(g, s[e[1]], s[e[2]], d)}
InducedThrows(g, s, d) ==
    \E i, j \in DOMAIN s :
        /\ i < j
        /\ \E p \in CarriedPairs(g, s[i], s[j], d), q \in CarriedPairs(g, s[j], s[i], d) :
               PairsInOrder(p, <<q[2], q[1]>>)

\* The groups of typed_fusion as sets of statements, <<>> when it throws for a cycle.
FusedGroups(g, s, d, types) ==
    LET es == InducedEdges(g, s, d)
        num == typed_fusion(Len(s), es, InducedBad(g, s, d), types)
        last == IF \E v \in DOMAIN s : num[v] = 0 THEN 0 ELSE Cardinality({num[v] : v \in DOMAIN s})
    IN  [n \in 1 .. last |-> UNION {s[v] : v \in {u \in DOMAIN s : num[u] = n}}]

\* The orders of S in which no edge of es leads back: topoSort when there is no cycle.
TopologicalOrders(S, es) ==
    {q \in [1 .. Cardinality(S) -> S] :
        \A i, j \in DOMAIN q : i < j => q[i] # q[j] /\ <<q[j], q[i]>> \notin es}

\* The statements of active one after the other behind their innermost loop.
Innermost(g, active, order, lx) ==
    IF Cardinality(active) = 1
    THEN {[i \in Stmts |-> IF i \in active THEN [lx[i] EXCEPT ![Dim] = 0] ELSE lx[i]]}
    ELSE LET es == {e \in active \X active :
                      e[1] # e[2] /\ \E dv \in getEdge(g, e[1], e[2]) : ~has_been_carried_before(dv, Dim + 1)}
         IN  {[i \in Stmts |->
                 IF i \in active
                 THEN [lx[i] EXCEPT ![Dim] = order + (CHOOSE n \in DOMAIN q : q[n] = i) - 1]
                 ELSE lx[i]] : q \in TopologicalOrders(active, es)}

\* The groups of the statements of active for place k, none when it throws.
GroupsAt(g, k, active) ==
    LET s == sort_by_same_loops(active, k + 1)
    IN  IF Len(s) = 1 THEN s
        ELSE IF InducedThrows(g, s, k + 1) THEN <<>>
        ELSE FusedGroups(g, s, k + 1, [v \in DOMAIN s |-> TRUE])

PlacedAt(lx, grp, k, order) ==
    [i \in Stmts |-> IF i \in grp THEN [lx[i] EXCEPT ![k] = order] ELSE lx[i]]

Differ(lx, active, k) == \E i, j \in active : \E n \in 0 .. k - 1 : lx[i][n] # lx[j][n]

LexicalConstants == [Stmts -> [Places -> Int]]

\* One group after the other gets the next constant at place k, and constants within it:
\* inner says which those may be.
GroupOrders(g, k, inner, active, order, lx) ==
    LET groups == GroupsAt(g, k, active)
        upto[n \in 0 .. Len(groups)] ==
            IF n = 0 THEN {lx}
            ELSE UNION {inner[groups[n]][order + n - 1][PlacedAt(l, groups[n], k, order + n - 1)] :
                           l \in upto[n - 1]}
    IN  IF groups = <<>> THEN {} ELSE upto[Len(groups)]

\* What may be set from a place on with n loops behind it.
OrdersWith(g, n, inner) ==
    [active \in SUBSET Stmts |-> [order \in Int |-> [lx \in LexicalConstants |->
        IF Differ(lx, active, Dim - n) THEN {}
        ELSE IF n = 0 THEN Innermost(g, active, order, lx)
        ELSE GroupOrders(g, Dim - n, inner, active, order, lx)]]]

\* setLexicalOrder from a place on: the constants it may set, none when it throws.
SetLexicalOrder(g, place, statements, first, constants) ==
    LET set[n \in 0 .. Dim] == OrdersWith(g, n, IF n = 0 THEN <<>> ELSE set[n - 1])
    IN  set[Dim - place][statements][first][constants]

-----------------------------------------------------------------------------
(***************************************************************************)
(* The script.                                                             *)
(***************************************************************************)
\* Loop::Loop: all constants are zero.
Init ==
    /\ program \in Programs
    /\ lin = [s \in Stmts |-> [l \in Levels |-> [k \in Levels |-> IF k = l THEN 1 ELSE 0]]]
    /\ off = [s \in Stmts |-> [l \in Levels |-> 0]]
    /\ lex = [s \in Stmts |-> [k \in Places |-> 0]]
    /\ dep = Dependences(program)
    /\ steps = 0
    /\ raised = FALSE

May(command) ==
    /\ command \in script.commands
    /\ ~raised
    /\ steps \in 1 .. script.steps
    /\ steps' = steps + 1
    /\ UNCHANGED program

Raise == raised' = TRUE /\ UNCHANGED <<xform, dep>>

\* lex takes one of the values a setLexicalOrder may set; without one it threw.
SetsOrder(orders) == orders # {} /\ lex' \in orders /\ UNCHANGED raised

\* original: the first command of a script.
Original ==
    /\ steps = 0
    /\ ~raised
    /\ steps' = 1
    /\ UNCHANGED program
    /\ LET orders == SetLexicalOrder(dep, 0, Stmts, 0, lex)
       IN  \/ orders = {} /\ Raise
           \/ SetsOrder(orders) /\ UNCHANGED <<lin, off, dep>>

\* The permutations of the n loops from level on, as functions on the levels.
PermutationsAt(level, n) ==
    {pi \in [Levels -> Levels] :
        /\ \A l, k \in Levels : pi[l] = pi[k] => l = k
        /\ \A l \in Levels : l \notin script.levels \cap level .. level + n - 1 => pi[l] = l}

Known(dv, ds) == dv

Unknown(dv, ds) ==
    [dv EXCEPT !.lbounds = [d \in Dims |-> IF d \in ds THEN -Inf ELSE dv.lbounds[d]],
               !.ubounds = [d \in Dims |-> IF d \in ds THEN Inf ELSE dv.ubounds[d]]]

Within(e, active) == e.from \in active /\ e.to \in active
Outside(e, active) == e.from \notin active /\ e.to \notin active

\* The dependences of permuted statements are permuted, but not normalized again.
PermutedGraph(active, pi) ==
    {[e EXCEPT !.dv = IF Within(e, active) THEN Permuted(e.dv, pi)
                      ELSE IF Outside(e, active) THEN e.dv
                      ELSE Unknown(e.dv, {d \in Dims : pi[d] # d})] : e \in dep}

PermuteLoops(active, pi, k, order, lx) ==
    IF \E e \in dep : Within(e, active) /\ PermuteThrows(e.dv, pi) THEN Raise
    ELSE LET g == PermutedGraph(active, pi)
             orders == SetLexicalOrder(g, k, active, order, lx)
         IN  \/ orders = {} /\ Raise
             \/ /\ SetsOrder(orders)
                /\ dep' = g
                /\ lin' = [s \in Stmts |-> IF s \in active THEN [l \in Levels |-> lin[s][pi[l]]] ELSE lin[s]]
                /\ off' = [s \in Stmts |-> IF s \in active THEN [l \in Levels |-> off[s][pi[l]]] ELSE off[s]]

\* permute of all statements.
PermuteAll(pi) == May("permute") /\ PermuteLoops(Stmts, pi, 0, 0, lex)

\* permute of the loops of s from a level on, and of what else is in that loop.
Permute(s, level, pi) ==
    /\ May("permute")
    /\ LET active == getStatements(lex, lex[s], level)
           next == [lex[s] EXCEPT ![level - 1] = @ + 1]
           lx == shiftLexicalOrder(lex, next, level - 1, Cardinality(active) - 1)
       IN  PermuteLoops(active, pi, level - 1, lex[s][level - 1], lx)

\* permute of a set of statements that share the loops outside the permuted ones.
PermuteSet(active, level, pi) ==
    /\ May("permute_set")
    /\ \A i, j \in active : \A k \in 0 .. level - 2 : lex[i][k] = lex[j][k]
    /\ PermuteLoops(active, pi, level - 1, 0, lex)

\* The bounds of a sum of the distances of a vector with coefficients a: unknown as
\* soon as a bound that counts is.
LowerTerm(dv, a, k) == IF a[k] > 0 THEN dv.lbounds[k] ELSE dv.ubounds[k]
UpperTerm(dv, a, k) == IF a[k] > 0 THEN dv.ubounds[k] ELSE dv.lbounds[k]

LowerUnknown(dv, a) ==
    \E k \in Dims : (a[k] > 0 /\ dv.lbounds[k] = -Inf) \/ (a[k] < 0 /\ dv.ubounds[k] = Inf)
UpperUnknown(dv, a) ==
    \E k \in Dims : (a[k] > 0 /\ dv.ubounds[k] = Inf) \/ (a[k] < 0 /\ dv.lbounds[k] = -Inf)

LowerBound(dv, a) ==
    IF LowerUnknown(dv, a) THEN -Inf ELSE SumUpTo([k \in Dims |-> a[k] * LowerTerm(dv, a, k)], Dim)
UpperBound(dv, a) ==
    IF UpperUnknown(dv, a) THEN Inf ELSE SumUpTo([k \in Dims |-> a[k] * UpperTerm(dv, a, k)], Dim)

SkewedVector(dv, level, a) ==
    LET sv == [dv EXCEPT !.lbounds[level] = LowerBound(dv, a), !.ubounds[level] = UpperBound(dv, a)]
    IN  [sv EXCEPT !.quasi = @ /\ ~(isCarried(sv, level) /\ hasPositive(sv, level))]

SkewThrows(dv, level, a) ==
    LET sv == SkewedVector(dv, level, a)
    IN  isCarried(sv, level) /\ hasNegative(sv, level) /\ ~sv.quasi

\* Loop level of the statements S becomes a sum of their loops.
SkewBy(S, level, a) ==
    IF \E e \in dep : Within(e, S) /\ SkewThrows(e.dv, level, a) THEN Raise
    ELSE /\ dep' = {[e EXCEPT !.dv = IF Within(e, S) THEN SkewedVector(e.dv, level, a)
                                     ELSE IF Outside(e, S) THEN e.dv
                                     ELSE Unknown(e.dv, {level})] : e \in dep}
         /\ lin' = [s \in Stmts |->
                       IF s \in S
                       THEN [lin[s] EXCEPT ![level] =
                               [k \in Levels |-> SumUpTo([l \in Levels |-> a[l] * lin[s][l][k]], Dim)]]
                       ELSE lin[s]]
         /\ off' = [s \in Stmts |->
                       IF s \in S
                       THEN [off[s] EXCEPT ![level] = SumUpTo([l \in Levels |-> a[l] * off[s][l]], Dim)]
                       ELSE off[s]]
         /\ UNCHANGED <<lex, raised>>

skew(S, level, a) == May("skew") /\ SkewBy(S, level, a)

scale(S, level, amount) == SkewBy(S, level, [l \in Levels |-> IF l = level THEN amount ELSE 0])

Reverse(S, level) == May("reverse") /\ scale(S, level, -1)

MovedAlways(b, amount) == b + amount

\* A bound that is not known stays so.
MovedLower(b, amount) == IF b = -Inf THEN b ELSE b + amount
MovedUpper(b, amount) == IF b = Inf THEN b ELSE b + amount

Shift(S, level, amount) ==
    /\ May("shift")
    /\ off' = [s \in Stmts |-> IF s \in S THEN [off[s] EXCEPT ![level] = @ + amount] ELSE off[s]]
    /\ dep' = {[e EXCEPT !.dv =
                  IF Within(e, S) \/ Outside(e, S) THEN e.dv
                  ELSE LET by == IF e.from \in S THEN -amount ELSE amount
                       IN  [e.dv EXCEPT !.lbounds[level] = MovedLower(@, by), !.ubounds[level] = MovedUpper(@, by)]]
               : e \in dep}
    /\ UNCHANGED <<lin, lex, raised>>

-----------------------------------------------------------------------------
\* A dependence that is negative in a dimension prevents fusion there.
PreventsFusion(g, i, j, d) == \E dv \in getEdge(g, i, j) : isCarried(dv, d) /\ hasNegative(dv, d)

\* The statements q of one fused loop, in the order of their numbers: the constants
\* behind the loop go on where it was another loop before.
Renumbered(q, level, order, lx) ==
    LET upto[n \in 0 .. Len(q)] ==
            IF n = 0 THEN [lex |-> lx, adj |-> 0]
            ELSE LET done == upto[n - 1]
                     s == q[n]
                     moved == n > 1 /\ lx[s][level - 1] # lx[q[n - 1]][level - 1]
                     adj == IF moved THEN done.lex[q[n - 1]][level] + 1 - lx[s][level] ELSE done.adj
                 IN  [lex |-> [done.lex EXCEPT ![s] = [@ EXCEPT ![level] = lx[s][level] + adj, ![level - 1] = order]],
                      adj |-> adj]
    IN  upto[Len(q)].lex

RenumberedGroups(groups, level, lx) ==
    LET upto[n \in 0 .. Len(groups)] ==
            IF n = 0 THEN lx ELSE Renumbered(Sorted(groups[n]), level, n - 1, upto[n - 1])
    IN  upto[Len(groups)]

\* fuse: the loops of the statements S at a level become one where they can.
fuse(S, level) ==
    LET ref == lex[First(S)]
        values == {lex[s][level - 1] : s \in S}
        loop(v) == getStatements(lex, [ref EXCEPT ![level - 1] = v], level)
        s == sort_by_same_loops(getStatements(lex, ref, level - 1), level)
        types == [i \in DOMAIN s |-> s[i] \cap S # {}]
        f == FusedGroups(dep, s, level, types)
    IN  /\ May("fuse")
        /\ \A i, j \in S : \A k \in 0 .. level - 2 : lex[i][k] = lex[j][k]
        /\ Cardinality(values) > 1
        /\ IF \/ \E v, w \in values : v # w /\ \E i \in loop(v), j \in loop(w) : PreventsFusion(dep, i, j, level)
              \/ InducedThrows(dep, s, level)
              \/ f = <<>>
           THEN Raise
           ELSE /\ lex' = RenumberedGroups(f, level, lex)
                /\ UNCHANGED <<lin, off, dep, raised>>

-----------------------------------------------------------------------------

\* i must run before j in the loops from d on.
MustPrecede(g, i, j, d) == \E dv \in getEdge(g, i, j) : isCarried(dv, d)

\* What is reached from S: what is in every set with S that no edge leaves.
Reached(es, S) ==
    {j \in Stmts : \A C \in SUBSET Stmts :
        S \subseteq C /\ (\A e \in es : e[1] \in C => e[2] \in C) => j \in C}

\* The strongly connected components of S.
Components(S, es) ==
    LET inS == {e \in es : e[1] \in S /\ e[2] \in S}
    IN  {{j \in S : j \in Reached(inS, {i}) /\ i \in Reached(inS, {j})} : i \in S}

ComponentEdges(cs, es) == {c \in cs \X cs : c[1] # c[2] /\ \E i \in c[1], j \in c[2] : <<i, j>> \in es}

\* The statements q of the loop that are not distributed go to the first group with a
\* statement that must run after them, or else to the last with one that must run
\* before, or else to the first.
Joined(q, es, groups) ==
    LET upto[n \in 0 .. Len(q)] ==
            IF n = 0 THEN groups
            ELSE LET gs == upto[n - 1]
                     needs == {k \in DOMAIN gs : \E i \in gs[k] : <<q[n], i>> \in es}
                     after == {k \in DOMAIN gs : \E i \in gs[k] : <<i, q[n]>> \in es}
                     place == IF needs # {} THEN First(needs)
                              ELSE IF after # {} THEN CHOOSE m \in after : \A k \in after : k <= m ELSE 1
                 IN  [gs EXCEPT ![place] = @ \cup {q[n]}]
    IN  upto[Len(q)]

\* Each group becomes a loop of its own; the constants behind it begin again.
Distributed(groups, ref, level, lx) ==
    LET upto[n \in 0 .. Len(groups)] ==
            IF n = 0 THEN [lex |-> lx, shifted |-> 0]
            ELSE LET done == upto[n - 1]
                     order == ref[level - 1] + n - 1
                     placed == PlacedAt(done.lex, groups[n], level - 1, order)
                     inside == getStatements(placed, [ref EXCEPT ![level - 1] = order], level)
                 IN  [lex |-> [i \in Stmts |-> IF i \in inside THEN [placed[i] EXCEPT ![level] = @ - done.shifted]
                                               ELSE placed[i]],
                      shifted |-> done.shifted + Cardinality(groups[n])]
    IN  upto[Len(groups)].lex

\* distribute: the statements S of one loop get loops of their own where they can.
distribute(S, level) ==
    LET ref == lex[First(S)]
        same_loop == getStatements(lex, ref, level)
        es == {e \in same_loop \X same_loop : e[1] # e[2] /\ MustPrecede(dep, e[1], e[2], level)}
        cs == {c \cap S : c \in Components(same_loop, es)} \ {{}}
    IN  /\ May("distribute")
        /\ Cardinality(S) > 1
        /\ S \subseteq same_loop
        /\ IF Cardinality(cs) = 1 THEN Raise
           ELSE /\ \E q \in TopologicalOrders(cs, ComponentEdges(cs, es)) :
                      LET groups == Joined(Sorted(same_loop \ S), es, q)
                      IN  lex' = Distributed(groups, ref, level,
                                    shiftLexicalOrder(lex, ref, level - 1, Len(groups) - 1))
                /\ UNCHANGED <<lin, off, dep, raised>>

-----------------------------------------------------------------------------
Next ==
    \/ Original
    \/ \E pi \in PermutationsAt(1, Dim) : PermuteAll(pi)
    \/ \E s \in Stmts, level \in script.levels : \E n \in 1 .. Dim - level + 1 :
          \E pi \in PermutationsAt(level, n) : Permute(s, level, pi)
    \/ \E S \in script.selections, level \in script.levels : \E n \in 1 .. Dim - level + 1 :
          \E pi \in PermutationsAt(level, n) : PermuteSet(S, level, pi)
    \/ \E S \in script.selections, k \in script.skews : skew(S, k.level, k.amount)
    \/ \E S \in script.selections, level \in script.levels : Reverse(S, level)
    \/ \E S \in script.selections, level \in script.levels : \E a \in Amounts : Shift(S, level, a)
    \/ \E S \in script.selections, level \in script.levels : fuse(S, level)
    \/ \E S \in script.selections, level \in script.levels : distribute(S, level)

Spec == Init /\ [][Next]_vars

-----------------------------------------------------------------------------
TypeOK ==
    /\ program \in Programs
    /\ lin \in [Stmts -> [Levels -> [Levels -> Int]]]
    /\ off \in [Stmts -> [Levels -> Int]]
    /\ lex \in [Stmts -> [Places -> Int]]
    /\ \A e \in dep : e.from \in Stmts /\ e.to \in Stmts /\ e.dv \in DependenceVectors
    /\ steps \in 0 .. script.steps + 1
    /\ raised \in BOOLEAN
=============================================================================
