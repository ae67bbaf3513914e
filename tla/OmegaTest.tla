----------------------------- MODULE OmegaTest -----------------------------
(***************************************************************************)
(* The Omega test (omega_core/oc_solve.cc, oc_eq.cc and normalize of       *)
(* oc_simple.cc): does a conjunction of linear equalities and inequalities *)
(* have an integer solution?  Equalities are eliminated exactly; then one  *)
(* variable after the other is eliminated from the inequalities.  Where    *)
(* that is not exact the real shadow is solved, which can refute, then the *)
(* dark shadow, which can confirm, then splinters along the lower bounds.  *)
(*                                                                         *)
(* A row is an equality or inequality, the constant at 0 and coefficient k *)
(* at k.  The calls of solve and solveGEQ are frames of a stack, whose     *)
(* head runs; every variable may be eliminated (safeVars is 0).  The       *)
(* inequalities are a set: their order and their hash keys only find those *)
(* with the same or opposite coefficients.  Colours, limits on the number  *)
(* of constraints and overflow are left out.                               *)
(***************************************************************************)
EXTENDS Integers, SequencesExt

CONSTANTS
    Problems,   \* the problems that are asked about
    Coordinates \* the values among which a problem in n variables has a solution if it has any

VARIABLES
    problem,    \* the problem that was asked about
    asked,      \* UNKNOWN: is there a solution (verifyProblem)?  FALSE: only refute (expensiveKill)
    stack,      \* the calls of solve and solveGEQ
    ret,        \* what the last call returned
    outer       \* the equalities added to the problem itself (addingEqualityConstraint)

vars == <<problem, asked, stack, ret, outer>>

\* Results; UNKNOWN and False are also what may be asked for.
True == "true"
False == "false"
UNKNOWN == "unknown"    \* OC_SOLVE_UNKNOWN
None == "none"
Wildcard == 0           \* the name of a variable that solving introduces
posInfinity == 100000

Answer(b) == IF b THEN True ELSE False

Abs(a) == IF a < 0 THEN -a ELSE a
Least(S) == CHOOSE x \in S : \A y \in S : x <= y
Greatest(S) == CHOOSE x \in S : \A y \in S : x >= y

RECURSIVE gcd(_, _)
gcd(b, a) == IF b = 0 THEN a ELSE gcd(a % b, b)

int_mod_hat(a, b) == LET r == a % b IN IF r > b - r THEN r - b ELSE r

-----------------------------------------------------------------------------
(***************************************************************************)
(* Rows and problems.                                                      *)
(***************************************************************************)
nVars(p) == Len(p.var)
Cols(p) == 1 .. nVars(p)

\* The gcd of the coefficients, zero when there are none.
Content(p, r) == FoldSet(LAMBDA k, g : gcd(Abs(r[k]), g), 0, Cols(p))

Opposite(p, r, s) == \A k \in Cols(p) : r[k] = -s[k]
Combined(a, r, b, s) == [k \in DOMAIN r |-> a * r[k] + b * s[k]]
Divided(r, g) == [k \in DOMAIN r |-> r[k] \div g]

OnRows(p, Op(_)) ==
    [p EXCEPT !.EQs = [e \in DOMAIN p.EQs |-> Op(p.EQs[e])], !.GEQs = {Op(r) : r \in p.GEQs}]

\* The last variable takes the place of variable i.
deleteVariable(p, i) ==
    LET n == nVars(p)
        Moved(r) == [k \in 0 .. n - 1 |-> IF k = i THEN r[n] ELSE r[k]]
    IN  [OnRows(p, Moved) EXCEPT !.var = SubSeq([p.var EXCEPT ![i] = p.var[n]], 1, n - 1)]

swapVars(p, i, j) ==
    LET Swapped(r) == [r EXCEPT ![i] = r[j], ![j] = r[i]]
    IN  [OnRows(p, Swapped) EXCEPT !.var = [p.var EXCEPT ![i] = p.var[j], ![j] = p.var[i]]]

\* Variable i is -c * sub in every row; what sub has at i is of the variable that takes
\* its place.
substitute(p, sub, i, c) ==
    LET Replaced(r) == [k \in DOMAIN r |-> (IF k = i THEN 0 ELSE r[k]) - c * r[i] * sub[k]]
    IN  OnRows(p, Replaced)

Without(r, i) == [r EXCEPT ![i] = 0]

\* A variable in no equality and bounded at most on one side goes, with the inequalities
\* it is in.
IsFree(p, i) ==
    /\ \A e \in DOMAIN p.EQs : p.EQs[e][i] = 0
    /\ \/ \A r \in p.GEQs : r[i] <= 0
       \/ \A r \in p.GEQs : r[i] >= 0
Freed(p, i) == deleteVariable([p EXCEPT !.GEQs = {r \in @ : r[i] = 0}], i)

RECURSIVE freeEliminations(_)
freeEliminations(p) ==
    LET freed == FoldRight(LAMBDA i, q : IF IsFree(q, i) THEN Freed(q, i) ELSE q,
                           [k \in Cols(p) |-> k], p)
    IN  IF freed = p THEN p ELSE freeEliminations(freed)

-----------------------------------------------------------------------------
(***************************************************************************)
(* Calls.  A frame has the problem it is about, the result that is wanted, *)
(* where it is and what it is splintering.                                 *)
(***************************************************************************)
NoShadow == [dark |-> None, feasible |-> FALSE, left |-> {}, worst |-> 0, decrements |-> 0]
Frame(p, want, at) == [p |-> p, want |-> want, at |-> at, split |-> NoShadow]

top == Head(stack)
p0 == top.p
At(place) == stack # <<>> /\ top.at = place

\* conservative is counted up while a dark shadow or splinters are solved.
Conservative == \E k \in 2 .. Len(stack) : stack[k].at \in {"dark", "splinter", "still"}

\* An equality of the problem that runs is one of the problem that was asked about,
\* unless it is about variables that are not.
Outwards(p, r) ==
    [k \in DOMAIN problem.var \cup {0} |->
        IF k = 0 THEN r[0]
        ELSE LET at == {i \in Cols(p) : p.var[i] = k} IN IF at = {} THEN 0 ELSE r[CHOOSE i \in at : TRUE]]
addingAlways(p, rows) ==
    outer' = IF asked = UNKNOWN /\ \A i \in Cols(p) : p.var[i] # Wildcard
             THEN outer \cup {Outwards(p, r) : r \in rows}
             ELSE outer
addingEqualityConstraint(p, rows) ==
    outer' = IF asked = UNKNOWN /\ ~Conservative /\ \A i \in Cols(p) : p.var[i] # Wildcard
             THEN outer \cup {Outwards(p, r) : r \in rows}
             ELSE outer

Return(result) == stack' = Tail(stack) /\ ret' = result
GoTo(p, place) == stack' = <<[top EXCEPT !.p = p, !.at = place]>> \o Tail(stack) /\ UNCHANGED ret
Call(p, want, at, place, split) ==
    /\ stack' = <<Frame(p, want, at), [top EXCEPT !.at = place, !.split = split]>> \o Tail(stack)
    /\ ret' = None

Keep == UNCHANGED <<problem, asked, outer>>

-----------------------------------------------------------------------------
(***************************************************************************)
(* solveEQ.                                                                *)
(***************************************************************************)
\* The equalities are taken from the last; those that are easily solved come last.
Delay(p, e) ==
    LET nonzero == {i \in Cols(p) : e[i] # 0}
        units == {i \in nonzero : Abs(e[i]) = 1}
    IN  IF units # nonzero \/ units = {} THEN 6 ELSE IF Cardinality(units) = 1 THEN 0 ELSE 1

Ordered(p) ==
    {[e \in DOMAIN p.EQs |-> p.EQs[f[e]]] :
        f \in {g \in Permutations(DOMAIN p.EQs) :
                   \A e \in DOMAIN p.EQs : e > 1 => Delay(p, p.EQs[g[e - 1]]) >= Delay(p, p.EQs[g[e]])}}

SortEQs ==
    /\ At("solve")
    /\ \E eqs \in Ordered(p0) : GoTo([p0 EXCEPT !.EQs = eqs], "EQ")
    /\ Keep

eq == Last(p0.EQs)
EQsLeft == At("EQ") /\ p0.EQs # <<>>

\* solve: nothing is left, or the inequalities.
EQsSolved ==
    /\ At("EQ") /\ p0.EQs = <<>>
    /\ IF p0.GEQs = {} THEN Return(True) ELSE GoTo(p0, "GEQ")
    /\ Keep

\* 0 = c, or a constant that the coefficients do not divide.
Unsolvable == LET g == Content(p0, eq) IN IF g = 0 THEN eq[0] # 0 ELSE eq[0] % g # 0

RefuteEQ == EQsLeft /\ Unsolvable /\ Return(False) /\ Keep

DropEQ ==
    /\ EQsLeft /\ ~Unsolvable /\ Content(p0, eq) = 0
    /\ GoTo([p0 EXCEPT !.EQs = Front(@)], "EQ")
    /\ Keep

WithEQ(e) == [p0 EXCEPT !.EQs[Len(p0.EQs)] = e]

ReduceEQ ==
    /\ EQsLeft /\ ~Unsolvable /\ Content(p0, eq) > 1
    /\ GoTo(WithEQ(Divided(eq, Content(p0, eq))), "EQ")
    /\ Keep

Reduced == EQsLeft /\ Content(p0, eq) = 1
Units == {i \in Cols(p0) : Abs(eq[i]) = 1}

\* A variable with coefficient 1 or -1 is solved for and substituted.
doElimination ==
    /\ Reduced /\ Units # {}
    /\ \E i \in {Greatest(Units)} :
           GoTo(deleteVariable(substitute([p0 EXCEPT !.EQs = Front(@)], Without(eq, i), i, eq[i]), i), "EQ")
    /\ Keep

\* The variables that are in this equality and nowhere else; the one with the smallest
\* coefficient g allows the others to be taken modulo g.
Alone ==
    {k \in Cols(p0) :
        /\ eq[k] # 0
        /\ \A e \in DOMAIN Front(p0.EQs) : p0.EQs[e][k] = 0
        /\ \A r \in p0.GEQs : r[k] = 0}
\* Of these variables the last with the smallest coefficient.
Smallest(vs) ==
    {j \in vs : eq[j] # 0 /\ \A k \in vs : eq[k] # 0 => Abs(eq[k]) > Abs(eq[j]) \/ (Abs(eq[k]) = Abs(eq[j]) /\ k <= j)}
Weaker ==
    IF Alone = {} THEN eq
    ELSE LET j == CHOOSE k \in Smallest(Alone) : TRUE
         IN  [k \in DOMAIN eq |-> IF k = j THEN eq[k] ELSE int_mod_hat(eq[k], Abs(eq[j]))]

ReduceStrength ==
    /\ Reduced /\ Units = {} /\ Weaker # eq
    /\ GoTo(WithEQ(Weaker), "EQ")
    /\ Keep

\* Least remainders: a new variable, which takes the place of the one with the smallest
\* coefficient, stands for the equality divided by one more than that.
doMod ==
    /\ Reduced /\ Units = {} /\ Weaker = eq
    /\ \E j \in Smallest(Cols(p0)) :
           LET factor == Abs(eq[j]) + 1
               nFactor == int_mod_hat(eq[j], factor)
               sub == [[k \in DOMAIN eq |-> int_mod_hat(eq[k], factor)] EXCEPT ![j] = factor * nFactor]
               p == substitute(p0, sub, j, nFactor)
           IN  GoTo([p EXCEPT !.var[j] = Wildcard, !.EQs[Len(p.EQs)] = Divided(@, factor)], "EQ")
    /\ Keep

solveEQ == SortEQs \/ EQsSolved \/ RefuteEQ \/ DropEQ \/ ReduceEQ \/ doElimination \/ ReduceStrength \/ doMod

-----------------------------------------------------------------------------
(***************************************************************************)
(* solveGEQ: one variable, free variables, normalize.                      *)
(***************************************************************************)
\* What a set of rows of one variable says of it.
Lowers(rows) == {-(r[0] \div r[1]) : r \in {s \in rows : s[1] > 0}}
Uppers(rows) == {r[0] \div (-r[1]) : r \in {s \in rows : s[1] < 0}}
Crossing(rows) == \E l \in Lowers(rows), u \in Uppers(rows) : l > u
Meeting(rows) == {l \in Lowers(rows) \cap Uppers(rows) : ~Crossing(rows)}
Constant(p, r) == \A k \in Cols(p) : r[k] = 0

\* A lower bound that is an upper bound is an equality.
Bounded(p, rows) ==
    /\ Return(Answer(~Crossing(rows) /\ \A r \in rows : Constant(p, r) => r[0] >= 0))
    /\ addingEqualityConstraint(p, {[k \in {0, 1} |-> IF k = 0 THEN -l ELSE 1] : l \in Meeting(rows)})
    /\ UNCHANGED <<problem, asked>>

OneVariable == At("GEQ") /\ nVars(p0) = 1 /\ Bounded(p0, p0.GEQs)

FreeVariables ==
    /\ At("GEQ") /\ nVars(p0) # 1 /\ ~p0.freed
    /\ GoTo([freeEliminations(p0) EXCEPT !.freed = TRUE], "GEQ")
    /\ Keep

\* Each inequality divided by the gcd of its coefficients, and of those with the same
\* coefficients the tightest.
Normal(p) ==
    LET tight == {Divided(r, Content(p, r)) : r \in {s \in p.GEQs : ~Constant(p, s)}}
    IN  {r \in tight : \A s \in tight : r[0] <= s[0] \/ \E k \in Cols(p) : s[k] # r[k]}
Single(p, r) == Cardinality({k \in Cols(p) : r[k] # 0}) = 1

normalize ==
    /\ At("GEQ") /\ nVars(p0) # 1 /\ p0.freed
    /\ \E rows \in {Normal(p0)} :
           LET opposite == {r \in rows \X rows : Opposite(p0, r[1], r[2])}
               false == \/ \E r \in p0.GEQs : Constant(p0, r) /\ r[0] < 0
                        \/ \E r \in opposite : r[1][0] + r[2][0] < 0
               tight == {r \in opposite : r[1][0] + r[2][0] = 0}
               equal == {r[1] : r \in {s \in tight : \E k \in Cols(p0) : s[1][k] > 0 /\ \A i \in 1 .. k - 1 : s[1][i] = 0}}
           IN  IF false THEN Return(False) /\ Keep
               ELSE /\ addingEqualityConstraint(p0, equal)
                    /\ UNCHANGED <<problem, asked>>
                    /\ IF equal # {} THEN GoTo([p0 EXCEPT !.GEQs = rows, !.EQs = SetToSeq(equal)], "solve")
                       ELSE IF \A r \in rows : Single(p0, r) THEN Return(True)
                       ELSE GoTo([p0 EXCEPT !.GEQs = rows], "choose")

-----------------------------------------------------------------------------
(***************************************************************************)
(* solveGEQ: the variable to eliminate.                                    *)
(***************************************************************************)
\* An upper and a lower bound of v and what follows from them without v.
Bounds(p, v) == {b \in p.GEQs \X p.GEQs : b[1][v] < 0 /\ b[2][v] > 0}
Uc(b, v) == -b[1][v]
Lc(b, v) == b[2][v]
Shadow(b, v) == Combined(Lc(b, v), b[1], Uc(b, v), b[2])
grey(b, v) == (Lc(b, v) - 1) * (Uc(b, v) - 1)

analyzeElimination(p, v) ==
    LET n == Cols(p)
        parallel == {b \in Bounds(p, v) : Opposite(p, b[1], b[2])}
        other == Bounds(p, v) \ parallel
        close == {b \in parallel : Shadow(b, v)[0] < grey(b, v)}
        g(b) == Content(p, Shadow(b, v))
        splinters(b) == LET s == Shadow(b, v) IN (s[0] \div g(b)) - ((s[0] - grey(b, v)) \div g(b))
        feasible == close = {}
        inexact == ~feasible \/ \E b \in other : splinters(b) # 0
        maxUBc == Greatest({0} \cup {-r[v] : r \in p.GEQs})
        maxLBc == Greatest({0} \cup {r[v] : r \in p.GEQs})
        Per(c, max) == 1 + ((c * max - c - max) \div max)
        lower == {r \in p.GEQs : r[v] > 1}
        upper == {r \in p.GEQs : r[v] < -1}
        one == IF feasible THEN 1 ELSE 0
    IN  [darkConstraints |-> Cardinality(other),
         darkShadowFeasible |-> feasible,
         unit |-> Cardinality({b \in other : g(b) > 1}),
         parallelSplinters |-> Least({posInfinity} \cup {Shadow(b, v)[0] + 1 : b \in close}),
         disjointSplinters |-> IF feasible THEN 1 + MapThenSumSet(splinters, other) ELSE posInfinity,
         lbSplinters |-> one + IF inexact THEN MapThenSumSet(LAMBDA r : Per(r[v], maxUBc), lower) ELSE 0,
         ubSplinters |-> one + IF inexact THEN MapThenSumSet(LAMBDA r : Per(-r[v], maxLBc), upper) ELSE 0]

Fewest(a) == Least({a.parallelSplinters, a.disjointSplinters, a.lbSplinters, a.ubSplinters})
score(a) == 10000 * (Fewest(a) - 1) + a.darkConstraints - 3 * a.unit
exact(a) == a.disjointSplinters = 1 \/ Least({a.lbSplinters, a.parallelSplinters}) = 1

NothingLeft == At("choose") /\ p0.GEQs = {} /\ Return(True) /\ Keep

\* The variable with the best score is made the last one.
ChooseVariable ==
    /\ At("choose") /\ p0.GEQs # {}
    /\ \E analysis \in {[v \in Cols(p0) |-> analyzeElimination(p0, v)]} :
           \E i \in Cols(p0) :
               /\ \A v \in Cols(p0) :
                      LET s == score(analysis[v]) IN s > score(analysis[i]) \/ (s = score(analysis[i]) /\ v <= i)
               /\ stack' = <<[top EXCEPT !.p = swapVars(p0, i, nVars(p0)),
                                         !.at = IF exact(analysis[i]) THEN "eliminate" ELSE "shadow",
                                         !.split.feasible = analysis[i].darkShadowFeasible]>> \o Tail(stack)
    /\ UNCHANGED ret
    /\ Keep

last == nVars(p0)

-----------------------------------------------------------------------------
(***************************************************************************)
(* solveGEQ: exact elimination.                                            *)
(***************************************************************************)
Pairs(p) == {b \in Bounds(p, nVars(p)) : ~Opposite(p, b[1], b[2])}
RealRow(b, v) == Divided(Shadow(b, v), gcd(Lc(b, v), Uc(b, v)))
Projected(p) ==
    deleteVariable([p EXCEPT !.GEQs = {r \in @ : r[nVars(p)] = 0} \cup {RealRow(b, nVars(p)) : b \in Pairs(p)}],
                   nVars(p))

\* One variable is left: its bounds are the answer.
EliminateToOne ==
    /\ At("eliminate") /\ last = 2
    /\ LET p == Projected(p0) IN Bounded(p, p.GEQs)

\* A variable without lower bounds is free.
EliminateUnbounded ==
    /\ At("eliminate") /\ last # 2
    /\ \A r \in p0.GEQs : r[last] <= 0
    /\ GoTo(freeEliminations(p0), "choose")
    /\ Keep

Eliminate ==
    /\ At("eliminate") /\ last # 2
    /\ \E r \in p0.GEQs : r[last] > 0
    /\ GoTo(Projected(p0), IF Pairs(p0) = {} THEN "choose" ELSE "GEQ")
    /\ Keep

-----------------------------------------------------------------------------
(***************************************************************************)
(* solveGEQ: real and dark shadow.                                         *)
(***************************************************************************)
\* How much more than the real shadow asks, for an integer between the bounds.
Gap(lc, uc) ==
    LET g == gcd(lc, uc) IN IF lc = uc THEN uc - 1 ELSE ((uc \div g) - 1) * ((lc \div g) - 1)
DarkRow(b, v) == [RealRow(b, v) EXCEPT ![0] = @ - Gap(Lc(b, v), Uc(b, v))]
Darkened(p) ==
    deleteVariable([p EXCEPT !.GEQs = {r \in @ : r[nVars(p)] = 0} \cup {DarkRow(b, nVars(p)) : b \in Pairs(p)}],
                   nVars(p))

RealShadow ==
    /\ At("shadow")
    /\ LET split == [NoShadow EXCEPT
                        !.dark = [Darkened(p0) EXCEPT !.freed = FALSE],
                        !.feasible = top.split.feasible]
           real == [Projected(p0) EXCEPT !.freed = FALSE]
       IN  /\ stack' = <<Frame(real, False, "GEQ"), [top EXCEPT !.p = p0, !.at = "real", !.split = split]>>
                       \o Tail(stack)
           /\ ret' = None
    /\ Keep

\* Only simplifyProblem, around verifyProblem, lets equalities be added to the problem
\* itself; so none are when the real shadow of a call that only refutes is solved,
\* although the code makes that problem the original one for as long.
RealAnswered ==
    /\ At("real")
    /\ IF ret = False THEN Return(False)
       ELSE IF top.want = False THEN Return(UNKNOWN)
       ELSE IF top.split.feasible THEN Call(top.split.dark, top.want, "GEQ", "dark", top.split)
       ELSE GoTo(p0, "splinters")
    /\ Keep

DarkAnswered ==
    /\ At("dark")
    /\ IF ret = False THEN GoTo(p0, "splinters") ELSE Return(ret)
    /\ Keep

-----------------------------------------------------------------------------
(***************************************************************************)
(* solveGEQ: splinters.  A solution that the dark shadow misses is just    *)
(* above a lower bound.                                                    *)
(***************************************************************************)
StartSplinters ==
    /\ At("splinters")
    /\ LET split == [NoShadow EXCEPT !.left = {r \in p0.GEQs : r[last] > 1},
                                     !.worst = Greatest({1} \cup {-r[last] : r \in p0.GEQs})]
       IN  IF split.left = {} THEN Return(False)
           ELSE stack' = <<[top EXCEPT !.at = "bound", !.split = split]>> \o Tail(stack) /\ UNCHANGED ret
    /\ Keep

maxIncrLess(a, worst) == ((a - 1) * (worst - 1) - 1) \div worst - 1
maxIncr(a, worst) == ((a - 1) * (worst - 1) - 1) \div worst

\* The lower bounds are taken in the order of their coefficients.
NextBound ==
    /\ At("bound")
    /\ \E r \in top.split.left :
           /\ \A s \in top.split.left : r[last] <= s[last]
           /\ stack' = <<[top EXCEPT !.at = "equal",
                                     !.p = [p0 EXCEPT !.EQs = <<r>>, !.GEQs = @ \ {r}],
                                     !.split = [@ EXCEPT !.left = @ \ {r},
                                                         !.decrements = maxIncr(r[last], top.split.worst) + 1]]>>
                       \o Tail(stack)
    /\ UNCHANGED ret
    /\ Keep

TrySplinter ==
    /\ At("equal") /\ top.split.decrements > 0
    /\ Call(p0, top.want, "solve", "splinter", top.split)
    /\ Keep

SplinterForgotten ==
    /\ At("splinter")
    /\ IF ret = True THEN Return(True) ELSE GoTo(p0, "equal")
    /\ Keep

SplinterAnswered ==
    /\ At("splinter")
    /\ IF ret = True THEN Return(True)
       ELSE /\ stack' = <<[top EXCEPT !.at = "equal", !.p.EQs[1][0] = @ - 1, !.split.decrements = @ - 1]>>
                        \o Tail(stack)
            /\ UNCHANGED ret
    /\ Keep

\* The bound is exhausted.  The next one is only tried while there may be a solution.
BoundExhausted ==
    /\ At("equal") /\ top.split.decrements <= 0
    /\ IF top.split.left = {} THEN Return(False)
       ELSE LET p == [p0 EXCEPT !.EQs = <<>>, !.GEQs = @ \cup {p0.EQs[1]}]
            IN  /\ stack' = <<Frame(p, False, "solve"), [top EXCEPT !.p = p, !.at = "still"]>> \o Tail(stack)
                /\ ret' = None
    /\ Keep

StillFeasible ==
    /\ At("still")
    /\ IF ret = False THEN Return(False) ELSE GoTo(p0, "bound")
    /\ Keep

solveGEQ ==
    \/ OneVariable \/ FreeVariables \/ normalize
    \/ NothingLeft \/ ChooseVariable \/ EliminateToOne \/ EliminateUnbounded \/ Eliminate
    \/ RealShadow \/ RealAnswered \/ DarkAnswered
    \/ StartSplinters \/ NextBound \/ TrySplinter \/ SplinterAnswered \/ BoundExhausted \/ StillFeasible

-----------------------------------------------------------------------------
Init ==
    /\ problem \in Problems
    /\ asked \in {UNKNOWN, False}
    /\ ret = None
    /\ outer = {}
    /\ stack = IF asked = UNKNOWN THEN <<Frame(freeEliminations(problem), UNKNOWN, "solve")>>
               ELSE <<Frame(problem, False, "solve")>>

Next == solveEQ \/ solveGEQ

Spec == Init /\ [][Next]_vars /\ WF_vars(Next)

-----------------------------------------------------------------------------
Rows(p) == Range(p.EQs) \cup p.GEQs

\* Rows are as wide as the problem.  Equalities are only left while they are solved, and
\* in a splinter, which has one.  A call that waits has been answered when it runs again.
TypeOK ==
    /\ asked \in {UNKNOWN, False} /\ ret \in {True, False, UNKNOWN, None}
    /\ stack = <<>> => ret # None
    /\ \A k \in DOMAIN stack :
           LET f == stack[k]
           IN  /\ \A r \in Rows(f.p) : DOMAIN r = Cols(f.p) \cup {0}
               /\ f.at \notin {"solve", "EQ"} => Len(f.p.EQs) = IF f.at \in {"equal", "splinter"} THEN 1 ELSE 0
               /\ k > 1 => f.at \in {"real", "dark", "splinter", "still"}
    /\ stack # <<>> /\ top.at \in {"real", "dark", "splinter", "still"} => ret # None

RECURSIVE Value(_, _, _)
\* The row at x, of the first k variables.
Value(r, x, k) == IF k = 0 THEN r[0] ELSE r[k] * x[k] + Value(r, x, k - 1)
Solution(p, x) ==
    /\ \A e \in DOMAIN p.EQs : Value(p.EQs[e], x, nVars(p)) = 0
    /\ \A r \in p.GEQs : Value(r, x, nVars(p)) >= 0
Points == [DOMAIN problem.var -> Coordinates[nVars(problem)]]
HasSolution == \E x \in Points : Solution(problem, x)

\* The answer is right, and there is one when more than a refutation was asked for
\* (Problem::solve): no elimination, shadow or splinter loses a solution or makes one up.
SolvesExactly ==
    stack = <<>> =>
        /\ ret = True => HasSolution
        /\ ret = False => ~HasSolution
        /\ asked = UNKNOWN => ret # UNKNOWN

\* A problem that has been verified has a solution, in which the equalities that were
\* added to it hold (Problem::simplifyProblem).
VerifiedHasSolution ==
    stack = <<>> /\ asked = UNKNOWN /\ ret = True =>
        \E x \in Points : Solution(problem, x) /\ \A e \in outer : Value(e, x, nVars(problem)) = 0

\* An equality that is found on the way and added to the problem itself holds in all
\* solutions of the problem (Problem::addingEqualityConstraint).
EqualitiesImplied ==
    stack = <<>> /\ outer # {} =>
        \A x \in Points : Solution(problem, x) => \A e \in outer : Value(e, x, nVars(problem)) = 0

\* Every problem is answered (Problem::solve): equalities are made smaller until one is
\* solved, variables go one by one, splinters come to an end.
Answers == <>(stack = <<>>)
=============================================================================
