---------------------------- MODULE Differences ----------------------------
(***************************************************************************)
(* Conjuncts of difference constraints: a conjunct is a set of constraints *)
(* <<x, y, c>>, each saying x - y <= c, with x and y among the loop        *)
(* variables 1 to Levels, one symbolic constant and zero.  They are closed *)
(* under all that the code generator does to a conjunct, and need no       *)
(* wildcard.  Two constraints that leave one difference are an equality,   *)
(* which the library keeps apart from the inequalities.                    *)
(*                                                                         *)
(* The library finds the same sets by eliminating variables.  Which of     *)
(* several constraints it comes to first depends on its pivots; here it is *)
(* the one on the outermost variables.                                     *)
(***************************************************************************)
EXTENDS Integers, FiniteSets, FiniteSetsExt, SequencesExt

CONSTANT Levels    \* the number of loops

Symbol == Levels + 1
Zero == Levels + 2
Vars == 1 .. Levels + 2

True == {}
False == {<<Zero, Zero, -1>>}
Not(k) == <<k[2], k[1], -k[3] - 1>>
Opposite(k) == <<k[2], k[1], -k[3]>>
On(k, x) == x \in {k[1], k[2]}
Lower(k, x) == k[2] = x       \* the constraint bounds x from below
Upper(k, x) == k[1] = x

\* All that follows from C, the tightest bound of each difference.
Tightest(C) == {k \in C : \A l \in C : (l[1] = k[1] /\ l[2] = k[2]) => k[3] <= l[3]}
Through(C, z) ==
    Tightest(C \cup UNION {{<<k[1], l[2], k[3] + l[3]>> : l \in {l \in C : l[1] = z}}
                              : k \in {k \in C : k[2] = z}})
Closed(C) == IF C = True THEN True ELSE FoldLeft(Through, Tightest(C), [z \in Vars |-> z])
Consistent(M) == \A k \in M : k[1] = k[2] => k[3] >= 0
Entails(M, k) == ~Consistent(M) \/ \E l \in M : l[1] = k[1] /\ l[2] = k[2] /\ l[3] <= k[3]

Feasible(C) == Consistent(Closed(C))
EntailsAll(M, D) == \A k \in D : Entails(M, k)
Must_Be_Subset(C, D) == EntailsAll(Closed(C), D)

\* A set in the order of Less, which is total on it.
Sorted(S, Less(_, _)) ==
    [j \in 1 .. Cardinality(S) |-> CHOOSE k \in S : Cardinality({l \in S : Less(l, k)}) = j - 1]

\* The constraints in the order in which they are visited.
Key(k) == 10000 * Max({k[1], k[2]}) + 1000 * Min({k[1], k[2]}) + 100 * k[1] + k[3]
InOrder(C) == Sorted(C, LAMBDA k, l : Key(k) < Key(l))
EQs(C) == InOrder({k \in C : Opposite(k) \in C /\ k[1] < k[2]})
GEQs(C) == InOrder({k \in C : Opposite(k) \notin C})

\* D without what follows from the rest of it and K, in turn.
Dropped(D, K, order) ==
    FoldLeft(LAMBDA E, k : IF k \in E /\ Entails(Closed((E \ {k}) \cup K), k) THEN E \ {k} ELSE E, D, order)
Irredundant(D, K) == Dropped(D, K, GEQs(D) \o EQs(D) \o InOrder({k \in D : Opposite(k) \in D /\ k[1] > k[2]}))

\* Of the closed M: variables that differ by a constant are given by one of them, the
\* outermost, and the inequalities are on these alone, none following from the others.
Reduced(M) ==
    LET Rank(x) == IF x = Zero THEN 0 ELSE x
        Given(x) == \E k \in M : k[1] = x /\ Opposite(k) \in M /\ Rank(k[2]) < Rank(x)
    IN  {k \in M : Opposite(k) \in M /\ \E x \in {k[1], k[2]} : ~Given(x)}
        \cup Irredundant({k \in M : \A x \in {k[1], k[2]} : ~Given(x)}, True)
Simplify(C) == IF Feasible(C) THEN Reduced({k \in Closed(C) : k[1] # k[2]}) ELSE C

\* The constraints of C, where K holds, that do not follow from K.
Gist(C, K) == IF Feasible(C \cup K) THEN Irredundant(Simplify(C \cup K), K) ELSE C

\* The variables V are projected away.
Project(C, V) == Simplify({k \in Closed(C) : k[1] # k[2] /\ k[1] \notin V /\ k[2] \notin V})

\* Whether C holds in an iteration, for a value of the symbolic constant.
Holds(C, at, n) ==
    LET Value(x) == IF x = Zero THEN 0 ELSE IF x = Symbol THEN n ELSE at[x]
    IN  \A k \in C : Value(k[1]) - Value(k[2]) <= k[3]

(***************************************************************************)
(* The inequalities of a conjunct whose equalities have been turned into   *)
(* pairs of them, as <<read, taken>>: the constraint that get_coef reads,  *)
(* and the one that and_with_GEQ copies.  The two differ when the conjunct *)
(* has an equality of two variables and an inequality on one of these: its *)
(* problem then has its columns in another order than the conjunct, and    *)
(* the copy has the two variables exchanged.                               *)
(***************************************************************************)
Exchanged(k, x, y) ==
    LET Other(z) == IF z = x THEN y ELSE IF z = y THEN x ELSE z
    IN  <<Other(k[1]), Other(k[2]), k[3]>>
Read(order, permuted) ==
    [j \in DOMAIN order |->
        <<order[j], IF permuted = <<>> THEN order[j] ELSE Exchanged(order[j], permuted[1][1], permuted[1][2])>>]
EQs_to_GEQs(C) ==
    Read(InOrder(C), SelectSeq(EQs(C), LAMBDA k :
        Zero \notin {k[1], k[2]} /\ \E l \in Range(GEQs(C)) : On(l, k[1]) \/ On(l, k[2])))

-----------------------------------------------------------------------------
(***************************************************************************)
(* SimpleHull: one conjunct that holds wherever one of Rs does, made of    *)
(* constraints that some of Rs have.  A side is 1 for upper bounds of a    *)
(* variable and 2 for lower ones, as the position it has in a constraint.  *)
(***************************************************************************)
\* The conjuncts but those that one before or after them contains.
Added(l, R, within, nested) ==
    IF nested = {} THEN Append(l, R)
    ELSE IF Min(nested) \in within THEN l
    ELSE Append(RemoveAt(l, Min(nested)), R)
Maximal(Rs) ==
    LET within(l, R) == {j \in DOMAIN l : Must_Be_Subset(R, l[j])}
        around(l, R) == {j \in DOMAIN l : Must_Be_Subset(l[j], R)}
    IN  FoldLeft(LAMBDA l, R : Added(l, R, within(l, R), within(l, R) \cup around(l, R)),
                 <<>>, SelectSeq(Rs, Feasible))

\* What C says of x beyond what it says of the other variables.
BoundsOf(C, x) == EQs_to_GEQs(Gist(C, Project(C, {x})))
Side(B, s, x) == SelectSeq(B, LAMBDA b : b[1][s] = x)

\* The outer variables that bounds B of x on side s are relative to and that have a
\* bound on that side themselves, in the hull or in B.
Relative(B, s, x, has) ==
    {v \in Vars \ {x, Zero} : /\ \E b \in Range(Side(B, s, x)) : b[1][3 - s] = v
                              /\ <<s, v>> \in has \/ \E b \in Range(B) : b[1][s] = v /\ b[1][3 - s] # x}

\* The bounds B on side s of x that the closed conjuncts others have too.
Common(B, s, x, others) == {k \in {b[2] : b \in Range(Side(B, s, x))} : \A M \in others : Entails(M, k)}

RECURSIVE Rectangular(_, _, _, _, _, _)
\* The bounds of x on side s in C, without the variables V, that all others have too; if
\* there are none, without those that its bounds are relative to as well.
Rectangular(C, s, x, V, has, others) ==
    LET Within(found, more) ==
            IF found # {} \/ more \subseteq V THEN found ELSE Rectangular(C, s, x, V \cup more, has, others)
        Of(B) == Within(Common(B, s, x, others), Relative(B, s, x, has))
    IN  Of(BoundsOf(Project(C, V), x))

\* To the hull, the bounds of x on side s of the conjuncts Cs, that of each with the
\* closed others: all that the others have too, up to the first conjunct of which they
\* have all; otherwise what the bounds of one imply without the variables in them.
AddSide(acc, Cs, bounds, others, s, x) ==
    LET full == {j \in DOMAIN Cs : Common(bounds[j], s, x, others[j]) = {b[2] : b \in Range(Side(bounds[j], s, x))}}
        Extended(found, implied) ==
            [hull |-> acc.hull \cup found \cup IF implied = <<>> THEN {} ELSE implied[1],
             has |-> IF found = {} THEN acc.has ELSE acc.has \cup {<<s, x>>}]
        Implied(j) == UNION {Rectangular(Cs[j], s, x, {v}, acc.has, others[j])
                                : v \in Relative(bounds[j], s, x, acc.has)}
        Of(f) == Extended(UNION {Common(bounds[j], s, x, others[j]) : j \in IF f = {} THEN DOMAIN Cs ELSE 1 .. Min(f)},
                          IF f # {} THEN <<>> ELSE SelectSeq([j \in DOMAIN Cs |-> Implied(j)], LAMBDA I : I # {}))
    IN  Of(full)
AddSides(acc, Cs, bounds, others, x) == AddSide(AddSide(acc, Cs, bounds, others, 2, x), Cs, bounds, others, 1, x)
AddBounds(acc, Cs, others, x) == AddSides(acc, Cs, [j \in DOMAIN Cs |-> BoundsOf(Cs[j], x)], others, x)

Hull(Rs, dims) ==
    LET inner(p) == Range(SubSeq(dims, p + 1, Len(dims)))
        others == [j \in DOMAIN Rs |-> {Closed(Rs[i]) : i \in DOMAIN Rs \ {j}}]
        Add(acc, p) == AddBounds(acc, [j \in DOMAIN Rs |-> Project(Rs[j], inner(p))], others, dims[p])
    IN  IF Rs = <<>> THEN False
        ELSE IF Len(Rs) = 1 THEN Rs[1]
        ELSE Simplify(FoldLeft(Add, [hull |-> True, has |-> {}], [p \in DOMAIN dims |-> p]).hull)
SimpleHull(Rs) == Hull(Maximal(Rs), <<Symbol>> \o [l \in 1 .. Levels |-> l])
=============================================================================
