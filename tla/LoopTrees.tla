----------------------------- MODULE LoopTrees -----------------------------
(***************************************************************************)
(* The polyhedra scanner (CodeGen::buildAST and the nodes of CG.cc): from  *)
(* the iteration spaces of some statements, a tree of loops, sequences and *)
(* leaves that runs each statement in its space.  A tree is built level by *)
(* level, its conditions are worked out, guards are lifted out of loops by *)
(* splitting these, and hoisted past the levels that need no loop.  What a *)
(* tree does is Run; the text it is printed as is not modelled.            *)
(*                                                                         *)
(* Conditions are conjuncts of difference constraints, and spaces bounded; *)
(* strides, uninterpreted functions and CUDA's levels are left out.  The   *)
(* recursion is that of the code, node by node; a node that the code       *)
(* changes in place is a new one here.                                     *)
(***************************************************************************)
EXTENDS Differences

CONSTANTS
    Nests,     \* records: spaces (a conjunct for each statement), known, effort, upright
    Symbols,   \* values of the symbolic constant for which trees are run
    Iterations \* values of a loop variable

VARIABLES
    nest,         \* the arguments
    remap,        \* the statement each of the scanned statements comes from
    projected_IS, \* for each level, what the levels up to it may be in each statement
    cgr, pc

vars == <<nest, remap, projected_IS, cgr, pc>>

Statements == DOMAIN remap

Null == [kind |-> "none"]
CG_leaf(active) == [kind |-> "leaf", active |-> active, known |-> True,
                    guards |-> [i \in Statements |-> True]]
CG_loop(active, level, body) ==
    [kind |-> "loop", active |-> active, level |-> level, body |-> body, needLoop |-> FALSE,
     known |-> True, restriction |-> True, bounds |-> True, guard |-> True]
CG_split(active, restrictions, clauses) ==
    [kind |-> "split", active |-> active, restrictions |-> restrictions, clauses |-> clauses]

InStatementOrder(S) == Sorted(S, <)
Filled(s) == SelectSeq(s, LAMBDA t : t.tree # Null)

-----------------------------------------------------------------------------
(* buildAST *)

Infinity == 1000

\* The constant bounds that r has for x: those it states, and those of a variable that
\* x differs from by a constant, when r has no other.
query_variable_bounds(r, x) ==
    LET linked == {y \in Vars : y # x /\ (\A k \in r : k[1] \in {x, y, Zero} /\ k[2] \in {x, y, Zero})
                                     /\ \E k \in Range(EQs(r)) : {k[1], k[2]} = {x, y}}
        C == IF linked \ {Zero} = {} THEN r ELSE Closed(r)
    IN  [lb |-> Max({-k[3] : k \in {k \in C : k[1] = Zero /\ k[2] = x}} \cup {-Infinity}),
         ub |-> Min({k[3] : k \in {k \in C : k[1] = x /\ k[2] = Zero}} \cup {Infinity})]

RECURSIVE buildAST(_, _, _, _)

\* The statements in groups whose constant bounds on this level do not overlap, and the
\* ends of the group before and of the group itself.
Groups(level, active, restriction) ==
    LET space(i) == Simplify(projected_IS[level][i] \cup restriction)
        bounds == {[b |-> query_variable_bounds(space(i), level), i |-> i] : i \in {i \in active : Feasible(space(i))}}
        Less(p, q) == \/ p.b.lb < q.b.lb
                      \/ p.b.lb = q.b.lb /\ p.b.ub < q.b.ub
                      \/ p.b = q.b /\ p.i < q.i
        Add(groups, e) ==
            LET g == Last(groups)
            IN  IF groups = <<>> THEN <<[active |-> {e.i}, prev |-> -Infinity, next |-> e.b.ub]>>
                ELSE IF e.b.lb <= g.next
                THEN Front(groups) \o <<[g EXCEPT !.active = @ \cup {e.i}, !.next = Max({@, e.b.ub})]>>
                ELSE groups \o <<[active |-> {e.i}, prev |-> g.next, next |-> e.b.ub]>>
    IN  FoldLeft(Add, <<>>, Sorted(bounds, Less))

InOne(active, parts) ==
    IF parts = <<>> THEN Null
    ELSE IF Len(parts) = 1 THEN parts[1].tree
    ELSE CG_split(active, [j \in DOMAIN parts |-> parts[j].cond], [j \in DOMAIN parts |-> parts[j].tree])

SplitOnConstants(level, active, restriction, groups) ==
    LET cond(j) ==
            (IF groups[j].prev = -Infinity THEN {} ELSE {<<Zero, level, -groups[j].prev - 1>>})
            \cup IF j = Len(groups) \/ groups[j].next = Infinity THEN {} ELSE {<<level, Zero, groups[j].next>>}
    IN  InOne(active, Filled([j \in DOMAIN groups |->
            [cond |-> cond(j),
             tree |-> buildAST(level, groups[j].active, FALSE, Simplify(cond(j) \cup restriction))]]))

\* A constraint of statement i that its hull with the others lacks may divide the level:
\* the part where cond holds, before the one where it does not.
Divisions(level, active, Rs, hull) ==
    LET Of(i) == LET own == SelectSeq(EQs_to_GEQs(Gist(Rs[i], hull)), LAMBDA b : On(b[1], level))
                 IN  [j \in DOMAIN own |->
                         IF Lower(own[j][1], level) THEN [i |-> i, cond |-> Not(own[j][2]), first |-> FALSE]
                         ELSE [i |-> i, cond |-> own[j][2], first |-> TRUE]]
        in(j, k) == Feasible(Rs[j] \cup {k})
        Divided(d) ==
            LET others == active \ {d.i}
                own == {d.i}
            IN  [cond |-> d.cond,
                 proper |-> \A j \in others : ~(in(j, d.cond) /\ in(j, Not(d.cond))),
                 chunks |-> <<{j \in others : in(j, d.cond)} \cup IF d.first THEN own ELSE {},
                              {j \in others : ~in(j, d.cond) /\ in(j, Not(d.cond))} \cup IF d.first THEN {} ELSE own>>]
        all == FlattenSeq([j \in 1 .. Cardinality(active) |-> Of(InStatementOrder(active)[j])])
    IN  SelectSeq([j \in DOMAIN all |-> Divided(all[j])],
                  LAMBDA d : d.proper /\ d.chunks[1] # {} /\ d.chunks[2] # {})

DivisionsOf(level, active, Rs) ==
    Divisions(level, active, Rs, SimpleHull([j \in 1 .. Cardinality(active) |-> Rs[InStatementOrder(active)[j]]]))

\* The first division makes two parts, and without one the level is one loop.
SplitExhaustively(level, active, restriction, divisions) ==
    LET d == Head(divisions)
        half == <<{d.cond}, {Not(d.cond)}>>
    IN  IF divisions = <<>> THEN CG_loop(active, level, buildAST(level + 1, active, TRUE, restriction))
        ELSE InOne(active, Filled([j \in 1 .. 2 |->
                 [cond |-> half[j], tree |-> buildAST(level, d.chunks[j], FALSE, half[j])]]))

buildAST(level, active, split_on_const, restriction) ==
    IF level > Levels THEN CG_leaf(active)
    ELSE IF active = {} THEN Null
    ELSE IF Cardinality(active) = 1 THEN CG_loop(active, level, buildAST(level + 1, active, TRUE, restriction))
    ELSE IF split_on_const
    THEN SplitOnConstants(level, active, restriction, Groups(level, active, restriction))
    ELSE SplitExhaustively(level, active, restriction,
             DivisionsOf(level, active, [i \in active |-> Simplify(projected_IS[level][i] \cup restriction)]))

-----------------------------------------------------------------------------
(* recompute *)

\* The inequality that and_with_GEQ reads of an equality: that of two variables may be
\* kept either way round, upright or not.
Row(k) == IF nest.upright \/ Zero \in {k[1], k[2]} THEN k ELSE Opposite(k)

\* Below and above the constraint k, or above and below it, as k bounds the level.
Halves(k, level) == IF Lower(k, level) THEN <<{Not(k)}, {k}>> ELSE <<{k}, {Not(k)}>>

\* A loop whose hull has no bound on side s is forcefully split at a constraint of one of
\* its spaces.
ForcedCut(spaces, s, level) ==
    LET bounding == FlattenSeq([j \in DOMAIN spaces |-> SelectSeq(GEQs(spaces[j]), LAMBDA k : k[s] = level)])
        fixing == FlattenSeq([j \in DOMAIN spaces |-> SelectSeq(EQs(spaces[j]), LAMBDA k : On(k, level))])
    IN  Halves(IF bounding # <<>> THEN Head(bounding) ELSE Row(Head(fixing)), level)

RECURSIVE recompute(_, _, _, _)

RecomputeSplit(t, parent_active, known, restriction) ==
    LET active == t.active \cap parent_active
        parts == Filled([j \in DOMAIN t.clauses |->
                     [cond |-> t.restrictions[j],
                      tree |-> recompute(t.clauses[j], active, known, Simplify(t.restrictions[j] \cup restriction))]])
    IN  IF active = {} \/ parts = <<>> THEN Null
        ELSE CG_split(active, [j \in DOMAIN parts |-> parts[j].cond], [j \in DOMAIN parts |-> parts[j].tree])

\* Once bounds and guard are known, the body.
Descended(t) ==
    LET within == t.bounds \cup t.guard
        body == recompute(t.body, t.active, Simplify(t.known \cup within), Simplify(t.restriction \cup within))
    IN  IF body = Null THEN Null ELSE [t EXCEPT !.body = body]

\* The guard is what remains of the hull outside; without bounds there is no loop yet.
Guarded(t, spaces, hull) ==
    LET missing == {s \in {1, 2} : ~\E k \in t.bounds : k[s] = t.level}
        enforced == t.bounds \cup t.known
    IN  IF missing # {}
        THEN recompute(CG_split(t.active, ForcedCut(spaces, Max(missing), t.level), <<t, t>>),
                       t.active, t.known, t.restriction)
        ELSE Descended([t EXCEPT !.guard =
                 IF t.needLoop THEN Gist(Project(Gist(hull, enforced), {t.level}), enforced) ELSE True])

\* A level that an equality of the hull fixes is an assignment.
Bounded(t, spaces, hull) ==
    LET assignment == SelectSeq(EQs(hull), LAMBDA k : On(k, t.level))
    IN  Guarded([t EXCEPT !.needLoop = (assignment = <<>>),
                          !.bounds = IF assignment = <<>>
                                     THEN {k \in Range(GEQs(Gist(hull, t.known))) : On(k, t.level)}
                                     ELSE {Head(assignment), Opposite(Head(assignment))}],
                spaces, hull)
Activated(t, spaces) == IF spaces = <<>> THEN Null ELSE Bounded(t, spaces, SimpleHull(spaces))

RecomputeLoop(t, parent_active, known, restriction) ==
    LET Space(i) == Simplify(restriction \cup projected_IS[t.level][i])
        active == {i \in t.active \cap parent_active : Feasible(Space(i))}
        order == InStatementOrder(active)
    IN  Activated([t EXCEPT !.active = active, !.known = known, !.restriction = restriction],
                  [j \in DOMAIN order |-> Space(order[j])])

RecomputeLeaf(t, parent_active, known, restriction) ==
    LET Space(i) == Simplify(projected_IS[Levels][i] \cup restriction)
        active == {i \in t.active \cap parent_active : Feasible(Space(i))}
    IN  IF active = {} THEN Null
        ELSE [t EXCEPT !.active = active, !.known = known,
                       !.guards = [i \in Statements |-> IF i \in active THEN Gist(Space(i), known) ELSE True]]

recompute(t, parent_active, known, restriction) ==
    CASE t.kind = "split" -> RecomputeSplit(t, parent_active, known, restriction)
      [] t.kind = "loop" -> RecomputeLoop(t, parent_active, known, restriction)
      [] t.kind = "leaf" -> RecomputeLeaf(t, parent_active, known, restriction)

-----------------------------------------------------------------------------
(* populateDepth and liftOverhead *)

RECURSIVE populateDepth(_)
\* How many loops are nested in t, those that are assignments not counted.
populateDepth(t) ==
    CASE t.kind = "leaf" -> 0
      [] t.kind = "loop" -> populateDepth(t.body) + IF t.needLoop THEN 1 ELSE 0
      [] t.kind = "split" -> Max({populateDepth(c) : c \in Range(t.clauses)})

\* An inequality of the guard, or else an equality.
pick_one_guard(C) ==
    IF GEQs(C) # <<>> THEN {Head(GEQs(C))}
    ELSE IF EQs(C) # <<>> THEN {Head(EQs(C)), Opposite(Head(EQs(C)))}
    ELSE True

\* The guard that is lifted, as one inequality: half of it when it is an equality.
One(C) == IF GEQs(C) # <<>> THEN Head(GEQs(C)) ELSE Row(Head(EQs(C)))
Deepest(k) == Max({l \in 1 .. Levels : On(k, l)} \cup {0})

\* The mutant that forgets that a lower bound holds in the half that runs second.
RedistributedFirst(C) == <<{One(C)}, {Not(One(C))}>>

\* A loop becomes two, split where the guard holds; of the two the one that runs first is
\* meant to come first.
Redistributed(C) ==
    LET k == One(C)
        direction == EQs(C) # <<>> \/ Deepest(k) = 0 \/ Upper(k, Deepest(k))
    IN  IF direction THEN <<{k}, {Not(k)}>> ELSE <<{Not(k)}, {k}>>

RECURSIVE liftOverhead(_, _, _)

\* The clauses one after another, until a guard comes out of one.
LiftSplit(t, depth, up) ==
    LET Lift(acc, c) ==
            IF acc.guard # True THEN [acc EXCEPT !.clauses = Append(@, c)]
            ELSE LET r == liftOverhead(c, depth, up)
                 IN  [clauses |-> Append(acc.clauses, r.tree), guard |-> r.guard]
        all == FoldLeft(Lift, [clauses |-> <<>>, guard |-> True], t.clauses)
    IN  [tree |-> [t EXCEPT !.clauses = all.clauses], guard |-> all.guard]

\* The loop t whose body hands up a guard: it is split here, or the guard goes on up.
SplitLoop(split, depth, up) ==
    IF Len(split.clauses) = 1 THEN [tree |-> split, guard |-> True] ELSE liftOverhead(split, depth, up)
Handed(t, guard, depth, up) ==
    IF up /\ Deepest(One(guard)) # t.level THEN [tree |-> t, guard |-> {One(guard)}]
    ELSE SplitLoop(recompute(CG_split(t.active, Redistributed(guard), <<t, t>>), t.active, t.known, t.restriction),
                   depth, up)

LiftLoop(t, depth, up) ==
    LET outside == populateDepth(t) > depth
        r == liftOverhead(t.body, depth, ~outside /\ (up \/ t.needLoop))
        lifted == [t EXCEPT !.body = r.tree]
    IN  IF ~outside /\ up /\ t.guard # True THEN [tree |-> t, guard |-> pick_one_guard(t.guard)]
        ELSE IF outside \/ r.guard = True THEN [tree |-> lifted, guard |-> True]
        ELSE Handed(lifted, IF t.needLoop THEN r.guard ELSE Project(r.guard \cup t.bounds, {t.level}), depth, up)

LiftLeaf(t, depth) ==
    LET guarded == {i \in t.active : t.guards[i] # True}
    IN  [tree |-> t, guard |-> IF depth = 0 \/ guarded = {} THEN True
                               ELSE pick_one_guard(t.guards[Min(guarded)])]

liftOverhead(t, depth, up) ==
    CASE t.kind = "split" -> LiftSplit(t, depth, up)
      [] t.kind = "loop" -> LiftLoop(t, depth, up)
      [] t.kind = "leaf" -> LiftLeaf(t, depth)

-----------------------------------------------------------------------------
(* hoistGuard *)

RECURSIVE removeGuard(_, _)
\* What the guard says need not be asked below; the body of a loop is left as it is.
removeGuard(t, guard) ==
    CASE t.kind = "split" ->
            [t EXCEPT !.clauses = [j \in DOMAIN @ |-> removeGuard(@[j], guard)]]
      [] t.kind = "loop" ->
            [t EXCEPT !.known = Simplify(@ \cup guard), !.guard = Gist(@, t.known \cup guard)]
      [] t.kind = "leaf" ->
            [t EXCEPT !.known = Simplify(@ \cup guard),
                      !.guards = [i \in DOMAIN @ |-> Gist(@[i], t.known \cup guard)]]

\* The mutant that takes the common guard from the body and keeps it only for the caller.
HoistedAway(t, r) ==
    [tree |-> [t EXCEPT !.body = IF r = True THEN @ ELSE removeGuard(@, r)], guard |-> Simplify(t.guard \cup r)]

\* The loop with the guard r that its body has in common.
Hoisted(t, r) ==
    LET guard == Simplify(t.guard \cup r)
    IN  [tree |-> [t EXCEPT !.body = IF r = True THEN @ ELSE removeGuard(@, r), !.guard = guard], guard |-> guard]

RECURSIVE hoistGuard(_)
hoistGuard(t) ==
    CASE t.kind = "leaf" ->
            LET order == InStatementOrder(t.active)
            IN  [tree |-> t, guard |-> IF \E i \in t.active : t.guards[i] = True THEN True
                                       ELSE SimpleHull([j \in DOMAIN order |-> t.guards[order[j]]])]
      [] t.kind = "split" ->
            LET all == [j \in DOMAIN t.clauses |-> hoistGuard(t.clauses[j])]
            IN  [tree |-> [t EXCEPT !.clauses = [j \in DOMAIN @ |-> all[j].tree]],
                 guard |-> SimpleHull([j \in DOMAIN all |-> all[j].guard])]
      [] t.kind = "loop" ->
            LET b == hoistGuard(t.body)
            IN  Hoisted([t EXCEPT !.body = b.tree],
                        Gist(Project(b.guard \cup IF t.needLoop THEN {} ELSE t.bounds, {t.level}), t.known))

-----------------------------------------------------------------------------
(* CodeGen::CodeGen(xforms, IS, known) and CodeGen::buildAST(effort) *)

Init ==
    /\ nest \in Nests
    /\ remap = <<>>
    /\ projected_IS = <<>>
    /\ cgr = Null
    /\ pc = "construct"

\* Spaces in which nothing is known to run are left out.
Construct ==
    /\ pc = "construct"
    /\ LET IS(i) == Simplify(nest.spaces[i] \cup nest.known)
       IN  /\ remap' = SelectSeq([i \in DOMAIN nest.spaces |-> i], LAMBDA i : Feasible(IS(i)))
           /\ projected_IS' = [level \in 1 .. Levels |->
                                  [j \in DOMAIN remap' |-> Project(IS(remap'[j]), level + 1 .. Levels)]]
    /\ pc' = IF remap' = <<>> THEN "done" ELSE "build"
    /\ UNCHANGED <<nest, cgr>>

Build ==
    /\ pc = "build"
    /\ cgr' = buildAST(1, Statements, TRUE, True)
    /\ pc' = IF cgr' = Null THEN "done" ELSE "recompute"
    /\ UNCHANGED <<nest, remap, projected_IS>>

Recompute ==
    /\ pc = "recompute"
    /\ cgr' = recompute(cgr, cgr.active, nest.known, nest.known)
    /\ pc' = IF cgr' = Null THEN "done" ELSE "lift"
    /\ UNCHANGED <<nest, remap, projected_IS>>

Lift ==
    /\ pc = "lift"
    /\ cgr' = liftOverhead(cgr, Min({nest.effort, populateDepth(cgr)}), FALSE).tree
    /\ pc' = "hoist"
    /\ UNCHANGED <<nest, remap, projected_IS>>

Hoist ==
    /\ pc = "hoist"
    /\ cgr' = hoistGuard(cgr).tree
    /\ pc' = "done"
    /\ UNCHANGED <<nest, remap, projected_IS>>

Next == Construct \/ Build \/ Recompute \/ Lift \/ Hoist
Spec == Init /\ [][Next]_vars

-----------------------------------------------------------------------------
RECURSIVE Run(_, _, _)
\* The iterations that the tree runs, as <<statement, iteration>>, in order.
Run(t, at, n) ==
    CASE t.kind = "none" -> <<>>
      [] t.kind = "split" -> FlattenSeq([j \in DOMAIN t.clauses |-> Run(t.clauses[j], at, n)])
      [] t.kind = "loop" ->
            LET values == SelectSeq(Sorted(Iterations, <), LAMBDA v : Holds(t.bounds, Append(at, v), n))
            IN  IF Holds(t.guard, at, n)
                THEN FlattenSeq([j \in DOMAIN values |-> Run(t.body, Append(at, values[j]), n)])
                ELSE <<>>
      [] t.kind = "leaf" ->
            LET active == SelectSeq(InStatementOrder(t.active), LAMBDA i : Holds(t.guards[i], at, n))
            IN  [j \in DOMAIN active |-> <<remap[active[j]], at>>]

Runs(n) == Run(cgr, <<>>, n)
Known == {n \in Symbols : Holds(nest.known, <<>>, n)}
Points == [1 .. Levels -> Iterations]
Before(I, J) == \E l \in 1 .. Levels : I[l] < J[l] /\ \A k \in 1 .. l - 1 : I[k] = J[k]

TypeOK ==
    /\ nest \in Nests
    /\ pc \in {"construct", "build", "recompute", "lift", "hoist", "done"}
    /\ cgr.kind \in {"none", "split", "loop", "leaf"}
    /\ pc \in {"recompute", "lift", "hoist"} => cgr.active \subseteq Statements

\* The code runs every statement in each iteration of its space, once, and in no other.
ScansOnce ==
    pc = "done" => \A n \in Known :
        LET runs == Runs(n)
        IN  /\ IsInjective(runs)
            /\ Range(runs) = {<<i, I>> \in (DOMAIN nest.spaces) \X Points : Holds(nest.spaces[i], I, n)}

\* The code runs the iterations in lexicographic order.
RunsInOrder ==
    pc = "done" => \A n \in Known :
        LET runs == Runs(n)
        IN  \A j \in 1 .. Len(runs) - 1 : ~Before(runs[j + 1][2], runs[j][2])
=============================================================================
