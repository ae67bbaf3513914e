---------------------------- MODULE FunctionSymbols ---------------------------
(***************************************************************************)
(* Uninterpreted functions in the relational operators of Relations.cc.    *)
(*                                                                         *)
(* A function f is applied to a prefix of the input or of the output       *)
(* tuple: f(in) and f(out) are two variables, which all relations share.   *)
(* An operator renames the columns of a conjunct through the field `remap' *)
(* of those variables, and has to leave the fields as it found them.  When *)
(* a tuple goes away its applications must evacuate to another tuple or    *)
(* become wildcards.  Of a conjunct's constraints this module keeps which  *)
(* of those variables they mention.                                        *)
(***************************************************************************)
EXTENDS Integers, Sequences, FiniteSets

CONSTANTS Handle,       \* the Relation objects of a program
          Function,     \* the functions with arguments, Free_Var_Decl
          Arity,        \* on how many elements of the tuple each depends
          MaxZeros,     \* the length of the tuples
          MaxConjuncts, \* bound: the conjuncts of one relation
          Null,         \* a null relation
          FirstOfInput, \* whether the program composes r1(r2) with f(in) in r1
          ProjectsMixed \* whether it projects conjuncts that use f(in) and f(out)

ASSUME ArityAssumption == Arity \in [Function -> 1 .. MaxZeros] /\ MaxZeros \in Nat
ASSUME BoundAssumption == MaxConjuncts \in Nat
ASSUME UsageAssumption == FirstOfInput \in BOOLEAN /\ ProjectsMixed \in BOOLEAN

Argument_Tuple == {"in", "out"}
Other(t) == IF t = "in" THEN "out" ELSE "in"

\* The two Var_Decls that each Global_Var_Decl holds.
Local == [fun : Function, of : Argument_Tuple]
In(f) == [fun |-> f, of |-> "in"]
Out(f) == [fun |-> f, of |-> "out"]
At(v, t) == [v EXCEPT !.of = t]

\* What a Wildcard_Var that replaces a function is mapped to.
Wildcard == [fun |-> "none", of |-> "wildcard"]

VARIABLES rel,    \* the relation that each handle holds
          remap,  \* the field remap of each variable of Local
          run     \* the Composition in progress, or Idle

vars == <<rel, remap, run>>

\* guaranteed_leading_0s is -1 when it is not known; exact, as in the code.
\* clash: two columns were given to one variable.  lost: a function was
\* replaced by a wildcard.
Conjunct == [vars : SUBSET Local, zeros : -1 .. MaxZeros, exact : BOOLEAN,
             clash : BOOLEAN, lost : BOOLEAN]

Relation == [Symbolic : SUBSET Local, set : BOOLEAN, conjs : Seq(Conjunct)]

-------------------------------------------------------------------------------
(* The remap fields.                                                       *)

Identity == [v \in Local |-> v]

\* Mutant of reset_remap_field: it leaves the fields as they are.
ResetNothing(m, S) == m

reset_remap_field(m, S) == [v \in Local |-> IF v \in S THEN v ELSE m[v]]

\* Conjunct::remap: each column is renamed, none is combined with another.
Image(c, m) ==
  [c EXCEPT !.vars = {m[v] : v \in @} \ {Wildcard},
            !.clash = @ \/ \E v, w \in c.vars : v # w /\ m[v] = m[w] /\ m[v] # Wildcard,
            !.lost = @ \/ \E v \in c.vars : m[v] = Wildcard]

Rename(r, m) == [r EXCEPT !.conjs = [i \in DOMAIN @ |-> Image(@[i], m)]]

Used(r) == UNION {r.conjs[i].vars : i \in DOMAIN r.conjs}

\* An operator works on a relation s.r while the remap fields are s.m.
\* clone() first resets the fields of what the body declares.
Clone(s) == LET m == reset_remap_field(s.m, s.r.Symbolic)
            IN  [r |-> Rename(s.r, m), m |-> m]

\* split() clones when the client still holds a copy.
Split(s) == {s, Clone(s)}

\* simplify() and count_leading_0s: when a relation declares f(in) and f(out),
\* its conjuncts are separated by their leading zeros (one part is followed),
\* and where these reach the arity f(out) is equated with f(in) and replaced.
Moves(r, z) == {v \in r.Symbolic : v.of = "out" /\ At(v, "in") \in r.Symbolic
                                     /\ Arity[v.fun] <= z}

\* Mutant of Moved: f(out) is renamed, its column is not combined with f(in)'s.
MovedUncombined(c, s, z) ==
  [Image(c, [v \in Local |-> IF v \in Moves(s.r, z) THEN At(v, "in") ELSE s.m[v]])
     EXCEPT !.zeros = z]

Moved(c, s, z) ==
  LET m == [v \in Local |-> IF v \in Moves(s.r, z) THEN At(v, "in") ELSE s.m[v]]
  IN  IF Moves(s.r, z) = {} THEN [c EXCEPT !.zeros = z]
      ELSE [Image(c, m) EXCEPT !.zeros = z, !.clash = FALSE]

Settled(s, z) ==
  [r |-> [s.r EXCEPT !.conjs = [i \in DOMAIN @ |-> Moved(@[i], s, z[i])]],
   m |-> IF \A i \in DOMAIN z : Moves(s.r, z[i]) = {} THEN s.m
         ELSE reset_remap_field(s.m, s.r.Symbolic)]

Settle(s) ==
  {Settled(s, z) : z \in {g \in [DOMAIN s.r.conjs -> 0 .. MaxZeros] :
                            \A i \in DOMAIN g : g[i] >= s.r.conjs[i].zeros}}

\* The conjuncts become those of cs, with their leading zeros forgotten.
Rewritten(r, cs) == [r EXCEPT !.conjs = [i \in DOMAIN @ |-> [cs[i] EXCEPT !.zeros = -1]]]

-------------------------------------------------------------------------------
(* align(): f->remap() under a mapping that sends the functions of tuple t *)
(* to fate[t], or does not declare them again: `not really used'.          *)

Align(s, fate) ==
  LET kept == {v \in s.r.Symbolic : fate[v.of] # "unknown"}
      moved == {v \in kept : fate[v.of] # v.of}
      m == [v \in Local |-> IF v \in moved THEN At(v, fate[v.of]) ELSE s.m[v]]
  IN  [r |-> [Rename(s.r, m) EXCEPT !.Symbolic = {At(v, fate[v.of]) : v \in kept}],
       m |-> IF moved = {} THEN s.m ELSE reset_remap_field(s.m, s.r.Symbolic)]

\* Mutant of EvacuateFrom: the renamed functions are not reset.
EvacuateUnreset(s, t) ==
  LET touched == {v \in Used(s.r) : v.of = t}
      m == [v \in Local |-> IF v \in touched THEN At(v, Other(t)) ELSE s.m[v]]
  IN  [r |-> [Rewritten(s.r, Rename(s.r, m).conjs) EXCEPT
                !.Symbolic = @ \cup {At(v, Other(t)) : v \in touched}],
       m |-> m]

\* Mutant of EvacuateFrom: the functions stay where they are.
EvacuateNothing(s, t) == s

\* The applications to tuple t are rewritten to the other tuple.
EvacuateFrom(s, t) ==
  LET touched == {v \in Used(s.r) : v.of = t}
      m == [v \in Local |-> IF v \in touched THEN At(v, Other(t)) ELSE s.m[v]]
  IN  [r |-> [Rewritten(s.r, Rename(s.r, m).conjs) EXCEPT
                !.Symbolic = @ \cup {At(v, Other(t)) : v \in touched}],
       m |-> reset_remap_field(s.m, touched)]

-------------------------------------------------------------------------------
(* Operators on one relation.  Each consumes its operand; the result goes  *)
(* to the same handle.  What sharing a body does to Domain is in RelBody.  *)

Idle == [h |-> Null]

Return(h, s) == /\ rel' = [rel EXCEPT ![h] = s.r]
                /\ remap' = s.m
                /\ UNCHANGED run

Operand(h) == [r |-> rel[h], m |-> remap]

IsRelation(h) == run = Idle /\ rel[h] # Null /\ ~rel[h].set

\* The client declares functions and writes a formula over them.
Build(h, cs) ==
  /\ run = Idle
  /\ Return(h, [r |-> [Symbolic |-> UNION {cs[i] : i \in DOMAIN cs}, set |-> FALSE,
                       conjs |-> [i \in DOMAIN cs |->
                         [vars |-> cs[i], zeros |-> -1, exact |-> TRUE,
                          clash |-> FALSE, lost |-> FALSE]]],
                m |-> remap])

Copy(h, k) == run = Idle /\ rel[k] # Null /\ Return(h, Operand(k))

Declares(r, t) == \E v \in r.Symbolic : v.of = t
Mixed(c) == \E v \in c.vars : At(v, Other(v.of)) \in c.vars

\* Domain (t = "out") and Range (t = "in").
Project(h, t) ==
  /\ IsRelation(h)
  /\ \E s1 \in IF Declares(rel[h], t) THEN Settle(Operand(h)) ELSE {Operand(h)} :
     \E s2 \in Split(s1) :
       /\ ProjectsMixed \/ \A i \in DOMAIN s2.r.conjs : ~Mixed(s2.r.conjs[i])
       /\ LET s3 == IF Declares(s2.r, t) THEN EvacuateFrom(s2, t) ELSE s2
              s4 == Align(s3, [u \in Argument_Tuple |-> IF u = t THEN "unknown" ELSE "in"])
          IN  Return(h, [s4 EXCEPT !.r = [Rewritten(@, @.conjs) EXCEPT !.set = TRUE]])

Inverse(h) ==
  /\ IsRelation(h)
  /\ \E s \in Split(Operand(h)) :
       Return(h, Align(s, [u \in Argument_Tuple |-> Other(u)]))

\* Mutant of make_inexact: the conjunct stays exact.
StayExact(c, S) == c

\* The conjunct c loses the functions S to wildcards.
make_inexact(c, S) == IF S = {} THEN c ELSE [c EXCEPT !.exact = FALSE]

\* After(S, carried_by, new_output), of which `preserved' positions of the
\* output tuple survive.  Functions of more than those become functions of the
\* input where the leading zeros allow it, and wildcards elsewhere.
After(h, preserved) ==
  /\ IsRelation(h)
  /\ \E s1 \in IF \E v \in rel[h].Symbolic : v.of = "out" /\ Arity[v.fun] >= preserved
                THEN Settle(Operand(h)) ELSE {Operand(h)} :
     \E s \in Split(s1) :
       LET gone == {v \in Used(s.r) : v.of = "out" /\ Arity[v.fun] > preserved}
           Lost(c) == {v \in gone \cap c.vars : c.zeros < Arity[v.fun]}
           To(c) == [v \in Local |-> IF v \notin gone THEN s.m[v]
                                     ELSE IF v \in Lost(c) THEN Wildcard ELSE At(v, "in")]
           cs == [i \in DOMAIN s.r.conjs |->
                    LET c == s.r.conjs[i] IN make_inexact(Image(c, To(c)), Lost(c))]
           m == reset_remap_field(s.m, gone)
       IN  Return(h, [r |-> [Rename(Rewritten(s.r, cs), m) EXCEPT
                               !.Symbolic = {v \in @ \cup {At(v, "in") : v \in gone} :
                                               v.of = "out" => Arity[v.fun] <= preserved}],
                      m |-> m])

\* Every function becomes a wildcard.
Deltas(h) ==
  /\ IsRelation(h)
  /\ \E s1 \in Settle(Operand(h)) : \E s \in Split(s1) :
       LET m == [v \in Local |-> IF v \in Used(s.r) THEN Wildcard ELSE s.m[v]]
           cs == [i \in DOMAIN s.r.conjs |->
                    LET c == s.r.conjs[i] IN make_inexact(Image(c, m), c.vars)]
       IN  Return(h, [r |-> [Rewritten(s.r, cs) EXCEPT !.set = TRUE, !.Symbolic = {}],
                      m |-> reset_remap_field(m, Used(s.r))])

-------------------------------------------------------------------------------
(* Composition(r1, r2), where r1 is applied to the result of r2.  run holds *)
(* the operands once they are simplified and alone on their bodies, and    *)
(* what has been done: for each pair of conjuncts, where its functions     *)
(* went and the conjunct that was made.                                    *)

UsesInput(r) == \E v \in Used(r) : v.of = "in"

ComposeStart(a, b) ==
  /\ a # b /\ IsRelation(a) /\ IsRelation(b)
  /\ Len(rel[a].conjs) * Len(rel[b].conjs) <= MaxConjuncts
  /\ \E s1 \in Settle(Operand(a)) :
     \E s2 \in Settle([r |-> rel[b], m |-> s1.m]) :
     \E t1 \in Split([s1 EXCEPT !.m = s2.m]) :
     \E t2 \in Split([s2 EXCEPT !.m = t1.m]) :
       /\ FirstOfInput \/ ~UsesInput(t1.r)
       /\ remap' = t2.m
       /\ rel' = [rel EXCEPT ![a] = Null, ![b] = Null]
       /\ run' = [h |-> a, first |-> t1.r.conjs, second |-> t2.r.conjs, pairs |-> <<>>]

\* merge_conjs with MERGE_COMPOSE: columns of one variable become one.
MERGE_COMPOSE(c, d) ==
  [vars |-> c.vars \cup d.vars,
   zeros |-> IF c.zeros < d.zeros THEN c.zeros ELSE d.zeros,
   exact |-> c.exact /\ d.exact, clash |-> c.clash \/ d.clash, lost |-> c.lost \/ d.lost]

\* Mutant of OutOfMiddle: the zeros of the other conjunct are looked at first.
OutOfMiddleSwapped(one, two, m) ==
  [v \in Local |-> IF v.of = "in" \/ v \notin two.vars THEN m[v]
                   ELSE IF one.zeros >= Arity[v.fun] THEN At(v, "in")
                   ELSE IF two.zeros >= Arity[v.fun] THEN m[v]
                   ELSE Wildcard]

\* get rid of conj2's f(out)
OutOfMiddle(one, two, m) ==
  [v \in Local |-> IF v.of = "in" \/ v \notin two.vars THEN m[v]
                   ELSE IF two.zeros >= Arity[v.fun] THEN At(v, "in")
                   ELSE IF one.zeros >= Arity[v.fun] THEN m[v]
                   ELSE Wildcard]

\* get rid of conj1's f(in)
InOfMiddle(one, m) ==
  [v \in Local |-> IF v.of = "in" /\ v \in one.vars THEN At(v, "out") ELSE m[v]]

Pairs == Len(run.first) * Len(run.second)

\* One turn of the loops over conj1 and conj2.  Both are copied, which applies
\* remap; the fields that conj2 needed are reset, those of conj1 are not.
ComposePair ==
  /\ run # Idle
  /\ Len(run.pairs) < Pairs
  /\ LET n == Len(run.pairs)
         conj1 == run.first[(n \div Len(run.second)) + 1]
         conj2 == run.second[(n % Len(run.second)) + 1]
         copy1 == Image(conj1, remap)
         copy2 == Image(conj2, remap)
         m2 == OutOfMiddle(copy1, copy2, remap)
         m1 == InOfMiddle(copy1, reset_remap_field(remap, {v \in copy2.vars : m2[v] # remap[v]}))
         lost == {v \in copy2.vars : m2[v] = Wildcard}
         conj3 == make_inexact(MERGE_COMPOSE(Image(copy1, m1), Image(copy2, m2)), lost)
     IN  /\ remap' = m1
         /\ run' = [run EXCEPT !.pairs = Append(@,
                      [conj1 |-> conj1, conj2 |-> conj2, conj3 |-> conj3,
                       to1 |-> [v \in conj1.vars |-> m1[remap[v]]],
                       to2 |-> [v \in conj2.vars |-> m2[remap[v]]]])]
         /\ UNCHANGED rel

ComposeEnd ==
  /\ run # Idle
  /\ Len(run.pairs) = Pairs
  /\ LET cs == [i \in DOMAIN run.pairs |-> run.pairs[i].conj3]
     IN  rel' = [rel EXCEPT ![run.h] = [Symbolic |-> UNION {cs[i].vars : i \in DOMAIN cs},
                                        set |-> FALSE, conjs |-> cs]]
  /\ run' = Idle
  /\ UNCHANGED remap

-------------------------------------------------------------------------------
Init == /\ rel = [h \in Handle |-> Null]
        /\ remap = Identity
        /\ run = Idle

Formulas == UNION {[1 .. n -> SUBSET Local] : n \in 0 .. MaxConjuncts}

Next ==
  \/ \E h \in Handle :
       \/ \E cs \in Formulas : Build(h, cs)
       \/ \E k \in Handle : Copy(h, k) \/ ComposeStart(h, k)
       \/ \E t \in Argument_Tuple : Project(h, t)
       \/ Inverse(h)
       \/ \E preserved \in 0 .. MaxZeros - 1 : After(h, preserved)
       \/ Deltas(h)
  \/ ComposePair
  \/ ComposeEnd

Spec == Init /\ [][Next]_vars

-------------------------------------------------------------------------------
Fate == UNION {[S -> Local \cup {Wildcard}] : S \in SUBSET Local}

Composed == [conj1 : Conjunct, conj2 : Conjunct, conj3 : Conjunct, to1 : Fate, to2 : Fate]

Composing == [h : Handle, first : Seq(Conjunct), second : Seq(Conjunct), pairs : Seq(Composed)]

TypeOK == /\ rel \in [Handle -> Relation \cup {Null}]
          /\ remap \in [Local -> Local]
          /\ run \in Composing \cup {Idle}

\* The conjuncts of the relations, and the pairs composed so far.
Conjs == UNION {{rel[h].conjs[i] : i \in DOMAIN rel[h].conjs} : h \in {k \in Handle : rel[k] # Null}}
Done == IF run = Idle THEN {} ELSE {run.pairs[i] : i \in DOMAIN run.pairs}

(* Relations.cc:945: `do remapping for conj2, then reset everything' (so    *)
(* pres_var.h:72).  The fields belong to variables that all relations      *)
(* share, so one that an operator leaves set when it returns renames the   *)
(* functions of every other relation.                                      *)
RemapReset == run = Idle => remap = Identity

(* The assertion of oc_i.h:71 (CHECK_FOR_DUPLICATE_VARIABLE_NAMES): the    *)
(* problem that is solved never has two columns for one variable, which it *)
(* would treat as two unknowns.                                            *)
NoClash == \A c \in Conjs \cup {p.conj3 : p \in Done} : ~c.clash

(* RelVar.cc and Relations.cc:980: the functions that a relation's         *)
(* conjuncts use are listed in it, and a set, of which only the input      *)
(* tuple is left, has no function of an output tuple.                      *)
Declared == \A h \in Handle : rel[h] # Null =>
  /\ Used(rel[h]) \subseteq rel[h].Symbolic
  /\ rel[h].set => ~Declares(rel[h], "out")

\* Where f of the middle tuple may go when one conjunct has z1 leading zeros
\* (middle = out) and the other z2 (in = middle).
Middle(f, z1, z2) ==
  {v \in {Out(f)} : z1 >= Arity[f]} \cup {v \in {In(f)} : z2 >= Arity[f]}
    \cup {v \in {Wildcard} : z1 < Arity[f] /\ z2 < Arity[f]}

FirstAsDocumented(p) == \A v \in p.conj1.vars :
  p.to1[v] \in IF v.of = "out" THEN {v} ELSE Middle(v.fun, p.conj1.zeros, p.conj2.zeros)
SecondAsDocumented(p) == \A v \in p.conj2.vars :
  p.to2[v] \in IF v.of = "in" THEN {v} ELSE Middle(v.fun, p.conj1.zeros, p.conj2.zeros)

(* The table in the comment of Composition (Relations.cc:884-893): f(in)   *)
(* of the second and f(out) of the first operand stay, what both say of f  *)
(* of the middle tuple goes where the leading zeros allow, and becomes a   *)
(* wildcard of an inexact conjunct where they do not.                      *)
PairsAsDocumented == \A p \in Done :
  /\ FirstAsDocumented(p) /\ SecondAsDocumented(p)
  /\ p.conj3.exact => Wildcard \notin {p.to1[v] : v \in p.conj1.vars}
                                       \cup {p.to2[v] : v \in p.conj2.vars}

(* A conjunct from which a function was dropped holds of more points than  *)
(* it should: it is UNKNOWN, through later operators too, or Lower_Bound   *)
(* would take these points for sure.                                       *)
LostIsInexact == \A c \in Conjs \cup {p.conj3 : p \in Done} : c.lost => ~c.exact
===============================================================================
