------------------------------ MODULE Presburger ------------------------------
(***************************************************************************)
(* The data that the handle layer of the Omega library moves around: what  *)
(* a relation declares, and what its formula means.                        *)
(*                                                                         *)
(* A formula is abstracted to the set of points it surely contains and the *)
(* set it may contain.  The two differ exactly by the UNKNOWN constraints  *)
(* of inexact conjuncts: Lower_Bound reads UNKNOWN as false, Upper_Bound   *)
(* as true.  ufs holds the argument tuples to which the formula applies    *)
(* uninterpreted function symbols (pres_var.h, Argument_Tuple).            *)
(***************************************************************************)
CONSTANTS Point,      \* the points a formula may hold of
          Name,       \* the names that variables may be given
          NoName,     \* the null Const_String: a variable without a name
          Kept        \* Kept[t][p]: what is left of p once tuple t is projected away

Argument_Tuple == {"in", "out"}
Kind == {"set", "rel"}

ASSUME NameAssumption == NoName \in Name
ASSUME KeptAssumption == Kept \in [Argument_Tuple -> [Point -> Point]]

Formula == {f \in [must : SUBSET Point, may : SUBSET Point,
                   ufs : SUBSET Argument_Tuple] : f.must \subseteq f.may}

\* The formula of a relation whose DNF has no conjunct.
False == [must |-> {}, may |-> {}, ufs |-> {}]

Decl == [kind : Kind, names : Name, Symbolic : SUBSET Argument_Tuple]

True == [must |-> Point, may |-> Point, ufs |-> {}]

-------------------------------------------------------------------------------
(* The formula nodes that Relations.cc puts above its operands' formulas.  *)

Not(f) == [must |-> Point \ f.may, may |-> Point \ f.must, ufs |-> f.ufs]

And(f, g) == [must |-> f.must \cap g.must, may |-> f.may \cap g.may,
              ufs |-> f.ufs \cup g.ufs]

Or(f, g) == [must |-> f.must \cup g.must, may |-> f.may \cup g.may,
             ufs |-> f.ufs \cup g.ufs]

Combine_Type == {"Comb_Or", "Comb_And", "Comb_AndNot"}

Combine(ctype, f, g) ==
  CASE ctype = "Comb_Or" -> Or(f, g)
    [] ctype = "Comb_And" -> And(f, g)
    [] ctype = "Comb_AndNot" -> And(f, Not(g))

UnknownAsFalse(f) == [f EXCEPT !.may = f.must]
UnknownAsTrue(f) == [f EXCEPT !.must = f.may]

\* Dropping integrality or whole constraints only lets points in.
Approximations(f) == {g \in Formula : /\ f.must \subseteq g.must
                                      /\ f.may \subseteq g.may
                                      /\ g.ufs = f.ufs}

\* One conjunct of f is exact, and then all its points are f's, or it is
\* inexact, and then none of its points is sure.
Conjuncts(f) == {g \in Formula : /\ g.may # {} /\ g.ufs \subseteq f.ufs
                                 /\ \/ g.must = g.may /\ g.may \subseteq f.must
                                    \/ g.must = {} /\ g.may \subseteq f.may}

\* The ways to deal the conjuncts of f into two lists.
Partitions(f) == {fg \in Formula \X Formula : Or(fg[1], fg[2]) = f}

-------------------------------------------------------------------------------
(* Projection.  Tuple t goes away, the other one becomes the set tuple,    *)
(* which is an input tuple.                                                *)

Other(t) == IF t = "in" THEN "out" ELSE "in"

\* The applications to t are rewritten to the other tuple.
Evacuate(f, t) ==
  IF t \in f.ufs THEN [f EXCEPT !.ufs = (@ \ {t}) \cup {Other(t)}] ELSE f

\* The mapping of Domain and Range: t existential, the other tuple the set's.
\* Only the tuple that stays is renamed; an application to t stays behind.
ProjectFormula(f, t) ==
  [must |-> {Kept[t][p] : p \in f.must}, may |-> {Kept[t][p] : p \in f.may},
   ufs |-> {IF u = Other(t) THEN "in" ELSE "out" : u \in f.ufs}]

ProjectDecl(d, f, t) ==
  [kind |-> "set", names |-> d.names,
   Symbolic |-> IF Other(t) \in d.Symbolic \/ (t \in f.ufs /\ t \in d.Symbolic) THEN {"in"} ELSE {}]

\* A name survives when both operands agree on it or only one has it.
MergeNames(m, n) == IF m = NoName \/ m = n THEN n
                    ELSE IF n = NoName THEN m ELSE NoName

\* Mutant of MergeDecls: the symbols of the second operand are forgotten.
MergeFirstDecls(d, e) == [d EXCEPT !.names = MergeNames(d.names, e.names)]

MergeDecls(d, e) == [kind |-> d.kind, names |-> MergeNames(d.names, e.names),
                     Symbolic |-> d.Symbolic \cup e.Symbolic]
===============================================================================
