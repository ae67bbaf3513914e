------------------------------- MODULE RelBody --------------------------------
(***************************************************************************)
(* Relation.cc and RelBody.cc of the Omega library, with the operators of  *)
(* Relations.cc that every other one is built on.                          *)
(*                                                                         *)
(* A Relation is a handle on a reference-counted Rel_Body.  Handles that   *)
(* hold the same finalized body share it; a member that is about to write  *)
(* calls split() first, which leaves the handle alone on a clone.  The     *)
(* body holds its formula either as a tree that the client builds or, once *)
(* it is simplified, as a DNF, never as both.                              *)
(***************************************************************************)
EXTENDS Presburger, Naturals, FiniteSets

CONSTANTS Handle,     \* the Relation objects of a program
          Body,       \* the addresses `new Rel_Body' may return
          NullRel,    \* the global null_rel
          Dead,       \* what a Relation object that is not constructed holds
          NoBody,     \* what an address holds that is not allocated
          UFTuples,   \* the tuples to which the program applies function symbols
          RemovesShared \* whether it calls rm_first_conjunct on a shared body

ASSUME BodyAssumption == NullRel \notin Body /\ Dead \notin Body /\ NullRel # Dead

ASSUME HandleAssumption == IsFiniteSet(Handle)
ASSUME UsageAssumption == UFTuples \subseteq Argument_Tuple /\ RemovesShared \in BOOLEAN

VARIABLES rel_body,   \* the member rel_body of each Relation
          ref_count,  \* the member ref_count of each Rel_Body, 0 if not allocated
          body,       \* the rest of each Rel_Body
          temporary   \* the body that a member is on through a Relation of its
                      \* own, made from *this, or Dead

vars == <<rel_body, ref_count, body, temporary>>

\* No formula yet, children() holds the tree, or simplified_DNF is not NULL.
Form == {"none", "tree", "dnf"}

Rel_Body == [decl : Decl, finalized : BOOLEAN, form : Form, formula : Formula]

ASSUME NoBodyAssumption == NoBody \notin Rel_Body

TypeOK == /\ rel_body \in [Handle -> Body \cup {NullRel, Dead}]
          /\ ref_count \in [Body -> Nat]
          /\ body \in [Body -> Rel_Body \cup {NoBody}]
          /\ temporary \in Body \cup {Dead}

Init == /\ rel_body = [h \in Handle |-> Dead]
        /\ ref_count = [b \in Body |-> 0]
        /\ body = [b \in Body |-> NoBody]
        /\ temporary = Dead

-------------------------------------------------------------------------------
(* The reference counts.  null_rel's own is never brought down and is read *)
(* by nothing but assertions, so it has no state here.                     *)

Alive(h) == rel_body[h] # Dead
Holds(h) == rel_body[h] \in Body
The(h) == body[rel_body[h]]

\* Mutant of Decrement: a handle that goes away releases its body twice.
DecrementTwice(refs, x) == IF x \in Body THEN [refs EXCEPT ![x] = @ - 2] ELSE refs

Decrement(refs, x) == IF x \in Body THEN [refs EXCEPT ![x] = @ - 1] ELSE refs
Increment(refs, x) == IF x \in Body THEN [refs EXCEPT ![x] = @ + 1] ELSE refs

\* What the handles hold and the counts, in the course of an operation.
Heap == [held |-> rel_body, refs |-> ref_count]

\* Handle h leaves the body it is on and is put on x.
Put(hp, h, x) == [held |-> [hp.held EXCEPT ![h] = x],
                  refs |-> Increment(Decrement(hp.refs, hp.held[h]), x)]

Free(hp) == {b \in Body : hp.refs[b] = 0}

\* The operation ends: bodies whose count came to zero have been deleted.
Leave(hp, bodies) ==
  /\ rel_body' = hp.held
  /\ ref_count' = hp.refs
  /\ body' = [b \in Body |-> IF hp.refs[b] = 0 THEN NoBody ELSE bodies[b]]

Keep(bodies) == Leave(Heap, bodies)

\* Mutant of Split: the shared body itself is handed out for writing.
NoSplit(h) == {rel_body[h]}

\* split() leaves h alone, where it is if it was alone already.
Split(h) == IF ref_count[rel_body[h]] = 1 THEN {rel_body[h]} ELSE Free(Heap)

SplitAndWrite(h, c) ==
  \E x \in Split(h) : Leave(Put(Heap, h, x), [body EXCEPT ![x] = c])

\* After what led to hp, h becomes the only handle on a new body.
Allocate(hp, h, c, bodies) ==
  LET released == Put(hp, h, NullRel)
  IN  \E x \in Free(released) : Leave(Put(released, h, x), [bodies EXCEPT ![x] = c])

-------------------------------------------------------------------------------
(* Constructors, assignment, destructor.                                   *)

NewNull(h) == ~Alive(h) /\ Leave(Put(Heap, h, NullRel), body)

New(h, d) ==
  /\ ~Alive(h)
  /\ d.Symbolic = {}
  /\ Allocate(Heap, h, [decl |-> d, finalized |-> FALSE, form |-> "none",
                        formula |-> False], body)

\* Mutant of CopyInto: a body that is still being built is shared as well.
AlwaysShare(h, r) == Leave(Put(Heap, h, rel_body[r]), body)

\* A finalized body is shared, one that is still being built is cloned.
CopyInto(h, r) ==
  IF rel_body[r] = NullRel \/ The(r).finalized
  THEN Leave(Put(Heap, h, rel_body[r]), body)
  ELSE Allocate(Heap, h, The(r), body)

CopyConstruct(h, r) == ~Alive(h) /\ Alive(r) /\ CopyInto(h, r)

\* The old body is released before r is read: assigning to itself the only
\* handle of a body reads what was just deleted, and is left out.
Assign(h, r) ==
  /\ Alive(h) /\ Alive(r)
  /\ h = r /\ Holds(h) => ref_count[rel_body[h]] > 1
  /\ CopyInto(h, r)

Destroy(h) == Alive(h) /\ Leave(Put(Heap, h, Dead), body)

\* Relation(r, c), with c a conjunct of r's DNF.
CopyConjunct(h, r) ==
  /\ ~Alive(h) /\ Holds(r)
  /\ The(r).form = "dnf"
  /\ \E c \in Conjuncts(The(r).formula) :
       Allocate(Heap, h, [The(r) EXCEPT !.formula = c], body)

-------------------------------------------------------------------------------
(* Building a formula, and settling it.                                    *)

\* add_and, add_or, add_not, add_exists, add_forall, with the subtree that
\* is built below the node; then the writes to that subtree.
Build(h, f) ==
  /\ Holds(h)
  /\ ~The(h).finalized
  /\ The(h).form \in {"none", "tree"}
  /\ f.ufs \subseteq The(h).decl.Symbolic
  /\ Keep([body EXCEPT ![rel_body[h]] = [@ EXCEPT !.form = "tree", !.formula = f]])

\* A relation without a formula cannot be used yet (Relation.h:27).
Finalize(h) ==
  /\ Holds(h)
  /\ The(h).form # "none"
  /\ Keep([body EXCEPT ![rel_body[h]].finalized = TRUE])

\* simplify() works on the shared body: every query of one handle rewrites
\* the representation of all that share it.  What it leaves is equivalent.
Simplified(c) ==
  IF c.form = "dnf" THEN c
  ELSE [c EXCEPT !.form = "dnf", !.finalized = TRUE,
                 !.formula = IF c.form = "none" THEN False ELSE @]

Simplify(h) ==
  /\ Holds(h)
  /\ Keep([body EXCEPT ![rel_body[h]] = Simplified(@)])

\* is_definite_tautology simplifies, and that is all when the answer is then
\* obvious (Simplify).  Otherwise it makes a second Relation on the body...
IsDefiniteTautology(h) ==
  /\ temporary = Dead
  /\ Holds(h)
  /\ body' = [body EXCEPT ![rel_body[h]] = Simplified(@)]
  /\ ref_count' = Increment(ref_count, rel_body[h])
  /\ temporary' = rel_body[h]
  /\ UNCHANGED rel_body

\* ...and consumes it: Lower_Bound first finalizes the body, which fails an
\* assertion if it is still open, then works on clones that are gone at the end.
TautologyAnswered ==
  /\ temporary # Dead
  /\ body[temporary].finalized
  /\ ref_count' = Decrement(ref_count, temporary)
  /\ temporary' = Dead
  /\ UNCHANGED <<rel_body, body>>

\* and_with_EQ, and_with_GEQ, and_with_and: the new constraint is in the
\* tree, still without coefficients, and the client holds a handle on it.
\* Over no formula at all it is the whole formula.
AndWith(h) ==
  /\ Holds(h)
  /\ SplitAndWrite(h, [The(h) EXCEPT !.form = "tree", !.finalized = FALSE,
                                     !.formula = IF The(h).form = "none" THEN True ELSE @])

GetLocal(h, t) ==
  /\ Holds(h)
  /\ SplitAndWrite(h, [The(h) EXCEPT !.decl.Symbolic = @ \cup {t}])

NameVar(h, n) ==
  /\ Holds(h)
  /\ SplitAndWrite(h, [The(h) EXCEPT !.decl.names = n])

\* DNFize without simplify(): the body stays open if it was.
MakeLevelCarried(h) ==
  /\ Holds(h)
  /\ The(h).form # "none"
  /\ SplitAndWrite(h, [The(h) EXCEPT !.form = "dnf"])

\* Conjuncts of r, alone on its body, move to the new relation h.
ExtractByCarriedLevel(h, r) ==
  /\ ~Alive(h) /\ Holds(r)
  /\ The(r).form # "none"
  /\ \E fg \in Partitions(The(r).formula), x \in Split(r) :
       LET c == [The(r) EXCEPT !.form = "dnf", !.finalized = TRUE]
       IN  Allocate(Put(Heap, r, x), h, [c EXCEPT !.formula = fg[2]],
                    [body EXCEPT ![x] = [c EXCEPT !.formula = fg[1]]])

-------------------------------------------------------------------------------
(* The operators of Relations.cc.  consume_and_regurgitate leaves each     *)
(* operand null; the result is constructed into, or assigned to, a handle  *)
(* that may be one of the operands.                                        *)

\* Mutant of Consumed: the second operand is copied, not consumed.
ConsumedFirst(a, b) == Put(Heap, a, NullRel)

Consumed(a, b) == Put(Put(Heap, a, NullRel), b, NullRel)

\* h receives a new body with content c, the others being as in bodies.
Return(h, a, b, c, bodies) == Allocate(Consumed(a, b), h, c, bodies)

\* h receives what operand r held, finalized by the call.
ReturnOperand(h, a, b, r) ==
  Leave(Put(Consumed(a, b), h, rel_body[r]),
        IF Holds(r) THEN [body EXCEPT ![rel_body[r]].finalized = TRUE] ELSE body)

Usable(a) == Holds(a) /\ The(a).form # "none"

\* Union, Intersection and Difference of two relations of one arity.
Combine2(h, a, b, ctype) ==
  /\ Usable(a) /\ Usable(b) /\ a # b
  /\ The(a).decl.kind = The(b).decl.kind
  /\ Return(h, a, b, [decl |-> MergeDecls(The(a).decl, The(b).decl), finalized |-> TRUE,
                      form |-> "tree",
                      formula |-> Combine(ctype, The(a).formula, The(b).formula)], body)

\* A null operand: Union and Intersection return the other one, Difference
\* the first.  Naming one handle twice makes the second operand null.
CombineNull(h, a, b, ctype) ==
  /\ Alive(a) /\ Alive(b)
  /\ \A k \in {a, b} : Holds(k) => Usable(k)
  /\ a = b \/ ~Holds(a) \/ ~Holds(b)
  /\ ReturnOperand(h, a, b, IF a = b \/ ~Holds(b) \/ ctype = "Comb_AndNot" THEN a ELSE b)

\* Mutant of CombineMismatch: the exception leaks the second temporary.
MismatchLeak(a, b) ==
  /\ Usable(a) /\ Usable(b)
  /\ The(a).decl.kind # The(b).decl.kind
  /\ Leave([Put(Heap, a, NullRel) EXCEPT !.held[b] = NullRel], body)

\* The arities differ: the exception leaves both operands consumed.
CombineMismatch(a, b) ==
  /\ Usable(a) /\ Usable(b)
  /\ The(a).decl.kind # The(b).decl.kind
  /\ Leave(Consumed(a, b), body)

Complement(h, a) ==
  /\ Usable(a)
  /\ Return(h, a, a, [The(a) EXCEPT !.finalized = TRUE, !.form = "tree",
                                    !.formula = Not(@)], body)

\* Lower_Bound, Upper_Bound and Approximate split what they consumed and
\* work on the DNF in place.
InDNF(h, a, f) ==
  Return(h, a, a, [The(a) EXCEPT !.finalized = TRUE, !.form = "dnf", !.formula = f], body)

Lower_Bound(h, a) == Usable(a) /\ InDNF(h, a, UnknownAsFalse(The(a).formula))
Upper_Bound(h, a) == Usable(a) /\ InDNF(h, a, UnknownAsTrue(The(a).formula))
Approximate(h, a) ==
  Usable(a) /\ \E g \in Approximations(The(a).formula) : InDNF(h, a, g)

\* The bodies once Domain (t = "out") or Range (t = "in") has moved the
\* applications away from t.  Both simplify the body they share.  Range then
\* splits and rewrites its own DNF.  Domain walks the DNF of the shared body
\* and splits in the middle of it, on its first get_local: what it rewrites
\* is the DNF of the handles it left, and its own clone keeps f(t).
Evacuated(a, t) ==
  LET x == rel_body[a]
      d == Simplified(body[x])
  IN  IF t \notin d.decl.Symbolic THEN body
      ELSE [body EXCEPT ![x] = IF t = "out" THEN [d EXCEPT !.formula = Evacuate(@, t)] ELSE d]

\* The formula that is then projected.
ToProject(a, t) ==
  IF t \notin The(a).decl.Symbolic \/ (t = "out" /\ ref_count[rel_body[a]] > 1)
  THEN The(a).formula
  ELSE Evacuate(The(a).formula, t)

Project(h, a, t) ==
  /\ Usable(a)
  /\ The(a).decl.kind = "rel"
  /\ Return(h, a, a, [decl |-> ProjectDecl(The(a).decl, The(a).formula, t),
                      finalized |-> TRUE, form |-> "tree",
                      formula |-> ProjectFormula(ToProject(a, t), t)], Evacuated(a, t))

-------------------------------------------------------------------------------
\* rm_first_conjunct simplifies and removes without a split.
RemoveFirstConjunct(h) ==
  /\ Holds(h)
  /\ RemovesShared \/ ref_count[rel_body[h]] = 1
  /\ \E fg \in Partitions(Simplified(The(h)).formula) :
       /\ fg[1] \in Conjuncts(Simplified(The(h)).formula)
       /\ Keep([body EXCEPT ![rel_body[h]] = [Simplified(@) EXCEPT !.formula = fg[2]]])

-------------------------------------------------------------------------------
Operation ==
  \E h \in Handle :
    \/ NewNull(h)
    \/ \E d \in Decl : New(h, d)
    \/ Destroy(h)
    \/ \E f \in Formula : Build(h, f)
    \/ Finalize(h)
    \/ Simplify(h)
    \/ AndWith(h)
    \/ \E t \in UFTuples : GetLocal(h, t)
    \/ \E n \in Name : NameVar(h, n)
    \/ MakeLevelCarried(h)
    \/ RemoveFirstConjunct(h)
    \/ \E r \in Handle : \/ CopyConstruct(h, r)
                         \/ Assign(h, r)
                         \/ CopyConjunct(h, r)
                         \/ ExtractByCarriedLevel(h, r)
                         \/ CombineMismatch(h, r)
    \/ \E a \in Handle : \/ Complement(h, a)
                         \/ Lower_Bound(h, a)
                         \/ Upper_Bound(h, a)
                         \/ Approximate(h, a)
                         \/ \E t \in Argument_Tuple : Project(h, a, t)
    \/ \E a, b \in Handle, ctype \in Combine_Type :
         \/ Combine2(h, a, b, ctype)
         \/ CombineNull(h, a, b, ctype)

\* The library is called by one thread: no operation begins during a call.
Next == \/ temporary = Dead /\ Operation /\ UNCHANGED temporary
        \/ \E h \in Handle : IsDefiniteTautology(h)
        \/ TautologyAnswered

Spec == Init /\ [][Next]_vars

-------------------------------------------------------------------------------
Holders(b) == {h \in Handle : rel_body[h] = b}

(* A body's count is the number of Relation objects on it, and it is       *)
(* allocated exactly while there is one: no constructor, assignment,       *)
(* operator or exception leaks a body or leaves a Relation on a deleted    *)
(* one (Relation.cc, every ref_count++ and --ref_count).                   *)
RefExact == \A b \in Body :
  /\ ref_count[b] = Cardinality(Holders(b)) + (IF temporary = b THEN 1 ELSE 0)
  /\ body[b] = NoBody <=> ref_count[b] = 0

(* What the assertions on is_shared in the copy constructor, operator= and *)
(* and_with_EQ rely on: a body that is still being built has one Relation, *)
(* apart from the one that is_definite_tautology makes on it.  It needs    *)
(* every writer that reopens a body to split first.                        *)
SharedIsFinalized == \A b \in Body :
  ref_count[b] > 1 => /\ body[b].form # "none"
                      /\ body[b].finalized \/ temporary = b

(* RelBody.cc:251, the assertion in finalize(): there are no other pointers *)
(* into a body that is not finalized yet.  Here without exception.          *)
NoOtherPointers == \A b \in Body : ref_count[b] > 1 => body[b].finalized

(* The global variables a formula uses are declared by its own relation    *)
(* (RelVar.cc, get_local), whichever bodies split and merge meanwhile.     *)
UFsDeclared == \A h \in Handle :
  Holds(h) => The(h).formula.ufs \subseteq The(h).decl.Symbolic

\* What the client of a handle sees.
Denotation(h) ==
  IF Holds(h) THEN [decl |-> The(h).decl, built |-> The(h).form # "none",
                    formula |-> The(h).formula]
  ELSE rel_body[h]

(* Relation.cc:229: a representative that wants to change its body gets a  *)
(* separate one `not to damage other reps'.  So two Relations that share a *)
(* body before and after a step keep their value, whoever takes the step.  *)
(* (One Relation alone may be released and find its old address again.)    *)
SharersUndamaged ==
  [][\A h, k \in Handle :
       h # k /\ Holds(h) /\ rel_body[h] = rel_body[k]
         /\ rel_body'[h] = rel_body[h] /\ rel_body'[k] = rel_body[k]
       => Denotation(h)' = Denotation(h)]_vars

(* Sharing cannot be observed: through their handles, relations are the    *)
(* independent values of RelationValues.                                   *)
Values == INSTANCE RelationValues
            WITH Null <- NullRel, value <- [h \in Handle |-> Denotation(h)]
ValuesSpec == Values!Spec

\* A null relation and an object not constructed are no relation's value.
ASSUME ValueAssumption == NullRel \notin Values!Value /\ Dead \notin Values!Value
===============================================================================
