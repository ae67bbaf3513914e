---------------------------- MODULE RelationValues ----------------------------
(***************************************************************************)
(* What class Relation promises its clients: a handle is a value.          *)
(* Copying one makes an independent value, an operation writes the handles *)
(* it is called on and no other, and the relational operators consume      *)
(* their operands, which are null relations afterwards.                    *)
(***************************************************************************)
EXTENDS Presburger

CONSTANTS Handle,     \* the Relation objects of a program
          Null,       \* the value of a null relation
          Dead        \* a Relation object that is not (or no longer) constructed

VARIABLE value

Value == [decl : Decl, built : BOOLEAN, formula : Formula]

Set(h, v) == value' = [value EXCEPT ![h] = v]

\* The operands go, then the result arrives, perhaps in the place of one.
Consume(h, operands, v) ==
  value' = [k \in Handle |-> IF k = h THEN v
                             ELSE IF k \in operands THEN Null ELSE value[k]]

Init == value = [h \in Handle |-> Dead]

\* Construction, copy construction and assignment give h a value.
Create(h) == \E d \in Decl : Set(h, [decl |-> d, built |-> FALSE, formula |-> False])
MakeNull(h) == Set(h, Null)
Copy(h, r) == value[r] # Dead /\ Set(h, value[r])
Destroy(h) == Set(h, Dead)

\* v with a formula f of its own.
Built(v, f) == [decl |-> v.decl, built |-> TRUE, formula |-> f]

\* The client writes its formula, declares a symbol or names its variables.
WriteFormula(h) ==
  /\ value[h] \in Value
  /\ \E f \in Formula : Set(h, Built(value[h], f))
Declare(h) == /\ value[h] \in Value
              /\ \E d \in Decl : /\ d.kind = value[h].decl.kind
                                 /\ value[h].decl.Symbolic \subseteq d.Symbolic
                                 /\ Set(h, [value[h] EXCEPT !.decl = d])

\* A relation that was never given a formula is false once it is simplified.
Settle(h) == /\ value[h] \in Value
             /\ ~value[h].built
             /\ Set(h, Built(value[h], False))

\* One conjunct of r becomes a relation of its own; r keeps it.
TakeConjunct(h, r) ==
  /\ value[r] \in Value
  /\ \E c \in Conjuncts(value[r].formula) :
       Set(h, Built(value[r], c))

\* Some conjuncts of r move to h: only extraction writes two handles.
Extract(h, r) ==
  /\ h # r
  /\ value[r] \in Value
  /\ \E fg \in Partitions(value[r].formula) :
       value' = [value EXCEPT ![r] = Built(@, fg[1]), ![h] = Built(value[r], fg[2])]

\* Complement, Lower_Bound, Upper_Bound and Approximate.
Unary(h, a) ==
  /\ value[a] \in Value
  /\ \E f \in {Not(value[a].formula), UnknownAsFalse(value[a].formula),
               UnknownAsTrue(value[a].formula)} \cup Approximations(value[a].formula) :
       Consume(h, {a}, Built(value[a], f))

\* Domain drops the output tuple, Range the input tuple.
Project(h, a, t) ==
  /\ value[a] \in Value
  /\ LET f == value[a].formula
     IN  Consume(h, {a}, [decl |-> ProjectDecl(value[a].decl, f, t), built |-> TRUE,
                          formula |-> ProjectFormula(Evacuate(f, t), t)])

\* An operator with a null operand hands back the other one, except that
\* Difference hands back the first.  A handle given twice is null the second
\* time.
Pass(h, a, b, ctype) ==
  /\ value[a] # Dead /\ value[b] # Dead
  /\ a = b \/ Null \in {value[a], value[b]}
  /\ Consume(h, {a, b}, IF a = b \/ value[b] = Null \/ ctype = "Comb_AndNot"
                        THEN value[a] ELSE value[b])

Binary(h, a, b, ctype) ==
  /\ value[a] \in Value /\ value[b] \in Value /\ a # b
  /\ value[a].decl.kind = value[b].decl.kind
  /\ Consume(h, {a, b}, [decl |-> MergeDecls(value[a].decl, value[b].decl), built |-> TRUE,
                         formula |-> Combine(ctype, value[a].formula, value[b].formula)])

\* Operands of different arities are consumed although nothing is returned.
Mismatch(a, b) ==
  /\ value[a] \in Value /\ value[b] \in Value
  /\ value[a].decl.kind # value[b].decl.kind
  /\ value' = [value EXCEPT ![a] = Null, ![b] = Null]

Next == \E h \in Handle :
          \/ Create(h) \/ MakeNull(h) \/ Destroy(h) \/ WriteFormula(h)
          \/ Declare(h) \/ Settle(h)
          \/ \E a \in Handle :
               \/ Copy(h, a) \/ TakeConjunct(h, a) \/ Extract(h, a) \/ Unary(h, a)
               \/ \E t \in Argument_Tuple : Project(h, a, t)
               \/ \E b \in Handle, ctype \in Combine_Type :
                    Pass(h, a, b, ctype) \/ Binary(h, a, b, ctype)
          \/ \E b \in Handle : Mismatch(h, b)

Spec == Init /\ [][Next]_value
===============================================================================
