----------------------------- MODULE RelParser -----------------------------
(***************************************************************************)
(* RelParser of src/pyomega/parser.py: how the constraints of a relation,  *)
(* written as one Python expression, become ir.Relation objects.           *)
(*                                                                         *)
(* Python's own parser is external.  Since ^ binds tighter than            *)
(* comparisons, "0 <= i < N ^ 0 <= j" is one ast.Compare node: the last    *)
(* operand of a constraint and the first of the next one are the two sides *)
(* of a BinOp, and so are the two sides of an arithmetic operand such as   *)
(* N - 1.  visit_Compare takes the chain apart, two comparisons at a time. *)
(***************************************************************************)
EXTENDS Integers, FiniteSets, Sequences

CONSTANTS MaxConstraints,  \* constraints joined by ^ in an expression
          MaxComparisons,  \* comparisons in one constraint
          AnyShape         \* TRUE: expressions beyond those visit_Compare handles

None == <<>>

(***************************************************************************)
(* What is written.  A constraint is the set of its operands that are      *)
(* arithmetic, operand 0 to n, and its number n of comparisons.  Operands  *)
(* and comparisons are named by their place.                               *)
(***************************************************************************)
Constraint == UNION {[arith : SUBSET (0 .. n), n : {n}] : n \in 1 .. MaxComparisons}
Text == UNION {[1 .. k -> Constraint] : k \in 1 .. MaxConstraints}

\* A node is its sides, two for a BinOp; a side is the atoms in it.
Atom(k, i, part) == <<k, i, part>>
IsBinOp(node) == Len(node) = 2
Left(node) == node[1]
Right(node) == node[2]

Sides(text, k, i) ==
    IF i \in text[k].arith THEN << <<Atom(k, i, "l")>>, <<Atom(k, i, "r")>> >>
    ELSE << <<Atom(k, i, "x")>> >>
Whole(node) == IF IsBinOp(node) THEN Left(node) \o Right(node) ELSE node[1]
Operand(text, k, i) == Whole(Sides(text, k, i))

(***************************************************************************)
(* The ast.Compare node: comparators and ops from 1.                       *)
(***************************************************************************)
Places(text, ks) == {p \in ks \X (1 .. MaxComparisons) : p[2] <= text[p[1]].n}
Offset(text, k) == Cardinality(Places(text, 1 .. k - 1))

\* The constraints of the text, as comparisons of two operands.
Written(text) ==
    {<<Operand(text, p[1], p[2] - 1), p, Operand(text, p[1], p[2])>> : p \in Places(text, DOMAIN text)}

Place(text, c) == CHOOSE p \in Places(text, DOMAIN text) : Offset(text, p[1]) + p[2] = c

Comparator(text, c) ==
    LET k == Place(text, c)[1]
        i == Place(text, c)[2]
    IN  IF i = text[k].n /\ k < Len(text)
        THEN <<Operand(text, k, i), Operand(text, k + 1, 0)>>
        ELSE Sides(text, k, i)

Comparisons(text) == Offset(text, Len(text)) + text[Len(text)].n

Op(text, c) == Place(text, c)

-----------------------------------------------------------------------------
VARIABLES
    text,       \* the expression, as written
    pc,         \* "start", "pairs", "rest", "done"
    n,          \* comparators consumed by the loop
    heap,       \* ir.Relation objects created so far
    relation,   \* index in heap of the local variable relation
    relations   \* space.relations: indexes in heap

vars == <<text, pc, n, heap, relation, relations>>

Relation(left) == [left |-> left, left_op |-> None, mid |-> None, right_op |-> None, right |-> None]

\* add_relation: an object that is already there is not added again.
Added(list, r) == IF \E j \in DOMAIN list : list[j] = r THEN list ELSE Append(list, r)

\* A relation that two-sided text of more than two comparisons, a two-sided
\* constraint in an odd place or an arithmetic operand does not spoil.
Alone(txt, k, i) == ~(i = 0 /\ k > 1) /\ ~(i = txt[k].n /\ k < Len(txt))
Fits(txt) ==
    /\ \A k \in DOMAIN txt : txt[k].n <= 2
    /\ \A k \in DOMAIN txt : txt[k].n = 2 /\ Offset(txt, k) % 2 = 1 => k = Len(txt)
    /\ \A k \in DOMAIN txt : \A i \in txt[k].arith :
           Alone(txt, k, i) =>
               \/ k = 1 /\ i = 0
               \/ Offset(txt, k) + i = Comparisons(txt) /\ Comparisons(txt) % 2 = 1

Init ==
    /\ text \in {txt \in Text : AnyShape \/ Fits(txt)}
    /\ pc = "start"
    /\ n = 0
    /\ heap = <<>>
    /\ relation = 0
    /\ relations = <<>>

Paired == Comparisons(text) - (Comparisons(text) % 2)

Start ==
    /\ pc = "start"
    /\ heap' = <<Relation(Operand(text, 1, 0))>>
    /\ relation' = 1
    /\ pc' = IF Paired = 0 THEN "rest" ELSE "pairs"
    /\ UNCHANGED <<text, n, relations>>

(***************************************************************************)
(* One turn of the loop, in its two halves.  st is the heap, the current   *)
(* relation and the list.                                                  *)
(***************************************************************************)
Current(st) == st.heap[st.relation]
With(st, r) ==
    [heap |-> [st.heap EXCEPT ![st.relation] = r], relation |-> st.relation, relations |-> st.relations]

\* r with another operand and comparison between its two.
Between(r, mid, op) ==
    [left |-> r.left, left_op |-> r.left_op, mid |-> mid, right_op |-> op, right |-> r.right]

Close(st, right) ==
    [heap |-> With(st, [Current(st) EXCEPT !.right = right]).heap,
     relation |-> st.relation, relations |-> Added(st.relations, st.relation)]

BeginLate(st, left) ==
    [heap |-> Append(st.heap, Relation(left)), relation |-> Len(st.heap) + 2, relations |-> st.relations]

Begin(st, left) ==
    [heap |-> Append(st.heap, Relation(left)), relation |-> Len(st.heap) + 1, relations |-> st.relations]

FirstKeepsMid(st, op, comp, next_op) ==
    With(st, Between([Current(st) EXCEPT !.left_op = op], Whole(comp), next_op))

First(st, op, comp, next_op) ==
    LET s == With(st, [Current(st) EXCEPT !.left_op = op])
        b == Begin(Close(s, Left(comp)), Right(comp))
    IN  IF IsBinOp(comp) THEN With(b, [Current(b) EXCEPT !.left_op = next_op])
        ELSE With(s, Between(Current(s), Whole(comp), next_op))

Second(st, next_comp) ==
    IF IsBinOp(next_comp)
    THEN Begin(Close(st, Left(next_comp)), Right(next_comp))
    ELSE Close(st, Whole(next_comp))

Pair ==
    /\ pc = "pairs"
    /\ LET st == Second(First([heap |-> heap, relation |-> relation, relations |-> relations],
                              Op(text, n + 1), Comparator(text, n + 1), Op(text, n + 2)),
                        Comparator(text, n + 2))
       IN  /\ heap' = st.heap
           /\ relation' = st.relation
           /\ relations' = st.relations
    /\ n' = n + 2
    /\ pc' = IF n + 2 = Paired THEN "rest" ELSE "pairs"
    /\ UNCHANGED text

Rest ==
    /\ pc = "rest"
    /\ pc' = "done"
    /\ IF Comparisons(text) % 2 = 0
       THEN UNCHANGED <<heap, relations>>
       ELSE LET last == Comparisons(text)
                cur == heap[relation]
                ready == IF cur.right # None
                         THEN Between(cur, cur.right, Op(text, last))
                         ELSE [cur EXCEPT !.left_op = Op(text, last)]
            IN  /\ heap' = [heap EXCEPT ![relation] = [ready EXCEPT !.right = Whole(Comparator(text, last))]]
                /\ relations' = Added(relations, relation)
    /\ UNCHANGED <<text, n, relation>>

Next == Start \/ Pair \/ Rest

Spec == Init /\ [][Next]_vars

-----------------------------------------------------------------------------
\* What an ir.Relation says when CodeGenerator.visit_Relation prints it.
Says(r) == IF r.mid = None THEN {<<r.left, r.left_op, r.right>>}
           ELSE {<<r.left, r.left_op, r.mid>>, <<r.mid, r.right_op, r.right>>}

Parsed == UNION {Says(heap[relations[j]]) : j \in DOMAIN relations}

\* The parser's state: lists refer to relations that exist.
TypeOK ==
    /\ pc \in {"start", "pairs", "rest", "done"}
    /\ relation \in 0 .. Len(heap)
    /\ \A j \in DOMAIN relations : relations[j] \in DOMAIN heap

\* When the expression is parsed, the relations say exactly what is written:
\* visit_Compare neither loses a comparison nor makes one up.
ParsedAsWritten == pc = "done" => Parsed = Written(text)
=============================================================================
