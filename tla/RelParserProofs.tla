-------------------------- MODULE RelParserProofs --------------------------
(***************************************************************************)
(* Proofs about RelParser: for expressions of any length whose constraints *)
(* have the shapes visit_Compare handles, the relations it builds say      *)
(* exactly what is written.                                                *)
(*                                                                         *)
(* Two comparisons are consumed at a time, and constraints have one or     *)
(* two.  The invariant says where a turn of the loop may stand: before a   *)
(* constraint whose left operand has just been stored, at the end, or      *)
(* inside a last constraint that began in an odd place.                    *)
(***************************************************************************)
EXTENDS RelParser, FiniteSetTheorems, TLAPS

\* What the relations of a list say, and what the first constraints of a text say.
Kept(hp, list) == UNION {Says(hp[list[j]]) : j \in DOMAIN list}
Upto(txt, k) ==
    {<<Operand(txt, p[1], p[2] - 1), p, Operand(txt, p[1], p[2])>> : p \in Places(txt, 1 .. k)}

\* The values of the fields of an ir.Relation, and the objects.
Values(txt) ==
    UNION {{None},
           {Operand(txt, p[1], p[2]) : p \in (DOMAIN txt) \X (0 .. MaxComparisons)},
           (DOMAIN txt) \X (1 .. MaxComparisons)}
Objects(txt) ==
    [left : Values(txt), left_op : Values(txt), mid : Values(txt), right_op : Values(txt), right : Values(txt)]

-----------------------------------------------------------------------------
(***************************************************************************)
(* The invariant.                                                          *)
(***************************************************************************)
Objected ==
    /\ text \in Text
    /\ Fits(text)
    /\ heap \in Seq(Objects(text))
    /\ relations \in Seq(DOMAIN heap)

\* The object r holds the left operand of constraint k and is in no list; what comes
\* before constraint k has been said.
Ready(txt, hp, r, list, k) ==
    /\ r \in DOMAIN hp
    /\ hp[r] = Relation(Operand(txt, k, 0))
    /\ \A j \in DOMAIN list : list[j] # r
    /\ Kept(hp, list) = Upto(txt, k - 1)

\* Constraint k began in an odd place: its first comparison closed the object r, which
\* is in the list already; the second one is still to come.
Half(txt, k) ==
    [left |-> Operand(txt, k, 0), left_op |-> <<k, 1>>, mid |-> None,
     right_op |-> None, right |-> Operand(txt, k, 1)]
Others(hp, list, r) == UNION {Says(hp[list[j]]) : j \in {i \in DOMAIN list : list[i] # r}}
AtHalf(txt, hp, r, list, k) ==
    /\ r \in DOMAIN hp
    /\ hp[r] = Half(txt, k)
    /\ \E j \in DOMAIN list : list[j] = r
    /\ Others(hp, list, r) = Upto(txt, k - 1)

\* The two ways to stand before a comparison.
Fresh(k) == n = Offset(text, k) /\ Ready(text, heap, relation, relations, k)
Halfway == text[Len(text)].n = 2 /\ AtHalf(text, heap, relation, relations, Len(text))

Standing ==
    /\ pc = "start" => n = 0 /\ heap = <<>> /\ relations = <<>> /\ relation = 0
    /\ pc = "pairs" => n % 2 = 0 /\ n < Paired /\ \E k \in DOMAIN text : Fresh(k)
    /\ pc = "rest" =>
          IF Comparisons(text) % 2 = 0 THEN Parsed = Written(text)
          ELSE n = Comparisons(text) - 1 /\ ((text[Len(text)].n = 1 /\ Fresh(Len(text))) \/ Halfway)
    /\ pc = "done" => Parsed = Written(text)

IInv == TypeOK /\ Objected /\ Standing
-----------------------------------------------------------------------------
(***************************************************************************)
(* Texts, and the place of a comparison in them.                           *)
(***************************************************************************)
LEMMA TextType ==
    ASSUME NEW txt \in Text, MaxConstraints \in Nat, MaxComparisons \in Nat
    PROVE  /\ Len(txt) \in Nat \ {0}
           /\ DOMAIN txt = 1 .. Len(txt)
           /\ \A k \in DOMAIN txt : /\ txt[k].n \in 1 .. MaxComparisons
                                    /\ txt[k].arith \subseteq 0 .. txt[k].n
<1>1. PICK m \in 1 .. MaxConstraints : txt \in [1 .. m -> Constraint]
  BY DEF Text
<1>2. txt \in Seq(Constraint) /\ Len(txt) = m
  BY <1>1
<1>3. \A c \in Constraint : c.n \in 1 .. MaxComparisons /\ c.arith \subseteq 0 .. c.n
  <2> SUFFICES ASSUME NEW c \in Constraint
               PROVE  c.n \in 1 .. MaxComparisons /\ c.arith \subseteq 0 .. c.n
    OBVIOUS
  <2>1. PICK i \in 1 .. MaxComparisons : c \in [arith : SUBSET (0 .. i), n : {i}]
    BY DEF Constraint
  <2> QED
    BY <2>1
<1> QED
  BY <1>1, <1>2, <1>3

\* The comparisons before a constraint are those before the constraint before it and
\* the ones in that.
LEMMA OffsetNext ==
    ASSUME NEW txt \in Text, MaxConstraints \in Nat, MaxComparisons \in Nat, NEW k \in DOMAIN txt
    PROVE  /\ Offset(txt, 1) = 0
           /\ Offset(txt, k) \in Nat
           /\ Offset(txt, k + 1) = Offset(txt, k) + txt[k].n
<1>1. /\ Len(txt) \in Nat /\ DOMAIN txt = 1 .. Len(txt) /\ k \in Int
      /\ txt[k].n \in 1 .. MaxComparisons
  BY TextType
<1>2. \A j \in Int : IsFiniteSet(Places(txt, 1 .. j - 1))
  <2> SUFFICES ASSUME NEW j \in Int
               PROVE  IsFiniteSet(Places(txt, 1 .. j - 1))
    OBVIOUS
  <2>1. IsFiniteSet(1 .. j - 1) /\ IsFiniteSet(1 .. MaxComparisons)
    BY FS_Interval
  <2>2. IsFiniteSet((1 .. j - 1) \X (1 .. MaxComparisons))
    BY <2>1, FS_Product
  <2> QED
    BY <2>2, FS_Subset DEF Places
<1>3. Offset(txt, k) \in Nat
  BY <1>1, <1>2, FS_CardinalityType DEF Offset
<1>4. Offset(txt, 1) = 0
  <2>1. Places(txt, 1 .. 1 - 1) = {}
    BY DEF Places
  <2> QED
    BY <2>1, FS_EmptySet DEF Offset
<1>5. Offset(txt, k + 1) = Offset(txt, k) + txt[k].n
  <2> DEFINE Here == {k} \X (1 .. txt[k].n)
  <2>1. IsFiniteSet({k}) /\ Cardinality({k}) = 1
    BY FS_Singleton
  <2>2. IsFiniteSet(1 .. txt[k].n) /\ Cardinality(1 .. txt[k].n) = txt[k].n
    <3>1. \A b \in Nat : IsFiniteSet(1 .. b) /\ Cardinality(1 .. b) = b
      BY FS_Interval
    <3> QED
      BY <1>1, <3>1
  <2>3. IsFiniteSet(Here) /\ Cardinality(Here) = txt[k].n
    BY <1>1, <2>1, <2>2, FS_Product
  <2>4. Places(txt, 1 .. (k + 1) - 1) = Places(txt, 1 .. k - 1) \cup Here
    <3>1. 1 .. (k + 1) - 1 = (1 .. k - 1) \cup {k} /\ k \notin 1 .. k - 1
      BY <1>1
    <3>2. \A p \in {k} \X (1 .. MaxComparisons) : p[2] <= txt[p[1]].n <=> p \in Here
      BY <1>1
    <3>3. Here \subseteq {k} \X (1 .. MaxComparisons)
      BY <1>1
    <3> HIDE DEF Here
    <3> QED
      BY <3>1, <3>2, <3>3 DEF Places
  <2>5. Places(txt, 1 .. k - 1) \cap Here = {}
    BY <1>1 DEF Places
  <2>6. Cardinality(Places(txt, 1 .. k - 1) \cap Here) = 0
    BY <2>5, FS_EmptySet
  <2>7. Cardinality(Places(txt, 1 .. k - 1) \cup Here) = Cardinality(Places(txt, 1 .. k - 1)) + txt[k].n - 0
    <3> HIDE DEF Here
    <3> QED
      BY <1>1, <1>2, <2>3, <2>6, FS_Union
  <2> QED
    <3>1. Offset(txt, k + 1) = Cardinality(Places(txt, 1 .. k - 1)) + txt[k].n - 0
      BY <2>4, <2>7 DEF Offset
    <3>2. Offset(txt, k + 1) = Offset(txt, k) + txt[k].n - 0
      BY <3>1 DEF Offset
    <3> QED
      BY <1>1, <1>3, <3>2
<1> QED
  BY <1>3, <1>4, <1>5

\* An earlier constraint ends before a later one begins.
LEMMA OffsetGrows ==
    ASSUME NEW txt \in Text, MaxConstraints \in Nat, MaxComparisons \in Nat,
           NEW k \in DOMAIN txt, NEW m \in DOMAIN txt, k < m
    PROVE  Offset(txt, k) + txt[k].n <= Offset(txt, m)
<1>1. k \in Int /\ m \in Int /\ (k + 1) \in DOMAIN txt
  BY TextType
<1>2. Places(txt, 1 .. (k + 1) - 1) \subseteq Places(txt, 1 .. m - 1)
  BY <1>1 DEF Places
<1>3. IsFiniteSet(Places(txt, 1 .. m - 1))
  <2>1. IsFiniteSet(1 .. m - 1) /\ IsFiniteSet(1 .. MaxComparisons)
    BY <1>1, FS_Interval
  <2>2. IsFiniteSet((1 .. m - 1) \X (1 .. MaxComparisons))
    BY <2>1, FS_Product
  <2> QED
    BY <2>2, FS_Subset DEF Places
<1>4. Offset(txt, k + 1) <= Offset(txt, m)
  BY <1>2, <1>3, FS_Subset DEF Offset
<1> QED
  BY <1>4, OffsetNext

\* The i-th comparison of constraint k is where Place finds it.
LEMMA PlaceOf ==
    ASSUME NEW txt \in Text, MaxConstraints \in Nat, MaxComparisons \in Nat,
           NEW k \in DOMAIN txt, NEW i \in 1 .. txt[k].n
    PROVE  Place(txt, Offset(txt, k) + i) = <<k, i>>
<1>1. DOMAIN txt = 1 .. Len(txt) /\ Len(txt) \in Nat /\ txt[k].n \in 1 .. MaxComparisons
  BY TextType
<1>2. <<k, i>> \in Places(txt, DOMAIN txt)
  BY <1>1 DEF Places
<1>3. ASSUME NEW p \in Places(txt, DOMAIN txt), Offset(txt, p[1]) + p[2] = Offset(txt, k) + i
      PROVE  p = <<k, i>>
  <2> DEFINE l == p[1]  j == p[2]
  <2>1. l \in DOMAIN txt /\ j \in 1 .. txt[l].n /\ p = <<l, j>>
    BY <1>1, TextType DEF Places
  <2>2. Offset(txt, l) \in Nat /\ Offset(txt, k) \in Nat /\ txt[l].n \in Nat
    BY <2>1, OffsetNext, TextType
  <2>3. l < k => Offset(txt, l) + txt[l].n <= Offset(txt, k)
    BY <2>1, OffsetGrows
  <2>4. k < l => Offset(txt, k) + txt[k].n <= Offset(txt, l)
    BY <2>1, OffsetGrows
  <2> HIDE DEF l, j
  <2>5. l = k
    <3>1. Offset(txt, l) + j = Offset(txt, k) + i
      BY <1>3 DEF l, j
    <3> QED
      BY <1>1, <2>1, <2>2, <2>3, <2>4, <3>1
  <2>6. j = i
    BY <1>1, <1>3, <2>1, <2>2, <2>5 DEF l, j
  <2> QED
    BY <2>1, <2>5, <2>6
<1> DEFINE Q(p) == Offset(txt, p[1]) + p[2] = Offset(txt, k) + i
<1>4. Q(<<k, i>>)
  OBVIOUS
<1>5. (CHOOSE p \in Places(txt, DOMAIN txt) : Q(p)) = <<k, i>>
  <2>1. \A p \in Places(txt, DOMAIN txt) : Q(p) => p = <<k, i>>
    BY <1>3
  <2> HIDE DEF Q
  <2> QED
    BY <1>2, <1>4, <2>1
<1> QED
  BY <1>5 DEF Place

\* Between two constraints the comparator is the two operands that meet there; anywhere
\* else it is the operand itself.
LEMMA ComparatorOf ==
    ASSUME NEW txt \in Text, MaxConstraints \in Nat, MaxComparisons \in Nat,
           NEW k \in DOMAIN txt, NEW i \in 1 .. txt[k].n
    PROVE  /\ Op(txt, Offset(txt, k) + i) = <<k, i>>
           /\ i = txt[k].n /\ k < Len(txt) =>
                Comparator(txt, Offset(txt, k) + i) = <<Operand(txt, k, i), Operand(txt, k + 1, 0)>>
           /\ ~(i = txt[k].n /\ k < Len(txt)) => Comparator(txt, Offset(txt, k) + i) = Sides(txt, k, i)
BY PlaceOf DEF Comparator, Op

\* An operand is a BinOp exactly if it is arithmetic, and is never the value None.
LEMMA SidesOf ==
    ASSUME NEW txt, NEW k, NEW i
    PROVE  /\ IsBinOp(Sides(txt, k, i)) <=> i \in txt[k].arith
           /\ Whole(Sides(txt, k, i)) = Operand(txt, k, i)
           /\ Operand(txt, k, i) # None
<1>1. CASE i \in txt[k].arith
  <2>1. Sides(txt, k, i) = << <<Atom(k, i, "l")>>, <<Atom(k, i, "r")>> >>
    BY <1>1 DEF Sides
  <2>2. Whole(Sides(txt, k, i)) = <<Atom(k, i, "l")>> \o <<Atom(k, i, "r")>>
    BY <2>1 DEF Whole, IsBinOp, Left, Right
  <2>3. ASSUME NEW a, NEW b
        PROVE  <<a>> \o <<b>> # <<>>
    <3>1. <<a>> \in Seq({a, b}) /\ <<b>> \in Seq({a, b})
      OBVIOUS
    <3>2. Len(<<a>> \o <<b>>) = 2
      BY <3>1
    <3> QED
      BY <3>2
  <2>4. IsBinOp(Sides(txt, k, i))
    BY <2>1 DEF IsBinOp
  <2> QED
    BY <1>1, <2>2, <2>3, <2>4 DEF Operand, None
<1>2. CASE i \notin txt[k].arith
  <2>1. Sides(txt, k, i) = << <<Atom(k, i, "x")>> >>
    BY <1>2 DEF Sides
  <2> QED
    BY <1>2, <2>1 DEF Operand, IsBinOp, None, Whole
<1> QED
  BY <1>1, <1>2

-----------------------------------------------------------------------------
(***************************************************************************)
(* What a list of relations says while objects are made and changed.       *)
(***************************************************************************)
\* Changing an object that is in no list changes nothing that is said.
LEMMA KeptChanged ==
    ASSUME NEW S, NEW hp \in Seq(S), NEW list \in Seq(DOMAIN hp), NEW r \in DOMAIN hp, NEW x,
           \A j \in DOMAIN list : list[j] # r
    PROVE  Kept([hp EXCEPT ![r] = x], list) = Kept(hp, list)
<1>1. \A j \in DOMAIN list : [hp EXCEPT ![r] = x][list[j]] = hp[list[j]]
  OBVIOUS
<1> QED
  BY <1>1 DEF Kept

\* A changed object that is in no list is added to the list: it is said as well.
LEMMA KeptAdded ==
    ASSUME NEW S, NEW hp \in Seq(S), NEW list \in Seq(DOMAIN hp), NEW r \in DOMAIN hp, NEW x,
           \A j \in DOMAIN list : list[j] # r
    PROVE  /\ Added(list, r) \in Seq(DOMAIN hp)
           /\ Kept([hp EXCEPT ![r] = x], Added(list, r)) = Kept(hp, list) \cup Says(x)
           /\ \E j \in DOMAIN Added(list, r) : Added(list, r)[j] = r
           /\ Others([hp EXCEPT ![r] = x], Added(list, r), r) = Kept(hp, list)
           /\ \A k : k \notin DOMAIN hp => \A j \in DOMAIN Added(list, r) : Added(list, r)[j] # k
<1> DEFINE l == Append(list, r)  h == [hp EXCEPT ![r] = x]
<1>1. Added(list, r) = l
  BY DEF Added
<1>2. /\ l \in Seq(DOMAIN hp) /\ DOMAIN l = 1 .. Len(list) + 1 /\ Len(list) \in Nat
      /\ DOMAIN list = 1 .. Len(list)
      /\ l[Len(list) + 1] = r /\ \A j \in DOMAIN list : l[j] = list[j]
  OBVIOUS
<1>3. h[r] = x /\ \A j \in DOMAIN list : h[l[j]] = hp[list[j]]
  BY <1>2
<1>4. DOMAIN l = DOMAIN list \cup {Len(list) + 1}
  BY <1>2
<1>5. {j \in DOMAIN l : l[j] # r} = DOMAIN list
  BY <1>2, <1>4
<1> HIDE DEF l, h
<1>6. Kept(h, l) = Kept(hp, list) \cup Says(x)
  <2>1. \A e : e \in Kept(h, l) <=> \E j \in DOMAIN l : e \in Says(h[l[j]])
    BY DEF Kept
  <2>2. \A e : e \in Kept(hp, list) <=> \E j \in DOMAIN list : e \in Says(hp[list[j]])
    BY DEF Kept
  <2>3. h[l[Len(list) + 1]] = x
    BY <1>2, <1>3
  <2>4. \A e : e \in Kept(h, l) <=> e \in Kept(hp, list) \/ e \in Says(x)
    BY <2>1, <2>2, <2>3, <1>3, <1>4
  <2> QED
    BY <2>4
<1>7. Others(h, l, r) = Kept(hp, list)
  BY <1>3, <1>5 DEF Others, Kept
<1>8. \A k : k \notin DOMAIN hp => \A j \in DOMAIN l : l[j] # k
  BY <1>2
<1> QED
  BY <1>1, <1>2, <1>4, <1>6, <1>7, <1>8 DEF h

\* A new object is in no list.
LEMMA KeptAppended ==
    ASSUME NEW S, NEW hp \in Seq(S), NEW list \in Seq(DOMAIN hp), NEW x
    PROVE  Kept(Append(hp, x), list) = Kept(hp, list)
<1>1. \A j \in DOMAIN list : list[j] \in DOMAIN hp
  OBVIOUS
<1>2. \A i \in DOMAIN hp : Append(hp, x)[i] = hp[i]
  OBVIOUS
<1> QED
  BY <1>1, <1>2 DEF Kept

\* An object that is in the list is changed.
LEMMA KeptAgain ==
    ASSUME NEW S, NEW hp \in Seq(S), NEW list \in Seq(DOMAIN hp), NEW r \in DOMAIN hp, NEW x,
           \E j \in DOMAIN list : list[j] = r
    PROVE  /\ Added(list, r) = list
           /\ Kept([hp EXCEPT ![r] = x], list) = Others(hp, list, r) \cup Says(x)
<1> DEFINE h == [hp EXCEPT ![r] = x]
<1>1. h[r] = x /\ \A j \in DOMAIN list : list[j] # r => h[list[j]] = hp[list[j]]
  OBVIOUS
<1> HIDE DEF h
<1>2. Kept(h, list) = Others(hp, list, r) \cup Says(x)
  BY <1>1 DEF Kept, Others
<1> QED
  BY <1>2 DEF h, Added

-----------------------------------------------------------------------------
(***************************************************************************)
(* The halves of a turn, on an object whose fields are known.              *)
(***************************************************************************)
State(hp, r, list) == [heap |-> hp, relation |-> r, relations |-> list]
Object(left, left_op, mid, right_op, right) ==
    [left |-> left, left_op |-> left_op, mid |-> mid, right_op |-> right_op, right |-> right]

\* The first comparator is an operand: it becomes the middle of the relation.
LEMMA FirstWhole ==
    ASSUME NEW S, NEW hp \in Seq(S), NEW r \in DOMAIN hp, NEW list, NEW left, NEW op, NEW next_op, NEW comp,
           hp[r] = Relation(left), ~IsBinOp(comp)
    PROVE  First(State(hp, r, list), op, comp, next_op)
             = State([hp EXCEPT ![r] = Object(left, op, Whole(comp), next_op, None)], r, list)
<1> DEFINE st == State(hp, r, list)
           o == [Current(st) EXCEPT !.left_op = op]
           s == With(st, o)
<1>1. o = Object(left, op, None, None, None)
  BY DEF State, Current, Relation, Object
<1> HIDE DEF o
<1>2. s = State([hp EXCEPT ![r] = o], r, list)
  BY DEF State, With
<1>3. Current(s) = o
  BY <1>2 DEF State, Current
<1> HIDE DEF s
<1>4. Between(o, Whole(comp), next_op) = Object(left, op, Whole(comp), next_op, None)
  BY <1>1 DEF Between, Object
<1>5. With(s, Between(o, Whole(comp), next_op))
        = State([hp EXCEPT ![r] = Object(left, op, Whole(comp), next_op, None)], r, list)
  BY <1>2, <1>4 DEF With, State
<1>6. First(st, op, comp, next_op) = With(s, Between(Current(s), Whole(comp), next_op))
  BY DEF First, s, o
<1> QED
  BY <1>3, <1>5, <1>6

\* The first comparator ends a constraint: its relation is closed and another begun.
LEMMA FirstSplit ==
    ASSUME NEW S, NEW hp \in Seq(S), NEW r \in DOMAIN hp, NEW list, NEW left, NEW op, NEW next_op, NEW comp,
           hp[r] = Relation(left), IsBinOp(comp)
    PROVE  First(State(hp, r, list), op, comp, next_op)
             = State(Append([hp EXCEPT ![r] = Object(left, op, None, None, Left(comp))],
                            Object(Right(comp), next_op, None, None, None)),
                     Len(hp) + 1, Added(list, r))
<1> DEFINE st == State(hp, r, list)
           o == [Current(st) EXCEPT !.left_op = op]
           s == With(st, o)
           c == Close(s, Left(comp))
           h == [hp EXCEPT ![r] = Object(left, op, None, None, Left(comp))]
           b == Begin(c, Right(comp))
           t == [Current(b) EXCEPT !.left_op = next_op]
<1>1. o = Object(left, op, None, None, None)
  BY DEF State, Current, Relation, Object
<1> HIDE DEF o
<1>2. s = State([hp EXCEPT ![r] = o], r, list)
  BY DEF State, With
<1>3. Current(s) = o
  BY <1>2 DEF State, Current
<1> HIDE DEF s
<1>4. [Current(s) EXCEPT !.right = Left(comp)] = Object(left, op, None, None, Left(comp))
  BY <1>1, <1>3 DEF Object
<1>5. c = State(h, r, Added(list, r))
  BY <1>2, <1>4 DEF Close, With, State
<1>6. Len(h) = Len(hp) /\ h \in Seq(S \cup {Object(left, op, None, None, Left(comp))})
  OBVIOUS
<1> HIDE DEF c, h
<1>7. b = State(Append(h, Relation(Right(comp))), Len(hp) + 1, Added(list, r))
  BY <1>5, <1>6 DEF Begin, State
<1>8. Current(b) = Relation(Right(comp))
  BY <1>6, <1>7 DEF Current, State
<1> HIDE DEF b
<1>9. t = Object(Right(comp), next_op, None, None, None)
  BY <1>8 DEF Relation, Object
<1> HIDE DEF t
<1>10. [Append(h, Relation(Right(comp))) EXCEPT ![Len(hp) + 1] = t] = Append(h, t)
  <2> DEFINE a == Append(h, Relation(Right(comp)))  d == [a EXCEPT ![Len(hp) + 1] = t]  e == Append(h, t)
             T == S \cup {Object(left, op, None, None, Left(comp)), Relation(Right(comp)), t}
  <2>1. h \in Seq(T)
    BY <1>6
  <2>2. /\ a \in Seq(T) /\ Len(a) = Len(hp) + 1 /\ Len(hp) \in Nat
        /\ \A i \in 1 .. Len(hp) : a[i] = h[i]
    <3> HIDE DEF T
    <3>1. Relation(Right(comp)) \in T
      BY DEF T
    <3> QED
      BY <1>6, <2>1, <3>1
  <2>3. /\ e \in Seq(T) /\ Len(e) = Len(hp) + 1 /\ e[Len(hp) + 1] = t
        /\ \A i \in 1 .. Len(hp) : e[i] = h[i]
    <3> HIDE DEF T
    <3>1. t \in T
      BY DEF T
    <3> QED
      BY <1>6, <2>1, <3>1
  <2>4. d \in Seq(T) /\ Len(d) = Len(hp) + 1
    <3> HIDE DEF T, a
    <3>1. t \in T
      BY DEF T
    <3> QED
      BY <2>2, <3>1
  <2>5. \A i \in 1 .. Len(hp) + 1 : d[i] = e[i]
    <3> HIDE DEF a, e, T
    <3> QED
      BY <2>2, <2>3
  <2> HIDE DEF d, e, T
  <2>6. d = e
    BY <2>2, <2>3, <2>4, <2>5
  <2> QED
    BY <2>6 DEF d, e
<1>11. With(b, t) = State(Append(h, t), Len(hp) + 1, Added(list, r))
  BY <1>7, <1>10 DEF With, State
<1>12. First(st, op, comp, next_op) = With(b, t)
  BY DEF First, o, s, c, b, t
<1> QED
  BY <1>9, <1>11, <1>12 DEF h

\* Closing a relation stores its right operand and puts it in the list.
LEMMA Closed ==
    ASSUME NEW S, NEW hp \in Seq(S), NEW r \in DOMAIN hp, NEW list, NEW x,
           NEW left, NEW left_op, NEW mid, NEW right_op,
           hp[r] = Object(left, left_op, mid, right_op, None)
    PROVE  /\ Close(State(hp, r, list), x)
                = State([hp EXCEPT ![r] = Object(left, left_op, mid, right_op, x)], r, Added(list, r))
           /\ Len([hp EXCEPT ![r] = Object(left, left_op, mid, right_op, x)]) = Len(hp)
<1> DEFINE st == State(hp, r, list)
<1>1. [Current(st) EXCEPT !.right = x] = Object(left, left_op, mid, right_op, x)
  BY DEF State, Current, Object
<1>2. Len([hp EXCEPT ![r] = Object(left, left_op, mid, right_op, x)]) = Len(hp)
  OBVIOUS
<1>3. Close(st, x) = State([hp EXCEPT ![r] = Object(left, left_op, mid, right_op, x)], r, Added(list, r))
  BY <1>1 DEF Close, With, State
<1> QED
  BY <1>2, <1>3

\* The second comparator is an operand: it closes the relation.
LEMMA SecondWhole ==
    ASSUME NEW S, NEW hp \in Seq(S), NEW r \in DOMAIN hp, NEW list, NEW comp,
           NEW left, NEW left_op, NEW mid, NEW right_op,
           hp[r] = Object(left, left_op, mid, right_op, None), ~IsBinOp(comp)
    PROVE  Second(State(hp, r, list), comp)
             = State([hp EXCEPT ![r] = Object(left, left_op, mid, right_op, Whole(comp))], r, Added(list, r))
<1>1. Second(State(hp, r, list), comp) = Close(State(hp, r, list), Whole(comp))
  BY DEF Second
<1> QED
  BY <1>1, Closed

\* The second comparator ends a constraint: the next relation is begun.
LEMMA SecondSplit ==
    ASSUME NEW S, NEW hp \in Seq(S), NEW r \in DOMAIN hp, NEW list, NEW comp,
           NEW left, NEW left_op, NEW mid, NEW right_op,
           hp[r] = Object(left, left_op, mid, right_op, None), IsBinOp(comp)
    PROVE  Second(State(hp, r, list), comp)
             = State(Append([hp EXCEPT ![r] = Object(left, left_op, mid, right_op, Left(comp))],
                            Relation(Right(comp))),
                     Len(hp) + 1, Added(list, r))
<1> DEFINE c == Close(State(hp, r, list), Left(comp))
           g == [hp EXCEPT ![r] = Object(left, left_op, mid, right_op, Left(comp))]
<1>1. Second(State(hp, r, list), comp) = Begin(c, Right(comp))
  BY DEF Second
<1>2. c = State(g, r, Added(list, r)) /\ Len(g) = Len(hp)
  BY Closed
<1> HIDE DEF c, g
<1>3. Begin(c, Right(comp)) = State(Append(g, Relation(Right(comp))), Len(hp) + 1, Added(list, r))
  BY <1>2 DEF Begin, State
<1> QED
  BY <1>1, <1>3 DEF g

\* The sequence that Append gives.
LEMMA Appended ==
    ASSUME NEW S, NEW s \in Seq(S), NEW e \in S
    PROVE  /\ Append(s, e) \in Seq(S)
           /\ Len(s) \in Nat /\ DOMAIN s = 1 .. Len(s)
           /\ DOMAIN Append(s, e) = 1 .. Len(s) + 1
           /\ Append(s, e)[Len(s) + 1] = e
OBVIOUS

\* What a half of a turn leaves, when its comparator begins another relation (FirstSplits,
\* SecondSplits) and when it ends this one (SecondEnds): whatever is closed is said, and
\* the relation that is begun is in no list.
FirstSplits(S, hp, list, r, left, op, next_op, comp) ==
    \E h, q, l :
       /\ First(State(hp, r, list), op, comp, next_op) = State(h, q, l)
       /\ h \in Seq(S) /\ l \in Seq(DOMAIN h) /\ q \in DOMAIN h
       /\ h[q] = Object(Right(comp), next_op, None, None, None)
       /\ \A j \in DOMAIN l : l[j] # q
       /\ Kept(h, l) = Kept(hp, list) \cup Says(Object(left, op, None, None, Left(comp)))

\* FirstSplits holds of an object whose fields are known.
LEMMA FirstSplitSays ==
    ASSUME NEW S, NEW hp \in Seq(S), NEW list \in Seq(DOMAIN hp), NEW r \in DOMAIN hp,
           NEW left, NEW op, NEW next_op, NEW comp,
           hp[r] = Relation(left), IsBinOp(comp), \A j \in DOMAIN list : list[j] # r,
           Object(left, op, None, None, Left(comp)) \in S,
           Object(Right(comp), next_op, None, None, None) \in S
    PROVE  FirstSplits(S, hp, list, r, left, op, next_op, comp)
<1> DEFINE x == Object(left, op, None, None, Left(comp))
           y == Object(Right(comp), next_op, None, None, None)
           g == [hp EXCEPT ![r] = x]  h == Append(g, y)  l == Added(list, r)  q == Len(hp) + 1
<1>1. First(State(hp, r, list), op, comp, next_op) = State(h, q, l)
  BY FirstSplit
<1>2. /\ l \in Seq(DOMAIN hp) /\ Kept(g, l) = Kept(hp, list) \cup Says(x)
      /\ \A k : k \notin DOMAIN hp => \A j \in DOMAIN l : l[j] # k
  BY KeptAdded
<1>3. x \in S /\ y \in S
  OBVIOUS
<1> HIDE DEF x, y, l
<1>4. g \in Seq(S) /\ DOMAIN g = DOMAIN hp /\ Len(g) = Len(hp) /\ Len(hp) \in Nat
  BY <1>3
<1> HIDE DEF g
<1>5. h \in Seq(S) /\ DOMAIN h = 1 .. Len(hp) + 1 /\ h[Len(hp) + 1] = y /\ DOMAIN hp = 1 .. Len(hp)
  <2>1. /\ h \in Seq(S) /\ DOMAIN h = 1 .. Len(g) + 1 /\ h[Len(g) + 1] = y
    <3>1. g \in Seq(S) /\ y \in S
      BY <1>3, <1>4
    <3> QED
      BY ONLY <3>1, Appended
  <2>2. DOMAIN hp = 1 .. Len(hp)
    OBVIOUS
  <2> HIDE DEF h
  <2> QED
    BY <1>4, <2>1, <2>2
<1>6. Kept(h, l) = Kept(g, l)
  BY <1>2, <1>4, KeptAppended
<1>7. l \in Seq(DOMAIN h)
  <2>1. DOMAIN hp \subseteq DOMAIN h
    BY <1>4, <1>5
  <2> HIDE DEF h
  <2> QED
    BY <1>2, <2>1
<1>8. q \notin DOMAIN hp /\ q \in DOMAIN h
  BY <1>4, <1>5
<1> HIDE DEF h, q
<1> QED
  BY <1>1, <1>2, <1>5, <1>6, <1>7, <1>8 DEF x, y, q, FirstSplits

SecondSplits(S, hp, list, r, left, left_op, mid, right_op, comp) ==
    \E h, q, l :
       /\ Second(State(hp, r, list), comp) = State(h, q, l)
       /\ h \in Seq(S) /\ l \in Seq(DOMAIN h) /\ q \in DOMAIN h
       /\ h[q] = Relation(Right(comp))
       /\ \A j \in DOMAIN l : l[j] # q
       /\ Kept(h, l) = Kept(hp, list) \cup Says(Object(left, left_op, mid, right_op, Left(comp)))

\* SecondSplits holds of an object whose fields are known.
LEMMA SecondSplitSays ==
    ASSUME NEW S, NEW hp \in Seq(S), NEW list \in Seq(DOMAIN hp), NEW r \in DOMAIN hp,
           NEW left, NEW left_op, NEW mid, NEW right_op, NEW comp,
           hp[r] = Object(left, left_op, mid, right_op, None), IsBinOp(comp),
           \A j \in DOMAIN list : list[j] # r,
           Object(left, left_op, mid, right_op, Left(comp)) \in S, Relation(Right(comp)) \in S
    PROVE  SecondSplits(S, hp, list, r, left, left_op, mid, right_op, comp)
<1> DEFINE x == Object(left, left_op, mid, right_op, Left(comp))
           y == Relation(Right(comp))
           g == [hp EXCEPT ![r] = x]  h == Append(g, y)  l == Added(list, r)  q == Len(hp) + 1
<1>1. Second(State(hp, r, list), comp) = State(h, q, l)
  BY SecondSplit
<1>2. /\ l \in Seq(DOMAIN hp) /\ Kept(g, l) = Kept(hp, list) \cup Says(x)
      /\ \A k : k \notin DOMAIN hp => \A j \in DOMAIN l : l[j] # k
  BY KeptAdded
<1>3. x \in S /\ y \in S
  OBVIOUS
<1> HIDE DEF x, y, l
<1>4. g \in Seq(S) /\ DOMAIN g = DOMAIN hp /\ Len(g) = Len(hp) /\ Len(hp) \in Nat
  BY <1>3
<1> HIDE DEF g
<1>5. h \in Seq(S) /\ DOMAIN h = 1 .. Len(hp) + 1 /\ h[Len(hp) + 1] = y /\ DOMAIN hp = 1 .. Len(hp)
  <2>1. /\ h \in Seq(S) /\ DOMAIN h = 1 .. Len(g) + 1 /\ h[Len(g) + 1] = y
    <3>1. g \in Seq(S) /\ y \in S
      BY <1>3, <1>4
    <3> QED
      BY ONLY <3>1, Appended
  <2>2. DOMAIN hp = 1 .. Len(hp)
    OBVIOUS
  <2> HIDE DEF h
  <2> QED
    BY <1>4, <2>1, <2>2
<1>6. Kept(h, l) = Kept(g, l)
  BY <1>2, <1>4, KeptAppended
<1>7. l \in Seq(DOMAIN h)
  <2>1. DOMAIN hp \subseteq DOMAIN h
    BY <1>4, <1>5
  <2> HIDE DEF h
  <2> QED
    BY <1>2, <2>1
<1>8. q \notin DOMAIN hp /\ q \in DOMAIN h
  BY <1>4, <1>5
<1> HIDE DEF h, q
<1> QED
  BY <1>1, <1>2, <1>5, <1>6, <1>7, <1>8 DEF x, y, q, SecondSplits

SecondEnds(S, hp, list, r, left, left_op, mid, right_op, comp) ==
    \E h, l :
       /\ Second(State(hp, r, list), comp) = State(h, r, l)
       /\ h \in Seq(S) /\ l \in Seq(DOMAIN h) /\ r \in DOMAIN h
       /\ h[r] = Object(left, left_op, mid, right_op, Whole(comp))
       /\ \E j \in DOMAIN l : l[j] = r
       /\ Others(h, l, r) = Kept(hp, list)
       /\ Kept(h, l) = Kept(hp, list) \cup Says(Object(left, left_op, mid, right_op, Whole(comp)))

\* SecondEnds holds of an object whose fields are known.
LEMMA SecondWholeSays ==
    ASSUME NEW S, NEW hp \in Seq(S), NEW list \in Seq(DOMAIN hp), NEW r \in DOMAIN hp,
           NEW left, NEW left_op, NEW mid, NEW right_op, NEW comp,
           hp[r] = Object(left, left_op, mid, right_op, None), ~IsBinOp(comp),
           \A j \in DOMAIN list : list[j] # r,
           Object(left, left_op, mid, right_op, Whole(comp)) \in S
    PROVE  SecondEnds(S, hp, list, r, left, left_op, mid, right_op, comp)
<1> DEFINE x == Object(left, left_op, mid, right_op, Whole(comp))
           h == [hp EXCEPT ![r] = x]  l == Added(list, r)
<1>1. Second(State(hp, r, list), comp) = State(h, r, l)
  BY SecondWhole
<1>2. /\ l \in Seq(DOMAIN hp) /\ Kept(h, l) = Kept(hp, list) \cup Says(x)
      /\ \E j \in DOMAIN l : l[j] = r
      /\ Others(h, l, r) = Kept(hp, list)
  BY KeptAdded
<1>3. x \in S
  OBVIOUS
<1> HIDE DEF x, l
<1>4. h \in Seq(S) /\ DOMAIN h = DOMAIN hp /\ h[r] = x
  BY <1>3
<1> HIDE DEF h
<1> QED
  BY <1>1, <1>2, <1>4 DEF x, SecondEnds

-----------------------------------------------------------------------------
(***************************************************************************)
(* What the first constraints of a text say, and the shapes that fit.      *)
(***************************************************************************)
Piece(txt, k, i) == <<Operand(txt, k, i - 1), <<k, i>>, Operand(txt, k, i)>>

\* What the constraints up to k say: what those before k say, and the comparisons of k.
LEMMA UptoNext ==
    ASSUME NEW txt \in Text, MaxConstraints \in Nat, MaxComparisons \in Nat, NEW k \in DOMAIN txt
    PROVE  /\ Upto(txt, 0) = {}
           /\ Upto(txt, k) = Upto(txt, k - 1) \cup {Piece(txt, k, i) : i \in 1 .. txt[k].n}
           /\ Upto(txt, Len(txt)) = Written(txt)
<1>1. /\ Len(txt) \in Nat /\ DOMAIN txt = 1 .. Len(txt) /\ k \in Int
      /\ txt[k].n \in 1 .. MaxComparisons
  BY TextType
<1>2. Places(txt, 1 .. 0) = {}
  BY DEF Places
<1>3. Upto(txt, 0) = {}
  BY <1>2 DEF Upto
<1>4. Upto(txt, Len(txt)) = Written(txt)
  BY <1>1 DEF Upto, Written
<1>5. Upto(txt, k) = Upto(txt, k - 1) \cup {Piece(txt, k, i) : i \in 1 .. txt[k].n}
  <2> DEFINE T(p) == <<Operand(txt, p[1], p[2] - 1), p, Operand(txt, p[1], p[2])>>
             Here == {k} \X (1 .. txt[k].n)
  <2>1. 1 .. k = (1 .. k - 1) \cup {k} /\ k \notin 1 .. k - 1
    BY <1>1
  <2>2. Places(txt, 1 .. k) = Places(txt, 1 .. k - 1) \cup Here
    <3>1. \A p \in {k} \X (1 .. MaxComparisons) : p[2] <= txt[p[1]].n <=> p \in Here
      BY <1>1
    <3>2. Here \subseteq {k} \X (1 .. MaxComparisons)
      BY <1>1
    <3> HIDE DEF Here
    <3> QED
      BY <2>1, <3>1, <3>2 DEF Places
  <2>3. {T(p) : p \in Here} = {Piece(txt, k, i) : i \in 1 .. txt[k].n}
    <3>1. \A i \in 1 .. txt[k].n : <<k, i>> \in Here /\ T(<<k, i>>) = Piece(txt, k, i)
      BY DEF Piece
    <3>2. \A p \in Here : p[2] \in 1 .. txt[k].n /\ p = <<k, p[2]>>
      OBVIOUS
    <3>3. \A p \in Here : T(p) = Piece(txt, k, p[2])
      BY <3>1, <3>2
    <3> HIDE DEF T, Here
    <3> QED
      BY <3>1, <3>2, <3>3
  <2>4. Upto(txt, k) = {T(p) : p \in Places(txt, 1 .. k)}
    BY DEF Upto
  <2>5. Upto(txt, k - 1) = {T(p) : p \in Places(txt, 1 .. k - 1)}
    BY DEF Upto
  <2> HIDE DEF T, Here
  <2> QED
    BY <2>2, <2>3, <2>4, <2>5
<1> QED
  BY <1>3, <1>4, <1>5

\* The values an object of the text may hold.
LEMMA ValueOf ==
    ASSUME NEW txt \in Text, MaxConstraints \in Nat, MaxComparisons \in Nat, NEW k \in DOMAIN txt
    PROVE  /\ None \in Values(txt)
           /\ \A i \in 0 .. txt[k].n : Operand(txt, k, i) \in Values(txt)
           /\ \A i \in 1 .. txt[k].n : <<k, i>> \in Values(txt)
<1>1. txt[k].n \in 1 .. MaxComparisons
  BY TextType
<1>2. \A i \in 0 .. txt[k].n : <<k, i>> \in (DOMAIN txt) \X (0 .. MaxComparisons)
  BY <1>1
<1>3. ASSUME NEW i \in 0 .. txt[k].n
      PROVE  Operand(txt, k, i) \in {Operand(txt, p[1], p[2]) : p \in (DOMAIN txt) \X (0 .. MaxComparisons)}
  <2>1. <<k, i>>[1] = k /\ <<k, i>>[2] = i
    OBVIOUS
  <2> QED
    BY <1>2, <2>1
<1>4. \A i \in 1 .. txt[k].n : <<k, i>> \in (DOMAIN txt) \X (1 .. MaxComparisons)
  BY <1>1
<1> QED
  BY <1>3, <1>4 DEF Values

\* The objects of a text are those whose fields hold values of the text.
LEMMA ObjectOf ==
    ASSUME NEW txt, NEW a \in Values(txt), NEW b \in Values(txt), NEW c \in Values(txt),
           NEW d \in Values(txt), NEW e \in Values(txt)
    PROVE  Object(a, b, c, d, e) \in Objects(txt)
BY DEF Object, Objects

\* A new relation has its left operand only.
LEMMA RelationOf ==
    ASSUME NEW v
    PROVE  Relation(v) = Object(v, None, None, None, None)
BY DEF Relation, Object

\* The comparisons of a text are counted by its last constraint.
LEMMA ComparisonsOf ==
    ASSUME NEW txt \in Text, MaxConstraints \in Nat, MaxComparisons \in Nat, NEW k \in DOMAIN txt
    PROVE  /\ Comparisons(txt) \in Nat
           /\ Len(txt) \in DOMAIN txt
           /\ k = Len(txt) => Comparisons(txt) = Offset(txt, k) + txt[k].n
           /\ k < Len(txt) => /\ (k + 1) \in DOMAIN txt
                              /\ Comparisons(txt) >= Offset(txt, k) + txt[k].n + 1
<1>1. /\ Len(txt) \in Nat \ {0} /\ DOMAIN txt = 1 .. Len(txt)
      /\ \A j \in DOMAIN txt : txt[j].n \in 1 .. MaxComparisons
  BY TextType
<1>2. Offset(txt, k) \in Nat /\ Offset(txt, Len(txt)) \in Nat
  BY <1>1, OffsetNext
<1>3. k < Len(txt) => Offset(txt, k) + txt[k].n <= Offset(txt, Len(txt))
  BY <1>1, OffsetGrows
<1>4. txt[k].n \in Nat \ {0} /\ txt[Len(txt)].n \in Nat \ {0}
  BY <1>1
<1> QED
  BY <1>1, <1>2, <1>3, <1>4 DEF Comparisons

\* The shapes visit_Compare handles, by constraint.
LEMMA FitsOf ==
    ASSUME NEW txt \in Text, MaxConstraints \in Nat, MaxComparisons \in Nat, Fits(txt), NEW k \in DOMAIN txt
    PROVE  /\ txt[k].n \in {1, 2}
           /\ txt[k].n = 2 /\ Offset(txt, k) % 2 = 1 => k = Len(txt)
           /\ \A i \in txt[k].arith :
                 \/ i = 0
                 \/ i = txt[k].n /\ k < Len(txt)
                 \/ Offset(txt, k) + i = Comparisons(txt) /\ Comparisons(txt) % 2 = 1
<1>1. txt[k].n \in 1 .. MaxComparisons
  BY TextType
<1> QED
  BY <1>1 DEF Fits, Alone

-----------------------------------------------------------------------------
(***************************************************************************)
(* A turn of the loop.                                                     *)
(***************************************************************************)
Turn(txt, hp, r, list, m) ==
    Second(First(State(hp, r, list), Op(txt, m + 1), Comparator(txt, m + 1), Op(txt, m + 2)),
           Comparator(txt, m + 2))

\* An object with a middle operand says two comparisons, one without says one.
LEMMA SaysOf ==
    ASSUME NEW a, NEW b, NEW c, NEW d, NEW e
    PROVE  /\ Says(Object(a, b, None, None, e)) = {<<a, b, e>>}
           /\ c # None => Says(Object(a, b, c, d, e)) = {<<a, b, c>>, <<c, d, e>>}
<1>1. /\ Object(a, b, None, None, e).left = a /\ Object(a, b, None, None, e).left_op = b
      /\ Object(a, b, None, None, e).mid = None /\ Object(a, b, None, None, e).right = e
  BY DEF Object
<1>2. /\ Object(a, b, c, d, e).left = a /\ Object(a, b, c, d, e).left_op = b
      /\ Object(a, b, c, d, e).mid = c /\ Object(a, b, c, d, e).right_op = d
      /\ Object(a, b, c, d, e).right = e
  BY DEF Object
<1> QED
  BY <1>1, <1>2 DEF Says

\* A two-sided constraint in an even place takes one turn.
LEMMA TurnWithin ==
    ASSUME NEW txt \in Text, MaxConstraints \in Nat, MaxComparisons \in Nat, Fits(txt),
           NEW k \in DOMAIN txt, NEW hp \in Seq(Objects(txt)), NEW list \in Seq(DOMAIN hp), NEW r,
           Ready(txt, hp, r, list, k), txt[k].n = 2, Offset(txt, k) % 2 = 0
    PROVE  \E h, q, l :
              /\ Turn(txt, hp, r, list, Offset(txt, k)) = State(h, q, l)
              /\ h \in Seq(Objects(txt)) /\ l \in Seq(DOMAIN h) /\ q \in DOMAIN h
              /\ Kept(h, l) = Upto(txt, k)
              /\ k < Len(txt) => Ready(txt, h, q, l, k + 1)
<1> DEFINE m == Offset(txt, k)
           a == Operand(txt, k, 0)  b == Operand(txt, k, 1)  c == Operand(txt, k, 2)
           V == Values(txt)
<1>1. m \in Nat /\ 1 \in 1 .. txt[k].n /\ 2 \in 1 .. txt[k].n /\ k \in Int /\ Len(txt) \in Nat
  BY OffsetNext, TextType
<1>2. a \in V /\ b \in V /\ c \in V /\ None \in V /\ <<k, 1>> \in V /\ <<k, 2>> \in V
  <2>1. 0 \in 0 .. txt[k].n /\ 1 \in 0 .. txt[k].n /\ 2 \in 0 .. txt[k].n
    OBVIOUS
  <2> QED
    BY <1>1, <2>1, ValueOf
<1>3. Upto(txt, k) = Upto(txt, k - 1) \cup {<<a, <<k, 1>>, b>>, <<b, <<k, 2>>, c>>}
  <2>1. {Piece(txt, k, i) : i \in 1 .. txt[k].n} = {Piece(txt, k, 1), Piece(txt, k, 2)}
    <3>1. 1 .. txt[k].n = {1, 2}
      OBVIOUS
    <3> QED
      BY <3>1
  <2>2. Piece(txt, k, 1) = <<a, <<k, 1>>, b>> /\ Piece(txt, k, 2) = <<b, <<k, 2>>, c>>
    BY DEF Piece
  <2> QED
    BY <2>1, <2>2, UptoNext
<1>4. /\ Op(txt, m + 1) = <<k, 1>> /\ Op(txt, m + 2) = <<k, 2>>
      /\ Comparator(txt, m + 1) = Sides(txt, k, 1)
      /\ k < Len(txt) => Comparator(txt, m + 2) = <<c, Operand(txt, k + 1, 0)>>
      /\ k = Len(txt) => Comparator(txt, m + 2) = Sides(txt, k, 2)
  BY <1>1, ComparatorOf
<1>5. /\ Comparisons(txt) \in Nat
      /\ k = Len(txt) => Comparisons(txt) = m + 2
      /\ k < Len(txt) => Comparisons(txt) >= m + 3
  BY <1>1, ComparisonsOf
<1>6. 1 \notin txt[k].arith /\ (k = Len(txt) => 2 \notin txt[k].arith)
  <2>1. \A i \in txt[k].arith : \/ i = 0
                                \/ i = txt[k].n /\ k < Len(txt)
                                \/ m + i = Comparisons(txt) /\ Comparisons(txt) % 2 = 1
    BY FitsOf
  <2>2. k = Len(txt) \/ k < Len(txt)
    BY <1>1, TextType
  <2>3. m + 1 # Comparisons(txt)
    BY <1>1, <1>5, <2>2
  <2>4. k = Len(txt) => Comparisons(txt) % 2 = 0
    BY <1>1, <1>5
  <2> QED
    BY <2>1, <2>3, <2>4
<1>7. /\ ~IsBinOp(Sides(txt, k, 1)) /\ Whole(Sides(txt, k, 1)) = b /\ b # None
      /\ k = Len(txt) => ~IsBinOp(Sides(txt, k, 2))
      /\ Whole(Sides(txt, k, 2)) = c
  BY <1>6, SidesOf
<1> DEFINE x == Object(a, <<k, 1>>, b, <<k, 2>>, None)
           g == [hp EXCEPT ![r] = x]
           z == Object(a, <<k, 1>>, b, <<k, 2>>, c)
<1>8. x \in Objects(txt) /\ z \in Objects(txt)
  <2> HIDE DEF V, a, b, c
  <2> QED
    BY <1>2, ObjectOf DEF V
<1>9. First(State(hp, r, list), <<k, 1>>, Sides(txt, k, 1), <<k, 2>>) = State(g, r, list)
  <2>1. r \in DOMAIN hp /\ hp[r] = Relation(a)
    BY DEF Ready
  <2> QED
    BY <1>7, <2>1, FirstWhole
<1>10. Says(z) = {<<a, <<k, 1>>, b>>, <<b, <<k, 2>>, c>>}
  <2> DEFINE p == <<k, 1>>  o == <<k, 2>>
  <2>1. b # None
    BY <1>7
  <2> HIDE DEF a, b, c, p, o
  <2>2. Says(Object(a, p, b, o, c)) = {<<a, p, b>>, <<b, o, c>>}
    BY ONLY <2>1, SaysOf
  <2> QED
    BY <2>2 DEF p, o
<1> DEFINE comp == Comparator(txt, m + 2)
<1>11. Turn(txt, hp, r, list, m) = Second(State(g, r, list), comp)
  <2> HIDE DEF m, g
  <2> QED
    BY <1>4, <1>9 DEF Turn
<1> HIDE DEF x, z
<1>12. /\ g \in Seq(Objects(txt)) /\ DOMAIN g = DOMAIN hp /\ g[r] = x
       /\ r \in DOMAIN g /\ list \in Seq(DOMAIN g)
       /\ \A j \in DOMAIN list : list[j] # r
  BY <1>8 DEF Ready
<1>13. Kept(g, list) = Upto(txt, k - 1)
  <2>1. Kept(g, list) = Kept(hp, list)
    BY KeptChanged DEF Ready
  <2> QED
    BY <2>1 DEF Ready
<1> HIDE DEF g, comp, m, a, b, c
<1>14. CASE k < Len(txt)
  <2> DEFINE y == Operand(txt, k + 1, 0)
  <2>1. comp = <<c, y>>
    BY <1>4, <1>14 DEF comp
  <2>2. IsBinOp(comp) /\ Left(comp) = c /\ Right(comp) = y
    <3> HIDE DEF y
    <3> QED
      BY <2>1 DEF IsBinOp, Left, Right
  <2>3. Relation(y) \in Objects(txt)
    <3>1. (k + 1) \in DOMAIN txt
      BY <1>14, ComparisonsOf
    <3>2. txt[k + 1].n \in Nat
      BY <3>1, TextType
    <3>3. y \in V
      BY <3>1, <3>2, ValueOf
    <3> HIDE DEF y
    <3> QED
      BY <1>2, <3>3, ObjectOf, RelationOf DEF V
  <2> HIDE DEF y
  <2>4. PICK h, q, l :
              /\ Second(State(g, r, list), comp) = State(h, q, l)
              /\ h \in Seq(Objects(txt)) /\ l \in Seq(DOMAIN h) /\ q \in DOMAIN h
              /\ h[q] = Relation(y)
              /\ \A j \in DOMAIN l : l[j] # q
              /\ Kept(h, l) = Kept(g, list) \cup Says(z)
    <3> DEFINE p == <<k, 1>>  o == <<k, 2>>  S == Objects(txt)
    <3>1. x = Object(a, p, b, o, None) /\ z = Object(a, p, b, o, c)
      BY DEF x, z
    <3> HIDE DEF p, o, S
    <3>2. /\ g \in Seq(S) /\ list \in Seq(DOMAIN g) /\ r \in DOMAIN g
          /\ g[r] = Object(a, p, b, o, None) /\ IsBinOp(comp)
          /\ \A j \in DOMAIN list : list[j] # r
          /\ Object(a, p, b, o, Left(comp)) \in S /\ Relation(Right(comp)) \in S
      BY <1>8, <1>12, <2>2, <2>3, <3>1 DEF S
    <3>3. SecondSplits(S, g, list, r, a, p, b, o, comp)
      BY ONLY <3>2, SecondSplitSays
    <3> QED
      BY <2>2, <3>1, <3>3 DEF S, SecondSplits
  <2>5. Kept(h, l) = Upto(txt, k)
    BY <1>3, <1>10, <1>13, <2>4
  <2>6. Ready(txt, h, q, l, k + 1)
    BY <1>1, <2>4, <2>5 DEF Ready, y
  <2> QED
    BY <1>11, <2>4, <2>5, <2>6 DEF m
<1>15. CASE k = Len(txt)
  <2>1. ~IsBinOp(comp) /\ Whole(comp) = c
    BY <1>4, <1>7, <1>15 DEF comp
  <2>2. PICK h, l :
              /\ Second(State(g, r, list), comp) = State(h, r, l)
              /\ h \in Seq(Objects(txt)) /\ l \in Seq(DOMAIN h) /\ r \in DOMAIN h
              /\ Kept(h, l) = Kept(g, list) \cup Says(z)
    <3> DEFINE p == <<k, 1>>  o == <<k, 2>>  S == Objects(txt)
    <3>1. x = Object(a, p, b, o, None) /\ z = Object(a, p, b, o, c)
      BY DEF x, z
    <3> HIDE DEF p, o, S
    <3>2. /\ g \in Seq(S) /\ list \in Seq(DOMAIN g) /\ r \in DOMAIN g
          /\ g[r] = Object(a, p, b, o, None) /\ ~IsBinOp(comp)
          /\ \A j \in DOMAIN list : list[j] # r
          /\ Object(a, p, b, o, Whole(comp)) \in S
      BY <1>8, <1>12, <2>1, <3>1 DEF S
    <3>3. SecondEnds(S, g, list, r, a, p, b, o, comp)
      BY ONLY <3>2, SecondWholeSays
    <3> QED
      BY <2>1, <3>1, <3>3 DEF S, SecondEnds
  <2>3. Kept(h, l) = Upto(txt, k)
    BY <1>3, <1>10, <1>13, <2>2
  <2>4. ~(k < Len(txt))
    BY <1>1, <1>15
  <2> QED
    BY <1>11, <2>2, <2>3, <2>4 DEF m
<1> QED
  BY <1>1, <1>14, <1>15, TextType

\* A one-sided constraint and the first comparison of the next one take a turn.  If the
\* next one has another comparison it is the last constraint, and is left halfway.
LEMMA TurnAcross ==
    ASSUME NEW txt \in Text, MaxConstraints \in Nat, MaxComparisons \in Nat, Fits(txt),
           NEW k \in DOMAIN txt, NEW hp \in Seq(Objects(txt)), NEW list \in Seq(DOMAIN hp), NEW r,
           Ready(txt, hp, r, list, k), txt[k].n = 1, k < Len(txt), Offset(txt, k) % 2 = 0
    PROVE  \E h, q, l :
              /\ Turn(txt, hp, r, list, Offset(txt, k)) = State(h, q, l)
              /\ h \in Seq(Objects(txt)) /\ l \in Seq(DOMAIN h) /\ q \in DOMAIN h
              /\ txt[k + 1].n = 1 => Kept(h, l) = Upto(txt, k + 1)
              /\ txt[k + 1].n = 1 /\ k + 1 < Len(txt) => Ready(txt, h, q, l, k + 2)
              /\ txt[k + 1].n = 2 => k + 1 = Len(txt) /\ AtHalf(txt, h, q, l, k + 1)
<1> DEFINE m == Offset(txt, k)
           a == Operand(txt, k, 0)  b == Operand(txt, k, 1)
           c == Operand(txt, k + 1, 0)  d == Operand(txt, k + 1, 1)
           p == <<k, 1>>  o == <<k + 1, 1>>
           S == Objects(txt)
<1>1. /\ (k + 1) \in DOMAIN txt /\ m \in Nat /\ k \in Int /\ Len(txt) \in Nat
      /\ Offset(txt, k + 1) = m + 1
      /\ txt[k + 1].n \in {1, 2}
      /\ k + 1 <= Len(txt)
  <2>1. (k + 1) \in DOMAIN txt
    BY ComparisonsOf
  <2>2. m \in Nat /\ Offset(txt, k + 1) = m + 1
    BY OffsetNext
  <2>3. txt[k + 1].n \in {1, 2}
    BY <2>1, FitsOf
  <2>4. k \in Int /\ Len(txt) \in Nat /\ k + 1 <= Len(txt)
    BY <2>1, TextType
  <2> QED
    BY <2>1, <2>2, <2>3, <2>4
<1>2. txt[k + 1].n = 2 => k + 1 = Len(txt)
  <2>1. txt[k + 1].n = 2 /\ Offset(txt, k + 1) % 2 = 1 => k + 1 = Len(txt)
    BY <1>1, FitsOf
  <2>2. (m + 1) % 2 = 1
    <3>1. \A j \in Nat : j % 2 = 0 => (j + 1) % 2 = 1
      OBVIOUS
    <3> QED
      BY <1>1, <3>1
  <2> QED
    BY <1>1, <2>1, <2>2
<1>3. a \in Values(txt) /\ b \in Values(txt) /\ None \in Values(txt) /\ p \in Values(txt)
  <2>1. 0 \in 0 .. txt[k].n /\ 1 \in 0 .. txt[k].n /\ 1 \in 1 .. txt[k].n
    OBVIOUS
  <2> QED
    BY <2>1, ValueOf
<1>4. c \in Values(txt) /\ d \in Values(txt) /\ o \in Values(txt)
  <2>1. 0 \in 0 .. txt[k + 1].n /\ 1 \in 0 .. txt[k + 1].n /\ 1 \in 1 .. txt[k + 1].n
    BY <1>1
  <2> QED
    BY <1>1, <2>1, ValueOf
<1>5. Upto(txt, k) = Upto(txt, k - 1) \cup {<<a, p, b>>}
  <2>1. {Piece(txt, k, i) : i \in 1 .. txt[k].n} = {<<a, p, b>>}
    BY DEF Piece
  <2> QED
    BY <2>1, UptoNext
<1>6. txt[k + 1].n = 1 => Upto(txt, k + 1) = Upto(txt, k) \cup {<<c, o, d>>}
  <2> SUFFICES ASSUME txt[k + 1].n = 1
               PROVE  Upto(txt, k + 1) = Upto(txt, k) \cup {<<c, o, d>>}
    OBVIOUS
  <2>1. {Piece(txt, k + 1, i) : i \in 1 .. txt[k + 1].n} = {<<c, o, d>>}
    BY DEF Piece
  <2>2. (k + 1) - 1 = k
    BY <1>1
  <2> QED
    BY <1>1, <2>1, <2>2, UptoNext
<1>7. /\ Op(txt, m + 1) = p /\ Op(txt, m + 2) = o
      /\ Comparator(txt, m + 1) = <<b, c>>
      /\ txt[k + 1].n = 1 /\ k + 1 < Len(txt) => Comparator(txt, m + 2) = <<d, Operand(txt, k + 2, 0)>>
      /\ ~(txt[k + 1].n = 1 /\ k + 1 < Len(txt)) => Comparator(txt, m + 2) = Sides(txt, k + 1, 1)
  <2>1. 1 \in 1 .. txt[k].n /\ 1 \in 1 .. txt[k + 1].n
    BY <1>1
  <2>2. Op(txt, m + 1) = p /\ Comparator(txt, m + 1) = <<b, c>>
    BY <2>1, ComparatorOf
  <2>3. (m + 1) + 1 = m + 2 /\ (k + 1) + 1 = k + 2
    BY <1>1
  <2>4. /\ Op(txt, (m + 1) + 1) = o
        /\ 1 = txt[k + 1].n /\ k + 1 < Len(txt) =>
              Comparator(txt, (m + 1) + 1) = <<d, Operand(txt, (k + 1) + 1, 0)>>
        /\ ~(1 = txt[k + 1].n /\ k + 1 < Len(txt)) => Comparator(txt, (m + 1) + 1) = Sides(txt, k + 1, 1)
    BY <1>1, <2>1, ComparatorOf
  <2> QED
    BY <2>2, <2>3, <2>4
<1>8. k + 1 = Len(txt) => 1 \notin txt[k + 1].arith
  <2> SUFFICES ASSUME k + 1 = Len(txt), 1 \in txt[k + 1].arith
               PROVE  FALSE
    OBVIOUS
  <2>1. \/ m + 2 = Comparisons(txt) /\ Comparisons(txt) % 2 = 1
        \/ (m + 1) + 1 = Comparisons(txt) /\ Comparisons(txt) % 2 = 1
    BY <1>1, FitsOf
  <2> QED
    BY <1>1, <2>1
<1> DEFINE x == Object(a, p, None, None, b)
           y == Object(c, o, None, None, None)
           z == Object(c, o, None, None, d)
<1>9. x \in S /\ y \in S /\ z \in S
  <2> HIDE DEF a, b, c, d, o, p
  <2> QED
    BY <1>3, <1>4, ObjectOf
<1>10. Says(x) = {<<a, p, b>>} /\ Says(z) = {<<c, o, d>>}
  <2> HIDE DEF a, b, c, d, o, p
  <2> QED
    BY ONLY SaysOf
<1> DEFINE first == Comparator(txt, m + 1)  second == Comparator(txt, m + 2)
<1>11. IsBinOp(first) /\ Left(first) = b /\ Right(first) = c
  <2>1. first = <<b, c>>
    BY <1>7
  <2> HIDE DEF first, b, c
  <2> QED
    BY <2>1 DEF IsBinOp, Left, Right
<1>12. /\ Sides(txt, k + 1, 1) = second => Whole(second) = d
       /\ k + 1 = Len(txt) /\ Sides(txt, k + 1, 1) = second => ~IsBinOp(second)
  BY <1>8, SidesOf
<1>13. PICK h1, q1, l1 :
          /\ First(State(hp, r, list), p, first, o) = State(h1, q1, l1)
          /\ h1 \in Seq(S) /\ l1 \in Seq(DOMAIN h1) /\ q1 \in DOMAIN h1
          /\ h1[q1] = y
          /\ \A j \in DOMAIN l1 : l1[j] # q1
          /\ Kept(h1, l1) = Upto(txt, k)
  <2>1. /\ r \in DOMAIN hp /\ hp[r] = Relation(a) /\ (\A j \in DOMAIN list : list[j] # r)
        /\ Kept(hp, list) = Upto(txt, k - 1)
    BY DEF Ready
  <2>2. hp \in Seq(S) /\ list \in Seq(DOMAIN hp)
    OBVIOUS
  <2> HIDE DEF S, first, a, b, c, d, o, p
  <2>3. /\ Object(a, p, None, None, Left(first)) \in S
        /\ Object(Right(first), o, None, None, None) \in S
    BY <1>9, <1>11
  <2>4. FirstSplits(S, hp, list, r, a, p, o, first)
    BY ONLY <1>11, <2>1, <2>2, <2>3, FirstSplitSays
  <2> QED
    BY <1>5, <1>10, <1>11, <2>1, <2>4 DEF FirstSplits
<1>14. Turn(txt, hp, r, list, m) = Second(State(h1, q1, l1), second)
  BY <1>7, <1>13 DEF Turn
<1> HIDE DEF S, first, second, m, a, b, c, d, o, p
<1>15. CASE txt[k + 1].n = 1 /\ k + 1 < Len(txt)
  <2> DEFINE e == Operand(txt, k + 2, 0)
  <2>1. IsBinOp(second) /\ Left(second) = d /\ Right(second) = e
    <3>1. second = <<d, e>>
      BY <1>7, <1>15 DEF second
    <3> HIDE DEF e
    <3> QED
      BY <3>1 DEF IsBinOp, Left, Right
  <2>2. Relation(e) \in S
    <3>1. (k + 2) \in DOMAIN txt
      BY <1>1, <1>15, TextType
    <3>2. 0 \in 0 .. txt[k + 2].n
      BY <3>1, TextType
    <3>3. e \in Values(txt)
      BY <3>1, <3>2, ValueOf
    <3> HIDE DEF e
    <3> QED
      BY <1>3, <3>3, ObjectOf, RelationOf DEF S
  <2> HIDE DEF e
  <2>3. SecondSplits(S, h1, l1, q1, c, o, None, None, second)
    <3>1. h1[q1] = Object(c, o, None, None, None) /\ Object(c, o, None, None, Left(second)) \in S
      BY <1>9, <1>13, <2>1
    <3>2. Relation(Right(second)) \in S /\ IsBinOp(second)
      BY <2>1, <2>2
    <3> QED
      BY ONLY <1>13, <3>1, <3>2, SecondSplitSays
  <2>4. PICK h, q, l :
          /\ Second(State(h1, q1, l1), second) = State(h, q, l)
          /\ h \in Seq(S) /\ l \in Seq(DOMAIN h) /\ q \in DOMAIN h
          /\ h[q] = Relation(e)
          /\ \A j \in DOMAIN l : l[j] # q
          /\ Kept(h, l) = Upto(txt, k) \cup Says(z)
    BY <1>13, <2>1, <2>3 DEF SecondSplits
  <2>5. Kept(h, l) = Upto(txt, k + 1)
    BY <1>6, <1>10, <1>15, <2>4
  <2>6. Ready(txt, h, q, l, k + 2)
    <3>1. (k + 2) - 1 = k + 1
      BY <1>1
    <3> QED
      BY <2>4, <2>5, <3>1 DEF Ready, e
  <2> QED
    BY <1>14, <1>15, <2>4, <2>5, <2>6 DEF m, S
<1>16. CASE ~(txt[k + 1].n = 1 /\ k + 1 < Len(txt))
  <2>1. second = Sides(txt, k + 1, 1) /\ k + 1 = Len(txt)
    BY <1>1, <1>2, <1>7, <1>16 DEF second
  <2>2. ~IsBinOp(second) /\ Whole(second) = d
    BY <1>12, <2>1
  <2>3. SecondEnds(S, h1, l1, q1, c, o, None, None, second)
    <3>1. h1[q1] = Object(c, o, None, None, None) /\ Object(c, o, None, None, Whole(second)) \in S
      BY <1>9, <1>13, <2>2
    <3> QED
      BY ONLY <1>13, <2>2, <3>1, SecondWholeSays
  <2>4. PICK h, l :
          /\ Second(State(h1, q1, l1), second) = State(h, q1, l)
          /\ h \in Seq(S) /\ l \in Seq(DOMAIN h) /\ q1 \in DOMAIN h
          /\ h[q1] = z
          /\ \E j \in DOMAIN l : l[j] = q1
          /\ Others(h, l, q1) = Upto(txt, k)
          /\ Kept(h, l) = Upto(txt, k) \cup Says(z)
    BY <1>13, <2>2, <2>3 DEF SecondEnds
  <2>5. txt[k + 1].n = 1 => Kept(h, l) = Upto(txt, k + 1)
    BY <1>6, <1>10, <2>4
  <2>6. AtHalf(txt, h, q1, l, k + 1)
    <3>1. (k + 1) - 1 = k
      BY <1>1
    <3>2. z = Half(txt, k + 1)
      BY DEF Object, Half, c, d, o
    <3> HIDE DEF z
    <3> QED
      BY <2>4, <3>1, <3>2 DEF AtHalf
  <2> QED
    BY <1>14, <1>16, <2>1, <2>4, <2>5, <2>6 DEF m, S
<1> QED
  BY <1>15, <1>16

-----------------------------------------------------------------------------
(***************************************************************************)
(* The invariant is inductive.                                             *)
(***************************************************************************)
\* Where a loop that takes two comparisons at a time stands.
LEMMA PairedOf ==
    ASSUME NEW c \in Nat, NEW m \in Nat, m % 2 = 0
    PROVE  /\ (m + 2) % 2 = 0
           /\ c - (c % 2) \in Nat
           /\ c % 2 = 0 => c - (c % 2) = c
           /\ c % 2 # 0 => c % 2 = 1 /\ c - (c % 2) = c - 1
           /\ m <= c - 1 => m <= c - (c % 2)
           /\ m <= c - 1 /\ m = c - (c % 2) => m = c - 1 /\ c % 2 = 1
           /\ m < c - (c % 2) => m + 2 <= c
OBVIOUS

\* Before constraint k, in an even place: another turn is to come, or k is the last
\* constraint and its only comparison remains.
LEMMA ReadyAgain ==
    ASSUME NEW txt \in Text, MaxConstraints \in Nat, MaxComparisons \in Nat, NEW k \in DOMAIN txt,
           Offset(txt, k) % 2 = 0
    PROVE  LET c == Comparisons(txt)
               p == c - (c % 2)
           IN  /\ Offset(txt, k) # p => Offset(txt, k) < p
               /\ Offset(txt, k) = p => /\ c % 2 = 1 /\ Offset(txt, k) = c - 1
                                        /\ k = Len(txt) /\ txt[k].n = 1
<1> DEFINE c == Comparisons(txt)  m == Offset(txt, k)  p == c - (c % 2)
<1>1. /\ m \in Nat /\ c \in Nat /\ k \in Int /\ Len(txt) \in Nat /\ k <= Len(txt)
      /\ txt[k].n \in Nat \ {0}
  BY OffsetNext, ComparisonsOf, TextType
<1>2. /\ k = Len(txt) => c = m + txt[k].n
      /\ k < Len(txt) => c >= m + txt[k].n + 1
  BY ComparisonsOf
<1> HIDE DEF c, m
<1>3. m <= c - 1
  BY <1>1, <1>2
<1>4. m % 2 = 0
  BY DEF m
<1>5. m <= p /\ (m = p => m = c - 1 /\ c % 2 = 1) /\ p \in Nat
  BY <1>1, <1>3, <1>4, PairedOf
<1>6. ASSUME m = p
      PROVE  k = Len(txt) /\ txt[k].n = 1
  BY <1>1, <1>2, <1>5, <1>6
<1> HIDE DEF p
<1>7. m # p => m < p
  BY <1>1, <1>5
<1> QED
  BY <1>5, <1>6, <1>7 DEF c, m, p

\* The types of relation and of the list.
LEMMA ListType ==
    ASSUME NEW S, NEW hp \in Seq(S), NEW list \in Seq(DOMAIN hp), NEW r \in DOMAIN hp \cup {0}
    PROVE  r \in 0 .. Len(hp) /\ \A j \in DOMAIN list : list[j] \in DOMAIN hp
<1>1. DOMAIN hp = 1 .. Len(hp) /\ Len(hp) \in Nat
  OBVIOUS
<1>2. \A j \in DOMAIN list : list[j] \in DOMAIN hp
  OBVIOUS
<1> QED
  BY <1>1, <1>2

\* The parser begins in the invariant.
LEMMA InitInvariant ==
    ASSUME ~AnyShape, Init
    PROVE  IInv
<1>1. text \in Text /\ Fits(text)
  BY DEF Init
<1>2. heap \in Seq(Objects(text)) /\ relations \in Seq(DOMAIN heap)
  BY DEF Init
<1>3. TypeOK
  BY <1>2 DEF Init, TypeOK
<1> QED
  BY <1>1, <1>2, <1>3 DEF Init, IInv, Objected, Standing

\* The first relation holds the first operand of the text.
LEMMA StartInvariant ==
    ASSUME MaxConstraints \in Nat, MaxComparisons \in Nat, IInv, Start
    PROVE  IInv'
<1> DEFINE x == Relation(Operand(text, 1, 0))
<1>1. /\ text \in Text /\ Fits(text) /\ n = 0 /\ relations = <<>>
      /\ heap' = <<x>> /\ relation' = 1 /\ relations' = <<>> /\ n' = 0 /\ text' = text
      /\ pc' = IF Paired = 0 THEN "rest" ELSE "pairs"
  BY DEF IInv, Objected, Standing, Start
<1>2. 1 \in DOMAIN text /\ Len(text) \in DOMAIN text
  BY <1>1, TextType
<1>3. x \in Objects(text)
  <2>1. 0 \in 0 .. text[1].n
    BY <1>1, <1>2, TextType
  <2>2. Operand(text, 1, 0) \in Values(text) /\ None \in Values(text)
    BY <1>1, <1>2, <2>1, ValueOf
  <2> QED
    BY <2>2, ObjectOf, RelationOf
<1> HIDE DEF x
<1>4. heap' \in Seq(Objects(text')) /\ relations' \in Seq(DOMAIN heap')
  BY <1>1, <1>3
<1>5. Ready(text, <<x>>, 1, <<>>, 1)
  <2>1. Kept(<<x>>, <<>>) = {}
    BY DEF Kept
  <2>2. Upto(text, 1 - 1) = {}
    BY <1>1, <1>2, UptoNext
  <2> QED
    <3>1. 1 \in DOMAIN <<x>> /\ <<x>>[1] = x
      OBVIOUS
    <3>2. \A j \in DOMAIN <<>> : <<>>[j] # 1
      OBVIOUS
    <3>3. x = Relation(Operand(text, 1, 0))
      BY DEF x
    <3> QED
      BY <2>1, <2>2, <3>1, <3>2, <3>3 DEF Ready
<1>6. Offset(text, 1) = 0 /\ Offset(text, 1) % 2 = 0
  BY <1>1, <1>2, OffsetNext
<1>7. Fresh(1)'
  BY <1>1, <1>5, <1>6 DEF Fresh
<1>8. /\ Paired # 0 => 0 < Paired
      /\ Paired = 0 => Comparisons(text) % 2 = 1 /\ 0 = Comparisons(text) - 1 /\ 1 = Len(text) /\ text[1].n = 1
  BY <1>1, <1>2, <1>6, ReadyAgain DEF Paired
<1>9. Paired' = Paired /\ Comparisons(text') = Comparisons(text)
  BY <1>1 DEF Paired
<1>10. Standing'
  <2>1. CASE Paired = 0
    <3>1. pc' = "rest"
      BY <1>1, <2>1
    <3>2. Comparisons(text)' % 2 = 1 /\ n' = Comparisons(text)' - 1 /\ (text[Len(text)].n = 1)' /\ Fresh(Len(text))'
      BY <1>1, <1>7, <1>8, <1>9, <2>1
    <3> QED
      BY <3>1, <3>2 DEF Standing
  <2>2. CASE Paired # 0
    <3>1. pc' = "pairs"
      BY <1>1, <2>2
    <3>2. n' % 2 = 0 /\ (n < Paired)' /\ (\E k \in DOMAIN text : Fresh(k))'
      BY <1>1, <1>2, <1>7, <1>8, <1>9, <2>2
    <3> QED
      BY <3>1, <3>2 DEF Standing
  <2> QED
    BY <2>1, <2>2
<1>11. TypeOK'
  <2>1. relation' \in DOMAIN heap' \cup {0}
    BY <1>1
  <2>2. pc' \in {"start", "pairs", "rest", "done"}
    BY <1>1
  <2> QED
    BY <1>4, <2>1, <2>2, ListType DEF TypeOK
<1> QED
  BY <1>1, <1>4, <1>10, <1>11 DEF IInv, Objected

\* A turn ends before the next constraint, at the end of the text or halfway in its last
\* constraint.
LEMMA PairInvariant ==
    ASSUME MaxConstraints \in Nat, MaxComparisons \in Nat, IInv, Pair
    PROVE  IInv'
<1> DEFINE c == Comparisons(text)  p == c - (c % 2)
<1>1. /\ text \in Text /\ Fits(text) /\ heap \in Seq(Objects(text)) /\ relations \in Seq(DOMAIN heap)
      /\ n % 2 = 0 /\ n < p
  BY DEF IInv, Objected, Standing, Pair, Paired
<1>2. PICK k \in DOMAIN text : n = Offset(text, k) /\ Ready(text, heap, relation, relations, k)
  BY DEF IInv, Standing, Pair, Fresh
<1>3. /\ text' = text /\ n' = n + 2 /\ pc' = IF n + 2 = p THEN "rest" ELSE "pairs"
      /\ \A h, q, l : Turn(text, heap, relation, relations, n) = State(h, q, l)
            => heap' = h /\ relation' = q /\ relations' = l
  BY DEF Pair, Turn, State, Paired
<1>4. /\ c \in Nat /\ n \in Nat /\ k \in Int /\ Len(text) \in Nat /\ k <= Len(text)
      /\ text[k].n \in {1, 2}
      /\ k = Len(text) => c = n + text[k].n
      /\ k < Len(text) => (k + 1) \in DOMAIN text /\ Offset(text, k + 1) = n + text[k].n
  <2>1. k \in Int /\ Len(text) \in Nat /\ k <= Len(text) /\ text[k].n \in {1, 2}
    BY <1>1, TextType, FitsOf
  <2>2. n \in Nat /\ Offset(text, k + 1) = n + text[k].n
    BY <1>1, <1>2, OffsetNext
  <2>3. /\ c \in Nat
        /\ k = Len(text) => c = n + text[k].n
        /\ k < Len(text) => (k + 1) \in DOMAIN text
    BY <1>1, <1>2, ComparisonsOf
  <2> HIDE DEF c
  <2> QED
    BY <2>1, <2>2, <2>3
<1>5. /\ (n + 2) % 2 = 0 /\ n + 2 <= c
      /\ c % 2 = 0 => p = c
      /\ c % 2 # 0 => c % 2 = 1 /\ p = c - 1
  BY <1>1, <1>4, PairedOf
<1>6. Paired' = p /\ Comparisons(text)' = c /\ Written(text)' = Written(text)
  BY <1>3 DEF Paired
<1> HIDE DEF c, p
\* The type of what a turn leaves.
<1>7. ASSUME NEW h, NEW q, NEW l,
             Turn(text, heap, relation, relations, n) = State(h, q, l),
             h \in Seq(Objects(text)), l \in Seq(DOMAIN h), q \in DOMAIN h,
             Standing'
      PROVE  IInv'
  <2>1. heap' = h /\ relation' = q /\ relations' = l
    BY <1>3, <1>7
  <2>2. Objected'
    BY <1>1, <1>3, <1>7, <2>1 DEF Objected
  <2>3. relation' \in 0 .. Len(heap') /\ \A j \in DOMAIN relations' : relations'[j] \in DOMAIN heap'
    BY <1>7, <2>1, ListType
  <2>4. TypeOK'
    BY <1>3, <2>3 DEF TypeOK
  <2> QED
    BY <1>7, <2>2, <2>4 DEF IInv
\* Where it stands, if it is before another constraint.
<1>8. ASSUME NEW m \in DOMAIN text, Offset(text, m) = n + 2, Fresh(m)'
      PROVE  Standing'
  <2>1. /\ n + 2 # p => n + 2 < p
        /\ n + 2 = p => c % 2 = 1 /\ n + 2 = c - 1 /\ m = Len(text) /\ text[m].n = 1
    BY <1>1, <1>5, <1>8, ReadyAgain DEF c, p
  <2>2. CASE n + 2 = p
    <3>1. pc' = "rest"
      BY <1>3, <2>2
    <3>2. /\ ~(Comparisons(text)' % 2 = 0)
          /\ n' = Comparisons(text)' - 1 /\ (text[Len(text)].n = 1)' /\ Fresh(Len(text))'
      BY <1>3, <1>6, <1>8, <2>1, <2>2
    <3> QED
      BY <3>1, <3>2 DEF Standing
  <2>3. CASE n + 2 # p
    <3>1. pc' = "pairs"
      BY <1>3, <2>3
    <3>2. n' % 2 = 0 /\ (n < Paired)' /\ (\E j \in DOMAIN text : Fresh(j))'
      BY <1>3, <1>5, <1>6, <1>8, <2>1, <2>3
    <3> QED
      BY <3>1, <3>2 DEF Standing
  <2> QED
    BY <2>2, <2>3
\* And at the end of the text.
<1>9. ASSUME c = n + 2, Parsed' = Upto(text, Len(text))
      PROVE  Standing'
  <2>1. c % 2 = 0 /\ p = n + 2
    BY <1>5, <1>9
  <2>2. pc' = "rest"
    BY <1>3, <2>1
  <2>3. Comparisons(text)' % 2 = 0 /\ Parsed' = Written(text)'
    BY <1>1, <1>2, <1>6, <1>9, <2>1, UptoNext
  <2> QED
    BY <2>2, <2>3 DEF Standing
<1>10. CASE text[k].n = 2
  <2>1. PICK h, q, l :
          /\ Turn(text, heap, relation, relations, n) = State(h, q, l)
          /\ h \in Seq(Objects(text)) /\ l \in Seq(DOMAIN h) /\ q \in DOMAIN h
          /\ Kept(h, l) = Upto(text, k)
          /\ k < Len(text) => Ready(text, h, q, l, k + 1)
    BY <1>1, <1>2, <1>10, TurnWithin
  <2>2. heap' = h /\ relation' = q /\ relations' = l
    BY <1>3, <2>1
  <2>3. CASE k < Len(text)
    <3>1. (k + 1) \in DOMAIN text /\ Offset(text, k + 1) = n + 2
      BY <1>4, <1>10, <2>3
    <3>2. Fresh(k + 1)'
      BY <1>3, <2>1, <2>2, <2>3, <3>1 DEF Fresh
    <3>3. Standing'
      BY <1>8, <3>1, <3>2
    <3> QED
      BY <1>7, <2>1, <3>3
  <2>4. CASE k = Len(text)
    <3>1. c = n + 2
      BY <1>4, <1>10, <2>4
    <3>2. Parsed' = Upto(text, Len(text))
      BY <2>1, <2>2, <2>4 DEF Parsed, Kept
    <3>3. Standing'
      BY <1>9, <3>1, <3>2
    <3> QED
      BY <1>7, <2>1, <3>3
  <2> QED
    BY <1>4, <2>3, <2>4
<1>11. CASE text[k].n = 1
  <2>1. k < Len(text)
    BY <1>4, <1>5, <1>11
  <2>2. PICK h, q, l :
          /\ Turn(text, heap, relation, relations, n) = State(h, q, l)
          /\ h \in Seq(Objects(text)) /\ l \in Seq(DOMAIN h) /\ q \in DOMAIN h
          /\ text[k + 1].n = 1 => Kept(h, l) = Upto(text, k + 1)
          /\ text[k + 1].n = 1 /\ k + 1 < Len(text) => Ready(text, h, q, l, k + 2)
          /\ text[k + 1].n = 2 => k + 1 = Len(text) /\ AtHalf(text, h, q, l, k + 1)
    BY <1>1, <1>2, <1>11, <2>1, TurnAcross
  <2>3. heap' = h /\ relation' = q /\ relations' = l
    BY <1>3, <2>2
  <2>4. /\ (k + 1) \in DOMAIN text /\ Offset(text, k + 1) = n + 1
        /\ text[k + 1].n \in {1, 2} /\ k + 1 <= Len(text)
        /\ k + 1 = Len(text) => c = (n + 1) + text[k + 1].n
    <3>1. (k + 1) \in DOMAIN text /\ Offset(text, k + 1) = n + 1
      BY <1>4, <1>11, <2>1
    <3>2. text[k + 1].n \in {1, 2}
      BY <1>1, <3>1, FitsOf
    <3>3. k + 1 = Len(text) => c = (n + 1) + text[k + 1].n
      BY <1>1, <3>1, ComparisonsOf DEF c
    <3> QED
      BY <1>4, <2>1, <3>1, <3>2, <3>3
  <2>5. CASE text[k + 1].n = 1 /\ k + 1 < Len(text)
    <3>1. (k + 2) \in DOMAIN text /\ Offset(text, k + 2) = n + 2
      <4>1. ((k + 1) + 1) \in DOMAIN text /\ Offset(text, (k + 1) + 1) = (n + 1) + 1
        <5>1. ((k + 1) + 1) \in DOMAIN text
          BY <1>1, <2>4, <2>5, ComparisonsOf
        <5>2. Offset(text, (k + 1) + 1) = Offset(text, k + 1) + text[k + 1].n
          BY <1>1, <2>4, OffsetNext
        <5> QED
          BY <2>4, <2>5, <5>1, <5>2
      <4>2. (k + 1) + 1 = k + 2 /\ (n + 1) + 1 = n + 2
        BY <1>4
      <4> QED
        BY <4>1, <4>2
    <3>2. Fresh(k + 2)'
      BY <1>3, <2>2, <2>3, <2>5, <3>1 DEF Fresh
    <3>3. Standing'
      BY <1>8, <3>1, <3>2
    <3> QED
      BY <1>7, <2>2, <3>3
  <2>6. CASE text[k + 1].n = 1 /\ k + 1 = Len(text)
    <3>1. c = n + 2
      BY <1>4, <2>4, <2>6
    <3>2. Parsed' = Upto(text, Len(text))
      BY <2>2, <2>3, <2>6 DEF Parsed, Kept
    <3>3. Standing'
      BY <1>9, <3>1, <3>2
    <3> QED
      BY <1>7, <2>2, <3>3
  <2>7. CASE text[k + 1].n = 2
    <3>1. k + 1 = Len(text) /\ AtHalf(text, h, q, l, Len(text)) /\ text[Len(text)].n = 2
      BY <2>2, <2>7
    <3>2. c = n + 3
      BY <1>4, <2>4, <2>7, <3>1
    <3>3. c % 2 = 1 /\ p = n + 2 /\ n + 2 = c - 1
      BY <1>4, <1>5, <3>2
    <3>4. pc' = "rest"
      BY <1>3, <3>3
    <3>5. Halfway'
      BY <1>3, <2>3, <3>1 DEF Halfway
    <3>6. ~(Comparisons(text)' % 2 = 0) /\ n' = Comparisons(text)' - 1
      BY <1>3, <1>6, <3>3
    <3>7. Standing'
      BY <3>4, <3>5, <3>6 DEF Standing
    <3> QED
      BY <1>7, <2>2, <3>7
  <2> QED
    BY <1>4, <2>4, <2>5, <2>6, <2>7
<1> QED
  BY <1>4, <1>10, <1>11

\* What remains after the loop is the last comparison, alone or the second of its
\* constraint.
LEMMA RestInvariant ==
    ASSUME MaxConstraints \in Nat, MaxComparisons \in Nat, IInv, Rest
    PROVE  IInv'
<1> DEFINE c == Comparisons(text)  k == Len(text)
<1>1. /\ text \in Text /\ Fits(text) /\ heap \in Seq(Objects(text)) /\ relations \in Seq(DOMAIN heap)
      /\ text' = text /\ pc' = "done" /\ relation' = relation
  BY DEF IInv, Objected, Rest
<1>2. Written(text)' = Written(text)
  BY <1>1
<1>3. CASE c % 2 = 0
  <2>1. heap' = heap /\ relations' = relations /\ Parsed = Written(text)
    BY <1>3 DEF Rest, IInv, Standing
  <2>2. Parsed' = Written(text)'
    BY <1>2, <2>1 DEF Parsed
  <2>3. Standing'
    BY <1>1, <2>2 DEF Standing
  <2>4. TypeOK' /\ Objected'
    BY <1>1, <2>1 DEF IInv, TypeOK, Objected
  <2> QED
    BY <2>3, <2>4 DEF IInv
<1>4. CASE c % 2 # 0
  <2> DEFINE cur == heap[relation]
             ready == IF cur.right # None THEN Between(cur, cur.right, Op(text, c))
                      ELSE [cur EXCEPT !.left_op = Op(text, c)]
             x == [ready EXCEPT !.right = Whole(Comparator(text, c))]
  <2>1. /\ heap' = [heap EXCEPT ![relation] = x] /\ relations' = Added(relations, relation)
        /\ (text[k].n = 1 /\ Fresh(k)) \/ Halfway
    BY <1>4 DEF Rest, IInv, Standing
  <2>2. /\ k \in DOMAIN text /\ c = Offset(text, k) + text[k].n
        /\ text[k].n \in 1 .. text[k].n /\ k \in Int /\ ~(k < k)
    <3>1. k \in DOMAIN text /\ k \in Int /\ text[k].n \in Nat \ {0}
      BY <1>1, TextType
    <3> QED
      BY <1>1, <3>1, ComparisonsOf
  <2>3. Op(text, c) = <<k, text[k].n>> /\ Whole(Comparator(text, c)) = Operand(text, k, text[k].n)
    BY <1>1, <2>2, ComparatorOf, SidesOf
  <2>4. /\ \A i \in 0 .. text[k].n : Operand(text, k, i) \in Values(text)
        /\ \A i \in 1 .. text[k].n : <<k, i>> \in Values(text)
        /\ None \in Values(text)
    BY <1>1, <2>2, ValueOf
  \* In both cases the object becomes one of the text, and says what was missing.
  <2>5. ASSUME x \in Objects(text), relation \in DOMAIN heap,
               Added(relations, relation) \in Seq(DOMAIN heap),
               Kept(heap', relations') = Upto(text, k)
        PROVE  IInv'
    <3>1. heap' \in Seq(Objects(text')) /\ DOMAIN heap' = DOMAIN heap
      <4> HIDE DEF x
      <4> QED
        BY <1>1, <2>1, <2>5
    <3>2. Objected'
      BY <1>1, <2>1, <2>5, <3>1 DEF Objected
    <3>3. relation' \in 0 .. Len(heap') /\ \A j \in DOMAIN relations' : relations'[j] \in DOMAIN heap'
      <4>1. relations' \in Seq(DOMAIN heap') /\ relation' \in DOMAIN heap'
        BY <1>1, <2>1, <2>5, <3>1
      <4> QED
        BY <3>1, <4>1, ListType
    <3>4. TypeOK'
      BY <1>1, <3>3 DEF TypeOK
    <3>5. Parsed' = Written(text)'
      BY <1>1, <1>2, <2>2, <2>5, UptoNext DEF Parsed, Kept
    <3>6. Standing'
      BY <1>1, <3>5 DEF Standing
    <3> QED
      BY <3>2, <3>4, <3>6 DEF IInv
  <2>6. CASE text[k].n = 1 /\ Fresh(k)
    <3> DEFINE a == Operand(text, k, 0)  b == Operand(text, k, 1)  o == <<k, 1>>
    <3>1. /\ relation \in DOMAIN heap /\ cur = Relation(a)
          /\ \A j \in DOMAIN relations : relations[j] # relation
          /\ Kept(heap, relations) = Upto(text, k - 1)
      BY <2>6 DEF Fresh, Ready
    <3>2. Op(text, c) = o /\ Whole(Comparator(text, c)) = b
      BY <2>3, <2>6
    <3>3. a \in Values(text) /\ b \in Values(text) /\ o \in Values(text) /\ None \in Values(text)
      BY <2>4, <2>6
    <3>4. Upto(text, k) = Upto(text, k - 1) \cup {<<a, o, b>>}
      <4>1. {Piece(text, k, i) : i \in 1 .. text[k].n} = {<<a, o, b>>}
        BY <2>6 DEF Piece
      <4> QED
        BY <1>1, <2>2, <4>1, UptoNext
    <3> HIDE DEF a, b, o, cur
    <3>5. ready = Object(a, o, None, None, None)
      BY <3>1, <3>2 DEF Relation, Object
    <3> HIDE DEF ready
    <3>6. x = Object(a, o, None, None, b)
      BY <3>2, <3>5 DEF Object
    <3> HIDE DEF x
    <3>7. x \in Objects(text) /\ Says(x) = {<<a, o, b>>}
      BY <3>3, <3>6, ObjectOf, SaysOf
    <3>8. /\ Added(relations, relation) \in Seq(DOMAIN heap)
          /\ Kept([heap EXCEPT ![relation] = x], Added(relations, relation)) = Kept(heap, relations) \cup Says(x)
      BY <1>1, <3>1, KeptAdded
    <3> QED
      BY <2>1, <2>5, <3>1, <3>4, <3>7, <3>8
  <2>7. CASE Halfway
    <3> DEFINE a == Operand(text, k, 0)  b == Operand(text, k, 1)  d == Operand(text, k, 2)
               o == <<k, 1>>  q == <<k, 2>>
    <3>1. /\ text[k].n = 2 /\ relation \in DOMAIN heap /\ cur = Object(a, o, None, None, b)
          /\ \E j \in DOMAIN relations : relations[j] = relation
          /\ Others(heap, relations, relation) = Upto(text, k - 1)
      BY <2>7 DEF Halfway, AtHalf, Half, Object
    <3>2. Op(text, c) = q /\ Whole(Comparator(text, c)) = d
      BY <2>3, <3>1
    <3>3. /\ a \in Values(text) /\ b \in Values(text) /\ d \in Values(text)
          /\ o \in Values(text) /\ q \in Values(text) /\ b # None
      BY <2>4, <3>1, SidesOf
    <3>4. Upto(text, k) = Upto(text, k - 1) \cup {<<a, o, b>>, <<b, q, d>>}
      <4>1. {Piece(text, k, i) : i \in 1 .. text[k].n} = {Piece(text, k, 1), Piece(text, k, 2)}
        <5>1. 1 .. text[k].n = {1, 2}
          BY <3>1
        <5> QED
          BY <5>1
      <4>2. Piece(text, k, 1) = <<a, o, b>> /\ Piece(text, k, 2) = <<b, q, d>>
        BY DEF Piece
      <4> QED
        BY <1>1, <2>2, <4>1, <4>2, UptoNext
    <3> HIDE DEF a, b, d, o, q, cur
    <3>5. ready = Object(a, o, b, q, b)
      BY <3>1, <3>2, <3>3 DEF Between, Object
    <3> HIDE DEF ready
    <3>6. x = Object(a, o, b, q, d)
      BY <3>2, <3>5 DEF Object
    <3> HIDE DEF x
    <3>7. x \in Objects(text) /\ Says(x) = {<<a, o, b>>, <<b, q, d>>}
      BY <3>3, <3>6, ObjectOf, SaysOf
    <3>8. /\ Added(relations, relation) = relations
          /\ Kept([heap EXCEPT ![relation] = x], relations)
               = Others(heap, relations, relation) \cup Says(x)
      BY <1>1, <3>1, KeptAgain
    <3> QED
      BY <1>1, <2>1, <2>5, <3>1, <3>4, <3>7, <3>8
  <2> QED
    BY <2>1, <2>6, <2>7
<1> QED
  BY <1>3, <1>4

\* Nothing changes.
LEMMA StutterInvariant ==
    ASSUME IInv, UNCHANGED vars
    PROVE  IInv'
<1>1. TypeOK'
  BY DEF IInv, vars, TypeOK
<1>2. Objected'
  BY DEF IInv, vars, Objected
<1>3. Standing'
  BY DEF IInv, vars, Standing, Paired, Parsed, Fresh, Halfway
<1> QED
  BY <1>1, <1>2, <1>3 DEF IInv

\* Under the assumptions on the bounds, every state of the parser satisfies the invariant.
LEMMA ParserInvariant ==
    ASSUME ~AnyShape, MaxConstraints \in Nat, MaxComparisons \in Nat
    PROVE  Spec => []IInv
<1>1. Init => IInv
  BY InitInvariant
<1>2. IInv /\ [Next]_vars => IInv'
  <2> SUFFICES ASSUME IInv, [Next]_vars
               PROVE  IInv'
    OBVIOUS
  <2>1. CASE Start
    BY <2>1, StartInvariant
  <2>2. CASE Pair
    BY <2>2, PairInvariant
  <2>3. CASE Rest
    BY <2>3, RestInvariant
  <2>4. CASE UNCHANGED vars
    BY <2>4, StutterInvariant
  <2> QED
    BY <2>1, <2>2, <2>3, <2>4 DEF Next
<1> QED
  BY <1>1, <1>2, PTL DEF Spec

-----------------------------------------------------------------------------
\* For expressions of any length and any number of comparisons that have the shapes
\* RelParser.visit_Compare handles, the relations it builds say exactly what is written:
\* no comparison is lost and none is made up.
THEOREM ComparisonsAreParsed ==
    ASSUME ~AnyShape, MaxConstraints \in Nat, MaxComparisons \in Nat
    PROVE  Spec => []ParsedAsWritten
<1>1. IInv => ParsedAsWritten
  BY DEF IInv, Standing, ParsedAsWritten
<1> QED
  BY <1>1, ParserInvariant, PTL

\* The parser's lists refer to relations that exist, always.
THEOREM ParserTypeCorrect ==
    ASSUME ~AnyShape, MaxConstraints \in Nat, MaxComparisons \in Nat
    PROVE  Spec => []TypeOK
<1>1. IInv => TypeOK
  BY DEF IInv
<1> QED
  BY <1>1, ParserInvariant, PTL
=============================================================================
