---------------------------- MODULE RelBodyProofs -----------------------------
(***************************************************************************)
(* Proofs about RelBody for every set of handles, addresses and points.    *)
(*                                                                         *)
(* RefExact is not inductive alone: a count only stays a natural number    *)
(* because the handle that is released was counted, and a body may only    *)
(* be shared because a finalized one has a formula.  Sound states all of   *)
(* it of a heap in the middle of an operation, so that each elementary     *)
(* step, a handle put elsewhere or a body written, is proved once.  During *)
(* is_definite_tautology the heap is sound without the Relation that it    *)
(* made on a body which may still be open (Asking).                        *)
(***************************************************************************)
EXTENDS RelBody, Integers, FiniteSetTheorems, TLAPS

Target == Body \cup {NullRel, Dead}

\* No relation of the program applies functions to its output tuple.
InputOnly == UFTuples \subseteq {"in"}

GoodBody == {c \in Rel_Body :
               /\ c.finalized => c.form # "none"
               /\ c.decl.Symbolic \subseteq UFTuples \cup {"in"}
               /\ InputOnly => c.formula.ufs \subseteq c.decl.Symbolic}

On(hp, b) == {h \in Handle : hp.held[h] = b}

HeapType == [held : [Handle -> Target], refs : [Body -> Nat]]

Sound(hp, bodies) ==
  /\ hp \in HeapType
  /\ \A b \in Body : hp.refs[b] = Cardinality(On(hp, b))
  /\ bodies \in [Body -> GoodBody \cup {NoBody}]
  /\ \A b \in Body : hp.refs[b] # 0 => bodies[b] \in GoodBody
  /\ \A b \in Body : hp.refs[b] > 1 => bodies[b].finalized

Allocated == \A b \in Body : ref_count[b] = 0 => body[b] = NoBody

\* Between the calls.
HeapInv == Sound(Heap, body) /\ Allocated

\* The heap without the Relation that is_definite_tautology made.
Released == [Heap EXCEPT !.refs = Decrement(@, temporary)]

\* During the call: this heap may have an open body that is counted twice, but
\* the released one is sound.
Asking == /\ temporary \in Body
          /\ ref_count \in [Body -> Nat]
          /\ Sound(Released, body) /\ Allocated
          /\ Released.refs[temporary] # 0
          /\ body[temporary].form = "dnf"

IInv == \/ temporary = Dead /\ HeapInv
        \/ Asking

-------------------------------------------------------------------------------
(* The inductive invariant is what it should be.                           *)
LEMMA NoBodyNotGood == NoBody \notin GoodBody
  BY NoBodyAssumption DEF GoodBody

LEMMA HeapInvImplies ==
  ASSUME temporary = Dead, HeapInv PROVE TypeOK /\ RefExact /\ SharedIsFinalized
<1>1. /\ rel_body \in [Handle -> Target] /\ ref_count \in [Body -> Nat]
      /\ \A b \in Body : ref_count[b] = Cardinality(Holders(b))
  BY DEF HeapInv, Sound, Heap, HeapType, On, Holders
<1>2. /\ body \in [Body -> GoodBody \cup {NoBody}]
      /\ \A b \in Body : ref_count[b] # 0 => body[b] \in GoodBody
      /\ \A b \in Body : ref_count[b] > 1 => body[b].finalized
      /\ \A b \in Body : ref_count[b] = 0 => body[b] = NoBody
  BY DEF HeapInv, Allocated, Sound, Heap
<1>3. TypeOK
  BY <1>1, <1>2 DEF TypeOK, Target, GoodBody
<1>4. RefExact
  <2>1. \A b \in Body : temporary # b
    BY BodyAssumption
  <2> QED BY <1>1, <1>2, <2>1, NoBodyNotGood DEF RefExact
<1>5. SharedIsFinalized
  BY <1>1, <1>2 DEF SharedIsFinalized, GoodBody
<1> QED BY <1>3, <1>4, <1>5

LEMMA AskingImplies ==
  ASSUME Asking PROVE TypeOK /\ RefExact /\ SharedIsFinalized
<1> DEFINE x == temporary
<1>1. /\ x \in Body
      /\ Released = [held |-> rel_body, refs |-> [ref_count EXCEPT ![x] = @ - 1]]
  BY DEF Asking, Released, Heap, Decrement
<1>2. rel_body \in [Handle -> Target] /\ ref_count \in [Body -> Nat]
  BY <1>1 DEF Asking, Sound, HeapType
<1>3. \A b \in Body : [ref_count EXCEPT ![x] = @ - 1][b] = Cardinality(Holders(b))
  BY <1>1 DEF Asking, Sound, On, Holders
<1>4. [ref_count EXCEPT ![x] = @ - 1][x] # 0
  BY <1>1 DEF Asking
<1>5. ref_count[x] \in Nat \ {0, 1}
  <2>1. [ref_count EXCEPT ![x] = @ - 1][x] \in Nat
    BY <1>1 DEF Asking, Sound, HeapType
  <2> QED BY <2>1, <1>1, <1>2, <1>4
<1>6. \A b \in Body : ref_count[b] = Cardinality(Holders(b)) + (IF x = b THEN 1 ELSE 0)
  BY <1>1, <1>2, <1>3, <1>5
<1>7. /\ body \in [Body -> GoodBody \cup {NoBody}]
      /\ \A b \in Body : ref_count[b] # 0 => body[b] \in GoodBody
      /\ \A b \in Body : ref_count[b] > 1 => body[b].finalized \/ b = x
      /\ \A b \in Body : ref_count[b] = 0 => body[b] = NoBody
  <2>1. \A b \in Body : b # x => Released.refs[b] = ref_count[b]
    BY <1>1
  <2>2. Released.refs[x] = ref_count[x] - 1
    BY <1>1, <1>2
  <2> QED BY <1>1, <1>2, <1>5, <2>1, <2>2 DEF Asking, Allocated, Sound
<1>8. TypeOK
  BY <1>1, <1>2, <1>7 DEF TypeOK, Target, GoodBody
<1>9. RefExact
  BY <1>6, <1>7, NoBodyNotGood DEF RefExact
<1>10. SharedIsFinalized
  BY <1>5, <1>7 DEF SharedIsFinalized, GoodBody, Asking
<1> QED BY <1>8, <1>9, <1>10

THEOREM IInvImplies == IInv => TypeOK /\ RefExact /\ SharedIsFinalized
  BY HeapInvImplies, AskingImplies DEF IInv

LEMMA InitIInv == Init => IInv
<1> SUFFICES ASSUME Init PROVE temporary = Dead /\ HeapInv
  BY DEF IInv
<1>1. Heap \in HeapType
  BY DEF Init, Heap, HeapType, Target
<1>2. ASSUME NEW b \in Body PROVE Cardinality(On(Heap, b)) = 0
  <2>1. On(Heap, b) = {}
    BY BodyAssumption DEF Init, On, Heap
  <2> QED BY <2>1, FS_EmptySet
<1> QED BY <1>1, <1>2 DEF Init, HeapInv, Allocated, Sound, Heap

-------------------------------------------------------------------------------
(* Elementary steps.                                                       *)

\* A handle that leaves y for x changes the number of handles on both.
LEMMA CountAfterPut ==
  ASSUME NEW hp \in HeapType, NEW h \in Handle, NEW x \in Target, NEW b \in Body
  PROVE  LET n == Cardinality(On(hp, b))
             n1 == Cardinality(On(Put(hp, h, x), b))
         IN  /\ n \in Nat
             /\ hp.held[h] = b => n > 0
             /\ n1 = (IF hp.held[h] = b THEN n - 1 ELSE n) + (IF x = b THEN 1 ELSE 0)
<1> DEFINE S == On(hp, b)
           S1 == On(Put(hp, h, x), b)
<1>1. IsFiniteSet(S)
  BY HandleAssumption, FS_Subset DEF On
<1>2. Cardinality(S) \in Nat
  BY <1>1, FS_CardinalityType
<1>3. S1 = (S \ {h}) \cup (IF x = b THEN {h} ELSE {})
  BY DEF On, Put, HeapType
<1>4. h \in S <=> hp.held[h] = b
  BY DEF On
<1>5. /\ IsFiniteSet(S \ {h})
      /\ Cardinality(S \ {h}) = IF h \in S THEN Cardinality(S) - 1 ELSE Cardinality(S)
  BY <1>1, FS_RemoveElement
<1>6. h \in S => Cardinality(S) > 0
  BY <1>1, <1>2, FS_EmptySet
<1>7. CASE x = b
  <2>1. S1 = (S \ {h}) \cup {h}
    BY <1>3, <1>7
  <2>2. Cardinality(S1) = Cardinality(S \ {h}) + 1
    BY <2>1, <1>5, FS_AddElement
  <2> QED BY <2>2, <1>2, <1>4, <1>5, <1>6, <1>7
<1>8. CASE x # b
  <2>1. S1 = S \ {h}
    BY <1>3, <1>8
  <2> QED BY <2>1, <1>2, <1>4, <1>5, <1>6, <1>8
<1> QED BY <1>7, <1>8

\* The counts that Put computes are those numbers.
LEMMA PutSound ==
  ASSUME NEW hp, NEW bodies, Sound(hp, bodies), NEW h \in Handle, NEW x \in Target,
         x \in Body => bodies[x] \in GoodBody,
         x \in Body /\ hp.refs[x] # 0 /\ hp.held[h] # x => bodies[x].finalized
  PROVE  Sound(Put(hp, h, x), bodies)
<1> DEFINE np == Put(hp, h, x)
<1>1. hp \in HeapType /\ hp.held[h] \in Target
  BY DEF Sound, HeapType
<1>2. \A b \in Body : hp.refs[b] \in Nat /\ hp.refs[b] = Cardinality(On(hp, b))
  BY DEF Sound, HeapType
<1>3. ASSUME NEW b \in Body
      PROVE  np.refs[b] = (IF hp.held[h] = b THEN hp.refs[b] - 1 ELSE hp.refs[b])
                            + (IF x = b THEN 1 ELSE 0)
  BY <1>1, <1>2 DEF Put, Increment, Decrement, HeapType
<1>4. ASSUME NEW b \in Body
      PROVE  /\ np.refs[b] \in Nat
             /\ np.refs[b] = Cardinality(On(np, b))
  BY <1>1, <1>2, <1>3, CountAfterPut
<1>5. np \in HeapType
  <2>1. np.held \in [Handle -> Target]
    BY <1>1 DEF Put, HeapType
  <2>2. Decrement(hp.refs, hp.held[h]) \in [Body -> Int]
    BY <1>1 DEF Decrement, HeapType
  <2>3. np.refs \in [Body -> Int]
    BY <2>2 DEF Put, Increment
  <2>4. np.refs \in [Body -> Nat]
    BY <2>3, <1>4
  <2> QED BY <2>1, <2>4 DEF Put, HeapType
<1>6. ASSUME NEW b \in Body, np.refs[b] # 0 PROVE bodies[b] \in GoodBody
  <2>1. hp.refs[b] # 0 \/ x = b
    <3> SUFFICES ASSUME hp.refs[b] = 0, x # b PROVE FALSE
      OBVIOUS
    <3>1. np.refs[b] = 0 \/ np.refs[b] = 0 - 1
      BY <1>3
    <3> QED BY <3>1, <1>4, <1>6
  <2> QED BY <2>1 DEF Sound
<1>7. ASSUME NEW b \in Body, np.refs[b] > 1 PROVE bodies[b].finalized
  <2>1. hp.refs[b] > 1 \/ (x = b /\ hp.refs[b] # 0 /\ hp.held[h] # b)
    BY <1>2, <1>3, <1>7
  <2> QED BY <2>1 DEF Sound
<1> QED BY <1>4, <1>5, <1>6, <1>7 DEF Sound

\* Writing a body that at most one handle is on, or one that may be shared.
LEMMA WriteSound ==
  ASSUME NEW hp, NEW bodies, Sound(hp, bodies), NEW x \in Body, NEW c \in GoodBody,
         hp.refs[x] > 1 => c.finalized
  PROVE  Sound(hp, [bodies EXCEPT ![x] = c])
  BY DEF Sound

LEMMA LeaveSound ==
  ASSUME NEW hp, NEW bodies, Sound(hp, bodies), Leave(hp, bodies)
  PROVE  HeapInv'
<1> DEFINE bs == [b \in Body |-> IF hp.refs[b] = 0 THEN NoBody ELSE bodies[b]]
<1>1. body' = bs /\ rel_body' = hp.held /\ ref_count' = hp.refs
  BY DEF Leave
<1>2. hp = [held |-> hp.held, refs |-> hp.refs]
  BY DEF Sound, HeapType
<1>3. Heap' = hp
  BY <1>1, <1>2 DEF Heap
<1>4. Sound(hp, bs)
  BY DEF Sound
<1>5. Sound(Heap', body')
  BY <1>1, <1>3, <1>4
<1>6. Sound(Heap, body)'
  BY <1>5 DEF Sound, On
<1> QED BY <1>1, <1>6 DEF HeapInv, Allocated

LEMMA KeepSound ==
  ASSUME HeapInv, NEW x \in Body, NEW c \in GoodBody,
         ref_count[x] > 1 => c.finalized, Keep([body EXCEPT ![x] = c])
  PROVE  HeapInv'
  BY WriteSound, LeaveSound DEF HeapInv, Keep, Heap

LEMMA AllocateSound ==
  ASSUME NEW hp, NEW bodies, Sound(hp, bodies), NEW h \in Handle, NEW c \in GoodBody,
         Allocate(hp, h, c, bodies)
  PROVE  HeapInv'
<1> DEFINE released == Put(hp, h, NullRel)
<1>1. PICK x \in Free(released) : Leave(Put(released, h, x), [bodies EXCEPT ![x] = c])
  BY DEF Allocate
<1>2. Sound(released, bodies)
  BY PutSound, BodyAssumption DEF Target
<1>3. x \in Body /\ released.refs[x] = 0
  BY DEF Free
<1>4. Sound(released, [bodies EXCEPT ![x] = c])
  BY <1>2, <1>3, WriteSound
<1>5. [bodies EXCEPT ![x] = c][x] \in GoodBody
  BY <1>2, <1>3 DEF Sound
<1>6. Sound(Put(released, h, x), [bodies EXCEPT ![x] = c])
  BY <1>3, <1>4, <1>5, PutSound DEF Target
<1> QED BY <1>1, <1>6, LeaveSound

-------------------------------------------------------------------------------
(* The data the operators compute are well formed.                         *)

LEMMA FormulaClosed ==
  ASSUME NEW f \in Formula, NEW g \in Formula, NEW t \in Argument_Tuple,
         NEW ctype \in Combine_Type
  PROVE  /\ Not(f) \in Formula /\ And(f, g) \in Formula /\ Or(f, g) \in Formula
         /\ Combine(ctype, f, g) \in Formula
         /\ UnknownAsFalse(f) \in Formula /\ UnknownAsTrue(f) \in Formula
         /\ Evacuate(f, t) \in Formula
         /\ ProjectFormula(f, t) \in Formula
<1>1. \A p, q \in Formula :
        Not(p) \in Formula /\ And(p, q) \in Formula /\ Or(p, q) \in Formula
  BY DEF Formula, Not, And, Or
<1>2. Combine(ctype, f, g) \in Formula
  <2>1. CASE ctype = "Comb_Or"
    BY <1>1, <2>1 DEF Combine
  <2>2. CASE ctype = "Comb_And"
    BY <1>1, <2>2 DEF Combine
  <2>3. CASE ctype = "Comb_AndNot"
    BY <1>1, <2>3 DEF Combine
  <2> QED BY <2>1, <2>2, <2>3 DEF Combine_Type
<1>3. UnknownAsFalse(f) \in Formula /\ UnknownAsTrue(f) \in Formula
  BY DEF Formula, UnknownAsFalse, UnknownAsTrue
<1>4. Evacuate(f, t) \in Formula
  BY DEF Formula, Evacuate, Other, Argument_Tuple
<1>5. ProjectFormula(f, t) \in Formula
  <2> DEFINE K(S) == {Kept[t][p] : p \in S}
  <2>1. \A S \in SUBSET Point : K(S) \in SUBSET Point
    BY KeptAssumption
  <2>2. K(f.must) \subseteq K(f.may)
    BY DEF Formula
  <2>3. K(f.must) \in SUBSET Point /\ K(f.may) \in SUBSET Point
    BY <2>1 DEF Formula
  <2>4. {IF u = Other(t) THEN "in" ELSE "out" : u \in f.ufs} \in SUBSET Argument_Tuple
    BY DEF Argument_Tuple
  <2> QED BY <2>2, <2>3, <2>4 DEF Formula, ProjectFormula
<1> QED BY <1>1, <1>2, <1>3, <1>4, <1>5

LEMMA DeclClosed ==
  ASSUME NEW d \in Decl, NEW e \in Decl, NEW f \in Formula, NEW t \in Argument_Tuple
  PROVE  MergeDecls(d, e) \in Decl /\ ProjectDecl(d, f, t) \in Decl
<1>1. MergeNames(d.names, e.names) \in Name
  BY NameAssumption DEF MergeNames, Decl
<1>2. MergeDecls(d, e) \in Decl
  BY <1>1 DEF Decl, MergeDecls
<1>3. ProjectDecl(d, f, t) \in Decl
  BY DEF Decl, ProjectDecl, Kind, Argument_Tuple
<1> QED BY <1>2, <1>3

\* What the operators do to the tuples that functions are applied to.
LEMMA CombineUfs ==
  ASSUME NEW f, NEW g, NEW ctype \in Combine_Type
  PROVE  Combine(ctype, f, g).ufs = f.ufs \cup g.ufs
<1>1. CASE ctype = "Comb_Or"
  BY <1>1 DEF Combine, Or
<1>2. CASE ctype = "Comb_And"
  BY <1>2 DEF Combine, And
<1>3. CASE ctype = "Comb_AndNot"
  BY <1>3 DEF Combine, And, Not
<1> QED BY <1>1, <1>2, <1>3 DEF Combine_Type

LEMMA PartitionUfs ==
  ASSUME NEW f, NEW fg \in Partitions(f)
  PROVE  fg[1].ufs \subseteq f.ufs /\ fg[2].ufs \subseteq f.ufs
  BY DEF Partitions, Or

\* Of functions of the input tuple only, the projection declares those it keeps.
LEMMA ProjectUfs ==
  ASSUME NEW d \in Decl, NEW f \in Formula, NEW t \in Argument_Tuple,
         d.Symbolic \subseteq {"in"}, f.ufs \subseteq d.Symbolic
  PROVE  /\ ProjectFormula(f, t).ufs \subseteq ProjectDecl(d, f, t).Symbolic \/ t = "in"
         /\ ProjectFormula(Evacuate(f, t), t).ufs \subseteq ProjectDecl(d, f, t).Symbolic
  BY DEF ProjectFormula, ProjectDecl, Evacuate, Other, Argument_Tuple, Formula

LEMMA ConstantFormulas == False \in Formula /\ True \in Formula
  BY DEF False, True, Formula

LEMMA SimplifiedGood ==
  ASSUME NEW c \in GoodBody
  PROVE  /\ Simplified(c) \in GoodBody
         /\ Simplified(c).form = "dnf"
         /\ c.finalized => Simplified(c).finalized
  BY ConstantFormulas DEF Simplified, GoodBody, Rel_Body, Form, False

-------------------------------------------------------------------------------
(* What the invariant says of the handles an operation is called on.       *)

\* A body that a handle is on is counted and well formed.
LEMMA SoundHeld ==
  ASSUME NEW hp, NEW bodies, Sound(hp, bodies), NEW h \in Handle, hp.held[h] \in Body
  PROVE  hp.refs[hp.held[h]] \in Nat \ {0} /\ bodies[hp.held[h]] \in GoodBody
<1>1. hp \in HeapType
  BY DEF Sound
<1>2. Cardinality(On(hp, hp.held[h])) > 0 /\ Cardinality(On(hp, hp.held[h])) \in Nat
  BY <1>1, CountAfterPut DEF Target
<1> QED BY <1>2 DEF Sound

LEMMA HeldBody ==
  ASSUME HeapInv, NEW h \in Handle, Holds(h)
  PROVE  /\ rel_body[h] \in Body
         /\ The(h) \in GoodBody
         /\ ref_count[rel_body[h]] \in Nat \ {0}
         /\ ref_count[rel_body[h]] > 1 => The(h).finalized
<1>1. Heap.held = rel_body /\ Heap.refs = ref_count /\ rel_body[h] \in Body
  BY DEF Heap, Holds
<1>2. ref_count[rel_body[h]] \in Nat \ {0} /\ The(h) \in GoodBody
  BY <1>1, SoundHeld DEF HeapInv, The
<1> QED BY <1>1, <1>2 DEF HeapInv, Sound, The

LEMMA HeapSound == ASSUME HeapInv PROVE Sound(Heap, body)
  BY DEF HeapInv

LEMMA ConsumedSound ==
  ASSUME NEW bodies, Sound(Heap, bodies), NEW a \in Handle, NEW b \in Handle
  PROVE  Sound(Consumed(a, b), bodies)
  BY PutSound, BodyAssumption DEF Consumed, Target

LEMMA ReturnSound ==
  ASSUME NEW bodies, Sound(Heap, bodies), NEW h \in Handle, NEW a \in Handle,
         NEW b \in Handle, NEW c \in GoodBody, Return(h, a, b, c, bodies)
  PROVE  HeapInv'
  BY ConsumedSound, AllocateSound DEF Return

LEMMA SplitAndWriteSound ==
  ASSUME HeapInv, NEW h \in Handle, Holds(h), NEW c \in GoodBody, SplitAndWrite(h, c)
  PROVE  HeapInv'
<1>1. PICK x \in Split(h) : Leave(Put(Heap, h, x), [body EXCEPT ![x] = c])
  BY DEF SplitAndWrite
<1>2. x \in Body /\ (x = rel_body[h] \/ Heap.refs[x] = 0) /\ ~(Heap.refs[x] > 1)
  BY <1>1, HeldBody DEF Split, Free, Heap
<1>3. Sound(Heap, [body EXCEPT ![x] = c])
  BY <1>2, WriteSound, HeapSound
<1>4. [body EXCEPT ![x] = c][x] \in GoodBody
  BY <1>2 DEF HeapInv, Sound
<1>5. Sound(Put(Heap, h, x), [body EXCEPT ![x] = c])
  BY <1>2, <1>3, <1>4, PutSound DEF Target, Heap
<1> QED BY <1>1, <1>5, LeaveSound

-------------------------------------------------------------------------------
(* One lemma per operation.                                                *)

LEMMA NewNullStep == ASSUME HeapInv, NEW h \in Handle, NewNull(h) PROVE HeapInv'
  BY HeapSound, PutSound, LeaveSound, BodyAssumption DEF NewNull, Target

LEMMA NewStep ==
  ASSUME HeapInv, NEW h \in Handle, NEW d \in Decl, New(h, d) PROVE HeapInv'
<1> DEFINE c == [decl |-> d, finalized |-> FALSE, form |-> "none", formula |-> False]
<1>1. c \in GoodBody
  BY ConstantFormulas DEF GoodBody, Rel_Body, Form, New, False
<1>2. Allocate(Heap, h, c, body)
  BY DEF New
<1> QED BY <1>1, <1>2, HeapSound, AllocateSound

LEMMA CopyIntoStep ==
  ASSUME HeapInv, NEW h \in Handle, NEW r \in Handle, Alive(r), CopyInto(h, r)
  PROVE  HeapInv'
<1>1. rel_body[r] = NullRel \/ Holds(r)
  BY DEF Alive, Holds, HeapInv, Sound, Heap, HeapType, Target
<1>2. CASE rel_body[r] = NullRel
  BY <1>2, HeapSound, PutSound, LeaveSound, BodyAssumption DEF CopyInto, Target
<1>3. CASE Holds(r) /\ The(r).finalized
  <2>1. Sound(Put(Heap, h, rel_body[r]), body)
    BY <1>3, HeldBody, HeapSound, PutSound DEF Target, The
  <2> QED BY <1>3, <2>1, LeaveSound DEF CopyInto
<1>4. CASE Holds(r) /\ ~The(r).finalized
  <2>1. rel_body[r] # NullRel
    BY <1>4, BodyAssumption DEF Holds
  <2>2. Allocate(Heap, h, The(r), body)
    BY <1>4, <2>1 DEF CopyInto
  <2> QED BY <1>4, <2>2, HeldBody, HeapSound, AllocateSound
<1> QED BY <1>1, <1>2, <1>3, <1>4

LEMMA DestroyStep == ASSUME HeapInv, NEW h \in Handle, Destroy(h) PROVE HeapInv'
  BY HeapSound, PutSound, LeaveSound, BodyAssumption DEF Destroy, Target

LEMMA CopyConjunctStep ==
  ASSUME HeapInv, NEW h \in Handle, NEW r \in Handle, CopyConjunct(h, r) PROVE HeapInv'
<1>1. PICK c \in Conjuncts(The(r).formula) :
        Allocate(Heap, h, [The(r) EXCEPT !.formula = c], body)
  BY DEF CopyConjunct
<1>2. [The(r) EXCEPT !.formula = c] \in GoodBody
  BY HeldBody DEF CopyConjunct, Conjuncts, GoodBody, Rel_Body
<1> QED BY <1>1, <1>2, HeapSound, AllocateSound

LEMMA BuildStep ==
  ASSUME HeapInv, NEW h \in Handle, NEW f \in Formula, Build(h, f) PROVE HeapInv'
<1> DEFINE c == [The(h) EXCEPT !.form = "tree", !.formula = f]
<1>1. Holds(h) /\ ~The(h).finalized /\ Keep([body EXCEPT ![rel_body[h]] = c])
  BY DEF Build, The
<1>2. rel_body[h] \in Body /\ ~(ref_count[rel_body[h]] > 1)
  BY <1>1, HeldBody
<1>3. c \in GoodBody
  BY <1>1, HeldBody DEF GoodBody, Rel_Body, Form, Build
<1> QED BY <1>1, <1>2, <1>3, KeepSound

LEMMA FinalizeStep == ASSUME HeapInv, NEW h \in Handle, Finalize(h) PROVE HeapInv'
<1> DEFINE c == [The(h) EXCEPT !.finalized = TRUE]
<1>1. Holds(h) /\ The(h).form # "none" /\ Keep([body EXCEPT ![rel_body[h]] = c])
  BY DEF Finalize, The
<1>2. c \in GoodBody /\ c.finalized
  BY <1>1, HeldBody DEF GoodBody, Rel_Body
<1> QED BY <1>1, <1>2, HeldBody, KeepSound

LEMMA SimplifyStep == ASSUME HeapInv, NEW h \in Handle, Simplify(h) PROVE HeapInv'
<1>1. Holds(h) /\ Keep([body EXCEPT ![rel_body[h]] = Simplified(The(h))])
  BY DEF Simplify, The
<1> QED BY <1>1, HeldBody, SimplifiedGood, KeepSound

LEMMA AndWithStep == ASSUME HeapInv, NEW h \in Handle, AndWith(h) PROVE HeapInv'
<1> DEFINE c == [The(h) EXCEPT !.form = "tree", !.finalized = FALSE,
                 !.formula = IF The(h).form = "none" THEN True ELSE @]
<1>1. Holds(h) /\ SplitAndWrite(h, c)
  BY DEF AndWith
<1>2. c \in GoodBody
  BY <1>1, HeldBody, ConstantFormulas DEF GoodBody, Rel_Body, Form, True
<1> QED BY <1>1, <1>2, SplitAndWriteSound

LEMMA GetLocalStep ==
  ASSUME HeapInv, NEW h \in Handle, NEW t \in UFTuples, GetLocal(h, t) PROVE HeapInv'
<1> DEFINE c == [The(h) EXCEPT !.decl.Symbolic = @ \cup {t}]
<1>1. Holds(h) /\ SplitAndWrite(h, c)
  BY DEF GetLocal
<1>2. c \in GoodBody
  BY <1>1, HeldBody, UsageAssumption DEF GoodBody, Rel_Body, Decl
<1> QED BY <1>1, <1>2, SplitAndWriteSound

LEMMA NameVarStep ==
  ASSUME HeapInv, NEW h \in Handle, NEW n \in Name, NameVar(h, n) PROVE HeapInv'
<1> DEFINE c == [The(h) EXCEPT !.decl.names = n]
<1>1. Holds(h) /\ SplitAndWrite(h, c)
  BY DEF NameVar
<1>2. c \in GoodBody
  BY <1>1, HeldBody DEF GoodBody, Rel_Body, Decl
<1> QED BY <1>1, <1>2, SplitAndWriteSound

LEMMA MakeLevelCarriedStep ==
  ASSUME HeapInv, NEW h \in Handle, MakeLevelCarried(h) PROVE HeapInv'
<1> DEFINE c == [The(h) EXCEPT !.form = "dnf"]
<1>1. Holds(h) /\ SplitAndWrite(h, c)
  BY DEF MakeLevelCarried
<1>2. c \in GoodBody
  BY <1>1, HeldBody DEF GoodBody, Rel_Body, Form
<1> QED BY <1>1, <1>2, SplitAndWriteSound

LEMMA RemoveFirstConjunctStep ==
  ASSUME HeapInv, NEW h \in Handle, RemoveFirstConjunct(h) PROVE HeapInv'
<1> DEFINE c(g) == [Simplified(The(h)) EXCEPT !.formula = g]
<1>1. PICK fg \in Formula \X Formula :
        /\ Keep([body EXCEPT ![rel_body[h]] = c(fg[2])])
        /\ fg[2].ufs \subseteq Simplified(The(h)).formula.ufs
  BY PartitionUfs DEF RemoveFirstConjunct, Partitions, The
<1>2. Holds(h)
  BY DEF RemoveFirstConjunct
<1>3. Simplified(The(h)) \in GoodBody
  BY <1>2, HeldBody, SimplifiedGood
<1>4. c(fg[2]) \in GoodBody /\ c(fg[2]).finalized = Simplified(The(h)).finalized
  BY <1>1, <1>3 DEF GoodBody, Rel_Body
<1> QED BY <1>1, <1>2, <1>4, HeldBody, SimplifiedGood, KeepSound

LEMMA ExtractStep ==
  ASSUME HeapInv, NEW h \in Handle, NEW r \in Handle, ExtractByCarriedLevel(h, r)
  PROVE  HeapInv'
<1> DEFINE d == [The(r) EXCEPT !.form = "dnf", !.finalized = TRUE]
           c(g) == [d EXCEPT !.formula = g]
<1>1. PICK fg \in Formula \X Formula, x \in Split(r) :
        /\ Allocate(Put(Heap, r, x), h, c(fg[2]), [body EXCEPT ![x] = c(fg[1])])
        /\ fg[1].ufs \subseteq The(r).formula.ufs /\ fg[2].ufs \subseteq The(r).formula.ufs
  BY PartitionUfs DEF ExtractByCarriedLevel, Partitions
<1>2. Holds(r)
  BY DEF ExtractByCarriedLevel
<1>3. x \in Body
  BY <1>1, <1>2, HeldBody DEF Split, Free
<1>4. c(fg[1]) \in GoodBody /\ c(fg[1]).finalized /\ c(fg[2]) \in GoodBody
  BY <1>1, <1>2, HeldBody DEF GoodBody, Rel_Body, Form
<1> DEFINE bodies == [body EXCEPT ![x] = c(fg[1])]
<1>5. Sound(Heap, bodies)
  BY <1>3, <1>4, HeapSound, WriteSound
<1>6. bodies[x] \in GoodBody /\ bodies[x].finalized
  BY <1>3, <1>4 DEF HeapInv, Sound
<1>7. Sound(Put(Heap, r, x), bodies)
  <2> HIDE DEF bodies
  <2> QED BY <1>3, <1>5, <1>6, PutSound DEF Target
<1> QED BY <1>1, <1>4, <1>7, AllocateSound

-------------------------------------------------------------------------------
LEMMA CombineStep ==
  ASSUME HeapInv, NEW h \in Handle, NEW a \in Handle, NEW b \in Handle,
         NEW ctype \in Combine_Type, Combine2(h, a, b, ctype)
  PROVE  HeapInv'
<1> DEFINE c == [decl |-> MergeDecls(The(a).decl, The(b).decl), finalized |-> TRUE,
                 form |-> "tree",
                 formula |-> Combine(ctype, The(a).formula, The(b).formula)]
<1>1. Holds(a) /\ Holds(b) /\ Return(h, a, b, c, body)
  BY DEF Combine2, Usable
<1>2. /\ The(a).decl \in Decl /\ The(b).decl \in Decl
      /\ The(a).formula \in Formula /\ The(b).formula \in Formula
  BY <1>1, HeldBody DEF GoodBody, Rel_Body
<1>3. MergeDecls(The(a).decl, The(b).decl) \in Decl
  BY <1>2, DeclClosed, ConstantFormulas DEF Argument_Tuple
<1>4. Combine(ctype, The(a).formula, The(b).formula) \in Formula
  BY <1>2, FormulaClosed DEF Argument_Tuple
<1>5. c.decl.Symbolic = The(a).decl.Symbolic \cup The(b).decl.Symbolic
  BY DEF MergeDecls
<1>6. c.formula.ufs = The(a).formula.ufs \cup The(b).formula.ufs
  BY CombineUfs
<1>7. The(a) \in GoodBody /\ The(b) \in GoodBody
  BY <1>1, HeldBody
<1>8. c \in GoodBody
  <2>1. c \in Rel_Body
    BY <1>3, <1>4 DEF Rel_Body, Form
  <2> QED BY <2>1, <1>5, <1>6, <1>7 DEF GoodBody
<1> QED BY <1>1, <1>8, HeapSound, ReturnSound

LEMMA ReturnOperandStep ==
  ASSUME HeapInv, NEW h \in Handle, NEW a \in Handle, NEW b \in Handle, NEW r \in {a, b},
         Alive(r), Holds(r) => Usable(r), ReturnOperand(h, a, b, r)
  PROVE  HeapInv'
<1>1. CASE ~Holds(r)
  <2>1. rel_body[r] = NullRel
    BY <1>1 DEF Alive, Holds, HeapInv, Sound, Heap, HeapType, Target
  <2>2. Sound(Put(Consumed(a, b), h, rel_body[r]), body)
    BY <2>1, HeapSound, ConsumedSound, PutSound, BodyAssumption DEF Target
  <2> QED BY <1>1, <2>2, LeaveSound DEF ReturnOperand
<1>2. CASE Holds(r)
  <2> DEFINE c == [The(r) EXCEPT !.finalized = TRUE]
             bodies == [body EXCEPT ![rel_body[r]] = c]
  <2>1. Leave(Put(Consumed(a, b), h, rel_body[r]), bodies)
    BY <1>2 DEF ReturnOperand, The
  <2>2. c \in GoodBody /\ c.finalized
    BY <1>2, HeldBody DEF Usable, GoodBody, Rel_Body
  <2>3. rel_body[r] \in Body
    BY <1>2, HeldBody
  <2>4. Sound(Consumed(a, b), bodies)
    BY <2>2, <2>3, HeapSound, WriteSound, ConsumedSound
  <2>5. bodies[rel_body[r]] \in GoodBody /\ bodies[rel_body[r]].finalized
    BY <2>2, <2>3 DEF HeapInv, Sound
  <2>6. Sound(Put(Consumed(a, b), h, rel_body[r]), bodies)
    <3> HIDE DEF bodies
    <3> QED BY <2>3, <2>4, <2>5, PutSound DEF Target
  <2> QED BY <2>1, <2>6, LeaveSound
<1> QED BY <1>1, <1>2

LEMMA CombineNullStep ==
  ASSUME HeapInv, NEW h \in Handle, NEW a \in Handle, NEW b \in Handle,
         NEW ctype \in Combine_Type, CombineNull(h, a, b, ctype)
  PROVE  HeapInv'
<1>1. PICK r \in {a, b} : ReturnOperand(h, a, b, r)
  BY DEF CombineNull
<1>2. Alive(r) /\ (Holds(r) => Usable(r))
  BY DEF CombineNull
<1> QED BY <1>1, <1>2, ReturnOperandStep

LEMMA CombineMismatchStep ==
  ASSUME HeapInv, NEW a \in Handle, NEW b \in Handle, CombineMismatch(a, b) PROVE HeapInv'
  BY HeapSound, ConsumedSound, LeaveSound DEF CombineMismatch

LEMMA UnaryStep ==
  ASSUME HeapInv, NEW h \in Handle, NEW a \in Handle,
         \/ Complement(h, a) \/ Lower_Bound(h, a) \/ Upper_Bound(h, a) \/ Approximate(h, a)
  PROVE  HeapInv'
<1>1. Holds(a)
  BY DEF Complement, Lower_Bound, Upper_Bound, Approximate, Usable
<1>2. The(a) \in GoodBody /\ The(a).formula \in Formula
  BY <1>1, HeldBody DEF GoodBody, Rel_Body
<1>3. CASE Complement(h, a)
  <2> DEFINE c == [The(a) EXCEPT !.finalized = TRUE, !.form = "tree", !.formula = Not(@)]
  <2>1. Not(The(a).formula) \in Formula
    BY <1>2, FormulaClosed DEF Argument_Tuple, Combine_Type
  <2>2. c \in GoodBody
    BY <1>2, <2>1 DEF GoodBody, Rel_Body, Form, Not
  <2> QED BY <1>3, <2>2, HeapSound, ReturnSound DEF Complement
<1>4. ASSUME NEW f \in Formula, f.ufs = The(a).formula.ufs, InDNF(h, a, f) PROVE HeapInv'
  <2> DEFINE c == [The(a) EXCEPT !.finalized = TRUE, !.form = "dnf", !.formula = f]
  <2>1. c \in GoodBody
    BY <1>2, <1>4 DEF GoodBody, Rel_Body, Form
  <2> QED BY <1>4, <2>1, HeapSound, ReturnSound DEF InDNF
<1>5. /\ UnknownAsFalse(The(a).formula) \in Formula
      /\ UnknownAsTrue(The(a).formula) \in Formula
  BY <1>2, FormulaClosed DEF Argument_Tuple, Combine_Type
<1>6. /\ UnknownAsFalse(The(a).formula).ufs = The(a).formula.ufs
      /\ UnknownAsTrue(The(a).formula).ufs = The(a).formula.ufs
  BY <1>2 DEF UnknownAsFalse, UnknownAsTrue, Formula
<1> QED BY <1>6, <1>3, <1>4, <1>5 DEF Lower_Bound, Upper_Bound, Approximate, Approximations

LEMMA ProjectStep ==
  ASSUME HeapInv, NEW h \in Handle, NEW a \in Handle, NEW t \in Argument_Tuple,
         Project(h, a, t)
  PROVE  HeapInv'
<1> DEFINE c == [decl |-> ProjectDecl(The(a).decl, The(a).formula, t), finalized |-> TRUE,
                 form |-> "tree", formula |-> ProjectFormula(ToProject(a, t), t)]
<1>1. Holds(a) /\ Return(h, a, a, c, Evacuated(a, t))
  BY DEF Project, Usable
<1>2. The(a) \in GoodBody /\ The(a).formula \in Formula /\ The(a).decl \in Decl
  BY <1>1, HeldBody DEF GoodBody, Rel_Body
<1>3. ToProject(a, t) \in Formula
  BY <1>2, FormulaClosed DEF ToProject, Combine_Type
<1>4. ProjectFormula(ToProject(a, t), t) \in Formula
  BY <1>3, FormulaClosed DEF Combine_Type
<1>5. c \in GoodBody
  <2>1. c \in Rel_Body
    BY <1>2, <1>4, DeclClosed DEF Rel_Body, Form
  <2>2. c.decl.Symbolic \subseteq {"in"}
    BY DEF ProjectDecl
  <2>3. ASSUME InputOnly PROVE c.formula.ufs \subseteq c.decl.Symbolic
    <3>1. The(a).decl.Symbolic \subseteq {"in"} /\ The(a).formula.ufs \subseteq The(a).decl.Symbolic
      BY <1>2, <2>3 DEF GoodBody, InputOnly
    <3>2. ToProject(a, t) = The(a).formula \/ ToProject(a, t) = Evacuate(The(a).formula, t)
      BY DEF ToProject
    <3>3. Evacuate(The(a).formula, t) = The(a).formula \/ t \in The(a).formula.ufs
      BY DEF Evacuate
    <3>4. ToProject(a, t) = Evacuate(The(a).formula, t)
      BY <3>1, <3>2, <3>3 DEF ToProject
    <3> QED BY <1>2, <3>1, <3>4, ProjectUfs
  <2> QED BY <2>1, <2>2, <2>3 DEF GoodBody
<1>6. Sound(Heap, Evacuated(a, t))
  <2> DEFINE d == Simplified(The(a))
             e == IF t = "out" THEN [d EXCEPT !.formula = Evacuate(@, t)] ELSE d
  <2>1. d \in GoodBody /\ (The(a).finalized => d.finalized)
    BY <1>2, SimplifiedGood
  <2>2. Evacuate(d.formula, t) \in Formula
    BY <2>1, FormulaClosed DEF GoodBody, Rel_Body, Combine_Type
  <2>3. Evacuated(a, t) = IF t \notin d.decl.Symbolic THEN body
                          ELSE [body EXCEPT ![rel_body[a]] = e]
    BY DEF Evacuated, The
  <2>4. CASE t \in d.decl.Symbolic
    <3>1. ~(t = "out" /\ InputOnly)
      BY <2>1, <2>4 DEF GoodBody, InputOnly
    <3>2. e \in GoodBody /\ e.finalized = d.finalized
      BY <2>1, <2>2, <3>1 DEF GoodBody, Rel_Body
    <3>3. Sound(Heap, [body EXCEPT ![rel_body[a]] = e])
      <4> HIDE DEF e
      <4> QED BY <1>1, <2>1, <3>2, HeldBody, HeapSound, WriteSound DEF Heap
    <3> QED BY <2>3, <2>4, <3>3
  <2> QED BY <2>3, <2>4, HeapSound
<1> QED BY <1>1, <1>5, <1>6, ReturnSound

-------------------------------------------------------------------------------
(* The theorems.                                                           *)

LEMMA OperationStep == ASSUME HeapInv, Operation PROVE HeapInv'
<1>1. PICK h \in Handle :
        \/ NewNull(h) \/ (\E d \in Decl : New(h, d)) \/ Destroy(h)
        \/ (\E f \in Formula : Build(h, f)) \/ Finalize(h) \/ Simplify(h)
        \/ AndWith(h) \/ (\E t \in UFTuples : GetLocal(h, t))
        \/ (\E n \in Name : NameVar(h, n)) \/ MakeLevelCarried(h)
        \/ RemoveFirstConjunct(h)
        \/ \E r \in Handle : \/ CopyConstruct(h, r) \/ Assign(h, r) \/ CopyConjunct(h, r)
                             \/ ExtractByCarriedLevel(h, r) \/ CombineMismatch(h, r)
        \/ \E a \in Handle : \/ Complement(h, a) \/ Lower_Bound(h, a)
                             \/ Upper_Bound(h, a) \/ Approximate(h, a)
                             \/ \E t \in Argument_Tuple : Project(h, a, t)
        \/ \E a, b \in Handle, ctype \in Combine_Type :
             Combine2(h, a, b, ctype) \/ CombineNull(h, a, b, ctype)
  BY DEF Operation
<1>2. ASSUME NEW r \in Handle, CopyConstruct(h, r) \/ Assign(h, r) PROVE HeapInv'
  BY <1>2, CopyIntoStep DEF CopyConstruct, Assign
<1> QED BY <1>1, <1>2, NewNullStep, NewStep, DestroyStep, BuildStep, FinalizeStep,
           SimplifyStep, AndWithStep, GetLocalStep, NameVarStep,
           MakeLevelCarriedStep, RemoveFirstConjunctStep, CopyConjunctStep, ExtractStep,
           CombineMismatchStep, UnaryStep, ProjectStep, CombineStep, CombineNullStep

LEMMA UpAndDown ==
  ASSUME NEW refs \in [Body -> Nat], NEW x \in Body
  PROVE  [[refs EXCEPT ![x] = @ + 1] EXCEPT ![x] = @ - 1] = refs
<1> DEFINE up == [refs EXCEPT ![x] = @ + 1]
           down == [up EXCEPT ![x] = @ - 1]
<1>1. up \in [Body -> Nat] /\ up[x] = refs[x] + 1
  OBVIOUS
<1>2. \A b \in Body \ {x} : up[b] = refs[b]
  OBVIOUS
<1> HIDE DEF up
<1>3. down \in [Body -> Int] /\ down[x] = up[x] - 1
  BY <1>1
<1>4. \A b \in Body \ {x} : down[b] = up[b]
  BY <1>1
<1> HIDE DEF down
<1>5. down[x] = refs[x]
  BY <1>1, <1>3
<1>6. down = refs
  BY <1>2, <1>3, <1>4, <1>5
<1> QED BY <1>6 DEF down, up

\* The second Relation is counted: without it the heap is as it was, but for
\* a body that is simplified now.
LEMMA AskingBegins ==
  ASSUME HeapInv, NEW h \in Handle, IsDefiniteTautology(h) PROVE Asking'
<1> DEFINE x == rel_body[h]
           c == Simplified(The(h))
<1>1. /\ x \in Body /\ The(h) \in GoodBody /\ The(h) = body[x]
      /\ ref_count[x] \in Nat \ {0} /\ (ref_count[x] > 1 => The(h).finalized)
  BY HeldBody DEF IsDefiniteTautology, The
<1>2. /\ body' = [body EXCEPT ![x] = c] /\ temporary' = x /\ rel_body' = rel_body
      /\ ref_count' = [ref_count EXCEPT ![x] = @ + 1]
  BY <1>1 DEF IsDefiniteTautology, Increment, The
<1>3. c \in GoodBody /\ c.form = "dnf" /\ (The(h).finalized => c.finalized)
  BY <1>1, SimplifiedGood
<1>4. ref_count \in [Body -> Nat]
  BY DEF HeapInv, Sound, HeapType, Heap
<1>5. Released' = Heap
  <2>1. [[ref_count EXCEPT ![x] = @ + 1] EXCEPT ![x] = @ - 1] = ref_count
    <3> HIDE DEF x, c
    <3> QED BY <1>1, <1>4, UpAndDown
  <2>2. Heap' = [held |-> rel_body, refs |-> ref_count']
    BY <1>2 DEF Heap
  <2> QED BY <1>1, <1>2, <2>1, <2>2 DEF Released, Decrement, Heap
<1>6. Sound(Heap, [body EXCEPT ![x] = c])
  <2> HIDE DEF c
  <2> QED BY <1>1, <1>3, HeapSound, WriteSound DEF Heap
<1>7. Sound(Released, body)'
  BY <1>2, <1>5, <1>6 DEF Sound, On
<1>8. Allocated'
  BY <1>1, <1>2, <1>4 DEF HeapInv, Allocated
<1>9. Released'.refs[x] # 0 /\ body'[x].form = "dnf"
  BY <1>1, <1>2, <1>3, <1>5 DEF Heap, HeapInv, Sound
<1>10. ref_count' \in [Body -> Nat]
  BY <1>1, <1>2, <1>4
<1> QED BY <1>1, <1>2, <1>7, <1>8, <1>9, <1>10 DEF Asking

LEMMA AskingEnds == ASSUME Asking, TautologyAnswered PROVE temporary' = Dead /\ HeapInv'
<1>1. /\ temporary' = Dead /\ rel_body' = rel_body /\ body' = body
      /\ ref_count' = Decrement(ref_count, temporary)
  BY DEF TautologyAnswered
<1>2. Heap' = Released
  BY <1>1 DEF Heap, Released
<1>3. Sound(Heap, body)'
  BY <1>1, <1>2 DEF Asking, Sound, On
<1>4. Allocated'
  <2> SUFFICES ASSUME NEW b \in Body, ref_count'[b] = 0 PROVE body[b] = NoBody
    BY <1>1 DEF Allocated
  <2>1. /\ Released.refs = ref_count' /\ temporary \in Body
    BY <1>1 DEF Released, Heap, Asking
  <2>2. b # temporary
    BY <2>1 DEF Asking
  <2>3. ref_count'[b] = ref_count[b]
    BY <1>1, <2>1, <2>2 DEF Decrement
  <2> QED BY <2>3 DEF Asking, Allocated
<1> QED BY <1>1, <1>3, <1>4 DEF HeapInv

\* No other call begins meanwhile, nor does one end that has not begun.
LEMMA NextCases ==
  ASSUME IInv, Next
  PROVE  \/ temporary = Dead /\ HeapInv /\ Operation /\ temporary' = Dead
         \/ temporary = Dead /\ HeapInv /\ \E h \in Handle : IsDefiniteTautology(h)
         \/ Asking /\ TautologyAnswered
<1>1. Asking => temporary # Dead
  BY BodyAssumption DEF Asking
<1> QED BY <1>1 DEF IInv, Next, IsDefiniteTautology, TautologyAnswered

LEMMA NextIInv == ASSUME IInv, [Next]_vars PROVE IInv'
<1>1. CASE UNCHANGED vars
  <2>1. Heap' = Heap /\ Released' = Released
    BY <1>1 DEF vars, Heap, Released
  <2>2. HeapInv => HeapInv'
    BY <1>1, <2>1 DEF vars, HeapInv, Allocated, Sound, On
  <2>3. Asking => Asking'
    BY <1>1, <2>1 DEF vars, Asking, Allocated, Sound, On
  <2> QED BY <1>1, <2>2, <2>3 DEF vars, IInv
<1>2. CASE Next
  BY <1>2, NextCases, OperationStep, AskingBegins, AskingEnds DEF IInv
<1> QED BY <1>1, <1>2

LEMMA Invariance == Spec => []IInv
<1>1. Init => IInv
  BY InitIInv
<1>2. IInv /\ [Next]_vars => IInv'
  BY NextIInv
<1> QED BY <1>1, <1>2, PTL DEF Spec

(* The state always has its type; in particular no count is ever negative. *)
THEOREM TypeCorrect == Spec => []TypeOK
  BY Invariance, IInvImplies, PTL

(* Every count is exact: nothing leaks and no Relation is on a deleted     *)
(* body, for any number of Relations and bodies, with every operation      *)
(* including those that damage what the other Relations mean.              *)
THEOREM CountsExact == Spec => []RefExact
  BY Invariance, IInvImplies, PTL

(* A body that several Relations are on has a formula and is finalized,    *)
(* unless is_definite_tautology made the second of them.                   *)
THEOREM SharingFinalized == Spec => []SharedIsFinalized
  BY Invariance, IInvImplies, PTL

(* A relation whose functions are applied to its input tuple only always   *)
(* declares the functions its formula uses: RelVar.cc, get_local, on one   *)
(* handle never leaves another one with an undeclared global variable.     *)
THEOREM FunctionsDeclared == ASSUME InputOnly PROVE Spec => []UFsDeclared
<1>1. HeapInv => UFsDeclared
  BY HeldBody DEF UFsDeclared, GoodBody
<1>2. Asking => UFsDeclared
  <2> SUFFICES ASSUME Asking, NEW h \in Handle, Holds(h) PROVE The(h) \in GoodBody
    BY DEF UFsDeclared, GoodBody
  <2>1. Released.held = rel_body /\ Sound(Released, body)
    BY DEF Asking, Released, Heap
  <2>2. rel_body[h] \in Body
    BY DEF Holds
  <2> QED BY <2>1, <2>2, SoundHeld DEF The
<1>3. IInv => UFsDeclared
  BY <1>1, <1>2 DEF IInv
<1> QED BY <1>3, Invariance, PTL

-----------------------------------------------------------------------------
(***************************************************************************)
(* No operation on one Relation damages another one on the same body,      *)
(* proved for every set of handles, addresses and points.                  *)
(*                                                                         *)
(* Two operations break it and are assumed away: Domain of a relation with *)
(* functions of its output tuple, and rm_first_conjunct on a shared body.  *)
(*                                                                         *)
(* The argument: a body written by the operation was, if it had several    *)
(* Relations on it, only given an equivalent representation; if it had one *)
(* or none, it does not have two Relations that were on it before.         *)
(***************************************************************************)

Careful == InputOnly /\ ~RemovesShared

\* What the two representations of a shared body have in common.
Same(c, d) == /\ c.decl = d.decl /\ c.formula = d.formula
              /\ c.form # "none" <=> d.form # "none"

OnlySettled(bodies) == \A b \in Body : ref_count[b] > 1 => Same(bodies[b], body[b])

Undamaged ==
  \A h, k \in Handle :
    h # k /\ Holds(h) /\ rel_body[h] = rel_body[k]
      /\ rel_body'[h] = rel_body[h] /\ rel_body'[k] = rel_body[k]
    => Denotation(h)' = Denotation(h)

HeapShape == [held : [Handle -> Target], refs : [Body -> Int]]

-------------------------------------------------------------------------------
\* Two handles on a body make a count of at least two.
LEMMA PairCounts ==
  ASSUME NEW hp, NEW bodies, Sound(hp, bodies),
         NEW h \in Handle, NEW k \in Handle, h # k,
         NEW b \in Body, hp.held[h] = b, hp.held[k] = b
  PROVE  hp.refs[b] > 1
<1> DEFINE S == On(hp, b)
<1>1. IsFiniteSet(S) /\ {h, k} \subseteq S
  BY HandleAssumption, FS_Subset DEF On
<1>2. Cardinality({h, k}) = 2
  <2>1. IsFiniteSet({h}) /\ Cardinality({h}) = 1
    BY FS_Singleton
  <2>2. Cardinality({h} \cup {k}) = 1 + 1
    BY <2>1, FS_AddElement
  <2>3. {h} \cup {k} = {h, k}
    OBVIOUS
  <2> QED BY <2>2, <2>3
<1>3. Cardinality({h, k}) <= Cardinality(S) /\ Cardinality(S) \in Nat
  BY <1>1, FS_Subset, FS_CardinalityType
<1>4. hp.refs[b] = Cardinality(S)
  BY DEF Sound
<1> QED BY <1>2, <1>3, <1>4

LEMMA PairBefore ==
  ASSUME HeapInv, NEW h \in Handle, NEW k \in Handle, h # k,
         NEW b \in Body, rel_body[h] = b, rel_body[k] = b
  PROVE  ref_count[b] > 1
  BY PairCounts DEF HeapInv, Heap

LEMMA PairAfter ==
  ASSUME HeapInv', NEW h \in Handle, NEW k \in Handle, h # k,
         NEW b \in Body, rel_body'[h] = b, rel_body'[k] = b
  PROVE  ref_count'[b] > 1
<1>1. Sound(Heap', body')
  BY DEF HeapInv, Sound, On
<1> QED BY <1>1, PairCounts DEF Heap

LEMMA HeapHasShape == ASSUME HeapInv PROVE Heap \in HeapShape
  BY DEF HeapInv, Sound, HeapType, HeapShape

LEMMA PutShape ==
  ASSUME NEW hp \in HeapShape, NEW h \in Handle, NEW x \in Target
  PROVE  Put(hp, h, x) \in HeapShape
<1>1. Decrement(hp.refs, hp.held[h]) \in [Body -> Int]
  BY DEF Decrement, HeapShape
<1>2. Put(hp, h, x).refs \in [Body -> Int]
  BY <1>1 DEF Put, Increment
<1>3. Put(hp, h, x).held \in [Handle -> Target]
  BY DEF Put, HeapShape
<1> QED BY <1>2, <1>3 DEF Put, HeapShape

LEMMA LeaveUndamaged ==
  ASSUME HeapInv, HeapInv', NEW hp, NEW bodies, OnlySettled(bodies), Leave(hp, bodies)
  PROVE  Undamaged
<1> SUFFICES ASSUME NEW h \in Handle, NEW k \in Handle,
                    h # k, Holds(h), rel_body[h] = rel_body[k],
                    rel_body'[h] = rel_body[h], rel_body'[k] = rel_body[k]
             PROVE  Denotation(h)' = Denotation(h)
  BY DEF Undamaged
<1> DEFINE b == rel_body[h]
<1>1. b \in Body /\ ref_count[b] > 1
  BY PairBefore DEF Holds
<1>2. ref_count'[b] > 1
  <2>1. rel_body'[h] = b /\ rel_body'[k] = b
    OBVIOUS
  <2> QED BY <1>1, <2>1, PairAfter
<1>3. body'[b] = bodies[b]
  BY <1>1, <1>2 DEF Leave
<1>4. Same(body'[b], body[b])
  BY <1>1, <1>3 DEF OnlySettled
<1>5. Holds(h)'
  BY <1>1 DEF Holds
<1> QED BY <1>4, <1>5 DEF Denotation, The, Same

LEMMA AllocateUndamaged ==
  ASSUME HeapInv, HeapInv', NEW hp \in HeapShape, NEW bodies, OnlySettled(bodies),
         NEW h \in Handle, NEW c, Allocate(hp, h, c, bodies)
  PROVE  Undamaged
<1> DEFINE released == Put(hp, h, NullRel)
<1>1. PICK x \in Free(released) : Leave(Put(released, h, x), [bodies EXCEPT ![x] = c])
  BY DEF Allocate
<1>2. released \in HeapShape /\ released.held[h] = NullRel
  BY PutShape DEF Target, Put, HeapShape
<1>3. x \in Body /\ released.refs[x] = 0
  BY DEF Free
<1>4. ref_count'[x] = 1
  <2>1. Put(released, h, x).refs = [released.refs EXCEPT ![x] = @ + 1]
    BY <1>2, <1>3, BodyAssumption DEF Put, Increment, Decrement
  <2> QED BY <1>1, <1>2, <1>3, <2>1 DEF Leave, HeapShape
<1> SUFFICES ASSUME NEW i \in Handle, NEW k \in Handle,
                    i # k, Holds(i), rel_body[i] = rel_body[k],
                    rel_body'[i] = rel_body[i], rel_body'[k] = rel_body[k]
             PROVE  Denotation(i)' = Denotation(i)
  BY DEF Undamaged
<1> DEFINE b == rel_body[i]
<1>5. b \in Body /\ ref_count[b] > 1
  BY PairBefore DEF Holds
<1>6. ref_count'[b] > 1
  <2>1. b \in Body /\ rel_body'[i] = b /\ rel_body'[k] = b
    BY <1>5
  <2> QED BY <2>1, PairAfter
<1>7. b # x
  BY <1>4, <1>6
<1>8. body'[b] = bodies[b]
  BY <1>1, <1>5, <1>6, <1>7 DEF Leave
<1>9. Same(body'[b], body[b])
  BY <1>5, <1>8 DEF OnlySettled
<1>10. Holds(i)'
  BY <1>5 DEF Holds
<1> QED BY <1>9, <1>10 DEF Denotation, The, Same

-------------------------------------------------------------------------------
(* What the operations write to the bodies that are shared when they begin. *)

LEMMA NothingWritten == OnlySettled(body)
  BY DEF OnlySettled, Same

LEMMA SettledWritten ==
  ASSUME HeapInv, NEW x \in Body, NEW c, ref_count[x] > 1 => Same(c, body[x])
  PROVE  OnlySettled([body EXCEPT ![x] = c])
  BY DEF OnlySettled, Same, HeapInv, Sound

LEMMA SimplifiedSame ==
  ASSUME NEW c \in GoodBody, c.finalized
  PROVE  Same(Simplified(c), c) /\ Same([Simplified(c) EXCEPT !.finalized = TRUE], c)
  BY DEF Simplified, Same, GoodBody, Rel_Body

LEMMA KeepUndamaged ==
  ASSUME HeapInv, HeapInv', NEW x \in Body, NEW c, ref_count[x] > 1 => Same(c, body[x]),
         Keep([body EXCEPT ![x] = c])
  PROVE  Undamaged
  BY SettledWritten, LeaveUndamaged DEF Keep

\* A body that split() hands out for writing has at most one handle.
LEMMA SplitAlone ==
  ASSUME HeapInv, NEW h \in Handle, Holds(h), NEW x \in Split(h)
  PROVE  x \in Body /\ ~(ref_count[x] > 1)
  BY HeldBody DEF Split, Free, Heap

LEMMA SplitAndWriteUndamaged ==
  ASSUME HeapInv, HeapInv', NEW h \in Handle, Holds(h), NEW c, SplitAndWrite(h, c)
  PROVE  Undamaged
<1>1. PICK x \in Split(h) : Leave(Put(Heap, h, x), [body EXCEPT ![x] = c])
  BY DEF SplitAndWrite
<1>2. OnlySettled([body EXCEPT ![x] = c])
  BY SplitAlone, SettledWritten
<1> QED BY <1>1, <1>2, LeaveUndamaged

LEMMA ConsumedShape ==
  ASSUME HeapInv, NEW a \in Handle, NEW b \in Handle PROVE Consumed(a, b) \in HeapShape
  BY HeapHasShape, PutShape DEF Consumed, Target

LEMMA ReturnUndamaged ==
  ASSUME HeapInv, HeapInv', NEW bodies, OnlySettled(bodies), NEW h \in Handle,
         NEW a \in Handle, NEW b \in Handle, NEW c, Return(h, a, b, c, bodies)
  PROVE  Undamaged
  BY ConsumedShape, AllocateUndamaged DEF Return

-------------------------------------------------------------------------------
(* The operations.                                                         *)

LEMMA HandlesUndamaged ==
  ASSUME HeapInv, HeapInv', NEW h \in Handle,
         \/ NewNull(h) \/ Destroy(h) \/ \E d \in Decl : New(h, d)
         \/ \E r \in Handle : CopyConstruct(h, r) \/ Assign(h, r) \/ CopyConjunct(h, r)
  PROVE  Undamaged
<1>1. CASE NewNull(h) \/ Destroy(h)
  BY <1>1, NothingWritten, LeaveUndamaged DEF NewNull, Destroy
<1>2. ASSUME NEW d \in Decl, New(h, d) PROVE Undamaged
  BY <1>2, HeapHasShape, NothingWritten, AllocateUndamaged DEF New
<1>3. ASSUME NEW r \in Handle, CopyInto(h, r) PROVE Undamaged
  BY <1>3, HeapHasShape, NothingWritten, LeaveUndamaged, AllocateUndamaged DEF CopyInto
<1>4. ASSUME NEW r \in Handle, CopyConjunct(h, r) PROVE Undamaged
  BY <1>4, HeapHasShape, NothingWritten, AllocateUndamaged DEF CopyConjunct
<1> QED BY <1>1, <1>2, <1>3, <1>4 DEF CopyConstruct, Assign

\* These work on the body itself: on a shared one they only settle it.
LEMMA SettlingUndamaged ==
  ASSUME HeapInv, HeapInv', NEW h \in Handle,
         \/ Finalize(h) \/ Simplify(h)
         \/ \E f \in Formula : Build(h, f)
  PROVE  Undamaged
<1> DEFINE x == rel_body[h]
<1>1. Holds(h) /\ x \in Body /\ The(h) \in GoodBody /\ The(h) = body[x]
  BY HeldBody DEF Finalize, Simplify, Build, The
<1>2. ref_count[x] > 1 => The(h).finalized
  BY <1>1, HeldBody
<1>3. CASE Finalize(h)
  <2> DEFINE c == [The(h) EXCEPT !.finalized = TRUE]
  <2>1. Keep([body EXCEPT ![x] = c])
    BY <1>3 DEF Finalize, The
  <2>2. Same(c, body[x])
    BY <1>1 DEF Same, GoodBody, Rel_Body
  <2> QED BY <1>1, <2>1, <2>2, KeepUndamaged
<1>4. CASE Simplify(h)
  <2>1. Keep([body EXCEPT ![x] = Simplified(The(h))])
    BY <1>4 DEF Simplify, The
  <2> QED BY <1>1, <1>2, <2>1, SimplifiedSame, KeepUndamaged
<1>5. ASSUME NEW f \in Formula, Build(h, f) PROVE Undamaged
  <2> DEFINE c == [The(h) EXCEPT !.form = "tree", !.formula = f]
  <2>1. Keep([body EXCEPT ![x] = c]) /\ ~(ref_count[x] > 1)
    BY <1>2, <1>5 DEF Build, The
  <2> QED BY <1>1, <2>1, KeepUndamaged
<1> QED BY <1>3, <1>4, <1>5

LEMMA WritingUndamaged ==
  ASSUME HeapInv, HeapInv', NEW h \in Handle,
         \/ AndWith(h) \/ MakeLevelCarried(h)
         \/ (\E t \in UFTuples : GetLocal(h, t)) \/ (\E n \in Name : NameVar(h, n))
  PROVE  Undamaged
  BY SplitAndWriteUndamaged DEF AndWith, MakeLevelCarried, GetLocal, NameVar

LEMMA ExtractUndamaged ==
  ASSUME HeapInv, HeapInv', NEW h \in Handle, NEW r \in Handle, ExtractByCarriedLevel(h, r)
  PROVE  Undamaged
<1>1. PICK x \in Split(r) : \E c, e :
        Allocate(Put(Heap, r, x), h, e, [body EXCEPT ![x] = c])
  BY DEF ExtractByCarriedLevel
<1>2. Holds(r)
  BY DEF ExtractByCarriedLevel
<1>3. x \in Body /\ ~(ref_count[x] > 1)
  BY <1>2, SplitAlone
<1>4. Put(Heap, r, x) \in HeapShape
  BY <1>3, HeapHasShape, PutShape DEF Target
<1> QED BY <1>1, <1>3, <1>4, SettledWritten, AllocateUndamaged

LEMMA OperatorsUndamaged ==
  ASSUME HeapInv, HeapInv', NEW h \in Handle, NEW a \in Handle,
         \/ Complement(h, a) \/ Lower_Bound(h, a) \/ Upper_Bound(h, a) \/ Approximate(h, a)
         \/ CombineMismatch(h, a)
         \/ \E b \in Handle, ctype \in Combine_Type : Combine2(h, a, b, ctype)
  PROVE  Undamaged
<1>1. CASE CombineMismatch(h, a)
  BY <1>1, NothingWritten, LeaveUndamaged DEF CombineMismatch
<1>2. CASE Complement(h, a) \/ Lower_Bound(h, a) \/ Upper_Bound(h, a) \/ Approximate(h, a)
  BY <1>2, NothingWritten, ReturnUndamaged
     DEF Complement, Lower_Bound, Upper_Bound, Approximate, InDNF
<1>3. ASSUME NEW b \in Handle, NEW ctype \in Combine_Type, Combine2(h, a, b, ctype)
      PROVE  Undamaged
  BY <1>3, NothingWritten, ReturnUndamaged DEF Combine2
<1> QED BY <1>1, <1>2, <1>3

LEMMA CombineNullUndamaged ==
  ASSUME HeapInv, HeapInv', NEW h \in Handle, NEW a \in Handle, NEW b \in Handle,
         NEW ctype \in Combine_Type, CombineNull(h, a, b, ctype)
  PROVE  Undamaged
<1>1. PICK r \in {a, b} : ReturnOperand(h, a, b, r)
  BY DEF CombineNull
<1>2. CASE ~Holds(r)
  BY <1>1, <1>2, NothingWritten, LeaveUndamaged DEF ReturnOperand
<1>3. CASE Holds(r)
  <2> DEFINE c == [The(r) EXCEPT !.finalized = TRUE]
  <2>1. Leave(Put(Consumed(a, b), h, rel_body[r]), [body EXCEPT ![rel_body[r]] = c])
    BY <1>1, <1>3 DEF ReturnOperand, The
  <2>2. rel_body[r] \in Body /\ Same(c, body[rel_body[r]])
    BY <1>3, HeldBody DEF Same, The, GoodBody, Rel_Body
  <2> QED BY <2>1, <2>2, SettledWritten, LeaveUndamaged
<1> QED BY <1>2, <1>3

\* Under InputOnly no body is evacuated in place: Range simplifies it only.
LEMMA ProjectUndamaged ==
  ASSUME InputOnly, HeapInv, HeapInv', NEW h \in Handle, NEW a \in Handle,
         NEW t \in Argument_Tuple, Project(h, a, t)
  PROVE  Undamaged
<1>1. Holds(a)
  BY DEF Project, Usable
<1> DEFINE x == rel_body[a]
<1>2. /\ x \in Body /\ The(a) \in GoodBody /\ The(a) = body[x]
      /\ ref_count[x] > 1 => The(a).finalized
  BY <1>1, HeldBody DEF The
<1>3. Simplified(The(a)).decl.Symbolic \subseteq {"in"}
  BY <1>2, SimplifiedGood DEF GoodBody, InputOnly
<1>4. Evacuated(a, t) \in {body, [body EXCEPT ![x] = Simplified(The(a))]}
  BY <1>2, <1>3 DEF Evacuated
<1>5. OnlySettled(Evacuated(a, t))
  <2> DEFINE c == Simplified(The(a))
  <2>1. ref_count[x] > 1 => Same(c, body[x])
    BY <1>2, SimplifiedSame
  <2>2. OnlySettled([body EXCEPT ![x] = c])
    <3> HIDE DEF c
    <3> QED BY <1>2, <2>1, SettledWritten
  <2> QED BY <1>4, <2>2, NothingWritten
<1> QED BY <1>5, ReturnUndamaged DEF Project

-------------------------------------------------------------------------------
\* A body with one handle may lose a conjunct.
LEMMA RemovalUndamaged ==
  ASSUME ~RemovesShared, HeapInv, HeapInv', NEW h \in Handle, RemoveFirstConjunct(h)
  PROVE  Undamaged
<1>1. Holds(h) /\ ref_count[rel_body[h]] = 1
  BY DEF RemoveFirstConjunct
<1>2. PICK c : Keep([body EXCEPT ![rel_body[h]] = c])
  BY DEF RemoveFirstConjunct
<1> QED BY <1>1, <1>2, HeldBody, KeepUndamaged

\* A query through a second Relation simplifies the body: a shared one keeps
\* its value.
LEMMA AskingUndamaged ==
  ASSUME HeapInv, NEW i \in Handle, IsDefiniteTautology(i) PROVE Undamaged
<1> SUFFICES ASSUME NEW h \in Handle, NEW k \in Handle,
                    h # k, Holds(h), rel_body[h] = rel_body[k],
                    rel_body'[h] = rel_body[h], rel_body'[k] = rel_body[k]
             PROVE  Denotation(h)' = Denotation(h)
  BY DEF Undamaged
<1> DEFINE b == rel_body[h]
<1>1. b \in Body /\ ref_count[b] > 1 /\ The(h) = body[b] /\ body[b] \in GoodBody
  BY PairBefore, HeldBody DEF Holds, The
<1>2. body[b].finalized
  BY <1>1, HeldBody
<1>3. body'[b] = body[b] \/ body'[b] = Simplified(body[b])
  BY <1>1 DEF IsDefiniteTautology, HeapInv, Sound
<1>4. Same(body'[b], body[b])
  BY <1>1, <1>2, <1>3, SimplifiedSame DEF Same
<1>5. Holds(h)'
  BY <1>1 DEF Holds
<1> QED BY <1>4, <1>5 DEF Denotation, The, Same

LEMMA StepUndamaged == ASSUME Careful, HeapInv, HeapInv', Operation PROVE Undamaged
<1>1. PICK h \in Handle :
        \/ NewNull(h) \/ (\E d \in Decl : New(h, d)) \/ Destroy(h)
        \/ (\E f \in Formula : Build(h, f)) \/ Finalize(h) \/ Simplify(h)
        \/ AndWith(h) \/ (\E t \in UFTuples : GetLocal(h, t))
        \/ (\E n \in Name : NameVar(h, n)) \/ MakeLevelCarried(h)
        \/ RemoveFirstConjunct(h)
        \/ \E r \in Handle : \/ CopyConstruct(h, r) \/ Assign(h, r) \/ CopyConjunct(h, r)
                             \/ ExtractByCarriedLevel(h, r) \/ CombineMismatch(h, r)
        \/ \E a \in Handle : \/ Complement(h, a) \/ Lower_Bound(h, a)
                             \/ Upper_Bound(h, a) \/ Approximate(h, a)
                             \/ \E t \in Argument_Tuple : Project(h, a, t)
        \/ \E a, b \in Handle, ctype \in Combine_Type :
             Combine2(h, a, b, ctype) \/ CombineNull(h, a, b, ctype)
  BY DEF Operation
<1> QED BY <1>1, HandlesUndamaged, SettlingUndamaged, WritingUndamaged, RemovalUndamaged,
           ExtractUndamaged, OperatorsUndamaged, CombineNullUndamaged, ProjectUndamaged
        DEF Careful

(* Relation.cc:229, `not to damage other reps': of two Relations on one    *)
(* body, neither sees its declarations or its formula change by what is    *)
(* done to the other, by any sequence of operations but the two above.     *)
THEOREM SharingIsSafe == ASSUME Careful PROVE Spec => SharersUndamaged
<1>1. ASSUME IInv, IInv', [Next]_vars PROVE [Undamaged]_vars
  <2> SUFFICES ASSUME Next PROVE Undamaged
    BY <1>1
  <2>1. CASE temporary = Dead /\ HeapInv /\ Operation
    BY <2>1, OperationStep, StepUndamaged
  <2>2. CASE HeapInv /\ \E h \in Handle : IsDefiniteTautology(h)
    BY <2>2, AskingUndamaged
  <2>3. CASE TautologyAnswered
    BY <2>3 DEF TautologyAnswered, Undamaged, Denotation, Holds, The
  <2> QED BY <1>1, <2>1, <2>2, <2>3, NextCases
<1>2. [Undamaged]_vars
      => [\A h, k \in Handle :
            h # k /\ Holds(h) /\ rel_body[h] = rel_body[k]
              /\ rel_body'[h] = rel_body[h] /\ rel_body'[k] = rel_body[k]
            => Denotation(h)' = Denotation(h)]_vars
  BY DEF Undamaged
<1> QED BY <1>1, <1>2, Invariance, PTL DEF Spec, SharersUndamaged

-------------------------------------------------------------------------------
(***************************************************************************)
(* RelBody implements RelationValues, for every set of handles, addresses  *)
(* and points: a client that cannot see the addresses cannot tell whether  *)
(* two Relations share a body.                                             *)
(*                                                                         *)
(* As for SharingIsSafe, the two operations that damage other Relations    *)
(* are assumed away.  Denote reads a heap in the middle of an operation,   *)
(* so that every elementary step of an operation has its meaning proved    *)
(* once; Sound makes the bodies that handles are on survive the step.      *)
(***************************************************************************)
View(c) == [decl |-> c.decl, built |-> c.form # "none", formula |-> c.formula]

\* What a handle put on x means.
At(bodies, x) == IF x \in Body THEN View(bodies[x]) ELSE x

Denote(hp, bodies, k) == At(bodies, hp.held[k])

\* The step gives h the value v and leaves the others theirs.
Gives(h, v) == Denotation(h)' = v /\ \A k \in Handle \ {h} : Denotation(k)' = Denotation(k)

\* The step makes the operands null and then gives h the value v.
Regurgitates(h, operands, v) ==
  \A k \in Handle : Denotation(k)' = IF k = h THEN v
                                     ELSE IF k \in operands THEN NullRel ELSE Denotation(k)

-------------------------------------------------------------------------------
(* The elementary steps.                                                   *)

LEMMA DenotationRead == \A k \in Handle : Denotation(k) = Denote(Heap, body, k)
  BY DEF Denotation, Denote, At, View, Heap, Holds, The

LEMMA FreeUnheld ==
  ASSUME NEW hp, NEW bodies, Sound(hp, bodies), NEW x \in Body, hp.refs[x] = 0,
         NEW k \in Handle
  PROVE  hp.held[k] # x
<1>1. hp \in HeapType /\ hp.refs[x] = Cardinality(On(hp, x))
  BY DEF Sound
<1>2. hp.held[k] = x => Cardinality(On(hp, x)) > 0
  BY <1>1, CountAfterPut DEF Target
<1> QED BY <1>1, <1>2

LEMMA LeaveDenotes ==
  ASSUME NEW hp, NEW bodies, Sound(hp, bodies), Leave(hp, bodies), NEW k \in Handle
  PROVE  Denotation(k)' = Denote(hp, bodies, k)
<1>1. rel_body'[k] = hp.held[k]
  BY DEF Leave
<1>2. CASE hp.held[k] \in Body
  <2>1. hp.refs[hp.held[k]] # 0
    BY <1>2, FreeUnheld
  <2>2. body'[hp.held[k]] = bodies[hp.held[k]]
    BY <1>2, <2>1 DEF Leave
  <2> QED BY <1>1, <1>2, <2>2 DEF Denotation, Denote, At, View, Holds, The
<1>3. CASE hp.held[k] \notin Body
  BY <1>1, <1>3 DEF Denotation, Denote, At, Holds
<1> QED BY <1>2, <1>3

LEMMA PutDenotes ==
  ASSUME NEW hp \in HeapType, NEW bodies, NEW h \in Handle, NEW x, NEW k \in Handle
  PROVE  Denote(Put(hp, h, x), bodies, k)
           = IF k = h THEN At(bodies, x) ELSE Denote(hp, bodies, k)
  BY DEF Denote, Put, HeapType

\* What is written to a body that no handle is on is seen by none.
LEMMA WriteUnseen ==
  ASSUME NEW hp, NEW bodies, Sound(hp, bodies), NEW x \in Body, NEW c,
         NEW k \in Handle, hp.held[k] # x
  PROVE  Denote(hp, [bodies EXCEPT ![x] = c], k) = Denote(hp, bodies, k)
  BY DEF Denote, At, Sound

LEMMA WriteSeen ==
  ASSUME NEW hp, NEW bodies, Sound(hp, bodies), NEW x \in Body, NEW c
  PROVE  At([bodies EXCEPT ![x] = c], x) = View(c)
  BY DEF At, Sound

LEMMA AllocateDenotes ==
  ASSUME NEW hp, NEW bodies, Sound(hp, bodies), NEW h \in Handle, NEW c \in GoodBody,
         Allocate(hp, h, c, bodies), NEW k \in Handle
  PROVE  Denotation(k)' = IF k = h THEN View(c) ELSE Denote(hp, bodies, k)
<1> DEFINE released == Put(hp, h, NullRel)
<1>1. PICK x \in Free(released) : Leave(Put(released, h, x), [bodies EXCEPT ![x] = c])
  BY DEF Allocate
<1>2. Sound(released, bodies)
  BY PutSound, BodyAssumption DEF Target
<1>3. x \in Body /\ released.refs[x] = 0 /\ released.held[k] # x
  BY <1>2, FreeUnheld DEF Free
<1> DEFINE written == [bodies EXCEPT ![x] = c]
<1>4. Sound(released, written)
  BY <1>2, <1>3, WriteSound
<1>5. Sound(Put(released, h, x), written)
  <2>1. written[x] \in GoodBody
    BY <1>2, <1>3 DEF Sound
  <2> HIDE DEF written
  <2> QED BY <1>3, <1>4, <2>1, PutSound DEF Target
<1>6. Denotation(k)' = Denote(Put(released, h, x), written, k)
  BY <1>1, <1>5, LeaveDenotes
<1>7. Denotation(k)' = IF k = h THEN At(written, x) ELSE Denote(released, written, k)
  BY <1>2, <1>6, PutDenotes DEF Sound
<1>8. At(written, x) = View(c) /\ Denote(released, written, k) = Denote(released, bodies, k)
  BY <1>2, <1>3, WriteSeen, WriteUnseen
<1>9. k # h => Denote(released, bodies, k) = Denote(hp, bodies, k)
  BY PutDenotes DEF Sound
<1> QED BY <1>7, <1>8, <1>9

-------------------------------------------------------------------------------
(* What the steps that operations are made of do to the values.            *)

LEMMA ValueOfHeld ==
  ASSUME HeapInv, NEW h \in Handle, Holds(h)
  PROVE  /\ Denotation(h) = View(The(h))
         /\ Denotation(h) \in Values!Value
         /\ The(h).decl \in Decl /\ The(h).formula \in Formula
BY HeldBody DEF Denotation, View, Values!Value, GoodBody, Rel_Body, Values!Decl,
  Values!Formula, Decl, Formula, Values!Kind, Kind, Values!Argument_Tuple, Argument_Tuple

LEMMA HeldWritten ==
  ASSUME HeapInv, NEW h \in Handle, Holds(h), NEW f, NEW d
  PROVE  /\ Values!Built(Denotation(h), f)
              = [decl |-> The(h).decl, built |-> TRUE, formula |-> f]
         /\ [Denotation(h) EXCEPT !.decl = d]
              = [decl |-> d, built |-> The(h).form # "none", formula |-> The(h).formula]
         /\ Denotation(h).built <=> The(h).form # "none"
<1> DEFINE v == [decl |-> The(h).decl, built |-> The(h).form # "none",
                 formula |-> The(h).formula]
<1>1. Denotation(h) = v
  BY ValueOfHeld DEF View
<1>2. Values!Built(v, f) = [decl |-> The(h).decl, built |-> TRUE, formula |-> f]
  BY DEF Values!Built
<1>3. [v EXCEPT !.decl = d]
        = [decl |-> d, built |-> The(h).form # "none", formula |-> The(h).formula]
  OBVIOUS
<1>4. v.built <=> The(h).form # "none"
  OBVIOUS
<1> QED BY <1>1, <1>2, <1>3, <1>4

LEMMA ValueOfOthers ==
  ASSUME HeapInv, NEW h \in Handle, ~Holds(h)
  PROVE  Denotation(h) = rel_body[h] /\ rel_body[h] \in {NullRel, Dead}
  BY DEF Denotation, Holds, HeapInv, Sound, Heap, HeapType, Target

LEMMA PutGives ==
  ASSUME NEW bodies, NEW h \in Handle, NEW x, HeapInv,
         Sound(Put(Heap, h, x), bodies), Leave(Put(Heap, h, x), bodies),
         \A k \in Handle \ {h} : Denote(Heap, bodies, k) = Denotation(k)
  PROVE  Gives(h, At(bodies, x))
<1>1. Heap \in HeapType
  BY DEF HeapInv, Sound
<1>2. \A k \in Handle : Denotation(k)' = Denote(Put(Heap, h, x), bodies, k)
  BY LeaveDenotes
<1>3. \A k \in Handle : Denote(Put(Heap, h, x), bodies, k)
                          = IF k = h THEN At(bodies, x) ELSE Denote(Heap, bodies, k)
  BY <1>1, PutDenotes
<1> QED BY <1>2, <1>3 DEF Gives

\* Rewriting the body under the handles that share it.
LEMMA KeepGives ==
  ASSUME HeapInv, NEW h \in Handle, Holds(h), NEW c \in GoodBody,
         ref_count[rel_body[h]] > 1 => c.finalized /\ View(c) = View(The(h)),
         Keep([body EXCEPT ![rel_body[h]] = c])
  PROVE  Gives(h, View(c))
<1> DEFINE x == rel_body[h]
           written == [body EXCEPT ![x] = c]
<1>1. x \in Body
  BY DEF Holds
<1>2. Sound(Heap, written)
  BY <1>1, HeapSound, WriteSound DEF Heap
<1>3. \A k \in Handle : Denotation(k)' = Denote(Heap, written, k)
  BY <1>2, LeaveDenotes DEF Keep
<1>4. Denote(Heap, written, h) = View(c)
  BY <1>1, HeapSound, WriteSeen DEF Denote, Heap
<1>5. ASSUME NEW k \in Handle \ {h} PROVE Denote(Heap, written, k) = Denotation(k)
  <2>1. CASE rel_body[k] = x
    <3>1. ref_count[x] > 1
      BY <1>1, <2>1, PairBefore
    <3>2. Denote(Heap, written, k) = View(c)
      BY <1>1, <2>1, HeapSound, WriteSeen DEF Denote, Heap
    <3>3. Denotation(k) = View(The(h))
      BY <1>1, <2>1 DEF Denotation, View, Holds, The
    <3> QED BY <3>1, <3>2, <3>3
  <2>2. CASE rel_body[k] # x
    <3>1. Denote(Heap, written, k) = Denote(Heap, body, k)
      BY <1>1, <2>2, HeapSound, WriteUnseen DEF Heap
    <3> QED BY <3>1, DenotationRead
  <2> QED BY <2>1, <2>2
<1> QED BY <1>3, <1>4, <1>5 DEF Gives

\* Writing after a split.
Over(x, c) == [body EXCEPT ![x] = c]

LEMMA SplitGives ==
  ASSUME HeapInv, NEW h \in Handle, Holds(h), NEW c \in GoodBody, NEW x \in Split(h)
  PROVE  /\ Sound(Put(Heap, h, x), Over(x, c)) /\ At(Over(x, c), x) = View(c)
         /\ \A k \in Handle \ {h} : Denote(Heap, Over(x, c), k) = Denotation(k)
<1> DEFINE bodies == Over(x, c)
<1>0. bodies = [body EXCEPT ![x] = c]
  BY DEF Over
<1> HIDE DEF bodies
<1>1. x \in Body /\ ~(Heap.refs[x] > 1) /\ (x = rel_body[h] \/ Heap.refs[x] = 0)
  BY HeldBody DEF Split, Free, Heap
<1>2. Sound(Heap, bodies)
  BY <1>0, <1>1, WriteSound, HeapSound
<1>3. bodies[x] \in GoodBody
  BY <1>0, <1>1 DEF HeapInv, Sound
<1>4. Sound(Put(Heap, h, x), bodies)
  BY <1>1, <1>2, <1>3, PutSound DEF Target, Heap
<1>5. At(bodies, x) = View(c)
  BY <1>0, <1>1, HeapSound, WriteSeen
<1>6. ASSUME NEW k \in Handle \ {h} PROVE Denote(Heap, bodies, k) = Denotation(k)
  <2>1. rel_body[k] # x
    <3>1. CASE x = rel_body[h]
      BY <1>1, <3>1, PairBefore DEF Heap
    <3>2. CASE Heap.refs[x] = 0
      BY <1>1, <3>2, HeapSound, FreeUnheld DEF Heap
    <3> QED BY <1>1, <3>1, <3>2
  <2>2. Heap.held[k] # x
    BY <2>1 DEF Heap
  <2>3. Denote(Heap, bodies, k) = Denote(Heap, body, k)
    BY <1>0, <1>1, <2>2, HeapSound, WriteUnseen
  <2> QED BY <2>3, DenotationRead
<1> QED BY <1>4, <1>5, <1>6 DEF bodies

LEMMA SplitAndWriteGives ==
  ASSUME HeapInv, NEW h \in Handle, Holds(h), NEW c \in GoodBody, SplitAndWrite(h, c)
  PROVE  Gives(h, View(c))
<1>1. PICK x \in Split(h) : Leave(Put(Heap, h, x), [body EXCEPT ![x] = c])
  BY DEF SplitAndWrite
<1>2. Leave(Put(Heap, h, x), Over(x, c))
  BY <1>1 DEF Over
<1> QED BY <1>1, <1>2, SplitGives, PutGives

LEMMA AllocateGives ==
  ASSUME HeapInv, NEW h \in Handle, NEW c \in GoodBody, Allocate(Heap, h, c, body)
  PROVE  Gives(h, View(c))
  BY HeapSound, AllocateDenotes, DenotationRead DEF Gives

LEMMA ConsumedDenotes ==
  ASSUME HeapInv, NEW a \in Handle, NEW b \in Handle, NEW bodies, NEW k \in Handle
  PROVE  Denote(Consumed(a, b), bodies, k)
           = IF k \in {a, b} THEN NullRel ELSE Denote(Heap, bodies, k)
<1>1. Heap \in HeapType
  BY DEF HeapInv, Sound
<1>2. Put(Heap, a, NullRel) \in HeapType
  BY HeapSound, PutSound, BodyAssumption DEF Sound, Target
<1>3. At(bodies, NullRel) = NullRel
  BY BodyAssumption DEF At
<1> QED BY <1>1, <1>2, <1>3, PutDenotes DEF Consumed

LEMMA ReturnGives ==
  ASSUME HeapInv, NEW h \in Handle, NEW a \in Handle, NEW b \in Handle, NEW c \in GoodBody,
         NEW bodies, Sound(Heap, bodies), Return(h, a, b, c, bodies),
         \A k \in Handle : Denote(Heap, bodies, k) = Denotation(k)
  PROVE  Regurgitates(h, {a, b}, View(c))
<1>1. \A k \in Handle : Denotation(k)' = IF k = h THEN View(c)
                                         ELSE Denote(Consumed(a, b), bodies, k)
  BY ConsumedSound, AllocateDenotes DEF Return
<1> QED BY <1>1, ConsumedDenotes DEF Regurgitates

\* The same, for the values that the mapped variable holds.
LEMMA GivesSet ==
  ASSUME NEW h \in Handle, NEW v, Gives(h, v)
  PROVE  Values!Set(h, v)
  BY DEF Gives, Values!Set

LEMMA GivesConsume ==
  ASSUME NEW h \in Handle, NEW operands, NEW v, Regurgitates(h, operands, v)
  PROVE  Values!Consume(h, operands, v)
  BY DEF Regurgitates, Values!Consume

Mapped == [h \in Handle |-> Denotation(h)]

LEMMA GivesSame ==
  ASSUME NEW h \in Handle, Gives(h, Denotation(h))
  PROVE  UNCHANGED Mapped
  BY DEF Gives, Mapped

-------------------------------------------------------------------------------
(* Each operation is an action of RelationValues, or leaves the values.    *)

\* RelationValues has its data from Presburger too.
LEMMA SameData ==
  /\ Values!Decl = Decl /\ Values!Formula = Formula /\ Values!False = False
  /\ Values!Combine_Type = Combine_Type /\ Values!Argument_Tuple = Argument_Tuple
  /\ \A f : /\ Values!Not(f) = Not(f)
            /\ Values!UnknownAsFalse(f) = UnknownAsFalse(f)
            /\ Values!UnknownAsTrue(f) = UnknownAsTrue(f)
            /\ Values!Approximations(f) = Approximations(f)
            /\ Values!Conjuncts(f) = Conjuncts(f)
            /\ Values!Partitions(f) = Partitions(f)
  /\ \A f, t : /\ Values!Evacuate(f, t) = Evacuate(f, t)
               /\ Values!ProjectFormula(f, t) = ProjectFormula(f, t)
  /\ \A d, f, t : Values!ProjectDecl(d, f, t) = ProjectDecl(d, f, t)
  /\ \A d, e : Values!MergeDecls(d, e) = MergeDecls(d, e)
  /\ \A ctype, f, g : Values!Combine(ctype, f, g) = Combine(ctype, f, g)
<1>1. Values!Argument_Tuple = Argument_Tuple /\ Values!Kind = Kind
  BY DEF Values!Argument_Tuple, Argument_Tuple, Values!Kind, Kind
<1>2. Values!Formula = Formula /\ Values!Decl = Decl
  BY <1>1 DEF Values!Formula, Formula, Values!Decl, Decl
<1>3. /\ \A f : Values!Not(f) = Not(f)
      /\ \A f, g : Values!And(f, g) = And(f, g) /\ Values!Or(f, g) = Or(f, g)
  BY DEF Values!Not, Not, Values!And, And, Values!Or, Or
<1>4. \A t : Values!Other(t) = Other(t)
  BY DEF Values!Other, Other
<1>5. \A m, n : Values!MergeNames(m, n) = MergeNames(m, n)
  BY DEF Values!MergeNames, MergeNames
<1>6. \A ctype, f, g : Values!Combine(ctype, f, g) = Combine(ctype, f, g)
  BY <1>3 DEF Values!Combine, Combine
<1>7. \A f : /\ Values!UnknownAsFalse(f) = UnknownAsFalse(f)
            /\ Values!UnknownAsTrue(f) = UnknownAsTrue(f)
            /\ Values!Approximations(f) = Approximations(f)
            /\ Values!Conjuncts(f) = Conjuncts(f)
            /\ Values!Partitions(f) = Partitions(f)
  BY <1>2, <1>3 DEF Values!UnknownAsFalse, UnknownAsFalse, Values!UnknownAsTrue, UnknownAsTrue,
     Values!Approximations, Approximations, Values!Conjuncts, Conjuncts,
     Values!Partitions, Partitions
<1>8. /\ \A f, t : /\ Values!Evacuate(f, t) = Evacuate(f, t)
                   /\ Values!ProjectFormula(f, t) = ProjectFormula(f, t)
      /\ \A d, f, t : Values!ProjectDecl(d, f, t) = ProjectDecl(d, f, t)
  BY <1>4 DEF Values!Evacuate, Evacuate, Values!ProjectFormula, ProjectFormula,
     Values!ProjectDecl, ProjectDecl
<1>9. \A d, e : Values!MergeDecls(d, e) = MergeDecls(d, e)
  BY <1>5 DEF Values!MergeDecls, MergeDecls
<1>10. Values!False = False /\ Values!Combine_Type = Combine_Type
  BY DEF Values!False, False, Values!Combine_Type, Combine_Type
<1> QED BY <1>1, <1>2, <1>3, <1>6, <1>7, <1>8, <1>9, <1>10

LEMMA PutBodyGives ==
  ASSUME HeapInv, NEW h \in Handle, NEW x \in {NullRel, Dead}, Leave(Put(Heap, h, x), body)
  PROVE  Gives(h, x)
<1>1. At(body, x) = x
  BY BodyAssumption DEF At
<1>2. Sound(Put(Heap, h, x), body)
  BY HeapSound, PutSound, BodyAssumption DEF Target
<1> QED BY <1>1, <1>2, DenotationRead, PutGives

LEMMA NewNullMakesNull ==
  ASSUME HeapInv, NEW h \in Handle, NewNull(h) PROVE Values!MakeNull(h)
  BY PutBodyGives, GivesSet DEF NewNull, Values!MakeNull

LEMMA DestroyDestroys ==
  ASSUME HeapInv, NEW h \in Handle, Destroy(h) PROVE Values!Destroy(h)
  BY PutBodyGives, GivesSet DEF Destroy, Values!Destroy

LEMMA NewCreates ==
  ASSUME HeapInv, NEW h \in Handle, NEW d \in Decl, New(h, d) PROVE Values!Create(h)
<1> DEFINE c == [decl |-> d, finalized |-> FALSE, form |-> "none", formula |-> False]
<1>1. c \in GoodBody
  BY ConstantFormulas DEF GoodBody, Rel_Body, Form, New, False
<1>2. Gives(h, View(c))
  BY <1>1, AllocateGives DEF New
<1>3. View(c) = [decl |-> d, built |-> FALSE, formula |-> Values!False]
  BY SameData DEF View
<1> QED BY <1>2, <1>3, SameData, GivesSet DEF Values!Create

LEMMA CopyIntoCopies ==
  ASSUME HeapInv, NEW h \in Handle, NEW r \in Handle, Alive(r), CopyInto(h, r)
  PROVE  Values!Copy(h, r)
<1>1. Gives(h, Denotation(r))
  <2>1. CASE ~Holds(r)
    <3>1. rel_body[r] = NullRel /\ Denotation(r) = NullRel
      BY <2>1, ValueOfOthers DEF Alive
    <3> QED BY <3>1, PutBodyGives DEF CopyInto
  <2>2. CASE Holds(r) /\ The(r).finalized
    <3>1. Sound(Put(Heap, h, rel_body[r]), body)
      BY <2>2, HeldBody, HeapSound, PutSound DEF Target, The
    <3>2. Gives(h, At(body, rel_body[r]))
      BY <2>2, <3>1, DenotationRead, PutGives DEF CopyInto
    <3> QED BY <2>2, <3>2, ValueOfHeld DEF At, Holds, The
  <2>3. CASE Holds(r) /\ ~The(r).finalized
    <3>1. rel_body[r] # NullRel
      BY <2>3, BodyAssumption DEF Holds
    <3> QED BY <2>3, <3>1, HeldBody, ValueOfHeld, AllocateGives DEF CopyInto
  <2> QED BY <2>1, <2>2, <2>3
<1>2. Denotation(r) # Dead
  BY ValueOfHeld, ValueOfOthers, ValueAssumption DEF Alive
<1> QED BY <1>1, <1>2, GivesSet DEF Values!Copy

\* Building and settling: the body is rewritten where it is.
LEMMA BuildWrites ==
  ASSUME HeapInv, NEW h \in Handle, NEW f \in Formula, Build(h, f)
  PROVE  Values!WriteFormula(h)
<1> DEFINE c == [The(h) EXCEPT !.form = "tree", !.formula = f]
<1>1. Holds(h) /\ ~The(h).finalized /\ Keep([body EXCEPT ![rel_body[h]] = c])
  BY DEF Build, The
<1>2. c \in GoodBody
  BY <1>1, HeldBody DEF GoodBody, Rel_Body, Form, Build
<1>3. Gives(h, View(c))
  BY <1>1, <1>2, HeldBody, KeepGives
<1>4. View(c) = [decl |-> The(h).decl, built |-> TRUE, formula |-> f]
  BY <1>1, HeldBody DEF View, GoodBody, Rel_Body
<1>5. View(c) = Values!Built(Denotation(h), f)
  BY <1>1, <1>4, HeldWritten
<1> QED BY <1>1, <1>3, <1>5, ValueOfHeld, SameData, GivesSet DEF Values!WriteFormula

LEMMA FinalizeStutters ==
  ASSUME HeapInv, NEW h \in Handle, Finalize(h) PROVE UNCHANGED Mapped
<1> DEFINE c == [The(h) EXCEPT !.finalized = TRUE]
<1>1. Holds(h) /\ The(h).form # "none" /\ Keep([body EXCEPT ![rel_body[h]] = c])
  BY DEF Finalize, The
<1>2. c \in GoodBody /\ c.finalized /\ View(c) = View(The(h))
  BY <1>1, HeldBody DEF GoodBody, Rel_Body, View
<1>3. Gives(h, View(The(h)))
  BY <1>1, <1>2, KeepGives
<1> QED BY <1>1, <1>3, ValueOfHeld, GivesSame

\* A query settles a relation that has no formula yet and leaves any other.
LEMMA SettlingSettles ==
  ASSUME HeapInv, NEW h \in Handle, Holds(h), Gives(h, View(Simplified(The(h))))
  PROVE  Values!Settle(h) \/ UNCHANGED Mapped
<1> DEFINE c == Simplified(The(h))
<1>1. The(h) \in GoodBody /\ c \in GoodBody /\ c.form = "dnf"
  BY HeldBody, SimplifiedGood
<1>2. View(c) = [decl |-> The(h).decl, built |-> TRUE,
                 formula |-> IF The(h).form = "none" THEN False ELSE The(h).formula]
  BY <1>1 DEF View, Simplified, GoodBody, Rel_Body
<1>3. CASE The(h).form # "none"
  <2>1. View(c) = View(The(h))
    BY <1>2, <1>3 DEF View
  <2> QED BY <2>1, ValueOfHeld, GivesSame
<1>4. CASE The(h).form = "none"
  <2>1. ~Denotation(h).built
    BY <1>4, HeldWritten
  <2>2. View(c) = Values!Built(Denotation(h), Values!False)
    BY <1>2, <1>4, HeldWritten, SameData
  <2> QED BY <2>1, <2>2, ValueOfHeld, GivesSet DEF Values!Settle
<1> QED BY <1>3, <1>4

LEMMA SimplifySettles ==
  ASSUME HeapInv, NEW h \in Handle, Simplify(h)
  PROVE  Values!Settle(h) \/ UNCHANGED Mapped
<1> DEFINE c == Simplified(The(h))
<1>1. Holds(h) /\ Keep([body EXCEPT ![rel_body[h]] = c])
  BY DEF Simplify, The
<1>2. The(h) \in GoodBody /\ c \in GoodBody /\ (The(h).finalized => c.finalized)
  BY <1>1, HeldBody, SimplifiedGood
<1>3. The(h).finalized => View(c) = View(The(h))
  BY <1>2, SimplifiedSame DEF Same, View
<1>4. Gives(h, View(c))
  <2> HIDE DEF c
  <2> QED BY <1>1, <1>2, <1>3, HeldBody, KeepGives
<1> QED BY <1>1, <1>4, SettlingSettles

\* So does one through a second Relation, which nobody sees.
LEMMA AskingSettles ==
  ASSUME HeapInv, NEW h \in Handle, IsDefiniteTautology(h)
  PROVE  Values!Settle(h) \/ UNCHANGED Mapped
<1> DEFINE c == Simplified(The(h))
           x == rel_body[h]
<1>1. /\ Holds(h) /\ x \in Body /\ The(h) = body[x] /\ rel_body' = rel_body
      /\ body' = [body EXCEPT ![x] = c] /\ body \in [Body -> GoodBody \cup {NoBody}]
  BY DEF IsDefiniteTautology, Holds, The, HeapInv, Sound
<1>2. Denotation(h)' = View(c)
  <2>1. Holds(h)' /\ The(h)' = c
    BY <1>1 DEF Holds, The
  <2> QED BY <2>1 DEF Denotation, View
<1>3. ASSUME NEW k \in Handle \ {h} PROVE Denotation(k)' = Denotation(k)
  <2>1. Holds(k)' = Holds(k) /\ rel_body'[k] = rel_body[k]
    BY <1>1 DEF Holds
  <2>2. CASE ~Holds(k)
    BY <2>1, <2>2 DEF Denotation
  <2>3. CASE Holds(k) /\ rel_body[k] # x
    <3>1. The(k)' = The(k)
      BY <1>1, <2>3 DEF The, Holds
    <3> QED BY <2>1, <2>3, <3>1 DEF Denotation
  <2>4. CASE Holds(k) /\ rel_body[k] = x
    <3>1. Undamaged
      BY AskingUndamaged
    <3> QED BY <1>1, <2>1, <2>4, <3>1 DEF Undamaged
  <2> QED BY <2>2, <2>3, <2>4
<1>4. Gives(h, View(c))
  BY <1>2, <1>3 DEF Gives
<1> QED BY <1>1, <1>4, SettlingSettles

\* A body with one handle that loses a conjunct has a new formula.
LEMMA RemovalWrites ==
  ASSUME ~RemovesShared, HeapInv, NEW h \in Handle, RemoveFirstConjunct(h)
  PROVE  Values!WriteFormula(h)
<1> DEFINE c(g) == [Simplified(The(h)) EXCEPT !.formula = g]
<1>1. PICK g \in Formula :
        /\ Keep([body EXCEPT ![rel_body[h]] = c(g)])
        /\ g.ufs \subseteq Simplified(The(h)).formula.ufs
  BY PartitionUfs DEF RemoveFirstConjunct, Partitions, The
<1>2. Holds(h) /\ ref_count[rel_body[h]] = 1
  BY DEF RemoveFirstConjunct
<1>3. /\ Simplified(The(h)) \in GoodBody /\ Simplified(The(h)).form = "dnf"
      /\ Simplified(The(h)).decl = The(h).decl
  BY <1>2, HeldBody, SimplifiedGood DEF Simplified, GoodBody, Rel_Body
<1>4. c(g) \in GoodBody
  BY <1>1, <1>3 DEF GoodBody, Rel_Body
<1>5. Gives(h, View(c(g)))
  <2> HIDE DEF c
  <2> QED BY <1>1, <1>2, <1>4, KeepGives
<1>6. View(c(g)) = [decl |-> The(h).decl, built |-> TRUE, formula |-> g]
  BY <1>3 DEF View, GoodBody, Rel_Body
<1>7. View(c(g)) = Values!Built(Denotation(h), g)
  BY <1>2, <1>6, HeldWritten
<1> QED BY <1>2, <1>5, <1>7, ValueOfHeld, SameData, GivesSet DEF Values!WriteFormula

\* The writers that split first.
LEMMA AndWithWrites ==
  ASSUME HeapInv, NEW h \in Handle, AndWith(h)
  PROVE  Values!WriteFormula(h) \/ UNCHANGED Mapped
<1> DEFINE c == [The(h) EXCEPT !.form = "tree", !.finalized = FALSE,
                 !.formula = IF The(h).form = "none" THEN True ELSE @]
<1>1. Holds(h) /\ SplitAndWrite(h, c) /\ The(h) \in GoodBody
  BY HeldBody DEF AndWith
<1>2. c \in GoodBody
  BY <1>1, ConstantFormulas DEF GoodBody, Rel_Body, Form, True
<1>3. Gives(h, View(c))
  BY <1>1, <1>2, SplitAndWriteGives
<1>4. CASE The(h).form = "none"
  <2>1. View(c) = [decl |-> The(h).decl, built |-> TRUE, formula |-> True]
    BY <1>1, <1>4 DEF View, GoodBody, Rel_Body
  <2>2. View(c) = Values!Built(Denotation(h), True)
    BY <1>1, <2>1, HeldWritten
  <2> QED BY <1>1, <1>3, <2>2, ValueOfHeld, ConstantFormulas, SameData, GivesSet
          DEF Values!WriteFormula
<1>5. CASE The(h).form # "none"
  <2>1. View(c) = View(The(h))
    BY <1>1, <1>5 DEF View, GoodBody, Rel_Body
  <2> QED BY <1>1, <1>3, <2>1, ValueOfHeld, GivesSame
<1> QED BY <1>4, <1>5

LEMMA DeclaringDeclares ==
  ASSUME HeapInv, NEW h \in Handle,
         (\E t \in UFTuples : GetLocal(h, t)) \/ (\E n \in Name : NameVar(h, n))
  PROVE  Values!Declare(h)
<1>1. Holds(h) /\ The(h) \in GoodBody
  BY HeldBody DEF GetLocal, NameVar
<1>2. PICK d \in Decl : /\ d.kind = The(h).decl.kind
                        /\ The(h).decl.Symbolic \subseteq d.Symbolic
                        /\ d.Symbolic \subseteq The(h).decl.Symbolic \cup UFTuples
                        /\ SplitAndWrite(h, [The(h) EXCEPT !.decl = d])
  <2>1. CASE \E t \in UFTuples : GetLocal(h, t)
    <3>1. PICK t \in UFTuples : GetLocal(h, t)
      BY <2>1
    <3> DEFINE d == [The(h).decl EXCEPT !.Symbolic = @ \cup {t}]
    <3>2. d \in Decl
      BY <1>1, UsageAssumption DEF GoodBody, Rel_Body, Decl
    <3>3. SplitAndWrite(h, [The(h) EXCEPT !.decl = d])
      BY <3>1 DEF GetLocal
    <3>4. /\ d.kind = The(h).decl.kind /\ The(h).decl.Symbolic \subseteq d.Symbolic
          /\ d.Symbolic \subseteq The(h).decl.Symbolic \cup UFTuples
      BY <1>1 DEF GoodBody, Rel_Body, Decl
    <3> QED BY <3>2, <3>3, <3>4
  <2>2. CASE \E n \in Name : NameVar(h, n)
    <3>1. PICK n \in Name : NameVar(h, n)
      BY <2>2
    <3> DEFINE d == [The(h).decl EXCEPT !.names = n]
    <3>2. d \in Decl
      BY <1>1 DEF GoodBody, Rel_Body, Decl
    <3>3. SplitAndWrite(h, [The(h) EXCEPT !.decl = d])
      BY <3>1 DEF NameVar
    <3>4. /\ d.kind = The(h).decl.kind /\ The(h).decl.Symbolic \subseteq d.Symbolic
          /\ d.Symbolic \subseteq The(h).decl.Symbolic \cup UFTuples
      BY <1>1 DEF GoodBody, Rel_Body, Decl
    <3> QED BY <3>2, <3>3, <3>4
  <2> QED BY <2>1, <2>2
<1> DEFINE c == [The(h) EXCEPT !.decl = d]
<1>3. c \in GoodBody
  BY <1>1, <1>2 DEF GoodBody, Rel_Body
<1>4. Gives(h, View(c))
  BY <1>1, <1>2, <1>3, SplitAndWriteGives
<1>5. View(c) = [Denotation(h) EXCEPT !.decl = d] /\ Denotation(h).decl = The(h).decl
  <2>1. View(c) = [decl |-> d, built |-> The(h).form # "none", formula |-> The(h).formula]
    BY <1>1 DEF View, GoodBody, Rel_Body
  <2> QED BY <1>1, <2>1, HeldWritten, ValueOfHeld DEF View
<1> QED BY <1>1, <1>2, <1>4, <1>5, ValueOfHeld, SameData, GivesSet DEF Values!Declare

LEMMA MakeLevelCarriedStutters ==
  ASSUME HeapInv, NEW h \in Handle, MakeLevelCarried(h) PROVE UNCHANGED Mapped
<1> DEFINE c == [The(h) EXCEPT !.form = "dnf"]
<1>1. Holds(h) /\ The(h).form # "none" /\ SplitAndWrite(h, c)
  BY DEF MakeLevelCarried
<1>2. c \in GoodBody /\ View(c) = View(The(h))
  BY <1>1, HeldBody DEF GoodBody, Rel_Body, Form, View
<1> QED BY <1>1, <1>2, SplitAndWriteGives, ValueOfHeld, GivesSame

\* Conjuncts of r that become a relation of their own.
LEMMA CopyConjunctTakes ==
  ASSUME HeapInv, NEW h \in Handle, NEW r \in Handle, CopyConjunct(h, r)
  PROVE  Values!TakeConjunct(h, r)
<1>1. Holds(r) /\ The(r).form = "dnf" /\ The(r) \in GoodBody
  BY HeldBody DEF CopyConjunct
<1>2. PICK g \in Conjuncts(The(r).formula) :
        Allocate(Heap, h, [The(r) EXCEPT !.formula = g], body)
  BY DEF CopyConjunct
<1> DEFINE c == [The(r) EXCEPT !.formula = g]
<1>3. c \in GoodBody
  BY <1>1, <1>2 DEF Conjuncts, GoodBody, Rel_Body
<1>4. Gives(h, View(c))
  BY <1>2, <1>3, AllocateGives
<1>5. View(c) = Values!Built(Denotation(r), g)
  <2>1. View(c) = [decl |-> The(r).decl, built |-> TRUE, formula |-> g]
    BY <1>1 DEF View, GoodBody, Rel_Body
  <2> QED BY <1>1, <2>1, HeldWritten
<1>6. g \in Values!Conjuncts(Denotation(r).formula)
  BY <1>1, <1>2, ValueOfHeld, SameData DEF View
<1> QED BY <1>1, <1>4, <1>5, <1>6, ValueOfHeld, GivesSet DEF Values!TakeConjunct

LEMMA SplitAllocateGives ==
  ASSUME HeapInv, NEW h \in Handle, NEW r \in Handle, h # r, Holds(r),
         NEW c \in GoodBody, NEW d \in GoodBody, NEW x \in Split(r),
         Allocate(Put(Heap, r, x), h, d, [body EXCEPT ![x] = c]),
         NEW k \in Handle
  PROVE  Denotation(k)' = IF k = h THEN View(d)
                          ELSE IF k = r THEN View(c) ELSE Denotation(k)
<1> DEFINE hp == Put(Heap, r, x)
           bodies == Over(x, c)
<1>1. /\ Sound(hp, bodies) /\ At(bodies, x) = View(c)
      /\ \A i \in Handle \ {r} : Denote(Heap, bodies, i) = Denotation(i)
  BY SplitGives
<1>2. Denotation(k)' = IF k = h THEN View(d) ELSE Denote(hp, bodies, k)
  BY <1>1, AllocateDenotes DEF Over
<1>3. Heap \in HeapType
  BY DEF HeapInv, Sound
<1>4. Denote(hp, bodies, k) = IF k = r THEN At(bodies, x) ELSE Denote(Heap, bodies, k)
  BY <1>3, PutDenotes
<1> HIDE DEF hp, bodies
<1> QED BY <1>1, <1>2, <1>4

LEMMA ExtractExtracts ==
  ASSUME HeapInv, NEW h \in Handle, NEW r \in Handle, ExtractByCarriedLevel(h, r)
  PROVE  Values!Extract(h, r)
<1> DEFINE d == [The(r) EXCEPT !.form = "dnf", !.finalized = TRUE]
           c(g) == [d EXCEPT !.formula = g]
<1>1. Holds(r) /\ The(r).form # "none" /\ The(r) \in GoodBody /\ h # r
  BY HeldBody, BodyAssumption DEF ExtractByCarriedLevel, Alive, Holds
<1>2. PICK fg \in Partitions(The(r).formula), x \in Split(r) :
        Allocate(Put(Heap, r, x), h, c(fg[2]), [body EXCEPT ![x] = c(fg[1])])
  BY DEF ExtractByCarriedLevel
<1>3. /\ fg[1] \in Formula /\ fg[2] \in Formula
      /\ fg[1].ufs \subseteq The(r).formula.ufs /\ fg[2].ufs \subseteq The(r).formula.ufs
  BY <1>2, PartitionUfs DEF Partitions
<1>4. ASSUME NEW g \in {fg[1], fg[2]}
      PROVE  c(g) \in GoodBody /\ View(c(g)) = Values!Built(Denotation(r), g)
  <2>1. c(g) \in GoodBody
    BY <1>1, <1>3 DEF GoodBody, Rel_Body, Form
  <2>2. View(c(g)) = [decl |-> The(r).decl, built |-> TRUE, formula |-> g]
    BY <1>1 DEF View, GoodBody, Rel_Body
  <2> QED BY <1>1, <2>1, <2>2, HeldWritten
<1> HIDE DEF c
<1>5. ASSUME NEW k \in Handle
      PROVE  Denotation(k)' = IF k = h THEN Values!Built(Denotation(r), fg[2])
                              ELSE IF k = r THEN Values!Built(Denotation(r), fg[1])
                              ELSE Denotation(k)
  BY <1>1, <1>2, <1>4, SplitAllocateGives
<1>6. fg \in Values!Partitions(Denotation(r).formula)
  BY <1>1, <1>2, ValueOfHeld, SameData DEF View
<1>7. Mapped' = [Mapped EXCEPT ![r] = Values!Built(@, fg[1]),
                               ![h] = Values!Built(Mapped[r], fg[2])]
  BY <1>1, <1>5 DEF Mapped
<1> QED BY <1>1, <1>6, <1>7, ValueOfHeld DEF Values!Extract, Mapped

-------------------------------------------------------------------------------
(* The operators of Relations.cc.                                          *)

LEMMA OperatorGives ==
  ASSUME HeapInv, NEW h \in Handle, NEW a \in Handle, NEW b \in Handle, NEW c \in GoodBody,
         Return(h, a, b, c, body)
  PROVE  Values!Consume(h, {a, b}, View(c))
  BY HeapSound, DenotationRead, ReturnGives, GivesConsume

LEMMA CombineIsBinary ==
  ASSUME HeapInv, NEW h \in Handle, NEW a \in Handle, NEW b \in Handle,
         NEW ctype \in Combine_Type, Combine2(h, a, b, ctype)
  PROVE  Values!Binary(h, a, b, ctype)
<1> DEFINE d == MergeDecls(The(a).decl, The(b).decl)
           f == Combine(ctype, The(a).formula, The(b).formula)
           c == [decl |-> d, finalized |-> TRUE, form |-> "tree", formula |-> f]
<1>1. /\ Holds(a) /\ Holds(b) /\ a # b /\ Return(h, a, b, c, body)
      /\ The(a).decl.kind = The(b).decl.kind
  BY DEF Combine2, Usable
<1>2. c \in GoodBody
  <2>1. The(a) \in GoodBody /\ The(b) \in GoodBody
    BY <1>1, HeldBody
  <2>2. d \in Decl /\ f \in Formula
    BY <1>1, ValueOfHeld, DeclClosed, FormulaClosed, ConstantFormulas DEF Argument_Tuple
  <2>3. /\ d.Symbolic = The(a).decl.Symbolic \cup The(b).decl.Symbolic
        /\ f.ufs = The(a).formula.ufs \cup The(b).formula.ufs
    BY CombineUfs DEF MergeDecls
  <2>4. c \in Rel_Body
    BY <2>2 DEF Rel_Body, Form
  <2> HIDE DEF d, f
  <2> QED BY <2>1, <2>3, <2>4 DEF GoodBody
<1>3. /\ Denotation(a).decl = The(a).decl /\ Denotation(a).formula = The(a).formula
      /\ Denotation(b).decl = The(b).decl /\ Denotation(b).formula = The(b).formula
  BY <1>1, ValueOfHeld DEF View
<1>4. View(c) = [decl |-> Values!MergeDecls(Denotation(a).decl, Denotation(b).decl),
                 built |-> TRUE,
                 formula |-> Values!Combine(ctype, Denotation(a).formula, Denotation(b).formula)]
  BY <1>3, SameData DEF View
<1>5. Values!Consume(h, {a, b}, View(c))
  BY <1>1, <1>2, OperatorGives
<1> QED BY <1>1, <1>3, <1>4, <1>5, ValueOfHeld DEF Values!Binary

LEMMA MismatchIsMismatch ==
  ASSUME HeapInv, NEW a \in Handle, NEW b \in Handle, CombineMismatch(a, b)
  PROVE  Values!Mismatch(a, b)
<1>1. /\ Holds(a) /\ Holds(b) /\ The(a).decl.kind # The(b).decl.kind
      /\ Leave(Consumed(a, b), body)
  BY DEF CombineMismatch, Usable
<1>2. ASSUME NEW k \in Handle
      PROVE  Denotation(k)' = IF k \in {a, b} THEN NullRel ELSE Denotation(k)
  <2>1. Denotation(k)' = Denote(Consumed(a, b), body, k)
    BY <1>1, HeapSound, ConsumedSound, LeaveDenotes
  <2> QED BY <2>1, ConsumedDenotes, DenotationRead
<1>3. Denotation(a).decl = The(a).decl /\ Denotation(b).decl = The(b).decl
  BY <1>1, ValueOfHeld DEF View
<1>4. Mapped' = [Mapped EXCEPT ![a] = NullRel, ![b] = NullRel]
  BY <1>2 DEF Mapped
<1> QED BY <1>1, <1>3, <1>4, ValueOfHeld DEF Values!Mismatch, Mapped

LEMMA OneOperandIsUnary ==
  ASSUME HeapInv, NEW h \in Handle, NEW a \in Handle,
         \/ Complement(h, a) \/ Lower_Bound(h, a) \/ Upper_Bound(h, a) \/ Approximate(h, a)
  PROVE  Values!Unary(h, a)
<1> DEFINE g == The(a).formula
<1>1. Holds(a) /\ The(a) \in GoodBody /\ g \in Formula
  BY HeldBody, ValueOfHeld
     DEF Complement, Lower_Bound, Upper_Bound, Approximate, Usable
<1>2. PICK f \in {Not(g), UnknownAsFalse(g), UnknownAsTrue(g)} \cup Approximations(g),
           form \in {"tree", "dnf"} :
        Return(h, a, a, [The(a) EXCEPT !.finalized = TRUE, !.form = form, !.formula = f], body)
  BY DEF Complement, Lower_Bound, Upper_Bound, Approximate, InDNF
<1> DEFINE c == [The(a) EXCEPT !.finalized = TRUE, !.form = form, !.formula = f]
<1>3. f \in Formula /\ f.ufs = g.ufs
  <2>1. Not(g) \in Formula /\ UnknownAsFalse(g) \in Formula /\ UnknownAsTrue(g) \in Formula
    BY <1>1, FormulaClosed DEF Argument_Tuple, Combine_Type
  <2>2. Not(g).ufs = g.ufs /\ UnknownAsFalse(g).ufs = g.ufs /\ UnknownAsTrue(g).ufs = g.ufs
    BY <1>1 DEF Not, UnknownAsFalse, UnknownAsTrue, Formula
  <2> QED BY <1>2, <2>1, <2>2 DEF Approximations
<1>4. c \in GoodBody
  BY <1>1, <1>3 DEF GoodBody, Rel_Body, Form
<1>5. View(c) = Values!Built(Denotation(a), f)
  <2>1. View(c) = [decl |-> The(a).decl, built |-> TRUE, formula |-> f]
    BY <1>1 DEF View, GoodBody, Rel_Body
  <2> QED BY <1>1, <2>1, HeldWritten
<1>6. Values!Consume(h, {a}, View(c))
  <2>1. Values!Consume(h, {a, a}, View(c))
    BY <1>2, <1>4, OperatorGives
  <2> QED BY <2>1
<1>7. Denotation(a).formula = g
  BY <1>1, ValueOfHeld DEF View
<1> QED BY <1>1, <1>2, <1>5, <1>6, <1>7, ValueOfHeld, SameData DEF Values!Unary

\* An equivalent representation under a handle changes no value.
LEMMA SettledDenotes ==
  ASSUME HeapInv, NEW x \in Body, NEW c, View(c) = View(body[x]), NEW k \in Handle
  PROVE  Denote(Heap, [body EXCEPT ![x] = c], k) = Denotation(k)
<1>1. CASE Heap.held[k] = x
  <2>1. Denote(Heap, [body EXCEPT ![x] = c], k) = View(c)
    BY <1>1, HeapSound, WriteSeen DEF Denote
  <2>2. Denote(Heap, body, k) = View(body[x])
    BY <1>1 DEF Denote, At
  <2> QED BY <2>1, <2>2, DenotationRead
<1>2. CASE Heap.held[k] # x
  BY <1>2, HeapSound, WriteUnseen, DenotationRead
<1> QED BY <1>1, <1>2

LEMMA ReturnOperandGives ==
  ASSUME HeapInv, NEW h \in Handle, NEW a \in Handle, NEW b \in Handle, NEW r \in {a, b},
         Alive(r), Holds(r) => Usable(r), ReturnOperand(h, a, b, r)
  PROVE  Values!Consume(h, {a, b}, Denotation(r))
<1>1. PICK bodies : /\ Leave(Put(Consumed(a, b), h, rel_body[r]), bodies)
                    /\ Sound(Put(Consumed(a, b), h, rel_body[r]), bodies)
                    /\ At(bodies, rel_body[r]) = Denotation(r)
                    /\ \A k \in Handle : Denote(Heap, bodies, k) = Denotation(k)
  <2>1. CASE ~Holds(r)
    <3>1. rel_body[r] = NullRel /\ Denotation(r) = NullRel
      BY <2>1, ValueOfOthers DEF Alive
    <3>2. Sound(Put(Consumed(a, b), h, rel_body[r]), body)
      BY <3>1, HeapSound, ConsumedSound, PutSound, BodyAssumption DEF Target
    <3>3. At(body, rel_body[r]) = Denotation(r)
      BY <3>1, BodyAssumption DEF At
    <3>4. Leave(Put(Consumed(a, b), h, rel_body[r]), body)
      BY <2>1 DEF ReturnOperand
    <3> QED BY <3>2, <3>3, <3>4, DenotationRead
  <2>2. CASE Holds(r)
    <3> DEFINE x == rel_body[r]
               c == [The(r) EXCEPT !.finalized = TRUE]
               bodies == [body EXCEPT ![x] = c]
    <3>1. Leave(Put(Consumed(a, b), h, x), bodies)
      BY <2>2 DEF ReturnOperand, The
    <3>2. /\ x \in Body /\ c \in GoodBody /\ c.finalized
          /\ View(c) = View(The(r)) /\ The(r) = body[x]
      BY <2>2, HeldBody DEF Usable, View, The, GoodBody, Rel_Body
    <3> HIDE DEF c
    <3>3. At(bodies, x) = Denotation(r)
      BY <2>2, <3>2, HeapSound, WriteSeen, ValueOfHeld
    <3>4. \A k \in Handle : Denote(Heap, bodies, k) = Denotation(k)
      BY <3>2, SettledDenotes
    <3>5. Sound(Consumed(a, b), bodies)
      BY <3>2, HeapSound, WriteSound, ConsumedSound
    <3>6. bodies[x] \in GoodBody /\ bodies[x].finalized
      BY <3>2 DEF HeapInv, Sound
    <3>7. Sound(Put(Consumed(a, b), h, x), bodies)
      <4> HIDE DEF bodies
      <4> QED BY <3>2, <3>5, <3>6, PutSound DEF Target
    <3> HIDE DEF bodies
    <3> QED BY <3>1, <3>3, <3>4, <3>7
  <2> QED BY <2>1, <2>2
<1>2. Consumed(a, b) \in HeapType
  BY HeapSound, ConsumedSound DEF Sound
<1>3. ASSUME NEW k \in Handle
      PROVE  Denotation(k)' = IF k = h THEN Denotation(r)
                              ELSE IF k \in {a, b} THEN NullRel ELSE Denotation(k)
  <2>1. Denotation(k)' = IF k = h THEN Denotation(r) ELSE Denote(Consumed(a, b), bodies, k)
    BY <1>1, <1>2, LeaveDenotes, PutDenotes
  <2> QED BY <1>1, <2>1, ConsumedDenotes
<1> QED BY <1>3, GivesConsume DEF Regurgitates

LEMMA CombineNullPasses ==
  ASSUME HeapInv, NEW h \in Handle, NEW a \in Handle, NEW b \in Handle,
         NEW ctype \in Combine_Type, CombineNull(h, a, b, ctype)
  PROVE  Values!Pass(h, a, b, ctype)
<1> DEFINE r == IF a = b \/ ~Holds(b) \/ ctype = "Comb_AndNot" THEN a ELSE b
<1>1. /\ Alive(a) /\ Alive(b) /\ Alive(r)
      /\ a = b \/ ~Holds(a) \/ ~Holds(b)
      /\ Holds(r) => Usable(r)
      /\ ReturnOperand(h, a, b, r) /\ r \in {a, b} /\ r \in Handle
  BY DEF CombineNull
<1>2. ASSUME NEW k \in {a, b}
      PROVE  Denotation(k) # Dead /\ (~Holds(k) <=> Denotation(k) = NullRel)
  <2>1. Alive(k) /\ k \in Handle
    BY <1>1
  <2> QED BY <2>1, ValueOfHeld, ValueOfOthers, ValueAssumption DEF Alive
<1>3. Values!Consume(h, {a, b}, Denotation(r))
  <2> HIDE DEF r
  <2> QED BY <1>1, ReturnOperandGives
<1>4. Denotation(r) = IF a = b \/ Denotation(b) = NullRel \/ ctype = "Comb_AndNot"
                      THEN Denotation(a) ELSE Denotation(b)
  BY <1>2
<1> HIDE DEF r
<1> QED BY <1>1, <1>2, <1>3, <1>4 DEF Values!Pass

\* Of functions of the input only, Domain evacuates nothing and Range what
\* it consumed.
LEMMA ProjectProjects ==
  ASSUME InputOnly, HeapInv, NEW h \in Handle, NEW a \in Handle, NEW t \in Argument_Tuple,
         Project(h, a, t)
  PROVE  Values!Project(h, a, t)
<1> DEFINE x == rel_body[a]
           f == The(a).formula
           d == ProjectDecl(The(a).decl, f, t)
           g == ProjectFormula(Evacuate(f, t), t)
           c == [decl |-> d, finalized |-> TRUE, form |-> "tree", formula |-> g]
<1>1. Usable(a) /\ Holds(a) /\ x \in Body /\ The(a) \in GoodBody /\ The(a) = body[x]
  BY HeldBody DEF Project, Usable, The
<1>2. f \in Formula /\ The(a).decl \in Decl
  BY <1>1, ValueOfHeld
<1>3. The(a).decl.Symbolic \subseteq {"in"} /\ f.ufs \subseteq The(a).decl.Symbolic
  BY <1>1 DEF GoodBody, InputOnly
<1>4. ToProject(a, t) = Evacuate(f, t)
  BY <1>3 DEF ToProject, Evacuate
<1>5. Return(h, a, a, c, Evacuated(a, t))
  BY <1>4 DEF Project
<1>6. c \in GoodBody
  <2>1. d \in Decl /\ g \in Formula
    BY <1>2, DeclClosed, FormulaClosed DEF Combine_Type
  <2>2. g.ufs \subseteq d.Symbolic /\ d.Symbolic \subseteq {"in"}
    BY <1>2, <1>3, ProjectUfs DEF ProjectDecl
  <2> HIDE DEF d, g
  <2> QED BY <2>1, <2>2 DEF GoodBody, Rel_Body, Form
<1>7. /\ Sound(Heap, Evacuated(a, t))
      /\ \A k \in Handle : Denote(Heap, Evacuated(a, t), k) = Denotation(k)
  <2> DEFINE e == Simplified(The(a))
  <2>1. e \in GoodBody /\ (The(a).finalized => e.finalized)
    BY <1>1, SimplifiedGood
  <2>2. View(e) = View(The(a)) /\ e.decl = The(a).decl
    BY <1>1 DEF Usable, View, Simplified, GoodBody, Rel_Body
  <2>3. Evacuated(a, t) \in {body, [body EXCEPT ![x] = e]}
    BY <1>1, <1>3, <2>2 DEF Evacuated
  <2>4. Sound(Heap, [body EXCEPT ![x] = e])
    <3> HIDE DEF e
    <3> QED BY <1>1, <2>1, HeldBody, HeapSound, WriteSound DEF Heap
  <2>5. \A k \in Handle : Denote(Heap, [body EXCEPT ![x] = e], k) = Denotation(k)
    <3> HIDE DEF e
    <3> QED BY <1>1, <2>2, SettledDenotes
  <2> QED BY <2>3, <2>4, <2>5, HeapSound, DenotationRead
<1>8. Values!Consume(h, {a}, View(c))
  <2> HIDE DEF c
  <2>1. Regurgitates(h, {a, a}, View(c))
    BY <1>5, <1>6, <1>7, ReturnGives
  <2>2. Regurgitates(h, {a}, View(c))
    BY <2>1 DEF Regurgitates
  <2> QED BY <2>2, GivesConsume
<1>9. Denotation(a).decl = The(a).decl /\ Denotation(a).formula = f
  BY <1>1, ValueOfHeld DEF View
<1>10. View(c) = [decl |-> Values!ProjectDecl(The(a).decl, f, t), built |-> TRUE,
                  formula |-> Values!ProjectFormula(Values!Evacuate(f, t), t)]
  BY SameData DEF View
<1> QED BY <1>1, <1>8, <1>9, <1>10, ValueOfHeld DEF Values!Project

-------------------------------------------------------------------------------
LEMMA InitValues == Init => Values!Init
  BY BodyAssumption DEF Init, Values!Init, Denotation, Holds

LEMMA StepValues ==
  ASSUME Careful, HeapInv, Operation PROVE Values!Next \/ UNCHANGED Mapped
<1>1. PICK h \in Handle :
        \/ NewNull(h) \/ (\E d \in Decl : New(h, d)) \/ Destroy(h)
        \/ (\E f \in Formula : Build(h, f)) \/ Finalize(h) \/ Simplify(h)
        \/ AndWith(h) \/ (\E t \in UFTuples : GetLocal(h, t))
        \/ (\E n \in Name : NameVar(h, n)) \/ MakeLevelCarried(h)
        \/ RemoveFirstConjunct(h)
        \/ \E r \in Handle : \/ CopyConstruct(h, r) \/ Assign(h, r) \/ CopyConjunct(h, r)
                             \/ ExtractByCarriedLevel(h, r) \/ CombineMismatch(h, r)
        \/ \E a \in Handle : \/ Complement(h, a) \/ Lower_Bound(h, a)
                             \/ Upper_Bound(h, a) \/ Approximate(h, a)
                             \/ \E t \in Argument_Tuple : Project(h, a, t)
        \/ \E a, b \in Handle, ctype \in Combine_Type :
             Combine2(h, a, b, ctype) \/ CombineNull(h, a, b, ctype)
  BY DEF Operation
<1>2. \/ Values!MakeNull(h) \/ Values!Create(h) \/ Values!Destroy(h)
      \/ Values!WriteFormula(h) \/ Values!Declare(h) \/ Values!Settle(h)
      \/ \E a \in Handle :
           \/ Values!Copy(h, a) \/ Values!TakeConjunct(h, a) \/ Values!Extract(h, a)
           \/ Values!Mismatch(h, a) \/ Values!Unary(h, a)
           \/ \E t \in Argument_Tuple : Values!Project(h, a, t)
           \/ \E b \in Handle, ctype \in Combine_Type :
                Values!Pass(h, a, b, ctype) \/ Values!Binary(h, a, b, ctype)
      \/ UNCHANGED Mapped
  <2>1. CASE NewNull(h) \/ (\E d \in Decl : New(h, d)) \/ Destroy(h)
    BY <2>1, NewNullMakesNull, NewCreates, DestroyDestroys
  <2>2. CASE \/ (\E f \in Formula : Build(h, f)) \/ Finalize(h) \/ Simplify(h)
             \/ RemoveFirstConjunct(h)
    BY <2>2, BuildWrites, FinalizeStutters, SimplifySettles, RemovalWrites DEF Careful
  <2>3. CASE \/ AndWith(h) \/ (\E t \in UFTuples : GetLocal(h, t))
             \/ (\E n \in Name : NameVar(h, n)) \/ MakeLevelCarried(h)
    BY <2>3, AndWithWrites, DeclaringDeclares, MakeLevelCarriedStutters
  <2>4. ASSUME NEW r \in Handle, CopyConstruct(h, r) \/ Assign(h, r)
        PROVE  Values!Copy(h, r)
    BY <2>4, CopyIntoCopies DEF CopyConstruct, Assign
  <2>5. ASSUME NEW r \in Handle,
               CopyConjunct(h, r) \/ ExtractByCarriedLevel(h, r) \/ CombineMismatch(h, r)
        PROVE  Values!TakeConjunct(h, r) \/ Values!Extract(h, r) \/ Values!Mismatch(h, r)
    BY <2>5, CopyConjunctTakes, ExtractExtracts, MismatchIsMismatch
  <2>6. ASSUME NEW a \in Handle,
               \/ Complement(h, a) \/ Lower_Bound(h, a) \/ Upper_Bound(h, a)
               \/ Approximate(h, a)
        PROVE  Values!Unary(h, a)
    BY <2>6, OneOperandIsUnary
  <2>7. ASSUME NEW a \in Handle, NEW t \in Argument_Tuple, Project(h, a, t)
        PROVE  Values!Project(h, a, t)
    BY <2>7, ProjectProjects DEF Careful
  <2>8. ASSUME NEW a \in Handle, NEW b \in Handle, NEW ctype \in Combine_Type,
               Combine2(h, a, b, ctype) \/ CombineNull(h, a, b, ctype)
        PROVE  Values!Pass(h, a, b, ctype) \/ Values!Binary(h, a, b, ctype)
    BY <2>8, CombineIsBinary, CombineNullPasses
  <2> QED BY <1>1, <2>1, <2>2, <2>3, <2>4, <2>5, <2>6, <2>7, <2>8
<1>3. Values!Argument_Tuple = Argument_Tuple /\ Values!Combine_Type = Combine_Type
  BY SameData
<1> QED BY <1>2, <1>3 DEF Values!Next

(* Relation.h: a Relation is a value.  Every behaviour of the counted,     *)
(* shared and split bodies is, read through the handles, a behaviour of    *)
(* RelationValues: no operation reads or writes a value it is not called   *)
(* on, whichever handles happened to share a body.                         *)
THEOREM ImplementsValues == ASSUME Careful PROVE Spec => ValuesSpec
<1>1. Init => Values!Init
  BY InitValues
<1>2. ASSUME IInv, [Next]_vars PROVE [Values!Next]_([h \in Handle |-> Denotation(h)])
  <2>1. CASE UNCHANGED vars
    <3>1. UNCHANGED [h \in Handle |-> Denotation(h)]
      BY <2>1 DEF vars, Denotation, Holds, The
    <3> QED BY <3>1
  <2>2. CASE HeapInv /\ Operation
    BY <2>2, StepValues DEF Mapped
  <2>3. ASSUME HeapInv, NEW h \in Handle, IsDefiniteTautology(h)
        PROVE  Values!Next \/ UNCHANGED [k \in Handle |-> Denotation(k)]
    BY <2>3, AskingSettles DEF Values!Next, Mapped
  <2>4. CASE TautologyAnswered
    <3>1. UNCHANGED [h \in Handle |-> Denotation(h)]
      BY <2>4 DEF TautologyAnswered, Denotation, Holds, The
    <3> QED BY <3>1
  <2> QED BY <1>2, <2>1, <2>2, <2>3, <2>4, NextCases
<1> QED BY <1>1, <1>2, Invariance, PTL DEF Spec, ValuesSpec, Values!Spec
===============================================================================
