------------------------- MODULE FunctionSymbolsProofs -------------------------
(***************************************************************************)
(* Proofs about FunctionSymbols, for all functions, arities and tuples.    *)
(* An operator works on a pair of a relation and the remap fields (State). *)
(* The first lemmas say of each helper that it returns such a pair, and    *)
(* that it returns the fields as it found them if these were reset; then   *)
(* there is one lemma for each action.                                     *)
(***************************************************************************)
EXTENDS FunctionSymbols, TLAPS

\* A conjunct that says so when a function was dropped from it.
Sound == {c \in Conjunct : c.lost => ~c.exact}

SoundRelation == [Symbolic : SUBSET Local, set : BOOLEAN, conjs : Seq(Sound)]

Field == [Local -> Local]
MaybeLost == [Local -> Local \cup {Wildcard}]

State == [r : SoundRelation, m : Field]

\* t is a state, with the fields reset if they are in s.
Keeps(s, t) == /\ t \in State
               /\ s.m = Identity => t.m = Identity

-------------------------------------------------------------------------------
(* Conjuncts and fields.                                                   *)

LEMMA WildcardIsNoVariable == Wildcard \notin Local
  BY DEF Wildcard, Local, Argument_Tuple

LEMMA AtIsVariable ==
  ASSUME NEW v \in Local, NEW t \in Argument_Tuple
  PROVE  At(v, t) \in Local /\ At(v, t).fun = v.fun /\ At(v, t).of = t
  BY DEF At, Local

\* What maps the elements of a sequence makes a sequence.
LEMMA MapSeq ==
  ASSUME NEW S, NEW T, NEW s \in Seq(S), NEW t,
         t = [i \in DOMAIN s |-> t[i]], \A i \in DOMAIN s : t[i] \in T
  PROVE  t \in Seq(T) /\ DOMAIN t = DOMAIN s
  <1>1. Len(s) \in Nat /\ DOMAIN s = 1 .. Len(s)
    OBVIOUS
  <1>2. t \in [1 .. Len(s) -> T]
    BY <1>1
  <1> QED
    BY <1>1, <1>2

LEMMA ElementOf ==
  ASSUME NEW S, NEW s \in Seq(S), NEW i \in DOMAIN s
  PROVE  s[i] \in S
  OBVIOUS

LEMMA ImageFields ==
  ASSUME NEW c \in Conjunct, NEW m \in MaybeLost
  PROVE  /\ Image(c, m) \in Conjunct
         /\ Image(c, m).vars = {m[v] : v \in c.vars} \ {Wildcard}
         /\ Image(c, m).lost = (c.lost \/ \E v \in c.vars : m[v] = Wildcard)
         /\ Image(c, m).exact = c.exact
         /\ Image(c, m).zeros = c.zeros
  <1>1. {m[v] : v \in c.vars} \ {Wildcard} \subseteq Local
    BY DEF MaybeLost, Conjunct
  <1> QED
    BY <1>1 DEF Image, Conjunct

LEMMA ImageSound ==
  ASSUME NEW c \in Sound, NEW m \in Field
  PROVE  Image(c, m) \in Sound
  <1>1. m \in MaybeLost /\ c \in Conjunct
    BY DEF Field, MaybeLost, Sound
  <1>2. \A v \in c.vars : m[v] # Wildcard
    BY <1>1, WildcardIsNoVariable DEF Conjunct, Field
  <1> QED
    BY <1>1, <1>2, ImageFields DEF Sound

\* A conjunct that loses functions is sound if it is made inexact for them.
LEMMA LossSound ==
  ASSUME NEW c \in Sound, NEW m \in MaybeLost, NEW S,
         \A v \in c.vars : m[v] = Wildcard => v \in S
  PROVE  make_inexact(Image(c, m), S) \in Sound
  <1>1. c \in Conjunct /\ Image(c, m) \in Conjunct
    BY ImageFields DEF Sound
  <1>2. CASE S = {}
    BY <1>1, <1>2, ImageFields DEF make_inexact, Sound
  <1>3. CASE S # {}
    <2>1. make_inexact(Image(c, m), S) = [Image(c, m) EXCEPT !.exact = FALSE]
      BY <1>3 DEF make_inexact
    <2> QED
      BY <1>1, <2>1 DEF Conjunct, Sound
  <1> QED
    BY <1>2, <1>3

LEMMA ResetField ==
  ASSUME NEW m \in MaybeLost, NEW S, \A v \in Local \ S : m[v] \in Local
  PROVE  /\ reset_remap_field(m, S) \in Field
         /\ (\A v \in Local \ S : m[v] = v) => reset_remap_field(m, S) = Identity
  BY DEF reset_remap_field, MaybeLost, Field, Identity

-------------------------------------------------------------------------------
(* Relations and states.                                                   *)

LEMMA StateParts ==
  ASSUME NEW s \in State
  PROVE  /\ s.r \in SoundRelation /\ s.m \in Field /\ s.m \in MaybeLost
         /\ s.r.conjs \in Seq(Sound) /\ s.r.Symbolic \subseteq Local
         /\ \A i \in DOMAIN s.r.conjs : /\ s.r.conjs[i] \in Sound
                                        /\ s.r.conjs[i] \in Conjunct
                                        /\ s.r.conjs[i].vars \subseteq Local
  <1>1. s.r \in SoundRelation /\ s.m \in Field
    BY DEF State
  <1>2. s.r.conjs \in Seq(Sound) /\ s.r.Symbolic \subseteq Local
    BY <1>1 DEF SoundRelation
  <1>3. \A i \in DOMAIN s.r.conjs : s.r.conjs[i] \in Sound
    BY <1>2
  <1> QED
    BY <1>1, <1>2, <1>3 DEF Field, MaybeLost, Sound, Conjunct

\* A relation whose conjuncts are replaced by sound ones.
LEMMA ConjsReplaced ==
  ASSUME NEW r \in SoundRelation, NEW cs,
         cs = [i \in DOMAIN r.conjs |-> cs[i]], \A i \in DOMAIN r.conjs : cs[i] \in Sound
  PROVE  /\ [r EXCEPT !.conjs = cs] \in SoundRelation
         /\ [r EXCEPT !.conjs = cs].Symbolic = r.Symbolic
         /\ [r EXCEPT !.conjs = cs].conjs = cs
  <1>1. r.conjs \in Seq(Sound)
    BY DEF SoundRelation
  <1>2. cs \in Seq(Sound)
    BY <1>1, MapSeq
  <1> QED
    BY <1>2 DEF SoundRelation

LEMMA RenameSound ==
  ASSUME NEW r \in SoundRelation, NEW m \in Field
  PROVE  /\ Rename(r, m) \in SoundRelation
         /\ Rename(r, m).Symbolic = r.Symbolic
  <1> DEFINE cs == [i \in DOMAIN r.conjs |-> Image(r.conjs[i], m)]
  <1>1. \A i \in DOMAIN r.conjs : r.conjs[i] \in Sound
    BY DEF SoundRelation
  <1>2. \A i \in DOMAIN r.conjs : cs[i] \in Sound
    BY <1>1, ImageSound
  <1>3. Rename(r, m) = [r EXCEPT !.conjs = cs]
    BY DEF Rename
  <1>4. cs = [i \in DOMAIN r.conjs |-> cs[i]]
    OBVIOUS
  <1> HIDE DEF cs
  <1> QED
    BY <1>2, <1>3, <1>4, ConjsReplaced

LEMMA RewrittenSound ==
  ASSUME NEW r \in SoundRelation, NEW cs, \A i \in DOMAIN r.conjs : cs[i] \in Sound
  PROVE  /\ Rewritten(r, cs) \in SoundRelation
         /\ Rewritten(r, cs).Symbolic = r.Symbolic
  <1> DEFINE ds == [i \in DOMAIN r.conjs |-> [cs[i] EXCEPT !.zeros = -1]]
  <1>1. ASSUME NEW i \in DOMAIN r.conjs
        PROVE  ds[i] \in Sound
    <2>1. cs[i] \in Sound /\ cs[i] \in Conjunct
      BY DEF Sound
    <2>2. -1 \in -1 .. MaxZeros
      BY ArityAssumption
    <2>3. [cs[i] EXCEPT !.zeros = -1] \in Conjunct
      BY <2>1, <2>2 DEF Conjunct
    <2>4. [cs[i] EXCEPT !.zeros = -1].lost = cs[i].lost
          /\ [cs[i] EXCEPT !.zeros = -1].exact = cs[i].exact
      BY <2>1 DEF Conjunct
    <2> QED
      BY <2>1, <2>3, <2>4 DEF Sound
  <1>2. Rewritten(r, cs) = [r EXCEPT !.conjs = ds] /\ ds = [i \in DOMAIN r.conjs |-> ds[i]]
    BY DEF Rewritten
  <1> HIDE DEF ds
  <1> QED
    BY <1>1, <1>2, ConjsReplaced

LEMMA CloneKeeps ==
  ASSUME NEW s \in State
  PROVE  Keeps(s, Clone(s))
  <1> DEFINE m == reset_remap_field(s.m, s.r.Symbolic)
  <1>1. \A v \in Local : s.m[v] \in Local
    BY StateParts DEF Field
  <1>2. m \in Field
    BY <1>1, StateParts, ResetField
  <1>3. s.m = Identity => m = Identity
    BY StateParts, ResetField DEF Identity
  <1>4. Rename(s.r, m) \in SoundRelation
    BY <1>2, StateParts, RenameSound
  <1> QED
    BY <1>2, <1>3, <1>4 DEF Clone, Keeps, State

LEMMA SplitKeeps ==
  ASSUME NEW s \in State, NEW t \in Split(s)
  PROVE  Keeps(s, t)
  BY CloneKeeps DEF Split, Keeps

LEMMA MovedSound ==
  ASSUME NEW s \in State, NEW c \in Sound, NEW z \in 0 .. MaxZeros
  PROVE  Moved(c, s, z) \in Sound
  <1> DEFINE M == Moves(s.r, z)
             m == [v \in Local |-> IF v \in M THEN At(v, "in") ELSE s.m[v]]
  <1>1. z \in -1 .. MaxZeros
    BY ArityAssumption
  <1>2. CASE M = {}
    <2>1. Moved(c, s, z) = [c EXCEPT !.zeros = z]
      BY <1>2 DEF Moved
    <2> QED
      BY <2>1, <1>1 DEF Sound, Conjunct
  <1>3. CASE M # {}
    <2>1. m \in Field
      BY StateParts, AtIsVariable DEF Field, Argument_Tuple
    <2>2. Image(c, m) \in Sound
      BY <2>1, ImageSound
    <2>3. Moved(c, s, z) = [Image(c, m) EXCEPT !.zeros = z, !.clash = FALSE]
      BY <1>3 DEF Moved
    <2> QED
      BY <2>2, <2>3, <1>1 DEF Sound, Conjunct
  <1> QED
    BY <1>2, <1>3

LEMMA SettleKeeps ==
  ASSUME NEW s \in State, NEW t \in Settle(s)
  PROVE  Keeps(s, t)
  <1>1. PICK z \in [DOMAIN s.r.conjs -> 0 .. MaxZeros] : t = Settled(s, z)
    BY DEF Settle
  <1> DEFINE cs == [i \in DOMAIN s.r.conjs |-> Moved(s.r.conjs[i], s, z[i])]
  <1>2. \A i \in DOMAIN s.r.conjs : cs[i] \in Sound
    BY StateParts, MovedSound
  <1>3. t.r = [s.r EXCEPT !.conjs = cs] /\ cs = [i \in DOMAIN s.r.conjs |-> cs[i]]
    BY <1>1 DEF Settled
  <1>4. t.r \in SoundRelation
    <2>1. s.r \in SoundRelation
      BY StateParts
    <2> HIDE DEF cs
    <2> QED
      BY <1>2, <1>3, <2>1, ConjsReplaced
  <1>5. t = [r |-> t.r, m |-> t.m] /\ t.m \in {s.m, reset_remap_field(s.m, s.r.Symbolic)}
    BY <1>1 DEF Settled
  <1>6. t.m \in Field /\ (s.m = Identity => t.m = Identity)
    <2>1. \A v \in Local : s.m[v] \in Local
      BY StateParts DEF Field
    <2>2. reset_remap_field(s.m, s.r.Symbolic) \in Field
      BY <2>1, StateParts, ResetField
    <2>3. s.m = Identity => reset_remap_field(s.m, s.r.Symbolic) = Identity
      BY StateParts, ResetField DEF Identity
    <2> QED
      BY <1>5, <2>2, <2>3, StateParts
  <1> QED
    BY <1>4, <1>5, <1>6 DEF Keeps, State

LEMMA AlignKeeps ==
  ASSUME NEW s \in State, NEW fate, \A t \in Argument_Tuple :
           fate[t] \in Argument_Tuple \cup {"unknown"}
  PROVE  /\ Keeps(s, Align(s, fate))
         /\ Align(s, fate).r \in SoundRelation
  <1> DEFINE kept == {v \in s.r.Symbolic : fate[v.of] # "unknown"}
             moved == {v \in kept : fate[v.of] # v.of}
             m == [v \in Local |-> IF v \in moved THEN At(v, fate[v.of]) ELSE s.m[v]]
             S == {At(v, fate[v.of]) : v \in kept}
             n == IF moved = {} THEN s.m ELSE reset_remap_field(s.m, s.r.Symbolic)
  <1>1. \A v \in kept : At(v, fate[v.of]) \in Local
    <2> SUFFICES ASSUME NEW v \in kept PROVE At(v, fate[v.of]) \in Local
      OBVIOUS
    <2>1. v \in Local /\ v.of \in Argument_Tuple
      BY StateParts DEF Local
    <2>2. fate[v.of] \in Argument_Tuple
      BY <2>1
    <2> QED
      BY <2>1, <2>2, AtIsVariable
  <1>2. m \in Field /\ S \subseteq Local
    BY <1>1, StateParts DEF Field
  <1>3. Rename(s.r, m) \in SoundRelation
    BY <1>2, StateParts, RenameSound
  <1>4. [Rename(s.r, m) EXCEPT !.Symbolic = S] \in SoundRelation
    BY <1>2, <1>3 DEF SoundRelation
  <1>5. n \in Field /\ (s.m = Identity => n = Identity)
    <2>1. \A v \in Local : s.m[v] \in Local
      BY StateParts DEF Field
    <2>2. reset_remap_field(s.m, s.r.Symbolic) \in Field
      BY <2>1, StateParts, ResetField
    <2>3. s.m = Identity => reset_remap_field(s.m, s.r.Symbolic) = Identity
      BY StateParts, ResetField DEF Identity
    <2> QED
      BY <2>2, <2>3, StateParts
  <1>6. Align(s, fate) = [r |-> [Rename(s.r, m) EXCEPT !.Symbolic = S], m |-> n]
    BY DEF Align
  <1> HIDE DEF m, S, n
  <1> QED
    BY <1>4, <1>5, <1>6 DEF Keeps, State

LEMMA EvacuateKeeps ==
  ASSUME NEW s \in State, NEW t \in Argument_Tuple
  PROVE  Keeps(s, EvacuateFrom(s, t))
  <1> DEFINE touched == {v \in Used(s.r) : v.of = t}
             m == [v \in Local |-> IF v \in touched THEN At(v, Other(t)) ELSE s.m[v]]
             r1 == Rewritten(s.r, Rename(s.r, m).conjs)
             S == r1.Symbolic \cup {At(v, Other(t)) : v \in touched}
             n == reset_remap_field(s.m, touched)
  <1>1. Other(t) \in Argument_Tuple
    BY DEF Other, Argument_Tuple
  <1>2. touched \subseteq Local
    BY StateParts DEF Used
  <1>3. \A v \in touched : At(v, Other(t)) \in Local
    BY <1>1, <1>2, AtIsVariable
  <1>4. m \in Field
    BY <1>3, StateParts DEF Field
  <1>5. \A i \in DOMAIN s.r.conjs : Rename(s.r, m).conjs[i] \in Sound
    <2>1. \A i \in DOMAIN s.r.conjs : Image(s.r.conjs[i], m) \in Sound
      BY <1>4, StateParts, ImageSound
    <2>2. Rename(s.r, m).conjs = [i \in DOMAIN s.r.conjs |-> Image(s.r.conjs[i], m)]
      BY StateParts DEF Rename, SoundRelation
    <2> QED
      BY <2>1, <2>2
  <1>6. r1 \in SoundRelation /\ r1.Symbolic \subseteq Local
    <2>1. s.r \in SoundRelation
      BY StateParts
    <2>2. r1 \in SoundRelation
      BY <1>5, <2>1, RewrittenSound
    <2> QED
      BY <2>2 DEF SoundRelation
  <1>7. [r1 EXCEPT !.Symbolic = S] \in SoundRelation
    BY <1>3, <1>6 DEF SoundRelation
  <1>8. n \in Field /\ (s.m = Identity => n = Identity)
    <2>1. \A v \in Local : s.m[v] \in Local
      BY StateParts DEF Field
    <2>2. n \in Field
      BY <2>1, StateParts, ResetField
    <2>3. s.m = Identity => n = Identity
      BY StateParts, ResetField DEF Identity
    <2> QED
      BY <2>2, <2>3
  <1>9. EvacuateFrom(s, t) = [r |-> [r1 EXCEPT !.Symbolic = S], m |-> n]
    <2>1. [r1 EXCEPT !.Symbolic = @ \cup {At(v, Other(t)) : v \in touched}]
            = [r1 EXCEPT !.Symbolic = S]
      BY DEF S
    <2> QED
      BY <2>1 DEF EvacuateFrom
  <1> HIDE DEF r1, S, n
  <1> QED
    BY <1>7, <1>8, <1>9 DEF Keeps, State

-------------------------------------------------------------------------------
(* The invariant.  NotOfInput is what Composition needs to leave the remap *)
(* fields alone: no pair that is still to be composed renames f(in).       *)

SoundPair == [conj1 : Sound, conj2 : Sound, conj3 : Sound, to1 : Fate, to2 : Fate]

SoundComposing == [h : Handle, first : Seq(Sound), second : Seq(Sound), pairs : Seq(SoundPair)]

IInv == /\ rel \in [Handle -> SoundRelation \cup {Null}]
        /\ remap \in Field
        /\ run \in SoundComposing \cup {Idle}

NotOfInput == /\ remap = Identity
              /\ run # Idle => \A i \in DOMAIN run.first :
                                 \A v \in run.first[i].vars : v.of # "in"

LEMMA SeqOfSubset ==
  ASSUME NEW S, NEW T, S \subseteq T
  PROVE  Seq(S) \subseteq Seq(T)
  OBVIOUS

\* The invariant is what it should be.
LEMMA IInvImplies == IInv => TypeOK /\ LostIsInexact
  <1> SUFFICES ASSUME IInv PROVE TypeOK /\ LostIsInexact
    OBVIOUS
  <1>1. Sound \subseteq Conjunct
    BY DEF Sound
  <1>2. Seq(Sound) \subseteq Seq(Conjunct)
    BY <1>1, SeqOfSubset
  <1>3. SoundRelation \subseteq Relation
    BY <1>2 DEF SoundRelation, Relation
  <1>4. SoundPair \subseteq Composed
    BY <1>1 DEF SoundPair, Composed
  <1>5. Seq(SoundPair) \subseteq Seq(Composed)
    BY <1>4, SeqOfSubset
  <1>6. SoundComposing \subseteq Composing
    BY <1>2, <1>5 DEF SoundComposing, Composing
  <1>7. TypeOK
    BY <1>3, <1>6 DEF IInv, TypeOK, Field
  <1>8. ASSUME NEW c \in Conjs
        PROVE  c \in Sound
    <2>1. PICK h \in Handle : rel[h] # Null /\ \E i \in DOMAIN rel[h].conjs : c = rel[h].conjs[i]
      BY DEF Conjs
    <2>2. rel[h].conjs \in Seq(Sound)
      BY <2>1 DEF IInv, SoundRelation
    <2> QED
      BY <2>1, <2>2
  <1>9. ASSUME NEW p \in Done
        PROVE  p.conj3 \in Sound
    <2>1. run # Idle /\ \E i \in DOMAIN run.pairs : p = run.pairs[i]
      BY DEF Done
    <2>2. run.pairs \in Seq(SoundPair)
      BY <2>1 DEF IInv, SoundComposing
    <2>3. p \in SoundPair
      BY <2>1, <2>2
    <2> QED
      BY <2>3 DEF SoundPair
  <1>10. LostIsInexact
    BY <1>8, <1>9 DEF LostIsInexact, Sound
  <1> QED
    BY <1>7, <1>10

LEMMA InitIInv == Init => IInv /\ NotOfInput
  BY DEF Init, IInv, NotOfInput, Identity, Field

LEMMA KeepsOn ==
  ASSUME NEW s, NEW t, NEW u, Keeps(s, t), Keeps(t, u)
  PROVE  Keeps(s, u)
  BY DEF Keeps

LEMMA OperandState ==
  ASSUME IInv, NEW h \in Handle, rel[h] # Null
  PROVE  Operand(h) \in State /\ Operand(h).r = rel[h] /\ Operand(h).m = remap
  BY DEF IInv, Operand, State

\* An operator that returns a state to a handle, outside of a Composition.
LEMMA ReturnInv ==
  ASSUME IInv, NEW h \in Handle, NEW s \in State, run = Idle, Return(h, s)
  PROVE  IInv' /\ ((NotOfInput /\ (remap = Identity => s.m = Identity)) => NotOfInput')
  <1>1. rel' = [rel EXCEPT ![h] = s.r] /\ remap' = s.m /\ run' = run
    BY DEF Return
  <1>2. s.r \in SoundRelation /\ s.m \in Field
    BY StateParts
  <1> QED
    BY <1>1, <1>2 DEF IInv, NotOfInput

LEMMA ReturnKeeps ==
  ASSUME IInv, NEW h \in Handle, NEW k \in Handle, rel[k] # Null, run = Idle,
         NEW s, Keeps(Operand(k), s), Return(h, s)
  PROVE  IInv' /\ (NotOfInput => NotOfInput')
  BY OperandState, ReturnInv DEF Keeps

-------------------------------------------------------------------------------
(* One lemma for each operation.                                           *)

LEMMA BuildStep ==
  ASSUME IInv, NEW h \in Handle, NEW cs \in Formulas, Build(h, cs)
  PROVE  IInv' /\ (NotOfInput => NotOfInput')
  <1> DEFINE made == [i \in DOMAIN cs |-> [vars |-> cs[i], zeros |-> -1, exact |-> TRUE,
                                            clash |-> FALSE, lost |-> FALSE]]
             S == UNION {cs[i] : i \in DOMAIN cs}
             s == [r |-> [Symbolic |-> S, set |-> FALSE, conjs |-> made], m |-> remap]
  <1>1. PICK n \in 0 .. MaxConjuncts : cs \in [1 .. n -> SUBSET Local]
    BY DEF Formulas
  <1>2. -1 \in -1 .. MaxZeros
    BY ArityAssumption
  <1>3. \A i \in DOMAIN cs : made[i] \in Sound
    BY <1>1, <1>2 DEF Sound, Conjunct
  <1>4. made \in [1 .. n -> Sound] /\ n \in Nat
    BY <1>1, <1>3, BoundAssumption
  <1>5. made \in Seq(Sound) /\ S \subseteq Local
    BY <1>1, <1>4
  <1>6. s \in State /\ s.m = remap
    <2> HIDE DEF made, S
    <2> QED
      BY <1>5 DEF IInv, State, SoundRelation
  <1>7. run = Idle /\ Return(h, s)
    BY DEF Build
  <1> HIDE DEF s
  <1> QED
    BY <1>6, <1>7, ReturnInv

LEMMA CopyStep ==
  ASSUME IInv, NEW h \in Handle, NEW k \in Handle, Copy(h, k)
  PROVE  IInv' /\ (NotOfInput => NotOfInput')
  <1>1. run = Idle /\ rel[k] # Null /\ Return(h, Operand(k))
    BY DEF Copy
  <1>2. Keeps(Operand(k), Operand(k))
    BY <1>1, OperandState DEF Keeps
  <1> QED
    BY <1>1, <1>2, ReturnKeeps

LEMMA InverseStep ==
  ASSUME IInv, NEW h \in Handle, Inverse(h)
  PROVE  IInv' /\ (NotOfInput => NotOfInput')
  <1> DEFINE fate == [u \in Argument_Tuple |-> Other(u)]
  <1>1. run = Idle /\ rel[h] # Null
    BY DEF Inverse, IsRelation
  <1>2. PICK s \in Split(Operand(h)) : Return(h, Align(s, fate))
    BY DEF Inverse
  <1>3. Keeps(Operand(h), s)
    BY <1>1, OperandState, SplitKeeps
  <1>4. \A t \in Argument_Tuple : fate[t] \in Argument_Tuple \cup {"unknown"}
    BY DEF Other, Argument_Tuple
  <1>5. Keeps(s, Align(s, fate))
    <2>1. s \in State
      BY <1>3 DEF Keeps
    <2> HIDE DEF fate
    <2> QED
      BY <2>1, <1>4, AlignKeeps
  <1> HIDE DEF fate
  <1> QED
    BY <1>1, <1>2, <1>3, <1>5, KeepsOn, ReturnKeeps

\* The optional simplification of an operand, followed by split().
LEMMA SettleSplitKeeps ==
  ASSUME NEW s \in State, NEW B \in BOOLEAN,
         NEW s1 \in IF B THEN Settle(s) ELSE {s}, NEW s2 \in Split(s1)
  PROVE  Keeps(s, s2) /\ s2 \in State
  <1>1. Keeps(s, s1) /\ s1 \in State
    BY SettleKeeps DEF Keeps
  <1>2. Keeps(s1, s2)
    BY <1>1, SplitKeeps
  <1> QED
    BY <1>1, <1>2, KeepsOn DEF Keeps

LEMMA ProjectStep ==
  ASSUME IInv, NEW h \in Handle, NEW t \in Argument_Tuple, Project(h, t)
  PROVE  IInv' /\ (NotOfInput => NotOfInput')
  <1> DEFINE fate == [u \in Argument_Tuple |-> IF u = t THEN "unknown" ELSE "in"]
             Evac(s) == IF Declares(s.r, t) THEN EvacuateFrom(s, t) ELSE s
             Result(s) == [s EXCEPT !.r = [Rewritten(@, @.conjs) EXCEPT !.set = TRUE]]
  <1>1. run = Idle /\ rel[h] # Null /\ Operand(h) \in State
    BY OperandState DEF Project, IsRelation
  <1>2. PICK s1 \in IF Declares(rel[h], t) THEN Settle(Operand(h)) ELSE {Operand(h)} :
          \E s2 \in Split(s1) : Return(h, Result(Align(Evac(s2), fate)))
    BY DEF Project
  <1>3. PICK s2 \in Split(s1) : Return(h, Result(Align(Evac(s2), fate)))
    BY <1>2
  <1>4. Keeps(Operand(h), s2) /\ s2 \in State
    <2>1. Declares(rel[h], t) \in BOOLEAN
      BY DEF Declares
    <2> QED
      BY <1>1, <2>1, SettleSplitKeeps
  <1>5. Keeps(s2, Evac(s2)) /\ Evac(s2) \in State
    BY <1>4, EvacuateKeeps DEF Keeps
  <1>6. Keeps(Evac(s2), Align(Evac(s2), fate))
    <2>1. \A u \in Argument_Tuple : fate[u] \in Argument_Tuple \cup {"unknown"}
      BY DEF Argument_Tuple
    <2> HIDE DEF fate, Evac
    <2> QED
      BY <1>5, <2>1, AlignKeeps
  <1>7. ASSUME NEW s \in State
        PROVE  Keeps(s, Result(s))
    <2>1. Rewritten(s.r, s.r.conjs) \in SoundRelation
      BY StateParts, RewrittenSound
    <2>2. [Rewritten(s.r, s.r.conjs) EXCEPT !.set = TRUE] \in SoundRelation
      BY <2>1 DEF SoundRelation
    <2>3. Result(s) = [r |-> [Rewritten(s.r, s.r.conjs) EXCEPT !.set = TRUE], m |-> s.m]
      <3> DEFINE x == [Rewritten(s.r, s.r.conjs) EXCEPT !.set = TRUE]
      <3>1. Result(s) = [s EXCEPT !.r = x]
        OBVIOUS
      <3> HIDE DEF x, Result
      <3>2. [s EXCEPT !.r = x] = [r |-> x, m |-> s.m]
        BY DEF State
      <3> QED
        BY <3>1, <3>2 DEF x
    <2> QED
      BY <2>2, <2>3, StateParts DEF Keeps, State
  <1>8. Keeps(Operand(h), Result(Align(Evac(s2), fate)))
    <2> DEFINE a == Align(Evac(s2), fate)
    <2>1. Keeps(Operand(h), a)
      BY <1>4, <1>5, <1>6, KeepsOn
    <2>2. Keeps(a, Result(a))
      BY <2>1, <1>7 DEF Keeps
    <2> HIDE DEF a, Result
    <2> QED
      BY <2>1, <2>2, KeepsOn DEF a
  <1> HIDE DEF fate, Evac, Result
  <1> QED
    BY <1>1, <1>3, <1>8, ReturnKeeps

LEMMA AfterStep ==
  ASSUME IInv, NEW h \in Handle, NEW preserved, After(h, preserved)
  PROVE  IInv' /\ (NotOfInput => NotOfInput')
  <1> DEFINE B == \E v \in rel[h].Symbolic : v.of = "out" /\ Arity[v.fun] >= preserved
             gone(s) == {v \in Used(s.r) : v.of = "out" /\ Arity[v.fun] > preserved}
             Lost(s, c) == {v \in gone(s) \cap c.vars : c.zeros < Arity[v.fun]}
             To(s, c) == [v \in Local |-> IF v \notin gone(s) THEN s.m[v]
                                          ELSE IF v \in Lost(s, c) THEN Wildcard
                                          ELSE At(v, "in")]
             cs(s) == [i \in DOMAIN s.r.conjs |->
                         LET c == s.r.conjs[i]
                         IN  make_inexact(Image(c, To(s, c)), Lost(s, c))]
             m(s) == reset_remap_field(s.m, gone(s))
             Left(s, S) == {v \in S \cup {At(v, "in") : v \in gone(s)} :
                              v.of = "out" => Arity[v.fun] <= preserved}
             Result(s) == [r |-> [Rename(Rewritten(s.r, cs(s)), m(s)) EXCEPT
                                    !.Symbolic = Left(s, @)],
                           m |-> m(s)]
  <1>1. run = Idle /\ rel[h] # Null /\ Operand(h) \in State
    BY OperandState DEF After, IsRelation
  <1>2. PICK s1 \in IF B THEN Settle(Operand(h)) ELSE {Operand(h)} :
          \E s \in Split(s1) : Return(h, Result(s))
    BY DEF After
  <1>3. PICK s \in Split(s1) : Return(h, Result(s))
    BY <1>2
  <1>4. Keeps(Operand(h), s) /\ s \in State
    <2>1. B \in BOOLEAN
      OBVIOUS
    <2> HIDE DEF B
    <2> QED
      BY <1>1, <2>1, SettleSplitKeeps
  <1>5. gone(s) \subseteq Local
    BY <1>4, StateParts DEF Used
  <1>6. \A v \in gone(s) : At(v, "in") \in Local
    BY <1>5, AtIsVariable DEF Argument_Tuple
  <1>7. ASSUME NEW c \in Sound
        PROVE  make_inexact(Image(c, To(s, c)), Lost(s, c)) \in Sound
    <2>1. \A v \in Local : s.m[v] \in Local /\ s.m[v] # Wildcard
      BY <1>4, StateParts, WildcardIsNoVariable DEF Field
    <2>2. To(s, c) \in MaybeLost
      BY <1>6, <2>1 DEF MaybeLost
    <2>3. c.vars \subseteq Local
      BY DEF Sound, Conjunct
    <2>4. \A v \in c.vars : To(s, c)[v] = Wildcard => v \in Lost(s, c)
      BY <1>6, <2>1, <2>3, WildcardIsNoVariable
    <2> HIDE DEF To, Lost
    <2> QED
      BY <2>2, <2>4, LossSound
  <1>8. \A i \in DOMAIN s.r.conjs : cs(s)[i] \in Sound
    BY <1>4, <1>7, StateParts
  <1>9. m(s) \in Field /\ (s.m = Identity => m(s) = Identity)
    <2>1. \A v \in Local : s.m[v] \in Local
      BY <1>4, StateParts DEF Field
    <2>2. m(s) \in Field
      BY <1>4, <2>1, StateParts, ResetField
    <2>3. s.m = Identity => m(s) = Identity
      BY <1>4, StateParts, ResetField DEF Identity
    <2> QED
      BY <2>2, <2>3
  <1> HIDE DEF cs, m
  <1>10. Rewritten(s.r, cs(s)) \in SoundRelation
    BY <1>4, <1>8, StateParts, RewrittenSound
  <1> DEFINE r == Rename(Rewritten(s.r, cs(s)), m(s))
  <1>11. r \in SoundRelation
    BY <1>9, <1>10, RenameSound
  <1>12. Left(s, r.Symbolic) \subseteq Local
    BY <1>6, <1>11 DEF SoundRelation
  <1>13. Result(s) = [r |-> [r EXCEPT !.Symbolic = Left(s, r.Symbolic)], m |-> m(s)]
    OBVIOUS
  <1> HIDE DEF r, Left, Result
  <1>14. Keeps(s, Result(s))
    <2>1. [r EXCEPT !.Symbolic = Left(s, r.Symbolic)] \in SoundRelation
      BY <1>11, <1>12 DEF SoundRelation
    <2> QED
      BY <1>9, <1>13, <2>1 DEF Keeps, State
  <1> QED
    BY <1>1, <1>3, <1>4, <1>14, KeepsOn, ReturnKeeps

LEMMA DeltasStep ==
  ASSUME IInv, NEW h \in Handle, Deltas(h)
  PROVE  IInv' /\ (NotOfInput => NotOfInput')
  <1> DEFINE m(s) == [v \in Local |-> IF v \in Used(s.r) THEN Wildcard ELSE s.m[v]]
             cs(s) == [i \in DOMAIN s.r.conjs |->
                         LET c == s.r.conjs[i] IN make_inexact(Image(c, m(s)), c.vars)]
             Result(s) == [r |-> [Rewritten(s.r, cs(s)) EXCEPT !.set = TRUE, !.Symbolic = {}],
                           m |-> reset_remap_field(m(s), Used(s.r))]
  <1>1. run = Idle /\ rel[h] # Null /\ Operand(h) \in State
    BY OperandState DEF Deltas, IsRelation
  <1>2. PICK s1 \in Settle(Operand(h)) : \E s \in Split(s1) : Return(h, Result(s))
    BY DEF Deltas
  <1>3. PICK s \in Split(s1) : Return(h, Result(s))
    BY <1>2
  <1>4. Keeps(Operand(h), s) /\ s \in State
    <2>1. s1 \in IF TRUE THEN Settle(Operand(h)) ELSE {Operand(h)}
      BY <1>2
    <2> QED
      BY <1>1, <2>1, SettleSplitKeeps
  <1>5. m(s) \in MaybeLost /\ \A v \in Local \ Used(s.r) : m(s)[v] = s.m[v] /\ s.m[v] \in Local
    BY <1>4, StateParts DEF Field, MaybeLost
  <1>6. reset_remap_field(m(s), Used(s.r)) \in Field
    <2> HIDE DEF m
    <2> QED
      BY <1>5, ResetField
  <1>7. s.m = Identity => reset_remap_field(m(s), Used(s.r)) = Identity
    <2> HIDE DEF m
    <2> QED
      BY <1>5, ResetField DEF Identity
  <1>8. \A i \in DOMAIN s.r.conjs : cs(s)[i] \in Sound
    <2> SUFFICES ASSUME NEW i \in DOMAIN s.r.conjs
                 PROVE  make_inexact(Image(s.r.conjs[i], m(s)), s.r.conjs[i].vars) \in Sound
      OBVIOUS
    <2>1. s.r.conjs[i] \in Sound
      BY <1>4, StateParts
    <2> HIDE DEF m
    <2> QED
      BY <1>5, <2>1, LossSound
  <1> HIDE DEF cs
  <1>9. Rewritten(s.r, cs(s)) \in SoundRelation
    BY <1>4, <1>8, StateParts, RewrittenSound
  <1>10. [Rewritten(s.r, cs(s)) EXCEPT !.set = TRUE, !.Symbolic = {}] \in SoundRelation
    BY <1>9 DEF SoundRelation
  <1>11. Keeps(s, Result(s))
    BY <1>6, <1>7, <1>10 DEF Keeps, State
  <1> HIDE DEF Result
  <1> QED
    BY <1>1, <1>3, <1>4, <1>11, KeepsOn, ReturnKeeps

-------------------------------------------------------------------------------
(* Composition.                                                            *)

LEMMA ComposeStartStep ==
  ASSUME IInv, NEW a \in Handle, NEW b \in Handle, ComposeStart(a, b)
  PROVE  IInv' /\ (NotOfInput /\ ~FirstOfInput => NotOfInput')
  <1>1. run = Idle /\ rel[a] # Null /\ rel[b] # Null
    BY DEF ComposeStart, IsRelation
  <1> DEFINE Started(t1, t2) ==
               /\ FirstOfInput \/ ~UsesInput(t1.r)
               /\ remap' = t2.m
               /\ rel' = [rel EXCEPT ![a] = Null, ![b] = Null]
               /\ run' = [h |-> a, first |-> t1.r.conjs, second |-> t2.r.conjs,
                          pairs |-> <<>>]
  <1>2a. PICK s1 \in Settle(Operand(a)) :
           \E s2 \in Settle([r |-> rel[b], m |-> s1.m]) :
           \E t1 \in Split([s1 EXCEPT !.m = s2.m]) :
           \E t2 \in Split([s2 EXCEPT !.m = t1.m]) : Started(t1, t2)
    BY DEF ComposeStart
  <1>2b. PICK s2 \in Settle([r |-> rel[b], m |-> s1.m]) :
           \E t1 \in Split([s1 EXCEPT !.m = s2.m]) :
           \E t2 \in Split([s2 EXCEPT !.m = t1.m]) : Started(t1, t2)
    BY <1>2a
  <1>2c. PICK t1 \in Split([s1 EXCEPT !.m = s2.m]) :
           \E t2 \in Split([s2 EXCEPT !.m = t1.m]) : Started(t1, t2)
    BY <1>2b
  <1>3. PICK t2 \in Split([s2 EXCEPT !.m = t1.m]) : Started(t1, t2)
    BY <1>2c
  <1>4. s1 \in State /\ (remap = Identity => s1.m = Identity)
    BY <1>1, OperandState, SettleKeeps DEF Keeps
  <1> DEFINE x2 == [r |-> rel[b], m |-> s1.m]
             y1 == [s1 EXCEPT !.m = s2.m]
             y2 == [s2 EXCEPT !.m = t1.m]
  <1>5. x2 \in State /\ x2.m = s1.m
    BY <1>1, <1>4 DEF State, IInv
  <1>6. s2 \in State /\ (s1.m = Identity => s2.m = Identity)
    BY <1>5, SettleKeeps DEF Keeps
  <1>7. y1 \in State /\ y1.m = s2.m
    BY <1>4, <1>6 DEF State
  <1>8. t1 \in State /\ (s2.m = Identity => t1.m = Identity)
    BY <1>7, SplitKeeps DEF Keeps
  <1>9. y2 \in State /\ y2.m = t1.m
    BY <1>6, <1>8 DEF State
  <1>10. t2 \in State /\ (t1.m = Identity => t2.m = Identity)
    BY <1>9, SplitKeeps DEF Keeps
  <1>11. run' \in SoundComposing
    <2>1. t1.r.conjs \in Seq(Sound) /\ t2.r.conjs \in Seq(Sound)
      BY <1>8, <1>10, StateParts
    <2> QED
      BY <1>3, <2>1 DEF SoundComposing
  <1>12. IInv'
    BY <1>3, <1>10, <1>11, StateParts DEF IInv
  <1>13. ASSUME NotOfInput, ~FirstOfInput
         PROVE  NotOfInput'
    <2>1. remap' = Identity
      BY <1>3, <1>4, <1>6, <1>8, <1>10, <1>13 DEF NotOfInput
    <2>2. \A i \in DOMAIN t1.r.conjs : \A v \in t1.r.conjs[i].vars : v.of # "in"
      BY <1>3, <1>13 DEF UsesInput, Used
    <2>3. run'.first = t1.r.conjs
      BY <1>3
    <2> QED
      BY <2>1, <2>2, <2>3 DEF NotOfInput
  <1> QED
    BY <1>12, <1>13

\* The pair that the loops reach next is one of the operands' conjuncts each.
LEMMA NextPair ==
  ASSUME NEW k \in Nat, NEW l \in Nat, NEW n \in Nat, n < k * l
  PROVE  (n \div l) + 1 \in 1 .. k /\ (n % l) + 1 \in 1 .. l
  <1>1. l > 0
    BY SMT
  <1>2. n \div l \in Int /\ n % l \in 0 .. l - 1 /\ n = l * (n \div l) + (n % l)
    BY <1>1, SMT
  <1> DEFINE q == n \div l
  <1>3. q \in Int /\ l * q <= n /\ l * q > n - l
    BY <1>1, <1>2, SMT
  <1> HIDE DEF q
  <1>4. q >= 0
    BY <1>1, <1>3, SMT
  <1>5. q < k
    BY <1>1, <1>3, SMT
  <1> QED
    BY <1>1, <1>2, <1>4, <1>5, <1>3 DEF q

LEMMA MergeSound ==
  ASSUME NEW c \in Sound, NEW d \in Conjunct, NEW S, d.lost /\ d.exact => S # {}
  PROVE  make_inexact(MERGE_COMPOSE(c, d), S) \in Sound
  <1> DEFINE e == MERGE_COMPOSE(c, d)
  <1>1. e \in Conjunct /\ e.exact = (c.exact /\ d.exact) /\ e.lost = (c.lost \/ d.lost)
    BY DEF MERGE_COMPOSE, Sound, Conjunct
  <1>2. c.lost => ~c.exact
    BY DEF Sound
  <1> HIDE DEF e
  <1>3. CASE S = {}
    BY <1>1, <1>2, <1>3 DEF make_inexact, Sound, e
  <1>4. CASE S # {}
    <2>1. make_inexact(e, S) = [e EXCEPT !.exact = FALSE]
      BY <1>4 DEF make_inexact
    <2>2. [e EXCEPT !.exact = FALSE] \in Sound
      BY <1>1 DEF Conjunct, Sound
    <2> QED
      BY <2>1, <2>2 DEF e
  <1> QED
    BY <1>3, <1>4

LEMMA ComposePairStep ==
  ASSUME IInv, ComposePair
  PROVE  IInv' /\ (NotOfInput => NotOfInput')
  <1> DEFINE n == Len(run.pairs)
             conj1 == run.first[(n \div Len(run.second)) + 1]
             conj2 == run.second[(n % Len(run.second)) + 1]
             copy1 == Image(conj1, remap)
             copy2 == Image(conj2, remap)
             m2 == OutOfMiddle(copy1, copy2, remap)
             set2 == {v \in copy2.vars : m2[v] # remap[v]}
             m1 == InOfMiddle(copy1, reset_remap_field(remap, set2))
             lost == {v \in copy2.vars : m2[v] = Wildcard}
             conj3 == make_inexact(MERGE_COMPOSE(Image(copy1, m1), Image(copy2, m2)), lost)
             to1 == [v \in conj1.vars |-> m1[remap[v]]]
             to2 == [v \in conj2.vars |-> m2[remap[v]]]
             pair == [conj1 |-> conj1, conj2 |-> conj2, conj3 |-> conj3,
                      to1 |-> to1, to2 |-> to2]
  <1>1. /\ run \in SoundComposing /\ run # Idle
        /\ n < Len(run.first) * Len(run.second)
        /\ remap' = m1 /\ rel' = rel
        /\ run' = [run EXCEPT !.pairs = Append(@, pair)]
    BY DEF ComposePair, IInv, Pairs
  <1>2. /\ run.first \in Seq(Sound) /\ run.second \in Seq(Sound) /\ run.pairs \in Seq(SoundPair)
        /\ remap \in Field /\ remap \in MaybeLost
    BY <1>1 DEF SoundComposing, IInv, Field, MaybeLost
  <1>3. /\ (n \div Len(run.second)) + 1 \in DOMAIN run.first
        /\ (n % Len(run.second)) + 1 \in DOMAIN run.second
    <2>1. n \in Nat /\ Len(run.first) \in Nat /\ Len(run.second) \in Nat
      BY <1>2
    <2>2. DOMAIN run.first = 1 .. Len(run.first) /\ DOMAIN run.second = 1 .. Len(run.second)
      BY <1>2
    <2> QED
      BY <1>1, <2>1, <2>2, NextPair
  <1>4. conj1 \in Sound /\ conj2 \in Sound
    <2>1. run.first \in Seq(Sound) /\ run.second \in Seq(Sound)
      BY <1>2
    <2> QED
      BY <1>3, <2>1, ElementOf
  <1> HIDE DEF conj1, conj2
  <1>5. copy1 \in Sound /\ copy2 \in Sound
    BY <1>2, <1>4, ImageSound
  <1>6. /\ conj1.vars \subseteq Local /\ conj2.vars \subseteq Local
        /\ copy1.vars \subseteq Local /\ copy2.vars \subseteq Local
        /\ conj1 \in Conjunct /\ copy2 \in Conjunct
    BY <1>4, <1>5 DEF Sound, Conjunct
  <1>7. copy1.vars = {remap[v] : v \in conj1.vars} \ {Wildcard}
    BY <1>2, <1>6, ImageFields
  <1> HIDE DEF copy1, copy2
  <1>8. \A v \in Local : At(v, "in") \in Local /\ At(v, "out") \in Local
    BY AtIsVariable DEF Argument_Tuple
  <1>9. m2 \in MaybeLost
    BY <1>2, <1>8 DEF OutOfMiddle, Field, MaybeLost
  <1>10. reset_remap_field(remap, set2) \in Field
    BY <1>2 DEF reset_remap_field, Field
  <1>11. m1 \in Field
    BY <1>8, <1>10 DEF InOfMiddle, Field
  <1>12. ASSUME NotOfInput
         PROVE  m1 = Identity
    <2>1. \A v \in conj1.vars : v.of # "in"
      BY <1>1, <1>3, <1>12 DEF NotOfInput, conj1
    <2>2. \A v \in copy1.vars : v.of # "in"
      BY <1>6, <1>7, <1>12, <2>1 DEF NotOfInput, Identity
    <2> QED
      BY <1>12, <2>2 DEF NotOfInput, InOfMiddle, reset_remap_field, Identity
  <1> HIDE DEF m1, m2
  <1>13. conj3 \in Sound
    <2>1. Image(copy1, m1) \in Sound
      BY <1>5, <1>11, ImageSound
    <2>2. /\ Image(copy2, m2) \in Conjunct
          /\ Image(copy2, m2).exact = copy2.exact
          /\ Image(copy2, m2).lost = (copy2.lost \/ \E v \in copy2.vars : m2[v] = Wildcard)
      BY <1>6, <1>9, ImageFields
    <2>3. Image(copy2, m2).lost /\ Image(copy2, m2).exact => lost # {}
      BY <1>5, <2>2 DEF Sound
    <2> HIDE DEF lost
    <2> QED
      BY <2>1, <2>2, <2>3, MergeSound
  <1>14. to1 \in Fate /\ to2 \in Fate
    <2>1. to1 \in [conj1.vars -> Local \cup {Wildcard}]
      BY <1>2, <1>6, <1>11 DEF Field
    <2>2. to2 \in [conj2.vars -> Local \cup {Wildcard}]
      BY <1>2, <1>6, <1>9 DEF Field, MaybeLost
    <2> HIDE DEF to1, to2
    <2> QED
      BY <1>6, <2>1, <2>2 DEF Fate
  <1> HIDE DEF conj3, to1, to2
  <1>15. pair \in SoundPair
    BY <1>4, <1>13, <1>14 DEF SoundPair
  <1> HIDE DEF pair
  <1>16. run' \in SoundComposing
    <2>1. Append(run.pairs, pair) \in Seq(SoundPair)
      BY <1>2, <1>15
    <2> QED
      BY <1>1, <2>1 DEF SoundComposing
  <1>17. IInv'
    BY <1>1, <1>11, <1>16 DEF IInv
  <1>18. ASSUME NotOfInput
         PROVE  NotOfInput'
    <2>1. run'.first = run.first
      BY <1>1 DEF SoundComposing
    <2> QED
      BY <1>1, <1>12, <1>18, <2>1 DEF NotOfInput
  <1> QED
    BY <1>17, <1>18

LEMMA ComposeEndStep ==
  ASSUME IInv, ComposeEnd
  PROVE  IInv' /\ (NotOfInput => NotOfInput')
  <1> DEFINE cs == [i \in DOMAIN run.pairs |-> run.pairs[i].conj3]
             r == [Symbolic |-> UNION {cs[i].vars : i \in DOMAIN cs},
                   set |-> FALSE, conjs |-> cs]
  <1>1. /\ run \in SoundComposing
        /\ rel' = [rel EXCEPT ![run.h] = r] /\ run' = Idle /\ remap' = remap
    BY DEF ComposeEnd, IInv
  <1>2. run.pairs \in Seq(SoundPair) /\ run.h \in Handle
    BY <1>1 DEF SoundComposing
  <1>3. \A i \in DOMAIN run.pairs : cs[i] \in Sound
    <2>1. \A i \in DOMAIN run.pairs : run.pairs[i] \in SoundPair
      BY <1>2, ElementOf
    <2> QED
      BY <2>1 DEF SoundPair
  <1>4. cs = [i \in DOMAIN run.pairs |-> cs[i]]
    OBVIOUS
  <1>5. \A i \in DOMAIN cs : cs[i].vars \subseteq Local
    BY <1>3 DEF Sound, Conjunct
  <1>6. cs \in Seq(Sound)
    <2> HIDE DEF cs
    <2> QED
      BY <1>2, <1>3, <1>4, MapSeq
  <1> HIDE DEF cs
  <1>7. r \in SoundRelation
    BY <1>5, <1>6 DEF SoundRelation
  <1> HIDE DEF r
  <1> QED
    BY <1>1, <1>2, <1>7 DEF IInv, NotOfInput

-------------------------------------------------------------------------------
(* The theorems.                                                           *)

LEMMA NextInv ==
  ASSUME IInv, [Next]_vars
  PROVE  IInv' /\ (NotOfInput /\ ~FirstOfInput => NotOfInput')
  <1>1. CASE \E h \in Handle : \E cs \in Formulas : Build(h, cs)
    BY <1>1, BuildStep
  <1>2. CASE \E h, k \in Handle : Copy(h, k)
    BY <1>2, CopyStep
  <1>3. CASE \E h, k \in Handle : ComposeStart(h, k)
    BY <1>3, ComposeStartStep
  <1>4. CASE \E h \in Handle : \E t \in Argument_Tuple : Project(h, t)
    BY <1>4, ProjectStep
  <1>5. CASE \E h \in Handle : Inverse(h)
    BY <1>5, InverseStep
  <1>6. CASE \E h \in Handle : \E preserved \in 0 .. MaxZeros - 1 : After(h, preserved)
    BY <1>6, AfterStep
  <1>7. CASE \E h \in Handle : Deltas(h)
    BY <1>7, DeltasStep
  <1>8. CASE ComposePair
    BY <1>8, ComposePairStep
  <1>9. CASE ComposeEnd
    BY <1>9, ComposeEndStep
  <1>10. CASE UNCHANGED vars
    BY <1>10 DEF vars, IInv, NotOfInput
  <1> QED
    BY <1>1, <1>2, <1>3, <1>4, <1>5, <1>6, <1>7, <1>8, <1>9, <1>10 DEF Next

(* The state has its type: a remap field never still names a wildcard that *)
(* After, Deltas or Composition declared for one conjunct.                 *)
THEOREM FunctionsTypeCorrect == Spec => []TypeOK
  <1>1. Init => IInv
    BY InitIInv
  <1>2. IInv /\ [Next]_vars => IInv'
    BY NextInv
  <1>3. IInv => TypeOK
    BY IInvImplies
  <1> QED
    BY <1>1, <1>2, <1>3, PTL DEF Spec

(* Whatever a program composes, a conjunct from which an operator dropped  *)
(* a function is and stays inexact: Lower_Bound never takes its points.    *)
THEOREM LostFunctionsAreInexact == Spec => []LostIsInexact
  <1>1. Init => IInv
    BY InitIInv
  <1>2. IInv /\ [Next]_vars => IInv'
    BY NextInv
  <1>3. IInv => LostIsInexact
    BY IInvImplies
  <1> QED
    BY <1>1, <1>2, <1>3, PTL DEF Spec

(* If no first operand of a Composition applies a function to its input    *)
(* tuple, every operator leaves the shared remap fields as it found them.  *)
THEOREM RemapIsReset ==
  ASSUME ~FirstOfInput
  PROVE  Spec => []RemapReset
  <1>1. Init => IInv /\ NotOfInput
    BY InitIInv
  <1>2. IInv /\ NotOfInput /\ [Next]_vars => (IInv /\ NotOfInput)'
    BY NextInv
  <1>3. NotOfInput => RemapReset
    BY DEF NotOfInput, RemapReset
  <1> QED
    BY <1>1, <1>2, <1>3, PTL DEF Spec

-----------------------------------------------------------------------------
(***************************************************************************)
(* A variable names one column, a relation declares what it uses, and      *)
(* Composition follows its table, for all functions, arities and tuples.   *)
(*                                                                         *)
(* Where no first operand of a Composition uses f(in), the remap fields    *)
(* are always reset, so that copying a relation changes nothing.  What the *)
(* operators then need of their operands is Proper: variables are declared *)
(* and no two columns are one variable.  A conjunct that simplify() has    *)
(* separated by its leading zeros never has f(out) beside f(in) where the  *)
(* two are equal, so replacing one by the other joins no columns.          *)
(***************************************************************************)

\* No conjunct has f(in) and f(out), each a column, where they are equal.
Separated(c) == \A v \in c.vars :
  v.of = "out" /\ Arity[v.fun] <= c.zeros => At(v, "in") \notin c.vars

\* Projecting f(in) and f(out) of one conjunct is what gives two columns to
\* one variable (findings); programs that do so are not spoken of.
Clear(c) == ~ProjectsMixed => ~c.clash

Proper(r) == \A i \in DOMAIN r.conjs :
  r.conjs[i].vars \subseteq r.Symbolic /\ Clear(r.conjs[i])

InputOnly(r) == r.set => \A v \in r.Symbolic : v.of = "in"

AsDocumented(p) ==
  /\ FirstAsDocumented(p) /\ SecondAsDocumented(p)
  /\ p.conj3.exact => Wildcard \notin {p.to1[v] : v \in p.conj1.vars}
                                       \cup {p.to2[v] : v \in p.conj2.vars}

PairsProper(q) == /\ \A i \in DOMAIN q.first : Clear(q.first[i])
                  /\ \A i \in DOMAIN q.second : Clear(q.second[i]) /\ Separated(q.second[i])
                  /\ \A i \in DOMAIN q.pairs : Clear(q.pairs[i].conj3) /\ AsDocumented(q.pairs[i])

PInv == /\ \A h \in Handle : rel[h] # Null => Proper(rel[h]) /\ InputOnly(rel[h])
        /\ run # Idle => PairsProper(run)

\* What an operator is given and returns.
ProperState == {s \in State : s.m = Identity /\ Proper(s.r)}

-------------------------------------------------------------------------------
(* Conjuncts.                                                              *)

LEMMA ImageClash ==
  ASSUME NEW c \in Conjunct, NEW m \in MaybeLost, Clear(c),
         ProjectsMixed \/ \A v, w \in c.vars : v # w /\ m[v] = m[w] => m[v] = Wildcard
  PROVE  Clear(Image(c, m))
  BY DEF Image, Conjunct, Clear

LEMMA InexactKeeps ==
  ASSUME NEW c \in Conjunct, NEW S
  PROVE  /\ make_inexact(c, S).vars = c.vars
         /\ Clear(c) => Clear(make_inexact(c, S))
         /\ make_inexact(c, S).exact => S = {}
  BY DEF make_inexact, Conjunct, Clear

LEMMA ImageIdentity ==
  ASSUME NEW c \in Conjunct PROVE Image(c, Identity) = c
<1>1. \A v \in c.vars : Identity[v] = v /\ v # Wildcard
  BY WildcardIsNoVariable DEF Identity, Conjunct
<1>2. {Identity[v] : v \in c.vars} \ {Wildcard} = c.vars
  BY <1>1
<1>3. ~\E v, w \in c.vars : v # w /\ Identity[v] = Identity[w] /\ Identity[v] # Wildcard
  BY <1>1
<1>4. ~\E v \in c.vars : Identity[v] = Wildcard
  BY <1>1
<1> DEFINE clash == c.clash \/ \E v, w \in c.vars :
                       v # w /\ Identity[v] = Identity[w] /\ Identity[v] # Wildcard
           lost == c.lost \/ \E v \in c.vars : Identity[v] = Wildcard
<1>5. clash = c.clash /\ lost = c.lost
  BY <1>3, <1>4 DEF Conjunct
<1>6. Image(c, Identity) = [c EXCEPT !.vars = c.vars, !.clash = c.clash, !.lost = c.lost]
  <2>1. Image(c, Identity) = [c EXCEPT !.vars = c.vars, !.clash = clash, !.lost = lost]
    BY <1>2 DEF Image
  <2> HIDE DEF clash, lost
  <2> QED BY <1>5, <2>1
<1>7. [c EXCEPT !.vars = c.vars, !.clash = c.clash, !.lost = c.lost] = c
  BY DEF Conjunct
<1> QED BY <1>6, <1>7

-------------------------------------------------------------------------------
(* Relations and states.                                                   *)

LEMMA ProperParts ==
  ASSUME NEW s \in ProperState
  PROVE  /\ s \in State /\ s.m = Identity /\ s.r \in SoundRelation
         /\ \A i \in DOMAIN s.r.conjs :
              /\ s.r.conjs[i] \in Conjunct /\ s.r.conjs[i].vars \subseteq s.r.Symbolic
              /\ s.r.conjs[i].vars \subseteq Local /\ Clear(s.r.conjs[i])
         /\ Used(s.r) \subseteq s.r.Symbolic /\ s.r.Symbolic \subseteq Local
  BY StateParts DEF ProperState, Proper, Used

\* With the fields reset, cloning renames nothing.
LEMMA SplitChangesNothing ==
  ASSUME NEW s \in State, s.m = Identity PROVE Split(s) = {s}
<1>1. reset_remap_field(s.m, s.r.Symbolic) = Identity
  BY StateParts DEF reset_remap_field, Identity
<1>2. Rename(s.r, Identity) = s.r
  <2>1. \A i \in DOMAIN s.r.conjs : Image(s.r.conjs[i], Identity) = s.r.conjs[i]
    BY StateParts, ImageIdentity
  <2>2. s.r.conjs \in Seq(Sound)
    BY StateParts
  <2>3. [i \in DOMAIN s.r.conjs |-> Image(s.r.conjs[i], Identity)] = s.r.conjs
    BY <2>1, <2>2
  <2>4. Rename(s.r, Identity) = [s.r EXCEPT !.conjs = s.r.conjs]
    BY <2>3 DEF Rename
  <2> QED BY <2>4 DEF State, SoundRelation
<1>3. Clone(s) = s
  BY <1>1, <1>2 DEF Clone, State
<1> QED BY <1>3 DEF Split

LEMMA RewrittenConjs ==
  ASSUME NEW r \in SoundRelation, NEW cs, \A i \in DOMAIN r.conjs : cs[i] \in Sound
  PROVE  /\ DOMAIN Rewritten(r, cs).conjs = DOMAIN r.conjs
         /\ Rewritten(r, cs).set = r.set /\ Rewritten(r, cs).Symbolic = r.Symbolic
         /\ \A i \in DOMAIN r.conjs :
              /\ Rewritten(r, cs).conjs[i].vars = cs[i].vars
              /\ Clear(cs[i]) => Clear(Rewritten(r, cs).conjs[i])
<1> DEFINE ds == [i \in DOMAIN r.conjs |-> [cs[i] EXCEPT !.zeros = -1]]
<1>1. Rewritten(r, cs) = [r EXCEPT !.conjs = ds]
  BY DEF Rewritten
<1>2. \A i \in DOMAIN r.conjs : ds[i].vars = cs[i].vars /\ ds[i].clash = cs[i].clash
  BY DEF Sound, Conjunct
<1>3. DOMAIN ds = DOMAIN r.conjs
  OBVIOUS
<1> HIDE DEF ds
<1> QED BY <1>1, <1>2, <1>3 DEF SoundRelation, Clear

LEMMA RenameConjs ==
  ASSUME NEW r \in SoundRelation, NEW m
  PROVE  /\ DOMAIN Rename(r, m).conjs = DOMAIN r.conjs
         /\ Rename(r, m).set = r.set /\ Rename(r, m).Symbolic = r.Symbolic
         /\ \A i \in DOMAIN r.conjs : Rename(r, m).conjs[i] = Image(r.conjs[i], m)
<1> DEFINE ds == [i \in DOMAIN r.conjs |-> Image(r.conjs[i], m)]
<1>1. Rename(r, m) = [r EXCEPT !.conjs = ds]
  BY DEF Rename
<1>2. DOMAIN ds = DOMAIN r.conjs /\ \A i \in DOMAIN r.conjs : ds[i] = Image(r.conjs[i], m)
  OBVIOUS
<1> HIDE DEF ds
<1> QED BY <1>1, <1>2 DEF SoundRelation

\* What simplify() does to one conjunct of a relation that declares it.
LEMMA MovedProper ==
  ASSUME NEW s \in ProperState, NEW c \in Sound, NEW z \in 0 .. MaxZeros,
         c.vars \subseteq s.r.Symbolic, Clear(c)
  PROVE  /\ Moved(c, s, z).vars \subseteq s.r.Symbolic
         /\ Clear(Moved(c, s, z)) /\ Separated(Moved(c, s, z))
<1> DEFINE M == Moves(s.r, z)
           m == [v \in Local |-> IF v \in M THEN At(v, "in") ELSE s.m[v]]
           d == Moved(c, s, z)
<1>1. c \in Conjunct /\ c.vars \subseteq Local /\ s.r.Symbolic \subseteq Local
  BY ProperParts DEF Sound, Conjunct
<1>2. \A v \in M : v.of = "out" /\ At(v, "in") \in s.r.Symbolic /\ At(v, "in").of = "in"
  BY <1>1, AtIsVariable DEF Moves, Argument_Tuple
<1>3. \A v \in c.vars : m[v] \in s.r.Symbolic \ M
  <2>1. \A v \in c.vars : m[v] = IF v \in M THEN At(v, "in") ELSE v
    BY <1>1, ProperParts DEF Identity
  <2>2. ASSUME NEW v \in c.vars
        PROVE  m[v] \in s.r.Symbolic \ M
    <3>1. CASE v \in M
      <4>1. m[v] = At(v, "in")
        BY <2>1, <3>1
      <4>2. At(v, "in") \notin M
        BY <1>2, <3>1
      <4> HIDE DEF m
      <4> QED BY <1>2, <3>1, <4>1, <4>2
    <3>2. CASE v \notin M
      BY <2>1, <3>2
    <3> QED BY <3>1, <3>2
  <2> QED BY <2>2
<1>4. d.vars \subseteq s.r.Symbolic \ M /\ d.zeros = z /\ Clear(d)
  <2>1. CASE M = {}
    <3>1. d = [c EXCEPT !.zeros = z]
      BY <2>1 DEF Moved
    <3>2. [c EXCEPT !.zeros = z].vars = c.vars /\ [c EXCEPT !.zeros = z].zeros = z
          /\ [c EXCEPT !.zeros = z].clash = c.clash
      BY <1>1 DEF Conjunct
    <3> HIDE DEF d, M
    <3> QED BY <2>1, <3>1, <3>2 DEF Clear
  <2>2. CASE M # {}
    <3>1. d = [Image(c, m) EXCEPT !.zeros = z, !.clash = FALSE]
      BY <2>2 DEF Moved
    <3>2. m \in MaybeLost
      BY <1>1, <1>2, ProperParts, StateParts DEF MaybeLost, Field
    <3> HIDE DEF m, M, d
    <3>3. Image(c, m) \in Conjunct /\ Image(c, m).vars = {m[v] : v \in c.vars} \ {Wildcard}
      BY <1>1, <3>2, ImageFields
    <3>4. d.vars = Image(c, m).vars /\ d.zeros = z /\ d.clash = FALSE
      BY <3>1, <3>3 DEF Conjunct
    <3> QED BY <1>3, <3>3, <3>4 DEF Clear
  <2> QED BY <2>1, <2>2
<1>5. Separated(d)
  <2> SUFFICES ASSUME NEW v \in d.vars, v.of = "out", Arity[v.fun] <= z, At(v, "in") \in d.vars
               PROVE  v \in M
    BY <1>4 DEF Separated
  <2> QED BY <1>4 DEF Moves
<1> QED BY <1>4, <1>5

\* simplify() leaves every conjunct with at most one of f(in) and f(out)
\* where the two are equal, whatever leading zeros it finds.
LEMMA SettleProper ==
  ASSUME NEW s \in ProperState, NEW t \in Settle(s)
  PROVE  /\ t \in ProperState /\ t.r.Symbolic = s.r.Symbolic /\ t.r.set = s.r.set
         /\ \A i \in DOMAIN t.r.conjs : Separated(t.r.conjs[i])
<1>1. PICK z \in [DOMAIN s.r.conjs -> 0 .. MaxZeros] : t = Settled(s, z)
  BY DEF Settle
<1>2. t \in State /\ t.m = Identity
  BY ProperParts, SettleKeeps DEF Keeps
<1> DEFINE cs == [i \in DOMAIN s.r.conjs |-> Moved(s.r.conjs[i], s, z[i])]
<1>3. t.r = [s.r EXCEPT !.conjs = cs]
  BY <1>1 DEF Settled
<1>4. \A i \in DOMAIN s.r.conjs :
        cs[i].vars \subseteq s.r.Symbolic /\ Clear(cs[i]) /\ Separated(cs[i])
  BY ProperParts, StateParts, MovedProper
<1>5. DOMAIN cs = DOMAIN s.r.conjs
  OBVIOUS
<1> HIDE DEF cs
<1>6. t.r.conjs = cs /\ t.r.Symbolic = s.r.Symbolic /\ t.r.set = s.r.set
  BY <1>3, ProperParts DEF SoundRelation
<1> QED BY <1>2, <1>4, <1>5, <1>6 DEF ProperState, Proper

\* The optional simplification of an operand, followed by split().
LEMMA OptionalSettle ==
  ASSUME NEW s \in ProperState, NEW B \in BOOLEAN,
         NEW s1 \in IF B THEN Settle(s) ELSE {s}, NEW s2 \in Split(s1)
  PROVE  /\ s2 \in ProperState /\ s2.r.Symbolic = s.r.Symbolic /\ s2.r.set = s.r.set
         /\ B => \A i \in DOMAIN s2.r.conjs : Separated(s2.r.conjs[i])
<1>1. /\ s1 \in ProperState /\ s1.r.Symbolic = s.r.Symbolic /\ s1.r.set = s.r.set
      /\ B => \A i \in DOMAIN s1.r.conjs : Separated(s1.r.conjs[i])
  BY SettleProper
<1>2. s2 = s1
  BY <1>1, ProperParts, SplitChangesNothing
<1> QED BY <1>1, <1>2

-------------------------------------------------------------------------------
(* Moving functions from one tuple to another.                             *)

LEMMA AtInjective ==
  ASSUME NEW v \in Local, NEW w \in Local, NEW t \in Argument_Tuple
  PROVE  /\ At(v, v.of) = v
         /\ At(v, t) = w => v.fun = w.fun /\ w.of = t
         /\ v.fun = w.fun /\ v.of = w.of => v = w
BY DEF At, Local

LEMMA EvacuateProper ==
  ASSUME NEW s \in ProperState, NEW t \in Argument_Tuple,
         ProjectsMixed \/ \A i \in DOMAIN s.r.conjs : ~Mixed(s.r.conjs[i])
  PROVE  /\ EvacuateFrom(s, t) \in ProperState
         /\ EvacuateFrom(s, t).r.set = s.r.set
         /\ \A v \in Used(EvacuateFrom(s, t).r) : v.of # t
<1> DEFINE touched == {v \in Used(s.r) : v.of = t}
           o == Other(t)
           m == [v \in Local |-> IF v \in touched THEN At(v, o) ELSE s.m[v]]
           cs == Rename(s.r, m).conjs
           r1 == Rewritten(s.r, cs)
           S == r1.Symbolic \cup {At(v, o) : v \in touched}
           e == EvacuateFrom(s, t)
<1>1. o \in Argument_Tuple /\ o # t
  BY DEF Other, Argument_Tuple
<1>2. touched \subseteq Local /\ \A v \in touched : At(v, o) \in Local /\ At(v, o).of = o
  BY <1>1, ProperParts, AtIsVariable
<1>3. m \in MaybeLost /\ m \in Field
  BY <1>2, ProperParts, StateParts DEF Field, MaybeLost
<1>4. \A v \in Local \ touched : m[v] = v
  BY ProperParts DEF Identity
<1>5. \A v \in touched : m[v] = At(v, o)
  BY <1>2
<1> HIDE DEF m
<1>6. /\ DOMAIN cs = DOMAIN s.r.conjs
      /\ \A i \in DOMAIN s.r.conjs : cs[i] = Image(s.r.conjs[i], m)
  BY ProperParts, RenameConjs
<1>7. \A i \in DOMAIN s.r.conjs : cs[i] \in Sound
  BY <1>3, <1>6, ProperParts, StateParts, ImageSound
<1> HIDE DEF cs
<1>8. /\ DOMAIN r1.conjs = DOMAIN s.r.conjs /\ r1.set = s.r.set /\ r1.Symbolic = s.r.Symbolic
      /\ \A i \in DOMAIN s.r.conjs : /\ r1.conjs[i].vars = cs[i].vars
                                     /\ Clear(cs[i]) => Clear(r1.conjs[i])
  BY <1>7, ProperParts, RewrittenConjs
<1>9. r1 \in SoundRelation
  BY <1>7, ProperParts, RewrittenSound
<1>10. e.r = [r1 EXCEPT !.Symbolic = S]
  <2>1. [r1 EXCEPT !.Symbolic = @ \cup {At(v, o) : v \in touched}] = [r1 EXCEPT !.Symbolic = S]
    BY DEF S
  <2> QED BY <2>1 DEF EvacuateFrom, m, cs, r1, o
<1> HIDE DEF r1, e, S
<1>11. e.r.conjs = r1.conjs /\ e.r.Symbolic = S /\ e.r.set = r1.set
  BY <1>9, <1>10 DEF SoundRelation
<1>12. ASSUME NEW i \in DOMAIN s.r.conjs
       PROVE  /\ Clear(cs[i]) /\ cs[i].vars \subseteq S
              /\ \A v \in cs[i].vars : v.of # t
  <2> DEFINE c == s.r.conjs[i]
  <2>1. c \in Conjunct /\ c.vars \subseteq s.r.Symbolic /\ c.vars \subseteq Local /\ Clear(c)
        /\ c.vars \subseteq Used(s.r)
    BY ProperParts DEF Used
  <2>2. Image(c, m).vars = {m[v] : v \in c.vars} \ {Wildcard}
    BY <1>3, <2>1, ImageFields
  <2>3. \A v \in c.vars : m[v] \in S /\ m[v].of # t
    <3> SUFFICES ASSUME NEW v \in c.vars PROVE m[v] \in S /\ m[v].of # t
      OBVIOUS
    <3>1. CASE v \in touched
      BY <1>1, <1>2, <1>5, <3>1 DEF S
    <3>2. CASE v \notin touched
      BY <1>4, <1>8, <2>1, <3>2 DEF S
    <3> QED BY <3>1, <3>2
  <2>4. ASSUME ~ProjectsMixed, NEW v \in c.vars, NEW w \in c.vars, m[v] = m[w]
        PROVE  v = w
    <3>1. ~Mixed(c)
      BY <2>4
    <3>2. CASE v \in touched /\ w \in touched
      <4>1. At(v, o) = At(w, o) /\ v.of = w.of
        BY <1>5, <2>4, <3>2
      <4>2. v.fun = w.fun
        BY <1>1, <1>2, <3>2, <4>1, AtIsVariable
      <4> QED BY <2>1, <4>1, <4>2, AtInjective, <1>1
    <3>3. CASE v \in touched /\ w \notin touched
      <4>1. w = At(v, Other(v.of))
        BY <1>4, <1>5, <2>1, <2>4, <3>3
      <4> QED BY <3>1, <4>1 DEF Mixed
    <3>4. CASE w \in touched /\ v \notin touched
      <4>1. v = At(w, Other(w.of))
        BY <1>4, <1>5, <2>1, <2>4, <3>4
      <4> QED BY <3>1, <4>1 DEF Mixed
    <3>5. CASE v \notin touched /\ w \notin touched
      BY <1>4, <2>1, <2>4, <3>5
    <3> QED BY <3>2, <3>3, <3>4, <3>5
  <2>5. Clear(Image(c, m))
    BY <1>3, <2>1, <2>4, ImageClash
  <2> QED BY <1>6, <2>2, <2>3, <2>5
<1>13. e \in State /\ e.m = Identity
  BY ProperParts, EvacuateKeeps DEF Keeps, e
<1>14. e \in ProperState
  BY <1>8, <1>11, <1>12, <1>13 DEF ProperState, Proper
<1> QED BY <1>8, <1>11, <1>12, <1>14 DEF Used, e

\* align() joins no columns if it sends the tuples in use to different ones.
LEMMA AlignProper ==
  ASSUME NEW s \in ProperState, NEW fate,
         \A t \in Argument_Tuple : fate[t] \in Argument_Tuple \cup {"unknown"},
         \A v \in Used(s.r) : fate[v.of] # "unknown",
         \A v, w \in Used(s.r) : fate[v.of] = fate[w.of] => v.of = w.of
  PROVE  /\ Align(s, fate) \in ProperState
         /\ Align(s, fate).r.set = s.r.set
         /\ \A v \in Align(s, fate).r.Symbolic : \E w \in s.r.Symbolic :
              fate[w.of] # "unknown" /\ v.of = fate[w.of]
<1> DEFINE kept == {v \in s.r.Symbolic : fate[v.of] # "unknown"}
           moved == {v \in kept : fate[v.of] # v.of}
           m == [v \in Local |-> IF v \in moved THEN At(v, fate[v.of]) ELSE s.m[v]]
           S == {At(v, fate[v.of]) : v \in kept}
           r1 == Rename(s.r, m)
           a == Align(s, fate)
<1>1. \A v \in kept : /\ v \in Local /\ fate[v.of] \in Argument_Tuple
                      /\ At(v, fate[v.of]) \in Local /\ At(v, fate[v.of]).of = fate[v.of]
  <2> SUFFICES ASSUME NEW v \in kept
               PROVE  /\ v \in Local /\ fate[v.of] \in Argument_Tuple
                      /\ At(v, fate[v.of]) \in Local /\ At(v, fate[v.of]).of = fate[v.of]
    OBVIOUS
  <2>1. v \in Local /\ v.of \in Argument_Tuple
    BY ProperParts DEF Local
  <2>2. fate[v.of] \in Argument_Tuple
    BY <2>1
  <2> QED BY <2>1, <2>2, AtIsVariable
<1>2. m \in MaybeLost /\ m \in Field
  BY <1>1, ProperParts, StateParts DEF Field, MaybeLost
<1>3. \A v \in kept : m[v] = At(v, fate[v.of])
  <2>1. \A v \in kept \ moved : m[v] = v /\ At(v, v.of) = v /\ fate[v.of] = v.of
    <3>1. s.m = [v \in Local |-> v] /\ kept \subseteq Local
      BY <1>1, ProperParts DEF Identity
    <3>2. \A v \in kept \ moved : m[v] = v /\ fate[v.of] = v.of
      BY <3>1
    <3>3. \A v \in kept : At(v, v.of) = v
      BY <1>1 DEF At, Local
    <3> QED BY <3>2, <3>3
  <2>2. \A v \in moved : m[v] = At(v, fate[v.of])
    BY <1>1
  <2> HIDE DEF m
  <2> QED BY <2>1, <2>2
<1>4. Used(s.r) \subseteq kept
  BY ProperParts
<1> HIDE DEF m
<1>5. /\ DOMAIN r1.conjs = DOMAIN s.r.conjs /\ r1.set = s.r.set
      /\ \A i \in DOMAIN s.r.conjs : r1.conjs[i] = Image(s.r.conjs[i], m)
      /\ r1 \in SoundRelation
  BY <1>2, ProperParts, RenameConjs, RenameSound
<1>6. a.r = [r1 EXCEPT !.Symbolic = S]
  BY DEF Align, m
<1> HIDE DEF r1, a, S
<1>7. a.r.conjs = r1.conjs /\ a.r.Symbolic = S /\ a.r.set = r1.set
  BY <1>5, <1>6 DEF SoundRelation
<1>8. ASSUME NEW i \in DOMAIN s.r.conjs
      PROVE  Clear(r1.conjs[i]) /\ r1.conjs[i].vars \subseteq S
  <2> DEFINE c == s.r.conjs[i]
  <2>1. c \in Conjunct /\ c.vars \subseteq kept /\ Clear(c) /\ c.vars \subseteq Used(s.r)
    BY <1>4, ProperParts DEF Used
  <2>2. Image(c, m).vars = {m[v] : v \in c.vars} \ {Wildcard}
    BY <1>2, <2>1, ImageFields
  <2>3. \A v \in c.vars : m[v] \in S
    BY <1>3, <2>1 DEF S
  <2>4. ASSUME NEW v \in c.vars, NEW w \in c.vars, m[v] = m[w]
        PROVE  v = w
    <3>1. v \in kept /\ w \in kept /\ At(v, fate[v.of]) = At(w, fate[w.of])
      BY <1>3, <2>1, <2>4
    <3>2. fate[v.of] = fate[w.of]
      BY <1>1, <3>1
    <3>3. v.of = w.of
      BY <2>1, <3>2
    <3>4. v.fun = w.fun
      BY <1>1, <3>1, AtIsVariable
    <3> QED BY <1>1, <3>1, <3>3, <3>4, AtInjective
  <2>5. Clear(Image(c, m))
    BY <1>2, <2>1, <2>4, ImageClash
  <2> QED BY <1>5, <2>2, <2>3, <2>5
<1>9. a \in State /\ a.m = Identity
  BY ProperParts, AlignKeeps DEF Keeps, a
<1>10. a \in ProperState
  BY <1>5, <1>7, <1>8, <1>9 DEF ProperState, Proper
<1> QED BY <1>1, <1>5, <1>7, <1>10 DEF a, S

-------------------------------------------------------------------------------
(* One lemma for each operation.                                           *)

LEMMA OperandProper ==
  ASSUME IInv, NotOfInput, PInv, NEW h \in Handle, rel[h] # Null
  PROVE  /\ Operand(h) \in ProperState /\ Operand(h).r = rel[h] /\ Operand(h).m = remap
         /\ InputOnly(rel[h])
BY OperandState DEF PInv, NotOfInput, ProperState

LEMMA ReturnProper ==
  ASSUME IInv, PInv, run = Idle, NEW h \in Handle,
         NEW s \in ProperState, InputOnly(s.r), Return(h, s)
  PROVE  PInv'
<1>1. rel' = [rel EXCEPT ![h] = s.r] /\ run' = Idle
  BY DEF Return
<1>2. Proper(s.r) /\ InputOnly(s.r)
  BY DEF ProperState
<1> QED BY <1>1, <1>2 DEF PInv, IInv

LEMMA InitProper == Init => PInv
BY DEF Init, PInv

LEMMA BuildProper ==
  ASSUME IInv, NotOfInput, PInv, NEW h \in Handle, NEW cs \in Formulas, Build(h, cs)
  PROVE  PInv'
<1> DEFINE made == [i \in DOMAIN cs |-> [vars |-> cs[i], zeros |-> -1, exact |-> TRUE,
                                          clash |-> FALSE, lost |-> FALSE]]
           S == UNION {cs[i] : i \in DOMAIN cs}
           r == [Symbolic |-> S, set |-> FALSE, conjs |-> made]
<1>1. rel' = [rel EXCEPT ![h] = r] /\ run' = run /\ run = Idle
  BY DEF Build, Return
<1>2. Proper(r) /\ InputOnly(r)
  <2>1. \A i \in DOMAIN made : made[i].vars \subseteq S /\ Clear(made[i])
    BY DEF Clear
  <2> HIDE DEF made, S
  <2> QED BY <2>1 DEF Proper, InputOnly
<1> HIDE DEF r
<1> QED BY <1>1, <1>2 DEF PInv, IInv

LEMMA CopyProper ==
  ASSUME IInv, NotOfInput, PInv, NEW h \in Handle, NEW k \in Handle, Copy(h, k)
  PROVE  PInv'
<1>1. run = Idle /\ rel[k] # Null /\ Return(h, Operand(k))
  BY DEF Copy
<1> QED BY <1>1, OperandProper, ReturnProper

LEMMA InverseProper ==
  ASSUME IInv, NotOfInput, PInv, NEW h \in Handle, Inverse(h)
  PROVE  PInv'
<1> DEFINE fate == [u \in Argument_Tuple |-> Other(u)]
<1>1. run = Idle /\ rel[h] # Null /\ rel[h].set # TRUE
  BY DEF Inverse, IsRelation
<1>2. PICK s \in Split(Operand(h)) : Return(h, Align(s, fate))
  BY DEF Inverse
<1>3. s = Operand(h) /\ s \in ProperState /\ s.r = rel[h]
  BY <1>1, OperandProper, ProperParts, SplitChangesNothing
<1>4. /\ \A t \in Argument_Tuple : fate[t] \in Argument_Tuple
      /\ \A t, u \in Argument_Tuple : fate[t] = fate[u] => t = u
      /\ "unknown" \notin Argument_Tuple
  BY DEF Other, Argument_Tuple
<1>5. \A v \in Used(s.r) : v.of \in Argument_Tuple
  BY <1>3, ProperParts DEF Local
<1> HIDE DEF fate
<1>6. Align(s, fate) \in ProperState /\ Align(s, fate).r.set = s.r.set
  <2>1. \A t \in Argument_Tuple : fate[t] \in Argument_Tuple \cup {"unknown"}
    BY <1>4
  <2>2. \A v \in Used(s.r) : fate[v.of] # "unknown"
    BY <1>4, <1>5
  <2>3. \A v, w \in Used(s.r) : fate[v.of] = fate[w.of] => v.of = w.of
    BY <1>4, <1>5
  <2> QED BY <1>3, <2>1, <2>2, <2>3, AlignProper
<1>7. InputOnly(Align(s, fate).r)
  BY <1>1, <1>3, <1>6 DEF InputOnly
<1> QED BY <1>1, <1>2, <1>6, <1>7, ReturnProper

LEMMA ProjectProper ==
  ASSUME IInv, NotOfInput, PInv, NEW h \in Handle, NEW t \in Argument_Tuple, Project(h, t)
  PROVE  PInv'
<1> DEFINE fate == [u \in Argument_Tuple |-> IF u = t THEN "unknown" ELSE "in"]
           Evac(s) == IF Declares(s.r, t) THEN EvacuateFrom(s, t) ELSE s
           Result(s) == [s EXCEPT !.r = [Rewritten(@, @.conjs) EXCEPT !.set = TRUE]]
           B == Declares(rel[h], t)
<1>1. run = Idle /\ rel[h] # Null /\ Operand(h) \in ProperState
  BY OperandProper DEF Project, IsRelation
<1>2. PICK s1 \in IF B THEN Settle(Operand(h)) ELSE {Operand(h)} :
        \E s2 \in Split(s1) :
          /\ ProjectsMixed \/ \A i \in DOMAIN s2.r.conjs : ~Mixed(s2.r.conjs[i])
          /\ Return(h, Result(Align(Evac(s2), fate)))
  BY DEF Project
<1>3. PICK s2 \in Split(s1) :
          /\ ProjectsMixed \/ \A i \in DOMAIN s2.r.conjs : ~Mixed(s2.r.conjs[i])
          /\ Return(h, Result(Align(Evac(s2), fate)))
  BY <1>2
<1>4. s2 \in ProperState
  <2>1. B \in BOOLEAN
    BY DEF Declares
  <2> HIDE DEF B
  <2> QED BY <1>1, <2>1, OptionalSettle
<1>5. Evac(s2) \in ProperState /\ \A v \in Used(Evac(s2).r) : v.of # t
  <2>1. CASE Declares(s2.r, t)
    BY <1>3, <1>4, <2>1, EvacuateProper
  <2>2. CASE ~Declares(s2.r, t)
    BY <1>4, <2>2, ProperParts DEF Declares
  <2> QED BY <2>1, <2>2
<1> DEFINE e == Evac(s2)
           a == Align(e, fate)
<1> HIDE DEF e, Evac
<1>6. e \in ProperState /\ \A v \in Used(e.r) : v.of # t /\ v.of \in Argument_Tuple
  BY <1>5, ProperParts DEF Local, e
<1>7. a \in ProperState /\ \A v \in a.r.Symbolic : v.of = "in"
  <2>1. \A u \in Argument_Tuple : fate[u] \in Argument_Tuple \cup {"unknown"}
    BY DEF Argument_Tuple
  <2>2. \A v \in Used(e.r) : fate[v.of] # "unknown"
    BY <1>6
  <2>3. \A v, w \in Used(e.r) : fate[v.of] = fate[w.of] => v.of = w.of
    BY <1>6 DEF Argument_Tuple
  <2>4. \A u \in Argument_Tuple : fate[u] # "unknown" => fate[u] = "in"
    OBVIOUS
  <2>5. \A v \in e.r.Symbolic : v.of \in Argument_Tuple
    BY <1>6, ProperParts DEF Local
  <2> HIDE DEF fate
  <2> QED BY <1>6, <2>1, <2>2, <2>3, <2>4, <2>5, AlignProper
<1> HIDE DEF a, fate
<1> DEFINE r1 == Rewritten(a.r, a.r.conjs)
           x == [r1 EXCEPT !.set = TRUE]
<1>8. /\ r1 \in SoundRelation /\ DOMAIN r1.conjs = DOMAIN a.r.conjs
      /\ r1.Symbolic = a.r.Symbolic
      /\ \A i \in DOMAIN a.r.conjs : r1.conjs[i].vars = a.r.conjs[i].vars /\ Clear(r1.conjs[i])
  BY <1>7, ProperParts, StateParts, RewrittenSound, RewrittenConjs
<1>9. Result(a) = [r |-> x, m |-> a.m]
  <2>1. Result(a) = [a EXCEPT !.r = x]
    OBVIOUS
  <2> HIDE DEF x, Result
  <2>2. [a EXCEPT !.r = x] = [r |-> x, m |-> a.m]
    BY <1>7, ProperParts DEF State
  <2> QED BY <2>1, <2>2
<1> HIDE DEF r1, Result
<1>10. /\ x \in SoundRelation /\ x.conjs = r1.conjs /\ x.Symbolic = a.r.Symbolic
  BY <1>8 DEF SoundRelation
<1> HIDE DEF x
<1>11. Result(a) \in ProperState /\ InputOnly(Result(a).r)
  BY <1>7, <1>8, <1>9, <1>10, ProperParts, StateParts DEF ProperState, State, Proper, InputOnly
<1>12. Return(h, Result(a))
  BY <1>3 DEF a, e
<1> QED BY <1>1, <1>11, <1>12, ReturnProper

\* A conjunct whose functions of the output tuple follow its leading zeros to
\* the input tuple, or are lost.
LEMMA FollowsZeros ==
  ASSUME NEW c \in Conjunct, Clear(c), Separated(c), NEW m \in MaybeLost, NEW gone,
         \A v \in gone : v.of = "out",
         \A v \in c.vars \ gone : m[v] = v,
         \A v \in c.vars \cap gone : m[v] \in {At(v, "in"), Wildcard}
                                     /\ (m[v] # Wildcard => Arity[v.fun] <= c.zeros)
  PROVE  Clear(Image(c, m))
<1>1. c.vars \subseteq Local /\ \A v \in Local : At(v, "in") \in Local
  BY AtIsVariable DEF Conjunct, Argument_Tuple
<1>2. ASSUME NEW v \in c.vars, NEW w \in c.vars, m[v] = m[w], m[v] # Wildcard,
             v \in gone, w \notin gone
      PROVE  FALSE
  <2>1. w = At(v, "in") /\ Arity[v.fun] <= c.zeros /\ v.of = "out"
    BY <1>2
  <2> QED BY <2>1 DEF Separated
<1>3. ASSUME NEW v \in c.vars, NEW w \in c.vars, m[v] = m[w], v # w
      PROVE  m[v] = Wildcard
  <2> SUFFICES ASSUME m[v] # Wildcard PROVE FALSE
    OBVIOUS
  <2>1. CASE v \in gone /\ w \in gone
    <3>1. At(v, "in") = At(w, "in") /\ v.of = w.of
      BY <1>3, <2>1
    <3>2. v.fun = w.fun
      BY <1>1, <3>1, AtIsVariable DEF Argument_Tuple
    <3> QED BY <1>1, <1>3, <3>1, <3>2, AtInjective DEF Argument_Tuple
  <2>2. CASE v \notin gone /\ w \notin gone
    BY <1>3, <2>2
  <2>3. CASE v \in gone /\ w \notin gone
    BY <1>2, <1>3, <2>3
  <2>4. CASE w \in gone /\ v \notin gone
    BY <1>2, <1>3, <2>4
  <2> QED BY <2>1, <2>2, <2>3, <2>4
<1> QED BY <1>3, ImageClash

LEMMA AfterProper ==
  ASSUME IInv, NotOfInput, PInv, NEW h \in Handle, NEW preserved \in Nat, After(h, preserved)
  PROVE  PInv'
<1> DEFINE B == \E v \in rel[h].Symbolic : v.of = "out" /\ Arity[v.fun] >= preserved
           gone(s) == {v \in Used(s.r) : v.of = "out" /\ Arity[v.fun] > preserved}
           Lost(s, c) == {v \in gone(s) \cap c.vars : c.zeros < Arity[v.fun]}
           To(s, c) == [v \in Local |-> IF v \notin gone(s) THEN s.m[v]
                                        ELSE IF v \in Lost(s, c) THEN Wildcard
                                        ELSE At(v, "in")]
           cs(s) == [i \in DOMAIN s.r.conjs |->
                       LET c == s.r.conjs[i]
                       IN  make_inexact(Image(c, To(s, c)), Lost(s, c))]
           m(s) == reset_remap_field(s.m, gone(s))
           Left(s, S) == {v \in S \cup {At(v, "in") : v \in gone(s)} :
                            v.of = "out" => Arity[v.fun] <= preserved}
           Result(s) == [r |-> [Rename(Rewritten(s.r, cs(s)), m(s)) EXCEPT
                                  !.Symbolic = Left(s, @)],
                         m |-> m(s)]
<1>1. run = Idle /\ rel[h] # Null /\ rel[h].set # TRUE /\ Operand(h) \in ProperState
  BY OperandProper DEF After, IsRelation
<1>2. PICK s1 \in IF B THEN Settle(Operand(h)) ELSE {Operand(h)} :
        \E s \in Split(s1) : Return(h, Result(s))
  BY DEF After
<1>3. PICK s \in Split(s1) : Return(h, Result(s))
  BY <1>2
<1>4. /\ s \in ProperState /\ s.r.Symbolic = rel[h].Symbolic /\ s.r.set = rel[h].set
      /\ B => \A i \in DOMAIN s.r.conjs : Separated(s.r.conjs[i])
  <2>1. B \in BOOLEAN /\ Operand(h).r = rel[h]
    BY <1>1, OperandProper
  <2> HIDE DEF B
  <2> QED BY <1>1, <2>1, OptionalSettle
<1>5. gone(s) \subseteq s.r.Symbolic /\ gone(s) \subseteq Local
      /\ \A v \in Local : Arity[v.fun] \in Int
  <2>1. \A v \in Local : Arity[v.fun] \in Int
    BY ArityAssumption DEF Local
  <2> QED BY <1>4, <2>1, ProperParts
<1>6. gone(s) # {} => \A i \in DOMAIN s.r.conjs : Separated(s.r.conjs[i])
  <2>1. \A v \in gone(s) : v \in rel[h].Symbolic /\ v.of = "out" /\ Arity[v.fun] >= preserved
    BY <1>4, <1>5
  <2> QED BY <1>4, <2>1
<1>7. \A v \in gone(s) : At(v, "in") \in Local /\ At(v, "in").of = "in"
  BY <1>5, AtIsVariable DEF Argument_Tuple
<1>8. m(s) = Identity
  BY <1>4, ProperParts DEF reset_remap_field, Identity
<1> DEFINE S == Left(s, s.r.Symbolic)
<1>9. ASSUME NEW i \in DOMAIN s.r.conjs
      PROVE  /\ cs(s)[i] \in Sound /\ Clear(cs(s)[i]) /\ cs(s)[i].vars \subseteq S
  <2> DEFINE c == s.r.conjs[i]
             M == To(s, c)
  <2>1. /\ c \in Conjunct /\ c \in Sound /\ c.vars \subseteq Local
        /\ c.vars \subseteq s.r.Symbolic /\ Clear(c)
        /\ c.vars \subseteq Used(s.r) /\ c.zeros \in Int
    BY <1>4, ProperParts, StateParts, ArityAssumption DEF Used, Conjunct
  <2>2. \A v \in Local : s.m[v] = v
    BY <1>4, ProperParts DEF Identity
  <2>3. M \in MaybeLost
    BY <1>7, <2>2 DEF MaybeLost
  <2>4. /\ \A v \in c.vars \ gone(s) : M[v] = v
        /\ \A v \in c.vars \cap gone(s) : M[v] = IF v \in Lost(s, c) THEN Wildcard ELSE At(v, "in")
    BY <2>1, <2>2
  <2>5. \A v \in c.vars : M[v] = Wildcard => v \in Lost(s, c)
    BY <1>7, <2>1, <2>4, WildcardIsNoVariable
  <2>6. \A v \in (c.vars \cap gone(s)) \ Lost(s, c) : Arity[v.fun] <= c.zeros
    BY <1>5, <2>1
  <2>7. \A v \in c.vars : M[v] # Wildcard => M[v] \in S
    <3> SUFFICES ASSUME NEW v \in c.vars, M[v] # Wildcard PROVE M[v] \in S
      OBVIOUS
    <3>1. CASE v \in gone(s)
      <4>1. M[v] = At(v, "in")
        BY <2>4, <3>1
      <4> HIDE DEF M
      <4> QED BY <1>7, <3>1, <4>1
    <3>2. CASE v \notin gone(s)
      <4>1. M[v] = v
        BY <2>4, <3>2
      <4>2. v.of = "out" => Arity[v.fun] <= preserved
        BY <1>5, <2>1, <3>2
      <4> HIDE DEF M
      <4> QED BY <2>1, <4>1, <4>2
    <3> QED BY <3>1, <3>2
  <2>8. Clear(Image(c, M))
    <3>1. CASE gone(s) = {}
      <4>1. \A v \in c.vars : M[v] = v
        BY <2>4, <3>1
      <4> HIDE DEF M
      <4> QED BY <2>1, <2>3, <4>1, ImageClash
    <3>2. CASE gone(s) # {}
      <4>1. Separated(c)
        BY <1>6, <3>2
      <4>2. \A v \in c.vars \cap gone(s) : M[v] \in {At(v, "in"), Wildcard}
                                     /\ (M[v] # Wildcard => Arity[v.fun] <= c.zeros)
        BY <2>4, <2>6
      <4>3. \A v \in gone(s) : v.of = "out"
        OBVIOUS
      <4> HIDE DEF M, gone
      <4> QED BY <2>1, <2>3, <2>4, <4>1, <4>2, <4>3, FollowsZeros
    <3> QED BY <3>1, <3>2
  <2>9. cs(s)[i] = make_inexact(Image(c, M), Lost(s, c))
    OBVIOUS
  <2> HIDE DEF M, Lost, cs, S
  <2>10. Image(c, M) \in Conjunct /\ Image(c, M).vars = {M[v] : v \in c.vars} \ {Wildcard}
    BY <2>1, <2>3, ImageFields
  <2> QED BY <2>1, <2>3, <2>5, <2>7, <2>8, <2>9, <2>10, LossSound, InexactKeeps
<1> HIDE DEF cs, S
<1> DEFINE r1 == Rewritten(s.r, cs(s))
           r2 == Rename(r1, Identity)
           x == [r2 EXCEPT !.Symbolic = S]
<1>10. /\ r1 \in SoundRelation /\ DOMAIN r1.conjs = DOMAIN s.r.conjs
       /\ r1.Symbolic = s.r.Symbolic /\ r1.set = s.r.set
       /\ \A i \in DOMAIN s.r.conjs : r1.conjs[i].vars = cs(s)[i].vars /\ Clear(r1.conjs[i])
  BY <1>4, <1>9, ProperParts, RewrittenSound, RewrittenConjs
<1> HIDE DEF r1
<1>11. /\ r2 \in SoundRelation /\ DOMAIN r2.conjs = DOMAIN s.r.conjs
       /\ r2.Symbolic = s.r.Symbolic /\ r2.set = s.r.set
       /\ \A i \in DOMAIN s.r.conjs : r2.conjs[i] = r1.conjs[i]
  <2>1. Identity \in Field
    BY DEF Identity, Field
  <2>2. \A i \in DOMAIN r1.conjs : r1.conjs[i] \in Conjunct
    BY <1>10 DEF SoundRelation, Sound
  <2> QED BY <1>10, <2>1, <2>2, RenameConjs, RenameSound, ImageIdentity
<1>12. Result(s) = [r |-> x, m |-> Identity]
  <2>1. [r2 EXCEPT !.Symbolic = Left(s, @)] = x
    BY <1>11 DEF S
  <2> QED BY <1>8, <2>1 DEF r1
<1>13. S \subseteq Local
  BY <1>4, <1>7, ProperParts DEF S
<1> HIDE DEF r2, Result
<1>14. x \in SoundRelation /\ x.conjs = r2.conjs /\ x.Symbolic = S /\ x.set = s.r.set
  BY <1>11, <1>13 DEF SoundRelation
<1> HIDE DEF x
<1>15. Identity \in Field
  BY DEF Identity, Field
<1>16. Result(s) \in ProperState /\ InputOnly(Result(s).r)
  <2>1. Result(s) \in State
    BY <1>12, <1>14, <1>15 DEF State
  <2>2. Proper(x) /\ InputOnly(x)
    BY <1>1, <1>4, <1>9, <1>10, <1>11, <1>14 DEF Proper, InputOnly
  <2> QED BY <1>12, <2>1, <2>2 DEF ProperState
<1> QED BY <1>1, <1>3, <1>16, ReturnProper

LEMMA DeltasProper ==
  ASSUME IInv, NotOfInput, PInv, NEW h \in Handle, Deltas(h)
  PROVE  PInv'
<1> DEFINE m(s) == [v \in Local |-> IF v \in Used(s.r) THEN Wildcard ELSE s.m[v]]
           cs(s) == [i \in DOMAIN s.r.conjs |->
                       LET c == s.r.conjs[i] IN make_inexact(Image(c, m(s)), c.vars)]
           Result(s) == [r |-> [Rewritten(s.r, cs(s)) EXCEPT !.set = TRUE, !.Symbolic = {}],
                         m |-> reset_remap_field(m(s), Used(s.r))]
<1>1. run = Idle /\ rel[h] # Null /\ Operand(h) \in ProperState
  BY OperandProper DEF Deltas, IsRelation
<1>2. PICK s1 \in Settle(Operand(h)) : \E s \in Split(s1) : Return(h, Result(s))
  BY DEF Deltas
<1>3. PICK s \in Split(s1) : Return(h, Result(s))
  BY <1>2
<1>4. s \in ProperState
  <2>1. s1 \in IF TRUE THEN Settle(Operand(h)) ELSE {Operand(h)}
    BY <1>2
  <2> QED BY <1>1, <2>1, OptionalSettle
<1>5. m(s) \in MaybeLost /\ \A v \in Used(s.r) : m(s)[v] = Wildcard
  <2>1. \A v \in Local : s.m[v] \in Local
    BY <1>4, ProperParts DEF Identity
  <2>2. Used(s.r) \subseteq Local
    BY <1>4, ProperParts
  <2> QED BY <2>1, <2>2 DEF MaybeLost
<1>6. reset_remap_field(m(s), Used(s.r)) = Identity
  BY <1>4, ProperParts DEF reset_remap_field, Identity
<1>7. ASSUME NEW i \in DOMAIN s.r.conjs
      PROVE  cs(s)[i] \in Sound /\ Clear(cs(s)[i]) /\ cs(s)[i].vars = {}
  <2> DEFINE c == s.r.conjs[i]
  <2>1. c \in Conjunct /\ c \in Sound /\ Clear(c) /\ c.vars \subseteq Used(s.r)
    BY <1>4, ProperParts, StateParts DEF Used
  <2>2. cs(s)[i] = make_inexact(Image(c, m(s)), c.vars)
    OBVIOUS
  <2> HIDE DEF m, cs
  <2>3. /\ Image(c, m(s)) \in Conjunct /\ Clear(Image(c, m(s)))
        /\ Image(c, m(s)).vars = {m(s)[v] : v \in c.vars} \ {Wildcard}
    BY <1>5, <2>1, ImageFields, ImageClash
  <2>4. Image(c, m(s)).vars = {}
    BY <1>5, <2>1, <2>3
  <2> QED BY <1>5, <2>1, <2>2, <2>3, <2>4, LossSound, InexactKeeps
<1> HIDE DEF cs
<1> DEFINE r1 == Rewritten(s.r, cs(s))
           x == [r1 EXCEPT !.set = TRUE, !.Symbolic = {}]
<1>8. /\ r1 \in SoundRelation /\ DOMAIN r1.conjs = DOMAIN s.r.conjs
      /\ \A i \in DOMAIN s.r.conjs : r1.conjs[i].vars = {} /\ Clear(r1.conjs[i])
  BY <1>4, <1>7, ProperParts, RewrittenSound, RewrittenConjs
<1>9. Result(s) = [r |-> x, m |-> Identity]
  BY <1>6
<1> HIDE DEF r1, Result
<1>10. /\ x \in SoundRelation /\ x.conjs = r1.conjs /\ x.Symbolic = {}
  BY <1>8 DEF SoundRelation
<1> HIDE DEF x
<1>11. Identity \in Field
  BY DEF Identity, Field
<1>12. Result(s) \in ProperState /\ InputOnly(Result(s).r)
  <2>1. Result(s) \in State
    BY <1>9, <1>10, <1>11 DEF State
  <2>2. Proper(x) /\ InputOnly(x)
    BY <1>8, <1>10 DEF Proper, InputOnly
  <2> QED BY <1>9, <2>1, <2>2 DEF ProperState
<1> QED BY <1>1, <1>3, <1>12, ReturnProper

-------------------------------------------------------------------------------
(* Composition.                                                            *)

LEMMA ComposeStartProper ==
  ASSUME IInv, NotOfInput, PInv, NEW a \in Handle, NEW b \in Handle, ComposeStart(a, b)
  PROVE  PInv'
<1>1. run = Idle /\ rel[a] # Null /\ rel[b] # Null
  BY DEF ComposeStart, IsRelation
<1> DEFINE Started(t1, t2) ==
             /\ rel' = [rel EXCEPT ![a] = Null, ![b] = Null]
             /\ run' = [h |-> a, first |-> t1.r.conjs, second |-> t2.r.conjs,
                        pairs |-> <<>>]
<1>2. PICK s1 \in Settle(Operand(a)) :
         \E s2 \in Settle([r |-> rel[b], m |-> s1.m]) :
         \E t1 \in Split([s1 EXCEPT !.m = s2.m]) :
         \E t2 \in Split([s2 EXCEPT !.m = t1.m]) : Started(t1, t2)
  BY DEF ComposeStart
<1>3. PICK s2 \in Settle([r |-> rel[b], m |-> s1.m]) :
         \E t1 \in Split([s1 EXCEPT !.m = s2.m]) :
         \E t2 \in Split([s2 EXCEPT !.m = t1.m]) : Started(t1, t2)
  BY <1>2
<1>4. PICK t1 \in Split([s1 EXCEPT !.m = s2.m]) :
         \E t2 \in Split([s2 EXCEPT !.m = t1.m]) : Started(t1, t2)
  BY <1>3
<1>5. PICK t2 \in Split([s2 EXCEPT !.m = t1.m]) : Started(t1, t2)
  BY <1>4
<1>6. s1 \in ProperState /\ s1.m = Identity
  BY <1>1, OperandProper, SettleProper, ProperParts
<1>7. [r |-> rel[b], m |-> s1.m] \in ProperState
  <2>1. Operand(b) = [r |-> rel[b], m |-> s1.m]
    BY <1>6 DEF Operand, NotOfInput
  <2> QED BY <1>1, <2>1, OperandProper
<1>8. s2 \in ProperState /\ s2.m = Identity /\ \A i \in DOMAIN s2.r.conjs : Separated(s2.r.conjs[i])
  BY <1>7, SettleProper, ProperParts
<1>9. t1 = s1
  <2>1. [s1 EXCEPT !.m = s2.m] = s1
    BY <1>6, <1>8 DEF ProperState, State
  <2> QED BY <1>6, <2>1, ProperParts, SplitChangesNothing
<1>10. t2 = s2
  <2>1. [s2 EXCEPT !.m = t1.m] = s2
    BY <1>6, <1>8, <1>9 DEF ProperState, State
  <2> QED BY <1>8, <2>1, ProperParts, SplitChangesNothing
<1>11. PairsProper(run')
  <2>1. run'.first = s1.r.conjs /\ run'.second = s2.r.conjs /\ run'.pairs = <<>>
    BY <1>5, <1>9, <1>10
  <2> QED BY <1>6, <1>8, <2>1, ProperParts DEF PairsProper
<1>12. \A h \in Handle : rel'[h] # Null => rel'[h] = rel[h]
  BY <1>5 DEF IInv
<1> QED BY <1>11, <1>12 DEF PInv

\* Where the second operand's functions of the middle tuple go.
LEMMA OutOfMiddleFollows ==
  ASSUME NEW one \in Conjunct, NEW two \in Conjunct, Clear(two), Separated(two)
  PROVE  LET m == OutOfMiddle(one, two, Identity)
         IN  /\ m \in MaybeLost /\ Clear(Image(two, m))
             /\ \A v \in two.vars :
                  m[v] \in IF v.of = "in" THEN {v} ELSE Middle(v.fun, one.zeros, two.zeros)
<1> DEFINE m == OutOfMiddle(one, two, Identity)
           gone == {v \in two.vars : v.of = "out" /\ m[v] # v}
<1>1. two.vars \subseteq Local /\ \A v \in Local : At(v, "in") \in Local
  BY AtIsVariable DEF Conjunct, Argument_Tuple
<1>2. m \in MaybeLost
  BY <1>1 DEF OutOfMiddle, MaybeLost, Identity
<1>3. \A v \in two.vars : m[v] = IF v.of = "in" THEN v
                                 ELSE IF two.zeros >= Arity[v.fun] THEN At(v, "in")
                                 ELSE IF one.zeros >= Arity[v.fun] THEN v
                                 ELSE Wildcard
  BY <1>1 DEF OutOfMiddle, Identity
<1>4. \A v \in Local : Arity[v.fun] \in Int
  BY ArityAssumption DEF Local
<1>5. one.zeros \in Int /\ two.zeros \in Int
  BY ArityAssumption DEF Conjunct
<1> HIDE DEF m
<1>6. Clear(Image(two, m))
  <2>1. \A v \in two.vars \ gone : m[v] = v
    <3>1. \A v \in two.vars : v.of = "in" \/ v.of = "out"
      BY <1>1 DEF Local, Argument_Tuple
    <3> QED BY <1>3, <3>1
  <2>2. \A v \in two.vars \cap gone : m[v] \in {At(v, "in"), Wildcard}
                                       /\ (m[v] # Wildcard => Arity[v.fun] <= two.zeros)
    BY <1>1, <1>3, <1>4, <1>5
  <2>3. \A v \in gone : v.of = "out"
    OBVIOUS
  <2> HIDE DEF gone
  <2> QED BY <1>2, <2>1, <2>2, <2>3, FollowsZeros
<1>7. ASSUME NEW v \in two.vars, v.of # "in"
      PROVE  m[v] \in Middle(v.fun, one.zeros, two.zeros)
  <2>1. At(v, "in") = In(v.fun) /\ v = Out(v.fun)
    BY <1>1, <1>7 DEF At, In, Out, Local, Argument_Tuple
  <2>2. Arity[v.fun] \in Int
    BY <1>1, <1>4
  <2>3. CASE two.zeros >= Arity[v.fun]
    BY <1>3, <1>7, <2>1, <2>3 DEF Middle
  <2>4. CASE ~(two.zeros >= Arity[v.fun]) /\ one.zeros >= Arity[v.fun]
    BY <1>3, <1>7, <2>1, <2>4 DEF Middle
  <2>5. CASE ~(two.zeros >= Arity[v.fun]) /\ ~(one.zeros >= Arity[v.fun])
    BY <1>3, <1>5, <1>7, <2>2, <2>5 DEF Middle
  <2> QED BY <2>3, <2>4, <2>5
<1>8. \A v \in two.vars : v.of = "in" => m[v] = v
  BY <1>3
<1> QED BY <1>2, <1>6, <1>7, <1>8 DEF m

LEMMA ComposePairProper ==
  ASSUME IInv, NotOfInput, PInv, ComposePair
  PROVE  PInv'
<1> DEFINE n == Len(run.pairs)
           conj1 == run.first[(n \div Len(run.second)) + 1]
           conj2 == run.second[(n % Len(run.second)) + 1]
           copy1 == Image(conj1, remap)
           copy2 == Image(conj2, remap)
           m2 == OutOfMiddle(copy1, copy2, remap)
           set2 == {v \in copy2.vars : m2[v] # remap[v]}
           m1 == InOfMiddle(copy1, reset_remap_field(remap, set2))
           lost == {v \in copy2.vars : m2[v] = Wildcard}
           conj3 == make_inexact(MERGE_COMPOSE(Image(copy1, m1), Image(copy2, m2)), lost)
           to1 == [v \in conj1.vars |-> m1[remap[v]]]
           to2 == [v \in conj2.vars |-> m2[remap[v]]]
           pair == [conj1 |-> conj1, conj2 |-> conj2, conj3 |-> conj3,
                    to1 |-> to1, to2 |-> to2]
<1>1. /\ run \in SoundComposing /\ run # Idle
      /\ n < Len(run.first) * Len(run.second)
      /\ rel' = rel /\ run' = [run EXCEPT !.pairs = Append(@, pair)]
  BY DEF ComposePair, IInv, Pairs
<1>2. /\ run.first \in Seq(Sound) /\ run.second \in Seq(Sound) /\ run.pairs \in Seq(SoundPair)
      /\ remap = Identity /\ PairsProper(run)
  BY <1>1 DEF SoundComposing, NotOfInput, PInv
<1>3. /\ (n \div Len(run.second)) + 1 \in DOMAIN run.first
      /\ (n % Len(run.second)) + 1 \in DOMAIN run.second
  <2>1. n \in Nat /\ Len(run.first) \in Nat /\ Len(run.second) \in Nat
    BY <1>2
  <2>2. DOMAIN run.first = 1 .. Len(run.first) /\ DOMAIN run.second = 1 .. Len(run.second)
    BY <1>2
  <2> QED BY <1>1, <2>1, <2>2, NextPair
<1>4. conj1 \in Conjunct /\ conj2 \in Conjunct
  <2>1. run.first \in Seq(Sound) /\ run.second \in Seq(Sound)
    BY <1>2
  <2>2. conj1 \in Sound /\ conj2 \in Sound
    BY <1>3, <2>1, ElementOf
  <2> QED BY <2>2 DEF Sound
<1>5. /\ Clear(conj1) /\ Clear(conj2) /\ Separated(conj2)
      /\ \A v \in conj1.vars : v.of # "in"
  BY <1>1, <1>2, <1>3 DEF PairsProper, NotOfInput
<1> HIDE DEF conj1, conj2
<1>6. copy1 = conj1 /\ copy2 = conj2
  BY <1>2, <1>4, ImageIdentity
<1>7. conj1.vars \subseteq Local /\ conj2.vars \subseteq Local
  BY <1>4 DEF Conjunct
<1> HIDE DEF copy1, copy2
<1>8. m1 = Identity
  BY <1>2, <1>5, <1>6 DEF InOfMiddle, reset_remap_field, Identity
<1>9. m2 = OutOfMiddle(conj1, conj2, Identity)
  BY <1>2, <1>6
<1>10. /\ m2 \in MaybeLost /\ Clear(Image(conj2, m2))
       /\ \A v \in conj2.vars :
            m2[v] \in IF v.of = "in" THEN {v} ELSE Middle(v.fun, conj1.zeros, conj2.zeros)
  BY <1>4, <1>5, <1>9, OutOfMiddleFollows
<1> HIDE DEF m1, m2
<1>11. Image(copy1, m1) = conj1
  BY <1>4, <1>6, <1>8, ImageIdentity
<1> DEFINE d == Image(conj2, m2)
           e == MERGE_COMPOSE(conj1, d)
<1>12. d \in Conjunct
  BY <1>4, <1>10, ImageFields
<1> HIDE DEF d
<1>13. e \in Conjunct /\ Clear(e)
  BY <1>4, <1>5, <1>10, <1>12 DEF MERGE_COMPOSE, Conjunct, Clear, d
<1>14. conj3 = make_inexact(e, lost)
  BY <1>6, <1>11 DEF d
<1> HIDE DEF conj3, e
<1>15. Clear(conj3) /\ (conj3.exact => lost = {})
  <2> HIDE DEF lost
  <2> QED BY <1>13, <1>14, InexactKeeps
<1>16. \A v \in conj1.vars : to1[v] = v
  BY <1>2, <1>7, <1>8 DEF Identity
<1>17. \A v \in conj2.vars : to2[v] = m2[v]
  BY <1>2, <1>7 DEF Identity
<1> HIDE DEF to1, to2
<1>18. AsDocumented(pair)
  <2>1. FirstAsDocumented(pair)
    BY <1>5, <1>7, <1>16 DEF FirstAsDocumented, Local, Argument_Tuple
  <2>2. SecondAsDocumented(pair)
    BY <1>10, <1>17 DEF SecondAsDocumented
  <2>3. Wildcard \notin {to1[v] : v \in conj1.vars}
    BY <1>7, <1>16, WildcardIsNoVariable
  <2>4. conj3.exact => Wildcard \notin {to2[v] : v \in conj2.vars}
    BY <1>6, <1>15, <1>17
  <2> QED BY <2>1, <2>2, <2>3, <2>4 DEF AsDocumented
<1> HIDE DEF lost, n
<1>19. pair.conj3 = conj3
  OBVIOUS
<1> HIDE DEF pair
<1>20. PairsProper(run')
  <2>1. /\ run'.first = run.first /\ run'.second = run.second
        /\ run'.pairs = Append(run.pairs, pair)
    BY <1>1 DEF SoundComposing
  <2>2. \A i \in DOMAIN run'.pairs : run'.pairs[i] = pair \/ (i \in DOMAIN run.pairs /\ run'.pairs[i] = run.pairs[i])
    BY <1>2, <2>1
  <2>3. \A i \in DOMAIN run'.pairs : Clear(run'.pairs[i].conj3) /\ AsDocumented(run'.pairs[i])
    BY <1>2, <1>15, <1>18, <1>19, <2>2 DEF PairsProper
  <2> QED BY <1>2, <2>1, <2>3 DEF PairsProper
<1> QED BY <1>1, <1>20 DEF PInv

LEMMA ComposeEndProper ==
  ASSUME IInv, NotOfInput, PInv, ComposeEnd
  PROVE  PInv'
<1> DEFINE cs == [i \in DOMAIN run.pairs |-> run.pairs[i].conj3]
           r == [Symbolic |-> UNION {cs[i].vars : i \in DOMAIN cs},
                 set |-> FALSE, conjs |-> cs]
<1>1. /\ run \in SoundComposing /\ PairsProper(run)
      /\ rel' = [rel EXCEPT ![run.h] = r] /\ run' = Idle
  BY DEF ComposeEnd, IInv, PInv
<1>2. \A i \in DOMAIN cs : Clear(cs[i])
  BY <1>1 DEF PairsProper
<1> HIDE DEF cs
<1>3. Proper(r) /\ InputOnly(r)
  BY <1>2 DEF Proper, InputOnly
<1> HIDE DEF r
<1> QED BY <1>1, <1>3 DEF PInv, IInv, SoundComposing

-------------------------------------------------------------------------------
(* The theorems.                                                           *)

LEMMA NextProper ==
  ASSUME IInv, NotOfInput, PInv, [Next]_vars
  PROVE  PInv'
<1>1. CASE \E h \in Handle : \E cs \in Formulas : Build(h, cs)
  BY <1>1, BuildProper
<1>2. CASE \E h, k \in Handle : Copy(h, k)
  BY <1>2, CopyProper
<1>3. CASE \E h, k \in Handle : ComposeStart(h, k)
  BY <1>3, ComposeStartProper
<1>4. CASE \E h \in Handle : \E t \in Argument_Tuple : Project(h, t)
  BY <1>4, ProjectProper
<1>5. CASE \E h \in Handle : Inverse(h)
  BY <1>5, InverseProper
<1>6. CASE \E h \in Handle : \E preserved \in 0 .. MaxZeros - 1 : After(h, preserved)
  BY <1>6, AfterProper
<1>7. CASE \E h \in Handle : Deltas(h)
  BY <1>7, DeltasProper
<1>8. CASE ComposePair
  BY <1>8, ComposePairProper
<1>9. CASE ComposeEnd
  BY <1>9, ComposeEndProper
<1>10. CASE UNCHANGED vars
  BY <1>10 DEF vars, PInv
<1> QED BY <1>1, <1>2, <1>3, <1>4, <1>5, <1>6, <1>7, <1>8, <1>9, <1>10 DEF Next

LEMMA ProperAlways ==
  ASSUME ~FirstOfInput
  PROVE  Spec => [](IInv /\ PInv)
<1>1. Init => IInv /\ NotOfInput /\ PInv
  BY InitIInv, InitProper
<1>2. IInv /\ NotOfInput /\ PInv /\ [Next]_vars => (IInv /\ NotOfInput /\ PInv)'
  BY NextInv, NextProper
<1> QED BY <1>1, <1>2, PTL DEF Spec

(* If no first operand of a Composition applies a function to its input    *)
(* tuple, the functions that a relation's conjuncts use are listed in it,  *)
(* after any sequence of operators, and a set has no function of an output *)
(* tuple: Domain, Range and Deltas forget none.                            *)
THEOREM FunctionsAreDeclared ==
  ASSUME ~FirstOfInput
  PROVE  Spec => []Declared
<1>1. Spec => [](IInv /\ PInv)
  BY ProperAlways
<1>2. IInv /\ PInv => Declared
  <2> SUFFICES ASSUME PInv, NEW h \in Handle, rel[h] # Null
               PROVE  /\ Used(rel[h]) \subseteq rel[h].Symbolic
                      /\ rel[h].set => ~Declares(rel[h], "out")
    BY DEF Declared
  <2> QED BY DEF PInv, Proper, InputOnly, Used, Declares
<1> QED BY <1>1, <1>2, PTL

(* Under the same condition Composition does, for each pair of conjuncts,  *)
(* what the table in its comment says, and a conjunct that stays exact     *)
(* lost no function.                                                       *)
THEOREM CompositionAsDocumented ==
  ASSUME ~FirstOfInput
  PROVE  Spec => []PairsAsDocumented
<1>1. Spec => [](IInv /\ PInv)
  BY ProperAlways
<1>2. IInv /\ PInv => PairsAsDocumented
  <2> SUFFICES ASSUME PInv, NEW p \in Done PROVE AsDocumented(p)
    BY DEF PairsAsDocumented, AsDocumented
  <2> QED BY DEF PInv, PairsProper, Done
<1> QED BY <1>1, <1>2, PTL

(* If moreover no conjunct that applies a function to both tuples is       *)
(* projected to one of them, two columns of a conjunct are never given to  *)
(* one variable: replacing f(out) by f(in) joins columns only where        *)
(* simplify() has equated them.                                            *)
THEOREM ColumnsStayDistinct ==
  ASSUME ~FirstOfInput, ~ProjectsMixed
  PROVE  Spec => []NoClash
<1>1. Spec => [](IInv /\ PInv)
  BY ProperAlways
<1>2. IInv /\ PInv => NoClash
  <2> SUFFICES ASSUME PInv, NEW c \in Conjs \cup {p.conj3 : p \in Done} PROVE ~c.clash
    BY DEF NoClash
  <2>1. CASE c \in Conjs
    <3>1. PICK h \in Handle : rel[h] # Null /\ \E i \in DOMAIN rel[h].conjs : c = rel[h].conjs[i]
      BY <2>1 DEF Conjs
    <3> QED BY <3>1 DEF PInv, Proper, Clear
  <2>2. CASE c \in {p.conj3 : p \in Done}
    BY <2>2 DEF PInv, PairsProper, Done, Clear
  <2> QED BY <2>1, <2>2
<1> QED BY <1>1, <1>2, PTL
===============================================================================
