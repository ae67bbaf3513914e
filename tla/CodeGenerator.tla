--------------------------- MODULE CodeGenerator ---------------------------
(***************************************************************************)
(* CompParser and CodeGenerator of src/pyomega (parser.py, visit.py): from *)
(* the computations of a statement list to the C function around the loops *)
(* that the Omega library generates.                                       *)
(*                                                                         *)
(* The C text is what the properties tell apart: the macros, one per       *)
(* computation, as their words and the parentheses around them; the        *)
(* schedules handed to OmegaLib, each of which becomes calls of one macro; *)
(* the parameters of the function.                                         *)
(***************************************************************************)
EXTENDS Integers, SequencesExt

CONSTANTS
    Iterators,     \* the iterators of the space, a sequence of names
    Letters,       \* the single letters a name is made of, as names
    Constraints,   \* sequences of constants, as they occur in the relations
    Computations   \* sequences of computations

(***************************************************************************)
(* A computation t[..] = .. or t[..] += ..: the field it writes, the words *)
(* in its subscript, and what it reads, each with the words in brackets.   *)
(***************************************************************************)
Ref(name, subscript) == [name |-> name, subscript |-> subscript]
Words(ref) == <<ref.name>> \o ref.subscript
Text(c) == FlattenSeq([i \in 1 .. Len(c.reads) + 1 |->
                          IF i = 1 THEN Words(c.target) ELSE Words(c.reads[i - 1])])

VARIABLES
    constraints,   \* the constants of the relation, in order
    computations,  \* the statements after the first line
    pc,            \* "parse", "visit", "generate", "done"
    at,            \* the computation to be parsed
    fields,        \* CompParser.fields: names in order of insertion
    accesses,      \* of each field: the is_write of each ir.Access
    constants,     \* CodeGenerator.constants
    macros,        \* the #define of each computation
    schedules,     \* the number of schedules handed to OmegaLib.codegen
    params         \* the parameters: name, and whether it is const

vars == <<constraints, computations, pc, at, fields, accesses, constants, macros, schedules, params>>

Init ==
    /\ constraints \in Constraints
    /\ computations \in Computations
    /\ pc = "parse"
    /\ at = 1
    /\ fields = <<>>
    /\ accesses = [f \in {} |-> <<>>]
    /\ constants = <<>>
    /\ macros = <<>>
    /\ schedules = 0
    /\ params = <<>>

-----------------------------------------------------------------------------
\* visit_Name: a name that is not an iterator becomes a field.
Field(st, name) ==
    IF name \in Range(Iterators) \/ name \in DOMAIN st.accesses THEN st
    ELSE [fields |-> Append(st.fields, name),
          accesses |-> [f \in DOMAIN st.accesses \cup {name} |->
                           IF f = name THEN <<>> ELSE st.accesses[f]]]

SubscriptReads(st, ref, is_write) ==
    LET visited == FoldLeft(Field, st, Words(ref))
    IN  IF ref.subscript = <<>> THEN visited
        ELSE [visited EXCEPT !.accesses[ref.name] = Append(@, FALSE)]

\* visit_Subscript: the value is visited, then the subscript, then the access is added.
Subscript(st, ref, is_write) ==
    LET visited == FoldLeft(Field, st, Words(ref))
    IN  IF ref.subscript = <<>> THEN visited
        ELSE [visited EXCEPT !.accesses[ref.name] = Append(@, is_write)]

\* visit_Assign and visit_AugAssign: the target is written, the value read;
\* that += also reads its target is not recorded.
ParseComputation ==
    /\ pc = "parse"
    /\ LET c == computations[at]
           st == FoldLeft(LAMBDA s, ref : Subscript(s, ref, FALSE),
                          Subscript([fields |-> fields, accesses |-> accesses], c.target, TRUE),
                          c.reads)
       IN  fields' = st.fields /\ accesses' = st.accesses
    /\ at' = at + 1
    /\ pc' = IF at = Len(computations) THEN "visit" ELSE "parse"
    /\ UNCHANGED <<constraints, computations, constants, macros, schedules, params>>

\* visit_Space: visit_Constant adds every constant it meets.
CollectedConstants(met) == met

VisitSpace ==
    /\ pc = "visit"
    /\ constants' = CollectedConstants(constraints)
    /\ pc' = "generate"
    /\ UNCHANGED <<constraints, computations, at, fields, accesses, macros, schedules, params>>

MatchesAny(word, it) == \E other \in Range(Iterators) : word \in Letters[other]

\* re.sub("\b[it]\b", "(it)"): a character class, so any one letter of it.
Matches(word, it) == word \in Letters[it]
Parenthesised(word, it) ==
    IF Matches(word.text, it) THEN [text |-> it, parens |-> word.parens + 1] ELSE word
MacroWord(name) == FoldLeft(Parenthesised, [text |-> name, parens |-> 0], Iterators)
Macro(c) == [i \in DOMAIN Text(c) |-> MacroWord(Text(c)[i])]

\* A field is const when one of its accesses reads.
IsConst(f) == FALSE \in Range(accesses[f])

\* One schedule, whatever the number of computations.
ScheduleMap == <<[name |-> "r0", of |-> Len(Iterators)]>>

Generate ==
    /\ pc = "generate"
    /\ macros' = [i \in DOMAIN computations |-> Macro(computations[i])]
    /\ schedules' = Len(ScheduleMap)
    /\ params' = [i \in DOMAIN constants |-> [name |-> constants[i], const |-> TRUE]]
                 \o [i \in DOMAIN fields |-> [name |-> fields[i], const |-> IsConst(fields[i])]]
    /\ pc' = "done"
    /\ UNCHANGED <<constraints, computations, at, fields, accesses, constants>>

Next == ParseComputation \/ VisitSpace \/ Generate

Spec == Init /\ [][Next]_vars

-----------------------------------------------------------------------------
\* Fields and accesses are of the same names; a parsed computation left its field.
TypeOK ==
    /\ Range(fields) = DOMAIN accesses
    /\ IsInjective(fields)
    /\ \A i \in 1 .. at - 1 : computations[i].target.name \in DOMAIN accesses

\* The names in the computations, and those of the arrays among them whose
\* elements are read: what is on the right of = or of +=.
Used == UNION {Range(Text(computations[i])) : i \in DOMAIN computations}
Read == {ref.name : ref \in {r \in UNION {Range(computations[i].reads) : i \in DOMAIN computations} :
                              r.subscript # <<>>}}

\* After the constants, each name that is not an iterator is one parameter, and it
\* is const exactly if some computation, whichever, reads it as an array.
ParametersAsUsed ==
    pc = "done" =>
        LET given == SubSeq(params, Len(constants) + 1, Len(params))
        IN  /\ \A i, k \in DOMAIN given : given[i].name = given[k].name => i = k
            /\ {given[i].name : i \in DOMAIN given} = Used \ Range(Iterators)
            /\ \A i \in DOMAIN given : given[i].const <=> given[i].name \in Read

\* In a macro the iterators, and nothing else, are parenthesised, once.
IteratorsSubstituted ==
    \A k \in DOMAIN macros : macros[k] =
        [i \in DOMAIN Text(computations[k]) |->
            LET w == Text(computations[k])[i]
            IN  [text |-> w, parens |-> IF w \in Range(Iterators) THEN 1 ELSE 0]]
=============================================================================
