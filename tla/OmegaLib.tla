------------------------------ MODULE OmegaLib ------------------------------
(***************************************************************************)
(* OmegaLib of src/omega/OmegaLib.cpp: from relations over iterators,      *)
(* symbols and uninterpreted functions to the statements that the Omega    *)
(* calculator gets: the declarations, the relations with their functions   *)
(* renamed so that arguments are a prefix of the iterators, and the given  *)
(* clause.  Conditions are strings in the code, and names are found in     *)
(* them with find and replace; here a condition is a sequence of operands  *)
(* between relational operators, an operand is a sum of terms, and the     *)
(* constants Inside and Ends say which names occur in which.               *)
(*                                                                         *)
(* Left out: conditions with exists(, iterators that begin with one        *)
(* another, and symbols whose name occurs in a function's.                 *)
(***************************************************************************)
EXTENDS Integers, SequencesExt, TLC

CONSTANTS
    Order,    \* the names, in the order of strings
    Inside,   \* pairs of names <<a, b>>: a occurs in b
    Ends,     \* those where it is the end of b
    Calls     \* the calls of codegen on one object: sequences of sequences of relations

Numbers == {"1", "3"}
Arg(name, plus) == [name |-> name, plus |-> plus]
Term(name, args) == [name |-> <<name>>, args |-> args]
IsCall(t) == t.args # <<>>

Relation(iters, conds) == [iters |-> iters, conds |-> conds]

Occurs(a, b) == a = b \/ <<a, b>> \in Inside
Terms(cond) == FlattenSeq(cond)
AllTerms(conds) == FlattenSeq([c \in DOMAIN conds |-> Terms(conds[c])])
CallsIn(conds) == {t \in Range(AllTerms(conds)) : IsCall(t)}
Words(t) == {t.name[1]} \cup {t.args[p].name : p \in DOMAIN t.args}

VARIABLES
    calls,       \* the calls to be made
    ufuncs_,     \* OmegaLib::_ufuncs
    iterators_,  \* OmegaLib::_iterators
    pc,          \* "call", "parse", "knowns", "functions", "emitted"
    call,        \* the call in progress
    at,          \* its relation in progress
    local,       \* the variables of the loop in codegen, for that relation
    symlist,     \* the declarations: name and arity, 0 for a symbol
    givens,      \* the conditions of the given clause
    newmap       \* the relations as they are emitted

vars == <<calls, ufuncs_, iterators_, pc, call, at, local, symlist, givens, newmap>>

NoLocals == [iters |-> <<>>, conds |-> <<>>, knowns |-> <<>>, symcons |-> {}, ufuncs |-> {}]

Init ==
    /\ calls \in Calls
    /\ ufuncs_ = [n \in {} |-> <<>>]
    /\ iterators_ = <<>>
    /\ pc = "call"
    /\ call = 0
    /\ at = 1
    /\ local = NoLocals
    /\ symlist = <<>>
    /\ givens = <<>>
    /\ newmap = <<>>

-----------------------------------------------------------------------------
\* A name by itself between two arithmetic operators, or at an end of the condition.
Between(cond, k, p) == (p > 1 \/ k = 1) /\ (p < Len(cond[k]) \/ k = Len(cond))

KnownBySplit(cond, iters) ==
    \A k \in DOMAIN cond :
        Len(cond[k]) = 1 /\ ~IsCall(cond[k][1]) => cond[k][1].name[1] \notin Range(iters)

isknown(cond, iters) ==
    \A k \in DOMAIN cond : \A p \in DOMAIN cond[k] :
        (Len(cond[k]) = 1 \/ Between(cond, k, p)) /\ ~IsCall(cond[k][p])
            => cond[k][p].name[1] \notin Range(iters)

\* A name is a function when it stands before a parenthesis, or ends a name that does.
IsFunction(name, conds) == \E t \in CallsIn(conds) : t.name[1] = name \/ <<name, t.name[1]>> \in Ends

Items(r) == UNION {Words(t) : t \in Range(AllTerms(r.conds))} \ (Range(r.iters) \cup Numbers)

\* preprocess, parse_relation and parse_conds.
ParseRelation ==
    /\ pc = "parse"
    /\ LET r == calls[call][at]
       IN  local' = [iters |-> r.iters, conds |-> r.conds,
                     knowns |-> SelectSeq(r.conds, LAMBDA c : isknown(c, r.iters)),
                     ufuncs |-> {x \in Items(r) : IsFunction(x, r.conds)},
                     symcons |-> {x \in Items(r) : ~IsFunction(x, r.conds)}]
    /\ pc' = "knowns"
    /\ UNCHANGED <<calls, ufuncs_, iterators_, call, at, symlist, givens, newmap>>

Sorted(names) == SelectSeq(Order, LAMBDA n : n \in names)

DeclareSymbol(list, name) ==
    IF \E i \in DOMAIN list : Occurs(name, list[i].name[1]) THEN list
    ELSE Append(list, [name |-> <<name>>, arity |-> 0])

HasLetter(list, letter) == \E i \in DOMAIN list : Occurs(letter, list[i].name[1])

\* The condition letter > 3.
MoreThan3(letter) == <<<<Term("3", <<>>)>>, <<Term(letter, <<>>)>>>>

\* parse_knowns: with two conditions or more strtok has cut condstr, which is not
\* found in the relation any more, so the known ones stay in it as well.
ParseKnowns ==
    /\ pc = "knowns"
    /\ symlist' = FoldLeft(DeclareSymbol, symlist, Sorted(local.symcons))
    /\ LET given == IF local.knowns # <<>> THEN local.knowns
                    ELSE IF HasLetter(symlist', "N")
                    THEN <<MoreThan3("N")>> \o (IF HasLetter(symlist', "C") THEN <<MoreThan3("C")>> ELSE <<>>)
                    ELSE <<>>
       IN  local' = [local EXCEPT !.knowns = given,
                                  !.conds = IF Len(@) = 1 /\ local.knowns # <<>> THEN <<>> ELSE @]
    /\ pc' = "functions"
    /\ UNCHANGED <<calls, ufuncs_, iterators_, call, at, givens, newmap>>

-----------------------------------------------------------------------------
(***************************************************************************)
(* parse_ufuncs: the argument lists of a function in the order of strings, *)
(* where + comes before a comma, and the functions made of them.           *)
(***************************************************************************)
Index(seq, x) == IF x \in Range(seq) THEN CHOOSE i \in DOMAIN seq : seq[i] = x ELSE 0

ArgKey(args, p) ==
    <<Index(Order, args[p].name), IF args[p].plus = 0 /\ p < Len(args) THEN 9 ELSE args[p].plus>>

Less(a, b) ==
    \E p \in DOMAIN a :
        /\ \A q \in 1 .. p - 1 : a[q] = b[q]
        /\ \/ ArgKey(a, p)[1] < ArgKey(b, p)[1]
           \/ ArgKey(a, p)[1] = ArgKey(b, p)[1] /\ ArgKey(a, p)[2] < ArgKey(b, p)[2]

ArgLists(conds, name) ==
    SetToSortSeq({t.args : t \in {u \in CallsIn(conds) : u.name[1] = name \/ <<name, u.name[1]>> \in Inside}},
                 Less)

UninterpFunc(name) ==
    [name |-> name, args |-> <<>>, arity |-> 1, oldName |-> <<>>, oldArgs |-> <<>>, oldArity |-> 0]

\* Argument p of the list args: st is the function and the functions made so far.
ParseArg(st, args, p, iters) ==
    LET f == st.ufunc
        arg == args[p]
        variant == f.name \o <<p>>
    IN  IF Len(f.args) < p
        THEN [st EXCEPT
                !.ufunc.oldArgs = IF arg.plus = 0 /\ arg.name \in Range(iters) THEN @ ELSE Append(@, arg),
                !.ufunc.args = Append(@, arg.name)]
        ELSE IF arg # Arg(f.args[p], 0)
        THEN [st EXCEPT !.new = (variant :> [f EXCEPT !.oldName = f.name, !.name = variant,
                                                     !.oldArgs = Append(@, arg)]) @@ @]
        ELSE st

ParseFunction(name, conds, iters) ==
    LET lists == ArgLists(conds, name)
        parsed == FoldLeft(LAMBDA st, args :
                               FoldLeft(LAMBDA s, p : ParseArg(s, args, p, iters),
                                        [st EXCEPT !.ufunc.arity = Len(args)],
                                        [p \in DOMAIN args |-> p]),
                           [ufunc |-> UninterpFunc(<<name>>), new |-> [n \in {} |-> <<>>]], lists)
    IN  (<<name>> :> parsed.ufunc) @@ parsed.new

parse_ufuncs(conds, iters, names) ==
    FoldLeft(LAMBDA fs, name : ParseFunction(name, conds, iters) @@ fs, [n \in {} |-> <<>>], Sorted(names))

(***************************************************************************)
(* update_ufuncs: the iterators that precede the first argument that is    *)
(* one are put before it.                                                  *)
(***************************************************************************)
UnprefixedArgs(f, iters) == <<>>

PrefixArgs(f, iters) ==
    LET found == SelectSeq(f.args, LAMBDA a : a \in Range(iters))
    IN  IF found = <<>> THEN <<>> ELSE SubSeq(iters, 1, Index(iters, Head(found)) - 1)

update_ufunc(f, iters) ==
    LET newargs == PrefixArgs(f, iters)
    IN  [f EXCEPT !.oldArity = f.arity,
                  !.oldArgs = IF @ = <<>> THEN [p \in DOMAIN f.args |-> Arg(f.args[p], 0)] ELSE @,
                  !.arity = @ + Len(newargs),
                  !.args = newargs \o @]

DeclareFunction(list, f) ==
    IF \E i \in DOMAIN list :
           /\ list[i].arity = f.arity
           /\ list[i].name = f.name \/ (Len(list[i].name) = Len(f.name)
                                        /\ <<f.name[1], list[i].name[1]>> \in Ends
                                        /\ Tail(f.name) = Tail(list[i].name))
    THEN list
    ELSE Append(list, [name |-> f.name, arity |-> f.arity])

(***************************************************************************)
(* update_relations: every function that was renamed or has more arguments *)
(* is replaced, by its text, also where it ends another name.              *)
(***************************************************************************)
PlainArgs(names) == [p \in DOMAIN names |-> Arg(names[p], 0)]
OldCall(f) == [name |-> IF f.oldName # <<>> THEN f.oldName ELSE f.name, args |-> f.oldArgs]
Replaced(f) == f.oldName # <<>> \/ f.arity > f.oldArity

RenameAny(t, f) ==
    IF Replaced(f) /\ t.name = OldCall(f).name
    THEN [name |-> f.name, args |-> PlainArgs(f.args)] ELSE t

Rename(t, f) ==
    IF ~Replaced(f) \/ t.args # OldCall(f).args THEN t
    ELSE IF t.name = OldCall(f).name THEN [name |-> f.name, args |-> PlainArgs(f.args)]
    ELSE IF <<OldCall(f).name[1], t.name[1]>> \in Ends /\ Len(t.name) = 1
    THEN [name |-> t.name \o Tail(f.name), args |-> PlainArgs(f.args)]
    ELSE t

RewriteTerm(t, fs) == IF IsCall(t) THEN FoldLeft(Rename, t, fs) ELSE t
Rewrite(conds, fs) ==
    [c \in DOMAIN conds |->
        [k \in DOMAIN conds[c] |->
            [p \in DOMAIN conds[c][k] |-> RewriteTerm(conds[c][k][p], fs)]]]

\* Mutant of Merged: what an earlier relation left is not replaced.
EarlierStays(ufuncs, stored) == stored @@ ufuncs

\* merge_ufuncs: what is known of a function is what the last relation made of it.
Merged(ufuncs, stored) == ufuncs @@ stored

\* A map visits its keys in the order of strings: f, then f1, f2.
KeyLess(a, b) == \/ Index(Order, a[1]) < Index(Order, b[1])
                 \/ a[1] = b[1] /\ (Len(a) < Len(b) \/ (Len(a) = 2 /\ Len(b) = 2 /\ a[2] < b[2]))

Functions ==
    /\ pc = "functions"
    /\ LET parsed == parse_ufuncs(local.conds, local.iters, local.ufuncs)
           ufuncs == [n \in DOMAIN parsed |-> update_ufunc(parsed[n], local.iters)]
           keys == SetToSortSeq(DOMAIN ufuncs, KeyLess)
           fs == [i \in DOMAIN keys |-> ufuncs[keys[i]]]
       IN  /\ symlist' = FoldLeft(DeclareFunction, symlist, fs)
           /\ givens' = givens \o SelectSeq(Rewrite(local.knowns, fs), LAMBDA c : c \notin Range(givens))
           /\ ufuncs_' = Merged(ufuncs, ufuncs_)
           /\ newmap' = Append(newmap, Relation(local.iters, Rewrite(local.conds, fs)))
    /\ iterators_' = IF Len(local.iters) > Len(iterators_) THEN local.iters ELSE iterators_
    /\ local' = NoLocals
    /\ at' = at + 1
    /\ pc' = IF at = Len(calls[call]) THEN "emitted" ELSE "parse"
    /\ UNCHANGED <<calls, call>>

\* The next call of codegen on the same object.
Codegen ==
    /\ pc = "call" \/ pc = "emitted"
    /\ call < Len(calls)
    /\ call' = call + 1
    /\ at' = 1
    /\ symlist' = <<>>
    /\ givens' = <<>>
    /\ newmap' = <<>>
    /\ pc' = "parse"
    /\ UNCHANGED <<calls, ufuncs_, iterators_, local>>

Next == Codegen \/ ParseRelation \/ ParseKnowns \/ Functions

Spec == Init /\ [][Next]_vars

\* OmegaLib::macros: what each call of a renamed function stands for.
macros == {[call |-> [name |-> ufuncs_[n].name, args |-> PlainArgs(ufuncs_[n].args)],
            stands |-> [name |-> IF ufuncs_[n].oldName = <<>> THEN ufuncs_[n].name ELSE ufuncs_[n].oldName,
                        args |-> ufuncs_[n].oldArgs]] : n \in DOMAIN ufuncs_}

-----------------------------------------------------------------------------
Emitted == pc = "emitted"
Source(r) == calls[call][r]
\* The calls of relation r: as written, and in the same place as emitted.
Pairs(r) == LET old == AllTerms(Source(r).conds)
                new == AllTerms(newmap[r].conds)
            IN  {<<old[i], new[i]>> : i \in {j \in DOMAIN new : IsCall(new[j])}}

\* A stored function is under its name, and has as many arguments as it says.
TypeOK == /\ \A n \in DOMAIN ufuncs_ :
                 ufuncs_[n].name = n /\ ufuncs_[n].arity = Len(ufuncs_[n].args)
          /\ Emitted => Len(newmap) = Len(calls[call])

\* "To prevent prefix errors": every call that reaches the calculator has the first
\* iterators of its relation as arguments.
ArgumentsArePrefix ==
    Emitted => \A r \in DOMAIN newmap : \A pair \in Pairs(r) :
        LET args == pair[2].args
        IN  Len(args) <= Len(newmap[r].iters) /\ args = PlainArgs(SubSeq(newmap[r].iters, 1, Len(args)))

\* Different calls of a relation stay different.
CallsStayDistinct ==
    Emitted => \A r \in DOMAIN newmap : \A a, b \in Pairs(r) : a[2] = b[2] => a[1] = b[1]

\* The given clause, which the generated code takes for granted, says nothing of
\* the iterations.
GivenOfSymbols ==
    Emitted => \A c \in Range(givens) : \A t \in Range(Terms(c)) :
        \A r \in DOMAIN newmap : Words(t) \cap Range(newmap[r].iters) = {}

\* No relation of the same call that comes after r has calls of the function.
IsLastWith(name, r) == \A q \in r + 1 .. Len(newmap) : \A pair \in Pairs(q) : pair[2].name # name

\* macros() says of the calls in the emitted relations what they were in the source,
\* whatever other relations and earlier calls of codegen did with the same names; of
\* two relations of one call, it does so for the later one.
MacrosRestore ==
    Emitted => \A r \in DOMAIN newmap : \A pair \in Pairs(r) :
        IsLastWith(pair[2].name, r) => [call |-> pair[2], stands |-> pair[1]] \in macros
=============================================================================
