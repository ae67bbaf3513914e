----------------------------- MODULE MCOmegaLib -----------------------------
\* Instances of OmegaLib for TLC: relations like those of tests/test_codegen.py.
EXTENDS OmegaLib, FiniteSetsExt

MCOrder == <<"M", "N", "col", "i", "j", "n", "pos", "rp", "rpos">>
MCInside == {<<"pos", "rpos">>}
MCEnds == {<<"pos", "rpos">>}

Name(x) == <<Term(x, <<>>)>>
F(f, x, plus) == <<Term(f, <<Arg(x, plus)>>)>>
One == Name("1")

Iters == <<"i", "n", "j">>

\* 1 <= i <= N, rp(i) <= n <= rp(i+1), j = col(n), M >= 1, n <= M, i = pos(j) + 1, i + 1 <= N,
\* n = rpos(j)
Bounded == <<One, Name("i"), Name("N")>>
Rows == <<F("rp", "i", 0), Name("n"), F("rp", "i", 1)>>
Column == <<Name("j"), F("col", "n", 0)>>
Known == <<Name("M"), One>>
Limit == <<Name("n"), Name("M")>>
Next1 == <<Name("i") \o One, Name("N")>>
Reverse1 == <<Name("n"), F("rpos", "j", 0)>>
\* rp(n) <= j <= rp(n+1): the same function of another iterator.
Rows2 == <<F("rp", "n", 0), Name("j"), F("rp", "n", 1)>>
Place == <<Name("i"), F("pos", "j", 0) \o One>>

\* Relations with two conditions or more.
SomeOf(conds) ==
    {Relation(Iters, <<c>> \o d) : c \in conds, d \in {<<x>> : x \in conds} \cup (conds \X conds)}
Plain == SomeOf({Bounded, Rows, Column, Known, Limit, Place, Next1, Reverse1})
Few == {Relation(Iters, <<Rows, Column>>), Relation(Iters, <<Known, Place, Limit>>),
        Relation(Iters, <<Place, Rows>>)}

\* They disagree on the arguments of rp and pos, or on the iterators before them.
Iters2 == <<"n", "i", "j">>
Else == {Relation(Iters, <<Rows2, Column>>), Relation(Iters2, <<Rows, Place>>),
         Relation(Iters2, <<Known, Rows2, Limit>>)}

\* One object, for up to three calls, of one relation or two.
MCCalls == {<<<<r>>>> : r \in Plain} \cup {<<<<r, q>>>> : r \in Few, q \in Plain}
           \cup {<<<<r>>, <<q>>>> : r \in Plain, q \in Few}
           \cup {<<<<r, q>>>> : r \in Else, q \in Few \cup Else}
           \cup {<<<<r>>, <<q>>, <<s>>>> : r \in Else, q \in Few \cup Else, s \in Few \cup Else}

=============================================================================
