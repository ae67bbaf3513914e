-------------------------- MODULE MCCodeGenerator --------------------------
\* Instances of CodeGenerator for TLC: the computations of tests/test_codegen.py
\* with two iterators, and those next to them.
EXTENDS CodeGenerator

MCIterators == <<"i", "j">>
MCLetters == "i" :> {"i"} @@ "j" :> {"j"} @@ "ij" :> {"i", "j"}

Subscripts == {<<"i">>, <<"i", "j">>}
Refs(names) == {Ref(f, s) : f \in names, s \in Subscripts} \cup {Ref(f, <<>>) : f \in names}
OneComputation(written, read) ==
    {[target |-> Ref(f, s), reads |-> r] :
        f \in written, s \in Subscripts,
        r \in {<<x>> : x \in Refs(read)} \cup (Refs(read) \X Refs(read))}

\* Two computations that each read one of the arrays: one that a computation
\* writes may be read by the same one or by the other.
Simple == {[target |-> Ref(f, <<"i">>), reads |-> <<x>>] :
              f \in {"y", "z"}, x \in Refs({"y", "z", "A"})}

MCComputations == {<<c>> : c \in OneComputation({"y", "z"}, {"A", "y"})} \cup Simple \X Simple

MCConstraints == {<<"N">>, <<"N", "M">>}
=============================================================================
