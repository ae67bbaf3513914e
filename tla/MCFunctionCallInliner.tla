----------------------- MODULE MCFunctionCallInliner -----------------------
\* Instances of FunctionCallInliner for TLC: the shapes of tests/test_passes.py
\* and the callers next to them.
EXTENDS FunctionCallInliner

MCNames == {"a", "b", "c", "d", "e"}
MCParams == <<"a", "b">>

OneOrTwo(S) == {<<x>> : x \in S} \cup (S \X S)

\* Bodies of the inlined function: up to one assignment, to the local variable
\* c or to a parameter, and a return; c is set before it is used.
MCInlined ==
    LET uses == OneOrTwo({"a", "b"})
    IN  {<<Return(u)>> : u \in uses}
        \cup {<<Assign("a", u), Return(v)>> : u \in uses, v \in uses}
        \cup {<<Assign("c", u), Return(v)>> : u \in uses, v \in OneOrTwo({"a", "b", "c"})}

\* Those that leave their parameters alone.
MCLocalInlined == {body \in MCInlined : Len(body) = 1 \/ body[1].target = "c"}

\* def sum(d, e): return madd(d, e), or x = madd(d, e) and return x; the arguments
\* and x may have the names of parameters, x that of the local variable as well.
Arguments == {"a", "b", "d"} \X {"a", "b", "d"}
MCReturns ==
    {<<ReturnCall(args)>> : args \in Arguments}
    \cup {<<AssignCall(x, args), ReturnName(x)>> : x \in {"a", "c", "d", "e"}, args \in Arguments}

=============================================================================
