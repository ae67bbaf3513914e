--------------------------- MODULE FusionGroups ---------------------------
(***************************************************************************)
(* The result of typed_fusion as a value: the group of each of the         *)
(* vertices 1 .. n.  TypedFusion has the same function step by step.       *)
(***************************************************************************)
EXTENDS Integers, Sequences, FiniteSets

MaxOf(a, b) == IF a > b THEN a ELSE b
First(S) == CHOOSE v \in S : \A w \in S : v <= w

\* The elements of S from the first to the last: std::set and for loops go so.
Ascending(S) ==
    {q \in [1 .. Cardinality(S) -> S] : \A i, j \in DOMAIN q : i < j => q[i] < q[j]}
Sorted(S) == CHOOSE q \in Ascending(S) : TRUE

\* The vertices that no edge of es leads to.
Sources(es, S) == {m \in S : \A e \in es : e[2] # m}

(***************************************************************************)
(* The front vertex of the work list gets its group.  st is the work list, *)
(* the edges left, the groups, the barriers, the links next from one group *)
(* that may be joined to the next (next[0] is the first), the last such    *)
(* group and the number of groups.                                         *)
(***************************************************************************)
Taken(st, bad, types) ==
    LET n == Head(st.work)
        p == st.next[st.barrier[n]]
        join == types[n] /\ p # 0
        num == IF join THEN p ELSE st.lastnum + 1
        begins == types[n] /\ ~join
        from == {e \in st.edges : e[1] = n}
        rest == st.edges \ from
    IN  [work |-> Tail(st.work) \o Sorted(Sources(rest, {e[2] : e \in from})),
         edges |-> rest,
         group |-> [st.group EXCEPT ![n] = num],
         barrier |-> [m \in DOMAIN st.barrier |->
                        IF <<n, m>> \notin from THEN st.barrier[m]
                        ELSE MaxOf(st.barrier[m], IF types[m] /\ <<n, m>> \in bad THEN num ELSE st.barrier[n])],
         next |-> IF begins THEN [st.next EXCEPT ![st.lastfused] = num] ELSE st.next,
         lastfused |-> IF begins THEN num ELSE st.lastfused,
         lastnum |-> IF join THEN st.lastnum ELSE num]

\* No vertex has a group, those without predecessors are on the work list.
Begun(n, es) ==
    [work |-> Sorted(Sources(es, 1 .. n)), edges |-> es,
     group |-> [v \in 1 .. n |-> 0], barrier |-> [v \in 1 .. n |-> 0],
     next |-> [k \in 0 .. n |-> 0], lastfused |-> 0, lastnum |-> 0]

\* The group of each vertex; 0 for those in a cycle or behind one.  A vertex is on the
\* work list at most once.
typed_fusion(n, es, bad, types) ==
    LET after[k \in 0 .. n] ==
            IF k = 0 THEN Begun(n, es)
            ELSE LET st == after[k - 1] IN IF st.work = <<>> THEN st ELSE Taken(st, bad, types)
    IN  after[n].group
=============================================================================
