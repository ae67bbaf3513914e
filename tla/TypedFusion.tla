---------------------------- MODULE TypedFusion ----------------------------
(***************************************************************************)
(* typed_fusion and update_successors of src/omega/chill/loop.cc: the      *)
(* groups of statements that become one loop each.  A vertex is a group of *)
(* statements that are in one loop already; an edge is a dependence from   *)
(* one to the other, bad when it would run backwards if both were in one   *)
(* loop.  Vertices of type TRUE may be fused, others stay alone.           *)
(*                                                                         *)
(* A vertex is taken from the work list when all its predecessors have     *)
(* been.  cant_fuse_with is the last group it may not join; next links the *)
(* groups that may be joined.  The graph is Graph<> of graph.hh, which is  *)
(* not part of the repository.                                             *)
(***************************************************************************)
EXTENDS FusionGroups

CONSTANTS
    N,        \* the number of vertices, g.vertex.size()
    Graphs,   \* the graphs that typed_fusion is called with: sets of edges
    Types(_)  \* the types it is called with for a graph

Vertices == 1 .. N

ASSUME NAssumption == N \in Nat \ {0}
ASSUME GraphsAssumption ==
    \A g \in Graphs : g \subseteq Vertices \X Vertices /\ \A v \in Vertices : <<v, v>> \notin g
ASSUME TypesAssumption == \A g \in Graphs : Types(g) \subseteq [Vertices -> BOOLEAN]

VARIABLES
    graph,          \* the edges of the graph given
    bad,            \* those whose label is false
    types,
    pc,             \* "roots", "loop", "done", "raised"
    edges,          \* the edges that are left in g
    work_list,
    cant_fuse_with,
    node_num,       \* the group of a vertex, -1 when it has none
    node_to_fused_nodes,  \* a vertex of each group
    next,           \* the next group that may be joined, 0 for none
    fused, lastfused, lastnum

lists == <<next, fused, lastfused, lastnum, node_to_fused_nodes>>
vars == <<graph, bad, types, pc, edges, work_list, cant_fuse_with, node_num, lists>>

Successors(n) == {m \in Vertices : <<n, m>> \in edges}
HasIncoming(es, m) == \E j \in Vertices : j # m /\ <<j, m>> \in es

Init ==
    /\ graph \in Graphs
    /\ bad \in SUBSET graph
    /\ types \in Types(graph)
    /\ pc = "roots"
    /\ edges = graph
    /\ work_list = <<>>
    /\ cant_fuse_with = [n \in Vertices |-> 0]
    /\ node_num = [n \in Vertices |-> -1]
    /\ node_to_fused_nodes = [k \in Vertices |-> 0]
    /\ next = [k \in Vertices |-> 0]
    /\ fused = 0
    /\ lastfused = 0
    /\ lastnum = 0

\* A set of vertices in which each has a predecessor: topoSort gives fewer components
\* than there are vertices.
HasCycle(es) == \E S \in SUBSET Vertices : S # {} /\ \A v \in S : \E u \in S : <<u, v>> \in es

\* The work list begins with the roots; a graph that is no DAG is refused.
Roots ==
    /\ pc = "roots"
    /\ \E q \in Ascending({n \in Vertices : ~HasIncoming(edges, n)}) : work_list' = q
    /\ pc' = IF work_list' = <<>> \/ HasCycle(edges) THEN "raised" ELSE "loop"
    /\ UNCHANGED <<graph, bad, types, edges, cant_fuse_with, node_num, lists>>

-----------------------------------------------------------------------------
(***************************************************************************)
(* update_successors for vertex n, which has just got number num.          *)
(***************************************************************************)
IgnoresBad(n, m, num) == MaxOf(cant_fuse_with[m], cant_fuse_with[n])

LastOnly(n, m, num) == IF <<n, m>> \in bad THEN num ELSE cant_fuse_with[n]

Barrier(n, m, num) ==
    IF types[m] /\ <<n, m>> \in bad THEN MaxOf(cant_fuse_with[m], num)
    ELSE MaxOf(cant_fuse_with[m], cant_fuse_with[n])

ReadySoon(n) == Successors(n)

ReadyNever(n) == {}

Ready(n) == {m \in Successors(n) : ~HasIncoming(edges \ ({n} \X Vertices), m)}

UpdateSuccessors(n, num) ==
    /\ cant_fuse_with' = [m \in Vertices |->
                             IF m \in Successors(n) THEN Barrier(n, m, num) ELSE cant_fuse_with[m]]
    /\ edges' = edges \ ({n} \X Vertices)
    /\ \E q \in Ascending(Ready(n)) : work_list' = Tail(work_list) \o q
    /\ pc' = IF \E m \in Successors(n) : node_num[m] # -1 THEN "raised" ELSE pc

-----------------------------------------------------------------------------
NoCandidate(n) == 0

Candidate(n) == IF cant_fuse_with[n] = 0 THEN fused ELSE next[cant_fuse_with[n]]

\* The front vertex joins a group.
Join ==
    /\ pc = "loop"
    /\ work_list # <<>>
    /\ LET n == Head(work_list)
           p == Candidate(n)
       IN  /\ types[n]
           /\ p # 0
           /\ LET num == node_num[node_to_fused_nodes[p]]
              IN  /\ node_num' = [node_num EXCEPT ![n] = num]
                  /\ UpdateSuccessors(n, num)
    /\ UNCHANGED <<graph, bad, types, lists>>

\* The front vertex begins a group that others may join.
Begin ==
    /\ pc = "loop"
    /\ work_list # <<>>
    /\ LET n == Head(work_list)
           num == lastnum + 1
       IN  /\ types[n]
           /\ Candidate(n) = 0
           /\ node_num' = [node_num EXCEPT ![n] = num]
           /\ node_to_fused_nodes' = [node_to_fused_nodes EXCEPT ![num] = n]
           /\ UpdateSuccessors(n, num)
           /\ next' = IF lastfused = 0 THEN next ELSE [next EXCEPT ![lastfused] = num]
           /\ fused' = IF lastfused = 0 THEN num ELSE fused
           /\ lastfused' = num
           /\ lastnum' = num
    /\ UNCHANGED <<graph, bad, types>>

\* A bug: the group of a vertex that is not to be fused is linked like the others.
AloneLinked ==
    /\ pc = "loop"
    /\ work_list # <<>>
    /\ LET n == Head(work_list)
           num == lastnum + 1
       IN  /\ ~types[n]
           /\ node_num' = [node_num EXCEPT ![n] = num]
           /\ node_to_fused_nodes' = [node_to_fused_nodes EXCEPT ![num] = n]
           /\ UpdateSuccessors(n, num)
           /\ lastnum' = num
           /\ lastfused' = num
           /\ fused' = IF lastfused = 0 THEN num ELSE fused
    /\ UNCHANGED <<graph, bad, types, next>>

\* The front vertex is not to be fused: it is a group of its own.
Alone ==
    /\ pc = "loop"
    /\ work_list # <<>>
    /\ LET n == Head(work_list)
           num == lastnum + 1
       IN  /\ ~types[n]
           /\ node_num' = [node_num EXCEPT ![n] = num]
           /\ node_to_fused_nodes' = [node_to_fused_nodes EXCEPT ![num] = n]
           /\ UpdateSuccessors(n, num)
           /\ lastnum' = num
    /\ UNCHANGED <<graph, bad, types, next, fused, lastfused>>

Return ==
    /\ pc = "loop"
    /\ work_list = <<>>
    /\ pc' = "done"
    /\ UNCHANGED <<graph, bad, types, edges, work_list, cant_fuse_with, node_num, lists>>

Next == Roots \/ Join \/ Begin \/ Alone \/ Return

Spec == Init /\ [][Next]_vars

\* typed_fusion is a loop without waiting: a step that can be taken is taken.
FairSpec == Spec /\ WF_vars(Next)

-----------------------------------------------------------------------------
Placed(n) == node_num[n] # -1

\* The types of the variables, and that a vertex is on the work list once, before
\* it has a group and after its predecessors have.
TypeOK ==
    /\ pc \in {"roots", "loop", "done", "raised"}
    /\ edges \subseteq graph
    /\ work_list \in Seq(Vertices)
    /\ cant_fuse_with \in [Vertices -> 0 .. N]
    /\ node_num \in [Vertices -> {-1} \cup Vertices]
    /\ \A i, j \in DOMAIN work_list : work_list[i] = work_list[j] => i = j
    /\ \A i \in DOMAIN work_list :
           ~Placed(work_list[i]) /\ ~HasIncoming(edges, work_list[i])

\* setLexicalOrder calls typed_fusion so; fuse with the types of the statements it names.
AllFuse == \A n \in Vertices : types[n]

\* When all may be fused, an edge never leads from a group to an earlier one, so the
\* loops in the order of their numbers run every dependence forwards.
GroupsInOrder ==
    AllFuse => \A e \in graph : Placed(e[2]) => Placed(e[1]) /\ node_num[e[1]] <= node_num[e[2]]

\* The two ends of a bad edge are not in one loop.
BadApart == \A e \in bad : Placed(e[2]) => node_num[e[1]] # node_num[e[2]]

\* When all may be fused, fusion goes as far as the bad edges allow: a vertex in group
\* k + 1 has a reason not to be in group k, a bad edge from it or an edge from a vertex
\* of k + 1.
Greedy ==
    AllFuse => \A m \in Vertices : Placed(m) /\ node_num[m] > 1 =>
        \E n \in Vertices : /\ <<n, m>> \in graph
                            /\ \/ node_num[n] = node_num[m]
                               \/ <<n, m>> \in bad /\ node_num[n] = node_num[m] - 1

\* The steps end with the groups that typed_fusion is said to give where
\* LoopTransformations calls it.
StepsGiveResult == pc = "done" => node_num = typed_fusion(N, graph, bad, types)

\* A vertex that is not to be fused shares its group with no other.
LeftAlone == \A m, n \in Vertices : ~types[m] /\ Placed(m) /\ m # n => node_num[m] # node_num[n]

\* The function returns with a group for every vertex, and throws for a graph that is
\* no DAG before it gives one to any.
Returns ==
    IF HasCycle(graph) THEN <>(pc = "raised" /\ \A n \in Vertices : ~Placed(n))
    ELSE <>(pc = "done" /\ \A n \in Vertices : Placed(n))
=============================================================================
