------------------------- MODULE TypedFusionProofs -------------------------
(***************************************************************************)
(* Proofs about TypedFusion for every number of vertices, every graph      *)
(* without self loops and every choice of types and bad edges.             *)
(*                                                                         *)
(* The three ways to place the front vertex differ in the number it gets   *)
(* and in the links; what they do to the graph and the work list is the    *)
(* same, and is proved once (Placing).  That a vertex is placed before its *)
(* successors follows from the work list; that bad edges are kept apart    *)
(* from cant_fuse_with being below the number given and at least the       *)
(* numbers of the bad predecessors.  That the groups are in order needs    *)
(* the links of consecutive groups, which only hold when every vertex may  *)
(* be fused.                                                               *)
(***************************************************************************)
EXTENDS TypedFusion, FusionGroupsProofs

PlacedSet == {n \in Vertices : Placed(n)}

\* What was given, and that nothing is placed at the beginning.
InputOK ==
    /\ graph \in Graphs
    /\ bad \subseteq graph
    /\ types \in [Vertices -> BOOLEAN]
    /\ pc = "roots" => \A n \in Vertices : ~Placed(n)

\* Groups and vertices that have one: there are no more groups than placed
\* vertices, and each group has a representative.
GroupsOK ==
    /\ lastnum \in 0 .. N
    /\ lastnum <= Cardinality(PlacedSet)
    /\ \A n \in Vertices : Placed(n) => node_num[n] \in 1 .. lastnum
    /\ \A n \in Vertices : cant_fuse_with[n] <= lastnum
    /\ node_to_fused_nodes \in [Vertices -> {0} \cup Vertices]
    /\ \A k \in 1 .. lastnum :
           /\ node_to_fused_nodes[k] \in Vertices
           /\ node_num[node_to_fused_nodes[k]] = k

\* The links lead forwards, to groups that may be joined.
LinksOK ==
    /\ next \in [Vertices -> 0 .. N]
    /\ fused \in 0 .. lastnum
    /\ lastfused \in 0 .. lastnum
    /\ \A k \in Vertices : next[k] # 0 =>
           /\ k < next[k]
           /\ next[k] <= lastnum
           /\ types[node_to_fused_nodes[next[k]]]
    /\ fused # 0 => types[node_to_fused_nodes[fused]]

\* The edges that are gone come from placed vertices, and placed vertices have no
\* edge left that leads to them.
EdgesOK ==
    /\ \A m \in Vertices : Placed(m) => ~HasIncoming(edges, m)
    /\ \A n, m \in Vertices : <<n, m>> \in graph \ edges => Placed(n)

\* A placed vertex is beyond its barrier, and the barrier of a vertex not before
\* those of its bad predecessors.
BarriersOK ==
    /\ \A n \in Vertices : Placed(n) => cant_fuse_with[n] < node_num[n]
    /\ \A n, m \in Vertices :
           <<n, m>> \in bad \ edges /\ types[m] => node_num[n] <= cant_fuse_with[m]

IInv == TypeOK /\ InputOK /\ GroupsOK /\ LinksOK /\ EdgesOK /\ BarriersOK /\ LeftAlone

\* When every vertex may be fused, the groups are linked one after the other, a
\* vertex goes to the first group behind its barrier, and a barrier has a cause.
Chained ==
    /\ fused = (IF lastnum = 0 THEN 0 ELSE 1)
    /\ lastfused = lastnum
    /\ \A k \in Vertices : next[k] = IF k < lastnum THEN k + 1 ELSE 0
    /\ \A n \in Vertices : Placed(n) => node_num[n] = cant_fuse_with[n] + 1
    /\ \A n, m \in Vertices : <<n, m>> \in graph \ edges => cant_fuse_with[n] <= cant_fuse_with[m]
    /\ \A m \in Vertices : cant_fuse_with[m] > 0 =>
           \E n \in Vertices : /\ <<n, m>> \in graph \ edges
                               /\ \/ cant_fuse_with[n] = cant_fuse_with[m]
                                  \/ <<n, m>> \in bad /\ node_num[n] = cant_fuse_with[m]

CInv == IInv /\ (AllFuse => Chained)

\* What Join, Begin and Alone have in common: vertex n gets number num.
Placing(n, num) ==
    /\ pc = "loop"
    /\ work_list # <<>>
    /\ n = Head(work_list)
    /\ node_num' = [node_num EXCEPT ![n] = num]
    /\ UpdateSuccessors(n, num)
    /\ UNCHANGED <<graph, bad, types>>

-----------------------------------------------------------------------------
LEMMA VerticesFinite == IsFiniteSet(Vertices) /\ Cardinality(Vertices) = N
<1>1. 1 \in Int /\ N \in Int /\ ~(1 > N) /\ N - 1 + 1 = N
  BY NAssumption
<1> QED BY <1>1, FS_Interval DEF Vertices

\* The ascending order of a set of vertices is a sequence without repetition.
LEMMA AscendingIs ==
  ASSUME NEW S \in SUBSET Vertices, NEW q \in Ascending(S)
  PROVE  /\ q \in Seq(Vertices)
         /\ \A i \in DOMAIN q : q[i] \in S
         /\ \A i, j \in DOMAIN q : q[i] = q[j] => i = j
         /\ DOMAIN q = 1 .. Len(q)
<1>1. Cardinality(S) \in Nat
  BY VerticesFinite, FS_Subset, FS_CardinalityType
<1>2. q \in [1 .. Cardinality(S) -> S]
  BY DEF Ascending
<1>3. q \in Seq(Vertices)
  BY <1>1, <1>2, S \subseteq Vertices
<1>4. \A i, j \in DOMAIN q : i < j => q[i] < q[j]
  BY DEF Ascending
<1>5. \A i \in DOMAIN q : q[i] \in S /\ q[i] \in Int /\ i \in Int
  <2>1. Vertices \subseteq Int
    BY NAssumption DEF Vertices
  <2>2. DOMAIN q \subseteq Int
    BY <1>1, <1>2
  <2> QED BY <1>2, <2>1, <2>2
<1>6. \A i, j \in DOMAIN q : q[i] = q[j] => i = j
  BY <1>4, <1>5
<1>7. DOMAIN q = 1 .. Len(q)
  BY <1>3
<1> QED BY <1>2, <1>3, <1>5, <1>6, <1>7

\* The elements of the work list after a step.
LEMMA WorkListAfter ==
  ASSUME NEW w \in Seq(Vertices), w # <<>>, NEW q \in Seq(Vertices),
         NEW i \in DOMAIN (Tail(w) \o q)
  PROVE  \/ i + 1 \in DOMAIN w /\ i + 1 # 1 /\ (Tail(w) \o q)[i] = w[i + 1]
         \/ /\ i > Len(w) - 1 /\ i - (Len(w) - 1) \in DOMAIN q
            /\ (Tail(w) \o q)[i] = q[i - (Len(w) - 1)]
<1>1. Tail(w) \in Seq(Vertices) /\ Len(Tail(w)) = Len(w) - 1 /\ Len(w) \in Nat /\ Len(w) >= 1
  BY ONLY w \in Seq(Vertices), w # <<>>
<1>2. \A j \in 1 .. Len(w) - 1 : Tail(w)[j] = w[j + 1]
  BY ONLY w \in Seq(Vertices), w # <<>>
<1>3. i \in 1 .. Len(Tail(w)) + Len(q)
  BY <1>1
<1>4. Len(q) \in Nat /\ DOMAIN w = 1 .. Len(w) /\ DOMAIN q = 1 .. Len(q)
  OBVIOUS
<1>5. CASE i <= Len(Tail(w))
  <2>1. (Tail(w) \o q)[i] = Tail(w)[i]
    BY <1>1, <1>3, <1>5
  <2> QED BY <1>1, <1>2, <1>3, <1>4, <1>5, <2>1
<1>6. CASE i > Len(Tail(w))
  <2>1. (Tail(w) \o q)[i] = q[i - Len(Tail(w))]
    BY <1>1, <1>3, <1>6
  <2> QED BY <1>1, <1>3, <1>4, <1>6, <2>1
<1> QED BY <1>1, <1>3, <1>4, <1>5, <1>6

-----------------------------------------------------------------------------
\* Placing a vertex keeps the work list, the edges and the types as they should be.
LEMMA PlacingTypes ==
  ASSUME IInv, NEW n, NEW num \in 1 .. N, Placing(n, num)
  PROVE  /\ TypeOK'
         /\ EdgesOK'
         /\ pc' = pc
         /\ n \in Vertices /\ ~Placed(n)
         /\ edges' = edges \ ({n} \X Vertices)
         /\ \A m \in Vertices : <<n, m>> \in edges => ~Placed(m) /\ m # n
<1>1. /\ n \in Vertices /\ ~Placed(n) /\ ~HasIncoming(edges, n)
      /\ 1 \in DOMAIN work_list /\ n = work_list[1]
      /\ Vertices = 1 .. N
  <2>1. work_list \in Seq(Vertices) /\ work_list # <<>> /\ n = Head(work_list)
    BY DEF Placing, IInv, TypeOK
  <2>2. 1 \in DOMAIN work_list /\ n = work_list[1] /\ n \in Vertices
    BY <2>1
  <2>3. ~Placed(work_list[1]) /\ ~HasIncoming(edges, work_list[1])
    BY <2>2 DEF IInv, TypeOK
  <2> QED BY <2>2, <2>3 DEF Vertices
<1>2. /\ edges \subseteq graph /\ graph \subseteq Vertices \X Vertices
      /\ \A v \in Vertices : <<v, v>> \notin graph
  BY GraphsAssumption DEF IInv, TypeOK, InputOK
<1>3. edges' = edges \ ({n} \X Vertices) /\ graph' = graph
  BY DEF Placing, UpdateSuccessors
<1>4. \A m \in Vertices : <<n, m>> \in edges => ~Placed(m) /\ m # n /\ HasIncoming(edges, m)
  BY <1>1, <1>2 DEF IInv, EdgesOK, HasIncoming
<1>5. pc' = pc
  BY <1>4 DEF Placing, UpdateSuccessors, Successors, Placed
<1>6. node_num' = [node_num EXCEPT ![n] = num] /\ node_num \in [Vertices -> {-1} \cup Vertices]
  BY DEF Placing, IInv, TypeOK
<1>7. node_num' \in [Vertices -> {-1} \cup Vertices]
  BY <1>1, <1>6
<1>8. \A m \in Vertices : /\ Placed(m)' <=> Placed(m) \/ m = n
                          /\ node_num'[m] # -1 <=> Placed(m)'
  <2>1. num # -1
    OBVIOUS
  <2> QED BY <1>1, <1>6, <2>1 DEF Placed
<1>9. cant_fuse_with' \in [Vertices -> 0 .. N]
  <2>1. \A m \in Vertices : Barrier(n, m, num) \in 0 .. N
    BY <1>1 DEF Barrier, MaxOf, IInv, TypeOK
  <2>2. cant_fuse_with' = [m \in Vertices |->
                IF m \in Successors(n) THEN Barrier(n, m, num) ELSE cant_fuse_with[m]]
    BY DEF Placing, UpdateSuccessors
  <2> QED BY <2>1, <2>2 DEF IInv, TypeOK
<1>10. \A m \in Vertices : HasIncoming(edges', m) => HasIncoming(edges, m)
  BY <1>3 DEF HasIncoming
<1>11. EdgesOK'
  <2>1. \A m \in Vertices : Placed(m)' => ~HasIncoming(edges', m)
    BY <1>1, <1>8, <1>10 DEF IInv, EdgesOK
  <2>2. ASSUME NEW j \in Vertices, NEW m \in Vertices, <<j, m>> \in graph \ edges'
        PROVE  Placed(j)'
    BY <1>3, <1>8, <2>2 DEF IInv, EdgesOK
  <2>3. \A m \in Vertices : HasIncoming(edges', m) = HasIncoming(edges, m)'
    BY DEF HasIncoming
  <2> QED BY <1>3, <2>1, <2>2, <2>3 DEF EdgesOK, HasIncoming, Placed
<1>12. PICK q \in Ascending(Ready(n)) : work_list' = Tail(work_list) \o q
  BY DEF Placing, UpdateSuccessors
<1>13. /\ q \in Seq(Vertices)
       /\ \A i \in DOMAIN q : q[i] \in Ready(n)
       /\ \A i, j \in DOMAIN q : q[i] = q[j] => i = j
       /\ DOMAIN q = 1 .. Len(q)
  <2>1. Ready(n) \in SUBSET Vertices
    BY DEF Ready, Successors
  <2> QED BY <2>1, <1>12, AscendingIs
<1>14. \A m \in Ready(n) : /\ <<n, m>> \in edges /\ m \in Vertices
                            /\ ~HasIncoming(edges', m)
  BY <1>3 DEF Ready, Successors
<1>15. work_list \in Seq(Vertices) /\ work_list # <<>>
  BY DEF Placing, IInv, TypeOK
<1>16. /\ \A i, j \in DOMAIN work_list : work_list[i] = work_list[j] => i = j
       /\ \A i \in DOMAIN work_list : /\ ~Placed(work_list[i]) /\ work_list[i] \in Vertices
                                      /\ ~HasIncoming(edges, work_list[i])
  BY <1>15 DEF IInv, TypeOK
<1>17. work_list' \in Seq(Vertices)
  BY <1>12, <1>13, <1>15
<1> DEFINE Old(i) == i + 1 \in DOMAIN work_list /\ i + 1 # 1 /\ work_list'[i] = work_list[i + 1]
           New(i) == i - (Len(work_list) - 1) \in DOMAIN q /\ work_list'[i] = q[i - (Len(work_list) - 1)]
<1>18. \A i \in DOMAIN work_list' : Old(i) \/ New(i)
  BY <1>12, <1>13, <1>15, WorkListAfter
<1>19. ASSUME NEW i \in DOMAIN work_list'
       PROVE  node_num'[work_list'[i]] = -1 /\ ~HasIncoming(edges', work_list'[i])
  <2>1. CASE Old(i)
    <3>1. work_list[i + 1] # n /\ work_list[i + 1] \in Vertices
          /\ ~Placed(work_list[i + 1]) /\ ~HasIncoming(edges, work_list[i + 1])
      BY <1>1, <1>16, <2>1
    <3> QED BY <1>8, <1>10, <2>1, <3>1
  <2>2. CASE New(i)
    <3>1. work_list'[i] \in Ready(n)
      BY <1>13, <2>2
    <3> QED BY <1>4, <1>8, <1>14, <3>1
  <2> HIDE DEF Old, New
  <2> QED BY <1>18, <2>1, <2>2
<1>20. ASSUME NEW i \in DOMAIN work_list', NEW j \in DOMAIN work_list', work_list'[i] = work_list'[j]
       PROVE  i = j
  <2>0. i \in Int /\ j \in Int /\ Len(work_list) \in Int
    BY <1>17, <1>15
  <2>1. CASE Old(i) /\ Old(j)
    <3>1. i + 1 = j + 1
      BY <1>16, <1>20, <2>1
    <3> QED BY <2>0, <3>1
  <2>2. CASE New(i) /\ New(j)
    <3>1. i - (Len(work_list) - 1) = j - (Len(work_list) - 1)
      BY <1>13, <1>20, <2>2
    <3> QED BY <2>0, <3>1
  <2>3. CASE Old(i) /\ New(j)
    BY <1>4, <1>13, <1>14, <1>16, <1>20, <2>3
  <2>4. CASE New(i) /\ Old(j)
    BY <1>4, <1>13, <1>14, <1>16, <1>20, <2>4
  <2> HIDE DEF Old, New
  <2> QED BY <1>18, <2>1, <2>2, <2>3, <2>4
<1>21. TypeOK'
  <2>1. pc' \in {"roots", "loop", "done", "raised"} /\ edges' \subseteq graph'
    BY <1>2, <1>3, <1>5 DEF IInv, TypeOK
  <2>2. \A i \in DOMAIN work_list' : ~Placed(work_list[i])' /\ ~HasIncoming(edges, work_list[i])'
    <3>1. \A i \in DOMAIN work_list' : node_num'[work_list'[i]] = -1 /\ ~HasIncoming(edges', work_list'[i])
      BY <1>19
    <3> HIDE DEF Old, New
    <3> QED BY <3>1 DEF Placed, HasIncoming
  <2>3. \A i, j \in DOMAIN work_list' : work_list'[i] = work_list'[j] => i = j
    BY <1>20
  <2> HIDE DEF Old, New
  <2> QED BY <1>7, <1>9, <1>17, <2>1, <2>2, <2>3 DEF TypeOK
<1> HIDE DEF Old, New
<1> QED BY <1>1, <1>3, <1>4, <1>5, <1>11, <1>21

\* The barriers after a vertex is placed beyond its own.
LEMMA PlacingBarriers ==
  ASSUME IInv, NEW n, NEW num \in 1 .. N, Placing(n, num), cant_fuse_with[n] < num
  PROVE  /\ BarriersOK'
         /\ \A m \in Vertices : Placed(m) \/ m = n => cant_fuse_with'[m] = cant_fuse_with[m]
         /\ \A m \in Vertices : cant_fuse_with[m] <= cant_fuse_with'[m]
         /\ \A m \in Vertices : <<n, m>> \in edges => cant_fuse_with[n] <= cant_fuse_with'[m]
         /\ \A m \in Vertices : cant_fuse_with'[m] # cant_fuse_with[m] =>
                /\ <<n, m>> \in edges
                /\ \/ cant_fuse_with'[m] = cant_fuse_with[n]
                   \/ <<n, m>> \in bad /\ cant_fuse_with'[m] = num
<1>1. /\ n \in Vertices /\ ~Placed(n)
      /\ edges' = edges \ ({n} \X Vertices)
      /\ \A m \in Vertices : <<n, m>> \in edges => ~Placed(m) /\ m # n
  BY PlacingTypes
<1>2. cant_fuse_with' = [m \in Vertices |->
                IF <<n, m>> \in edges THEN Barrier(n, m, num) ELSE cant_fuse_with[m]]
  BY DEF Placing, UpdateSuccessors, Successors
<1>3. \A m \in Vertices : cant_fuse_with[m] \in Int
  BY DEF IInv, TypeOK
<1>4. num \in Int /\ node_num \in [Vertices -> {-1} \cup Vertices] /\ Vertices \subseteq Int
  BY NAssumption DEF IInv, TypeOK, Vertices
<1>5. ASSUME NEW m \in Vertices, <<n, m>> \in edges
      PROVE  /\ cant_fuse_with[m] <= cant_fuse_with'[m]
             /\ cant_fuse_with[n] <= cant_fuse_with'[m]
             /\ types[m] /\ <<n, m>> \in bad => num <= cant_fuse_with'[m]
  <2>1. cant_fuse_with'[m] = Barrier(n, m, num)
    BY <1>2, <1>5
  <2> DEFINE c == cant_fuse_with[m]  d == cant_fuse_with[n]  e == cant_fuse_with'[m]
  <2>2. c \in Int /\ d \in Int /\ num \in Int
    BY <1>1, <1>3, <1>4
  <2>3. e = IF types[m] /\ <<n, m>> \in bad THEN (IF c > num THEN c ELSE num)
            ELSE (IF c > d THEN c ELSE d)
    BY <2>1 DEF Barrier, MaxOf
  <2>4. cant_fuse_with[n] < num
    OBVIOUS
  <2> QED BY <2>2, <2>3, <2>4
<1>6. /\ \A m \in Vertices : Placed(m) \/ m = n => cant_fuse_with'[m] = cant_fuse_with[m]
      /\ \A m \in Vertices : cant_fuse_with[m] <= cant_fuse_with'[m]
      /\ \A m \in Vertices : <<n, m>> \in edges => cant_fuse_with[n] <= cant_fuse_with'[m]
  <2>2. \A m \in Vertices : <<n, m>> \notin edges => cant_fuse_with'[m] = cant_fuse_with[m]
    BY <1>2
  <2>3. \A m \in Vertices : Placed(m) \/ m = n => <<n, m>> \notin edges
    BY <1>1
  <2>4. \A m \in Vertices : cant_fuse_with[m] <= cant_fuse_with'[m]
    <3> SUFFICES ASSUME NEW m \in Vertices PROVE cant_fuse_with[m] <= cant_fuse_with'[m]
      OBVIOUS
    <3>1. CASE <<n, m>> \in edges
      BY <1>5, <3>1
    <3>2. CASE <<n, m>> \notin edges
      <4>1. cant_fuse_with'[m] = cant_fuse_with[m] /\ cant_fuse_with[m] \in Int
        BY <1>3, <2>2, <3>2
      <4> QED BY <4>1
    <3> QED BY <3>1, <3>2
  <2> QED BY <1>5, <2>2, <2>3, <2>4
<1>7. node_num' = [node_num EXCEPT ![n] = num] /\ bad' = bad /\ types' = types
  BY DEF Placing
<1>8. \A m \in Vertices : node_num'[m] = IF m = n THEN num ELSE node_num[m]
  BY <1>4, <1>7
<1>9. ASSUME NEW m \in Vertices, Placed(m)' PROVE cant_fuse_with'[m] < node_num'[m]
  <2>1. CASE m = n
    BY <1>1, <1>6, <1>8, <2>1
  <2>2. CASE m # n
    <3>1. Placed(m)
      BY <1>8, <1>9, <2>2 DEF Placed
    <3> QED BY <1>6, <1>8, <2>2, <3>1 DEF IInv, BarriersOK
  <2> QED BY <2>1, <2>2
<1>10. ASSUME NEW j \in Vertices, NEW m \in Vertices, <<j, m>> \in bad \ edges', types[m]
       PROVE  node_num'[j] <= cant_fuse_with'[m]
  <2>1. CASE j = n /\ <<n, m>> \in edges
    <3>1. node_num'[j] = num /\ <<n, m>> \in bad
      BY <1>8, <1>10, <2>1
    <3>2. num <= cant_fuse_with'[m]
      BY <1>5, <1>10, <2>1, <3>1
    <3> QED BY <3>1, <3>2
  <2>2. CASE <<j, m>> \notin edges
    <3>1. <<j, m>> \in graph \ edges
      BY <1>10, <2>2 DEF IInv, InputOK
    <3>2. Placed(j) /\ j # n
      BY <1>1, <3>1 DEF IInv, EdgesOK
    <3>3. node_num[j] <= cant_fuse_with[m] /\ node_num[j] \in Int
      <4>1. <<j, m>> \in bad \ edges /\ types[m]
        BY <1>10, <2>2
      <4>2. node_num[j] \in Int
        <5>1. node_num[j] \in {-1} \cup Vertices
          BY <1>4
        <5>2. CASE node_num[j] = -1
          BY <5>2
        <5>3. CASE node_num[j] \in Vertices
          BY <1>4, <5>3
        <5> QED BY <5>1, <5>2, <5>3
      <4> QED BY <4>1, <4>2 DEF IInv, BarriersOK
    <3>4. cant_fuse_with'[m] \in Int
      BY PlacingTypes, NAssumption DEF TypeOK
    <3> QED BY <1>3, <1>6, <1>8, <3>2, <3>3, <3>4
  <2> QED BY <1>1, <1>10, <2>1, <2>2
<1>11. BarriersOK'
  BY <1>7, <1>9, <1>10 DEF BarriersOK
<1>12. \A m \in Vertices : cant_fuse_with'[m] # cant_fuse_with[m] =>
           /\ <<n, m>> \in edges
           /\ \/ cant_fuse_with'[m] = cant_fuse_with[n]
              \/ <<n, m>> \in bad /\ cant_fuse_with'[m] = num
  BY <1>2 DEF Barrier, MaxOf
<1> QED BY <1>6, <1>11, <1>12

\* There are no more vertices with a group than vertices, and one more after.
LEMMA PlacedCount ==
  ASSUME IInv, NEW n, NEW num \in 1 .. N, Placing(n, num)
  PROVE  /\ Cardinality(PlacedSet') = Cardinality(PlacedSet) + 1
         /\ Cardinality(PlacedSet) \in Nat
         /\ Cardinality(PlacedSet) < N
<1>1. n \in Vertices /\ ~Placed(n)
  BY PlacingTypes
<1>2. node_num' = [node_num EXCEPT ![n] = num] /\ node_num \in [Vertices -> {-1} \cup Vertices]
  BY DEF Placing, IInv, TypeOK
<1>3. \A m \in Vertices : Placed(m)' <=> Placed(m) \/ m = n
  <2>1. num # -1
    OBVIOUS
  <2> QED BY <1>1, <1>2, <2>1 DEF Placed
<1>4. PlacedSet' = PlacedSet \cup {n} /\ n \notin PlacedSet
  BY <1>1, <1>3 DEF PlacedSet
<1>5. PlacedSet \in SUBSET Vertices /\ PlacedSet \cup {n} \in SUBSET Vertices
  BY <1>1 DEF PlacedSet
<1>6. IsFiniteSet(PlacedSet) /\ Cardinality(PlacedSet) \in Nat
  BY <1>5, VerticesFinite, FS_Subset, FS_CardinalityType
<1>7. Cardinality(PlacedSet \cup {n}) = Cardinality(PlacedSet) + 1
  BY <1>4, <1>6, FS_AddElement
<1>8. Cardinality(PlacedSet \cup {n}) <= N
  BY <1>5, VerticesFinite, FS_Subset
<1> QED BY <1>4, <1>6, <1>7, <1>8, NAssumption

\* A vertex that is to be left alone stays so when the number given is not that of
\* another such vertex, and a new one if n is to be left alone itself.
LEMMA PlacingAlone ==
  ASSUME IInv, NEW n, NEW num \in 1 .. N, Placing(n, num),
         \A m \in Vertices : node_num[m] = num => types[m] /\ types[n]
  PROVE  LeftAlone'
<1>1. n \in Vertices /\ ~Placed(n)
  BY PlacingTypes
<1>2. /\ node_num' = [node_num EXCEPT ![n] = num] /\ types' = types
      /\ node_num \in [Vertices -> {-1} \cup Vertices]
  BY DEF Placing, IInv, TypeOK
<1>3. \A m \in Vertices : node_num'[m] = IF m = n THEN num ELSE node_num[m]
  BY <1>1, <1>2
<1>4. ASSUME NEW m \in Vertices, NEW k \in Vertices, ~types[m], Placed(m)', m # k,
             node_num'[m] = node_num'[k]
      PROVE  FALSE
  <2>1. CASE m = n
    BY <1>3, <1>4, <2>1
  <2>2. CASE k = n
    BY <1>3, <1>4, <2>2
  <2>3. CASE m # n /\ k # n
    <3>1. Placed(m) /\ node_num[m] = node_num[k]
      BY <1>3, <1>4, <2>3 DEF Placed
    <3> QED BY <1>4, <3>1 DEF IInv, LeftAlone
  <2> QED BY <2>1, <2>2, <2>3
<1> QED BY <1>2, <1>4 DEF LeftAlone

\* The group that the front vertex may join: one behind its barrier whose
\* representative may be fused.
LEMMA CandidateIs ==
  ASSUME IInv, NEW n \in Vertices, Candidate(n) # 0
  PROVE  /\ Candidate(n) \in 1 .. lastnum
         /\ cant_fuse_with[n] < Candidate(n)
         /\ types[node_to_fused_nodes[Candidate(n)]]
<1>1. /\ cant_fuse_with[n] \in 0 .. N /\ lastnum \in 0 .. N /\ fused \in 0 .. lastnum
      /\ N \in Nat /\ Vertices = 1 .. N /\ next \in [Vertices -> 0 .. N]
  BY NAssumption DEF IInv, TypeOK, GroupsOK, LinksOK, Vertices
<1>2. CASE cant_fuse_with[n] = 0
  <2>1. Candidate(n) = fused
    BY <1>2 DEF Candidate
  <2> QED BY <1>1, <1>2, <2>1 DEF IInv, LinksOK
<1>3. CASE cant_fuse_with[n] # 0
  <2>1. Candidate(n) = next[cant_fuse_with[n]] /\ cant_fuse_with[n] \in Vertices
    BY <1>1, <1>3 DEF Candidate
  <2>2. next[cant_fuse_with[n]] \in 0 .. N
    BY <1>1, <2>1
  <2>3. /\ cant_fuse_with[n] < Candidate(n) /\ Candidate(n) <= lastnum
        /\ types[node_to_fused_nodes[Candidate(n)]]
    BY <2>1 DEF IInv, LinksOK
  <2> QED BY <1>1, <2>1, <2>2, <2>3
<1> QED BY <1>2, <1>3

\* A vertex joins a group.
LEMMA JoinInv ==
  ASSUME IInv, Join
  PROVE  /\ IInv'
         /\ \E n : Placing(n, Candidate(n)) /\ Candidate(n) \in 1 .. N
                 /\ cant_fuse_with[n] < Candidate(n)
<1> DEFINE n == Head(work_list)
           p == Candidate(n)
           num == node_num[node_to_fused_nodes[p]]
<1>1. Placing(n, num) /\ types[n] /\ p # 0 /\ UNCHANGED lists
  BY DEF Join, Placing
<1>2. n \in Vertices
  BY <1>1 DEF Placing, IInv, TypeOK
<1> HIDE DEF n
<1>3. p \in 1 .. lastnum /\ cant_fuse_with[n] < p /\ types[node_to_fused_nodes[p]]
  BY <1>1, <1>2, CandidateIs
<1>4. num = p /\ node_to_fused_nodes[p] \in Vertices
  BY <1>3 DEF IInv, GroupsOK
<1>5. lastnum \in 0 .. N /\ N \in Nat
  BY NAssumption DEF IInv, GroupsOK
<1> HIDE DEF p, num
<1>6. num \in 1 .. N /\ cant_fuse_with[n] < num
  BY <1>3, <1>4, <1>5
<1>7. TypeOK' /\ EdgesOK' /\ ~Placed(n)
  BY <1>1, <1>6, PlacingTypes
<1>8. BarriersOK'
  BY <1>1, <1>6, PlacingBarriers
<1>9. InputOK'
  BY <1>1, <1>6, PlacingTypes DEF Placing, IInv, InputOK
<1>10. LinksOK'
  BY <1>1 DEF Placing, IInv, LinksOK, lists
<1>11. GroupsOK'
  <2>1. Cardinality(PlacedSet') = Cardinality(PlacedSet) + 1 /\ Cardinality(PlacedSet) \in Nat
    BY <1>1, <1>6, PlacedCount
  <2>2. lastnum' = lastnum /\ node_to_fused_nodes' = node_to_fused_nodes
    BY <1>1 DEF lists
  <2>3. lastnum <= Cardinality(PlacedSet)
    BY DEF IInv, GroupsOK
  <2>4. lastnum' \in 0 .. N /\ lastnum' <= Cardinality(PlacedSet')
    BY <1>5, <2>1, <2>2, <2>3
  <2>5. \A m \in Vertices : node_num'[m] = IF m = n THEN num ELSE node_num[m]
    BY <1>1, <1>2 DEF Placing, IInv, TypeOK
  <2>6. \A m \in Vertices : Placed(m)' => node_num'[m] \in 1 .. lastnum'
    BY <1>3, <1>4, <2>2, <2>5 DEF Placed, IInv, GroupsOK
  <2>7. ASSUME NEW k \in 1 .. lastnum
        PROVE  node_to_fused_nodes[k] \in Vertices /\ node_num'[node_to_fused_nodes[k]] = k
    <3>1. node_to_fused_nodes[k] \in Vertices /\ node_num[node_to_fused_nodes[k]] = k /\ k # -1
      BY <1>5 DEF IInv, GroupsOK
    <3>2. node_to_fused_nodes[k] # n
      BY <1>7, <3>1 DEF Placed
    <3> QED BY <2>5, <3>1, <3>2
  <2>8. \A m \in Vertices : cant_fuse_with'[m] <= lastnum'
    <3>1. \A m \in Vertices : \/ cant_fuse_with'[m] = cant_fuse_with[m]
                              \/ cant_fuse_with'[m] = cant_fuse_with[n]
                              \/ cant_fuse_with'[m] = p
      BY <1>1, <1>4, <1>6, PlacingBarriers
    <3> QED BY <1>2, <1>3, <1>5, <2>2, <3>1 DEF IInv, GroupsOK
  <2> QED BY <2>2, <2>4, <2>6, <2>7, <2>8 DEF IInv, GroupsOK
<1>12. LeftAlone'
  <2>1. ASSUME NEW m \in Vertices, node_num[m] = num PROVE types[m] /\ types[n]
    <3>1. node_num[node_to_fused_nodes[p]] = node_num[m] /\ Placed(m)
      BY <1>4, <1>6, <2>1 DEF Placed, num
    <3> QED BY <1>1, <1>3, <1>4, <3>1 DEF IInv, LeftAlone
  <2> QED BY <1>1, <1>6, <2>1, PlacingAlone
<1>13. IInv'
  BY <1>7, <1>8, <1>9, <1>10, <1>11, <1>12 DEF IInv
<1> QED BY <1>1, <1>4, <1>6, <1>13 DEF p

\* What Begin and Alone have in common: a new group with n as its representative.
NewGroup(n) ==
    /\ Placing(n, lastnum + 1)
    /\ node_to_fused_nodes' = [node_to_fused_nodes EXCEPT ![lastnum + 1] = n]
    /\ lastnum' = lastnum + 1

LEMMA FrontIs ==
  ASSUME TypeOK, work_list # <<>>
  PROVE  Head(work_list) \in Vertices /\ ~Placed(Head(work_list))
<1>1. work_list \in Seq(Vertices) /\ \A i \in DOMAIN work_list : ~Placed(work_list[i])
  BY DEF TypeOK
<1>2. 1 \in DOMAIN work_list /\ Head(work_list) = work_list[1] /\ Head(work_list) \in Vertices
  BY <1>1
<1> QED BY <1>1, <1>2

\* A set of vertices that lacks one has fewer than N.
LEMMA FewerThanAll ==
  ASSUME NEW S \in SUBSET Vertices, NEW n \in Vertices \ S
  PROVE  Cardinality(S) \in Nat /\ Cardinality(S) < N
<1>1. IsFiniteSet(S) /\ Cardinality(S) \in Nat
  BY VerticesFinite, FS_Subset, FS_CardinalityType
<1>2. S \cup {n} \in SUBSET Vertices /\ n \notin S
  OBVIOUS
<1>3. Cardinality(S \cup {n}) = Cardinality(S) + 1
  BY <1>1, <1>2, FS_AddElement
<1>4. Cardinality(S \cup {n}) <= N
  BY <1>2, VerticesFinite, FS_Subset
<1> QED BY <1>1, <1>3, <1>4, NAssumption

LEMMA NewGroupInv ==
  ASSUME IInv, NEW n, NewGroup(n)
  PROVE  /\ TypeOK' /\ InputOK' /\ GroupsOK' /\ EdgesOK' /\ BarriersOK' /\ LeftAlone'
         /\ n \in Vertices
         /\ lastnum \in Nat
         /\ lastnum + 1 \in 1 .. N
         /\ cant_fuse_with[n] < lastnum + 1
<1> DEFINE num == lastnum + 1
<1>1. Placing(n, num) /\ lastnum' = num
  BY DEF NewGroup
<1>2. lastnum \in Nat /\ lastnum <= Cardinality(PlacedSet) /\ N \in Nat
  BY NAssumption DEF IInv, GroupsOK
<1>3. n \in Vertices /\ ~Placed(n)
  BY <1>1, FrontIs DEF Placing, IInv
\* There is a number left: n is not among those that have one.
<1>4. num \in 1 .. N
  <2>1. PlacedSet \in SUBSET Vertices /\ n \in Vertices \ PlacedSet
    BY <1>3 DEF PlacedSet
  <2> QED BY <1>2, <2>1, FewerThanAll
<1>5. cant_fuse_with[n] < num
  <2>1. cant_fuse_with[n] <= lastnum /\ cant_fuse_with[n] \in Int
    BY <1>3 DEF IInv, GroupsOK, TypeOK
  <2> QED BY <1>2, <2>1
<1>6. \A m \in Vertices : node_num'[m] = IF m = n THEN num ELSE node_num[m]
  BY <1>1, <1>3 DEF Placing, IInv, TypeOK
<1>7. TypeOK' /\ EdgesOK' /\ BarriersOK'
  BY <1>1, <1>4, <1>5, PlacingTypes, PlacingBarriers
<1>8. InputOK'
  BY <1>1, <1>4, PlacingTypes DEF Placing, IInv, InputOK
<1>9. LeftAlone'
  <2>1. \A m \in Vertices : node_num[m] # num
    <3>1. \A m \in Vertices : Placed(m) => node_num[m] \in 1 .. lastnum
      BY DEF IInv, GroupsOK
    <3> QED BY <1>2, <3>1 DEF Placed
  <2> QED BY <1>1, <1>4, <2>1, PlacingAlone
<1>10. GroupsOK'
  <2>1. Cardinality(PlacedSet') = Cardinality(PlacedSet) + 1 /\ Cardinality(PlacedSet) \in Nat
    BY <1>1, <1>4, PlacedCount
  <2>2. lastnum' \in 0 .. N /\ lastnum' <= Cardinality(PlacedSet')
    BY <1>1, <1>2, <1>4, <2>1
  <2>3. \A m \in Vertices : Placed(m)' => node_num'[m] \in 1 .. lastnum'
    BY <1>1, <1>2, <1>6 DEF Placed, IInv, GroupsOK
  <2>4. \A m \in Vertices : cant_fuse_with'[m] <= lastnum'
    <3>1. \A m \in Vertices : \/ cant_fuse_with'[m] = cant_fuse_with[m]
                              \/ cant_fuse_with'[m] = cant_fuse_with[n]
                              \/ cant_fuse_with'[m] = num
      BY <1>1, <1>4, <1>5, PlacingBarriers
    <3>2. \A m \in Vertices : cant_fuse_with[m] <= lastnum /\ cant_fuse_with[m] \in Int
      BY DEF IInv, GroupsOK, TypeOK
    <3> QED BY <1>1, <1>2, <1>3, <3>1, <3>2
  <2>5. node_to_fused_nodes' = [node_to_fused_nodes EXCEPT ![num] = n]
    BY DEF NewGroup
  <2>6. /\ node_to_fused_nodes \in [Vertices -> {0} \cup Vertices]
        /\ num \in Vertices
    BY <1>4 DEF IInv, GroupsOK, Vertices
  <2>7. node_to_fused_nodes' \in [Vertices -> {0} \cup Vertices]
    BY <1>3, <2>5, <2>6
  <2>8. ASSUME NEW k \in 1 .. lastnum'
        PROVE  node_to_fused_nodes'[k] \in Vertices /\ node_num'[node_to_fused_nodes'[k]] = k
    <3>1. CASE k = num
      BY <1>3, <1>6, <2>5, <2>6, <3>1
    <3>2. CASE k # num
      <4>1. k \in 1 .. lastnum /\ k \in Vertices /\ k # -1
        BY <1>1, <1>2, <1>4, <3>2 DEF Vertices
      <4>2. node_to_fused_nodes[k] \in Vertices /\ node_num[node_to_fused_nodes[k]] = k
        BY <4>1 DEF IInv, GroupsOK
      <4>3. node_to_fused_nodes'[k] = node_to_fused_nodes[k]
        BY <2>5, <2>6, <3>2, <4>1
      <4>4. node_to_fused_nodes[k] # n
        BY <1>3, <4>1, <4>2 DEF Placed
      <4> QED BY <1>6, <4>2, <4>3, <4>4
    <3> QED BY <3>1, <3>2
  <2> QED BY <2>2, <2>3, <2>4, <2>7, <2>8 DEF GroupsOK
<1> QED BY <1>2, <1>3, <1>4, <1>5, <1>7, <1>8, <1>9, <1>10

\* The new group is linked behind the last one that may be joined.
LEMMA BeginInv == IInv /\ Begin => IInv'
<1> SUFFICES ASSUME IInv, Begin PROVE IInv'
  OBVIOUS
<1> DEFINE n == Head(work_list)
           num == lastnum + 1
<1>1. NewGroup(n) /\ types[n]
  BY DEF Begin, NewGroup, Placing
<1>2. /\ next' = IF lastfused = 0 THEN next ELSE [next EXCEPT ![lastfused] = num]
      /\ fused' = IF lastfused = 0 THEN num ELSE fused
      /\ lastfused' = num
  BY DEF Begin
<1> HIDE DEF n
<1>3. /\ TypeOK' /\ InputOK' /\ GroupsOK' /\ EdgesOK' /\ BarriersOK' /\ LeftAlone'
      /\ n \in Vertices /\ lastnum \in Nat /\ num \in 1 .. N
  BY <1>1, NewGroupInv
<1>4. /\ lastnum' = num /\ types' = types
      /\ node_to_fused_nodes' = [node_to_fused_nodes EXCEPT ![num] = n]
  BY <1>1 DEF NewGroup, Placing
<1>5. /\ next \in [Vertices -> 0 .. N] /\ fused \in 0 .. lastnum /\ lastfused \in 0 .. lastnum
      /\ node_to_fused_nodes \in [Vertices -> {0} \cup Vertices] /\ Vertices = 1 .. N
  BY DEF IInv, LinksOK, GroupsOK, Vertices
<1>6. types[node_to_fused_nodes'[num]]
  BY <1>1, <1>3, <1>4, <1>5
<1>7. \A k \in 1 .. lastnum : node_to_fused_nodes'[k] = node_to_fused_nodes[k]
  BY <1>3, <1>4, <1>5
<1>8. /\ next' \in [Vertices -> 0 .. N] /\ fused' \in 0 .. lastnum' /\ lastfused' \in 0 .. lastnum'
  <2>1. fused' \in 0 .. lastnum' /\ lastfused' \in 0 .. lastnum'
    BY <1>2, <1>3, <1>4, <1>5
  <2>2. num \in 0 .. N
    BY <1>3
  <2>3. next' \in [Vertices -> 0 .. N]
    BY <1>2, <1>5, <2>2
  <2> QED BY <2>1, <2>3
<1>9. fused' # 0 => types[node_to_fused_nodes'[fused']]
  <2>1. CASE lastfused = 0
    BY <1>2, <1>6, <2>1
  <2>2. CASE lastfused # 0
    BY <1>2, <1>5, <1>7, <2>2 DEF IInv, LinksOK
  <2> QED BY <2>1, <2>2
<1>10. ASSUME NEW k \in Vertices, next'[k] # 0
       PROVE  k < next'[k] /\ next'[k] <= lastnum' /\ types[node_to_fused_nodes'[next'[k]]]
  <2>1. CASE lastfused # 0 /\ k = lastfused
    <3>1. next'[k] = num
      BY <1>2, <1>5, <2>1
    <3>2. k < num /\ num <= lastnum'
      BY <1>3, <1>4, <1>5, <2>1
    <3> QED BY <1>6, <3>1, <3>2
  <2>2. CASE lastfused = 0 \/ k # lastfused
    <3>1. next'[k] = next[k]
      BY <1>2, <1>5, <2>2
    <3>2. next[k] # 0 /\ next[k] \in 0 .. N
      BY <1>5, <1>10, <3>1
    <3>3. k < next[k] /\ next[k] <= lastnum /\ types[node_to_fused_nodes[next[k]]]
      BY <3>2 DEF IInv, LinksOK
    <3>4. next[k] \in 1 .. lastnum /\ next[k] <= lastnum'
      BY <1>3, <1>4, <3>2, <3>3
    <3> QED BY <1>7, <3>1, <3>3, <3>4
  <2> QED BY <2>1, <2>2
<1>11. LinksOK'
  BY <1>4, <1>8, <1>9, <1>10 DEF LinksOK
<1> QED BY <1>3, <1>11 DEF IInv

\* The group of a vertex that is left alone is not linked.
LEMMA AloneInv == IInv /\ Alone => IInv'
<1> SUFFICES ASSUME IInv, Alone PROVE IInv'
  OBVIOUS
<1> DEFINE n == Head(work_list)
           num == lastnum + 1
<1>1. NewGroup(n) /\ UNCHANGED <<next, fused, lastfused>>
  BY DEF Alone, NewGroup, Placing
<1> HIDE DEF n
<1>2. /\ TypeOK' /\ InputOK' /\ GroupsOK' /\ EdgesOK' /\ BarriersOK' /\ LeftAlone'
      /\ lastnum \in Nat /\ num \in 1 .. N
  BY <1>1, NewGroupInv
<1>3. /\ lastnum' = num /\ types' = types
      /\ node_to_fused_nodes' = [node_to_fused_nodes EXCEPT ![num] = n]
  BY <1>1 DEF NewGroup, Placing
<1>4. /\ node_to_fused_nodes \in [Vertices -> {0} \cup Vertices] /\ Vertices = 1 .. N
      /\ next \in [Vertices -> 0 .. N] /\ fused \in 0 .. lastnum /\ lastfused \in 0 .. lastnum
  BY DEF IInv, LinksOK, GroupsOK, Vertices
<1>5. \A k \in 1 .. lastnum : node_to_fused_nodes'[k] = node_to_fused_nodes[k]
  BY <1>2, <1>3, <1>4
<1>6. ASSUME NEW k \in Vertices, next[k] # 0
      PROVE  k < next[k] /\ next[k] <= lastnum' /\ types[node_to_fused_nodes'[next[k]]]
  <2>1. k < next[k] /\ next[k] <= lastnum /\ types[node_to_fused_nodes[next[k]]]
    BY <1>6 DEF IInv, LinksOK
  <2>2. next[k] \in 0 .. N
    BY <1>4
  <2>3. next[k] \in 1 .. lastnum /\ next[k] <= lastnum'
    BY <1>2, <1>3, <1>6, <2>1, <2>2
  <2> QED BY <1>5, <2>1, <2>3
<1>7. fused # 0 => types[node_to_fused_nodes'[fused]]
  BY <1>4, <1>5 DEF IInv, LinksOK
<1>8. fused \in 0 .. lastnum' /\ lastfused \in 0 .. lastnum'
  BY <1>2, <1>3, <1>4
<1>9. LinksOK'
  BY <1>1, <1>3, <1>4, <1>6, <1>7, <1>8 DEF LinksOK
<1> QED BY <1>2, <1>9 DEF IInv

-----------------------------------------------------------------------------
LEMMA InitInv == Init => CInv
<1> SUFFICES ASSUME Init PROVE CInv
  OBVIOUS
<1>1. \A n \in Vertices : ~Placed(n) /\ cant_fuse_with[n] = 0
  BY DEF Init, Placed
<1>2. PlacedSet = {} /\ Cardinality(PlacedSet) = 0
  BY <1>1, FS_EmptySet DEF PlacedSet
<1>3. TypeOK
  BY <1>1, NAssumption DEF Init, TypeOK, Vertices
<1>4. InputOK
  BY <1>1, TypesAssumption DEF Init, InputOK
<1>5. GroupsOK
  BY <1>1, <1>2, NAssumption DEF Init, GroupsOK
<1>6. LinksOK
  BY NAssumption DEF Init, LinksOK
<1>7. EdgesOK /\ BarriersOK
  BY <1>1 DEF Init, EdgesOK, BarriersOK
<1>8. LeftAlone
  BY <1>1 DEF LeftAlone
<1>9. Chained
  <2>1. \A k \in Vertices : ~(k < 0)
    BY NAssumption DEF Vertices
  <2> QED BY <1>1, <2>1 DEF Init, Chained
<1> QED BY <1>3, <1>4, <1>5, <1>6, <1>7, <1>8, <1>9 DEF CInv, IInv

\* The work list begins with vertices without predecessors.
LEMMA RootsInv == IInv /\ Roots => IInv'
<1> SUFFICES ASSUME IInv, Roots PROVE IInv'
  OBVIOUS
<1>1. /\ UNCHANGED <<graph, bad, types, edges, cant_fuse_with, node_num, lists>>
      /\ pc' \in {"loop", "raised"}
  BY DEF Roots
<1> DEFINE S == {n \in Vertices : ~HasIncoming(edges, n)}
<1>2. PICK q \in Ascending(S) : work_list' = q
  BY DEF Roots
<1>3. /\ q \in Seq(Vertices) /\ \A i \in DOMAIN q : q[i] \in S
      /\ \A i, j \in DOMAIN q : q[i] = q[j] => i = j
  <2>1. S \in SUBSET Vertices
    OBVIOUS
  <2> HIDE DEF S
  <2> QED BY <1>2, <2>1, AscendingIs
<1>4. \A n \in Vertices : ~Placed(n)
  BY DEF Roots, IInv, InputOK
<1>5. \A i \in DOMAIN q : ~Placed(q[i]) /\ ~HasIncoming(edges, q[i])
  BY <1>3, <1>4
<1>6. TypeOK'
  <2>1. \A i \in DOMAIN work_list' : ~Placed(work_list[i])' /\ ~HasIncoming(edges, work_list[i])'
    BY <1>1, <1>2, <1>5 DEF Placed, HasIncoming
  <2> HIDE DEF S
  <2> QED BY <1>1, <1>2, <1>3, <2>1 DEF IInv, TypeOK
<1>7. InputOK'
  BY <1>1 DEF IInv, InputOK
<1>8. GroupsOK' /\ LinksOK'
  BY <1>1 DEF IInv, GroupsOK, LinksOK, lists, PlacedSet, Placed
<1>9. EdgesOK' /\ BarriersOK' /\ LeftAlone'
  BY <1>1 DEF IInv, EdgesOK, BarriersOK, LeftAlone, HasIncoming, Placed
<1> QED BY <1>6, <1>7, <1>8, <1>9 DEF IInv

\* When every vertex may be fused, placing one right behind its barrier keeps the
\* barriers explained.
LEMMA PlacingChained ==
  ASSUME IInv, Chained, NEW n, NEW num \in 1 .. N, Placing(n, num),
         num = cant_fuse_with[n] + 1
  PROVE  /\ \A m \in Vertices : Placed(m)' => node_num'[m] = cant_fuse_with'[m] + 1
         /\ \A j, m \in Vertices : <<j, m>> \in graph' \ edges' =>
                cant_fuse_with'[j] <= cant_fuse_with'[m]
         /\ \A m \in Vertices : cant_fuse_with'[m] > 0 =>
               \E j \in Vertices : /\ <<j, m>> \in graph' \ edges'
                                   /\ \/ cant_fuse_with'[j] = cant_fuse_with'[m]
                                      \/ <<j, m>> \in bad' /\ node_num'[j] = cant_fuse_with'[m]
<1>1. /\ n \in Vertices /\ ~Placed(n)
      /\ edges' = edges \ ({n} \X Vertices)
      /\ graph' = graph /\ bad' = bad
  BY PlacingTypes DEF Placing
<1>2. /\ node_num' = [node_num EXCEPT ![n] = num] /\ node_num \in [Vertices -> {-1} \cup Vertices]
      /\ \A m \in Vertices : cant_fuse_with[m] \in Int
  BY DEF Placing, IInv, TypeOK
<1>3. \A m \in Vertices : node_num'[m] = IF m = n THEN num ELSE node_num[m]
  BY <1>1, <1>2
<1>4. cant_fuse_with[n] < num
  BY <1>1, <1>2
<1>5. /\ \A m \in Vertices : Placed(m) \/ m = n => cant_fuse_with'[m] = cant_fuse_with[m]
      /\ \A m \in Vertices : cant_fuse_with[m] <= cant_fuse_with'[m]
      /\ \A m \in Vertices : <<n, m>> \in edges => cant_fuse_with[n] <= cant_fuse_with'[m]
  BY <1>4, PlacingBarriers
<1>6. \A m \in Vertices : cant_fuse_with'[m] # cant_fuse_with[m] =>
           /\ <<n, m>> \in edges
           /\ \/ cant_fuse_with'[m] = cant_fuse_with[n]
              \/ <<n, m>> \in bad /\ cant_fuse_with'[m] = num
  BY <1>4, PlacingBarriers
<1>7. \A m \in Vertices : cant_fuse_with'[m] \in Int
  <2>1. cant_fuse_with' \in [Vertices -> 0 .. N]
    BY PlacingTypes DEF TypeOK
  <2> QED BY <2>1, NAssumption
<1>8. ASSUME NEW m \in Vertices, Placed(m)' PROVE node_num'[m] = cant_fuse_with'[m] + 1
  <2>1. CASE m = n
    BY <1>1, <1>3, <1>5, <2>1
  <2>2. CASE m # n
    <3>1. Placed(m)
      BY <1>3, <1>8, <2>2 DEF Placed
    <3> QED BY <1>3, <1>5, <2>2, <3>1 DEF Chained
  <2> QED BY <2>1, <2>2
<1>9. \A j, m \in Vertices : <<j, m>> \in graph \ edges => /\ Placed(j) /\ j # n
                                                        /\ <<j, m>> \in graph' \ edges'
  BY <1>1 DEF IInv, EdgesOK
<1>10. ASSUME NEW j \in Vertices, NEW m \in Vertices, <<j, m>> \in graph' \ edges'
       PROVE  cant_fuse_with'[j] <= cant_fuse_with'[m]
  <2>1. CASE <<j, m>> \in edges
    <3>1. j = n
      BY <1>1, <1>10, <2>1
    <3> QED BY <1>1, <1>5, <2>1, <3>1
  <2>2. CASE <<j, m>> \notin edges
    <3>1. <<j, m>> \in graph \ edges
      BY <1>1, <1>10, <2>2
    <3>2. cant_fuse_with[j] <= cant_fuse_with[m] /\ cant_fuse_with'[j] = cant_fuse_with[j]
      BY <1>5, <1>9, <3>1 DEF Chained
    <3> QED BY <1>2, <1>5, <1>7, <3>2
  <2> QED BY <2>1, <2>2
<1>11. ASSUME NEW m \in Vertices, cant_fuse_with'[m] > 0
       PROVE  \E j \in Vertices : /\ <<j, m>> \in graph' \ edges'
                                  /\ \/ cant_fuse_with'[j] = cant_fuse_with'[m]
                                     \/ <<j, m>> \in bad' /\ node_num'[j] = cant_fuse_with'[m]
  <2>1. CASE cant_fuse_with'[m] = cant_fuse_with[m]
    <3>1. PICK j \in Vertices : /\ <<j, m>> \in graph \ edges
                                /\ \/ cant_fuse_with[j] = cant_fuse_with[m]
                                   \/ <<j, m>> \in bad /\ node_num[j] = cant_fuse_with[m]
      BY <1>11, <2>1 DEF Chained
    <3>2. <<j, m>> \in graph' \ edges' /\ Placed(j) /\ j # n
      BY <1>9, <3>1
    <3>3. cant_fuse_with'[j] = cant_fuse_with[j] /\ node_num'[j] = node_num[j]
      BY <1>3, <1>5, <3>2
    <3> QED BY <1>1, <2>1, <3>1, <3>2, <3>3
  <2>2. CASE cant_fuse_with'[m] # cant_fuse_with[m]
    <3>1. <<n, m>> \in graph' \ edges'
      <4>1. <<n, m>> \in edges /\ <<n, m>> \notin edges'
        BY <1>1, <1>6, <2>2
      <4> QED BY <1>1, <4>1 DEF IInv, TypeOK
    <3>2. cant_fuse_with'[n] = cant_fuse_with[n] /\ node_num'[n] = num
      BY <1>1, <1>3, <1>5
    <3> QED BY <1>1, <1>6, <2>2, <3>1, <3>2
  <2> QED BY <2>1, <2>2
<1> QED BY <1>8, <1>10, <1>11

LEMMA JoinChained ==
  ASSUME IInv, Chained, Join
  PROVE  Chained'
<1>1. PICK n : Placing(n, Candidate(n)) /\ Candidate(n) \in 1 .. N
  BY JoinInv
<1>2. n \in Vertices /\ Vertices = 1 .. N /\ N \in Nat
  BY <1>1, PlacingTypes, NAssumption DEF Vertices
<1>3. cant_fuse_with[n] \in 0 .. N /\ lastnum \in 0 .. N
  BY <1>2 DEF IInv, TypeOK, GroupsOK
<1>4. Candidate(n) = cant_fuse_with[n] + 1
  <2>1. CASE cant_fuse_with[n] = 0
    BY <1>1, <1>2, <1>3, <2>1 DEF Candidate, Chained
  <2>2. CASE cant_fuse_with[n] # 0
    <3>1. cant_fuse_with[n] \in Vertices /\ Candidate(n) = next[cant_fuse_with[n]]
      BY <1>2, <1>3, <2>2 DEF Candidate
    <3> QED BY <1>1, <1>2, <1>3, <3>1 DEF Chained
  <2> QED BY <2>1, <2>2
<1>5. UNCHANGED lists
  BY DEF Join
<1> QED BY <1>1, <1>4, <1>5, PlacingChained DEF Chained, lists, Placed

LEMMA BeginChained ==
  ASSUME IInv, Chained, Begin
  PROVE  Chained'
<1> DEFINE n == Head(work_list)
           num == lastnum + 1
<1>1. NewGroup(n) /\ Candidate(n) = 0
  BY DEF Begin, NewGroup, Placing
<1>2. /\ next' = IF lastfused = 0 THEN next ELSE [next EXCEPT ![lastfused] = num]
      /\ fused' = IF lastfused = 0 THEN num ELSE fused
      /\ lastfused' = num /\ lastnum' = num
  BY DEF Begin
<1> HIDE DEF n
<1>3. n \in Vertices /\ lastnum \in Nat /\ num \in 1 .. N /\ Vertices = 1 .. N /\ N \in Nat
  BY <1>1, NewGroupInv, NAssumption DEF Vertices
<1>4. cant_fuse_with[n] \in 0 .. N /\ cant_fuse_with[n] <= lastnum /\ next \in [Vertices -> 0 .. N]
  BY <1>3 DEF IInv, TypeOK, GroupsOK, LinksOK
<1>5. /\ fused = (IF lastnum = 0 THEN 0 ELSE 1) /\ lastfused = lastnum
      /\ \A k \in Vertices : next[k] = IF k < lastnum THEN k + 1 ELSE 0
  BY DEF Chained
<1>6. num = cant_fuse_with[n] + 1
  <2>1. CASE cant_fuse_with[n] = 0
    BY <1>1, <1>3, <1>5, <2>1 DEF Candidate
  <2>2. CASE cant_fuse_with[n] # 0
    <3>1. cant_fuse_with[n] \in Vertices /\ next[cant_fuse_with[n]] = 0
      BY <1>1, <1>3, <1>4, <2>2 DEF Candidate
    <3> QED BY <1>3, <1>4, <1>5, <3>1
  <2> QED BY <2>1, <2>2
<1>7. fused' = IF lastnum' = 0 THEN 0 ELSE 1
  BY <1>2, <1>3, <1>5
<1>8. \A k \in Vertices : next'[k] = IF k < lastnum' THEN k + 1 ELSE 0
  <2>1. CASE lastfused = 0
    BY <1>2, <1>3, <1>5, <2>1
  <2>2. CASE lastfused # 0
    BY <1>2, <1>3, <1>4, <1>5, <2>2
  <2> QED BY <2>1, <2>2
<1>9. Placing(n, num)
  BY <1>1 DEF NewGroup
<1> HIDE DEF num
<1> QED BY <1>2, <1>3, <1>6, <1>7, <1>8, <1>9, PlacingChained DEF Chained, Placed

-----------------------------------------------------------------------------
LEMMA StepInv == CInv /\ [Next]_vars => CInv'
<1> SUFFICES ASSUME CInv, [Next]_vars PROVE CInv'
  OBVIOUS
<1>1. IInv /\ (AllFuse => Chained)
  BY DEF CInv
<1>2. CASE Roots
  <2>1. Chained => Chained'
    BY <1>2 DEF Roots, Chained, lists, Placed
  <2> QED BY <1>1, <1>2, <2>1, RootsInv DEF CInv, AllFuse, Roots
<1>3. CASE Join
  <2>1. types' = types
    BY <1>3 DEF Join
  <2> QED BY <1>1, <1>3, <2>1, JoinInv, JoinChained DEF CInv, AllFuse
<1>4. CASE Begin
  <2>1. types' = types
    BY <1>4 DEF Begin
  <2> QED BY <1>1, <1>4, <2>1, BeginInv, BeginChained DEF CInv, AllFuse
<1>5. CASE Alone
  <2>1. ~types[Head(work_list)] /\ work_list # <<>> /\ types' = types
    BY <1>5 DEF Alone
  <2>2. ~AllFuse
    BY <1>1, <2>1, FrontIs DEF AllFuse, IInv
  <2> QED BY <1>1, <1>5, <2>1, <2>2, AloneInv DEF CInv, AllFuse
<1>6. CASE Return \/ UNCHANGED vars
  <2>1. /\ UNCHANGED <<graph, bad, types, edges, work_list, cant_fuse_with, node_num, lists>>
        /\ pc' \in {pc, "done"}
    BY <1>6 DEF Return, vars
  <2>2. TypeOK' /\ InputOK' /\ EdgesOK' /\ BarriersOK' /\ LeftAlone'
    BY <1>1, <2>1 DEF IInv, TypeOK, InputOK, EdgesOK, BarriersOK, LeftAlone, HasIncoming, Placed
  <2>3. GroupsOK' /\ LinksOK' /\ (AllFuse => Chained)'
    BY <1>1, <2>1 DEF IInv, GroupsOK, LinksOK, Chained, AllFuse, lists, PlacedSet, Placed
  <2> QED BY <2>2, <2>3 DEF CInv, IInv
<1> QED BY <1>2, <1>3, <1>4, <1>5, <1>6 DEF Next

LEMMA Inductive == Spec => []CInv
  BY InitInv, StepInv, PTL DEF Spec

-----------------------------------------------------------------------------
\* Whatever the types, the work list holds each vertex once, before it is placed and
\* after its predecessors (update_successors).
THEOREM WorkListSound == Spec => []TypeOK
<1>1. CInv => TypeOK
  BY DEF CInv, IInv
<1> QED BY <1>1, Inductive, PTL

\* Whatever the types, a vertex that is not to be fused is alone in its group
\* (typed_fusion).
THEOREM AloneStaysAlone == Spec => []LeftAlone
<1>1. CInv => LeftAlone
  BY DEF CInv, IInv
<1> QED BY <1>1, Inductive, PTL

\* Whatever the types, the two ends of a bad edge never get one group.
THEOREM BadKeptApart == Spec => []BadApart
<1>1. ASSUME CInv PROVE BadApart
  <2> SUFFICES ASSUME NEW e \in bad, Placed(e[2]) PROVE node_num[e[1]] # node_num[e[2]]
    BY DEF BadApart
  <2>0. /\ graph \subseteq Vertices \X Vertices /\ \A v \in Vertices : <<v, v>> \notin graph
        /\ e \in graph
    BY <1>1, GraphsAssumption DEF CInv, IInv, InputOK
  <2>1. PICK n \in Vertices, m \in Vertices : e = <<n, m>> /\ <<n, m>> \in graph /\ n # m
    BY <2>0
  <2>2. <<n, m>> \in bad \ edges /\ Placed(m)
    BY <1>1, <2>1 DEF CInv, IInv, EdgesOK, HasIncoming
  <2>3. cant_fuse_with[m] \in Int /\ cant_fuse_with[m] < node_num[m]
    BY <1>1, <2>2 DEF CInv, IInv, BarriersOK, TypeOK
  <2>4. CASE types[m]
    <3>1. node_num[n] <= cant_fuse_with[m]
      BY <1>1, <2>2, <2>4 DEF CInv, IInv, BarriersOK
    <3>2. node_num[n] \in Int /\ node_num[m] \in Int
      <4>1. Placed(n)
        BY <1>1, <2>1, <2>2 DEF CInv, IInv, EdgesOK
      <4>2. node_num[n] \in 1 .. lastnum /\ node_num[m] \in 1 .. lastnum /\ lastnum \in Int
        BY <1>1, <2>2, <4>1, NAssumption DEF CInv, IInv, GroupsOK
      <4> QED BY <4>2
    <3>3. node_num[n] # node_num[m]
      BY <2>3, <3>1, <3>2
    <3> QED BY <2>1, <3>3
  <2>5. CASE ~types[m]
    BY <1>1, <2>1, <2>2, <2>5 DEF CInv, IInv, LeftAlone
  <2> QED BY <2>4, <2>5
<1> QED BY <1>1, Inductive, PTL

\* When every vertex may be fused, as setLexicalOrder calls it, the groups are in
\* the order of the dependences.
THEOREM OrderKept == Spec => []GroupsInOrder
<1>1. ASSUME CInv PROVE GroupsInOrder
  <2> SUFFICES ASSUME AllFuse, NEW e \in graph, Placed(e[2])
               PROVE  Placed(e[1]) /\ node_num[e[1]] <= node_num[e[2]]
    BY DEF GroupsInOrder
  <2>1. PICK n \in Vertices, m \in Vertices : e = <<n, m>> /\ n # m
    BY <1>1, GraphsAssumption DEF CInv, IInv, InputOK
  <2>2. <<n, m>> \in graph \ edges /\ Placed(m)
    BY <1>1, <2>1 DEF CInv, IInv, EdgesOK, HasIncoming
  <2>3. Placed(n)
    BY <1>1, <2>2 DEF CInv, IInv, EdgesOK
  <2>4. /\ node_num[n] = cant_fuse_with[n] + 1 /\ node_num[m] = cant_fuse_with[m] + 1
        /\ cant_fuse_with[n] <= cant_fuse_with[m]
    BY <1>1, <2>2, <2>3 DEF CInv, Chained
  <2>5. cant_fuse_with[n] \in Int /\ cant_fuse_with[m] \in Int
    BY <1>1 DEF CInv, IInv, TypeOK
  <2>6. node_num[n] <= node_num[m]
    BY <2>4, <2>5
  <2> QED BY <2>1, <2>3, <2>6
<1> QED BY <1>1, Inductive, PTL

\* When every vertex may be fused, only a bad edge, or an edge from the same group,
\* keeps a vertex out of the group before its own.
THEOREM FusedAsFarAsPossible == Spec => []Greedy
<1>1. ASSUME CInv PROVE Greedy
  <2> SUFFICES ASSUME AllFuse, NEW m \in Vertices, Placed(m), node_num[m] > 1
               PROVE  \E n \in Vertices : /\ <<n, m>> \in graph
                                          /\ \/ node_num[n] = node_num[m]
                                             \/ <<n, m>> \in bad /\ node_num[n] = node_num[m] - 1
    BY DEF Greedy
  <2>1. node_num[m] = cant_fuse_with[m] + 1 /\ cant_fuse_with[m] \in Int
    BY <1>1 DEF CInv, IInv, TypeOK, Chained
  <2>2. PICK n \in Vertices : /\ <<n, m>> \in graph \ edges
                              /\ \/ cant_fuse_with[n] = cant_fuse_with[m]
                                 \/ <<n, m>> \in bad /\ node_num[n] = cant_fuse_with[m]
    BY <1>1, <2>1 DEF CInv, Chained
  <2>3. node_num[n] = cant_fuse_with[n] + 1
    BY <1>1, <2>2 DEF CInv, IInv, EdgesOK, Chained
  <2> QED BY <2>1, <2>2, <2>3
<1> QED BY <1>1, Inductive, PTL

-----------------------------------------------------------------------------
(***************************************************************************)
(* The steps compute the value typed_fusion: after each step the variables *)
(* are what the recursion has reached, and at the end no vertex is left.   *)
(***************************************************************************)
\* What is still to come: the edges that are left begin at vertices without a group, and
\* such a vertex waits on the work list as soon as no edge leads to it.
PendingOK ==
    /\ pc = "done" => work_list = <<>>
    /\ \A n, m \in Vertices : <<n, m>> \in edges => ~Placed(n)
    /\ pc \in {"loop", "done"} =>
          /\ ~HasCycle(graph)
          /\ \A m \in Vertices : ~Placed(m) /\ ~HasIncoming(edges, m) =>
                 \E i \in DOMAIN work_list : work_list[i] = m

\* The links as typed_fusion has them: the first is that of no group.
Links == [k \in 0 .. N |-> IF k = 0 THEN fused ELSE next[k]]

\* The state as typed_fusion has it.
Value ==
    [work |-> work_list, edges |-> edges,
     group |-> [v \in Vertices |-> IF Placed(v) THEN node_num[v] ELSE 0],
     barrier |-> cant_fuse_with, next |-> Links, lastfused |-> lastfused, lastnum |-> lastnum]

Follows ==
    pc \in {"loop", "done"} =>
        \A h : Computes(h, N, graph, bad, types) => h[Cardinality(PlacedSet)] = Value

\* Before the first vertex is taken.
Fresh ==
    pc = "roots" =>
        /\ edges = graph
        /\ cant_fuse_with = [n \in Vertices |-> 0]
        /\ next = [k \in Vertices |-> 0]
        /\ fused = 0 /\ lastfused = 0 /\ lastnum = 0

RInv == CInv /\ Fresh /\ PendingOK /\ Follows

\* Ascending orders of a set of vertices are one: the one that Sorted gives.
LEMMA SortedIs ==
  ASSUME NEW S \in SUBSET Vertices, NEW q \in Ascending(S)
  PROVE  Sorted(S) = q
<1>1. S \in SUBSET Nat /\ IsFiniteSet(S)
  <2>1. Vertices \subseteq Nat
    BY NAssumption DEF Vertices
  <2> QED BY <2>1, VerticesFinite, FS_Subset
<1>2. Sorted(S) \in Ascending(S)
  BY DEF Sorted
<1>3. Ascends(q, S) /\ Ascends(Sorted(S), S)
  BY <1>2 DEF Ascends, Ascending
<1> QED BY <1>1, <1>3, AscendsOnce

LEMMA AscendingIsOnto ==
  ASSUME NEW S \in SUBSET Vertices, NEW q \in Ascending(S), NEW m \in S
  PROVE  \E i \in DOMAIN q : q[i] = m
<1>1. IsFiniteSet(S)
  BY VerticesFinite, FS_Subset
<1>2. q \in [1 .. Cardinality(S) -> S]
  BY DEF Ascending
<1>3. \A i, j \in DOMAIN q : q[i] = q[j] => i = j
  BY AscendingIs
<1>4. \A i, j \in 1 .. Cardinality(S) : i < j => q[i] # q[j]
  <2>1. Cardinality(S) \in Nat
    BY <1>1, FS_CardinalityType
  <2> QED BY <1>2, <1>3, <2>1
<1>5. Enumerates(q, S)
  BY <1>2, <1>4 DEF Enumerates
<1>6. PICK i \in 1 .. Cardinality(S) : q[i] = m
  BY <1>1, <1>5, EnumerationIsOnto
<1> QED BY <1>2, <1>6

\* A vertex that no edge leads to any more joins the work list.
LEMMA PlacingPending ==
  ASSUME IInv, PendingOK, NEW n, NEW num \in 1 .. N, Placing(n, num)
  PROVE  PendingOK'
<1>1. /\ n \in Vertices /\ ~Placed(n) /\ pc' = pc /\ pc = "loop" /\ graph' = graph
      /\ edges' = edges \ ({n} \X Vertices)
  BY PlacingTypes DEF Placing
<1>2. \A m \in Vertices : Placed(m)' <=> Placed(m) \/ m = n
  <2>1. num # -1 /\ node_num' = [node_num EXCEPT ![n] = num]
    BY DEF Placing
  <2>2. node_num \in [Vertices -> {-1} \cup Vertices]
    BY DEF IInv, TypeOK
  <2> QED BY <1>1, <2>1, <2>2 DEF Placed
<1>3. \A j, m \in Vertices : <<j, m>> \in edges' => ~Placed(j)'
  BY <1>1, <1>2 DEF PendingOK
<1>4. ASSUME NEW m \in Vertices, ~Placed(m)', ~HasIncoming(edges', m)
      PROVE  \E i \in DOMAIN work_list' : work_list'[i] = m
  <2>1. PICK q \in Ascending(Ready(n)) : work_list' = Tail(work_list) \o q
    BY DEF Placing, UpdateSuccessors
  <2>2. Ready(n) \in SUBSET Vertices
    BY DEF Ready, Successors
  <2>3. q \in Seq(Vertices) /\ DOMAIN q = 1 .. Len(q)
    BY <2>1, <2>2, AscendingIs
  <2>4. /\ work_list \in Seq(Vertices) /\ work_list # <<>> /\ n = work_list[1]
        /\ Tail(work_list) \in Seq(Vertices) /\ Len(Tail(work_list)) = Len(work_list) - 1
        /\ \A i \in 1 .. Len(work_list) - 1 : Tail(work_list)[i] = work_list[i + 1]
        /\ Len(work_list) \in Nat
    BY DEF Placing, IInv, TypeOK
  <2>5. ~Placed(m) /\ m # n
    BY <1>2, <1>4
  <2>6. CASE HasIncoming(edges, m)
    <3>1. <<n, m>> \in edges
      BY <1>1, <1>4, <2>6 DEF HasIncoming
    <3>2. m \in Ready(n)
      BY <1>1, <1>4, <3>1 DEF Ready, Successors
    <3>3. PICK i \in DOMAIN q : q[i] = m
      BY <2>1, <2>2, <3>2, AscendingIsOnto
    <3>4. /\ i \in 1 .. Len(q)
          /\ Len(work_list) - 1 + i \in 1 .. Len(Tail(work_list)) + Len(q)
          /\ ~(Len(work_list) - 1 + i <= Len(Tail(work_list)))
          /\ Len(work_list) - 1 + i - Len(Tail(work_list)) = i
      BY <2>3, <2>4, <3>3
    <3>5. work_list'[Len(work_list) - 1 + i] = q[i]
      BY <2>1, <2>3, <2>4, <3>4
    <3>6. Len(work_list) - 1 + i \in DOMAIN work_list'
      BY <2>1, <2>3, <2>4, <3>4
    <3> QED BY <3>3, <3>5, <3>6
  <2>7. CASE ~HasIncoming(edges, m)
    <3>1. PICK i \in DOMAIN work_list : work_list[i] = m
      BY <1>1, <2>5, <2>7 DEF PendingOK
    <3>2. i - 1 \in 1 .. Len(work_list) - 1 /\ i - 1 + 1 = i
      BY <2>4, <2>5, <3>1
    <3>3. work_list'[i - 1] = Tail(work_list)[i - 1] /\ i - 1 \in DOMAIN work_list'
      BY <2>1, <2>3, <2>4, <3>2
    <3> QED BY <2>4, <3>1, <3>2, <3>3
  <2> QED BY <2>6, <2>7
<1>5. \A m \in Vertices : HasIncoming(edges', m) = HasIncoming(edges, m)'
  BY DEF HasIncoming
<1>6. HasCycle(graph)' = HasCycle(graph)
  BY <1>1 DEF HasCycle
<1>7. ~HasCycle(graph)
  BY <1>1 DEF PendingOK
<1>8. \A m \in Vertices : ~Placed(m)' /\ ~HasIncoming(edges, m)' =>
          \E i \in DOMAIN work_list' : work_list'[i] = m
  BY <1>4, <1>5
<1> QED BY <1>1, <1>3, <1>6, <1>7, <1>8 DEF PendingOK

\* Placing a vertex is what the recursion does for one vertex.
LEMMA PlacingTaken ==
  ASSUME IInv, NEW n, NEW num \in 1 .. N, Placing(n, num), NEW join \in BOOLEAN,
         join = (types[n] /\ Candidate(n) # 0),
         num = IF join THEN Candidate(n) ELSE lastnum + 1,
         lastnum' = IF join THEN lastnum ELSE num,
         lastfused' = IF types[n] /\ ~join THEN num ELSE lastfused,
         Links' = IF types[n] /\ ~join THEN [Links EXCEPT ![lastfused] = num] ELSE Links
  PROVE  Value' = Taken(Value, bad, types) /\ Value.work # <<>>
<1> DEFINE from == {e \in edges : e[1] = n}
           aims == Sources(edges \ from, {e[2] : e \in from})
<1>1. /\ n \in Vertices /\ ~Placed(n) /\ n = Head(work_list) /\ work_list # <<>>
      /\ edges' = edges \ ({n} \X Vertices)
      /\ edges \subseteq Vertices \X Vertices
      /\ \A v \in Vertices : <<v, v>> \notin edges
  <2>1. edges \subseteq graph /\ graph \in Graphs
    BY DEF IInv, TypeOK, InputOK
  <2> QED BY <2>1, PlacingTypes, GraphsAssumption DEF Placing
<1>2. edges \ from = edges'
  BY <1>1
<1>3. \A m \in Vertices : <<n, m>> \in from <=> m \in Successors(n)
  BY <1>1 DEF Successors
<1>4. aims = Ready(n)
  <2>1. {e[2] : e \in from} = Successors(n)
    BY <1>1 DEF Successors
  <2>2. ASSUME NEW m \in Successors(n)
        PROVE  (\A e \in edges' : e[2] # m) <=> ~HasIncoming(edges', m)
    <3>1. m \in Vertices /\ \A e \in edges' : e = <<e[1], e[2]>> /\ e[1] \in Vertices /\ e[1] # e[2]
      BY <1>1 DEF Successors
    <3> QED BY <3>1 DEF HasIncoming
  <2>3. aims = {m \in Successors(n) : \A e \in edges' : e[2] # m}
    <3> HIDE DEF from
    <3> QED BY <1>2, <2>1 DEF Sources
  <2>4. Ready(n) = {m \in Successors(n) : ~HasIncoming(edges', m)}
    BY <1>1 DEF Ready
  <2> HIDE DEF aims, from
  <2> QED BY <2>2, <2>3, <2>4
<1>5. work_list' = Tail(work_list) \o Sorted(aims)
  <2>1. PICK q \in Ascending(Ready(n)) : work_list' = Tail(work_list) \o q
    BY DEF Placing, UpdateSuccessors
  <2>2. Ready(n) \in SUBSET Vertices
    BY DEF Ready, Successors
  <2> HIDE DEF aims
  <2> QED BY <1>4, <2>1, <2>2, SortedIs
<1>6. Links[cant_fuse_with[n]] = Candidate(n)
  <2>1. cant_fuse_with[n] \in 0 .. N
    BY <1>1 DEF IInv, TypeOK
  <2> QED BY <2>1 DEF Links, Candidate
<1>7. Value.group' = [Value.group EXCEPT ![n] = num]
  <2>1. node_num' = [node_num EXCEPT ![n] = num] /\ node_num \in [Vertices -> {-1} \cup Vertices]
    BY DEF Placing, IInv, TypeOK
  <2>2. num # -1
    OBVIOUS
  <2>3. \A v \in Vertices : (IF Placed(v)' THEN node_num'[v] ELSE 0)
                                = IF v = n THEN num ELSE IF Placed(v) THEN node_num[v] ELSE 0
    BY <1>1, <2>1, <2>2 DEF Placed
  <2> QED BY <1>1, <2>3 DEF Value
<1>8. cant_fuse_with' =
          [m \in DOMAIN cant_fuse_with |->
              IF <<n, m>> \notin from THEN cant_fuse_with[m]
              ELSE MaxOf(cant_fuse_with[m],
                         IF types[m] /\ <<n, m>> \in bad THEN num ELSE cant_fuse_with[n])]
  <2>1. cant_fuse_with' = [m \in Vertices |->
                IF m \in Successors(n) THEN Barrier(n, m, num) ELSE cant_fuse_with[m]]
    BY DEF Placing, UpdateSuccessors
  <2>2. DOMAIN cant_fuse_with = Vertices
    BY DEF IInv, TypeOK
  <2>3. \A m \in Vertices : Barrier(n, m, num) =
            MaxOf(cant_fuse_with[m], IF types[m] /\ <<n, m>> \in bad THEN num ELSE cant_fuse_with[n])
    BY DEF Barrier
  <2> HIDE DEF from
  <2> QED BY <1>3, <2>1, <2>2, <2>3
<1>9. Value.work = work_list /\ Value.edges = edges /\ Value.barrier = cant_fuse_with
      /\ Value.next = Links /\ Value.lastfused = lastfused /\ Value.lastnum = lastnum
  BY DEF Value
<1>10. Taken(Value, bad, types) =
          [work |-> Tail(work_list) \o Sorted(aims), edges |-> edges \ from,
           group |-> [Value.group EXCEPT ![n] = num],
           barrier |-> [m \in DOMAIN cant_fuse_with |->
                           IF <<n, m>> \notin from THEN cant_fuse_with[m]
                           ELSE MaxOf(cant_fuse_with[m],
                                      IF types[m] /\ <<n, m>> \in bad THEN num ELSE cant_fuse_with[n])],
           next |-> IF types[n] /\ ~join THEN [Links EXCEPT ![lastfused] = num] ELSE Links,
           lastfused |-> IF types[n] /\ ~join THEN num ELSE lastfused,
           lastnum |-> IF join THEN lastnum ELSE num]
  BY <1>1, <1>6, <1>9 DEF Taken
<1>11. Value' = [work |-> work_list', edges |-> edges', group |-> Value.group',
                 barrier |-> cant_fuse_with', next |-> Links', lastfused |-> lastfused',
                 lastnum |-> lastnum']
  BY DEF Value
<1> HIDE DEF from, aims
<1> QED BY <1>1, <1>2, <1>5, <1>7, <1>8, <1>9, <1>10, <1>11

\* The recursion goes on as the steps do.
LEMMA FollowsOn ==
  ASSUME IInv, Follows, NEW n, NEW num \in 1 .. N, Placing(n, num),
         Value' = Taken(Value, bad, types), Value.work # <<>>
  PROVE  Follows'
<1> DEFINE c == Cardinality(PlacedSet)
<1>1. Cardinality(PlacedSet') = c + 1 /\ c \in Nat /\ c < N /\ N \in Nat
  BY PlacedCount, NAssumption
<1>2. graph' = graph /\ bad' = bad /\ types' = types /\ pc = "loop"
  BY DEF Placing
<1>3. ASSUME NEW h, Computes(h, N, graph, bad, types)
      PROVE  h[Cardinality(PlacedSet')] = Value'
  <2>1. h[c] = Value
    BY <1>2, <1>3 DEF Follows
  <2>2. c + 1 \in 0 .. N /\ c + 1 # 0 /\ c + 1 - 1 = c
    BY <1>1
  <2>3. h[c + 1] = IF h[c].work = <<>> THEN h[c] ELSE Taken(h[c], bad, types)
    <3> DEFINE Then(x) == IF x.work = <<>> THEN x ELSE Taken(x, bad, types)
    <3>1. h = [k \in 0 .. N |-> IF k = 0 THEN Begun(N, graph) ELSE Then(h[k - 1])]
      BY <1>3 DEF Computes
    <3> HIDE DEF Then
    <3>2. \A k \in 0 .. N : h[k] = IF k = 0 THEN Begun(N, graph) ELSE Then(h[k - 1])
      BY <3>1
    <3>3. \A k \in 0 .. N : k # 0 => h[k] = Then(h[k - 1])
      BY <3>2
    <3>4. h[c + 1] = Then(h[c])
      <4> DEFINE d == c + 1
      <4>0. \A i \in Nat : i < N => i + 1 \in 0 .. N /\ i + 1 # 0 /\ (i + 1) - 1 = i
        BY <1>1
      <4>1. d \in 0 .. N /\ d # 0 /\ d - 1 = c
        <5>1. c \in Nat /\ c < N
          BY <1>1
        <5> HIDE DEF c
        <5> QED BY <4>0, <5>1
      <4> HIDE DEF d
      <4>2. h[d] = Then(h[d - 1])
        BY <3>3, <4>1
      <4> QED BY <4>1, <4>2 DEF d
    <3> QED BY <3>4 DEF Then
  <2> HIDE DEF c
  <2> QED BY <1>1, <2>1, <2>3
<1>4. \A h : Computes(h, N, graph, bad, types)' <=> Computes(h, N, graph, bad, types)
  BY <1>2 DEF Computes
<1>5. Cardinality(PlacedSet)' = Cardinality(PlacedSet')
  OBVIOUS
<1> QED BY <1>3, <1>4, <1>5 DEF Follows

LEMMA JoinFollows ==
  ASSUME IInv, PendingOK, Follows, Join
  PROVE  PendingOK' /\ Follows'
<1> DEFINE n == Head(work_list)
           p == Candidate(n)
           num == node_num[node_to_fused_nodes[p]]
<1>1. Placing(n, num) /\ types[n] /\ p # 0 /\ UNCHANGED lists
  BY DEF Join, Placing
<1>2. n \in Vertices
  BY <1>1, FrontIs DEF Placing, IInv
<1> HIDE DEF n
<1>3. p \in 1 .. lastnum /\ lastnum \in 0 .. N /\ N \in Nat
  BY <1>1, <1>2, CandidateIs, NAssumption DEF IInv, GroupsOK
<1>4. num = p
  BY <1>3 DEF IInv, GroupsOK
<1> HIDE DEF num
<1>5. num \in 1 .. N
  BY <1>3, <1>4
<1>6. lastnum' = lastnum /\ lastfused' = lastfused /\ Links' = Links
  BY <1>1 DEF lists, Links
<1>7. Value' = Taken(Value, bad, types) /\ Value.work # <<>>
  <2> DEFINE join == types[n] /\ p # 0
  <2>1. join = TRUE
    BY <1>1
  <2> HIDE DEF join, p
  <2>2. TRUE = (types[n] /\ Candidate(n) # 0)
    BY <2>1 DEF join, p
  <2>3. num = IF TRUE THEN Candidate(n) ELSE lastnum + 1
    BY <1>4 DEF p
  <2> QED BY <1>1, <1>5, <1>6, <2>2, <2>3, PlacingTaken
<1> QED BY <1>1, <1>5, <1>7, PlacingPending, FollowsOn

LEMMA BeginFollows ==
  ASSUME IInv, PendingOK, Follows, Begin
  PROVE  PendingOK' /\ Follows'
<1> DEFINE n == Head(work_list)
           num == lastnum + 1
<1>1. NewGroup(n) /\ types[n] /\ Candidate(n) = 0
  BY DEF Begin, NewGroup, Placing
<1>2. /\ next' = IF lastfused = 0 THEN next ELSE [next EXCEPT ![lastfused] = num]
      /\ fused' = IF lastfused = 0 THEN num ELSE fused
      /\ lastfused' = num /\ lastnum' = num
  BY DEF Begin
<1> HIDE DEF n
<1>3. num \in 1 .. N /\ Placing(n, num)
  BY <1>1, NewGroupInv DEF NewGroup
<1>4. Links' = [Links EXCEPT ![lastfused] = num]
  <2>1. next \in [Vertices -> 0 .. N] /\ lastfused \in 0 .. lastnum /\ lastnum \in 0 .. N
        /\ Vertices = 1 .. N /\ N \in Nat
    BY NAssumption DEF IInv, LinksOK, GroupsOK, Vertices
  <2>2. \A k \in 0 .. N : (IF k = 0 THEN fused' ELSE next'[k])
                             = IF k = lastfused THEN num ELSE IF k = 0 THEN fused ELSE next[k]
    <3>1. CASE lastfused = 0
      BY <1>2, <3>1
    <3>2. CASE lastfused # 0
      <4>1. lastfused \in Vertices
        BY <2>1, <3>2
      <4>2. next' = [next EXCEPT ![lastfused] = num] /\ fused' = fused
        BY <1>2, <3>2
      <4>3. \A k \in 0 .. N : k # 0 => k \in Vertices
        BY <2>1
      <4> QED BY <2>1, <3>2, <4>1, <4>2, <4>3
    <3> QED BY <3>1, <3>2
  <2>3. lastfused \in 0 .. N
    BY <2>1, NAssumption
  <2> HIDE DEF num
  <2> QED BY <2>2, <2>3 DEF Links
<1> HIDE DEF num
<1>5. Value' = Taken(Value, bad, types) /\ Value.work # <<>>
  <2>1. FALSE = (types[n] /\ Candidate(n) # 0)
    BY <1>1
  <2>2. num = IF FALSE THEN Candidate(n) ELSE lastnum + 1
    BY DEF num
  <2> QED BY <1>1, <1>2, <1>3, <1>4, <2>1, <2>2, PlacingTaken
<1> QED BY <1>3, <1>5, PlacingPending, FollowsOn

LEMMA AloneFollows ==
  ASSUME IInv, PendingOK, Follows, Alone
  PROVE  PendingOK' /\ Follows'
<1> DEFINE n == Head(work_list)
           num == lastnum + 1
<1>1. NewGroup(n) /\ ~types[n] /\ UNCHANGED <<next, fused, lastfused>> /\ lastnum' = num
  BY DEF Alone, NewGroup, Placing
<1> HIDE DEF n
<1>2. num \in 1 .. N /\ Placing(n, num)
  BY <1>1, NewGroupInv DEF NewGroup
<1>3. Links' = Links
  BY <1>1 DEF Links
<1>4. Value' = Taken(Value, bad, types) /\ Value.work # <<>>
  <2>1. FALSE = (types[n] /\ Candidate(n) # 0)
    BY <1>1
  <2>2. num = IF FALSE THEN Candidate(n) ELSE lastnum + 1
    OBVIOUS
  <2> HIDE DEF num
  <2> QED BY <1>1, <1>2, <1>3, <2>1, <2>2, PlacingTaken
<1> QED BY <1>2, <1>4, PlacingPending, FollowsOn

\* The roots are what the recursion begins with; a graph with a cycle is refused.
LEMMA RootsFollow ==
  ASSUME IInv, Fresh, PendingOK, Roots
  PROVE  PendingOK' /\ Follows'
<1>1. /\ UNCHANGED <<graph, bad, types, edges, cant_fuse_with, node_num, lists>>
      /\ pc = "roots" /\ pc' \in {"loop", "raised"}
      /\ HasCycle(edges) => pc' = "raised"
  BY DEF Roots
<1> DEFINE S == {n \in Vertices : ~HasIncoming(edges, n)}
<1>2. PICK q \in Ascending(S) : work_list' = q
  BY DEF Roots
<1>3. S \in SUBSET Vertices
  OBVIOUS
<1>4. \A n \in Vertices : ~Placed(n) /\ ~Placed(n)'
  BY <1>1 DEF IInv, InputOK, Placed
<1>5. edges \subseteq Vertices \X Vertices /\ \A v \in Vertices : <<v, v>> \notin edges
  <2>1. edges \subseteq graph /\ graph \in Graphs
    BY DEF IInv, TypeOK, InputOK
  <2> QED BY <2>1, GraphsAssumption
<1>6. edges = graph
  BY <1>1 DEF Fresh
<1>7. PendingOK'
  <2>1. \A m \in S : \E i \in DOMAIN work_list' : work_list'[i] = m
    <3> HIDE DEF S
    <3> QED BY <1>2, <1>3, AscendingIsOnto
  <2>2. \A m \in Vertices : HasIncoming(edges, m)' = HasIncoming(edges, m)
    BY <1>1 DEF HasIncoming
  <2>3. HasCycle(graph)' = HasCycle(graph)
    BY <1>1 DEF HasCycle
  <2>4. pc' = "loop" => ~HasCycle(graph)
    BY <1>1, <1>6
  <2> QED BY <1>1, <1>4, <2>1, <2>2, <2>3, <2>4 DEF PendingOK
<1>8. Sources(graph, 1 .. N) = S
  <2>1. ASSUME NEW m \in Vertices PROVE (\A e \in edges : e[2] # m) <=> ~HasIncoming(edges, m)
    <3>1. \A e \in edges : e = <<e[1], e[2]>> /\ e[1] \in Vertices /\ e[1] # e[2]
      BY <1>5
    <3> QED BY <3>1 DEF HasIncoming
  <2> QED BY <1>6, <2>1 DEF Sources, Vertices
<1>9. Sorted(S) = work_list'
  <2> HIDE DEF S
  <2> QED BY <1>2, <1>3, SortedIs
<1>10. Value' = Begun(N, graph)
  <2>1. /\ cant_fuse_with' = [v \in 1 .. N |-> 0] /\ lastfused' = 0 /\ lastnum' = 0
        /\ next' = [k \in Vertices |-> 0] /\ fused' = 0 /\ edges' = graph
    BY <1>1 DEF Fresh, lists, Vertices
  <2>2. Links' = [k \in 0 .. N |-> 0]
    <3>1. \A k \in 0 .. N : k # 0 => k \in Vertices
      BY NAssumption DEF Vertices
    <3> QED BY <2>1, <3>1 DEF Links
  <2>3. [v \in Vertices |-> IF Placed(v)' THEN node_num'[v] ELSE 0] = [v \in 1 .. N |-> 0]
    BY <1>4 DEF Vertices
  <2>4. Value' = [work |-> work_list', edges |-> edges',
                  group |-> [v \in Vertices |-> IF Placed(v)' THEN node_num'[v] ELSE 0],
                  barrier |-> cant_fuse_with', next |-> Links', lastfused |-> lastfused',
                  lastnum |-> lastnum']
    BY DEF Value
  <2> HIDE DEF S
  <2> QED BY <1>8, <1>9, <2>1, <2>2, <2>3, <2>4 DEF Begun
<1>11. Cardinality(PlacedSet)' = 0
  <2>1. PlacedSet' = {}
    BY <1>4 DEF PlacedSet
  <2> QED BY <2>1, FS_EmptySet
<1>12. ASSUME NEW h, Computes(h, N, graph, bad, types)' PROVE h[Cardinality(PlacedSet)'] = Value'
  <2>1. 0 \in 0 .. N
    BY NAssumption
  <2>2. h[0] = Begun(N, graph')
    BY <1>12, <2>1 DEF Computes
  <2> QED BY <1>1, <1>10, <1>11, <2>2
<1>13. Follows'
  BY <1>12 DEF Follows
<1> QED BY <1>7, <1>13

\* When the work list is empty every vertex has its group: those without one would be
\* led to by others without one, and there is no cycle.
LEMMA NoneLeft ==
  ASSUME CInv, PendingOK, pc = "done"
  PROVE  \A n \in Vertices : Placed(n)
<1> DEFINE S == {n \in Vertices : ~Placed(n)}
<1>1. work_list = <<>> /\ ~HasCycle(graph) /\ edges \subseteq graph
  BY DEF PendingOK, CInv, IInv, TypeOK
<1>2. ASSUME NEW v \in S PROVE \E u \in S : <<u, v>> \in graph
  <2>1. ~\E i \in DOMAIN work_list : work_list[i] = v
    BY <1>1
  <2>2. HasIncoming(edges, v)
    BY <2>1 DEF PendingOK
  <2>3. PICK u \in Vertices : <<u, v>> \in edges
    BY <2>2 DEF HasIncoming
  <2> QED BY <1>1, <2>3 DEF PendingOK
<1>3. S \in SUBSET Vertices
  OBVIOUS
<1> HIDE DEF S
<1>4. S = {}
  BY <1>1, <1>2, <1>3 DEF HasCycle
<1> QED BY <1>4 DEF S

LEMMA ResultInit == Init => Fresh /\ PendingOK /\ Follows
<1> SUFFICES ASSUME Init PROVE Fresh /\ PendingOK /\ Follows
  OBVIOUS
<1>1. pc = "roots" /\ \A n \in Vertices : ~Placed(n)
  BY DEF Init, Placed
<1> QED BY <1>1 DEF Init, Fresh, PendingOK, Follows

LEMMA ResultStep == RInv /\ [Next]_vars => RInv'
<1> SUFFICES ASSUME RInv, [Next]_vars PROVE RInv'
  OBVIOUS
<1>1. CInv /\ IInv /\ Fresh /\ PendingOK /\ Follows
  BY DEF RInv, CInv
<1>2. CInv'
  BY <1>1, StepInv
<1>3. CASE Roots
  <2>1. Fresh'
    BY <1>3 DEF Roots, Fresh
  <2> QED BY <1>1, <1>2, <1>3, <2>1, RootsFollow DEF RInv
<1>4. ASSUME Join \/ Begin \/ Alone PROVE Fresh'
  <2>1. pc = "loop"
    BY <1>4 DEF Join, Begin, Alone
  <2>2. pc' # "roots"
    BY <1>4, <2>1 DEF Join, Begin, Alone, UpdateSuccessors
  <2> QED BY <2>2 DEF Fresh
<1>5. CASE Join
  BY <1>1, <1>2, <1>4, <1>5, JoinFollows DEF RInv
<1>6. CASE Begin
  BY <1>1, <1>2, <1>4, <1>6, BeginFollows DEF RInv
<1>7. CASE Alone
  BY <1>1, <1>2, <1>4, <1>7, AloneFollows DEF RInv
<1>8. CASE Return \/ UNCHANGED vars
  <2>1. /\ UNCHANGED <<graph, bad, types, edges, work_list, cant_fuse_with, node_num, lists>>
        /\ pc' = pc \/ (pc = "loop" /\ pc' = "done" /\ work_list = <<>>)
    BY <1>8 DEF Return, vars
  <2>2. Fresh'
    BY <1>1, <2>1 DEF Fresh, lists
  <2>3. PendingOK'
    BY <1>1, <2>1 DEF PendingOK, HasCycle, HasIncoming, Placed
  <2>4. Value' = Value /\ PlacedSet' = PlacedSet
    BY <2>1 DEF Value, Links, lists, PlacedSet, Placed
  <2>5. Cardinality(PlacedSet)' = Cardinality(PlacedSet)
    BY <2>4
  <2>6. Follows'
    BY <1>1, <2>1, <2>4, <2>5 DEF Follows, Computes
  <2> QED BY <1>2, <2>2, <2>3, <2>6 DEF RInv
<1> QED BY <1>3, <1>5, <1>6, <1>7, <1>8 DEF Next

\* The steps of typed_fusion and update_successors end, for every graph that is not
\* refused, with the groups that the function typed_fusion gives: what
\* LoopTransformations uses as a value is what the loop of loop.cc computes.
THEOREM GivesTypedFusion == Spec => []StepsGiveResult
<1>1. ASSUME RInv PROVE StepsGiveResult
  <2> SUFFICES ASSUME pc = "done" PROVE node_num = typed_fusion(N, graph, bad, types)
    BY DEF StepsGiveResult
  <2> DEFINE h == CHOOSE f : Computes(f, N, graph, bad, types)
  <2>1. Computes(h, N, graph, bad, types)
    <3>1. \E f : Computes(f, N, graph, bad, types)
      BY NAssumption, ComputesExists
    <3> QED BY <3>1
  <2>2. typed_fusion(N, graph, bad, types) = h[N].group
    BY DEF typed_fusion, Computes
  <2> HIDE DEF h
  <2>3. \A n \in Vertices : Placed(n)
    BY <1>1, NoneLeft DEF RInv
  <2>4. Cardinality(PlacedSet) = N
    <3>1. PlacedSet = Vertices
      BY <2>3 DEF PlacedSet
    <3> QED BY <3>1, VerticesFinite
  <2>5. h[N] = Value
    BY <1>1, <2>1, <2>4 DEF RInv, Follows
  <2>6. Value.group = [v \in Vertices |-> node_num[v]]
    BY <2>3 DEF Value
  <2>7. node_num = [v \in Vertices |-> node_num[v]]
    BY <1>1 DEF RInv, CInv, IInv, TypeOK
  <2> QED BY <2>2, <2>5, <2>6, <2>7
<1>2. Init => RInv
  BY InitInv, ResultInit DEF RInv
<1> QED BY <1>1, <1>2, ResultStep, PTL DEF Spec
=============================================================================
