------------------------------ MODULE MCLoops ------------------------------
(***************************************************************************)
(* What CHiLL does to loops, for TLC: a script (LoopTransformations), and  *)
(* next to it, as a part that shares no variable with it, the steps of the *)
(* fusion whose result the script's commands use (TypedFusion).  Covered   *)
(* is checked of both, so the other part has a program without statements. *)
(***************************************************************************)
EXTENDS TypedFusion, DependenceGraph

CONSTANTS Programs, Amounts    \* LoopTransformations

-----------------------------------------------------------------------------
(***************************************************************************)
(* Every acyclic graph of four vertices that may be fused, and every graph *)
(* of three, of any types.                                                 *)
(***************************************************************************)
RECURSIVE Peeled(_, _)
\* What is left of the vertices vs when those without incoming edges are removed.
Peeled(es, vs) ==
    LET free == {v \in vs : ~\E u \in vs : <<u, v>> \in es}
    IN  IF free = {} THEN vs ELSE Peeled(es, vs \ free)

AnyGraph == SUBSET {e \in Vertices \X Vertices : e[1] # e[2]}
Acyclic == {es \in AnyGraph : Peeled(es, Vertices) = {}}

\* The graphs of the first three vertices, with a fourth that no edge touches.
Small(es) == \A e \in es : e[1] <= 3 /\ e[2] <= 3
MCGraphs == Acyclic \cup {es \in AnyGraph : Small(es)}

\* setLexicalOrder calls typed_fusion with every type true, fuse with any.
MCTypes(es) == IF Small(es) THEN [Vertices -> BOOLEAN] ELSE {[n \in Vertices |-> TRUE]}

-----------------------------------------------------------------------------
VARIABLE part    \* "fusion" or "script"

scriptvars == <<program, lin, off, lex, dep, steps, raised>>

Script == INSTANCE LoopTransformations

\* The scripts, as the MC module defines them, whatever the programs are.
Scripts0 == INSTANCE MCLoopTransformations WITH Programs <- {}, Amounts <- {}
MCPrograms == Scripts0!MCPrograms
MCAmounts == Scripts0!MCAmounts

ASSUME ProgramsAssumption == Script!ProgramsFit /\ Script!ProgramsInTextOrder /\ Amounts \subseteq Int

\* typed_fusion when it has returned for a graph without edges.
Finished ==
    /\ graph = {} /\ bad = {} /\ edges = {} /\ work_list = <<>> /\ pc = "done"
    /\ types = [n \in Vertices |-> TRUE]
    /\ cant_fuse_with = [n \in Vertices |-> 0]
    /\ node_num = [n \in Vertices |-> 1]
    /\ node_to_fused_nodes = [k \in Vertices |-> IF k = 1 THEN 1 ELSE 0]
    /\ next = [k \in Vertices |-> 0]
    /\ fused = 1 /\ lastfused = 1 /\ lastnum = 1

\* No statements, and a script of two commands that has ended.
NoScript == /\ program = [loops |-> <<>>, conflicts |-> {}, script |-> [selections |-> {}]]
            /\ lin = <<>> /\ off = <<>> /\ lex = <<>> /\ dep = {} /\ steps = 2 /\ raised = TRUE

MCInit ==
    \/ part = "fusion" /\ Init /\ NoScript
    \/ part = "script" /\ Finished /\ Script!Init

Fusing == part = "fusion" /\ Next /\ UNCHANGED <<part, scriptvars>>
Transforming == part = "script" /\ Script!Next /\ UNCHANGED <<part, vars>>
MCNext == Fusing \/ Transforming

MCSpec == MCInit /\ [][MCNext]_<<part, vars, scriptvars>> /\ WF_vars(Next)

-----------------------------------------------------------------------------
\* The program, its loops and its graph stay what LoopTransformations says they are.
ScriptTypeOK == part = "script" => Script!TypeOK
=============================================================================
