------------------------ MODULE FunctionCallInliner ------------------------
(***************************************************************************)
(* FunctionCallInliner of src/pyomega/passes.py: the calls of one function *)
(* in another are replaced by the statements of the first.                 *)
(*                                                                         *)
(* A block of statements is a Python list, an object that several fields   *)
(* may name: lists maps its identity to its statements, and new_block and  *)
(* arg_names are the fields of the pass.  The rest of a statement is its   *)
(* kind, the variable it sets and the variables it uses.                   *)
(***************************************************************************)
EXTENDS Integers, SequencesExt

CONSTANTS Names,      \* variables of both functions
          Params,     \* the parameters of the inlined function, a sequence
          Callers,    \* bodies of the calling function
          Inlined,    \* bodies of the inlined function
          Fuel        \* bound on the statements a run of a body executes

None == ""
Assign(x, uses) == [kind |-> "assign", target |-> x, names |-> uses, block |-> <<>>]
Return(uses) == [kind |-> "return", target |-> None, names |-> uses, block |-> <<>>]
ReturnName(x) == [kind |-> "returnname", target |-> None, names |-> <<x>>, block |-> <<>>]
ReturnCall(args) == [kind |-> "returncall", target |-> None, names |-> args, block |-> <<>>]
AssignCall(x, args) == [kind |-> "assigncall", target |-> x, names |-> args, block |-> <<>>]
With(block) == [kind |-> "with", target |-> None, names |-> <<>>, block |-> block]

IsCall(s) == s.kind \in {"returncall", "assigncall"}
Mentions(s) == Range(s.names) \cup ({s.target} \ {None})

-----------------------------------------------------------------------------
VARIABLES
    caller,     \* the body of the calling function, as given
    callee,     \* the body of the inlined function, as given
    pc,         \* "call", "visit", "done", "raised"
    at,         \* the next statement of the caller
    lists,      \* the list objects made so far
    new_block   \* the list self.new_block names

vars == <<caller, callee, pc, at, lists, new_block>>

Init ==
    /\ caller \in Callers
    /\ callee \in Inlined
    /\ pc = "call"
    /\ at = 1
    /\ lists = <<>>
    /\ new_block = 0

\* What an operation of the pass works on; blocks are named by position in lists.
Pass == [lists |-> lists, new_block |-> new_block, raised |-> FALSE, node |-> Return(<<>>)]

NewBlock(st) == [st EXCEPT !.lists = Append(st.lists, <<>>), !.new_block = Len(st.lists) + 1]
Appended(st) == [st EXCEPT !.lists[st.new_block] = Append(@, st.node)]

\* visit_Name in the statement s while arg_names is args.
Position(x) == CHOOSE p \in DOMAIN Params : Params[p] = x
Bound(x, args) == IF x \in Range(Params) THEN args[Position(x)] ELSE x
Substituted(s, args) ==
    [s EXCEPT !.target = Bound(s.target, args),
              !.names = [i \in DOMAIN s.names |-> Bound(s.names[i], args)]]
OutOfRange(s, args) == \E x \in Mentions(s) \cap Range(Params) : Position(x) > Len(args)

Visited(st, s, args) ==
    IF OutOfRange(s, args) THEN [st EXCEPT !.raised = TRUE]
    ELSE [st EXCEPT !.node = Substituted(s, args)]

\* _process_stmts on the body of the inlined function, whose statements hold no call.
ProcessInlined(st, args) ==
    FoldLeft(LAMBDA s, statement :
                 IF s.raised THEN s
                 ELSE LET v == Visited(s, statement, args) IN IF v.raised THEN v ELSE Appended(v),
             NewBlock(st), callee)

\* visit_Call: the call becomes the last statement of the block it returns.
VisitCall(st, s) ==
    LET p == ProcessInlined(st, s.names)
    IN  IF p.raised THEN p
        ELSE [p EXCEPT !.node = [Last(p.lists[p.new_block]) EXCEPT !.kind = "rewritten"]]

\* generic_visit: the target of an assignment comes before its value.
VisitSimple(st, s) ==
    IF ~IsCall(s) THEN Visited(st, s, <<>>)
    ELSE IF s.target \in Range(Params) THEN [st EXCEPT !.raised = TRUE]
    ELSE VisitCall(st, s)

\* visit_With, visit_If: the block of the node becomes the list that
\* _process_stmts returns, which is the one new_block names at the end.
VisitWith(st, s) ==
    LET p == FoldLeft(LAMBDA q, inner :
                          IF q.raised THEN q
                          ELSE LET v == VisitSimple(q, inner) IN IF v.raised THEN v ELSE Appended(v),
                      NewBlock(st), s.block)
    IN  [p EXCEPT !.node = [With(<<>>) EXCEPT !.block = <<p.new_block>>]]

Visit(st, s) == IF s.kind = "with" THEN VisitWith(st, s) ELSE VisitSimple(st, s)

Update(st) ==
    /\ lists' = st.lists
    /\ new_block' = st.new_block
    /\ pc' = IF st.raised THEN "raised" ELSE pc

\* __call__ up to the loop over the caller's statements.
Call ==
    /\ pc = "call"
    /\ LET st == NewBlock(Pass) IN lists' = st.lists /\ new_block' = st.new_block
    /\ pc' = "visit"
    /\ UNCHANGED <<caller, callee, at>>

VisitStatement ==
    /\ pc = "visit"
    /\ at <= Len(caller)
    /\ LET st == Visit(Pass, caller[at]) IN Update(IF st.raised THEN st ELSE Appended(st))
    /\ at' = at + 1
    /\ UNCHANGED <<caller, callee>>

\* The end of visit_FunctionDef: the last statement is dropped.
PopReturn ==
    /\ pc = "visit"
    /\ at > Len(caller)
    /\ lists' = [lists EXCEPT ![new_block] = Front(@)]
    /\ pc' = "done"
    /\ UNCHANGED <<caller, callee, at, new_block>>

Next == Call \/ VisitStatement \/ PopReturn

Spec == Init /\ [][Next]_vars

-----------------------------------------------------------------------------
(***************************************************************************)
(* What a body computes.  A run is the value of each variable, the value   *)
(* returned (None at first) and the fuel left; a value is a term over the  *)
(* initial values of the variables.                                        *)
(***************************************************************************)
Initially == [x \in Names |-> <<"var", x, <<>>>>]
Nothing == <<"nothing", "", <<>>>>
Run(val) == [val |-> val, result |-> Nothing, fuel |-> Fuel]
Stops(run) == run.result # Nothing \/ run.fuel = 0

Plain(s, run) ==
    IF Stops(run) THEN run
    ELSE LET r == [run EXCEPT !.fuel = @ - 1]
             value == IF s.kind = "returnname" THEN run.val[s.names[1]]
                      ELSE <<"op", "", [i \in DOMAIN s.names |-> run.val[s.names[i]]]>>
         IN  IF s.kind = "assign" THEN [r EXCEPT !.val[s.target] = value]
             ELSE [r EXCEPT !.result = value]

\* A call by value: the parameters take the values of the arguments, and the
\* variables of the inlined function are its own.
ValueOfCall(args, val) ==
    FoldLeft(LAMBDA run, s : Plain(s, run),
             Run([x \in Names |-> IF x \in Range(Params) THEN val[args[Position(x)]] ELSE Nothing]),
             callee).result

Step(s, run) ==
    IF Stops(run) THEN run
    ELSE CASE s.kind = "assigncall" -> [run EXCEPT !.val[s.target] = ValueOfCall(s.names, run.val)]
           [] s.kind = "returncall" -> [run EXCEPT !.result = ValueOfCall(s.names, run.val)]
           [] OTHER -> Plain(s, run)

Meant ==
    FoldLeft(LAMBDA run, s : IF s.kind = "with"
                             THEN FoldLeft(LAMBDA r, t : Step(t, r), run, s.block)
                             ELSE Step(s, run),
             Run(Initially), caller).result

\* What a list of statements does, the blocks in it opened as they are reached; a
\* list that was put into itself runs out of fuel.
Execute(block, run) ==
    LET Advance(m, i) ==
            IF m.todo = <<>> \/ Stops(m.run) THEN m
            ELSE LET s == Head(m.todo)
                 IN  IF s.kind = "with"
                     THEN [run |-> [m.run EXCEPT !.fuel = @ - 1],
                           todo |-> lists[s.block[1]] \o Tail(m.todo)]
                     ELSE [run |-> Plain(s, m.run), todo |-> Tail(m.todo)]
    IN  FoldLeft(Advance, [run |-> run, todo |-> lists[block]], [i \in 1 .. Fuel |-> i]).run

\* The pass is at a statement of the caller, and writes to a list it made.
TypeOK ==
    /\ at \in 1 .. Len(caller) + 1
    /\ new_block \in 0 .. Len(lists)
    /\ pc # "call" => new_block # 0


=============================================================================
