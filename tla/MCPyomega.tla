----------------------------- MODULE MCPyomega -----------------------------
(***************************************************************************)
(* The parts that a relation and its computations go through in pyomega,   *)
(* for TLC: the parser, the inlining pass, the C generator, the binding of *)
(* the Omega library, the library's polyhedra scanner and its solver, and  *)
(* a dependence whose loops CHiLL permutes.  They hand each other finished *)
(* values and share no state, so a behaviour is a behaviour of one of      *)
(* them; the variables of the others are None, and those of the parser and *)
(* of the dependence, whose properties are checked under the names that    *)
(* the proofs give them, hold nothing to be parsed and a distance of zero. *)
(***************************************************************************)
EXTENDS RelParser, DependentIterations, Functions

CONSTANTS
    Names, Params, Callers, Inlined, Fuel,        \* FunctionCallInliner
    Iterators, Letters, Constraints, Computations,  \* CodeGenerator
    Order, Inside, Ends, Calls,                   \* OmegaLib
    Levels, Nests, Symbols, Iterations,           \* LoopTrees
    Problems, Coordinates                         \* OmegaTest

VARIABLES
    part,   \* the part whose behaviour this is
    at,
    caller, callee, lists, new_block,
    constraints, computations, fields, accesses, constants, macros, schedules, params,
    calls, ufuncs_, iterators_, call, local, symlist, givens, newmap,
    nest, remap, projected_IS, cgr,
    problem, asked, stack, ret, outer,
    refused

Inliner == INSTANCE FunctionCallInliner
Generator == INSTANCE CodeGenerator
Binding == INSTANCE OmegaLib
Scanner == INSTANCE LoopTrees
Solver == INSTANCE OmegaTest
Dependence == INSTANCE Dependences WITH raised <- refused

\* The inputs, as the MC modules of the parts define them, whatever the constants are.
Functions0 == INSTANCE MCFunctionCallInliner
              WITH Names <- {}, Params <- <<>>, Callers <- {}, Inlined <- {}, Fuel <- 0
Sources0 == INSTANCE MCCodeGenerator
            WITH Iterators <- <<>>, Letters <- <<>>, Constraints <- {}, Computations <- {}
Objects0 == INSTANCE MCOmegaLib
            WITH Order <- <<>>, Inside <- {}, Ends <- {}, Calls <- {}
Trees0 == INSTANCE MCLoopTrees
          WITH Levels <- 2, Nests <- {}, Symbols <- {}, Iterations <- {}
Problems0 == INSTANCE MCOmegaTest WITH Problems <- {}, Coordinates <- <<>>

MCNames == Functions0!MCNames
MCParams == Functions0!MCParams
MCCallers == Functions0!MCReturns
MCInlined == Functions0!MCLocalInlined
MCIterators == Sources0!MCIterators
MCLetters == Sources0!MCLetters
MCConstraints == Sources0!MCConstraints
MCComputations == Sources0!MCComputations
MCOrder == Objects0!MCOrder
MCInside == Objects0!MCInside
MCEnds == Objects0!MCEnds
MCCalls == Objects0!MCCalls
MCNests == Trees0!MCNests
MCSymbols == Trees0!MCSymbols
MCIterations == Trees0!MCIterations
MCProblems == Problems0!MCProblems
MCCoordinates == Problems0!MCCoordinates

ASSUME BoundsAssumption == MaxConstraints \in Nat \ {0} /\ MaxComparisons \in Nat \ {0} /\ AnyShape \in BOOLEAN
ASSUME ParamsAssumption == Range(Params) \subseteq Names /\ IsInjective(Params) /\ Fuel \in Nat
ASSUME IteratorsAssumption == IsInjective(Iterators) /\ Range(Iterators) \subseteq DOMAIN Letters
ASSUME OrderAssumption == IsInjective(Order) /\ Ends \subseteq Inside
ASSUME LevelsAssumption == Levels \in Nat \ {0} /\ Symbols \subseteq Int /\ Iterations \subseteq Int

NoAt == at = None
NoText == text = None /\ n = 0 /\ heap = None /\ relation = 0 /\ relations = None
NoPass == caller = None /\ callee = None /\ lists = None /\ new_block = None
NoC == /\ constraints = None /\ computations = None /\ fields = None /\ accesses = None
       /\ constants = None /\ macros = None /\ schedules = None /\ params = None
NoCalls == /\ calls = None /\ ufuncs_ = None /\ iterators_ = None /\ call = None /\ local = None
           /\ symlist = None /\ givens = None /\ newmap = None
NoTree == nest = None /\ remap = None /\ projected_IS = None /\ cgr = None
NoProblem == problem = None /\ asked = None /\ stack = None /\ ret = None /\ outer = None
Still == [i \in Dims |-> 0]
NoVector == vector = [lbounds |-> Still, ubounds |-> Still, quasi |-> FALSE] /\ distance = Still /\ refused = None

PartInit ==
    \/ part = "parser" /\ Init /\ NoAt /\ NoPass /\ NoC /\ NoCalls /\ NoTree /\ NoProblem /\ NoVector
    \/ part = "inliner" /\ Inliner!Init /\ NoText /\ NoC /\ NoCalls /\ NoTree /\ NoProblem /\ NoVector
    \/ part = "generator" /\ Generator!Init /\ NoText /\ NoPass /\ NoCalls /\ NoTree /\ NoProblem /\ NoVector
    \/ part = "binding" /\ Binding!Init /\ NoText /\ NoPass /\ NoC /\ NoTree /\ NoProblem /\ NoVector
    \/ part = "scanner" /\ Scanner!Init /\ NoAt /\ NoText /\ NoPass /\ NoC /\ NoCalls /\ NoProblem /\ NoVector
    \/ /\ pc = "none" /\ NoAt /\ NoText /\ NoPass /\ NoC /\ NoCalls /\ NoTree
       /\ \/ part = "solver" /\ Solver!Init /\ NoVector
          \/ part = "dependence" /\ Dependence!Init /\ NoProblem

textvars == <<text, n, heap, relation, relations>>
passvars == <<caller, callee, lists, new_block>>
cvars == <<constraints, computations, fields, accesses, constants, macros, schedules, params>>
callvars == <<calls, ufuncs_, iterators_, call, local, symlist, givens, newmap>>
treevars == <<nest, remap, projected_IS, cgr>>
solvervars == <<problem, asked, stack, ret, outer>>
vectorvars == <<vector, distance, refused>>
library == <<solvervars, vectorvars>>

Parse == part = "parser" /\ Next /\ UNCHANGED <<part, at, passvars, cvars, callvars, treevars, library>>
Inline == part = "inliner" /\ Inliner!Next /\ UNCHANGED <<part, textvars, cvars, callvars, treevars, library>>
Generate == part = "generator" /\ Generator!Next /\ UNCHANGED <<part, textvars, passvars, callvars, treevars, library>>
Bind == part = "binding" /\ Binding!Next /\ UNCHANGED <<part, textvars, passvars, cvars, treevars, library>>
Scan == part = "scanner" /\ Scanner!Next /\ UNCHANGED <<part, at, textvars, passvars, cvars, callvars, library>>

others == <<part, pc, at, textvars, passvars, cvars, callvars, treevars>>
Solve == part = "solver" /\ Solver!Next /\ UNCHANGED <<others, vectorvars>>
Permute == part = "dependence" /\ Dependence!Next /\ UNCHANGED <<others, solvervars>>

PartNext == Parse \/ Inline \/ Generate \/ Bind \/ Scan \/ Solve \/ Permute

\* A call of the solver runs to its end; nothing that is said of the others is about
\* what must happen.
partvars == <<others, library>>
PartSpec == PartInit /\ [][PartNext]_partvars /\ WF_solvervars(Solve)

-----------------------------------------------------------------------------
\* The type invariants of the parts.
PartsTypeOK ==
    /\ part = "parser" => TypeOK
    /\ part = "inliner" => Inliner!TypeOK
    /\ part = "generator" => Generator!TypeOK
    /\ part = "binding" => Binding!TypeOK
    /\ part = "scanner" => Scanner!TypeOK
    /\ part = "solver" => Solver!TypeOK


\* The parameters are the names that the computations use, once, and const exactly if
\* a computation reads them as arrays (CodeGenerator.codegen, CompParser).
ParametersAsUsed == part = "generator" => Generator!ParametersAsUsed

\* A macro has each iterator in parentheses wherever it is used, and nothing else
\* (CodeGenerator.codegen).
IteratorsSubstituted == part = "generator" => Generator!IteratorsSubstituted

\* Every call of a function that reaches the calculator has the first iterators of its
\* relation as arguments (OmegaLib::update_ufuncs).
ArgumentsArePrefix == part = "binding" => Binding!ArgumentsArePrefix

\* Different calls of functions in a relation stay different when they are renamed
\* (OmegaLib::update_relations).
CallsStayDistinct == part = "binding" => Binding!CallsStayDistinct

\* What the generated code takes for granted is about symbols (OmegaLib::isknown).
GivenOfSymbols == part = "binding" => Binding!GivenOfSymbols

\* The macros turn each renamed call back to the one that was given, over several
\* calls of codegen on one object whose relations use the same functions differently
\* (OmegaLib::macros).
MacrosRestore == part = "binding" => Binding!MacrosRestore

\* The scanned code runs every statement in each iteration of its space, once, and in no
\* other (CodeGen::buildAST).
ScansOnce == part = "scanner" => Scanner!ScansOnce

\* The scanned code runs the iterations in lexicographic order (CodeGen::buildAST).
RunsInOrder == part = "scanner" => Scanner!RunsInOrder

\* The Omega test's answer is right, and there is one when more than a refutation was
\* asked for (Problem::solve): no elimination, shadow or splinter loses a solution or
\* makes one up.
SolvesExactly == part = "solver" => Solver!SolvesExactly

\* An equality that is found on the way and added to the problem itself holds in all
\* its solutions (Problem::addingEqualityConstraint).
EqualitiesImplied == part = "solver" => Solver!EqualitiesImplied

\* Every problem is answered (Problem::solve): equalities get smaller until one is
\* solved, variables go one by one and splinters come to an end.
Answers == Solver!Answers
=============================================================================
