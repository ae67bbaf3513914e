-------------------------- MODULE MCFunctionSymbols ---------------------------
(* Instances of FunctionSymbols small enough for TLC.                      *)
EXTENDS FunctionSymbols, TLC

MCArity == [f \in Function |-> 1]

MCSymmetry == Permutations(Handle)
===============================================================================
