------------------------ MODULE MCKaleidoscopeSession ------------------------
(* Instance of KaleidoscopeSession for TLC: bodies of at most MaxOperands       *)
(* operands, parameter lists of at most one parameter.                          *)
EXTENDS KaleidoscopeSession, FiniteSetsExt, TLC

CONSTANTS MaxOperands

MCParamLists == { <<>>, <<"x">> }

FunctionSymmetry == Permutations(Names \ Host)

Operands == { Variable("x") } \cup { Call(f, n) : f \in Names, n \in 0..1 }

MCBodies == UNION { kSubset(k, Operands) : k \in 0..MaxOperands }
=============================================================================
