------------------------------- MODULE MCAiCalls -------------------------------
(***************************************************************************)
(* Instances of AiCalls for TLC.                                           *)
(***************************************************************************)
EXTENDS AiProperties, TLC

Symmetry == Permutations(Callers)

===============================================================================
