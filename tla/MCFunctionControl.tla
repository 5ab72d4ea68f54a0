------------------------- MODULE MCFunctionControl -------------------------
(* Small instances of FunctionControl. *)
EXTENDS FunctionControl, TLC

CallerSymmetry == Permutations(Callers)
ValueSymmetry == CallerSymmetry \cup Permutations(Orgs) \cup Permutations(Sources)
===========================================================================
