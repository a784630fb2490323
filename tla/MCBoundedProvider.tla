-------------------------- MODULE MCBoundedProvider --------------------------
(* Model-checking instances of BoundedProvider: calls are interchangeable   *)
(* model values, so the safety runs may permute them.                       *)
EXTENDS BoundedProvider, TLC

CallSymmetry == Permutations(Reqs)
=============================================================================
