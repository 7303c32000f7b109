-------------------------- MODULE MCInferenceLanes --------------------------
(* Interchangeable calls for model-checking InferenceLanes.                *)
EXTENDS InferenceLanes, TLC

CONSTANTS c1, c2

Symmetry == Permutations({c1, c2})
=============================================================================
