--------------------------- MODULE MCDataOperations ---------------------------
(* Constants for model-checking DataOperations.                             *)
EXTENDS DataOperations, TLC

CONSTANTS j1, j2, j3, j4

FourJobs == {j1, j2, j3, j4}

Symmetry == Permutations(FourJobs)
=============================================================================
