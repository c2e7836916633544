----------------------------- MODULE MCJobQueue -----------------------------
(* Constants for model-checking JobQueue.                                   *)
EXTENDS JobQueue

CONSTANTS d1, j1, j2, plain, capable, r1

OneDevice == {d1}
TwoJobs == {j1, j2}
Inventories == {plain, capable}
Capable == {capable}
OneRequest == {r1}
=============================================================================
