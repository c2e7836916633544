--------------------------- MODULE MCLinuxInstaller ---------------------------
(* Constants for model-checking LinuxInstaller.                             *)
EXTENDS LinuxInstaller, TLC

CONSTANTS r1, r2, r3

ThreeReleases == {r1, r2, r3}

\* Two releases that share a receipt schema, and one that migrates it.
Schemas == (r1 :> 1) @@ (r2 :> 1) @@ (r3 :> 2)

\* Two links left inside releases stand for more.
FewStrays == Cardinality(strays) <= 2

SameSchema == Permutations({r1, r2})
=============================================================================
