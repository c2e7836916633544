--------------------------- MODULE MCPackageWorker ---------------------------
(* Constants for model-checking PackageWorker.                              *)
EXTENDS PackageWorker, TLC

CONSTANTS w1, w2, j1, j2, base, upgraded, broken

TwoWorkers == {w1, w2}
TwoJobs == {j1, j2}
Hosts == {base, upgraded, broken}

\* An upgrade, and the plan that undoes it.
Bases == (j1 :> base) @@ (j2 :> upgraded)
Targets == (j1 :> upgraded) @@ (j2 :> base)
Leases == (j1 :> 1) @@ (j2 :> 2)

\* A policy that permits one change or both, trust that is pinned or is not.
SomePolicies == {{j1}, TwoJobs}
SomeTrusts == {{}, TwoJobs}

Symmetry == Permutations(TwoWorkers)
=============================================================================
