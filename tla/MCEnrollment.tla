----------------------------- MODULE MCEnrollment -----------------------------
(* Constants for model-checking Enrollment.                                 *)
EXTENDS Enrollment, TLC

CONSTANTS t1, t2, d1, d2, p1, p2, q1, near, far

TwoTokens == {t1, t2}
TwoDevices == {d1, d2}
ThreeAgents == {p1, p2, q1}
TwoHomes == {near, far}
HomeOf == (p1 :> near) @@ (p2 :> near) @@ (q1 :> far)

Symmetry ==
    Permutations(TwoTokens) \cup Permutations(TwoDevices) \cup Permutations({p1, p2})
=============================================================================
