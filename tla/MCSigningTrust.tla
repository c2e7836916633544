---------------------------- MODULE MCSigningTrust ----------------------------
(* Constants for model-checking SigningTrust with PortalStart.              *)
EXTENDS SigningTrust, TLC

CONSTANTS p1, p2, p3, g1, g2, t1, t2, k1, k2

ThreePortals == {p1, p2, p3}
TwoAgents == {g1, g2}
TwoTokens == {t1, t2}
TwoKeys == {k1, k2}
TwoReleases == {2, 3}

Symmetry == Permutations(ThreePortals) \cup Permutations(TwoAgents) \cup Permutations(TwoTokens)
=============================================================================
