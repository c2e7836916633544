---------------------------- MODULE MCCredentials ----------------------------
(* Constants for model-checking Credentials.                                *)
EXTENDS Credentials, TLC

CONSTANTS c1, c2, c3, c4, t1, t2

FourIds == {c1, c2, c3, c4}
TwoThreads == {t1, t2}
SomeLifetimes == {3}

Symmetry == Permutations(FourIds) \cup Permutations(TwoThreads)
=============================================================================
