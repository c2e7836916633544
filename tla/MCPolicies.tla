------------------------------ MODULE MCPolicies ------------------------------
(* Constants for model-checking PolicyStore and PolicyEvaluation.  A page   *)
(* shows the verdict of each of its pairs when it is read; pages and        *)
(* verdicts share no state, so in every behaviour one of the two moves and  *)
(* the other stands where it began.                                         *)
EXTENDS PolicyStore, PolicyEvaluation, TLC

CONSTANTS e1, e2

TwoEditors == {e1, e2}

\* Behind, exact, ahead within the tolerance, and beyond it.
Offsets == {-1, 0, 1, 2}

Symmetry == Permutations(TwoEditors)

BothInit == Init /\ EvaluationInit

\* Where the endpoint stands while the store moves.
EvaluationRests == EvaluationInit /\ offset = 0 /\ installed

Either ==
    \/ EvaluationRests /\ Next /\ UNCHANGED evaluation_vars
    \/ Init /\ EvaluationNext /\ UNCHANGED vars

Policies == BothInit /\ [][Either]_<<vars, evaluation_vars>>
=============================================================================
