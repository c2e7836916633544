-------------------------- MODULE MCReceiptJournal --------------------------
(* Constants for model-checking ReceiptJournal.                             *)
EXTENDS ReceiptJournal, TLC

CONSTANTS j1, j2, x, y

Jobs == {j1, j2}
Digests == {x, y}

Symmetry == Permutations(Jobs)
=============================================================================
