------------------------- MODULE MCCaseProceedings -------------------------
(* Instances of CaseProceedings for TLC. *)
EXTENDS CaseProceedings, TLC

CONSTANTS c1, c2, r1, r2

Symmetry == Permutations(Charges) \cup Permutations(Requests)
=============================================================================
