----------------------------- MODULE MCAdmission -----------------------------
(* An instance of Admission for TLC.                                       *)
EXTENDS Admission, TLC

CONSTANTS p1, p2

Symmetry == Permutations(Procs)
==============================================================================
