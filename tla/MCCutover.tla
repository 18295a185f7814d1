------------------------------ MODULE MCCutover ------------------------------
(* An instance of Cutover for TLC.                                         *)
EXTENDS Cutover

CONSTANTS a, b, c, m1, m2, m3
==============================================================================
