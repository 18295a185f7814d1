---------------------------- MODULE MCGovernedNonce ----------------------------
(* Instances of GovernedNonce for TLC.                                     *)
EXTENDS GovernedNonce, TLC

SameAllowance == [p \in Procs |-> 0]

\* Processes and requests are interchangeable.
Symmetry == Permutations(Procs) \cup Permutations(Reqs)

=============================================================================
