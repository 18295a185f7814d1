-------------------------- MODULE MCOutboxTransport --------------------------
(* An instance of OutboxTransport for TLC.                                 *)
EXTENDS OutboxTransport, TLC

CONSTANTS a1, a2, h1, h2

Symmetry == Permutations(Attempts) \cup Permutations(Handlers)
==============================================================================
