----------------------------- MODULE MCPrincipals -----------------------------
(* PrincipalLedger for TLC: its model values are interchangeable.          *)
EXTENDS PrincipalLedger, TLC

Symmetry == Permutations(Keys) \cup Permutations(Agents) \cup Permutations(Nonces)
              \cup Permutations(Contexts) \cup Permutations(Calls)

=============================================================================
