----------------------------- MODULE MCPairVerifier -----------------------------
(* Instances of PairVerifier for TLC.                                      *)
EXTENDS PairVerifier, TLC

CONSTANTS p1, p2, p3, n1, n2, n3

Reg(scope, expiresAt, max, kind) ==
  [scope |-> scope, expiresAt |-> expiresAt, maxRequests |-> max, kind |-> kind]

Cred(n, p, ts, m) == [nonce |-> n, pair |-> p, ts |-> ts, method |-> m]

\* Verification: a pair with two uses and a ghost pair that expires; two write requests
\* on the first, which race for its uses, one of which an operator may take away, and a
\* read request on the ghost.  One of them is stamped by a clock that is ahead by the
\* whole window.
VerificationSeeded == (p1 :> Reg("read-write", Never, 2, "legitimate"))
                   @@ (p2 :> Reg("read", 1, 0, "ghost"))
VerificationCredentials ==
  {Cred(n1, p1, 1, "POST"), Cred(n2, p1, 0, "POST"), Cred(n3, p2, 0, "GET")}

\* Lifecycle: a pair with one use left, a write request on it that may be sent
\* twice, and a registration that is pending.
LifeSeeded == (p1 :> Reg("read-write", Never, 1, "legitimate"))
LifeCredentials == {Cred(n1, p1, 0, "POST")}
LifeRegistrations == {Reg("read", Never, 0, "legitimate")}

Symmetry == Permutations(Requests) \cup Permutations(Operators)
=============================================================================
