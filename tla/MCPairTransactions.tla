--------------------------- MODULE MCPairTransactions ---------------------------
(* Instances of PairTransactions for TLC.                                  *)
EXTENDS PairTransactions

CONSTANTS p1, p2, t1

\* One of each kind: a pair that is used, changed, rotated and removed, and a
\* registration.
AllOps == {[kind |-> "setPending", token |-> t1], [kind |-> "deletePending", token |-> t1],
           [kind |-> "approvePending", token |-> t1, pair |-> p2],
           [kind |-> "rotatePair", pair |-> p1, new |-> p2]}
     \cup [kind: {"update", "revoke", "claimSuccessfulUse", "lock", "delete"}, pair: {p1}]

=============================================================================
