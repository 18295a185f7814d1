\* Two principals' keys, two calls at a time.
SPECIFICATION Spec
CONSTANTS
  Keys = {k1, k2}
  Sessions = {s1}
  Agents = {a1, a2}
  Nonces = {n1, n2}
  Contexts = {x1}
  NoContext = NoContext
  Calls = {c1, c2}
  MaxCheckpoints = 3
  MaxSeals = 1
INVARIANTS ContinuityHolds NoncesSpentOnce
PROPERTY GrantsSeenContext
SYMMETRY Symmetry
CHECK_DEADLOCK FALSE
