\* Two requests, on a pair with two uses or on a ghost pair, while operators change scope
\* and cap, unlock and revoke; three instants cover the window and the retention.
SPECIFICATION Spec
CONSTANTS
  p1 = p1  p2 = p2  p3 = p3
  n1 = n1  n2 = n2  n3 = n3
  PairIds = {p1, p2}
  Seeded <- VerificationSeeded
  Tokens = {}
  Registrations = {}
  Requests = {r1, r2}
  Operators = {}
  Credentials <- VerificationCredentials
  Ips = {i1}
  NewScopes = {"read"}
  NewExpiries = {}
  NewCaps = {1}
  Never = Never
  SigWindow = 1
  Retention = 3
  MaxNonces = 2
  EvictCount = 1
  MaxStall = 1
  CfgLockout = 1
  RegLockout = 3
  ShadowAt = 2
  MaxActive = 1
  FailureWindow = 10
  MaxTime = 3
INVARIANTS NonceAcceptedOnce UseAccounting
PROPERTY AuthorizedByCurrentPolicy
SYMMETRY Symmetry
CHECK_DEADLOCK FALSE
