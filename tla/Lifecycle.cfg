SPECIFICATION Spec
CONSTANTS
  p1 = p1  p2 = p2  p3 = p3
  n1 = n1  n2 = n2  n3 = n3
  PairIds = {p1, p2, p3}
  Seeded <- LifeSeeded
  Tokens = {t1}
  Registrations <- LifeRegistrations
  Requests = {r1, r2}
  Operators = {o1, o2}
  Credentials <- LifeCredentials
  Ips = {i1}
  NewScopes = {}
  NewExpiries = {}
  NewCaps = {}
  Never = Never
  SigWindow = 1
  Retention = 2
  MaxNonces = 2
  EvictCount = 1
  MaxStall = 0
  CfgLockout = 2
  RegLockout = 1
  ShadowAt = 4
  MaxActive = 2
  FailureWindow = 10
  MaxTime = 0
INVARIANTS TypeOK OneLivePairPerRegistration
PROPERTY TerminalStaysTerminal
SYMMETRY Symmetry
CHECK_DEADLOCK FALSE
