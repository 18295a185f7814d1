\* Two processes of one configuration.
SPECIFICATION NonceFairSpec
CONSTANTS
  Procs = {p1, p2}
  Nonces = {n1}
  Reqs = {r1}
  SigWindow = 1
  Buffer = 1
  Timeout = 0
  MaxFaults = 2
  Allowance <- SameAllowance
INVARIANTS GrantedOnce
PROPERTY GateReopens
CHECK_DEADLOCK FALSE
