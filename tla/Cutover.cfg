SPECIFICATION FairSpec
CONSTANTS
  a = a  b = b  c = c  m1 = m1  m2 = m2  m3 = m3
  None = None
  Source = a
  Targets = {b, c}
  Members = {m1, m2, m3}
  Skew = 1
  Window = 1
  FirstExpiry = 1
  MaxTime = 4
  MaxWrites = 1
  MaxGrants = 3
  MaxRollbacks = 1
INVARIANTS NothingLost OneWriter
PROPERTY CutoverCompletes
CHECK_DEADLOCK FALSE
