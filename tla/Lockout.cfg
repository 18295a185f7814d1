\* Two addresses and calls without one, two calls in flight, windows that end; a primary
\* and a replica, a read and a write; two signed requests of a pair that expires.
SPECIFICATION MCSpec
CONSTANTS
  Ips = {i1, i2}
  NoIp = NoIp
  Sources = {i1, i2, NoIp}
  Calls = {c1, c2}
  LockoutCount = 2
  Window = 2
  Unit = 2
  MaxWindows = 2
  MaxDelay = 1
  MaxScore = 4
  Replicas = 1
  Reads = {r1}
  Writes = {w1}
  MissThreshold = 2
  MissWindow = 1
  MaxClock = 3
  Requests = {q1, q2}
  Permitted = {q1}
  SigWindow = 1
  Buffer = 1
  ExpiresAt = 3
  MaxTime = 4
INVARIANTS ThresholdsLock ThrowsAfterAll GivenUpForCause ExecutedOnce
PROPERTY StormLocks
