\* Two calls on a pool of two connections; one retry.
SPECIFICATION TxFairSpec
CONSTANTS
  p1 = p1  p2 = p2  t1 = t1
  PairIds = {p1, p2}
  Tokens = {t1}
  Txns = {c1, c2}
  PoolSize = 2
  None = None
  Seeded = {p1}
  Requested = {t1}
  Ops <- AllOps
  MaxActive = 2
  Cap = 1
  MaxRetries = 1
  MaxOps = 2
  MaxFaults = 1
INVARIANTS OutcomeIsTruthful PoolIsSound ReplicaFollows
PROPERTY EveryCallEnds
CHECK_DEADLOCK FALSE
