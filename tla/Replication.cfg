\* Three mutations through a queue of two.  With two writers mutations may be numbered
\* and queued in another order than they were written.
SPECIFICATION MCSpec
CONSTANTS
  w1 = w1  k1 = k1
  Writers = {w1, w2}
  Keys = {k1, k2}
  Vals = {a}
  Absent = Absent
  MaxQueue = 2
  MaxOps = 3
  MaxFaults = 2
INVARIANTS ReplicaIsHistory LostOnlyByOverflow MirrorsWhenQuiet
PROPERTY CatchesUp
