\* Two writers race for the last places of the backlog, or one writes while two faults
\* happen; two publishers race for the lease.
SPECIFICATION MCSpec
CONSTANTS
  w1 = w1
  Writers = {w1, w2}
  Publishers = {d1, d2}
  Values = {a}
  MaxPending = 2
  MaxRows = 3
  MaxFence = 2
  MaxFaults = 2
  Corruption = TRUE
INVARIANTS AckedIsApplied NoGap DrainedInOrder BoundedOutbox
PROPERTIES ImplementsLog EveryRowSettles
CHECK_DEADLOCK FALSE
