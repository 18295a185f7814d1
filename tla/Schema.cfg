\* Two processes, two legacy writers, one key, two rows that version 3 accepts and one it does not;
\* three callers that reserve generations of two epochs up to the ceiling.
SPECIFICATION MCSpec
CONSTANTS
  p1 = p1  p2 = p2  w1 = w1  w2 = w2  i1 = i1  r1 = r1  r2 = r2  r3 = r3
  None = None
  Procs = {p1, p2}
  Writers = {w1, w2}
  Ids = {i1}
  Rows = {r1, r2, r3}
  BadRows = {r3}
  Callers = {c1, c2, c3}
  Epochs = {e1, e2}
  MaxSequence = 2
INVARIANTS AcknowledgedRowsSurvive StampMatchesLayout ReservedOnce
SYMMETRY Symmetry
