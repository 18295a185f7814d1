\* Two processes with two requests each; the window is two instants and the limit one
\* request.
SPECIFICATION AdmissionSpec
CONSTANTS
  p1 = p1  p2 = p2
  Procs = {p1, p2}
  Limit = 1
  Window = 2
  MaxRetries = 2
  MaxTime = 2
  MaxCalls = 2
  MaxAnchors = 1
INVARIANTS RateBounded AuditTrailSound
SYMMETRY Symmetry
CHECK_DEADLOCK FALSE
