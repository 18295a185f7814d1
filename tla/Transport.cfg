SPECIFICATION Spec
CONSTANTS
  a1 = a1  a2 = a2  h1 = h1  h2 = h2
  Attempts = {a1, a2}
  Handlers = {h1, h2}
  NumRecords = 1
  Freshness = 1
  Skew = 1
  Safety = 1
  Retention = 5
  Stamps = {1}
  MaxApp = 3
  MaxDb = 6
INVARIANTS NonceAdmittedOnce ReceiptAnswersAttempt
SYMMETRY Symmetry
CHECK_DEADLOCK FALSE
