\* A OneView request and the recovery worker on the same ambiguous payment
CONSTANTS
  p1 = p1  p2 = p2  b1 = b1  r1 = r1  r2 = r2  r3 = r3
  aw = aw  w1 = w1  w2 = w2  ov = ov
  Payments = {p1, p2}
  Bills = {}
  Requests = {r1}
  Ref <- MCRef
  ValidatedBy <- MCValidatedBy
  CrashAt = {}
  AmbiguousWorker = aw
  RecoveryWorkers = {w1}
  OneViews = {ov}
  ReconcileFrom = {}
  Lockers = {aw, w1, ov}
  Faults = FALSE
  Timely = TRUE
SPECIFICATION Spec
PROPERTIES TerminalIsFinal
CHECK_DEADLOCK FALSE
