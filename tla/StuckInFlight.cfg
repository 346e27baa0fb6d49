\* One fetched bill and one payment whose request dies in flight
CONSTANTS
  p1 = p1  p2 = p2  b1 = b1  r1 = r1  r2 = r2  r3 = r3
  aw = aw  w1 = w1  w2 = w2  ov = ov
  Payments = {p1, p2}
  Bills = {b1}
  Requests = {r1}
  Ref <- MCRef
  ValidatedBy <- MCValidatedBy
  CrashAt = {"inflight"}
  AmbiguousWorker = aw
  RecoveryWorkers = {w1}
  OneViews = {}
  ReconcileFrom = {"AMBIGUOUS_TIMEOUT"}
  Lockers = {aw, w1}
  Faults = FALSE
  Timely = TRUE
SPECIFICATION FairSpec
PROPERTIES StuckGetsDetected
CHECK_DEADLOCK FALSE
