\* Network calls that end within 15 s, two recovery workers, operators who reconcile ambiguous payments
CONSTANTS
  p1 = p1  p2 = p2  b1 = b1  r1 = r1  r2 = r2  r3 = r3
  aw = aw  w1 = w1  w2 = w2  ov = ov
  Payments = {p1, p2}
  Bills = {b1}
  Requests = {r1, r2, r3}
  Ref <- MCRef
  ValidatedBy <- MCValidatedBy
  CrashAt = {"insert", "created", "inflight"}
  AmbiguousWorker = aw
  RecoveryWorkers = {w1, w2}
  OneViews = {}
  ReconcileFrom = {"AMBIGUOUS_TIMEOUT"}
  Lockers = {aw, w1, w2}
  Faults = TRUE
  Timely = TRUE
SPECIFICATION Spec
INVARIANTS AuditTrail
PROPERTIES TerminalIsFinal KeepsPromise
CHECK_DEADLOCK FALSE
