\* One payment sent twice and another one: slow network calls, OneView, operators who reconcile any row
CONSTANTS
  p1 = p1  p2 = p2  b1 = b1  r1 = r1  r2 = r2  r3 = r3
  aw = aw  w1 = w1  w2 = w2  ov = ov
  Payments = {p1, p2}
  Bills = {}
  Requests = {r1, r2, r3}
  Ref <- MCRef
  ValidatedBy <- MCValidatedBy
  CrashAt = {"created", "inflight"}
  AmbiguousWorker = aw
  RecoveryWorkers = {w1}
  OneViews = {ov}
  ReconcileFrom = {"INITIALIZED", "NETWORK_IN_FLIGHT", "AMBIGUOUS_TIMEOUT"}
  Lockers = {aw, w1, ov}
  Faults = TRUE
  Timely = FALSE
SPECIFICATION Spec
INVARIANTS TypeOK OneOwner ResolvedAgrees SuccessHasPayload LockedBatchIsFresh
PROPERTIES OverwrittenThroughOldObjects
CHECK_DEADLOCK FALSE
