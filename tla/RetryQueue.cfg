\* One worker, operators who reconcile rows that wait for a retry, and faults, two of
\* which per row hit a retry already made
CONSTANTS
  p1 = p1  p2 = p2  w1 = w1
  Payments = {p1, p2}
  Bills = {}
  RetryWorkers = {w1}
  MaxRetries = 2
  MaxUndone = 2
  OneViews = {}
  ReconcileFrom = {"PENDING_RETRY"}
  Lockers = {w1}
  Faults = TRUE
SPECIFICATION FairSpec
INVARIANTS RetriesAreBounded ResolvedAgrees LockedRowIsFresh
PROPERTIES RetriesEnd
CHECK_DEADLOCK FALSE
