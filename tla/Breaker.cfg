\* Two requests of one payment and two other callers; failures are counted to three beyond
\* the threshold
CONSTANTS
  p1 = p1  b1 = b1  r1 = r1  r2 = r2  c1 = c1  c2 = c2
  Callers = {r1, r2, c1, c2}
  Threshold = 3
  MaxFailures = 6
  Payments = {p1}
  Bills = {b1}
  Requests = {r1, r2}
  Ref <- MCRef
  ValidatedBy <- MCValidatedBy
  CrashAt = {"insert", "created", "inflight"}
SPECIFICATION NetworkFairSpec
INVARIANTS TypeOK TripsAtThreshold AnswersTellNetwork
PROPERTIES OpenIsLeftByCooldown OpenEnds CallsEnd
