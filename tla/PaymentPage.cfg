\* Two payments, each after its bill; answers may be slow, lost or out of order
CONSTANTS
  MaxAttempts = 2
  MaxRows = 4
  MaxLate = 1
  MaxLookups = 1
  MaxRewritten = 1
SPECIFICATION FairSpec
INVARIANTS TracksOwnPayment ShowsTheOutcome
PROPERTIES AmbiguityEnds
CHECK_DEADLOCK FALSE
