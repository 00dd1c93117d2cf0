SPECIFICATION Spec
CONSTANTS
  Queries = {q1, q2}
  Workers = {w1, w2}
  None = None
  Listings <- AnyLeases
  MaxAttempts = 2
  MaxRestarts = 1
INVARIANTS OwnOutcome OnlySharingRefuses
PROPERTY EveryQueryEnds
CHECK_DEADLOCK FALSE
