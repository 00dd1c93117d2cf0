SPECIFICATION Spec
CONSTANTS
  Queries = {q1, q2}
  Workers = {w1, w2}
  None = None
  Listings <- SteadyLeases
  MaxAttempts = 3
  MaxRestarts = 0
INVARIANT HealthyQueriesSucceed
CHECK_DEADLOCK FALSE
