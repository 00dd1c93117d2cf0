CONSTANTS
  Workers = {w1}
  Leases = {l1, l2, l3, l4, l5, l6}
  TTL = 3
  Beat = 2
  Retry = 1
  Slots = 1
  MaxLate = 2
  None = None
SPECIFICATION FairSpec
PROPERTIES
  LostNeedsNewLease
  OldLeaseIsInert
  LeaseIsKept
  RunningWorkersStayHealthy
  DeadWorkersAreLost
