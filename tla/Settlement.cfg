SPECIFICATION Spec
CONSTANTS
  s1 = s1
  s2 = s2
  s3 = s3
  Work <- MCWork
  MaxPending = 2
  MaxInFlight = 1
  HasQueueWait = TRUE
  HasDeadline = TRUE
SYMMETRY Symmetry
INVARIANTS
  Conserved
  AwaitsTheLast
  ReportsExact
