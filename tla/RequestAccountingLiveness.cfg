SPECIFICATION FairSpec
CONSTANTS
  r1 = r1
  r2 = r2
  r3 = r3
  Requests <- MCPair
  Costs = {2}
  MaxPending = 2
  MaxInFlight = 1
  Appends = FALSE
  OnUndurable = "Serve"
PROPERTIES
  EveryAdmissionCloses
