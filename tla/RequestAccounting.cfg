SPECIFICATION Spec
CONSTANTS
  r1 = r1
  r2 = r2
  r3 = r3
  Requests <- MCRequests
  Costs = {2}
  MaxPending = 2
  MaxInFlight = 1
  Appends = TRUE
  OnUndurable = "Refuse"
SYMMETRY Symmetry
INVARIANTS
  CapacityOwned
  AccountedOnce
PROPERTIES
  ImplementsContract
