SPECIFICATION Spec
CONSTANTS
  r1 = r1
  r2 = r2
  Requests <- MCRequests
  None = None
  MaxMonth = 2
  Limits = {1, 2}
  Costs = {1, 2}
  MaxAmount = 3
  MaxIncarnation = 2
  OnUnavailable = "Allow"
SYMMETRY Symmetry
INVARIANTS
  SpentIsOwnCharges
  HeldRowExists
PROPERTIES
  SpendOnlyGrows
