SPECIFICATION FairSpec
CONSTANTS
  c1 = c1
  c2 = c2
  c3 = c3
  r1 = r1
  r2 = r2
  a = a
  b = b
  old = old
  new = new
  Callers = {c1, c2, c3}
  Replicas = {r1, r2}
  Ids = {1, 2, 3}
  Attrs = {a, b}
  Periods = {1, 2}
  Month = 2
  MaxAmount = 3
  Records <- MCRecords
  Sources = {old, new}
  None = None
  Ops <- MCOps
  Configs <- MCConfigs
INVARIANTS SessionsConserved AnswersHonest
PROPERTY ListingLands
CHECK_DEADLOCK FALSE
