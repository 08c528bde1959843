SPECIFICATION CatalogueSpec
CONSTANTS
  r1 = r1
  r2 = r2
  d1 = d1
  d2 = d2
  d3 = d3
  x = x
  y = y
  z = z
  old = old
  new = new
  Replicas = {r1, r2}
  Docs = {d1, d2, d3}
  Seed = Seed
  Contents = {x, y, z}
  NoContent = NoContent
  Builds = {old, new}
  None = None
  MaxMoves = 2
  MaxStops = 1
  MaxRefusals = 1
  Configs <- MCConfigs
  Places = 2
  NanosPerMicro = 10
  RateMax = 999
  WideMax = 99999
  Tolerance = 50
  LegacyContext = 4
  Samples <- MCSamples
  Refreshes <- MCRefreshes
INVARIANTS ConfirmedIsCurrent SchedulesKept FiledAndPriced DiffNamesEveryChange
PROPERTY EventuallyCurrent
