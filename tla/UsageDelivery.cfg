SPECIFICATION FairSpec
CONSTANTS
  e1 = e1
  e2 = e2
  e3 = e3
  k1 = k1
  k2 = k2
  c1 = c1
  c2 = c2
  w1 = w1
  w2 = w2
  Events = {e1, e2, e3}
  NoEvent = NoEvent
  OrderKeys = {k1, k2}
  Consumers = {c1, c2}
  Workers = {w1, w2}
  MaxPosition = 3
  Configs <- MCConfigs
  Setups <- MCSetups
INVARIANTS LossIsReported InOrder
PROPERTIES ImplementsJournalContract EveryEventResolved
CHECK_DEADLOCK FALSE
