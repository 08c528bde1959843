SPECIFICATION FairSpec
CONSTANTS
  r1 = r1
  r2 = r2
  t1 = t1
  t2 = t2
  p1 = p1
  p2 = p2
  a = a
  b = b
  NoTarget = NoTarget
  Requests = {r1, r2}
  Targets = {t1, t2}
  Providers = {p1, p2}
  Creds = {a, b}
  Configs <- MCConfigs
INVARIANTS OutOnOwnEvidence AttemptsExact OneCompletion
PROPERTY RecoveredIsServed
