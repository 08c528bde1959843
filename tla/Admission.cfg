SPECIFICATION FairSpec
CONSTANTS
  Requests = {r1, r2, r3}
  Tenants = {t1, t2}
  Limits <- MCLimits
INVARIANTS QueueConserved CeilingsKept
PROPERTY QueuedIsServed
