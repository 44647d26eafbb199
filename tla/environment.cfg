SPECIFICATION FairSpec
CONSTANTS
  p = p  e = e
  b1 = b1  b2 = b2  h = h
  Resource = {p, e}
  Platform = p
  Exclusive = {}
  LeaseId = {b1, b2}
  On <- Leased
  Scope <- OwnedBy
  Holder = {h}
  Own <- OwnOf
  TTL = {}
  Never = 1
  MaxAge = 0
  MaxGen = 3
  Env = e
  Retiree = h
  MaxCrashes = 1
  MaxDamage = 1
INVARIANTS
  EnvironmentSound
PROPERTIES
  PendingResolves
