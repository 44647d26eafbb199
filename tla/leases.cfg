SPECIFICATION LeaseSpec
CONSTANTS
  p = p  s = s  k = k
  s1 = s1  s2 = s2  k1 = k1
  h1 = h1  h2 = h2
  Resource = {p, s, k}
  Platform = p
  Exclusive = {s}
  LeaseId = {s1, s2, k1}
  On <- Leased
  Scope <- OwnedBy
  Holder = {h1, h2}
  Own <- OwnOf
  TTL = {2}
  Never = 3
  MaxAge = 1
  MaxGen = 2
INVARIANTS
  SoleLease
  FencedQuiet
PROPERTIES
  NoneCutOff
SYMMETRY Contenders
