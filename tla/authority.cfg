SPECIFICATION Spec
CONSTANTS
  Owner = {o1, o2}
  Host = {h1, h2}
  Wall = {0, 2}
  TTL = {1, 2}
  MaxElapsed = 2
  MaxBoot = 1
  MaxEpoch = 2
INVARIANTS
  EpochIdentifiesHolder
PROPERTIES
  NoResurrection
  ImplementsLeaseAuthority
