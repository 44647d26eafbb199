SPECIFICATION FairSpec
CONSTANTS
  Meta = {m1, m2}
  MaxFaults = 3
  MaxGen = 3
INVARIANTS
  NoDrift
PROPERTIES
  RetiredNotReused
  CallsReturn
  RemovalConverges
CHECK_DEADLOCK FALSE
