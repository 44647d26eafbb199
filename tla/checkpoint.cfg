SPECIFICATION FairSpec
CONSTANTS
  Executor = {e1, e2}
  Origin = {x1, x2}
  Collector = {k1, k2}
  Proof = {g1}
  MaxRecords = 2
  MaxCrashes = 1
  MaxForeign = 1
INVARIANTS
  NothingLost
  NeverAheadOfJournal
PROPERTIES
  RetirementFinal
  
  EventuallyPurged
