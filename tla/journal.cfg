SPECIFICATION Spec
CONSTANTS
  Process = {p1, p2}
  Command = {c1, c2, c3}
  Interval = 2
  MaxRecords = 3
  MaxFaults = 2
INVARIANTS
  ChainValid
  
PROPERTIES
  TornStops
  ImplementsCommitLog
CHECK_DEADLOCK FALSE
