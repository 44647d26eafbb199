SPECIFICATION FairSpec
CONSTANTS
  e1 = e1
  e2 = e2
  e3 = e3
  u1 = u1
  u2 = u2
  Owner = {e1, e2, e3}
  Stamp = {0}
  Command = {c1, c2}
  Payload = {p1}
  Delta = {d1}
  Child = {k1}
  Status = {s1}
  Unit = {u1, u2}
  UnitOf <- TwoUnits
  OutboxBound = {e1, e3}
  UseAuthority = FALSE
  MaxEpoch = 0
  MaxFaults = 1
INVARIANTS
  OneHistory
  AckedEnqueued
PROPERTIES
  ImplementsCommitLog
  EmittedEventuallyEnqueued
