SPECIFICATION Spec
CONSTANTS
  e1 = e1
  e2 = e2
  e3 = e3
  u1 = u1
  u2 = u2
  Owner = {e1, e2}
  Stamp = {0, 1}
  Command = {c1, c2}
  Payload = {p1}
  Delta = {d1}
  Child = {k1}
  Status = {s1}
  Unit = {u1}
  UnitOf <- SameUnits
  OutboxBound = {e1, e2}
  UseAuthority = TRUE
  MaxEpoch = 2
  MaxFaults = 1
INVARIANTS
  OnlyAccepted
  EpochsMonotone
