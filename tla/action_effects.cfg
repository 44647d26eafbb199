SPECIFICATION FairActionSpec
CONSTANTS
  a = a  b = b  x = x  c1 = c1  c2 = c2  q = q  w = w
  Id <- Ids
  Scope <- OneScope
  Request <- Requests
  Mark <- Marks
  Snapshot <- Receipt
  Completion <- Completions
  Client <- Nobody
  Caller <- Callers
  Forbidden <- Rejected
  MaxFaults = 2
INVARIANTS
  ActedOnce
  VerdictsTrue
PROPERTY
  EffectsSettle
