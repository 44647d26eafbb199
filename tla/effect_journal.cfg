SPECIFICATION Spec
CONSTANTS
  Id = {i1, i2}
  Scope <- OneScope
  Request = {q1, q2}
  Mark = {m1}
  Snapshot = {}
  Completion = {w1}
  Client = {c1}
SYMMETRY Symmetry
INVARIANTS
  ProjectionIsHead
  OneUnresolvedPerScope
  TerminalEvidence
PROPERTIES
  TerminalFinal
