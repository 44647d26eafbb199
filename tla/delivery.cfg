SPECIFICATION FairSpec
CONSTANTS
  c1 = c1  c2 = c2
  x1 = x1  x2 = x2  x3 = x3
  Commit = {c1, c2}
  Envelope = {x1, x2, x3}
  Emitted <- TwoCommits
  MaxAttempt = 2
INVARIANTS
  AdmittedOnce
PROPERTIES
  KnowledgeGrows
  EventuallyAccepted
