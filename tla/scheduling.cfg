SPECIFICATION FairSpec
CONSTANTS
  p1 = p1
  p2 = p2
  t1 = t1
  t2 = t2
  t3 = t3
  Process = {p1, p2}
  Thread = {t1, t2, t3}
  ProcOf <- TwoAndOne
  Flow = {f1}
  MaxCalls = 3
  MaxFaults = 1
  Interval = 2
INVARIANTS
  JournalSound
  ViewsSound
PROPERTY
  ReceiptArrives
CHECK_DEADLOCK FALSE
