SPECIFICATION FairSpec
CONSTANTS
  p1 = p1
  p2 = p2
  Procs = {p1, p2}
  MaxFaults = 3
INVARIANTS
  RegisteredTruthful
PROPERTIES
  VerdictKept
  RowFound
