SPECIFICATION Spec
CONSTANTS
  p1 = p1
  p2 = p2
  Actors = {p1, p2}
  MaxOps = 4
  MaxFaults = 1
  Names = {1, 2}
  n1 = n1
  Networks = {n1}
  Bundled = Bundled
  MaxFailures = 2
  NoCall = NoCall
  Applications <- MCApplications
SYMMETRY Symmetry
INVARIANTS
  TypeOK
  ReportedStored
  SeedReleasedOnce
  RequestSpent
  NoOrphanCall
  ClaimAccounted
  ClaimedOnce
PROPERTIES
  DefaultsResolve
  PendingKept
CHECK_DEADLOCK FALSE
