SPECIFICATION Spec
CONSTANTS
  Actors = {a1, a2}
  Members = {m1, m2}
  m1 = m1
  m2 = m2
  Shared = shared
  Quorum = 2
  MaxOps = 3
  MaxFaults = 1
  Order <- MCOrder
  MaxConfigNonce = 1
  Requests <- MCRequests
  Transfers <- MCTransfers
  Pages <- MCPages
  Overlap = 1
  FullEvery = 2
  Interval = 1
  Timeouts = {2, 4}
  Since = 1
  StartedAt = 3
  Transactions <- MCTransactions
SYMMETRY Symmetry
CHECK_DEADLOCK FALSE
INVARIANTS OutcomeTruthful HistoryTruthful WalletsAgree WaitTruthful
PROPERTIES ReplacedOnPurpose
