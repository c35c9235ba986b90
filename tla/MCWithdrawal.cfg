SPECIFICATION Spec
CONSTANTS
  p1 = p1
  p2 = p2
  Procs = {p1, p2}
  Window = 1
  MaxNow = 2
  MaxNonce = 3
  MaxMint = 3
  MaxFaults = 2
SYMMETRY Symmetry
INVARIANTS
  PaidOnce
  RelayedOnce
PROPERTIES
  CompletedIsFinal
  JournalMonotone
