SPECIFICATION Spec
CONSTANTS
  p1 = p1
  p2 = p2
  o1 = o1
  o2 = o2
  Procs = {p1, p2}
  Ops = {o1, o2}
  NoTx = NoTx
  MaxNonce = 1
  MaxMint = 2
  MaxFaults = 1
  MaxForeign = 1
SYMMETRY Symmetry
INVARIANTS
  SettlementTruthful
  OneTxPerNonce
  OneTxPerOperation
  EvidenceDurable
PROPERTIES
  SubmitOnceUnderLocks
  ImplementsLedger
