SPECIFICATION Spec
CONSTANTS
  p1 = p1
  o1 = o1
  Procs = {p1}
  Ops = {o1}
  NoTx = NoTx
  MaxNonce = 0
  MaxMint = 1
  MaxFaults = 1
  MaxForeign = 0
INVARIANT ReportedIsDurable
