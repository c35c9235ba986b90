SPECIFICATION FairSpec
CONSTANTS
  p1 = p1
  p2 = p2
  o1 = o1
  Procs = {p1, p2}
  Ops = {o1}
  NoTx = NoTx
  MaxNonce = 1
  MaxMint = 2
  MaxFaults = 2
  MaxForeign = 0
PROPERTIES
  CallsReturn
  SettlementRecovered
