SPECIFICATION FairSpec
CONSTANTS
  p1 = p1
  p2 = p2
  Procs = {p1, p2}
  Window = 1
  MaxNow = 0
  MaxNonce = 2
  MaxMint = 2
  MaxFaults = 1
PROPERTY SettlementRecorded
