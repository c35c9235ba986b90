SPECIFICATION Spec
CONSTANTS
  Actors = {a1}
  MaxOps = 1
  MaxFaults = 0
  FastFunds = 5
  EvmFunds = 5
  GasToken = TRUE
  FeeWei = 3
  Scale = 4
  Amount = 2
  MaxUint = 1
  MaxBytes = 2
  MaxChain = 1
  Refusal = Refusal
  Unit = 2
  Price <- MCPrice
  Committee <- MCCommittee
SYMMETRY MCSymmetry
CHECK_DEADLOCK FALSE
INVARIANT PaymentRecorded
