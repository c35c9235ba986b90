-------------------------- MODULE MCFastTransactions --------------------------
EXTENDS FastTransactions

CONSTANTS m1, m2

MCOrder == <<m1, m2>>
Request(m, sender, kind, replace) == [m |-> m, sender |-> sender, kind |-> kind, replace |-> replace]
MCRequests ==
  {Request(m1, Shared, "send", FALSE), Request(m2, Shared, "create", TRUE), Request(m1, m1, "burn", FALSE),
   Request(m1, Shared, "mint", FALSE), Request(m2, Shared, "removeMinter", FALSE)}
MCTransfers == {[m |-> m1, route |-> "evm-to-fast"]}
Page(m, call, kind, replace) == [m |-> m, call |-> call, kind |-> kind, replace |-> replace]
MCPages == {Page(m1, "prepare", "other", TRUE), Page(m2, "sdkVote", "vote", FALSE)}
Received == Kind("TokenTransfer", "payer", "me", "exact")
Sent == Kind("TokenTransfer", "me", "payer", "exact")
MCTransactions == {Transaction(1, Received), Transaction(3, Sent), Transaction(6, Sent), Transaction(8, Received)}
Symmetry == Permutations(Actors)
=============================================================================
