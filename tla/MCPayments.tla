----------------------------- MODULE MCPayments -----------------------------
EXTENDS Payments

MCPrice == [decimal |-> TRUE, value |-> 15]
MCCommittee == <<"v1", "v2", "v3", "v4">>
MCSymmetry == Permutations(Actors)
=============================================================================
