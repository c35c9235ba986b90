------------------------ MODULE MCMultisigWithdrawal ------------------------
(* Small instances of MultisigWithdrawal for TLC.                          *)
EXTENDS MultisigWithdrawal, TLC

\* Processes are interchangeable.
Symmetry == Permutations(Procs)
=============================================================================
