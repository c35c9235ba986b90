-------------------------- MODULE MCSignSettlement --------------------------
(* Small instances of SignSettlement for TLC.                              *)
EXTENDS SignSettlement, TLC

\* Processes are interchangeable, and so are operations.
Symmetry == Permutations(Procs) \cup Permutations(Ops)
=============================================================================
