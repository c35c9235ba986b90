---------------------------- MODULE MCJournalLock ----------------------------
(***************************************************************************)
(* JournalLock for TLC: calls and process ids are model values given by    *)
(* the configurations.  The temporal properties forbid a symmetry set.     *)
(***************************************************************************)
EXTENDS JournalLock
=============================================================================
