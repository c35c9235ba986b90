------------------------ MODULE MCRecordRegistration ------------------------
(***************************************************************************)
(* RecordRegistration for TLC: processes are model values given by the     *)
(* configuration.  The temporal properties forbid a symmetry set.          *)
(***************************************************************************)
EXTENDS RecordRegistration
=============================================================================
