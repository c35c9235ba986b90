---------------------------- MODULE MCLocalState ----------------------------
(* Small instances of LocalState for TLC.                                   *)
EXTENDS LocalState

\* No application of the fastid-sdk, or one of these.
MCApplications ==
  {{}, {"github", "revoke", "retry"}, {"website", "retry"}, {"x", "startX", "verifyPost"},
   {"name", "work", "retry"}, {"profile", "report"}}

\* Processes are interchangeable.
Symmetry == Permutations(Actors)
=============================================================================
