---------------------------- MODULE LockPromise ----------------------------
(***************************************************************************)
(* What RecoveryJournal.withLock promises for one lock key: the section    *)
(* has one holder at a time; a holder that dies, or cannot release, leaves *)
(* the lock abandoned, and only a deliberate act frees it then.            *)
(***************************************************************************)
CONSTANT Calls      \* invocations of withLock
VARIABLES holders, abandoned

promiseVars == <<holders, abandoned>>

PromiseInit == holders = {} /\ abandoned = FALSE

Acquire(c) ==
  /\ holders = {} /\ ~abandoned
  /\ holders' = {c} /\ UNCHANGED abandoned

\* Giving the lock back, or leaving it behind.
Release(c) ==
  /\ holders = {c} /\ holders' = {}
  /\ abandoned' \in BOOLEAN

Clear ==
  /\ abandoned /\ abandoned' = FALSE
  /\ UNCHANGED holders

PromiseNext == (\E c \in Calls : Acquire(c) \/ Release(c)) \/ Clear

PromiseSpec == PromiseInit /\ [][PromiseNext]_promiseVars
=============================================================================
