------------------------- MODULE RecordRegistration -------------------------
(***************************************************************************)
(* The registration half of @fastxyz/sign-sdk: retryRegistration and       *)
(* checkRegistration of the record client, for one settled operation, run  *)
(* by several processes that share its journal record.                     *)
(*                                                                         *)
(* A settled operation still has to appear in the public index.  The       *)
(* client posts its record and reads the index's exact row back; a POST    *)
(* whose answer was lost may be stored at any later time.  The verdict of  *)
(* the last attempt is kept in the journal.                                *)
(*                                                                         *)
(* Module SignSettlement brings the operation to "settled", which is where *)
(* this module starts.                                                     *)
(***************************************************************************)
EXTENDS Naturals

CONSTANTS
  Procs,       \* client processes; each runs one call at a time
  MaxFaults    \* bound: failed saves, process deaths and power losses

ASSUME ProcsAssumption == Procs \cap {"free", "dead"} = {}
ASSUME FaultsAssumption == MaxFaults \in Nat

VARIABLES
  record,      \* the operation's journal state, as load() reads it
  survivors,   \* the versions of the record a power loss may leave
  lock,        \* lock file operation:<id>: its owner, "free" or "dead"
  call,        \* per process, the call it is executing
  row,         \* the index's row for this transaction id and network
  posted,      \* some POST /record was sent; the network may deliver it late
  faults

journalVars == <<record, survivors>>
indexVars == <<row, posted>>
vars == <<record, survivors, lock, call, row, posted, faults>>

-----------------------------------------------------------------------------

\* stateOf: "settled" and "registration_pending" are both "pending".
Verdicts == {"pending", "conflict", "rejected", "registered"}
Rows == {"none", "ours", "other"}
Kinds == {"retry", "check"}
Labels == {"idle", "lock", "load", "post", "await", "reconcile", "fetch", "save", "exit"}

\* seen: the state loaded; next: the outcome to be saved and reported.
Call == [pc : Labels, kind : Kinds, seen : Verdicts, next : Verdicts \cup {"error"}]
IdleCall == [pc |-> "idle", kind |-> "check", seen |-> "pending", next |-> "error"]

At(p, l) == call[p].pc = l
Goto(p, l) == call' = [call EXCEPT ![p].pc = l]
Decide(p, v) == call' = [call EXCEPT ![p].pc = "save", ![p].next = v]
Fail(p) == call' = [call EXCEPT ![p].pc = "exit", ![p].next = "error"]

Init ==
  /\ record = "pending" /\ survivors = {"pending"}
  /\ lock = "free"
  /\ call = [p \in Procs |-> IdleCall]
  /\ row = "none" /\ posted = FALSE
  /\ faults = 0

\* A failed attempt does not forget a conflict.
ReconcileFailure(seen) == IF seen = "conflict" THEN "conflict" ELSE "pending"

-----------------------------------------------------------------------------
(* withSnapshot.                                                           *)

Start(p, kind) ==
  /\ At(p, "idle")
  /\ call' = [call EXCEPT ![p] = [IdleCall EXCEPT !.pc = "lock", !.kind = kind]]
  /\ UNCHANGED <<journalVars, lock, indexVars, faults>>

AcquireLock(p) ==
  /\ At(p, "lock")
  /\ lock = "free"
  /\ lock' = p
  /\ Goto(p, "load")
  /\ UNCHANGED <<journalVars, indexVars, faults>>

LockUnavailable(p) ==
  /\ At(p, "lock")
  /\ lock # "free"
  /\ Fail(p)
  /\ UNCHANGED <<journalVars, lock, indexVars, faults>>

\* Mutant: a rejected registration is not looked up again.
LoadKeepingRejection(p) ==
  /\ At(p, "load")
  /\ call' = [call EXCEPT ![p].seen = record, ![p].next = record,
       ![p].pc = CASE record \in {"registered", "rejected"} -> "exit"
                   [] OTHER -> IF call[p].kind = "retry" THEN "post" ELSE "fetch"]
  /\ UNCHANGED <<journalVars, lock, indexVars, faults>>

\* "registered" is returned as it is; a retry keeps "rejected" and saves it.
Load(p) ==
  /\ At(p, "load")
  /\ call' = [call EXCEPT ![p].seen = record, ![p].next = record,
       ![p].pc = CASE record = "registered"      -> "exit"
                   [] record # "registered" /\ call[p].kind = "check" -> "fetch"
                   [] record = "rejected" /\ call[p].kind = "retry"   -> "save"
                   [] record \in {"pending", "conflict"} /\ call[p].kind = "retry" -> "post"]
  /\ UNCHANGED <<journalVars, lock, indexVars, faults>>

\* The snapshot does not parse, does not match the receipt, or the clock is
\* unusable.
Throw(p) ==
  /\ At(p, "load")
  /\ Fail(p)
  /\ UNCHANGED <<journalVars, lock, indexVars, faults>>

\* The save may throw before ("lost") or after ("torn") its rename; the call
\* reports its outcome all the same.
Save(p) ==
  /\ At(p, "save")
  /\ \/ /\ record' = call[p].next /\ survivors' = {call[p].next}
        /\ UNCHANGED faults
     \/ /\ faults < MaxFaults /\ faults' = faults + 1
        /\ UNCHANGED journalVars
     \/ /\ faults < MaxFaults /\ faults' = faults + 1
        /\ record' = call[p].next /\ survivors' = survivors \cup {call[p].next}
  /\ Goto(p, "exit")
  /\ UNCHANGED <<lock, indexVars>>

Exit(p) ==
  /\ At(p, "exit")
  /\ lock' = IF lock = p THEN "free" ELSE lock
  /\ call' = [call EXCEPT ![p] = IdleCall]
  /\ UNCHANGED <<journalVars, indexVars, faults>>

-----------------------------------------------------------------------------
(* retryRegistration and checkRegistration.                                *)

Post(p) ==
  /\ At(p, "post")
  /\ posted' = TRUE
  /\ Goto(p, "await")
  /\ UNCHANGED <<journalVars, lock, row, faults>>

\* Mutant: an unreadable answer is reported as "pending", whatever was known.
PostAnsweredForgetting(p) ==
  /\ At(p, "await")
  /\ \/ row = "ours" /\ Decide(p, "registered")
     \/ Goto(p, "reconcile")
     \/ Decide(p, "pending")
     \/ Decide(p, "rejected")
  /\ UNCHANGED <<journalVars, lock, indexVars, faults>>

\* 200 (the index holds our row); 409; a retryable status, a transport error
\* or the deadline; any other status.
PostAnswered(p) ==
  /\ At(p, "await")
  /\ \/ row = "ours" /\ Decide(p, "registered")
     \/ Goto(p, "reconcile")
     \/ Decide(p, ReconcileFailure(call[p].seen))
     \/ Decide(p, "rejected")
  /\ UNCHANGED <<journalVars, lock, indexVars, faults>>

\* Mutant: any row for the transaction will do.
RowMatchesAny(r) == r # "none"
RowMatches(r) == r = "ours"

\* fetchExact: the row, or null from a replica that has not seen it.
Answers == {"none", row}

\* After a 409: a row that is not there yet is still a conflict.
Reconcile(p) ==
  /\ At(p, "reconcile")
  /\ \/ \E r \in Answers : Decide(p, IF RowMatches(r) THEN "registered" ELSE "conflict")
     \/ Decide(p, ReconcileFailure(call[p].seen))
  /\ UNCHANGED <<journalVars, lock, indexVars, faults>>

\* A check that finds no row keeps the verdict; one that cannot read throws.
Fetch(p) ==
  /\ At(p, "fetch")
  /\ \/ \E r \in Answers :
          Decide(p, IF r = "none" THEN call[p].seen
                    ELSE IF RowMatches(r) THEN "registered" ELSE "conflict")
     \/ Fail(p)
  /\ UNCHANGED <<journalVars, lock, indexVars, faults>>

-----------------------------------------------------------------------------
(* The environment.                                                        *)

\* The index stores a POST, perhaps long after its sender gave up.
PostArrives ==
  /\ posted /\ row = "none"
  /\ row' = "ours"
  /\ UNCHANGED <<journalVars, lock, call, posted, faults>>

\* Somebody else recorded other facts under the same transaction id.
ForeignRow ==
  /\ row = "none"
  /\ row' = "other"
  /\ UNCHANGED <<journalVars, lock, call, posted, faults>>

Crash(p) ==
  /\ ~At(p, "idle")
  /\ faults < MaxFaults /\ faults' = faults + 1
  /\ lock' = IF lock = p THEN "dead" ELSE lock
  /\ call' = [call EXCEPT ![p] = IdleCall]
  /\ UNCHANGED <<journalVars, indexVars>>

PowerLoss ==
  /\ faults < MaxFaults /\ faults' = faults + 1
  /\ \E r \in survivors : record' = r /\ survivors' = {r}
  /\ lock' = IF lock = "free" THEN "free" ELSE "dead"
  /\ call' = [p \in Procs |-> IdleCall]
  /\ UNCHANGED indexVars

ClearDeadLock ==
  /\ lock = "dead" /\ lock' = "free"
  /\ UNCHANGED <<journalVars, call, indexVars, faults>>

-----------------------------------------------------------------------------

Step(p) ==
  \/ AcquireLock(p) \/ LockUnavailable(p) \/ Load(p) \/ Throw(p) \/ Post(p)
  \/ PostAnswered(p) \/ Reconcile(p) \/ Fetch(p) \/ Save(p) \/ Exit(p)

Next ==
  \/ \E p \in Procs, k \in Kinds : Start(p, k)
  \/ \E p \in Procs : Step(p)
  \/ PostArrives \/ ForeignRow
  \/ \E p \in Procs : Crash(p)
  \/ PowerLoss \/ ClearDeadLock

Spec == Init /\ [][Next]_vars

-----------------------------------------------------------------------------
(* Safety.                                                                 *)

TypeOK ==
  /\ record \in Verdicts /\ survivors \subseteq Verdicts
  /\ lock \in Procs \cup {"free", "dead"}
  /\ call \in [Procs -> Call]
  /\ row \in Rows /\ posted \in BOOLEAN
  /\ faults \in Nat

\* "registered" is never a guess: whenever the journal, in a version a power
\* loss may leave, or a returning call says so, the index holds the row of
\* this very receipt, however late or often it was posted.
RegisteredTruthful ==
  /\ "registered" \in survivors \cup {record} => row = "ours"
  /\ \A p \in Procs : call[p].pc \in {"save", "exit"} /\ call[p].next = "registered" => row = "ours"

\* Knowledge is not lost: a durable "registered" is never overwritten, and a
\* durable verdict never turns back into "pending", neither by a call that
\* read an older record nor by an attempt without an answer.
VerdictKept ==
  [][/\ survivors = {"registered"} => survivors' = {"registered"}
     /\ "pending" \notin survivors => "pending" \notin survivors']_vars

-----------------------------------------------------------------------------
(* The inductive invariant behind them.                                    *)

InSection == {"load", "post", "await", "reconcile", "fetch", "save"}

\* A call inside the section owns the lock, and the record is still the one
\* it read; its outcome respects what it read.
Justified(p) ==
  LET c == call[p]
  IN  /\ c.pc \in InSection => lock = p
      /\ c.pc \in InSection \ {"load"} => c.seen = record /\ record # "registered"
      /\ c.pc \in {"post", "await", "reconcile"} => c.seen # "rejected"
      /\ c.pc = "save" => /\ c.next \in Verdicts
                          /\ c.next = "pending" => c.seen = "pending"

IInv ==
  /\ TypeOK /\ RegisteredTruthful
  /\ record \in survivors
  /\ \A p \in Procs : Justified(p)

-----------------------------------------------------------------------------
(* Liveness.                                                               *)

FairSpec == Spec /\ \A p \in Procs : WF_vars(Step(p))

\* A caller that keeps checking, also when nobody holds the lock and not only
\* when another call takes it first, an operator that clears dead locks, and
\* an index that answers.
Checking(p) == call[p].kind = "check"
CheckFairness ==
  /\ WF_vars(ClearDeadLock)
  /\ \A p \in Procs :
       /\ SF_vars(lock = "free" /\ Start(p, "check"))
       /\ SF_vars(AcquireLock(p) /\ Checking(p))
       /\ SF_vars(Load(p) /\ Checking(p))
       /\ SF_vars(Fetch(p) /\ call'[p].next = "registered")

\* A row that reached the index, by whatever attempt, is found: checking
\* alone leads from every earlier verdict to "registered".
RowFound == CheckFairness => (row = "ours" ~> record = "registered")
=============================================================================
