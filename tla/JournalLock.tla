---------------------------- MODULE JournalLock ----------------------------
(***************************************************************************)
(* FileRecoveryJournal.withLock for one lock key: any number of calls, in  *)
(* any number of processes of one host, over one lock file.                *)
(*                                                                         *)
(* A call writes its owner record (token, process id) to a file of its     *)
(* own and links it exclusively to the lock file's name.  A call that      *)
(* finds the name taken reads the owner and waits while that process is    *)
(* alive, until its deadline.  The holder releases by reading the file     *)
(* back and unlinking the name.  Process ids are reused.                   *)
(*                                                                         *)
(* Modules SignSettlement and RecordRegistration use the lock as           *)
(* LockPromise states it.                                                  *)
(***************************************************************************)
EXTENDS Naturals

CONSTANTS
  Calls,       \* slots for calls of withLock
  Pids,        \* process ids
  MaxTokens    \* bound: calls made in all

ASSUME PidsAssumption == "none" \notin Pids
ASSUME TokensAssumption == MaxTokens \in Nat

VARIABLES
  lockFile,    \* the owner record at the lock file's name
  call,        \* per slot, the call it runs
  alive,       \* process ids of live processes
  minted       \* tokens drawn

vars == <<lockFile, call, alive, minted>>

-----------------------------------------------------------------------------

Owners == [token : Nat, pid : Pids]
NoOwner == [token |-> 0, pid |-> "none"]

\* try: before link; read: before the owner is read; judge: before it is
\* judged; sync: linked; inside: running the operation; check: before the
\* file is read back; unlink: before it is removed.
Labels == {"idle", "try", "read", "judge", "sync", "inside", "check", "unlink"}
Holding == {"sync", "inside", "check", "unlink"}

\* seen: the owner read last; late: the deadline has passed.
CallRecords == [pc : Labels, me : Owners \cup {NoOwner}, seen : Owners \cup {NoOwner}, late : BOOLEAN]
IdleCall == [pc |-> "idle", me |-> NoOwner, seen |-> NoOwner, late |-> FALSE]

At(c, l) == call[c].pc = l
Goto(c, l) == call' = [call EXCEPT ![c].pc = l]
Return(c) == call' = [call EXCEPT ![c] = IdleCall]

Init ==
  /\ lockFile = NoOwner
  /\ call = [c \in Calls |-> IdleCall]
  /\ alive = Pids
  /\ minted = 0

-----------------------------------------------------------------------------
(* Taking the lock.                                                        *)

\* The owner record is drawn, written and synced.
Start(c, pid) ==
  /\ At(c, "idle")
  /\ minted < MaxTokens /\ minted' = minted + 1
  /\ pid \in alive
  /\ call' = [call EXCEPT ![c] = [IdleCall EXCEPT !.pc = "try", !.me = [token |-> minted + 1, pid |-> pid]]]
  /\ UNCHANGED <<lockFile, alive>>

\* Mutant: the owner record is renamed over the lock file.
Overwrite(c) ==
  /\ At(c, "try")
  /\ lockFile' = call[c].me
  /\ Goto(c, "sync")
  /\ UNCHANGED <<alive, minted>>

\* link never replaces a file.
Link(c) ==
  /\ At(c, "try")
  /\ lockFile = NoOwner
  /\ lockFile' = call[c].me
  /\ Goto(c, "sync")
  /\ UNCHANGED <<alive, minted>>

Taken(c) ==
  /\ At(c, "try")
  /\ lockFile # NoOwner
  /\ Goto(c, "read")
  /\ UNCHANGED <<lockFile, alive, minted>>

\* Without a file the call tries again, without looking at its deadline.
ReadOwner(c) ==
  /\ At(c, "read")
  /\ call' = [call EXCEPT ![c].pc = IF lockFile = NoOwner THEN "try" ELSE "judge",
                          ![c].seen = lockFile]
  /\ UNCHANGED <<lockFile, alive, minted>>

\* A signal-0 probe, which knows nothing of who had the process id before.
processIsAlive(pid) == pid \in alive

DeadOwner(c) ==
  /\ At(c, "judge")
  /\ ~processIsAlive(call[c].seen.pid)
  /\ Return(c)
  /\ UNCHANGED <<lockFile, alive, minted>>

\* Mutant: the finally block unlinks the lock of a call that never got it.
TimedOutUnlinking(c) ==
  /\ At(c, "judge")
  /\ processIsAlive(call[c].seen.pid)
  /\ call[c].late
  /\ lockFile' = NoOwner
  /\ Return(c)
  /\ UNCHANGED <<alive, minted>>

TimedOut(c) ==
  /\ At(c, "judge")
  /\ processIsAlive(call[c].seen.pid)
  /\ call[c].late
  /\ Return(c)
  /\ UNCHANGED <<lockFile, alive, minted>>

\* Mutant: the deadline is not looked at while the owner is alive.
WaitPatiently(c) ==
  /\ At(c, "judge")
  /\ processIsAlive(call[c].seen.pid)
  /\ Goto(c, "try")
  /\ UNCHANGED <<lockFile, alive, minted>>

Wait(c) ==
  /\ At(c, "judge")
  /\ processIsAlive(call[c].seen.pid)
  /\ ~call[c].late
  /\ Goto(c, "try")
  /\ UNCHANGED <<lockFile, alive, minted>>

\* Writing, linking or reading fails before the lock is taken.
SetupFails(c) ==
  /\ call[c].pc \in {"try", "read"}
  /\ Return(c)
  /\ UNCHANGED <<lockFile, alive, minted>>

-----------------------------------------------------------------------------
(* Holding it and giving it back.                                          *)

\* syncDirectory and the removal of the owner's file; a failure releases.
Synced(c) ==
  /\ At(c, "sync")
  /\ Goto(c, "inside") \/ Goto(c, "check")
  /\ UNCHANGED <<lockFile, alive, minted>>

Leave(c) ==
  /\ At(c, "inside")
  /\ Goto(c, "check")
  /\ UNCHANGED <<lockFile, alive, minted>>

\* "lock disappeared" and "ownership changed" make the call throw and leave
\* the file; IInv says they happen to nobody as long as operators remove only
\* the locks of dead processes.
Verify(c) ==
  /\ At(c, "check")
  /\ IF lockFile = call[c].me THEN Goto(c, "unlink") ELSE Return(c)
  /\ UNCHANGED <<lockFile, alive, minted>>

\* unlink removes whatever is at the name by then; a failure to sync the
\* directory after it only makes the call throw.
Unlink(c) ==
  /\ At(c, "unlink")
  /\ lockFile' = NoOwner
  /\ Return(c)
  /\ UNCHANGED <<alive, minted>>

\* Reading the file back, or removing it, fails: the lock stays.
ReleaseFails(c) ==
  /\ call[c].pc \in {"check", "unlink"}
  /\ Return(c)
  /\ UNCHANGED <<lockFile, alive, minted>>

-----------------------------------------------------------------------------
(* The environment.                                                        *)

Deadline(c) ==
  /\ ~At(c, "idle") /\ ~call[c].late
  /\ call' = [call EXCEPT ![c].late = TRUE]
  /\ UNCHANGED <<lockFile, alive, minted>>

\* A process ends, orderly or not, with all its calls.
Die(pid) ==
  /\ pid \in alive /\ alive' = alive \ {pid}
  /\ call' = [c \in Calls |-> IF call[c].me.pid = pid THEN IdleCall ELSE call[c]]
  /\ UNCHANGED <<lockFile, minted>>

\* Any new process of the host may get the id of a dead one.
Spawn(pid) ==
  /\ pid \notin alive /\ alive' = alive \cup {pid}
  /\ UNCHANGED <<lockFile, call, minted>>

\* Mutant: the operator trusts the clock instead of the owner's process.
RemoveOld ==
  /\ lockFile # NoOwner
  /\ lockFile' = NoOwner
  /\ UNCHANGED <<call, alive, minted>>

\* "manual inspection and explicit recovery" of a dead owner's lock.
Recover ==
  /\ lockFile # NoOwner /\ lockFile.pid \notin alive
  /\ lockFile' = NoOwner
  /\ UNCHANGED <<call, alive, minted>>

-----------------------------------------------------------------------------

Step(c) ==
  \/ Link(c) \/ Taken(c) \/ ReadOwner(c) \/ DeadOwner(c) \/ TimedOut(c) \/ Wait(c) \/ SetupFails(c)
  \/ Synced(c) \/ Leave(c) \/ Verify(c) \/ Unlink(c) \/ ReleaseFails(c)

Next ==
  \/ \E c \in Calls, pid \in Pids : Start(c, pid)
  \/ \E c \in Calls : Step(c) \/ Deadline(c)
  \/ \E pid \in Pids : Die(pid) \/ Spawn(pid)
  \/ Recover

Spec == Init /\ [][Next]_vars

-----------------------------------------------------------------------------
(* Safety.                                                                 *)

TypeOK ==
  /\ lockFile \in Owners \cup {NoOwner}
  /\ call \in [Calls -> CallRecords]
  /\ alive \subseteq Pids
  /\ minted \in Nat

\* From its link to its unlink, a live call finds its own record at the
\* lock's name, whatever other calls, dead processes with reused ids and the
\* operator do; so no two calls are inside together.
Exclusion ==
  /\ \A c \in Calls : call[c].pc \in Holding => lockFile = call[c].me
  /\ \A c, d \in Calls : {call[c].pc, call[d].pc} \subseteq Holding => c = d

\* Reading the file back and removing it are two steps; still nobody's lock
\* but its own call's is removed while its process lives, and none is taken
\* over.
OwnRelease ==
  [][lockFile # NoOwner /\ lockFile' # lockFile =>
       /\ lockFile' = NoOwner
       /\ \/ \E c \in Calls : call[c].me = lockFile /\ At(c, "unlink")
          \/ lockFile.pid \notin alive]_vars

\* "journal lock ... has a dead owner": a call that fails so has met a lock
\* that needs recovery.
DeadOwnerIsReal ==
  [][\A c \in Calls : DeadOwner(c) => lockFile.pid \notin alive /\ lockFile # NoOwner]_vars

holders == {c \in Calls : call[c].pc \in Holding}

Promise == INSTANCE LockPromise WITH abandoned <- lockFile # NoOwner /\ holders = {}

\* What waiters, deadlines, failures and deaths come to, seen from outside:
\* a call enters only a free lock, whoever died or failed before it (file-journal.ts
\* withLock).
KeepsPromise == Promise!PromiseSpec

\* Tokens tell calls apart.
TokensDistinct ==
  /\ \A c \in Calls : ~At(c, "idle") => /\ call[c].me \in Owners /\ call[c].me.token \in 1..minted
                                        /\ call[c].me.pid \in alive
  /\ \A c \in Calls : At(c, "idle") => call[c] = IdleCall
  /\ \A c, d \in Calls : c # d /\ ~At(c, "idle") /\ ~At(d, "idle") => call[c].me.token # call[d].me.token
  /\ lockFile # NoOwner => lockFile.token \in 1..minted
  /\ \A c \in Calls : call[c].pc \in {"try", "read", "judge"} => lockFile # call[c].me
  /\ \A c \in Calls : At(c, "judge") => call[c].seen # NoOwner

IInv == TypeOK /\ TokensDistinct /\ Exclusion

-----------------------------------------------------------------------------
(* Liveness.                                                               *)

FairSpec == Spec /\ \A c \in Calls : WF_vars(Step(c)) /\ WF_vars(Deadline(c))

\* With finitely many calls, every call returns, whatever locks the dead and
\* the failed left: it gets the lock, meets a dead owner, or times out.
CallsReturn == \A c \in Calls : ~At(c, "idle") ~> At(c, "idle")
=============================================================================
