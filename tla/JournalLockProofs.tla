-------------------------- MODULE JournalLockProofs --------------------------
(***************************************************************************)
(* Theorems about JournalLock, for any number of calls and process ids:    *)
(* mutual exclusion, releases that touch only the lock of their own call,  *)
(* and the refinement of LockPromise.                                      *)
(***************************************************************************)
EXTENDS JournalLock, TLAPS

-----------------------------------------------------------------------------
(* Facts about the data.                                                   *)

\* No call's owner record is the absence of one.
LEMMA NoOwnerIsNone == NoOwner \notin Owners
  BY PidsAssumption DEF NoOwner, Owners

\* The first half of Exclusion; fresh tokens and the exclusive link make the
\* second half follow.
OwnRecord == \A c \in Calls : call[c].pc \in Holding => lockFile = call[c].me

\* Calls that each find their own record at the lock's name are one.
LEMMA OneHolder == TokensDistinct /\ OwnRecord => Exclusion
<1> SUFFICES ASSUME TokensDistinct, OwnRecord,
                    NEW c \in Calls, NEW d \in Calls,
                    call[c].pc \in Holding, call[d].pc \in Holding, c # d
             PROVE  FALSE
  BY DEF Exclusion, OwnRecord
<1>1. call[c].me = call[d].me
  BY DEF OwnRecord
<1>2. ~At(c, "idle") /\ ~At(d, "idle")
  BY DEF Holding, At
<1> QED
  BY <1>1, <1>2 DEF TokensDistinct

\* What a step has to establish.
LEMMA NextInvParts == TypeOK' /\ TokensDistinct' /\ OwnRecord' => IInv'
<1>1. (TokensDistinct /\ OwnRecord => Exclusion)'
  BY OneHolder, PTL
<1> QED
  BY <1>1 DEF IInv

-----------------------------------------------------------------------------
(* The invariant, one lemma per kind of step.                              *)

\* Nobody holds or contends at first.
LEMMA InitInv == Init => IInv
  BY PidsAssumption
  DEF Init, IInv, TypeOK, TokensDistinct, Exclusion, CallRecords, IdleCall, NoOwner,
      Owners, Labels, Holding, At

\* A new call draws a token nobody has.
LEMMA StartInv ==
  ASSUME IInv, NEW c \in Calls, NEW pid \in Pids, Start(c, pid)
  PROVE  IInv'
<1>1. PICK new : /\ new = [IdleCall EXCEPT !.pc = "try", !.me = [token |-> minted + 1, pid |-> pid]]
                 /\ call' = [call EXCEPT ![c] = new]
  BY DEF Start
<1>2. /\ new.pc = "try" /\ new.me = [token |-> minted + 1, pid |-> pid]
      /\ new \in CallRecords /\ new.me \in Owners /\ new.me.token = minted + 1 /\ new.me.pid = pid
  <2>1. new.pc = "try" /\ new.me = [token |-> minted + 1, pid |-> pid]
    BY <1>1 DEF IdleCall
  <2>2. new.me \in Owners /\ new.me.token = minted + 1 /\ new.me.pid = pid
    BY <2>1 DEF Owners, IInv, TypeOK
  <2>3. IdleCall \in CallRecords
    BY DEF IdleCall, CallRecords, Labels
  <2>4. new \in CallRecords
    BY <1>1, <2>1, <2>2, <2>3 DEF CallRecords, Labels
  <2> QED
    BY <2>1, <2>2, <2>4
<1>3. minted \in Nat /\ minted' = minted + 1 /\ lockFile' = lockFile /\ alive' = alive /\ pid \in alive
  BY DEF Start, IInv, TypeOK
<1>4. call'[c] = new /\ \A d \in Calls \ {c} : call'[d] = call[d]
  BY <1>1 DEF IInv, TypeOK
<1>5. TypeOK'
  BY <1>1, <1>2, <1>3 DEF IInv, TypeOK
<1>6. TokensDistinct'
  BY <1>2, <1>3, <1>4, NoOwnerIsNone DEF IInv, TypeOK, TokensDistinct, At, Owners
<1>7. OwnRecord'
  BY <1>2, <1>3, <1>4 DEF IInv, Exclusion, Holding, OwnRecord
<1> QED
  BY <1>5, <1>6, <1>7, NextInvParts

\* A call returns, with or without the lock; the lock file stays.
LEMMA ReturnInv ==
  ASSUME IInv, NEW c \in Calls, Return(c), UNCHANGED <<lockFile, alive, minted>>
  PROVE  IInv'
<1>1. call'[c] = IdleCall /\ \A d \in Calls \ {c} : call'[d] = call[d]
  BY DEF Return, IInv, TypeOK
<1>2. IdleCall.pc = "idle" /\ IdleCall \in CallRecords
  BY DEF IdleCall, CallRecords, Labels, NoOwner
<1>3. TypeOK'
  BY <1>2 DEF IInv, TypeOK, Return
<1>4. TokensDistinct'
  BY <1>1, <1>2 DEF IInv, TypeOK, TokensDistinct, At
<1>5. OwnRecord'
  BY <1>1, <1>2 DEF IInv, Exclusion, Holding, OwnRecord
<1> QED
  BY <1>3, <1>4, <1>5, NextInvParts

\* A call moves on without touching the lock file; to hold the lock or to
\* contend for it it must have done so before.
LEMMA MoveInv ==
  ASSUME IInv, NEW c \in Calls, NEW l \in Labels \ {"idle", "judge"}, ~At(c, "idle"),
         l \in Holding => call[c].pc \in Holding,
         l \in {"try", "read"} => call[c].pc \in {"try", "read", "judge"},
         Goto(c, l), UNCHANGED <<lockFile, alive, minted>>
  PROVE  IInv'
<1>1. /\ call'[c].pc = l /\ call'[c].me = call[c].me /\ call'[c] \in CallRecords
      /\ \A d \in Calls \ {c} : call'[d] = call[d]
  BY DEF Goto, IInv, TypeOK, CallRecords
<1>2. TypeOK'
  BY <1>1 DEF IInv, TypeOK, Goto
<1>3. TokensDistinct'
  BY <1>1 DEF IInv, TypeOK, TokensDistinct, At
<1>4. OwnRecord'
  BY <1>1 DEF IInv, Exclusion, OwnRecord
<1> QED
  BY <1>2, <1>3, <1>4, NextInvParts

\* Nobody contends with an owner record that is at the lock's name already.
LEMMA LinkInv ==
  ASSUME IInv, NEW c \in Calls, Link(c)
  PROVE  IInv'
<1>1. /\ call'[c].pc = "sync" /\ call'[c].me = call[c].me /\ call'[c] \in CallRecords
      /\ \A d \in Calls \ {c} : call'[d] = call[d]
  BY DEF Link, Goto, IInv, TypeOK, CallRecords, Labels
<1>2. /\ call[c].pc = "try" /\ lockFile = NoOwner /\ lockFile' = call[c].me
      /\ alive' = alive /\ minted' = minted
  BY DEF Link, At
<1>3. call[c].me \in Owners /\ call[c].me.token \in 1..minted
  BY <1>2 DEF IInv, TokensDistinct, At
<1>4. TypeOK'
  BY <1>1, <1>2, <1>3 DEF IInv, TypeOK, Link, Goto
<1>5. TokensDistinct'
  BY <1>1, <1>2, <1>3 DEF IInv, TypeOK, TokensDistinct, At
<1>6. ASSUME NEW d \in Calls \ {c} PROVE call[d].pc \notin Holding
  <2>1. SUFFICES ASSUME call[d].pc \in Holding PROVE FALSE
    OBVIOUS
  <2>2. call[d].me = NoOwner /\ call[d].me \in Owners
    BY <1>2, <2>1 DEF IInv, Exclusion, TokensDistinct, At, Holding
  <2> QED
    BY <2>2, NoOwnerIsNone
<1>7. OwnRecord'
  BY <1>1, <1>2, <1>6 DEF OwnRecord
<1> QED
  BY <1>4, <1>5, <1>7, NextInvParts

\* Reading the owner changes what the caller knows, and nothing else.
LEMMA ReadOwnerInv ==
  ASSUME IInv, NEW c \in Calls, ReadOwner(c)
  PROVE  IInv'
<1>1. /\ call'[c].pc = IF lockFile = NoOwner THEN "try" ELSE "judge"
      /\ call'[c].seen = lockFile
      /\ call'[c].me = call[c].me /\ call'[c] \in CallRecords
      /\ \A d \in Calls \ {c} : call'[d] = call[d]
  BY DEF ReadOwner, IInv, TypeOK, CallRecords, Labels
<1>2. call[c].pc = "read" /\ UNCHANGED <<lockFile, alive, minted>>
  BY DEF ReadOwner, At
<1>3. TypeOK'
  BY <1>1, <1>2 DEF IInv, TypeOK, ReadOwner
<1>4. TokensDistinct'
  BY <1>1, <1>2 DEF IInv, TypeOK, TokensDistinct, At
<1>5. OwnRecord'
  BY <1>1, <1>2 DEF IInv, Exclusion, OwnRecord, Holding
<1> QED
  BY <1>3, <1>4, <1>5, NextInvParts

\* What is at the lock's name when the holder unlinks it is its own record.
LEMMA UnlinkInv ==
  ASSUME IInv, NEW c \in Calls, Unlink(c)
  PROVE  IInv'
<1>1. call'[c] = IdleCall /\ \A d \in Calls \ {c} : call'[d] = call[d]
  BY DEF Unlink, Return, IInv, TypeOK
<1>2. IdleCall.pc = "idle" /\ IdleCall \in CallRecords
  BY DEF IdleCall, CallRecords, Labels, NoOwner
<1>3. call[c].pc \in Holding /\ lockFile' = NoOwner /\ UNCHANGED <<alive, minted>>
  BY DEF Unlink, At, Holding
<1>4. TypeOK'
  BY <1>1, <1>2, <1>3 DEF IInv, TypeOK, Unlink, Return
<1>5. \A d \in Calls : ~At(d, "idle") => call[d].me # NoOwner
  BY NoOwnerIsNone DEF IInv, TokensDistinct
<1>6. TokensDistinct'
  BY <1>1, <1>2, <1>3, <1>5 DEF IInv, TypeOK, TokensDistinct, At
<1>7. OwnRecord'
  BY <1>1, <1>2, <1>3 DEF IInv, Exclusion, OwnRecord, Holding
<1> QED
  BY <1>4, <1>6, <1>7, NextInvParts

\* Time running out changes nothing about the lock file.
LEMMA DeadlineInv ==
  ASSUME IInv, NEW c \in Calls, Deadline(c)
  PROVE  IInv'
<1>1. /\ call'[c].pc = call[c].pc /\ call'[c].me = call[c].me /\ call'[c].seen = call[c].seen
      /\ call'[c] \in CallRecords
      /\ \A d \in Calls \ {c} : call'[d] = call[d]
  BY DEF Deadline, IInv, TypeOK, CallRecords
<1>2. call[c].pc # "idle" /\ UNCHANGED <<lockFile, alive, minted>>
  BY DEF Deadline, At
<1>3. TypeOK'
  BY <1>1, <1>2 DEF IInv, TypeOK, Deadline
<1>4. TokensDistinct'
  BY <1>1, <1>2 DEF IInv, TypeOK, TokensDistinct, At
<1>5. OwnRecord'
  BY <1>1, <1>2 DEF IInv, Exclusion, OwnRecord
<1> QED
  BY <1>3, <1>4, <1>5, NextInvParts

\* A process that dies leaves its record, and its calls are no longer any.
LEMMA DieInv ==
  ASSUME IInv, NEW pid \in Pids, Die(pid)
  PROVE  IInv'
<1>1. \A d \in Calls : call'[d] = IF call[d].me.pid = pid THEN IdleCall ELSE call[d]
  BY DEF Die
<1>2. IdleCall.pc = "idle" /\ IdleCall \in CallRecords
  BY DEF IdleCall, CallRecords, Labels, NoOwner
<1>3. alive' = alive \ {pid} /\ lockFile' = lockFile /\ minted' = minted
  BY DEF Die
<1>4. TypeOK'
  BY <1>2, <1>3 DEF IInv, TypeOK, Die
<1>5. TokensDistinct'
  BY <1>1, <1>2, <1>3 DEF IInv, TypeOK, TokensDistinct, At
<1>6. OwnRecord'
  BY <1>1, <1>2, <1>3 DEF IInv, Exclusion, OwnRecord, Holding
<1> QED
  BY <1>4, <1>5, <1>6, NextInvParts

\* A process that starts has no calls yet.
LEMMA SpawnInv ==
  ASSUME IInv, NEW pid \in Pids, Spawn(pid)
  PROVE  IInv'
<1>1. alive' = alive \cup {pid} /\ UNCHANGED <<lockFile, call, minted>>
  BY DEF Spawn
<1>2. TypeOK' /\ TokensDistinct' /\ OwnRecord'
  BY <1>1 DEF IInv, TypeOK, TokensDistinct, Exclusion, OwnRecord, At
<1> QED
  BY <1>2, NextInvParts

\* The operator removes only what no live call holds: a holder's own record
\* names its live process.
LEMMA RecoverInv ==
  ASSUME IInv, Recover
  PROVE  IInv'
<1>1. lockFile.pid \notin alive /\ lockFile' = NoOwner /\ UNCHANGED <<call, alive, minted>>
  BY DEF Recover
<1>2. ASSUME NEW d \in Calls PROVE call[d].pc \notin Holding
  BY <1>1 DEF IInv, TokensDistinct, Exclusion, Holding, At
<1>3. \A d \in Calls : ~At(d, "idle") => call[d].me # NoOwner
  BY NoOwnerIsNone DEF IInv, TokensDistinct
<1>4. TypeOK'
  BY <1>1 DEF IInv, TypeOK
<1>5. TokensDistinct'
  BY <1>1, <1>3 DEF IInv, TokensDistinct, At
<1>6. OwnRecord'
  BY <1>1, <1>2 DEF OwnRecord
<1> QED
  BY <1>4, <1>5, <1>6, NextInvParts

\* Every step of a call.
LEMMA StepInv ==
  ASSUME IInv, NEW c \in Calls, Step(c)
  PROVE  IInv'
<1>1. CASE Link(c)
  BY <1>1, LinkInv
<1>2. CASE Taken(c)
  BY <1>2, MoveInv DEF Taken, At, Labels, Holding
<1>3. CASE ReadOwner(c)
  BY <1>3, ReadOwnerInv
<1>4. CASE DeadOwner(c) \/ TimedOut(c) \/ SetupFails(c) \/ ReleaseFails(c)
  BY <1>4, ReturnInv DEF DeadOwner, TimedOut, SetupFails, ReleaseFails
<1>5. CASE Wait(c)
  BY <1>5, MoveInv DEF Wait, At, Labels, Holding
<1>6. CASE Synced(c)
  BY <1>6, MoveInv DEF Synced, At, Labels, Holding
<1>7. CASE Leave(c)
  BY <1>7, MoveInv DEF Leave, At, Labels, Holding
<1>8. CASE Verify(c)
  <2>1. lockFile = call[c].me
    BY <1>8 DEF Verify, At, Holding, IInv, Exclusion
  <2> QED
    BY <1>8, <2>1, MoveInv DEF Verify, At, Labels, Holding
<1>9. CASE Unlink(c)
  BY <1>9, UnlinkInv
<1> QED
  BY <1>1, <1>2, <1>3, <1>4, <1>5, <1>6, <1>7, <1>8, <1>9 DEF Step

\* Every step of the system.
LEMMA NextInv == IInv /\ [Next]_vars => IInv'
<1> SUFFICES ASSUME IInv, [Next]_vars PROVE IInv'
  OBVIOUS
<1>1. CASE UNCHANGED vars
  BY <1>1 DEF vars, IInv, TypeOK, TokensDistinct, Exclusion, At
<1>2. CASE Next
  BY <1>2, StartInv, StepInv, DeadlineInv, DieInv, SpawnInv, RecoverInv DEF Next
<1> QED
  BY <1>1, <1>2

-----------------------------------------------------------------------------
(* The theorems.                                                           *)

\* The inductive invariant: tokens tell calls apart, a contender's record is
\* not at the lock's name, and a holder's is.
THEOREM Invariance == Spec => []IInv
  BY InitInv, NextInv, PTL DEF Spec

\* Two calls of withLock are never in the section together, and a holder
\* finds its own record until it removes it.
THEOREM MutualExclusion == Spec => []Exclusion
<1>1. IInv => Exclusion
  BY DEF IInv
<1> QED
  BY <1>1, Invariance, PTL

-----------------------------------------------------------------------------
(* Releases.                                                               *)

\* A step that changes an existing lock file is its owner's unlink or the
\* recovery of a dead owner's lock.
LEMMA WhoRemoves ==
  ASSUME IInv, Next, lockFile # NoOwner, lockFile' # lockFile
  PROVE  (\E c \in Calls : Unlink(c)) \/ Recover
<1>1. ASSUME NEW c \in Calls, Step(c) PROVE Unlink(c)
  BY <1>1 DEF Step, Link, Taken, ReadOwner, DeadOwner, TimedOut, Wait, SetupFails, Synced,
              Leave, Verify, Unlink, ReleaseFails
<1> QED
  BY <1>1 DEF Next, Start, Deadline, Die, Spawn

\* What leaves the lock's name is the holder's own record or a dead owner's.
LEMMA ReleaseStep ==
  IInv /\ [Next]_vars => [lockFile # NoOwner /\ lockFile' # lockFile =>
       /\ lockFile' = NoOwner
       /\ \/ \E c \in Calls : call[c].me = lockFile /\ At(c, "unlink")
          \/ lockFile.pid \notin alive]_vars
<1> SUFFICES ASSUME IInv, Next, lockFile # NoOwner, lockFile' # lockFile
             PROVE  /\ lockFile' = NoOwner
                    /\ \/ \E c \in Calls : call[c].me = lockFile /\ At(c, "unlink")
                       \/ lockFile.pid \notin alive
  BY DEF vars
<1>1. CASE Recover
  BY <1>1 DEF Recover
<1>2. ASSUME NEW c \in Calls, Unlink(c)
      PROVE  lockFile' = NoOwner /\ call[c].me = lockFile /\ At(c, "unlink")
  BY <1>2 DEF Unlink, IInv, Exclusion, Holding, At
<1> QED
  BY <1>1, <1>2, WhoRemoves

\* Although the file is read back in one step and removed in a later one,
\* only its own call, or the recovery of a dead owner's lock, removes it.
THEOREM ReleasesAreOwn == Spec => OwnRelease
  BY Invariance, ReleaseStep, PTL DEF Spec, OwnRelease

-----------------------------------------------------------------------------
(* The refinement.                                                         *)

\* At first nobody has been promised anything.
LEMMA PromiseStart == Init => Promise!PromiseInit
  BY DEF Init, Promise!PromiseInit, holders, IdleCall, Holding

\* Only a holder's step can change the set of holders, besides a link and a
\* death.
LEMMA OnlyHolder ==
  ASSUME IInv, NEW c \in Calls, call[c].pc \in Holding
  PROVE  holders = {c} /\ lockFile # NoOwner
<1>1. lockFile = call[c].me /\ call[c].me \in Owners
  BY DEF IInv, Exclusion, TokensDistinct, At, Holding
<1>2. \A d \in Calls : call[d].pc \in Holding => c = d
  BY DEF IInv, Exclusion
<1> QED
  BY <1>1, <1>2, NoOwnerIsNone DEF holders

\* A step that leaves the lock file and every call's standing alone.
LEMMA Stutter ==
  ASSUME lockFile' = lockFile,
         \A d \in Calls : call'[d].pc \in Holding <=> call[d].pc \in Holding
  PROVE  UNCHANGED <<holders, (lockFile # NoOwner /\ holders = {})>>
  BY DEF holders

\* The link that succeeds is the promise's acquisition.
LEMMA PromiseLink ==
  ASSUME IInv, NEW c \in Calls, Link(c)
  PROVE  Promise!Acquire(c)
<1>1. /\ \A d \in Calls : call'[d].pc = IF d = c THEN "sync" ELSE call[d].pc
      /\ lockFile = NoOwner
  BY DEF Link, Goto, IInv, TypeOK, CallRecords
<1>2. holders = {}
  BY <1>1, OnlyHolder DEF holders
<1>3. holders' = {c}
  BY <1>1, <1>2 DEF holders, Holding
<1> QED
  BY <1>1, <1>2, <1>3 DEF Promise!Acquire

\* A holder that returns, however it does, releases.
LEMMA PromiseReturn ==
  ASSUME IInv, NEW c \in Calls, Return(c), call[c].pc \in Holding
  PROVE  Promise!Release(c)
<1>1. holders = {c}
  BY OnlyHolder
<1>2. \A d \in Calls : call'[d].pc = IF d = c THEN "idle" ELSE call[d].pc
  BY DEF Return, IdleCall, IInv, TypeOK
<1>3. holders' = {}
  BY <1>1, <1>2 DEF holders, Holding
<1> QED
  BY <1>1, <1>3 DEF Promise!Release

\* Every step of a call is one of the promise or none.
LEMMA PromiseStep ==
  ASSUME IInv, NEW c \in Calls, Step(c)
  PROVE  [Promise!PromiseNext]_Promise!promiseVars
<1>1. CASE Link(c)
  BY <1>1, PromiseLink DEF Promise!PromiseNext
<1>2. CASE Return(c) /\ call[c].pc \in Holding
  BY <1>2, PromiseReturn DEF Promise!PromiseNext
<1>3. CASE Return(c) /\ call[c].pc \notin Holding /\ lockFile' = lockFile
  <2>1. \A d \in Calls : call'[d].pc = IF d = c THEN "idle" ELSE call[d].pc
    BY <1>3 DEF Return, IdleCall, IInv, TypeOK
  <2> QED
    BY <1>3, <2>1, Stutter DEF Holding, Promise!promiseVars
<1>4. ASSUME NEW l, Goto(c, l), l \in Holding <=> call[c].pc \in Holding, lockFile' = lockFile
      PROVE  UNCHANGED Promise!promiseVars
  <2>1. \A d \in Calls : call'[d].pc = IF d = c THEN l ELSE call[d].pc
    BY <1>4 DEF Goto, IInv, TypeOK, CallRecords
  <2> QED
    BY <1>4, <2>1, Stutter DEF Promise!promiseVars
<1>5. CASE Taken(c) \/ Wait(c) \/ Synced(c) \/ Leave(c)
  BY <1>4, <1>5 DEF Taken, Wait, Synced, Leave, At, Holding
<1>6. CASE ReadOwner(c)
  <2>1. \A d \in Calls : call'[d].pc \in Holding <=> call[d].pc \in Holding
    BY <1>6 DEF ReadOwner, At, Holding, IInv, TypeOK, CallRecords
  <2> QED
    BY <1>6, <2>1, Stutter DEF ReadOwner, Promise!promiseVars
<1>7. CASE DeadOwner(c) \/ TimedOut(c) \/ SetupFails(c)
  BY <1>3, <1>7 DEF DeadOwner, TimedOut, SetupFails, At, Holding
<1>8. CASE Unlink(c) \/ ReleaseFails(c)
  BY <1>2, <1>8 DEF Unlink, ReleaseFails, At, Holding
<1>9. CASE Verify(c)
  <2>1. lockFile = call[c].me
    BY <1>9 DEF Verify, At, Holding, IInv, Exclusion
  <2> QED
    BY <1>4, <1>9, <2>1 DEF Verify, At, Holding
<1> QED
  BY <1>1, <1>5, <1>6, <1>7, <1>8, <1>9 DEF Step

\* At most one of the calls that die with a process holds the lock.
LEMMA PromiseDie ==
  ASSUME IInv, NEW pid \in Pids, Die(pid)
  PROVE  [Promise!PromiseNext]_Promise!promiseVars
<1>1. /\ lockFile' = lockFile
      /\ \A d \in Calls : call'[d].pc = IF call[d].me.pid = pid THEN "idle" ELSE call[d].pc
  BY DEF Die, IdleCall
<1>2. CASE \E c \in Calls : call[c].pc \in Holding /\ call[c].me.pid = pid
  <2>1. PICK c \in Calls : call[c].pc \in Holding /\ call[c].me.pid = pid
    BY <1>2
  <2>2. holders = {c}
    BY <2>1, OnlyHolder
  <2>3. holders' = {}
    BY <1>1, <2>1, <2>2 DEF holders, Holding
  <2> QED
    BY <2>2, <2>3 DEF Promise!Release, Promise!PromiseNext
<1>3. CASE ~ \E c \in Calls : call[c].pc \in Holding /\ call[c].me.pid = pid
  <2>1. \A d \in Calls : call'[d].pc \in Holding <=> call[d].pc \in Holding
    BY <1>1, <1>3 DEF Holding
  <2> QED
    BY <1>1, <2>1, Stutter DEF Promise!promiseVars
<1> QED
  BY <1>2, <1>3

\* The operator frees a lock that was left behind.
LEMMA PromiseRecover ==
  ASSUME IInv, Recover
  PROVE  Promise!Clear
<1>1. ASSUME NEW d \in Calls PROVE call[d].pc \notin Holding
  BY DEF Recover, IInv, TokensDistinct, Exclusion, Holding, At
<1>2. holders = {} /\ holders' = {}
  BY <1>1 DEF Recover, holders
<1> QED
  BY <1>2 DEF Recover, Promise!Clear

\* Every step of the lock is one of the promise or none.
LEMMA PromiseKept ==
  IInv /\ [Next]_vars => [Promise!PromiseNext]_Promise!promiseVars
<1> SUFFICES ASSUME IInv, [Next]_vars
             PROVE  [Promise!PromiseNext]_Promise!promiseVars
  OBVIOUS
<1>1. CASE UNCHANGED vars
  BY <1>1, Stutter DEF vars, Promise!promiseVars
<1>2. ASSUME NEW c \in Calls, NEW pid \in Pids, Start(c, pid)
      PROVE  UNCHANGED Promise!promiseVars
  <2>1. \A d \in Calls : call'[d].pc = IF d = c THEN "try" ELSE call[d].pc
    BY <1>2 DEF Start, IdleCall, IInv, TypeOK
  <2> QED
    BY <1>2, <2>1, Stutter DEF Start, At, Holding, Promise!promiseVars
<1>3. ASSUME NEW c \in Calls, Deadline(c)
      PROVE  UNCHANGED Promise!promiseVars
  <2>1. \A d \in Calls : call'[d].pc = call[d].pc
    BY <1>3 DEF Deadline, IInv, TypeOK, CallRecords
  <2> QED
    BY <1>3, <2>1, Stutter DEF Deadline, Promise!promiseVars
<1>4. ASSUME NEW pid \in Pids, Spawn(pid)
      PROVE  UNCHANGED Promise!promiseVars
  BY <1>4, Stutter DEF Spawn, Promise!promiseVars
<1>5. CASE Recover
  BY <1>5, PromiseRecover DEF Promise!PromiseNext
<1> QED
  BY <1>1, <1>2, <1>3, <1>4, <1>5, PromiseStep, PromiseDie DEF Next

\* withLock, with its files, waiters, deadlines, failures and deaths, is a
\* lock with one holder that dies with its holder until somebody clears it.
THEOREM LockKeepsPromise == Spec => KeepsPromise
  BY PromiseStart, PromiseKept, Invariance, PTL DEF Spec, KeepsPromise, Promise!PromiseSpec
=============================================================================
