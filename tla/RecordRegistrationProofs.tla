---------------------- MODULE RecordRegistrationProofs ----------------------
(***************************************************************************)
(* Safety of the registration verdict, for any number of processes and     *)
(* faults.                                                                 *)
(***************************************************************************)
EXTENDS RecordRegistration, TLAPS

\* What the invariant says of one call and its record, put together.
Good(c, p, r, l, w) ==
  /\ c \in Call
  /\ c.pc \in {"save", "exit"} /\ c.next = "registered" => w = "ours"
  /\ c.pc \in InSection => l = p
  /\ c.pc \in InSection \ {"load"} => c.seen = r /\ r # "registered"
  /\ c.pc \in {"post", "await", "reconcile"} => c.seen # "rejected"
  /\ c.pc = "save" => c.next \in Verdicts /\ (c.next = "pending" => c.seen = "pending")

\* The invariant, call by call.
LEMMA CallByCall ==
  IInv <=> /\ record \in Verdicts /\ survivors \subseteq Verdicts
           /\ lock \in Procs \cup {"free", "dead"}
           /\ row \in Rows /\ posted \in BOOLEAN /\ faults \in Nat
           /\ "registered" \in survivors \cup {record} => row = "ours"
           /\ record \in survivors
           /\ call = [p \in Procs |-> call[p]]
           /\ \A p \in Procs : Good(call[p], p, record, lock, row)
BY DEF IInv, TypeOK, RegisteredTruthful, Justified, Good

\* The same after a step.
LEMMA CallByCallNext ==
  IInv' <=> (/\ record \in Verdicts /\ survivors \subseteq Verdicts
             /\ lock \in Procs \cup {"free", "dead"}
             /\ row \in Rows /\ posted \in BOOLEAN /\ faults \in Nat
             /\ "registered" \in survivors \cup {record} => row = "ours"
             /\ record \in survivors
             /\ call = [p \in Procs |-> call[p]]
             /\ \A p \in Procs : Good(call[p], p, record, lock, row))'
BY CallByCall, PTL

\* A step of one call that writes no file: enough that the call stays good,
\* and that the lock is not taken from another.
LEMMA CallMoves ==
  ASSUME IInv, NEW p \in Procs, NEW c, call' = [call EXCEPT ![p] = c],
         Good(c, p, record, lock', row),
         lock' \in Procs \cup {"free", "dead"}, lock \notin Procs \ {p} \/ lock' = lock,
         posted' \in BOOLEAN, UNCHANGED <<record, survivors, row, faults>>
  PROVE  IInv'
<1>1. \A q \in Procs : call'[q] = IF q = p THEN c ELSE call[q]
  BY CallByCall
<1>2. ASSUME NEW q \in Procs  PROVE Good(call'[q], q, record, lock', row)
  <2>1. CASE q = p
    BY <1>1, <2>1
  <2>2. CASE q # p
    <3>1. Good(call[q], q, record, lock, row)
      BY CallByCall
    <3>2. call[q].pc \in InSection => lock' = lock
      BY <2>2, <3>1 DEF Good
    <3>. QED  BY <1>1, <2>2, <3>1, <3>2 DEF Good
  <2>. QED  BY <2>1, <2>2
<1>. QED  BY <1>1, <1>2, CallByCall, CallByCallNext

\* Entering and leaving the section.
LEMMA LockSteps ==
  ASSUME IInv, NEW p \in Procs, NEW k \in Kinds,
         Start(p, k) \/ AcquireLock(p) \/ LockUnavailable(p) \/ Exit(p)
  PROVE  IInv'
<1>1. Good(call[p], p, record, lock, row)
  BY CallByCall
<1>2. {"lock", "load", "exit", "idle"} \subseteq Labels /\ "error" \notin Verdicts
  BY DEF Labels, Verdicts
<1>3. CASE Start(p, k)
  <2>1. PICK c : c = [IdleCall EXCEPT !.pc = "lock", !.kind = k]
    OBVIOUS
  <2>2. Good(c, p, record, lock, row)
    BY <2>1, <1>2 DEF Good, Call, IdleCall, InSection, Kinds, Verdicts
  <2>. QED  BY <1>3, <2>1, <2>2, CallMoves, CallByCall DEF Start, indexVars, journalVars
<1>4. CASE AcquireLock(p)
  <2>1. PICK c : c = [call[p] EXCEPT !.pc = "load"]
    OBVIOUS
  <2>2. Good(c, p, record, p, row)
    BY <1>1, <1>2, <1>4, <2>1 DEF Good, Call, InSection
  <2>3. call' = [call EXCEPT ![p] = c]
    BY <1>4, <2>1 DEF AcquireLock, Goto
  <2>. QED  BY <1>4, <2>2, <2>3, CallMoves, CallByCall, ProcsAssumption
            DEF AcquireLock, indexVars, journalVars
<1>5. CASE LockUnavailable(p)
  <2>1. PICK c : c = [call[p] EXCEPT !.pc = "exit", !.next = "error"]
    OBVIOUS
  <2>2. Good(c, p, record, lock, row)
    BY <1>1, <1>2, <2>1 DEF Good, Call, InSection
  <2>3. call' = [call EXCEPT ![p] = c]
    BY <1>1, <1>5, <2>1, CallByCall DEF LockUnavailable, Fail, Good, Call
  <2>. QED  BY <1>5, <2>2, <2>3, CallMoves, CallByCall DEF LockUnavailable, indexVars, journalVars
<1>6. CASE Exit(p)
  <2>1. Good(IdleCall, p, record, lock', row)
    BY <1>2 DEF Good, Call, IdleCall, InSection, Kinds, Verdicts
  <2>2. PICK c : c = IdleCall
    OBVIOUS
  <2>. QED  BY <1>6, <2>1, <2>2, CallMoves, CallByCall, ProcsAssumption
            DEF Exit, indexVars, journalVars
<1>. QED  BY <1>3, <1>4, <1>5, <1>6

\* Deciding an outcome that is truthful and forgets nothing.
LEMMA Deciding ==
  ASSUME IInv, NEW p \in Procs, NEW v \in Verdicts, Decide(p, v),
         call[p].pc \in {"await", "reconcile", "fetch"},
         v = "registered" => row = "ours", v = "pending" => call[p].seen = "pending",
         UNCHANGED <<record, survivors, lock, row, posted, faults>>
  PROVE  IInv'
<1>1. Good(call[p], p, record, lock, row)
  BY CallByCall
<1>2. "save" \in Labels
  BY DEF Labels
<1>3. PICK c : c = [call[p] EXCEPT !.pc = "save", !.next = v]
  OBVIOUS
<1>4. Good(c, p, record, lock, row)
  BY <1>1, <1>2, <1>3 DEF Good, Call, InSection
<1>5. call' = [call EXCEPT ![p] = c]
  BY <1>1, <1>3 DEF Decide, Good, Call
<1>. QED  BY <1>4, <1>5, CallMoves, CallByCall

\* Reading the record.
LEMMA LoadStep ==
  ASSUME IInv, NEW p \in Procs, Load(p)
  PROVE  IInv'
<1>1. Good(call[p], p, record, lock, row) /\ record \in Verdicts
  BY CallByCall
<1>2. {"exit", "post", "fetch", "save"} \subseteq Labels
  BY DEF Labels
<1>3. call[p].kind \in {"retry", "check"}
  BY <1>1 DEF Good, Call, Kinds
<1>4. PICK l \in {"exit", "post", "fetch", "save"} :
        /\ call' = [call EXCEPT ![p] = [call[p] EXCEPT !.seen = record, !.next = record, !.pc = l]]
        /\ l = "exit" <=> record = "registered"
        /\ l = "post" => record # "rejected"
        /\ l = "save" => record = "rejected"
  <2>1. CASE record = "registered"
    BY <1>1, <2>1 DEF Load, At, Good, Call
  <2>2. CASE record # "registered" /\ call[p].kind = "check"
    BY <1>1, <2>2 DEF Load, At, Good, Call
  <2>3. CASE record = "rejected" /\ call[p].kind = "retry"
    BY <1>1, <2>3 DEF Load, At, Good, Call
  <2>4. CASE record \in {"pending", "conflict"} /\ call[p].kind = "retry"
    BY <1>1, <2>4 DEF Load, At, Good, Call
  <2>. QED  BY <1>1, <1>3, <2>1, <2>2, <2>3, <2>4 DEF Verdicts
<1>5. PICK c : c = [call[p] EXCEPT !.seen = record, !.next = record, !.pc = l]
  OBVIOUS
<1>6. record = "registered" => row = "ours"
  BY CallByCall
<1>7. Good(c, p, record, lock, row)
  BY <1>1, <1>2, <1>4, <1>5, <1>6 DEF Good, Call, InSection, Load, At, Verdicts
<1>. QED  BY <1>4, <1>5, <1>7, CallMoves, CallByCall DEF Load, journalVars, indexVars

\* The requests to the index and their answers.
LEMMA IndexSteps ==
  ASSUME IInv, NEW p \in Procs,
         Throw(p) \/ Post(p) \/ PostAnswered(p) \/ Reconcile(p) \/ Fetch(p)
  PROVE  IInv'
<1>1. Good(call[p], p, record, lock, row)
  BY CallByCall
<1>2. {"exit", "await", "reconcile"} \subseteq Labels
  BY DEF Labels
<1>3. {"registered", "conflict", "pending", "rejected"} \subseteq Verdicts
  BY DEF Verdicts
<1>4. ASSUME Fail(p), UNCHANGED <<record, survivors, lock, row, posted, faults>>  PROVE IInv'
  <2>1. PICK c : c = [call[p] EXCEPT !.pc = "exit", !.next = "error"]
    OBVIOUS
  <2>2. Good(c, p, record, lock, row)
    BY <1>1, <1>2, <2>1 DEF Good, Call, InSection
  <2>3. call' = [call EXCEPT ![p] = c]
    BY <1>1, <1>4, <2>1 DEF Fail, Good, Call
  <2>. QED  BY <1>4, <2>2, <2>3, CallMoves, CallByCall
<1>5. CASE Throw(p)
  BY <1>4, <1>5 DEF Throw, journalVars, indexVars
<1>6. ASSUME NEW l \in {"await", "reconcile"}, Goto(p, l), At(p, "post") \/ At(p, "await"),
             UNCHANGED <<record, survivors, lock, row, faults>>, posted' \in BOOLEAN
      PROVE  IInv'
  <2>1. PICK c : c = [call[p] EXCEPT !.pc = l]
    OBVIOUS
  <2>2. Good(c, p, record, lock, row)
    BY <1>1, <1>2, <1>6, <2>1 DEF Good, Call, InSection, At
  <2>3. call' = [call EXCEPT ![p] = c]
    BY <1>6, <2>1 DEF Goto
  <2>. QED  BY <1>6, <2>2, <2>3, CallMoves, CallByCall
<1>7. CASE Post(p)
  BY <1>6, <1>7 DEF Post, journalVars
<1>8. call[p].pc \in {"await", "reconcile"} =>
        /\ ReconcileFailure(call[p].seen) \in {"conflict", "pending"}
        /\ ReconcileFailure(call[p].seen) = "pending" => call[p].seen = "pending"
  BY <1>1 DEF ReconcileFailure, Good, Call, Verdicts, InSection
<1>9. CASE PostAnswered(p)
  <2>1. CASE Goto(p, "reconcile")
    BY <1>6, <1>9, <2>1, CallByCall DEF PostAnswered, journalVars, indexVars
  <2>2. CASE row = "ours" /\ Decide(p, "registered")
    BY <1>3, <1>9, <2>2, Deciding DEF PostAnswered, At, journalVars, indexVars
  <2>3. CASE Decide(p, "rejected")
    BY <1>3, <1>9, <2>3, Deciding DEF PostAnswered, At, journalVars, indexVars
  <2>4. CASE Decide(p, ReconcileFailure(call[p].seen))
    BY <1>3, <1>8, <1>9, <2>4, Deciding DEF PostAnswered, At, journalVars, indexVars
  <2>. QED  BY <1>9, <2>1, <2>2, <2>3, <2>4 DEF PostAnswered
<1>10. CASE Reconcile(p)
  <2>1. CASE Decide(p, ReconcileFailure(call[p].seen))
    BY <1>3, <1>8, <1>10, <2>1, Deciding DEF Reconcile, At, journalVars, indexVars
  <2>2. ASSUME NEW r \in Answers, Decide(p, IF RowMatches(r) THEN "registered" ELSE "conflict")
        PROVE  IInv'
    <3>1. RowMatches(r) => row = "ours"
      BY <2>2 DEF RowMatches, Answers
    <3>. QED  BY <1>3, <1>10, <2>2, <3>1, Deciding DEF Reconcile, At, journalVars, indexVars
  <2>. QED  BY <1>10, <2>1, <2>2 DEF Reconcile
<1>11. CASE Fetch(p)
  <2>1. CASE Fail(p)
    BY <1>4, <1>11, <2>1 DEF Fetch, journalVars, indexVars
  <2>2. ASSUME NEW r \in Answers,
               Decide(p, IF r = "none" THEN call[p].seen
                         ELSE IF RowMatches(r) THEN "registered" ELSE "conflict")
        PROVE  IInv'
    <3>1. RowMatches(r) => row = "ours"
      BY <2>2 DEF RowMatches, Answers
    <3>2. call[p].seen \in Verdicts /\ call[p].seen # "registered"
      BY <1>1, <1>11 DEF Fetch, At, Good, Call, InSection
    <3>. QED  BY <1>3, <1>11, <2>2, <3>1, <3>2, Deciding DEF Fetch, At, journalVars, indexVars
  <2>. QED  BY <1>11, <2>1, <2>2 DEF Fetch
<1>. QED  BY <1>5, <1>7, <1>9, <1>10, <1>11

\* What a save may leave: the old record, the new one, or either.
LEMMA Saved ==
  ASSUME IInv, NEW p \in Procs, Save(p)
  PROVE  /\ call[p].next \in Verdicts
         /\ call[p].next = "registered" => row = "ours"
         /\ call[p].next = "pending" => record = "pending"
         /\ record # "registered" /\ lock = p
         /\ record' \in {record, call[p].next}
         /\ record' \in survivors' /\ survivors' \subseteq survivors \cup {call[p].next}
<1>1. Good(call[p], p, record, lock, row) /\ record \in survivors
  BY CallByCall
<1>2. call[p].pc = "save"
  BY DEF Save, At
<1>. QED  BY <1>1, <1>2 DEF Save, Good, InSection, journalVars

\* The save of the owner: nobody else relies on the record.
LEMMA SaveStep ==
  ASSUME IInv, NEW p \in Procs, Save(p)
  PROVE  IInv'
<1>1. Good(call[p], p, record, lock, row)
  BY CallByCall
<1>2. "exit" \in Labels
  BY DEF Labels
<1>3. \A q \in Procs : call'[q] = IF q = p THEN [call[p] EXCEPT !.pc = "exit"] ELSE call[q]
  BY CallByCall DEF Save, Goto
<1>4. ASSUME NEW q \in Procs  PROVE Good(call'[q], q, record', lock, row)
  <2>1. CASE q = p
    BY <1>1, <1>2, <1>3, <2>1, Saved DEF Good, Call, InSection
  <2>2. CASE q # p
    <3>1. Good(call[q], q, record, lock, row)
      BY CallByCall
    <3>2. call[q].pc \notin InSection
      BY <2>2, <3>1, Saved DEF Good
    <3>. QED  BY <1>3, <2>2, <3>1, <3>2 DEF Good, InSection
  <2>. QED  BY <2>1, <2>2
<1>5. faults' \in Nat
  BY CallByCall DEF Save
<1>6. call' = [q \in Procs |-> call'[q]]
  BY CallByCall DEF Save, Goto
<1>7. UNCHANGED <<lock, row, posted>>
  BY DEF Save, indexVars
<1>8. "registered" \in survivors' \cup {record'} => row = "ours"
  BY Saved, CallByCall
<1>9. record' \in Verdicts /\ survivors' \subseteq Verdicts /\ record' \in survivors'
  BY Saved, CallByCall
<1>. QED  BY <1>4, <1>5, <1>6, <1>7, <1>8, <1>9, CallByCall, CallByCallNext

\* The index, a dying process, a power loss and the operator.
LEMMA EnvironmentSteps ==
  ASSUME IInv, PostArrives \/ ForeignRow \/ (\E p \in Procs : Crash(p)) \/ PowerLoss \/ ClearDeadLock
  PROVE  IInv'
<1>1. \A p \in Procs : Good(IdleCall, p, record', lock', row')
  BY DEF Good, Call, IdleCall, InSection, Labels, Kinds, Verdicts
<1>2. CASE PostArrives
  <2>1. \A p \in Procs : Good(call[p], p, record, lock, "ours")
    BY CallByCall DEF Good
  <2>. QED  BY <1>2, <2>1, CallByCall, CallByCallNext DEF PostArrives, journalVars, Rows
<1>3. CASE ForeignRow
  <2>1. \A p \in Procs : Good(call[p], p, record, lock, "other")
    BY <1>3, CallByCall DEF Good, ForeignRow
  <2>. QED  BY <1>3, <2>1, CallByCall, CallByCallNext DEF ForeignRow, journalVars, Rows
<1>4. ASSUME NEW p \in Procs, Crash(p)  PROVE IInv'
  <2>1. PICK c : c = IdleCall
    OBVIOUS
  <2>2. lock' \in {lock, "dead"} /\ (lock \in Procs \ {p} => lock' = lock)
    BY <1>4 DEF Crash
  <2>3. \A q \in Procs : call'[q] = IF q = p THEN IdleCall ELSE call[q]
    BY <1>4, CallByCall DEF Crash
  <2>4. ASSUME NEW q \in Procs  PROVE Good(call'[q], q, record, lock', row)
    <3>1. Good(call[q], q, record, lock, row)
      BY CallByCall
    <3>2. UNCHANGED <<record, row>>
      BY <1>4 DEF Crash, journalVars, indexVars
    <3>3. CASE q = p
      BY <1>1, <2>3, <3>2, <3>3
    <3>4. CASE q # p
      BY <2>2, <2>3, <3>1, <3>4 DEF Good
    <3>. QED  BY <3>3, <3>4
  <2>5. call' = [q \in Procs |-> call'[q]]
    BY <1>4, CallByCall DEF Crash
  <2>6. UNCHANGED <<record, survivors, row, posted>> /\ faults' \in Nat
    BY <1>4, CallByCall DEF Crash, journalVars, indexVars
  <2>. QED  BY <2>2, <2>4, <2>5, <2>6, CallByCall, CallByCallNext
<1>5. CASE PowerLoss
  <2>1. \A p \in Procs : call'[p] = IdleCall
    BY <1>5 DEF PowerLoss
  <2>2. lock' \in {"free", "dead"} /\ faults' \in Nat /\ UNCHANGED <<row, posted>>
    BY <1>5, CallByCall DEF PowerLoss, indexVars
  <2>3. record' \in survivors /\ survivors' = {record'}
    BY <1>5 DEF PowerLoss
  <2>4. call' = [p \in Procs |-> call'[p]]
    BY <1>5 DEF PowerLoss
  <2>. QED  BY <1>1, <2>1, <2>2, <2>3, <2>4, CallByCall, CallByCallNext
<1>6. CASE ClearDeadLock
  <2>1. \A p \in Procs : Good(call[p], p, record, "free", row)
    BY <1>6, CallByCall, ProcsAssumption DEF Good, ClearDeadLock
  <2>. QED  BY <1>6, <2>1, CallByCall, CallByCallNext DEF ClearDeadLock, journalVars, indexVars
<1>. QED  BY <1>2, <1>3, <1>4, <1>5, <1>6

\* Every step keeps the invariant.
LEMMA Inductive == IInv /\ [Next]_vars => IInv'
<1> SUFFICES ASSUME IInv, [Next]_vars  PROVE IInv'
  OBVIOUS
<1>1. CASE UNCHANGED vars
  BY <1>1, CallByCall, CallByCallNext DEF vars
<1>2. ASSUME NEW p \in Procs, NEW k \in Kinds, Start(p, k)  PROVE IInv'
  BY <1>2, LockSteps
<1>3. ASSUME NEW p \in Procs, Step(p)  PROVE IInv'
  <2>1. "retry" \in Kinds
    BY DEF Kinds
  <2>. QED  BY <1>3, <2>1, LockSteps, LoadStep, IndexSteps, SaveStep DEF Step
<1>. QED  BY <1>1, <1>2, <1>3, EnvironmentSteps DEF Next

\* A fresh settlement satisfies it.
LEMMA Initially == Init => IInv
<1> SUFFICES ASSUME Init  PROVE IInv
  OBVIOUS
<1>1. \A p \in Procs : Good(IdleCall, p, record, lock, row)
  BY DEF Good, Call, IdleCall, InSection, Labels, Kinds, Verdicts
<1>. QED  BY <1>1, CallByCall DEF Init, Verdicts, Rows

\* For any processes and faults, the journal's record, the lock and the calls
\* agree as IInv says.
THEOREM Invariance == Spec => []IInv
BY Initially, Inductive, PTL DEF Spec

\* "registered" is never stored or reported without our row in the index.
THEOREM RegistrationIsTruthful == Spec => []RegisteredTruthful
<1>1. IInv => RegisteredTruthful
  BY DEF IInv
<1>. QED  BY <1>1, Invariance, PTL

\* A durable verdict is never lost, and a durable "registered" is final.
THEOREM VerdictIsKept == Spec => VerdictKept
<1> DEFINE Kept == /\ survivors = {"registered"} => survivors' = {"registered"}
                   /\ "pending" \notin survivors => "pending" \notin survivors'
<1>1. IInv /\ [Next]_vars => [Kept]_vars
  <2> SUFFICES ASSUME IInv, Next  PROVE Kept
    BY DEF vars
  <2>1. record \in survivors
    BY CallByCall
  <2>2. ASSUME NEW p \in Procs, Save(p)  PROVE Kept
    BY <2>1, <2>2, Saved
  <2>3. CASE PowerLoss
    BY <2>3 DEF PowerLoss
  <2>4. CASE UNCHANGED survivors
    BY <2>4
  <2>5. (\E p \in Procs : Save(p)) \/ PowerLoss \/ UNCHANGED survivors
    BY DEF Next, Step, Start, AcquireLock, LockUnavailable, Load, Throw, Post, PostAnswered,
           Reconcile, Fetch, Exit, PostArrives, ForeignRow, Crash, ClearDeadLock, journalVars
  <2>. QED  BY <2>2, <2>3, <2>4, <2>5
<1>. QED  BY <1>1, Invariance, PTL DEF Spec, VerdictKept
=============================================================================
