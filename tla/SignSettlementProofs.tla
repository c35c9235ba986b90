------------------------ MODULE SignSettlementProofs ------------------------
(***************************************************************************)
(* IInv of SignSettlement is inductive for every set of processes and      *)
(* operations and every bound, and the safety properties follow from it.   *)
(***************************************************************************)
EXTENDS SignSettlement, TLAPS

Locks == Procs \cup {"free", "dead"}

\* A step that writes no record file: process p's call becomes c, which must
\* hold its locks and rely only on what is true.
LEMMA CallStep ==
  ASSUME CoreInv, NEW p \in Procs, NEW c \in Call,
         call' = [call EXCEPT ![p] = c],
         c.pc # "idle" => c.op \in Ops,
         UNCHANGED <<journalVars, networkVars>>,
         minted' \in Nat, faults' \in Nat,
         opLock' \in [Ops -> Locks], accountLock' \in Locks,
         \A q \in Procs \ {p} : HoldsLocks(q, call[q])',
         HoldsLocks(p, c)', Justified(c), ReportTruthful(c)
  PROVE  CoreInv'
<1> USE DEF CoreInv, TypeOK
<1>1. \A q \in Procs : call'[q] = IF q = p THEN c ELSE call[q]
  OBVIOUS
<1>2. TypeOK'
  BY <1>1 DEF Locks, journalVars, networkVars
<1>3. ReadableSurvives'
  BY DEF ReadableSurvives, journalVars
<1>4. CallInv'
  <2>1. \A d : Justified(d)' <=> Justified(d)
    BY DEF Justified, Unspent, journalVars, networkVars
  <2>2. \A q \in Procs : Justified(call[q])
    BY DEF CallInv
  <2>3. \A q \in Procs : Justified(call'[q])
    BY <1>1, <2>2
  <2>4. \A q \in Procs : Justified(call[q])'
    BY <2>3 DEF Justified, Unspent, journalVars, networkVars
  <2>5. \A q \in Procs : HoldsLocks(q, call[q])'
    BY <1>1 DEF HoldsLocks
  <2>. QED  BY <2>4, <2>5 DEF CallInv
<1>5. EvidenceDurable'
  BY DEF EvidenceDurable, journalVars, networkVars
<1>6. SettlementTruthful'
  BY <1>1 DEF SettlementTruthful, ReportTruthful, journalVars, networkVars
<1>. QED  BY <1>2, <1>3, <1>4, <1>5, <1>6

\* What a call relies on stays true while nobody else writes its operation,
\* and nobody writes a reservation.
LEMMA JustifiedStable ==
  ASSUME NEW c \in Call, Justified(c), submitted' = submitted, certified' = certified,
         c.pc \in UnderOpLock \cup UnderAccountLock =>
           /\ journal'.ops[c.op] = journal.ops[c.op]
           /\ survivors'.ops[c.op] \subseteq survivors.ops[c.op]
           /\ journal'.ops[c.op] \in survivors'.ops[c.op],
         \A n \in Nonces : /\ survivors'.resv[n] \subseteq survivors.resv[n]
                           /\ journal'.resv[n] \in survivors'.resv[n]
                           /\ journal'.resv[n] = journal.resv[n]
  PROVE  Justified(c)'
<1>1. CASE c.pc \in {"submit"}
  <2>1. c.tx \in Tx /\ c.tx.nonce \in Nonces
    BY <1>1 DEF Justified, BeforeSubmit, Tx
  <2>. QED  BY <1>1, <2>1 DEF Justified, Unspent, UnderAccountLock, BeforeSubmit
<1>2. CASE c.pc \in BeforeSubmit \ {"submit"}
  <2>1. c.tx \in Tx /\ c.tx.nonce \in Nonces
    BY <1>2 DEF Justified, Tx
  <2>. QED  BY <1>2, <2>1 DEF Justified, Unspent, BeforeSubmit
<1>3. CASE c.pc \in {"read_nonce", "bind", "save_settled"}
  BY <1>3 DEF Justified, UnderOpLock, UnderAccountLock, BeforeSubmit
<1>4. CASE c.pc \notin BeforeSubmit \cup {"read_nonce", "bind", "save_settled"}
  BY <1>4 DEF Justified, BeforeSubmit
<1>. QED  BY <1>1, <1>2, <1>3, <1>4

\* A step that writes the record file of process p's operation, whose lock it
\* holds.  No other call relies on that file; and what it may write over a
\* submitted operation keeps the evidence of that submission.
LEMMA OpWritten ==
  ASSUME CoreInv, NEW p \in Procs, NEW e \in Entry, NEW out \in Outcomes, NEW c \in Call,
         call[p].op \in Ops, opLock[call[p].op] = p,
         Structured(e), e.state # "absent", e.tx.op = call[p].op,
         e.state = "settled" => e.tx \in certified,
         \A t \in submitted : t.op = call[p].op =>
           e.state \in {"submission_unknown", "settled"} /\ e.tx = t,
         SaveOp(call[p].op, e, out),
         call' = [call EXCEPT ![p] = c], c.op = call[p].op,
         UNCHANGED <<lockVars, networkVars, minted>>,
         HoldsLocks(p, c), Justified(c)', ReportTruthful(c)
  PROVE  CoreInv'
<1> DEFINE o == call[p].op
<1> USE DEF CoreInv, TypeOK
<1>1. \A q \in Procs : call'[q] = IF q = p THEN c ELSE call[q]
  OBVIOUS
<1>2. /\ journal' \in [ops : [Ops -> Entry], resv : [Nonces -> Reservation]]
      /\ journal'.resv = journal.resv
      /\ journal'.ops[o] \in {journal.ops[o], e}
      /\ \A x \in Ops \ {o} : journal'.ops[x] = journal.ops[x]
  BY DEF SaveOp
<1>3. /\ survivors' \in [ops : [Ops -> SUBSET Entry], resv : [Nonces -> SUBSET Reservation]]
      /\ \A x \in Ops : journal'.ops[x] \in survivors'.ops[x]
      /\ \A n \in Nonces : journal'.resv[n] \in survivors'.resv[n]
      /\ survivors'.ops[o] \subseteq survivors.ops[o] \cup {e}
      /\ \A x \in Ops \ {o} : survivors'.ops[x] \subseteq survivors.ops[x]
      /\ \A n \in Nonces : survivors'.resv[n] \subseteq survivors.resv[n]
  <2>1. CASE out = "ok"
    <3>1. survivors' = [ops |-> [x \in Ops |-> {journal'.ops[x]}],
                        resv |-> [n \in Nonces |-> {journal'.resv[n]}]]
      BY <2>1 DEF SaveOp, Synced
    <3>2. journal'.ops[o] = e
      BY <2>1 DEF SaveOp
    <3>3. /\ \A x \in Ops : survivors'.ops[x] = {journal'.ops[x]}
          /\ \A n \in Nonces : survivors'.resv[n] = {journal'.resv[n]}
          /\ \A x \in Ops : journal.ops[x] \in survivors.ops[x]
          /\ \A n \in Nonces : journal.resv[n] \in survivors.resv[n]
      BY <3>1 DEF ReadableSurvives
    <3>4. survivors' \in [ops : [Ops -> SUBSET Entry], resv : [Nonces -> SUBSET Reservation]]
      BY <1>2, <3>1
    <3>. QED  BY <1>2, <3>2, <3>3, <3>4
  <2>2. CASE out = "lost"
    BY <2>2 DEF SaveOp, ReadableSurvives
  <2>3. CASE out = "torn"
    <3>1. survivors' = [survivors EXCEPT !.ops[o] = @ \cup {e}]
      BY <2>3 DEF SaveOp
    <3>2. journal' = [journal EXCEPT !.ops[o] = e]
      BY <2>3 DEF SaveOp
    <3>3. ReadableSurvives /\ survivors \in [ops : [Ops -> SUBSET Entry], resv : [Nonces -> SUBSET Reservation]]
          /\ journal \in [ops : [Ops -> Entry], resv : [Nonces -> Reservation]]
      OBVIOUS
    <3>. HIDE DEF CoreInv, TypeOK
    <3>4. /\ \A x \in Ops : survivors'.ops[x] = IF x = o THEN survivors.ops[x] \cup {e} ELSE survivors.ops[x]
          /\ survivors'.resv = survivors.resv
      BY <3>1, <3>3
    <3>5. survivors' \in [ops : [Ops -> SUBSET Entry], resv : [Nonces -> SUBSET Reservation]]
      BY <3>1, <3>3
    <3>6. journal'.ops[o] = e
      BY <3>2, <3>3
    <3>. QED  BY <1>2, <3>3, <3>4, <3>5, <3>6 DEF ReadableSurvives
  <2>. QED  BY <2>1, <2>2, <2>3 DEF Outcomes
<1>4. faults' \in Nat
  BY DEF SaveOp, Fault
<1>5. TypeOK'
  <2>1. \A x \in Ops : \A d \in survivors'.ops[x] \cup {journal'.ops[x]} :
           Structured(d) /\ (d.state # "absent" => d.tx.op = x)
    BY <1>2, <1>3
  <2>2. call' \in [Procs -> Call] /\ \A q \in Procs : call'[q].pc # "idle" => call'[q].op \in Ops
    BY <1>1
  <2>. QED  BY <2>1, <2>2, <1>2, <1>3, <1>4 DEF lockVars, networkVars
<1>6. ReadableSurvives'
  BY <1>3 DEF ReadableSurvives
<1>7. EvidenceDurable'
  BY <1>3 DEF EvidenceDurable, networkVars, ReadableSurvives, Tx
<1>8. SettlementTruthful'
  BY <1>1, <1>2, <1>3 DEF SettlementTruthful, ReportTruthful, networkVars, Structured
<1>9. CallInv'
  <2>1. HoldsLocks(p, call[p])' /\ Justified(call[p])'
    BY <1>1 DEF HoldsLocks, lockVars
  <2>2. ASSUME NEW q \in Procs, q # p  PROVE  HoldsLocks(q, call[q])' /\ Justified(call[q])'
    <3>1. call'[q] = call[q] /\ HoldsLocks(q, call[q]) /\ Justified(call[q])
      BY <1>1, <2>2 DEF CallInv
    <3>2. HoldsLocks(q, call[q])'
      BY <3>1 DEF HoldsLocks, lockVars
    <3>3. call[q].pc \in UnderOpLock \cup UnderAccountLock => call[q].op # o
      BY <3>1, <2>2 DEF HoldsLocks
    <3>4. call[q].pc # "idle" => call[q].op \in Ops
      OBVIOUS
    <3>5. Justified(call[q])'
      <4>1. PICK d \in Call : d = call[q] /\ d = call'[q]
        BY <3>1
      <4>2. d.pc \in UnderOpLock \cup UnderAccountLock =>
                 /\ journal'.ops[d.op] = journal.ops[d.op]
                 /\ survivors'.ops[d.op] \subseteq survivors.ops[d.op]
                 /\ journal'.ops[d.op] \in survivors'.ops[d.op]
        BY <1>2, <1>3, <3>3, <3>4, <4>1 DEF UnderOpLock, UnderAccountLock
      <4>3. \A n \in Nonces : survivors'.resv[n] \subseteq survivors.resv[n]
                             /\ journal'.resv[n] \in survivors'.resv[n]
                             /\ journal'.resv[n] = journal.resv[n]
        BY <1>2, <1>3
      <4>4. submitted' = submitted /\ certified' = certified
        BY DEF networkVars
      <4>5. Justified(d)'
        BY <3>1, <4>1, <4>2, <4>3, <4>4, JustifiedStable
      <4>. QED  BY <4>1, <4>5
    <3>. QED  BY <3>1, <3>2, <3>5
  <2>. QED  BY <2>1, <2>2 DEF CallInv
<1>. QED  BY <1>5, <1>6, <1>7, <1>8, <1>9

\* A step that writes the reservation of the nonce of process p's frozen
\* transaction, which holds the account lock and has not been submitted.
LEMMA ReservationWritten ==
  ASSUME CoreInv, NEW p \in Procs, NEW r \in Reservation, NEW out \in Outcomes, NEW c \in Call,
         accountLock = p, call[p].op \in Ops, call[p].tx \in Tx, Unspent(call[p]),
         SaveReservation(call[p].tx.nonce, r, out),
         call' = [call EXCEPT ![p] = c], c.op \in Ops,
         UNCHANGED <<lockVars, networkVars, minted>>,
         HoldsLocks(p, c), Justified(c)', ReportTruthful(c)
  PROVE  CoreInv'
<1> DEFINE n == call[p].tx.nonce
<1> USE DEF CoreInv, TypeOK
<1>1. \A q \in Procs : call'[q] = IF q = p THEN c ELSE call[q]
  OBVIOUS
<1>2. /\ n \in Nonces
      /\ journal' \in [ops : [Ops -> Entry], resv : [Nonces -> Reservation]]
      /\ journal'.ops = journal.ops
      /\ \A m \in Nonces \ {n} : journal'.resv[m] = journal.resv[m]
  BY DEF SaveReservation, Tx
<1>3. /\ survivors' \in [ops : [Ops -> SUBSET Entry], resv : [Nonces -> SUBSET Reservation]]
      /\ \A x \in Ops : journal'.ops[x] \in survivors'.ops[x]
      /\ \A m \in Nonces : journal'.resv[m] \in survivors'.resv[m]
      /\ \A x \in Ops : survivors'.ops[x] \subseteq survivors.ops[x]
      /\ \A m \in Nonces \ {n} : survivors'.resv[m] \subseteq survivors.resv[m]
  <2>1. CASE out = "ok"
    <3>1. survivors' = [ops |-> [x \in Ops |-> {journal'.ops[x]}],
                        resv |-> [m \in Nonces |-> {journal'.resv[m]}]]
      BY <2>1 DEF SaveReservation, Synced
    <3>2. /\ \A x \in Ops : survivors'.ops[x] = {journal'.ops[x]}
          /\ \A m \in Nonces : survivors'.resv[m] = {journal'.resv[m]}
          /\ \A x \in Ops : journal.ops[x] \in survivors.ops[x]
          /\ \A m \in Nonces : journal.resv[m] \in survivors.resv[m]
      BY <3>1 DEF ReadableSurvives
    <3>3. survivors' \in [ops : [Ops -> SUBSET Entry], resv : [Nonces -> SUBSET Reservation]]
      BY <1>2, <3>1
    <3>. QED  BY <1>2, <3>2, <3>3
  <2>2. CASE out = "lost"
    BY <2>2 DEF SaveReservation, ReadableSurvives
  <2>3. CASE out = "torn"
    <3>1. survivors' = [survivors EXCEPT !.resv[n] = @ \cup {r}]
      BY <2>3 DEF SaveReservation
    <3>2. journal' = [journal EXCEPT !.resv[n] = r]
      BY <2>3 DEF SaveReservation
    <3>3. ReadableSurvives /\ survivors \in [ops : [Ops -> SUBSET Entry], resv : [Nonces -> SUBSET Reservation]]
          /\ journal \in [ops : [Ops -> Entry], resv : [Nonces -> Reservation]]
      OBVIOUS
    <3>. HIDE DEF CoreInv, TypeOK
    <3>4. /\ \A m \in Nonces : survivors'.resv[m] = IF m = n THEN survivors.resv[m] \cup {r} ELSE survivors.resv[m]
          /\ survivors'.ops = survivors.ops
      BY <1>2, <3>1, <3>3
    <3>5. survivors' \in [ops : [Ops -> SUBSET Entry], resv : [Nonces -> SUBSET Reservation]]
      BY <1>2, <3>1, <3>3
    <3>6. journal'.resv[n] = r
      BY <1>2, <3>2, <3>3
    <3>. QED  BY <1>2, <3>3, <3>4, <3>5, <3>6 DEF ReadableSurvives
  <2>. QED  BY <2>1, <2>2, <2>3 DEF Outcomes
<1>4. faults' \in Nat
  BY DEF SaveReservation, Fault
<1>5. TypeOK'
  <2>1. \A x \in Ops : \A d \in survivors'.ops[x] \cup {journal'.ops[x]} :
           Structured(d) /\ (d.state # "absent" => d.tx.op = x)
    BY <1>2, <1>3
  <2>2. call' \in [Procs -> Call] /\ \A q \in Procs : call'[q].pc # "idle" => call'[q].op \in Ops
    BY <1>1
  <2>. QED  BY <2>1, <2>2, <1>2, <1>3, <1>4 DEF lockVars, networkVars
<1>6. ReadableSurvives'
  BY <1>3 DEF ReadableSurvives
<1>7. EvidenceDurable'
  <2>1. ASSUME NEW t \in submitted
        PROVE  /\ \A e \in survivors'.ops[t.op] :
                    e.state \in {"submission_unknown", "settled"} /\ e.tx = t
               /\ survivors'.resv[t.nonce] = {t.op}
    <3>1. t.op \in Ops /\ t.nonce \in Nonces \ {n}
      BY DEF Tx, Unspent
    <3>. QED  BY <1>3, <3>1 DEF EvidenceDurable
  <2>. QED  BY <2>1 DEF EvidenceDurable, networkVars
<1>8. SettlementTruthful'
  BY <1>1, <1>2, <1>3 DEF SettlementTruthful, ReportTruthful, networkVars, Structured
<1>9. CallInv'
  <2>1. HoldsLocks(p, call[p])' /\ Justified(call[p])'
    BY <1>1 DEF HoldsLocks, lockVars
  <2>2. ASSUME NEW q \in Procs, q # p  PROVE  HoldsLocks(q, call[q])' /\ Justified(call[q])'
    <3>1. call'[q] = call[q] /\ HoldsLocks(q, call[q]) /\ Justified(call[q])
      BY <1>1, <2>2 DEF CallInv
    <3>2. HoldsLocks(q, call[q])'
      BY <3>1 DEF HoldsLocks, lockVars
    <3>3. call[q].pc \notin UnderAccountLock
      BY <3>1, <2>2 DEF HoldsLocks
    <3>4. Justified(call[q])'
      BY <1>2, <3>1, <3>3 DEF Justified, Unspent, networkVars, UnderAccountLock, BeforeSubmit
    <3>. QED  BY <3>1, <3>2, <3>4
  <2>. QED  BY <2>1, <2>2 DEF CallInv
<1>. QED  BY <1>5, <1>6, <1>7, <1>8, <1>9

-----------------------------------------------------------------------------

\* What the invariant says of one call.
LEMMA CallFacts ==
  ASSUME CoreInv, NEW p \in Procs
  PROVE  /\ call[p] \in Call
         /\ call[p].pc # "idle" => call[p].op \in Ops
         /\ HoldsLocks(p, call[p]) /\ Justified(call[p]) /\ ReportTruthful(call[p])
BY DEF CoreInv, TypeOK, CallInv, SettlementTruthful

\* Goto and Return change the label of a call, and its result.
LEMMA Relabel ==
  ASSUME CoreInv, NEW p \in Procs, NEW l \in Labels
  PROVE  /\ [call[p] EXCEPT !.pc = l] \in Call
         /\ Goto(p, l) => call' = [call EXCEPT ![p] = [call[p] EXCEPT !.pc = l]]
<1>1. call \in [Procs -> Call]
  BY DEF CoreInv, TypeOK
<1>. QED  BY <1>1 DEF Call, Goto

\* Return puts one record in place of the call's.
LEMMA Relabel2 ==
  ASSUME CoreInv, NEW p \in Procs, NEW r \in Results
  PROVE  /\ [call[p] EXCEPT !.pc = "exit", !.result = r] \in Call
         /\ Return(p, r) =>
              call' = [call EXCEPT ![p] = [call[p] EXCEPT !.pc = "exit", !.result = r]]
<1>1. call \in [Procs -> Call]
  BY DEF CoreInv, TypeOK
<1>2. "exit" \in Labels
  BY DEF Labels
<1>. QED  BY <1>1, <1>2 DEF Call, Return

\* Giving up: the call returns, and claims no settlement it cannot show.
LEMMA Returning ==
  ASSUME CoreInv, NEW p \in Procs, NEW r \in Results, Return(p, r), call[p].pc # "idle",
         r \in {"settled", "unpersisted"} => \E t \in certified : t.op = call[p].op,
         call[p].kind = "registerReceipt" => call[p].cert \in certified /\ call[p].cert.op = call[p].op,
         UNCHANGED <<journalVars, lockVars, networkVars, minted, faults>>
  PROVE  CoreInv'
<1>1. PICK c \in Call : /\ c = [call[p] EXCEPT !.pc = "exit", !.result = r]
                        /\ call' = [call EXCEPT ![p] = c]
  BY Relabel2
<1>2. c.pc = "exit" /\ c.op = call[p].op /\ c.op \in Ops /\ c.result = r
      /\ c.kind = call[p].kind /\ c.cert = call[p].cert
  BY <1>1, CallFacts DEF Call
<1>3. Justified(c) /\ HoldsLocks(p, c)' /\ ReportTruthful(c)
  BY <1>2 DEF Justified, HoldsLocks, ReportTruthful, UnderOpLock, UnderAccountLock, BeforeSubmit
<1>4. \A q \in Procs \ {p} : HoldsLocks(q, call[q])'
  BY CallFacts, <1>1 DEF HoldsLocks, lockVars, CoreInv, TypeOK
<1>. QED  BY <1>1, <1>2, <1>3, <1>4, CallStep DEF lockVars, CoreInv, TypeOK, Locks

\* Taking, missing and dropping the locks.
LEMMA LockSteps ==
  ASSUME CoreInv, NEW p \in Procs,
         AcquireOpLock(p) \/ AcquireAccountLock(p) \/ LockUnavailable(p) \/ Exit(p) \/ Throw(p)
  PROVE  CoreInv'
<1> USE CallFacts
<1>1. CASE AcquireOpLock(p)
  <2>1. PICK l \in Labels : l = AfterOpLock(p)
        /\ (call[p].kind = "registerReceipt" => l = "import")
        /\ (call[p].kind # "registerReceipt" => l \in {"load", "observe"})
    BY <1>1 DEF AcquireOpLock, AfterOpLock, At, Justified, Call, Kinds, Labels
  <2>2. PICK c \in Call : /\ c = [call[p] EXCEPT !.pc = l]
                          /\ call' = [call EXCEPT ![p] = c]
    BY <1>1, <2>1, Relabel DEF AcquireOpLock
  <2>3. /\ c.op = call[p].op /\ c.op \in Ops /\ c.pc = l /\ c.kind = call[p].kind
        /\ c.cert = call[p].cert /\ opLock' = [opLock EXCEPT ![c.op] = p]
        /\ opLock[c.op] = "free" /\ call[p].pc = "op_lock"
    BY <1>1, <2>2 DEF AcquireOpLock, Call, At
  <2>4. HoldsLocks(p, c)'
    BY <2>1, <2>3 DEF HoldsLocks, UnderAccountLock, CoreInv, TypeOK
  <2>5. Justified(c)
    BY <2>1, <2>3 DEF Justified, BeforeSubmit
  <2>6. \A q \in Procs \ {p} : HoldsLocks(q, call[q])'
    BY <1>1, <2>2, <2>3, ProcsAssumption
       DEF HoldsLocks, AcquireOpLock, CoreInv, TypeOK
  <2>7. ReportTruthful(c)
    BY <2>1, <2>3 DEF ReportTruthful
  <2>8. opLock' \in [Ops -> Locks] /\ accountLock' \in Locks
    BY <1>1, <2>3 DEF AcquireOpLock, Locks, CoreInv, TypeOK
  <2>. QED
    BY <1>1, <2>2, <2>3, <2>4, <2>5, <2>6, <2>7, <2>8, CallStep DEF AcquireOpLock, CoreInv, TypeOK
<1>2. CASE AcquireAccountLock(p)
  <2>1. PICK c \in Call : /\ c = [call[p] EXCEPT !.pc = "load_current"]
                          /\ call' = [call EXCEPT ![p] = c]
    <3>1. "load_current" \in Labels
      BY DEF Labels
    <3>. QED  BY <1>2, <3>1, Relabel DEF AcquireAccountLock
  <2>2. /\ c.op = call[p].op /\ c.op \in Ops /\ c.pc = "load_current" /\ c.kind = call[p].kind
        /\ c.cert = call[p].cert /\ opLock[c.op] = p /\ accountLock' = p /\ accountLock = "free"
    BY <1>2, <2>1 DEF AcquireAccountLock, Call, At, HoldsLocks, UnderOpLock
  <2>3. HoldsLocks(p, c)' /\ Justified(c) /\ ReportTruthful(c)
    BY <1>2, <2>2 DEF AcquireAccountLock, HoldsLocks, Justified, ReportTruthful, BeforeSubmit, At
  <2>4. \A q \in Procs \ {p} : HoldsLocks(q, call[q])'
    BY <1>2, <2>1, <2>2, ProcsAssumption DEF HoldsLocks, AcquireAccountLock, CoreInv, TypeOK
  <2>5. opLock' \in [Ops -> Locks] /\ accountLock' \in Locks
    BY <1>2, <2>2 DEF AcquireAccountLock, Locks, CoreInv, TypeOK
  <2>. QED
    BY <1>2, <2>1, <2>2, <2>3, <2>4, <2>5, CallStep DEF AcquireAccountLock, CoreInv, TypeOK
<1>3. CASE LockUnavailable(p)
  <2>. QED  BY <1>3, Returning DEF LockUnavailable, At, Results, Justified
<1>4. CASE Exit(p)
  <2>1. IdleCall \in Call
    BY DEF IdleCall, Call, Labels, Kinds, Results
  <2>2. PICK c \in Call : c = IdleCall /\ call' = [call EXCEPT ![p] = c]
    BY <1>4, <2>1 DEF Exit
  <2>3. HoldsLocks(p, c)' /\ Justified(c) /\ ReportTruthful(c) /\ c.pc = "idle"
    BY <2>2 DEF IdleCall, HoldsLocks, Justified, ReportTruthful, UnderOpLock, UnderAccountLock,
                BeforeSubmit
  <2>4. \A q \in Procs \ {p} : HoldsLocks(q, call[q])'
    BY <1>4, <2>2 DEF HoldsLocks, Exit, CoreInv, TypeOK, UnderOpLock, UnderAccountLock
  <2>5. opLock' \in [Ops -> Locks] /\ accountLock' \in Locks
    BY <1>4 DEF Exit, Locks, CoreInv, TypeOK
  <2>. QED
    BY <1>4, <2>2, <2>3, <2>4, <2>5, CallStep DEF Exit, CoreInv, TypeOK
<1>5. CASE Throw(p)
  <2>. QED  BY <1>5, Returning DEF Throw, Results, Justified
<1>. QED  BY <1>1, <1>2, <1>3, <1>4, <1>5

\* The steps that also set a field of the call.
LEMMA Updated ==
  ASSUME CoreInv, NEW p \in Procs, NEW l \in Labels
  PROVE  /\ call \in [Procs -> Call] /\ minted + 1 \in Nat
         /\ \A t \in Tx : [call[p] EXCEPT !.pc = l, !.tx = t] \in Call
         /\ \A t \in Tx : [call[p] EXCEPT !.pc = l, !.cert = t] \in Call
         /\ \A b \in BOOLEAN : [call[p] EXCEPT !.pc = l, !.fresh = b] \in Call
         /\ \A b \in BOOLEAN : [call[p] EXCEPT !.pc = l, !.created = b] \in Call
<1>1. call \in [Procs -> Call] /\ minted \in Nat
  BY DEF CoreInv, TypeOK
<1>2. call[p] \in Call
  BY <1>1
<1>3. \A t \in Tx : [call[p] EXCEPT !.pc = l, !.tx = t] \in Call
  BY <1>2 DEF Call
<1>4. \A t \in Tx : [call[p] EXCEPT !.pc = l, !.cert = t] \in Call
  BY <1>2 DEF Call
<1>5. \A b \in BOOLEAN : [call[p] EXCEPT !.pc = l, !.fresh = b] \in Call
  BY <1>2 DEF Call
<1>6. \A b \in BOOLEAN : [call[p] EXCEPT !.pc = l, !.created = b] \in Call
  BY <1>2 DEF Call
<1>7. minted + 1 \in Nat
  BY <1>1
<1>. QED  BY <1>1, <1>3, <1>4, <1>5, <1>6, <1>7

\* A call that moves to label l and changes neither locks nor files.
LEMMA Moving ==
  ASSUME CoreInv, NEW p \in Procs, NEW c \in Call,
         call' = [call EXCEPT ![p] = c],
         c.pc # "idle" => c.op \in Ops,
         HoldsLocks(p, c), Justified(c), ReportTruthful(c),
         UNCHANGED <<journalVars, lockVars, networkVars, faults>>, minted' \in Nat
  PROVE  CoreInv'
<1>1. HoldsLocks(p, c)'
  BY DEF HoldsLocks, lockVars
<1>2. \A q \in Procs \ {p} : HoldsLocks(q, call[q])'
  BY CallFacts DEF HoldsLocks, lockVars, CoreInv, TypeOK
<1>. QED  BY <1>1, <1>2, CallStep DEF lockVars, CoreInv, TypeOK, Locks

\* What is on file for the operation of a call that is under way.
LEMMA StoredFacts ==
  ASSUME CoreInv, NEW p \in Procs, call[p].pc # "idle"
  PROVE  /\ Stored(p) \in Entry /\ Structured(Stored(p))
         /\ Stored(p).state # "absent" => Stored(p).tx \in Tx /\ Stored(p).tx.op = call[p].op
         /\ Stored(p).state = "settled" =>
              Stored(p).receipt = Stored(p).tx /\ Stored(p).tx \in certified
         /\ \A t \in submitted : t.op = call[p].op =>
              Stored(p).state \in {"submission_unknown", "settled"} /\ Stored(p).tx = t
<1>1. call[p].op \in Ops
  BY CallFacts
<1>2. Stored(p) \in Entry /\ Stored(p) \in survivors.ops[call[p].op]
  BY <1>1 DEF Stored, CoreInv, TypeOK, ReadableSurvives
<1>3. Structured(Stored(p)) /\ (Stored(p).state # "absent" => Stored(p).tx.op = call[p].op)
  BY <1>1, <1>2 DEF CoreInv, TypeOK
<1>4. Stored(p).state # "absent" => Stored(p).tx \in Tx
  BY <1>2, <1>3 DEF Structured, Entry
<1>. QED  BY <1>1, <1>2, <1>3, <1>4 DEF CoreInv, SettlementTruthful, EvidenceDurable

\* The steps of a call that neither write a file nor move a lock.
LEMMA ReadingSteps ==
  ASSUME CoreInv, NEW p \in Procs,
         \/ LoadExisting(p) \/ LoadCurrent(p) \/ ReadNonce(p) \/ Sign(p)
         \/ SubmitReply(p) \/ Observe(p)
  PROVE  CoreInv'
<1> USE CallFacts
<1>1. CASE LoadExisting(p)
  <2>1. CASE Stored(p).state \in {"submission_unknown", "settled"}
    <3>1. PICK r \in Results : r = ReportStored(Stored(p)) /\ Return(p, r)
                              /\ (r = "settled" => Stored(p).state = "settled")
                              /\ r \in {"settled", "unknown"}
      BY <1>1, <2>1 DEF LoadExisting, ReportStored, Results
    <3>. QED  BY <1>1, <3>1, StoredFacts, Returning DEF LoadExisting, At, Justified
  <2>2. CASE Stored(p).state \notin {"submission_unknown", "settled"}
    <3>1. PICK c \in Call : c = [call[p] EXCEPT !.pc = "account_lock"]
                           /\ call' = [call EXCEPT ![p] = c]
      <4>1. "account_lock" \in Labels
        BY DEF Labels
      <4>. QED  BY <1>1, <2>2, <4>1, Relabel DEF LoadExisting
    <3>2. c.op \in Ops /\ HoldsLocks(p, c) /\ Justified(c) /\ ReportTruthful(c)
      BY <1>1, <3>1 DEF LoadExisting, At, Call, HoldsLocks, Justified, ReportTruthful,
                        UnderOpLock, UnderAccountLock, BeforeSubmit
    <3>. QED  BY <1>1, <3>1, <3>2, Moving DEF LoadExisting, CoreInv, TypeOK
  <2>. QED  BY <2>1, <2>2
<1>2. CASE LoadCurrent(p)
  <2>1. CASE Stored(p).state \in {"submission_unknown", "settled"}
    <3>1. PICK r \in Results : r = ReportStored(Stored(p)) /\ Return(p, r)
                              /\ (r = "settled" => Stored(p).state = "settled")
                              /\ r \in {"settled", "unknown"}
      BY <1>2, <2>1 DEF LoadCurrent, ReportStored, Results
    <3>. QED  BY <1>2, <3>1, StoredFacts, Returning DEF LoadCurrent, At, Justified
  <2>2. CASE Stored(p).state \notin {"submission_unknown", "settled"} /\ Resumable(call[p].op)
    <3>1. Stored(p).state = "prepared" /\ Stored(p).tx \in Tx /\ Stored(p).tx.op = call[p].op
      BY <1>2, <2>2, StoredFacts DEF Resumable, Stored, LoadCurrent, At
    <3>2. PICK c \in Call : c = [call[p] EXCEPT !.pc = "bind", !.tx = Stored(p).tx]
                           /\ call' = [call EXCEPT ![p] = c]
      BY <1>2, <2>2, <3>1, Updated DEF LoadCurrent, Labels
    <3>3. /\ c.op = call[p].op /\ c.kind = call[p].kind /\ c.cert = call[p].cert /\ c.pc = "bind"
          /\ c.tx = Stored(p).tx /\ call[p].pc = "load_current" /\ c.op \in Ops
      BY <1>2, <3>2 DEF LoadCurrent, At, Call
    <3>4. HoldsLocks(p, c) /\ Justified(c) /\ ReportTruthful(c)
      BY <3>1, <3>3 DEF HoldsLocks, Justified, ReportTruthful,
                        UnderOpLock, UnderAccountLock, BeforeSubmit, Stored
    <3>. QED  BY <1>2, <3>2, <3>3, <3>4, Moving DEF LoadCurrent, CoreInv, TypeOK
  <2>3. CASE Stored(p).state \notin {"submission_unknown", "settled"} /\ ~Resumable(call[p].op)
    <3>1. Stored(p).state \in {"absent", "prepared"}
      BY <1>2, <2>3, StoredFacts DEF Entry, States, LoadCurrent, At
    <3>2. PICK c \in Call : c = [call[p] EXCEPT !.pc = "read_nonce", !.fresh = TRUE]
                           /\ call' = [call EXCEPT ![p] = c]
      BY <1>2, <2>3, Updated DEF LoadCurrent, Labels
    <3>3. /\ c.op = call[p].op /\ c.kind = call[p].kind /\ c.cert = call[p].cert /\ c.pc = "read_nonce"
          /\ c.fresh /\ call[p].pc = "load_current" /\ c.op \in Ops
      BY <1>2, <3>2 DEF LoadCurrent, At, Call
    <3>4. HoldsLocks(p, c) /\ Justified(c) /\ ReportTruthful(c)
      BY <3>1, <3>3 DEF HoldsLocks, Justified, ReportTruthful,
                        UnderOpLock, UnderAccountLock, BeforeSubmit, Stored
    <3>. QED  BY <1>2, <3>2, <3>3, <3>4, Moving DEF LoadCurrent, CoreInv, TypeOK
  <2>. QED  BY <2>1, <2>2, <2>3
<1>3. CASE ReadNonce(p)
  <2>1. PICK n \in Nonces :
          call' = [call EXCEPT ![p].pc = "bind",
                               ![p].tx = [op |-> call[p].op, nonce |-> n, id |-> minted + 1]]
    BY <1>3 DEF ReadNonce
  <2>2. minted + 1 \in Nat /\ call[p].op \in Ops
    BY <1>3, Updated DEF ReadNonce, At, Labels
  <2>3. PICK t \in Tx : t = [op |-> call[p].op, nonce |-> n, id |-> minted + 1]
    BY <2>2 DEF Tx
  <2>4. PICK c \in Call : c = [call[p] EXCEPT !.pc = "bind", !.tx = t]
                         /\ call' = [call EXCEPT ![p] = c]
    BY <2>1, <2>3, Updated DEF Labels
  <2>5. c.op \in Ops /\ HoldsLocks(p, c) /\ ReportTruthful(c)
    BY <1>3, <2>2, <2>4 DEF ReadNonce, At, Call, HoldsLocks, ReportTruthful,
                            UnderOpLock, UnderAccountLock
  <2>6. call[p].fresh
    BY <1>3 DEF ReadNonce, At, Justified
  <2>7. Justified(c)
    BY <1>3, <2>2, <2>3, <2>4, <2>6 DEF ReadNonce, At, Call, Justified, BeforeSubmit
  <2>. QED  BY <1>3, <2>2, <2>4, <2>5, <2>7, Moving DEF ReadNonce
<1>4. CASE Sign(p)
  <2>1. PICK l \in Labels : l = IF call[p].created THEN "reserve" ELSE "save_unknown"
    BY DEF Labels
  <2>2. PICK c \in Call : c = [call[p] EXCEPT !.pc = l] /\ call' = [call EXCEPT ![p] = c]
    BY <1>4, <2>1, Relabel DEF Sign
  <2>3. c.op \in Ops /\ HoldsLocks(p, c) /\ Justified(c) /\ ReportTruthful(c)
    BY <1>4, <2>1, <2>2 DEF Sign, At, Call, HoldsLocks, Justified, ReportTruthful, Unspent,
                            UnderOpLock, UnderAccountLock, BeforeSubmit
  <2>. QED  BY <1>4, <2>2, <2>3, Moving DEF Sign, CoreInv, TypeOK
<1>5. CASE SubmitReply(p)
  <2>1. ASSUME NEW r \in {"unknown", "error"}, Return(p, r)  PROVE CoreInv'
    BY <1>5, <2>1, Returning DEF SubmitReply, At, Justified, Results
  <2>2. ASSUME NEW t \in certified, t = call[p].tx,
               call' = [call EXCEPT ![p].pc = "save_settled", ![p].cert = t]
        PROVE  CoreInv'
    <3>1. PICK c \in Call : c = [call[p] EXCEPT !.pc = "save_settled", !.cert = t]
                           /\ call' = [call EXCEPT ![p] = c]
      <4>1. t \in Tx /\ "save_settled" \in Labels
        BY DEF Labels, CoreInv, TypeOK
      <4>. QED  BY <2>2, <4>1, Updated
    <3>2. call[p].tx \in submitted /\ call[p].tx.op = call[p].op /\ Stored(p).tx = t
      BY <1>5, <2>2, StoredFacts DEF SubmitReply, At, Justified
    <3>3. /\ c.op = call[p].op /\ c.cert = t /\ c.pc = "save_settled" /\ c.op \in Ops
          /\ call[p].pc = "await"
      BY <1>5, <3>1 DEF SubmitReply, At, Call
    <3>4. HoldsLocks(p, c) /\ Justified(c) /\ ReportTruthful(c)
      BY <2>2, <3>2, <3>3 DEF HoldsLocks, Justified, ReportTruthful, Stored,
                              UnderOpLock, UnderAccountLock, BeforeSubmit
    <3>. QED  BY <1>5, <3>1, <3>3, <3>4, Moving DEF SubmitReply, CoreInv, TypeOK
  <2>. QED  BY <1>5, <2>1, <2>2 DEF SubmitReply, Matches
<1>6. CASE Observe(p)
  <2>1. ASSUME NEW r \in {"unknown", "error", "settled"}, Return(p, r),
               r = "settled" => Stored(p).state = "settled"
        PROVE  CoreInv'
    BY <1>6, <2>1, StoredFacts, Returning DEF Observe, At, Justified, Results
  <2>2. ASSUME NEW t \in certified, t = Stored(p).tx, Stored(p).state = "submission_unknown",
               call' = [call EXCEPT ![p].pc = "save_settled", ![p].cert = t]
        PROVE  CoreInv'
    <3>1. PICK c \in Call : c = [call[p] EXCEPT !.pc = "save_settled", !.cert = t]
                           /\ call' = [call EXCEPT ![p] = c]
      <4>1. t \in Tx /\ "save_settled" \in Labels
        BY DEF Labels, CoreInv, TypeOK
      <4>. QED  BY <2>2, <4>1, Updated
    <3>2. t.op = call[p].op
      BY <1>6, <2>2, StoredFacts DEF Observe, At
    <3>3. /\ c.op = call[p].op /\ c.cert = t /\ c.pc = "save_settled" /\ c.op \in Ops
          /\ call[p].pc = "observe"
      BY <1>6, <3>1 DEF Observe, At, Call
    <3>4. HoldsLocks(p, c) /\ Justified(c) /\ ReportTruthful(c)
      BY <2>2, <3>2, <3>3 DEF HoldsLocks, Justified, ReportTruthful, Stored,
                              UnderOpLock, UnderAccountLock, BeforeSubmit
    <3>. QED  BY <1>6, <3>1, <3>3, <3>4, Moving DEF Observe, CoreInv, TypeOK
  <2>. QED  BY <1>6, <2>1, <2>2 DEF Observe, Matches
<1>. QED  BY <1>1, <1>2, <1>3, <1>4, <1>5, <1>6

\* The checks of Bind: a nonce whose reservation is free or the operation's
\* own was not spent, because the reservation of a spent nonce is durable.
LEMMA Spendable ==
  ASSUME CoreInv, NEW p \in Procs, call[p].pc = "bind",
         Reservable(journal.resv[call[p].tx.nonce]) \/ journal.resv[call[p].tx.nonce] = call[p].op
  PROVE  Unspent(call[p])
<1>1. /\ call[p].tx \in Tx /\ call[p].tx.nonce \in Nonces /\ call[p].op \in Ops
      /\ Stored(p).state \in {"absent", "prepared"}
  BY CallFacts DEF Justified, Tx, Stored
<1>2. ASSUME NEW t \in submitted  PROVE t.op # call[p].op
  BY <1>1, StoredFacts
<1>3. ASSUME NEW t \in submitted, t.nonce = call[p].tx.nonce  PROVE FALSE
  <2>1. journal.resv[call[p].tx.nonce] = t.op /\ t.op \in Ops
    BY <1>1, <1>3 DEF CoreInv, EvidenceDurable, ReadableSurvives, TypeOK, Tx
  <2>. QED  BY <2>1, <1>2, OpsAssumption DEF Reservable
<1>. QED  BY <1>2, <1>3 DEF Unspent

\* Freezing a transaction: the operation's record is the only file written.
LEMMA BindStep ==
  ASSUME CoreInv, NEW p \in Procs, Bind(p)
  PROVE  CoreInv'
<1> USE CallFacts
<1> DEFINE r == journal.resv[call[p].tx.nonce]
<1>1. /\ call[p].pc = "bind" /\ call[p].op \in Ops /\ call[p].tx \in Tx
      /\ call[p].tx.op = call[p].op /\ opLock[call[p].op] = p /\ accountLock = p
  BY DEF Bind, At, Justified, HoldsLocks, UnderAccountLock
<1>2. CASE ~(Reservable(r) \/ r = call[p].op)
  BY <1>1, <1>2, Returning DEF Bind, Results, Justified, lockVars, networkVars
<1>3. CASE Reservable(r) \/ r = call[p].op
  <2>1. Unspent(call[p])
    BY <1>1, <1>3, Spendable
  <2>2. PICK c \in Call : c = [call[p] EXCEPT !.pc = "sign", !.created = Reservable(r)]
    <3>1. Reservable(r) \in BOOLEAN /\ "sign" \in Labels
      BY DEF Reservable, Labels
    <3>. QED  BY <3>1, Updated
  <2>3. /\ c.pc = "sign" /\ c.op = call[p].op /\ c.tx = call[p].tx /\ c.kind = call[p].kind
        /\ c.cert = call[p].cert /\ c.created = Reservable(r)
    BY <2>2 DEF Call
  <2>4. HoldsLocks(p, c) /\ ReportTruthful(c) /\ Justified(c)
    BY <1>1, <1>3, <2>1, <2>3 DEF HoldsLocks, ReportTruthful, Justified, Unspent, BeforeSubmit
  <2>5. CASE ~call[p].fresh
    <3>1. call' = [call EXCEPT ![p] = c]
      BY <1>1, <1>3, <2>2, <2>5, Updated DEF Bind
    <3>. QED  BY <1>1, <1>3, <2>3, <2>4, <2>5, <3>1, Moving DEF Bind, CoreInv, TypeOK
  <2>6. CASE call[p].fresh
    <3>1. PICK out \in Outcomes :
            /\ SaveOp(call[p].op, Prepared(call[p].tx), out)
            /\ IF out = "ok"
                 THEN call' = [call EXCEPT ![p].pc = "sign", ![p].created = Reservable(r)]
                 ELSE Return(p, "error")
      BY <1>3, <2>6 DEF Bind
    <3>2. PICK d \in Call : call' = [call EXCEPT ![p] = d]
                           /\ (d = c \/ d = [call[p] EXCEPT !.pc = "exit", !.result = "error"])
      <4>1. CASE out = "ok"
        <5>1. call \in [Procs -> Call]
          BY DEF CoreInv, TypeOK
        <5>2. call' = [call EXCEPT ![p] = [call[p] EXCEPT !.pc = "sign", !.created = Reservable(r)]]
          BY <3>1, <4>1, <5>1
        <5>. QED  BY <2>2, <5>2
      <4>2. CASE out # "ok"
        BY <3>1, <4>2, Relabel2 DEF Results
      <4>. QED  BY <4>1, <4>2
    <3>3. /\ d.op = call[p].op /\ d.tx = call[p].tx /\ d.kind = call[p].kind /\ d.cert = call[p].cert
          /\ \/ d.pc = "sign" /\ d.created = Reservable(r)
             \/ d.pc = "exit" /\ d.result = "error"
      <4>1. CASE d = c
        BY <2>3, <4>1
      <4>2. CASE d = [call[p] EXCEPT !.pc = "exit", !.result = "error"]
        BY <4>2 DEF Call
      <4>. QED  BY <3>2, <4>1, <4>2
    <3>4. HoldsLocks(p, d) /\ ReportTruthful(d)
      BY <1>1, <3>3 DEF HoldsLocks, ReportTruthful, UnderOpLock, UnderAccountLock
    <3>5. journal'.resv = journal.resv /\ submitted' = submitted /\ certified' = certified
      BY <3>1 DEF SaveOp, Bind, networkVars, CoreInv, TypeOK
    <3>6. Justified(d)'
      <4>1. CASE d.pc = "sign"
        BY <1>1, <1>3, <2>1, <3>3, <3>5, <4>1 DEF Justified, Unspent, BeforeSubmit
      <4>2. CASE d.pc = "exit"
        BY <1>1, <3>3, <3>5, <4>2 DEF Justified, BeforeSubmit
      <4>. QED  BY <3>3, <4>1, <4>2
    <3>7. /\ Prepared(call[p].tx) \in Entry /\ Structured(Prepared(call[p].tx))
          /\ Prepared(call[p].tx).state = "prepared" /\ Prepared(call[p].tx).tx = call[p].tx
      BY <1>1, NoTxAssumption DEF Prepared, Entry, States, Structured
    <3>8. UNCHANGED <<lockVars, networkVars, minted>>
      BY DEF Bind
    <3>. QED  BY <1>1, <2>1, <3>1, <3>2, <3>3, <3>4, <3>6, <3>7, <3>8, OpWritten DEF Unspent
  <2>. QED  BY <2>5, <2>6
<1>. QED  BY <1>2, <1>3

\* Reserving a nonce, and giving it back before a submission.
LEMMA ReservationSteps ==
  ASSUME CoreInv, NEW p \in Procs, Reserve(p) \/ ReleaseReservation(p)
  PROVE  CoreInv'
<1> USE CallFacts
<1>1. /\ call[p].pc \in {"reserve", "release_reservation"} /\ call[p].op \in Ops /\ call[p].tx \in Tx
      /\ call[p].tx.op = call[p].op /\ opLock[call[p].op] = p /\ accountLock = p /\ Unspent(call[p])
  BY DEF Reserve, ReleaseReservation, At, Justified, HoldsLocks, UnderAccountLock, BeforeSubmit
<1>2. CASE Reserve(p)
  <2>1. PICK out \in Outcomes, l \in Labels :
          /\ SaveReservation(call[p].tx.nonce, call[p].op, out)
          /\ Goto(p, l) /\ l = (IF out = "ok" THEN "save_unknown" ELSE "release_reservation")
    BY <1>2 DEF Reserve, Labels
  <2>2. PICK c \in Call : c = [call[p] EXCEPT !.pc = l] /\ call' = [call EXCEPT ![p] = c]
    BY <2>1, Relabel
  <2>3. /\ c.op = call[p].op /\ c.tx = call[p].tx /\ c.kind = call[p].kind /\ c.cert = call[p].cert
        /\ c.pc = l
    BY <2>2 DEF Call
  <2>4. HoldsLocks(p, c) /\ ReportTruthful(c)
    BY <1>1, <2>1, <2>3 DEF HoldsLocks, ReportTruthful
  <2>5. UNCHANGED <<lockVars, networkVars, minted>>
    BY <1>2 DEF Reserve
  <2>6. out = "ok" => journal'.resv[call[p].tx.nonce] = call[p].op
    BY <1>1, <2>1 DEF SaveReservation, CoreInv, TypeOK, Tx
  <2>7. Justified(c)'
    BY <1>1, <2>1, <2>3, <2>5, <2>6 DEF Justified, Unspent, BeforeSubmit, networkVars
  <2>8. call[p].op \in Reservation
    BY <1>1 DEF Reservation
  <2>. QED  BY <1>1, <2>1, <2>2, <2>3, <2>4, <2>5, <2>7, <2>8, ReservationWritten
<1>3. CASE ReleaseReservation(p)
  <2>1. PICK out \in Outcomes : SaveReservation(call[p].tx.nonce, "tombstone", out)
    BY <1>3 DEF ReleaseReservation
  <2>2. PICK c \in Call : c = [call[p] EXCEPT !.pc = "exit", !.result = "error"]
                         /\ call' = [call EXCEPT ![p] = c]
    BY <1>3, Relabel2 DEF ReleaseReservation, Results
  <2>3. c.op = call[p].op /\ c.kind = call[p].kind /\ c.cert = call[p].cert
        /\ c.pc = "exit" /\ c.result = "error"
    BY <2>2 DEF Call
  <2>4. HoldsLocks(p, c) /\ ReportTruthful(c)
    BY <2>3 DEF HoldsLocks, ReportTruthful, UnderOpLock, UnderAccountLock
  <2>5. UNCHANGED <<lockVars, networkVars, minted>>
    BY <1>3 DEF ReleaseReservation
  <2>6. Justified(c)'
    BY <2>3, <2>5 DEF Justified, BeforeSubmit, networkVars
  <2>7. "tombstone" \in Reservation
    BY DEF Reservation
  <2>. QED  BY <1>1, <2>1, <2>2, <2>3, <2>4, <2>5, <2>6, <2>7, ReservationWritten
<1>. QED  BY <1>2, <1>3

\* The two saves that precede a submission.
LEMMA UnsubmittedSaves ==
  ASSUME CoreInv, NEW p \in Procs, SaveUnknown(p) \/ SaveRetryMarker(p)
  PROVE  CoreInv'
<1> USE CallFacts
<1>1. /\ call[p].pc \in {"save_unknown", "save_retry"} /\ call[p].op \in Ops /\ call[p].tx \in Tx
      /\ call[p].tx.op = call[p].op /\ opLock[call[p].op] = p /\ accountLock = p /\ Unspent(call[p])
  BY DEF SaveUnknown, SaveRetryMarker, At, Justified, HoldsLocks, UnderAccountLock, BeforeSubmit
<1>2. UNCHANGED <<lockVars, networkVars, minted>>
  BY DEF SaveUnknown, SaveRetryMarker
<1>3. CASE SaveUnknown(p)
  <2>1. PICK out \in Outcomes, l \in Labels :
          /\ SaveOp(call[p].op, Unknown(call[p].tx), out)
          /\ Goto(p, l) /\ l = (IF out = "ok" THEN "submit" ELSE "save_retry")
    BY <1>3 DEF SaveUnknown, Labels
  <2>2. PICK c \in Call : c = [call[p] EXCEPT !.pc = l] /\ call' = [call EXCEPT ![p] = c]
    BY <2>1, Relabel
  <2>3. /\ c.op = call[p].op /\ c.tx = call[p].tx /\ c.kind = call[p].kind /\ c.cert = call[p].cert
        /\ c.pc = l
    BY <2>2 DEF Call
  <2>4. HoldsLocks(p, c) /\ ReportTruthful(c)
    BY <1>1, <2>1, <2>3 DEF HoldsLocks, ReportTruthful
  <2>5. /\ Unknown(call[p].tx) \in Entry /\ Structured(Unknown(call[p].tx))
        /\ Unknown(call[p].tx).state = "submission_unknown" /\ Unknown(call[p].tx).tx = call[p].tx
    BY <1>1, NoTxAssumption DEF Unknown, Entry, States, Structured
  <2>6. out = "ok" => /\ survivors'.ops[call[p].op] = {Unknown(call[p].tx)}
                      /\ survivors'.resv[call[p].tx.nonce] = {call[p].op}
    <3>1. SUFFICES ASSUME out = "ok"  PROVE survivors' = Synced(journal')
                   /\ journal'.ops[call[p].op] = Unknown(call[p].tx)
                   /\ journal'.resv[call[p].tx.nonce] = call[p].op
      BY <1>1 DEF Synced, Tx
    <3>2. journal.resv[call[p].tx.nonce] = call[p].op
      BY <1>3 DEF SaveUnknown, At, Justified
    <3>. QED  BY <1>1, <2>1, <3>1, <3>2 DEF SaveOp, CoreInv, TypeOK
  <2>7. Justified(c)'
    BY <1>1, <1>2, <2>1, <2>3, <2>6 DEF Justified, Unspent, BeforeSubmit, networkVars
  <2>. QED  BY <1>1, <1>2, <2>1, <2>2, <2>3, <2>4, <2>5, <2>7, OpWritten DEF Unspent
<1>4. CASE SaveRetryMarker(p)
  <2>1. PICK out \in Outcomes :
          /\ SaveOp(call[p].op, RetryMarker(call[p].tx), out)
          /\ Goto(p, "release_reservation") \/ Return(p, "error")
    BY <1>4 DEF SaveRetryMarker
  <2>2. PICK c \in Call : /\ call' = [call EXCEPT ![p] = c]
                          /\ \/ c = [call[p] EXCEPT !.pc = "release_reservation"]
                             \/ c = [call[p] EXCEPT !.pc = "exit", !.result = "error"]
    <3>1. "release_reservation" \in Labels /\ "error" \in Results
      BY DEF Labels, Results
    <3>2. CASE Goto(p, "release_reservation")
      BY <3>1, <3>2, Relabel
    <3>3. CASE Return(p, "error")
      BY <3>1, <3>3, Relabel2
    <3>. QED  BY <2>1, <3>2, <3>3
  <2>3. /\ c.op = call[p].op /\ c.tx = call[p].tx /\ c.kind = call[p].kind /\ c.cert = call[p].cert
        /\ c.pc = "release_reservation" \/ (c.pc = "exit" /\ c.result = "error")
    <3>1. call[p] \in Call
      OBVIOUS
    <3>2. CASE c = [call[p] EXCEPT !.pc = "release_reservation"]
      BY <3>1, <3>2 DEF Call
    <3>3. CASE c = [call[p] EXCEPT !.pc = "exit", !.result = "error"]
      BY <3>1, <3>3 DEF Call
    <3>. QED  BY <2>2, <3>2, <3>3
  <2>4. HoldsLocks(p, c) /\ ReportTruthful(c)
    BY <1>1, <2>1, <2>3 DEF HoldsLocks, ReportTruthful, UnderOpLock, UnderAccountLock
  <2>5. /\ RetryMarker(call[p].tx) \in Entry /\ Structured(RetryMarker(call[p].tx))
        /\ RetryMarker(call[p].tx).state = "prepared" /\ RetryMarker(call[p].tx).tx = call[p].tx
    BY <1>1, NoTxAssumption DEF RetryMarker, Entry, States, Structured
  <2>6. Justified(c)'
    BY <1>1, <1>2, <2>3 DEF Justified, Unspent, BeforeSubmit, networkVars
  <2>. QED  BY <1>1, <1>2, <2>1, <2>2, <2>3, <2>4, <2>5, <2>6, OpWritten DEF Unspent
<1>. QED  BY <1>3, <1>4

\* Writing a settled record with a certified receipt for the transaction on
\* file, or for an operation without one.
LEMMA Settling ==
  ASSUME CoreInv, NEW p \in Procs, NEW t \in certified, NEW out \in Outcomes, NEW r \in Results,
         call[p].pc \in {"save_settled", "import"}, t.op = call[p].op,
         Stored(p).state = "absent" \/ Stored(p).tx = t,
         SaveOp(call[p].op, Settled(t, t), out), Return(p, r),
         UNCHANGED <<lockVars, networkVars, minted>>
  PROVE  CoreInv'
<1>1. /\ call[p].op \in Ops /\ opLock[call[p].op] = p /\ t \in Tx
      /\ (call[p].kind = "registerReceipt" => call[p].cert \in certified /\ call[p].cert.op = call[p].op)
  BY CallFacts DEF HoldsLocks, UnderOpLock, Justified, CoreInv, TypeOK
<1>2. PICK c \in Call : c = [call[p] EXCEPT !.pc = "exit", !.result = r]
                       /\ call' = [call EXCEPT ![p] = c]
  BY Relabel2
<1>3. c.op = call[p].op /\ c.kind = call[p].kind /\ c.cert = call[p].cert /\ c.pc = "exit"
  BY <1>2, CallFacts DEF Call
<1>4. HoldsLocks(p, c) /\ ReportTruthful(c)
  BY <1>1, <1>3 DEF HoldsLocks, ReportTruthful, UnderOpLock, UnderAccountLock
<1>5. Justified(c)'
  BY <1>1, <1>3 DEF Justified, BeforeSubmit, networkVars
<1>6. /\ Settled(t, t) \in Entry /\ Structured(Settled(t, t))
      /\ Settled(t, t).state = "settled" /\ Settled(t, t).tx = t
  BY <1>1, NoTxAssumption DEF Settled, Entry, States, Structured
<1>7. \A s \in submitted : s.op = call[p].op => s = t
  BY StoredFacts
<1>. QED  BY <1>1, <1>2, <1>3, <1>4, <1>5, <1>6, <1>7, OpWritten

\* The saves that record a settlement.
LEMMA SettlingSteps ==
  ASSUME CoreInv, NEW p \in Procs, SaveSettled(p) \/ Import(p)
  PROVE  CoreInv'
<1>1. /\ call[p].pc \in {"save_settled", "import"}
      /\ call[p].cert \in certified /\ call[p].cert.op = call[p].op
  BY CallFacts DEF SaveSettled, Import, At, Justified
<1>2. CASE SaveSettled(p)
  <2>1. PICK out \in Outcomes, r \in Results :
          SaveOp(call[p].op, Settled(Stored(p).tx, call[p].cert), out) /\ Return(p, r)
    BY <1>2 DEF SaveSettled, Results
  <2>2. Stored(p).tx = call[p].cert
    BY <1>2, CallFacts DEF SaveSettled, At, Justified, Stored
  <2>3. UNCHANGED <<lockVars, networkVars, minted>>
    BY <1>2 DEF SaveSettled
  <2>. QED  BY <1>1, <2>1, <2>2, <2>3, Settling
<1>3. CASE Import(p)
  <2>1. UNCHANGED <<lockVars, networkVars, minted>>
    BY <1>3 DEF Import
  <2>2. CASE Stored(p).state = "absent"
    <3>1. PICK out \in Outcomes, r \in Results :
            SaveOp(call[p].op, Settled(call[p].cert, call[p].cert), out) /\ Return(p, r)
      BY <1>3, <2>2 DEF Import, Results
    <3>. QED  BY <1>1, <2>1, <2>2, <3>1, Settling
  <2>3. CASE Stored(p).state # "absent"
    <3>1. PICK r \in Results : Return(p, r) /\ (r \in {"settled", "error"})
      BY <1>3, <2>3 DEF Import, Results
    <3>2. UNCHANGED <<journalVars, faults>>
      BY <1>3, <2>3 DEF Import
    <3>. QED  BY <1>1, <2>1, <3>1, <3>2, Returning
  <2>. QED  BY <2>2, <2>3
<1>. QED  BY <1>2, <1>3

\* The submission itself: no other call is between its reservation and its
\* submission, and the evidence is already in every surviving version.
LEMMA SubmitStep ==
  ASSUME CoreInv, NEW p \in Procs, Submit(p)
  PROVE  CoreInv'
<1> DEFINE t == call[p].tx
<1> USE CallFacts
<1>1. /\ call[p].pc = "submit" /\ call[p].op \in Ops /\ t \in Tx /\ t.op = call[p].op
      /\ opLock[call[p].op] = p /\ accountLock = p /\ Unspent(call[p])
      /\ survivors.ops[call[p].op] = {Unknown(t)} /\ survivors.resv[t.nonce] = {call[p].op}
  BY DEF Submit, At, Justified, HoldsLocks, UnderAccountLock, BeforeSubmit
<1>2. PICK c \in Call : c = [call[p] EXCEPT !.pc = "await"] /\ call' = [call EXCEPT ![p] = c]
  <2>1. "await" \in Labels
    BY DEF Labels
  <2>. QED  BY <2>1, Relabel DEF Submit
<1>3. /\ c.op = call[p].op /\ c.tx = t /\ c.kind = call[p].kind /\ c.cert = call[p].cert /\ c.pc = "await"
      /\ \A q \in Procs : call'[q] = IF q = p THEN c ELSE call[q]
  <2>1. call \in [Procs -> Call]
    BY DEF CoreInv, TypeOK
  <2>2. \A q \in Procs : call'[q] = IF q = p THEN c ELSE call[q]
    BY <1>2, <2>1
  <2>. QED  BY <1>2, <2>2 DEF Call
<1>4. /\ submitted' = submitted \cup {t} /\ inflight' = inflight \cup {t}
      /\ UNCHANGED <<journalVars, lockVars, certified, nextNonce, foreign, minted, faults>>
  BY DEF Submit
<1>5. TypeOK'
  BY <1>1, <1>2, <1>3, <1>4 DEF CoreInv, TypeOK, journalVars, lockVars
<1>6. ReadableSurvives'
  BY <1>4 DEF CoreInv, ReadableSurvives, journalVars
<1>7. EvidenceDurable'
  BY <1>1, <1>4 DEF CoreInv, EvidenceDurable, journalVars, Unknown
<1>8. SettlementTruthful'
  BY <1>3, <1>4 DEF CoreInv, SettlementTruthful, ReportTruthful, journalVars
<1>9. CallInv'
  <2>1. HoldsLocks(p, call[p])' /\ Justified(call[p])'
    BY <1>1, <1>3, <1>4 DEF HoldsLocks, Justified, BeforeSubmit, lockVars
  <2>2. ASSUME NEW q \in Procs, q # p  PROVE HoldsLocks(q, call[q])' /\ Justified(call[q])'
    <3>1. call'[q] = call[q] /\ HoldsLocks(q, call[q]) /\ Justified(call[q])
      BY <1>3, <2>2
    <3>2. call[q].pc \notin UnderAccountLock
      BY <1>1, <2>2, <3>1 DEF HoldsLocks
    <3>3. HoldsLocks(q, call[q])'
      BY <1>4, <3>1 DEF HoldsLocks, lockVars
    <3>4. Justified(call[q])'
      BY <1>4, <3>1, <3>2 DEF Justified, BeforeSubmit, UnderAccountLock, journalVars
    <3>. QED  BY <3>3, <3>4
  <2>. QED  BY <2>1, <2>2 DEF CallInv
<1>. QED  BY <1>5, <1>6, <1>7, <1>8, <1>9 DEF CoreInv

\* A new call relies on nothing but its arguments.
LEMMA StartSteps ==
  ASSUME CoreInv, NEW p \in Procs,
         \/ \E o \in Ops : StartSign(p, o) \/ StartRecover(p, o)
         \/ \E r \in certified : StartRegister(p, r)
  PROVE  CoreInv'
<1>1. PICK k \in Kinds \ {"none"}, o \in Ops, r \in certified \cup {NoTx} :
        /\ call' = [call EXCEPT ![p] = NewCall(k, o, r)]
        /\ k = "registerReceipt" => r \in certified /\ r.op = o
  BY DEF StartSign, StartRecover, StartRegister, Kinds, CoreInv, TypeOK, Tx
<1>2. PICK c \in Call : c = NewCall(k, o, r)
  BY <1>1 DEF NewCall, IdleCall, Call, Labels, Results, CoreInv, TypeOK
<1>3. c.pc = "op_lock" /\ c.kind = k /\ c.op = o /\ c.cert = r /\ c.result = "none"
  BY <1>2 DEF NewCall, IdleCall
<1>4. HoldsLocks(p, c) /\ Justified(c) /\ ReportTruthful(c)
  BY <1>1, <1>3 DEF HoldsLocks, Justified, ReportTruthful, UnderOpLock, UnderAccountLock, BeforeSubmit
<1>5. UNCHANGED <<journalVars, lockVars, networkVars, minted, faults>>
  BY DEF StartSign, StartRecover, StartRegister
<1>. QED  BY <1>1, <1>2, <1>3, <1>4, <1>5, Moving DEF CoreInv, TypeOK

-----------------------------------------------------------------------------

\* The network, a dying process, a power loss and the operator.
LEMMA EnvironmentSteps ==
  ASSUME CoreInv, Environment
  PROVE  CoreInv'
<1> USE DEF CoreInv, TypeOK
<1>1. ASSUME UNCHANGED <<journalVars, lockVars, call, submitted, minted, faults>>,
             inflight' \subseteq submitted, certified \subseteq certified', certified' \subseteq Tx,
             nextNonce' \in Nat, foreign' \in Nat
      PROVE  CoreInv'
  <2>1. TypeOK' /\ ReadableSurvives' /\ EvidenceDurable'
    BY <1>1 DEF journalVars, lockVars, ReadableSurvives, EvidenceDurable
  <2>2. SettlementTruthful'
    BY <1>1 DEF journalVars, SettlementTruthful, ReportTruthful
  <2>3. CallInv'
    <3>1. \A p \in Procs : HoldsLocks(p, call[p])'
      BY <1>1 DEF lockVars, CallInv, HoldsLocks
    <3>2. ASSUME NEW p \in Procs  PROVE Justified(call[p])'
      <4>1. Justified(call[p])
        BY DEF CallInv
      <4>. QED  BY <1>1, <4>1 DEF journalVars, Justified, Unspent
    <3>. QED  BY <3>1, <3>2 DEF CallInv
  <2>. QED  BY <2>1, <2>2, <2>3
<1>2. ASSUME NEW t \in inflight, Certify(t)  PROVE CoreInv'
  <2>1. t \in Tx
    OBVIOUS
  <2>2. nextNonce + 1 \in Nat
    OBVIOUS
  <2>. QED  BY <1>1, <1>2, <2>1, <2>2 DEF Certify
<1>3. ASSUME NEW t \in inflight, Refuse(t)  PROVE CoreInv'
  BY <1>1, <1>3 DEF Refuse
<1>4. ASSUME NEW o \in Ops, ForeignSettlement(o)  PROVE CoreInv'
  <2>1. [op |-> o, nonce |-> nextNonce, id |-> 0] \in Tx
    BY <1>4 DEF ForeignSettlement, Tx
  <2>2. nextNonce + 1 \in Nat /\ foreign + 1 \in Nat
    OBVIOUS
  <2>. QED  BY <1>1, <1>4, <2>1, <2>2 DEF ForeignSettlement
<1>5. ASSUME NEW p \in Procs, Crash(p)  PROVE CoreInv'
  <2>1. PICK c \in Call : c = IdleCall /\ call' = [call EXCEPT ![p] = c]
    BY <1>5 DEF Crash, IdleCall, Call, Labels, Kinds, Results
  <2>2. HoldsLocks(p, c)' /\ Justified(c) /\ ReportTruthful(c) /\ c.pc = "idle"
    BY <2>1 DEF IdleCall, HoldsLocks, Justified, ReportTruthful, UnderOpLock, UnderAccountLock,
                BeforeSubmit
  <2>3. ASSUME NEW q \in Procs \ {p}  PROVE HoldsLocks(q, call[q])'
    <3>1. call'[q] = call[q] /\ HoldsLocks(q, call[q])
          /\ (call[q].pc \in UnderOpLock \cup UnderAccountLock => call[q].op \in Ops)
      BY <2>1, CallFacts DEF UnderOpLock, UnderAccountLock
    <3>. QED  BY <1>5, <3>1 DEF HoldsLocks, Crash
  <2>4. opLock' \in [Ops -> Locks] /\ accountLock' \in Locks
    BY <1>5 DEF Crash, Locks
  <2>5. faults' \in Nat /\ minted' \in Nat
    BY <1>5 DEF Crash
  <2>6. UNCHANGED <<journalVars, networkVars>>
    BY <1>5 DEF Crash
  <2>. HIDE DEF CoreInv, TypeOK
  <2>. QED  BY <2>1, <2>2, <2>3, <2>4, <2>5, <2>6, CallStep
<1>6. ASSUME PowerLoss  PROVE CoreInv'
  <2>1. UNCHANGED <<networkVars, minted>> /\ call' = [p \in Procs |-> IdleCall] /\ faults' \in Nat
    BY <1>6 DEF PowerLoss
  <2>2. /\ \A o \in Ops : journal'.ops[o] \in survivors.ops[o] /\ survivors'.ops[o] = {journal'.ops[o]}
        /\ \A n \in Nonces : journal'.resv[n] \in survivors.resv[n]
                            /\ survivors'.resv[n] = {journal'.resv[n]}
        /\ DOMAIN journal'.ops = Ops /\ DOMAIN journal'.resv = Nonces
        /\ journal' = [ops |-> [o \in Ops |-> journal'.ops[o]], resv |-> [n \in Nonces |-> journal'.resv[n]]]
        /\ survivors' = [ops |-> [o \in Ops |-> {journal'.ops[o]}],
                         resv |-> [n \in Nonces |-> {journal'.resv[n]}]]
    BY <1>6 DEF PowerLoss, Synced
  <2>3. /\ journal' \in [ops : [Ops -> Entry], resv : [Nonces -> Reservation]]
        /\ survivors' \in [ops : [Ops -> SUBSET Entry], resv : [Nonces -> SUBSET Reservation]]
    BY <2>2
  <2>4. \A o \in Ops : \A e \in survivors'.ops[o] \cup {journal'.ops[o]} : e \in survivors.ops[o]
    BY <2>2
  <2>5. opLock' \in [Ops -> Locks] /\ accountLock' \in Locks
    BY <1>6 DEF PowerLoss, Locks
  <2>6. \A p \in Procs : call'[p] = IdleCall /\ IdleCall \in Call /\ IdleCall.pc = "idle"
    BY <2>1 DEF IdleCall, Call, Labels, Kinds, Results
  <2>7. TypeOK'
    BY <2>1, <2>3, <2>4, <2>5, <2>6 DEF networkVars, Locks
  <2>8. ReadableSurvives'
    BY <2>2 DEF ReadableSurvives
  <2>9. EvidenceDurable'
    BY <2>1, <2>2 DEF EvidenceDurable, networkVars, Tx
  <2>10. SettlementTruthful'
    BY <2>1, <2>4, <2>6 DEF SettlementTruthful, ReportTruthful, networkVars
  <2>11. CallInv'
    BY <2>6 DEF CallInv, HoldsLocks, Justified, IdleCall, UnderOpLock, UnderAccountLock, BeforeSubmit
  <2>. QED  BY <2>7, <2>8, <2>9, <2>10, <2>11
<1>7. ASSUME ClearDeadLock  PROVE CoreInv'
  <2>1. UNCHANGED <<journalVars, call, networkVars, minted, faults>>
    BY <1>7 DEF ClearDeadLock
  <2>2. opLock' \in [Ops -> Locks] /\ accountLock' \in Locks
    BY <1>7 DEF ClearDeadLock, Locks
  <2>3. ASSUME NEW q \in Procs  PROVE HoldsLocks(q, call[q])'
    <3>1. HoldsLocks(q, call[q]) /\ q # "dead"
          /\ (call[q].pc \in UnderOpLock \cup UnderAccountLock => call[q].op \in Ops)
      BY CallFacts, ProcsAssumption DEF UnderOpLock, UnderAccountLock
    <3>. QED  BY <1>7, <2>1, <3>1 DEF HoldsLocks, ClearDeadLock
  <2>4. \A q \in Procs : Justified(call[q])'
    BY <2>1 DEF CallInv, Justified, Unspent, journalVars, networkVars
  <2>5. TypeOK' /\ ReadableSurvives' /\ EvidenceDurable' /\ SettlementTruthful'
    BY <2>1, <2>2 DEF journalVars, networkVars, Locks, ReadableSurvives, EvidenceDurable,
                      SettlementTruthful, ReportTruthful
  <2>. QED  BY <2>3, <2>4, <2>5 DEF CallInv
<1>. QED  BY <1>2, <1>3, <1>4, <1>5, <1>6, <1>7 DEF Environment

-----------------------------------------------------------------------------

\* An empty journal satisfies the invariant.
LEMMA Initially ==
  Init => CoreInv
<1> SUFFICES ASSUME Init PROVE CoreInv
  OBVIOUS
<1>1. Absent \in Entry /\ Structured(Absent) /\ Absent.state = "absent"
  BY DEF Absent, Entry, States, Structured
<1>2. IdleCall \in Call /\ IdleCall.pc = "idle"
  BY DEF IdleCall, Call, Labels, Kinds, Results
<1>3. "absent" \in Reservation
  BY DEF Reservation
<1>4. TypeOK
  BY <1>1, <1>2, <1>3 DEF Init, TypeOK, Synced
<1>5. ReadableSurvives /\ EvidenceDurable
  BY DEF Init, ReadableSurvives, Synced, EvidenceDurable
<1>6. SettlementTruthful
  BY <1>1, <1>2 DEF Init, SettlementTruthful, ReportTruthful, Synced
<1>7. CallInv
  BY <1>2 DEF Init, CallInv, HoldsLocks, Justified, IdleCall, UnderOpLock, UnderAccountLock, BeforeSubmit
<1>. QED  BY <1>4, <1>5, <1>6, <1>7 DEF CoreInv

\* Every step keeps the invariant.
LEMMA Inductive ==
  CoreInv /\ [Next]_vars => CoreInv'
<1> SUFFICES ASSUME CoreInv, [Next]_vars  PROVE CoreInv'
  OBVIOUS
<1>1. ASSUME NEW p \in Procs, Step(p)  PROVE CoreInv'
  BY <1>1, LockSteps, ReadingSteps, BindStep, ReservationSteps, UnsubmittedSaves, SettlingSteps,
     SubmitStep DEF Step, SignStep
<1>2. CASE UNCHANGED vars
  BY <1>2 DEF vars, CoreInv, TypeOK, ReadableSurvives, CallInv, HoldsLocks, Justified, Unspent,
              EvidenceDurable, SettlementTruthful, ReportTruthful
<1>. QED  BY <1>1, <1>2, StartSteps, EnvironmentSteps DEF Next

\* A save of an own transaction, or of a record that is not "prepared".
LEMMA OwnSave ==
  ASSUME CoreInv, OwnTransactions, NEW p \in Procs, NEW e \in Entry, NEW out \in Outcomes,
         call[p].op \in Ops, SaveOp(call[p].op, e, out), e.state = "prepared" => e.tx.id # 0
  PROVE  \A o \in Ops : \A d \in survivors'.ops[o] : d.state = "prepared" => d.tx.id # 0
<1> DEFINE o == call[p].op
<1>1. /\ \A x \in Ops : journal.ops[x] \in survivors.ops[x]
      /\ journal \in [ops : [Ops -> Entry], resv : [Nonces -> Reservation]]
      /\ survivors \in [ops : [Ops -> SUBSET Entry], resv : [Nonces -> SUBSET Reservation]]
  BY DEF CoreInv, TypeOK, ReadableSurvives
<1>2. \A x \in Ops : survivors'.ops[x] \subseteq survivors.ops[x] \cup {e}
  <2>1. CASE out = "ok"
    <3>1. \A x \in Ops : survivors'.ops[x] = {journal'.ops[x]}
      BY <2>1 DEF SaveOp, Synced
    <3>2. \A x \in Ops : journal'.ops[x] \in {journal.ops[x], e}
      BY <1>1 DEF SaveOp
    <3>. QED  BY <1>1, <3>1, <3>2
  <2>2. CASE out = "lost"
    BY <2>2 DEF SaveOp
  <2>3. CASE out = "torn"
    <3>1. survivors' = [survivors EXCEPT !.ops[o] = @ \cup {e}]
      BY <2>3 DEF SaveOp
    <3>. QED  BY <1>1, <3>1
  <2>. QED  BY <2>1, <2>2, <2>3 DEF Outcomes
<1>. QED  BY <1>2 DEF OwnTransactions

\* Every record that says "prepared" was frozen by this journal.
LEMMA OwnFiles ==
  ASSUME CoreInv, OwnTransactions, NEW p \in Procs, Step(p)
  PROVE  \A o \in Ops : \A d \in survivors'.ops[o] : d.state = "prepared" => d.tx.id # 0
<1>1. CASE UNCHANGED survivors
  BY <1>1 DEF OwnTransactions
<1>2. ASSUME NEW n \in Nonces, NEW r, NEW out \in Outcomes, SaveReservation(n, r, out)
      PROVE  \A o \in Ops : survivors'.ops[o] \subseteq survivors.ops[o]
  <2>1. journal'.ops = journal.ops /\ \A o \in Ops : journal.ops[o] \in survivors.ops[o]
    BY <1>2 DEF SaveReservation, CoreInv, TypeOK, ReadableSurvives
  <2>2. CASE out = "ok"
    BY <1>2, <2>1, <2>2 DEF SaveReservation, Synced
  <2>3. CASE out \in {"lost", "torn"}
    BY <1>2, <2>3 DEF SaveReservation, CoreInv, TypeOK
  <2>. QED  BY <2>2, <2>3 DEF Outcomes
<1>3. CASE Reserve(p) \/ ReleaseReservation(p)
  <2>1. call[p].tx.nonce \in Nonces
    BY <1>3, CallFacts DEF Reserve, ReleaseReservation, At, Justified, BeforeSubmit, Tx
  <2>2. \E r : \E out \in Outcomes : SaveReservation(call[p].tx.nonce, r, out)
    BY <1>3 DEF Reserve, ReleaseReservation
  <2>. QED  BY <1>2, <2>1, <2>2 DEF OwnTransactions
<1>4. CASE Bind(p) \/ SaveUnknown(p) \/ SaveRetryMarker(p)
  <2>1. /\ call[p].pc \in {"bind"} \cup BeforeSubmit /\ call[p].op \in Ops /\ call[p].tx \in Tx
    BY <1>4, CallFacts DEF Bind, SaveUnknown, SaveRetryMarker, At, Justified, BeforeSubmit
  <2>2. call[p].tx.id # 0
    BY <2>1 DEF OwnTransactions
  <2>3. \A e \in {Prepared(call[p].tx), Unknown(call[p].tx), RetryMarker(call[p].tx)} :
          e \in Entry /\ e.tx = call[p].tx
    <3>1. Prepared(call[p].tx) \in Entry /\ Prepared(call[p].tx).tx = call[p].tx
      BY <2>1 DEF Prepared, Entry, States
    <3>2. Unknown(call[p].tx) \in Entry /\ Unknown(call[p].tx).tx = call[p].tx
      BY <2>1 DEF Unknown, Entry, States
    <3>3. RetryMarker(call[p].tx) \in Entry /\ RetryMarker(call[p].tx).tx = call[p].tx
      BY <2>1 DEF RetryMarker, Entry, States
    <3>. QED  BY <3>1, <3>2, <3>3
  <2>4. \/ UNCHANGED survivors
        \/ \E out \in Outcomes, e \in {Prepared(call[p].tx), Unknown(call[p].tx), RetryMarker(call[p].tx)} :
             SaveOp(call[p].op, e, out)
    BY <1>4 DEF Bind, SaveUnknown, SaveRetryMarker, journalVars
  <2>. QED  BY <1>1, <2>1, <2>2, <2>3, <2>4, OwnSave
<1>5. CASE SaveSettled(p) \/ Import(p)
  <2>1. /\ call[p].pc \in {"save_settled", "import"} /\ call[p].op \in Ops /\ call[p].cert \in Tx
        /\ Stored(p).tx \in Tx \cup {NoTx}
    BY <1>5, CallFacts, StoredFacts
       DEF SaveSettled, Import, At, Justified, CoreInv, TypeOK, Entry
  <2>2. \A t \in {Stored(p).tx, call[p].cert} :
          Settled(t, call[p].cert) \in Entry /\ Settled(t, call[p].cert).state = "settled"
    BY <2>1 DEF Settled, Entry, States
  <2>3. \/ UNCHANGED survivors
        \/ \E out \in Outcomes, t \in {Stored(p).tx, call[p].cert} :
             SaveOp(call[p].op, Settled(t, call[p].cert), out)
    BY <1>5 DEF SaveSettled, Import, journalVars
  <2>. QED  BY <1>1, <2>1, <2>2, <2>3, OwnSave
<1>. QED
  BY <1>1, <1>3, <1>4, <1>5
     DEF Step, SignStep, AcquireOpLock, LockUnavailable, Throw, Observe, Exit, LoadExisting,
         AcquireAccountLock, LoadCurrent, ReadNonce, Sign, Submit, SubmitReply, journalVars

\* Every call before its submission carries a transaction of this journal.
LEMMA OwnCalls ==
  ASSUME CoreInv, OwnTransactions, NEW p \in Procs, Step(p), NEW q \in Procs,
         call'[q].pc \in {"bind"} \cup BeforeSubmit
  PROVE  call'[q].tx.id # 0
<1> DEFINE Own == {"bind"} \cup BeforeSubmit
<1>1. call \in [Procs -> Call] /\ minted \in Nat
  BY DEF CoreInv, TypeOK
<1>2. \A x \in Procs : call[x].pc \in Own => call[x].tx.id # 0
  BY DEF OwnTransactions
<1>3. CASE call'[q].tx = call[q].tx /\ call[q].pc \in Own
  BY <1>2, <1>3
<1>4. CASE q # p
  <2>1. call'[q] = call[q]
    BY <1>1, <1>4 DEF Step, SignStep, AcquireOpLock, LockUnavailable, Throw, Observe, Exit, LoadExisting,
         AcquireAccountLock, LoadCurrent, ReadNonce, Sign, Submit, SubmitReply, Bind, Reserve,
         ReleaseReservation, SaveUnknown, SaveRetryMarker, SaveSettled, Import, Goto, Return
  <2>. QED  BY <1>2, <2>1
<1>5. CASE q = p /\ ReadNonce(p)
  <2>1. call'[p].tx.id = minted + 1
    BY <1>1, <1>5 DEF ReadNonce, Call
  <2>2. minted + 1 # 0
    BY <1>1
  <2>. QED  BY <1>5, <2>1, <2>2
<1>6. CASE q = p /\ LoadCurrent(p) /\ call'[p].pc = "bind"
  <2>1. /\ call'[p].tx = Stored(p).tx /\ Stored(p).state = "prepared"
        /\ Stored(p) \in survivors.ops[call[p].op] /\ call[p].op \in Ops
    BY <1>1, <1>6, CallFacts DEF LoadCurrent, Resumable, Stored, Call, Return, At, CoreInv, ReadableSurvives
  <2>. QED  BY <1>6, <2>1 DEF OwnTransactions
<1>7. CASE q = p /\ ~ReadNonce(p) /\ ~(LoadCurrent(p) /\ call'[p].pc = "bind")
  <2>1. CASE Bind(p) \/ Sign(p) \/ Reserve(p) \/ ReleaseReservation(p) \/ SaveUnknown(p)
             \/ SaveRetryMarker(p) \/ Submit(p)
    <3>1. call[p].pc \in Own
      BY <2>1 DEF Bind, Sign, Reserve, ReleaseReservation, SaveUnknown, SaveRetryMarker, Submit, At,
                  BeforeSubmit
    <3>2. call'[p].tx = call[p].tx
      BY <1>1, <2>1 DEF Bind, Sign, Reserve, ReleaseReservation, SaveUnknown, SaveRetryMarker, Submit,
                        Goto, Return, Call
    <3>. QED  BY <1>3, <1>7, <3>1, <3>2
  <2>2. CASE AcquireOpLock(p) \/ AcquireAccountLock(p) \/ LockUnavailable(p) \/ Throw(p) \/ Exit(p)
             \/ LoadExisting(p) \/ LoadCurrent(p) \/ SubmitReply(p) \/ Observe(p)
             \/ SaveSettled(p) \/ Import(p)
    <3>1. CASE AcquireOpLock(p)
      <4>1. AfterOpLock(p) \in {"load", "observe", "import"}
        BY <3>1, CallFacts DEF AcquireOpLock, AfterOpLock, At, Justified, Call, Kinds
      <4>2. call'[p].pc = AfterOpLock(p)
        BY <1>1, <3>1 DEF AcquireOpLock, Goto, Call
      <4>. QED  BY <1>7, <4>1, <4>2 DEF BeforeSubmit
    <3>2. CASE Exit(p)
      BY <1>1, <1>7, <3>2 DEF Exit, IdleCall, BeforeSubmit
    <3>3. CASE AcquireAccountLock(p) \/ LockUnavailable(p) \/ Throw(p)
      BY <1>1, <1>7, <3>3 DEF AcquireAccountLock, LockUnavailable, Throw, Goto, Return, Call, BeforeSubmit
    <3>4. CASE LoadExisting(p) \/ LoadCurrent(p)
      BY <1>1, <1>7, <3>4 DEF LoadExisting, LoadCurrent, Goto, Return, Call, BeforeSubmit
    <3>5. CASE SubmitReply(p) \/ Observe(p)
      BY <1>1, <1>7, <3>5 DEF SubmitReply, Observe, Return, Call, BeforeSubmit
    <3>6. CASE SaveSettled(p) \/ Import(p)
      BY <1>1, <1>7, <3>6 DEF SaveSettled, Import, Return, Call, BeforeSubmit
    <3>. QED  BY <2>2, <3>1, <3>2, <3>3, <3>4, <3>5, <3>6
  <2>. QED  BY <1>7, <2>1, <2>2 DEF Step, SignStep
<1>. QED  BY <1>4, <1>5, <1>6, <1>7

\* Every step keeps OwnTransactions.
LEMMA OwnInductive ==
  CoreInv /\ OwnTransactions /\ [Next]_vars => OwnTransactions'
<1> SUFFICES ASSUME CoreInv, OwnTransactions, [Next]_vars  PROVE OwnTransactions'
  OBVIOUS
<1>1. ASSUME NEW p \in Procs, Step(p)  PROVE OwnTransactions'
  <2>1. certified' = certified /\ submitted \subseteq submitted'
    BY <1>1 DEF Step, SignStep, AcquireOpLock, LockUnavailable, Throw, Observe, Exit, LoadExisting,
         AcquireAccountLock, LoadCurrent, ReadNonce, Sign, Submit, SubmitReply, Bind, Reserve,
         ReleaseReservation, SaveUnknown, SaveRetryMarker, SaveSettled, Import, networkVars
  <2>. QED  BY <1>1, <2>1, OwnFiles, OwnCalls DEF OwnTransactions
<1>2. ASSUME UNCHANGED <<survivors, submitted>>,
             \A t \in certified' \ certified : t \in submitted \/ t.id = 0,
             \A p \in Procs : call'[p].pc \in {"bind"} \cup BeforeSubmit => call'[p] = call[p]
      PROVE  OwnTransactions'
  BY <1>2 DEF OwnTransactions
<1>3. ASSUME NEW p \in Procs,
             \/ \E o \in Ops : StartSign(p, o) \/ StartRecover(p, o)
             \/ \E r \in certified : StartRegister(p, r)
      PROVE  OwnTransactions'
  <2>1. \E k, o, r : call' = [call EXCEPT ![p] = NewCall(k, o, r)]
    BY <1>3 DEF StartSign, StartRecover, StartRegister
  <2>2. \A k, o, r : NewCall(k, o, r).pc = "op_lock"
    BY DEF NewCall, IdleCall
  <2>3. \A q \in Procs : call'[q] = call[q] \/ call'[q].pc = "op_lock"
    BY <2>1, <2>2 DEF CoreInv, TypeOK
  <2>4. UNCHANGED <<survivors, submitted, certified>>
    BY <1>3 DEF StartSign, StartRecover, StartRegister, journalVars, networkVars
  <2>. QED  BY <1>2, <2>3, <2>4 DEF BeforeSubmit
<1>4. ASSUME Environment  PROVE OwnTransactions'
  <2>1. ASSUME NEW t \in inflight, Certify(t) \/ Refuse(t)  PROVE OwnTransactions'
    BY <1>2, <2>1 DEF Certify, Refuse, journalVars, CoreInv, TypeOK
  <2>2. ASSUME NEW o \in Ops, ForeignSettlement(o)  PROVE OwnTransactions'
    BY <1>2, <2>2 DEF ForeignSettlement, journalVars
  <2>3. ASSUME NEW p \in Procs, Crash(p)  PROVE OwnTransactions'
    BY <1>2, <2>3 DEF Crash, journalVars, networkVars, IdleCall, BeforeSubmit, CoreInv, TypeOK
  <2>4. ASSUME PowerLoss  PROVE OwnTransactions'
    <3>1. \A o \in Ops : survivors'.ops[o] \subseteq survivors.ops[o]
      BY <2>4 DEF PowerLoss, Synced
    <3>2. certified' = certified /\ submitted' = submitted /\ \A p \in Procs : call'[p] = IdleCall
      BY <2>4 DEF PowerLoss, networkVars
    <3>. QED  BY <3>1, <3>2 DEF OwnTransactions, IdleCall, BeforeSubmit
  <2>5. ASSUME ClearDeadLock  PROVE OwnTransactions'
    BY <1>2, <2>5 DEF ClearDeadLock, journalVars, networkVars
  <2>. QED  BY <1>4, <2>1, <2>2, <2>3, <2>4, <2>5 DEF Environment
<1>5. CASE UNCHANGED vars
  BY <1>2, <1>5 DEF vars
<1>. QED  BY <1>1, <1>3, <1>4, <1>5 DEF Next

\* In every reachable state of any number of processes and operations, with
\* any failures: the journal, the locks and the calls satisfy IInv.
THEOREM Invariance == Spec => []IInv
<1>1. Init => OwnTransactions
  BY DEF Init, OwnTransactions, Synced, Absent, IdleCall, BeforeSubmit
<1>2. Init => IInv
  BY <1>1, Initially DEF IInv
<1>3. IInv /\ [Next]_vars => IInv'
  BY Inductive, OwnInductive DEF IInv
<1>. QED  BY <1>2, <1>3, PTL DEF Spec

\* Every record file, in every version a power loss may leave, is one that
\* assertJournalSnapshot accepts.
THEOREM TypeCorrect == Spec => []TypeOK
<1>1. IInv => TypeOK
  BY DEF IInv, CoreInv
<1>. QED  BY <1>1, Invariance, PTL

\* Signed evidence is durable before, and ever after, the submission.
THEOREM EvidenceIsDurable == Spec => []EvidenceDurable
<1>1. IInv => EvidenceDurable
  BY DEF IInv, CoreInv
<1>. QED  BY <1>1, Invariance, PTL

\* This journal sends one transaction at most per account nonce.
THEOREM NonceSpentOnce == Spec => []OneTxPerNonce
<1>1. IInv => OneTxPerNonce
  <2> SUFFICES ASSUME IInv, NEW s \in submitted, NEW t \in submitted, s.nonce = t.nonce
               PROVE  s = t
    BY DEF OneTxPerNonce
  <2>1. s.op \in Ops /\ s.nonce \in Nonces
    BY DEF IInv, CoreInv, TypeOK, Tx
  <2>2. {s.op} = {t.op}
    BY DEF IInv, CoreInv, EvidenceDurable
  <2>. QED  BY <2>1, <2>2 DEF IInv, CoreInv, EvidenceDurable, ReadableSurvives
<1>. QED  BY <1>1, Invariance, PTL

\* An operation is never submitted under two transactions.
THEOREM OperationSubmittedOnce == Spec => []OneTxPerOperation
<1>1. IInv => OneTxPerOperation
  <2> SUFFICES ASSUME IInv, NEW s \in submitted, NEW t \in submitted, s.op = t.op
               PROVE  s = t
    BY DEF OneTxPerOperation
  <2>1. s.op \in Ops
    BY DEF IInv, CoreInv, TypeOK, Tx
  <2>. QED  BY <2>1 DEF IInv, CoreInv, EvidenceDurable, ReadableSurvives
<1>. QED  BY <1>1, Invariance, PTL

\* Settlement is recorded and reported only with the network's certificate
\* for the frozen transaction.
THEOREM SettlementIsTruthful == Spec => []SettlementTruthful
<1>1. IInv => SettlementTruthful
  BY DEF IInv, CoreInv
<1>. QED  BY <1>1, Invariance, PTL

\* No transaction is handed over twice, nor by a call without both locks.
THEOREM SubmissionIsSerialised == Spec => SubmitOnceUnderLocks
<1>1. IInv => \A p \in Procs : call[p].pc = "submit" =>
                /\ call[p].tx \notin submitted
                /\ accountLock = p /\ opLock[call[p].op] = p
  BY CallFacts DEF IInv, HoldsLocks, Justified, Unspent, UnderAccountLock, BeforeSubmit
<1>2. IInv => [\A p \in Procs : call[p].pc = "submit" /\ call'[p].pc = "await" =>
                 /\ call[p].tx \notin submitted
                 /\ accountLock = p /\ opLock[call[p].op] = p]_vars
  BY <1>1
<1>. QED  BY <1>2, Invariance, PTL DEF SubmitOnceUnderLocks

-----------------------------------------------------------------------------
(* The journal implements the ledger of nonces.                            *)

\* The refinement mapping reads the ledger off the submissions.
SpendersShown ==
  /\ \A t \in submitted : SpenderOf(t.nonce) = t.op
  /\ \A n \in Nonces : (\A t \in submitted : t.nonce # n) => SpenderOf(n) = "nobody"

\* The ledger's view of a spent nonce: its spender is the operation of every
\* transaction submitted with it.
LEMMA LedgerView ==
  CoreInv => SpendersShown
<1> SUFFICES ASSUME CoreInv  PROVE SpendersShown
  OBVIOUS
<1>1. ASSUME NEW s \in submitted, NEW t \in submitted, s.nonce = t.nonce  PROVE s.op = t.op
  <2>1. {s.op} = {t.op}
    BY <1>1 DEF CoreInv, EvidenceDurable
  <2>. QED  BY <2>1
<1>2. ASSUME NEW t \in submitted  PROVE SpenderOf(t.nonce) = t.op
  <2>1. PICK s \in submitted : s.nonce = t.nonce /\ SpenderOf(t.nonce) = s.op
    BY DEF SpenderOf
  <2>. QED  BY <1>1, <2>1
<1>. QED  BY <1>2 DEF SpenderOf, SpendersShown

\* The same after a step.
LEMMA LedgerViewNext ==
  CoreInv' => SpendersShown'
BY LedgerView, PTL

\* A submission spends a fresh nonce for a new operation.
LEMMA SubmitSpends ==
  ASSUME CoreInv, OwnTransactions, CoreInv', NEW p \in Procs, Submit(p)
  PROVE  \E o \in Ops, n \in Nonces : Ledger!Spend(o, n)
<1>1. PICK t \in Tx : t = call[p].tx /\ t.op = call[p].op /\ t.op \in Ops /\ t.nonce \in Nonces
  BY CallFacts DEF Submit, At, Justified, BeforeSubmit, Tx
<1>2. \A s \in submitted : s.op # t.op /\ s.nonce # t.nonce
  BY <1>1, CallFacts DEF Submit, At, Justified, BeforeSubmit, Unspent
<1>3. submitted' = submitted \cup {t} /\ certified' = certified
  BY <1>1 DEF Submit
<1>4. SpenderOf(t.nonce) = "nobody" /\ SpenderOf(t.nonce)' = t.op
  <2>1. \A s \in submitted' : SpenderOf(s.nonce)' = s.op
    BY LedgerViewNext DEF SpendersShown
  <2>. QED  BY <1>1, <1>2, <1>3, <2>1, LedgerView DEF SpendersShown
<1>5. \A n \in Nonces \ {t.nonce} : SpenderOf(n)' = SpenderOf(n)
  <2> SUFFICES ASSUME NEW n \in Nonces \ {t.nonce}  PROVE SpenderOf(n)' = SpenderOf(n)
    OBVIOUS
  <2>1. CASE \E s \in submitted : s.nonce = n
    BY <1>3, <2>1, LedgerView, LedgerViewNext DEF SpendersShown
  <2>2. CASE \A s \in submitted : s.nonce # n
    BY <1>3, <2>2, LedgerView, LedgerViewNext DEF SpendersShown
  <2>. QED  BY <2>1, <2>2
<1>6. FateOf(t.op) = "new" /\ FateOf(t.op)' = "sent"
  <2>1. t.id # 0
    BY <1>1 DEF Submit, At, OwnTransactions, BeforeSubmit
  <2>2. t \notin certified
    BY <1>2, <2>1 DEF OwnTransactions
  <2>3. t \in submitted' /\ \A s \in submitted' \cap certified' : s.op # t.op
    BY <1>1, <1>2, <1>3, <2>2
  <2>. QED  BY <1>2, <2>3 DEF FateOf
<1>7. \A o \in Ops \ {t.op} : FateOf(o)' = FateOf(o)
  BY <1>3 DEF FateOf
<1>8. Ledger!Spend(t.op, t.nonce)
  BY <1>1, <1>4, <1>5, <1>6, <1>7 DEF Ledger!Spend
<1>. QED  BY <1>1, <1>8

\* A certificate makes at most one spent operation final.
LEMMA CertificateFinalises ==
  ASSUME CoreInv, NEW t \in Tx, certified' = certified \cup {t}, submitted' = submitted
  PROVE  (\E o \in Ops : Ledger!Finalise(o)) \/ UNCHANGED Ledger!ledgerVars
<1>1. \A n : SpenderOf(n)' = SpenderOf(n)
  BY DEF SpenderOf
<1>2. t.op \in Ops
  BY DEF Tx
<1>3. \A o \in Ops \ {t.op} : FateOf(o)' = FateOf(o)
  BY DEF FateOf
<1>4. CASE t \in submitted /\ t \notin certified
  <2>1. \A s \in submitted : s.op = t.op => s = t
    BY <1>2, <1>4 DEF CoreInv, EvidenceDurable, ReadableSurvives
  <2>2. FateOf(t.op) = "sent" /\ FateOf(t.op)' = "final"
    BY <1>4, <2>1 DEF FateOf
  <2>. QED  BY <1>1, <1>2, <1>3, <2>2 DEF Ledger!Finalise
<1>5. CASE ~(t \in submitted /\ t \notin certified)
  <2>1. submitted' \cap certified' = submitted \cap certified
    BY <1>5
  <2>2. \A o \in Ops : FateOf(o)' = FateOf(o)
    BY <2>1 DEF FateOf
  <2>. QED  BY <1>1, <2>2 DEF Ledger!ledgerVars
<1>. QED  BY <1>4, <1>5

\* Every step of the journal is a step of the ledger, or a stutter.
LEMMA LedgerStep ==
  IInv /\ IInv' /\ [Next]_vars => [Ledger!LedgerNext]_(Ledger!ledgerVars)
<1> SUFFICES ASSUME IInv, IInv', [Next]_vars
             PROVE  [Ledger!LedgerNext]_(Ledger!ledgerVars)
  OBVIOUS
<1> USE DEF IInv
<1>1. CASE UNCHANGED <<submitted, certified>>
  <2>1. /\ \A n : SpenderOf(n)' = SpenderOf(n)
        /\ \A o : FateOf(o)' = FateOf(o)
    BY <1>1 DEF SpenderOf, FateOf
  <2>. QED  BY <2>1 DEF Ledger!ledgerVars
<1>2. ASSUME NEW p \in Procs, Submit(p)  PROVE Ledger!LedgerNext
  BY <1>2, SubmitSpends DEF Ledger!LedgerNext
<1>3. ASSUME NEW t \in inflight, Certify(t)  PROVE [Ledger!LedgerNext]_(Ledger!ledgerVars)
  BY <1>3, CertificateFinalises DEF Certify, CoreInv, TypeOK, Ledger!LedgerNext
<1>4. ASSUME NEW o \in Ops, ForeignSettlement(o)  PROVE [Ledger!LedgerNext]_(Ledger!ledgerVars)
  <2>1. [op |-> o, nonce |-> nextNonce, id |-> 0] \in Tx
    BY <1>4 DEF ForeignSettlement, Tx
  <2>. QED  BY <1>4, <2>1, CertificateFinalises DEF ForeignSettlement, Ledger!LedgerNext
<1>5. ASSUME NEW p \in Procs, Step(p), ~Submit(p)  PROVE UNCHANGED <<submitted, certified>>
  BY <1>5 DEF Step, SignStep, AcquireOpLock, LockUnavailable, Throw, Observe, Exit, LoadExisting,
       AcquireAccountLock, LoadCurrent, ReadNonce, Sign, SubmitReply, Bind, Reserve,
       ReleaseReservation, SaveUnknown, SaveRetryMarker, SaveSettled, Import, networkVars
<1>6. ASSUME \/ \E p \in Procs, o \in Ops : StartSign(p, o) \/ StartRecover(p, o)
             \/ \E p \in Procs, r \in certified : StartRegister(p, r)
             \/ \E t \in inflight : Refuse(t)
             \/ \E p \in Procs : Crash(p)
             \/ PowerLoss \/ ClearDeadLock \/ UNCHANGED vars
      PROVE  UNCHANGED <<submitted, certified>>
  BY <1>6 DEF StartSign, StartRecover, StartRegister, Refuse, Crash, PowerLoss, ClearDeadLock,
              networkVars, vars
<1>. QED  BY <1>1, <1>2, <1>3, <1>4, <1>5, <1>6 DEF Next, Environment

\* With any number of processes, operations and failures, this journal spends
\* each nonce for one operation only and never takes it back.
THEOREM JournalImplementsLedger == Spec => ImplementsLedger
<1>1. Init => Ledger!LedgerInit
  BY DEF Init, Ledger!LedgerInit, SpenderOf, FateOf
<1>. QED  BY <1>1, LedgerStep, Invariance, PTL DEF Spec, ImplementsLedger, Ledger!LedgerSpec
=============================================================================
