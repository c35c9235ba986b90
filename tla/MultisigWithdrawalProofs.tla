---------------------- MODULE MultisigWithdrawalProofs ----------------------
(***************************************************************************)
(* Safety of the multisig withdrawal, for any number of runs, signatures,  *)
(* nonces, clock values and faults.                                        *)
(***************************************************************************)
EXTENDS MultisigWithdrawal, SequenceTheorems, TLAPS

Calls == [pc : InSection \cup {"idle", "open"}, j : Journals]

\* What the network holds agrees with one version j of the journal.
Agrees(j) ==
  /\ WellFormed(j)
  /\ \A t \in submitted : IF t.stage = "transfer" THEN j.transfer = t ELSE j.intent = t
  /\ \A i \in DOMAIN relays : /\ j.transfer = relays[i].transfer /\ j.intent = relays[i].intent
                              /\ j.relay # "none"
  /\ j.completed => j.transfer \in settled

\* Every relay request is made of certified transactions that belong together.
RelaysCertified ==
  /\ Len(relays) <= 1
  /\ \A i \in DOMAIN relays :
       /\ Certified(relays[i].transfer) /\ Certified(relays[i].intent)
       /\ relays[i].intent.of = relays[i].transfer.id

\* NoTx is no transaction.
LEMMA NoTxIsNone == NoTx \notin Txs /\ ForeignTx \notin Txs /\ NoTx.stage = "none"
BY DEF NoTx, ForeignTx, Txs

\* The invariant, version by version and call by call.
LEMMA VersionByVersion ==
  IInv <=> /\ TypeOK /\ file \in survivors
           /\ \A s \in survivors : Agrees(s)
           /\ OnChain /\ RelaysCertified
           /\ \A p \in Procs : (call[p].pc \in InSection => lock = p) /\ Knows(call[p])
BY DEF IInv, Agrees, Evidence, RelayedOnce, RelaysCertified, CompletedTruthful

\* The same after a step.
LEMMA VersionByVersionNext ==
  IInv' <=> (/\ TypeOK /\ file \in survivors
             /\ \A s \in survivors : Agrees(s)
             /\ OnChain /\ RelaysCertified
             /\ \A p \in Procs : (call[p].pc \in InSection => lock = p) /\ Knows(call[p]))'
BY VersionByVersion, PTL

\* A call outside the section knows nothing.
LEMMA KnowsNothing ==
  ASSUME NEW c, c.pc \notin InSection \/ c.pc \in {"read", "exit", "reply"}
  PROVE  Knows(c) /\ Knows(c)'
BY DEF Knows, OnTheWay, InSection, Awaits, Writes

\* A step of one run that writes nothing and sends nothing: enough that the
\* run knows what its new step asks, and takes the lock from nobody.
LEMMA CallMoves ==
  ASSUME IInv, NEW p \in Procs, NEW c \in Calls, call' = [call EXCEPT ![p] = c],
         c.pc \in InSection => lock' = p, Knows(c),
         lock' \in Procs \cup {"free", "left"}, lock \notin Procs \ {p} \/ lock' = lock,
         UNCHANGED <<file, survivors, submitted, chain, relays, settled, now, faults>>,
         minted' \in Nat
  PROVE  IInv'
<1>1. /\ call \in [Procs -> Calls]
      /\ \A q \in Procs : call'[q] = IF q = p THEN c ELSE call[q]
  BY DEF IInv, TypeOK, Calls
<1>2. TypeOK'
  BY <1>1 DEF IInv, TypeOK, Calls
<1>3. Knows(c)'
  BY DEF Knows, Certified
<1>4. ASSUME NEW q \in Procs PROVE ((call[q].pc \in InSection => lock = q) /\ Knows(call[q]))'
  <2>1. CASE q = p
    BY <1>1, <1>3, <2>1
  <2>2. CASE q # p
    <3>1. call'[q] = call[q] /\ (call[q].pc \in InSection => lock = q) /\ Knows(call[q])
      BY <1>1, <2>2 DEF IInv
    <3>2. PICK d : d = call[q]
      OBVIOUS
    <3>3. Knows(d)'
      BY <3>1, <3>2 DEF Knows, Certified
    <3>. QED  BY <2>2, <3>1, <3>2, <3>3
  <2>. QED  BY <2>1, <2>2
<1>5. (/\ file \in survivors /\ \A s \in survivors : Agrees(s)
       /\ OnChain /\ RelaysCertified)'
  <2>1. \A s \in survivors : Agrees(s)'
    BY VersionByVersion DEF Agrees, WellFormed, Certified
  <2>. QED  BY <2>1, VersionByVersion DEF OnChain, RelaysCertified, Certified
<1>. QED  BY <1>2, <1>4, <1>5, VersionByVersionNext

\* A write, whatever becomes of it: enough that the version written agrees
\* with the network, and that the run knows what its next step asks.
LEMMA Writing ==
  ASSUME IInv, NEW p \in Procs, NEW next \in InSection, NEW j \in Journals,
         call[p].pc \in InSection, Write(p, j, next), Agrees(j),
         file' = j /\ survivors' = {j} => Knows([pc |-> next, j |-> j])'
  PROVE  IInv'
<1>1. /\ call \in [Procs -> Calls] /\ lock = p
      /\ \A q \in Procs \ {p} : call[q].pc \notin InSection
  BY DEF IInv, TypeOK, Calls
<1>2. /\ file' \in survivors' /\ survivors' \subseteq survivors \cup {j}
      /\ faults' \in Nat
      /\ UNCHANGED <<lock, submitted, chain, relays, settled, now, minted>>
  BY VersionByVersion DEF Write, networkVars, clockVars, journalVars, TypeOK
<1>3. PICK c \in Calls : /\ call' = [call EXCEPT ![p] = c]
                         /\ c.pc \in InSection /\ Knows(c)'
  <2>1. CASE file' = j /\ survivors' = {j} /\ Step(p, next, j)
    BY <2>1 DEF Step, Calls
  <2>2. CASE Goto(p, "exit")
    <3>1. PICK c : c = [call[p] EXCEPT !.pc = "exit"]
      OBVIOUS
    <3>2. c \in Calls /\ c.pc = "exit"
      BY <1>1, <3>1 DEF Calls, InSection
    <3>. QED  BY <2>2, <3>1, <3>2, KnowsNothing DEF Goto, InSection
  <2>. QED  BY <2>1, <2>2 DEF Write
<1>4. \A q \in Procs : call'[q] = IF q = p THEN c ELSE call[q]
  BY <1>1, <1>3
<1>5. TypeOK'
  BY <1>1, <1>2, <1>3, <1>4 DEF IInv, TypeOK, Calls
<1>6. ASSUME NEW q \in Procs PROVE ((call[q].pc \in InSection => lock = q) /\ Knows(call[q]))'
  BY <1>1, <1>2, <1>3, <1>4, KnowsNothing
<1>7. \A s \in survivors' : Agrees(s)'
  BY <1>2, VersionByVersion DEF Agrees, WellFormed, Certified
<1>8. (OnChain /\ RelaysCertified)'
  BY <1>2, VersionByVersion DEF OnChain, RelaysCertified, Certified
<1>. QED  BY <1>2, <1>5, <1>6, <1>7, <1>8, VersionByVersionNext

-----------------------------------------------------------------------------
(* The steps of one run.                                                   *)

\* Going to a step with the copy of the journal the run has.
LEMMA GotoIsStep ==
  ASSUME IInv, NEW p \in Procs, NEW l, Goto(p, l)
  PROVE  call' = [call EXCEPT ![p] = [pc |-> l, j |-> call[p].j]]
<1>1. call[p] = [pc |-> call[p].pc, j |-> call[p].j]
  BY DEF IInv, TypeOK
<1>2. [call[p] EXCEPT !.pc = l] = [pc |-> l, j |-> call[p].j]
  BY <1>1
<1>. QED  BY <1>2 DEF Goto

\* Entering and leaving the section, reading, and giving up.
LEMMA SectionSteps ==
  ASSUME IInv, NEW p \in Procs,
         Start(p) \/ OpenLock(p) \/ Locked(p) \/ Exit(p) \/ Abort(p) \/ Read(p) \/ GetEvmBlock(p)
  PROVE  IInv'
<1> DEFINE To(l) == [pc |-> l, j |-> call[p].j]
<1>1. /\ call[p] \in Calls /\ (call[p].pc \in InSection => lock = p) /\ Knows(call[p])
      /\ lock \in Procs \cup {"free", "left"} /\ minted \in Nat
      /\ file \in Journals /\ file \in survivors /\ WellFormed(file)
  BY DEF IInv, TypeOK, Calls
<1>2. {"read", "evm", "begin", "propose", "settlement", "exit"} \subseteq InSection
  BY DEF InSection, Awaits, Writes
<1>3. \A l \in InSection \cup {"idle", "open"} : To(l) \in Calls
  BY <1>1 DEF Calls
<1> USE DEF At
<1>4. CASE Start(p)
  <2>1. call' = [call EXCEPT ![p] = To("open")] /\ lock' = lock
    BY <1>4, GotoIsStep DEF Start
  <2>2. To("open") \in Calls /\ To("open").pc \notin InSection /\ Knows(To("open"))
    BY <1>3, KnowsNothing DEF InSection, Awaits, Writes
  <2>. QED  BY <1>1, <1>4, <2>1, <2>2, CallMoves DEF Start, journalVars, networkVars, clockVars
<1>5. CASE OpenLock(p)
  <2>1. call' = [call EXCEPT ![p] = To("read")] /\ lock = "free" /\ lock' = p
    BY <1>5, GotoIsStep DEF OpenLock
  <2>2. To("read") \in Calls /\ Knows(To("read"))
    BY <1>2, <1>3, KnowsNothing
  <2>. QED  BY <1>1, <1>5, <2>1, <2>2, CallMoves, ProcsAssumption
            DEF OpenLock, journalVars, networkVars, clockVars
<1>6. CASE Locked(p)
  <2>1. call' = [call EXCEPT ![p] = To("idle")] /\ lock' = lock
    BY <1>6, GotoIsStep DEF Locked
  <2>2. To("idle") \in Calls /\ To("idle").pc \notin InSection /\ Knows(To("idle"))
    BY <1>3, KnowsNothing DEF InSection, Awaits, Writes
  <2>. QED  BY <1>1, <1>6, <2>1, <2>2, CallMoves DEF Locked, journalVars, networkVars, clockVars
<1>7. CASE Exit(p)
  <2>1. IdleCall \in Calls /\ IdleCall.pc \notin InSection /\ Knows(IdleCall)
    <3>1. IdleCall.pc = "idle" /\ "idle" \notin InSection
      BY DEF IdleCall, InSection, Awaits, Writes
    <3>2. NoJournal \in Journals
      BY DEF NoJournal, Journals
    <3>. QED  BY <3>1, <3>2, KnowsNothing DEF IdleCall, Calls
  <2>2. call' = [call EXCEPT ![p] = IdleCall] /\ lock' = "free" /\ lock = p
    BY <1>1, <1>2, <1>7 DEF Exit
  <2>. QED  BY <1>1, <1>7, <2>1, <2>2, CallMoves, ProcsAssumption
            DEF Exit, journalVars, networkVars, clockVars
<1>8. CASE Abort(p)
  <2>1. call' = [call EXCEPT ![p] = To("exit")] /\ lock' = lock /\ lock = p
    BY <1>1, <1>2, <1>8, GotoIsStep DEF Abort, InSection
  <2>2. To("exit") \in Calls /\ Knows(To("exit"))
    BY <1>2, <1>3, KnowsNothing
  <2>. QED  BY <1>1, <1>8, <2>1, <2>2, CallMoves DEF Abort, journalVars, networkVars, clockVars
<1>9. CASE Read(p)
  <2>1. PICK l \in {"evm", "propose", "settlement"} :
          /\ call' = [call EXCEPT ![p] = [pc |-> l, j |-> file]]
          /\ l = "evm" => ~file.started
          /\ l = "propose" => file.started /\ file.transfer = NoTx
          /\ l = "settlement" => file.transfer # NoTx
    BY <1>9 DEF Read, Step
  <2>2. PICK c : c = [pc |-> l, j |-> file]
    OBVIOUS
  <2>3. c \in Calls
    BY <1>1, <1>2, <2>2 DEF Calls
  <2>4. Knows(c)
    <3>1. file = [file EXCEPT !.deadline = file.deadline]
      BY <1>1 DEF Journals
    <3>. QED  BY <1>1, <2>1, <2>2, <3>1 DEF Knows, OnTheWay, WellFormed
  <2>. QED  BY <1>1, <1>2, <1>9, <2>1, <2>2, <2>3, <2>4, CallMoves
            DEF Read, journalVars, networkVars, clockVars
<1>10. CASE GetEvmBlock(p)
  <2>1. call' = [call EXCEPT ![p] = To("begin")] /\ lock' = lock /\ lock = p
    BY <1>1, <1>2, <1>10, GotoIsStep DEF GetEvmBlock
  <2>2. Knows(To("begin"))
    BY <1>1, <1>10 DEF Knows, OnTheWay, GetEvmBlock
  <2>. QED  BY <1>1, <1>2, <1>3, <1>10, <2>1, <2>2, CallMoves
            DEF GetEvmBlock, journalVars, networkVars, clockVars
<1>. QED  BY <1>4, <1>5, <1>6, <1>7, <1>8, <1>9, <1>10

\* Looking for the settlement, and reconciling.
LEMMA ReconcileSteps ==
  ASSUME IInv, NEW p \in Procs,
         SettlementFound(p) \/ NoSettlement(p) \/ TransferCertified(p) \/ IntentCertified(p)
  PROVE  IInv'
<1> DEFINE To(l) == [pc |-> l, j |-> call[p].j]
<1>1. /\ call[p] \in Calls /\ (call[p].pc \in InSection => lock = p) /\ Knows(call[p])
      /\ lock \in Procs \cup {"free", "left"} /\ minted \in Nat /\ now \in Nat
      /\ file \in Journals /\ WellFormed(file) /\ OnChain
  BY DEF IInv, TypeOK, Calls
<1>2. {"settlement", "complete", "exit", "transfer", "propose", "intent", "prove"} \subseteq InSection
  BY DEF InSection, Awaits, Writes
<1>3. \A l \in InSection : To(l) \in Calls
  BY <1>1 DEF Calls
<1> USE DEF At
<1>4. CASE SettlementFound(p)
  <2>1. PICK c : c = [pc |-> "complete", j |-> [file EXCEPT !.completed = TRUE]]
    OBVIOUS
  <2>2. call[p].j = file /\ lock = p
    BY <1>1, <1>2, <1>4 DEF SettlementFound, Knows
  <2>3. c \in Calls
    BY <1>1, <1>2, <2>1 DEF Calls, Journals
  <2>4. Knows(c)
    BY <1>1, <1>4, <2>1, <2>2 DEF SettlementFound, Knows, OnTheWay, Journals
  <2>. QED  BY <1>1, <1>4, <2>1, <2>2, <2>3, <2>4, CallMoves
            DEF SettlementFound, Step, journalVars, networkVars, clockVars
<1>5. CASE NoSettlement(p)
  <2>1. PICK l \in {"exit", "transfer"} :
          call' = [call EXCEPT ![p] = To(l)] /\ (l = "transfer" => ~call[p].j.completed)
    BY <1>5, GotoIsStep DEF NoSettlement
  <2>2. lock = p /\ call[p].j = file /\ file.transfer # NoTx
    BY <1>1, <1>2, <1>5 DEF NoSettlement, Knows
  <2>3. l = "transfer" => Knows(To(l))
    BY <2>1, <2>2 DEF Knows, OnTheWay
  <2>4. Knows(To(l))
    BY <2>1, <2>3, KnowsNothing
  <2>. QED  BY <1>1, <1>2, <1>3, <1>5, <2>1, <2>2, <2>4, CallMoves
            DEF NoSettlement, journalVars, networkVars, clockVars
<1>6. CASE TransferCertified(p)
  <2>1. call[p].j = file /\ lock = p /\ file.transfer # NoTx /\ ~file.completed
    BY <1>1, <1>2, <1>6 DEF TransferCertified, Knows, OnTheWay
  <2>2. Certified(file.transfer) /\ file.started
    <3>1. file.transfer \in Txs
      BY <1>1, <2>1 DEF Journals
    <3>2. Len(chain) > file.transfer.nonce /\ chain[file.transfer.nonce + 1] = file.transfer
      BY <1>6, <2>1 DEF TransferCertified, CertificateMatches
    <3>3. chain \in Seq(Txs \cup {ForeignTx}) /\ file.transfer.nonce \in Nat
      BY <3>1 DEF IInv, TypeOK, Txs
    <3>4. file.transfer.nonce + 1 \in DOMAIN chain
      BY <3>2, <3>3
    <3>. QED  BY <1>1, <2>1, <3>2, <3>4 DEF Certified, WellFormed
  <2>3. CASE file.intent = NoTx
    <3>1. PICK c : c = [pc |-> "propose", j |-> [file EXCEPT !.deadline = now + Window]]
      OBVIOUS
    <3>2. c \in Calls
      BY <1>1, <1>2, <3>1, WindowAssumption DEF Calls, Journals
    <3>3. Knows(c)
      <4>1. /\ c.pc = "propose" /\ c.j = [file EXCEPT !.deadline = c.j.deadline] /\ ~c.j.completed
        BY <1>1, <2>1, <3>1 DEF Journals
      <4>. QED  BY <2>1, <2>2, <2>3, <4>1 DEF Knows, OnTheWay
    <3>4. call' = [call EXCEPT ![p] = c]
      BY <1>6, <2>1, <2>3, <3>1 DEF TransferCertified, Step
    <3>. QED  BY <1>1, <1>6, <2>1, <3>1, <3>2, <3>3, <3>4, CallMoves
              DEF TransferCertified, journalVars, networkVars, clockVars
  <2>4. CASE file.intent # NoTx
    <3>1. call' = [call EXCEPT ![p] = To("intent")]
      BY <1>6, <2>1, <2>4, GotoIsStep DEF TransferCertified
    <3>2. Knows(To("intent"))
      BY <1>1, <2>1, <2>4 DEF Knows, OnTheWay
    <3>. QED  BY <1>1, <1>2, <1>3, <1>6, <2>1, <3>1, <3>2, CallMoves
              DEF TransferCertified, journalVars, networkVars, clockVars
  <2>. QED  BY <2>3, <2>4
<1>7. CASE IntentCertified(p)
  <2>1. /\ call[p].j = file /\ lock = p /\ file.transfer # NoTx /\ file.intent # NoTx
        /\ ~file.completed
    BY <1>1, <1>2, <1>7 DEF IntentCertified, Knows, OnTheWay
  <2>2. Certified(file.intent)
    <3>1. file.intent \in Txs
      BY <1>1, <2>1 DEF Journals
    <3>2. Len(chain) > file.intent.nonce /\ chain[file.intent.nonce + 1] = file.intent
      BY <1>7, <2>1 DEF IntentCertified, CertificateMatches
    <3>3. chain \in Seq(Txs \cup {ForeignTx}) /\ file.intent.nonce \in Nat
      BY <3>1 DEF IInv, TypeOK, Txs
    <3>4. file.intent.nonce + 1 \in DOMAIN chain
      BY <3>2, <3>3
    <3>. QED  BY <3>2, <3>4 DEF Certified
  <2>3. \/ call' = [call EXCEPT ![p] = To("prove")] /\ file.relay = "none"
        \/ call' = [call EXCEPT ![p] = To("exit")]
    BY <1>7, <2>1, GotoIsStep DEF IntentCertified
  <2>4. CASE call' = [call EXCEPT ![p] = To("prove")] /\ file.relay = "none"
    <3>1. PICK c : c = To("prove")
      OBVIOUS
    <3>2. Knows(c)
      BY <2>1, <2>2, <2>4, <3>1 DEF Knows, OnTheWay
    <3>. QED  BY <1>1, <1>2, <1>3, <1>7, <2>1, <2>4, <3>1, <3>2, CallMoves
              DEF IntentCertified, journalVars, networkVars, clockVars
  <2>5. CASE call' = [call EXCEPT ![p] = To("exit")]
    <3>1. Knows(To("exit"))
      BY KnowsNothing
    <3>. QED  BY <1>1, <1>2, <1>3, <1>7, <2>1, <2>5, <3>1, CallMoves
              DEF IntentCertified, journalVars, networkVars, clockVars
  <2>. QED  BY <2>3, <2>4, <2>5
<1>. QED  BY <1>4, <1>5, <1>6, <1>7

\* What is in the network agrees with the file.
LEMMA FileAgrees ==
  ASSUME IInv
  PROVE  /\ file \in Journals /\ Agrees(file)
         /\ submitted \subseteq Txs /\ settled \subseteq submitted
         /\ \A p \in Procs : /\ call[p] \in Calls /\ Knows(call[p])
                             /\ call[p].pc \in InSection => lock = p
BY VersionByVersion DEF TypeOK, OnChain, Calls

\* Nothing was submitted for a stage the file does not have.
LEMMA StageIsNew ==
  ASSUME IInv
  PROVE  /\ file.transfer = NoTx => submitted = {} /\ relays = <<>>
         /\ file.intent = NoTx => /\ \A t \in submitted : t.stage = "transfer"
                                  /\ relays = <<>>
<1>1. relays \in Seq([transfer : Txs, intent : Txs]) /\ Len(relays) <= 1
  BY VersionByVersion DEF TypeOK, RelaysCertified
<1>2. relays = <<>> \/ 1 \in DOMAIN relays
  BY <1>1, EmptySeq, LenProperties
<1>3. 1 \in DOMAIN relays => relays[1].intent \in Txs
  <2>1. 1 \in DOMAIN relays => relays[1] \in [transfer : Txs, intent : Txs]
    BY <1>1, LenProperties
  <2>. QED  BY <2>1
<1>4. file.intent = NoTx => relays = <<>>
  BY <1>2, <1>3, FileAgrees, NoTxIsNone DEF Agrees
<1>5. file.intent = NoTx => \A t \in submitted : t.stage = "transfer"
  BY FileAgrees, NoTxIsNone DEF Agrees
<1>6. file.transfer = NoTx => submitted = {}
  BY FileAgrees, NoTxIsNone DEF Agrees, WellFormed
<1>7. file.transfer = NoTx => file.intent = NoTx
  BY FileAgrees DEF Agrees, WellFormed
<1>. QED  BY <1>4, <1>5, <1>6, <1>7

\* The five writes.
LEMMA WriteSteps ==
  ASSUME IInv, NEW p \in Procs,
         Begin(p) \/ Complete(p) \/ Record(p) \/ Attempt(p) \/ Note(p)
  PROVE  IInv'
<1>1. /\ call[p] \in Calls /\ Knows(call[p]) /\ file \in Journals /\ Agrees(file)
      /\ submitted \subseteq Txs
  BY FileAgrees
<1>2. {"begin", "complete", "record", "attempt", "note", "propose", "exit", "submit", "relay"}
        \subseteq InSection
  BY DEF InSection, Awaits, Writes
<1>3. call[p].j \in Journals
  BY <1>1 DEF Calls
<1> USE DEF At
<1>4. CASE Begin(p)
  <2>1. PICK j : j = [file EXCEPT !.started = TRUE]
    OBVIOUS
  <2>2. call[p].j = file /\ file.transfer = NoTx /\ Write(p, j, "propose")
    BY <1>1, <1>4, <2>1 DEF Begin, Knows
  <2>3. j \in Journals /\ Agrees(j)
    BY <1>1, <2>1 DEF Journals, Agrees, WellFormed
  <2>4. ASSUME file' = j PROVE Knows([pc |-> "propose", j |-> j])'
    <3>1. /\ j = [j EXCEPT !.deadline = j.deadline] /\ j.started /\ j.transfer = NoTx
          /\ j.intent = NoTx /\ ~j.completed
      BY <1>1, <2>1, <2>2, <2>3 DEF Journals, Agrees, WellFormed
    <3>. QED  BY <2>4, <3>1 DEF Knows, OnTheWay
  <2>. QED  BY <1>2, <1>4, <2>2, <2>3, <2>4, Writing DEF Begin
<1>5. CASE Complete(p)
  <2>1. PICK j : j = call[p].j
    OBVIOUS
  <2>2. j = [file EXCEPT !.completed = TRUE] /\ j.transfer \in settled /\ Write(p, j, "exit")
    BY <1>1, <1>5, <2>1 DEF Complete, Knows
  <2>3. Agrees(j)
    BY <1>1, <2>2, FileAgrees, NoTxIsNone DEF Journals, Agrees, WellFormed
  <2>. QED  BY <1>2, <1>3, <1>5, <2>1, <2>2, <2>3, Writing, KnowsNothing DEF Complete
<1>6. CASE Record(p)
  <2>1. PICK j : j = call[p].j
    OBVIOUS
  <2>2. Write(p, j, "submit")
    BY <1>6, <2>1 DEF Record
  <2>3. Agrees(j) /\ j.transfer # NoTx /\ ~j.completed
    <3>1. CASE /\ file.transfer = NoTx /\ j.transfer.stage = "transfer"
               /\ j = [file EXCEPT !.transfer = j.transfer, !.deadline = j.deadline]
      <4>1. /\ j.started = file.started /\ j.intent = file.intent /\ j.relay = file.relay
            /\ j.completed = file.completed
        BY <1>1, <3>1 DEF Journals
      <4>2. submitted = {} /\ relays = <<>> /\ file.started /\ ~file.completed
        BY <1>1, <1>6, <3>1, StageIsNew DEF Record, Knows, OnTheWay
      <4>. QED  BY <1>1, <3>1, <4>1, <4>2, NoTxIsNone DEF Agrees, WellFormed
    <3>2. CASE /\ file.transfer # NoTx /\ file.intent = NoTx /\ Certified(file.transfer)
               /\ j.intent.stage = "intent" /\ j.intent.of = file.transfer.id
               /\ j = [file EXCEPT !.intent = j.intent, !.deadline = j.deadline]
      <4>1. /\ j.started = file.started /\ j.transfer = file.transfer /\ j.relay = file.relay
            /\ j.completed = file.completed
        BY <1>1, <3>2 DEF Journals
      <4>2. relays = <<>> /\ \A t \in submitted : t.stage = "transfer"
        BY <3>2, StageIsNew
      <4>3. ~file.completed
        BY <1>1, <1>6 DEF Record, Knows, OnTheWay
      <4>. QED  BY <1>1, <3>2, <4>1, <4>2, <4>3, NoTxIsNone DEF Agrees, WellFormed
    <3>. QED  BY <1>1, <1>6, <2>1, <3>1, <3>2 DEF Record, Knows
  <2>4. ASSUME file' = j, survivors' = {j} PROVE Knows([pc |-> "submit", j |-> j])'
    BY <2>3, <2>4 DEF Knows, OnTheWay
  <2>. QED  BY <1>2, <1>3, <1>6, <2>1, <2>2, <2>3, <2>4, Writing DEF Record
<1>7. CASE Attempt(p)
  <2>1. PICK j : j = call[p].j
    OBVIOUS
  <2>2. /\ file.relay = "none" /\ file.intent # NoTx /\ Certified(file.intent)
        /\ j = [file EXCEPT !.relay = "attempting"] /\ Write(p, j, "relay") /\ ~file.completed
    BY <1>1, <1>7, <2>1 DEF Attempt, Knows, OnTheWay
  <2>3. /\ Agrees(j) /\ j.intent # NoTx /\ j.intent = file.intent /\ j.relay # "none"
        /\ ~j.completed
    BY <1>1, <2>2 DEF Journals, Agrees, WellFormed
  <2>4. relays = <<>>
    <3>1. relays \in Seq([transfer : Txs, intent : Txs])
      BY DEF IInv, TypeOK
    <3>2. relays = <<>> \/ 1 \in DOMAIN relays
      BY <3>1, EmptySeq, LenProperties
    <3>. QED  BY <1>1, <2>2, <3>2 DEF Agrees
  <2>5. ASSUME file' = j, survivors' = {j}, Write(p, j, "relay")
        PROVE Knows([pc |-> "relay", j |-> j])'
    <3>1. relays' = <<>> /\ Certified(j.intent)'
      BY <2>2, <2>3, <2>4, <2>5 DEF Write, networkVars, Certified
    <3>. QED  BY <2>3, <2>5, <3>1 DEF Knows, OnTheWay
  <2>. QED  BY <1>2, <1>3, <1>7, <2>1, <2>2, <2>3, <2>5, Writing DEF Attempt
<1>8. CASE Note(p)
  <2>1. PICK j : j = call[p].j
    OBVIOUS
  <2>2. /\ file.relay # "none" /\ j.relay # "none" /\ j = [file EXCEPT !.relay = j.relay]
        /\ Write(p, j, "exit")
    BY <1>1, <1>8, <2>1 DEF Note, Knows
  <2>3. Agrees(j)
    <3>1. /\ j.started = file.started /\ j.transfer = file.transfer /\ j.intent = file.intent
          /\ j.completed = file.completed
      BY <1>1, <2>2 DEF Journals
    <3>. QED  BY <1>1, <2>2, <3>1 DEF Agrees, WellFormed
  <2>. QED  BY <1>2, <1>3, <1>8, <2>1, <2>2, <2>3, Writing, KnowsNothing DEF Note
<1>. QED  BY <1>4, <1>5, <1>6, <1>7, <1>8

\* Signing, proving, and reading the relayer's answer.
LEMMA DecisionSteps ==
  ASSUME IInv, NEW p \in Procs, Propose(p) \/ Prove(p) \/ Answered(p)
  PROVE  IInv'
<1>1. /\ call[p] \in Calls /\ Knows(call[p]) /\ file \in Journals /\ WellFormed(file)
      /\ lock \in Procs \cup {"free", "left"} /\ minted \in Nat
      /\ call[p].pc \in InSection => lock = p
  BY FileAgrees DEF IInv, TypeOK
<1>2. {"propose", "prove", "answer", "record", "attempt", "note"} \subseteq InSection
  BY DEF InSection, Awaits, Writes
<1> USE DEF At
<1>3. CASE Propose(p)
  <2>1. PICK j : j = call[p].j
    OBVIOUS
  <2>2. /\ j \in Journals /\ file.started /\ file.intent = NoTx
        /\ j = [file EXCEPT !.deadline = j.deadline]
        /\ file.transfer = NoTx \/ Certified(file.transfer)
        /\ ~file.completed /\ ~j.completed
    BY <1>1, <1>3, <2>1 DEF Propose, Knows, OnTheWay, Calls
  <2>3. j.transfer = file.transfer
    BY <1>1, <2>2 DEF Journals
  <2>4. PICK n \in 0..Len(chain) :
          call' = [call EXCEPT ![p] =
            [pc |-> "record", j |-> IF j.transfer = NoTx THEN [j EXCEPT !.transfer = Signed(j, n)]
                                                         ELSE [j EXCEPT !.intent = Signed(j, n)]]]
    BY <1>3, <2>1 DEF Propose, Step
  <2>5. PICK t : t = Signed(j, n)
    OBVIOUS
  <2>6. /\ t \in Txs /\ t.of = j.transfer.id
        /\ t.stage = IF j.transfer = NoTx THEN "transfer" ELSE "intent"
    <3>1. n \in Nat /\ minted + 1 \in Nat /\ j.deadline \in Nat /\ j.transfer.id \in Nat
      <4>1. j.transfer \in Txs \cup {NoTx} /\ j.deadline \in Nat
        BY <2>2 DEF Journals
      <4>. QED  BY <1>1, <4>1 DEF Txs, NoTx
    <3>. QED  BY <2>5, <3>1 DEF Signed, Txs
  <2>7. CASE file.transfer = NoTx
    <3>1. PICK c : c = [pc |-> "record", j |-> [j EXCEPT !.transfer = t]]
      OBVIOUS
    <3>2. c \in Calls /\ c.j = [file EXCEPT !.transfer = c.j.transfer, !.deadline = c.j.deadline]
      BY <1>1, <1>2, <2>2, <2>6, <3>1 DEF Calls, Journals
    <3>3. c.pc = "record" /\ c.j.transfer = t /\ ~c.j.completed
      BY <2>2, <3>1 DEF Journals
    <3>4. Knows(c)
      BY <2>2, <2>3, <2>6, <2>7, <3>2, <3>3 DEF Knows, OnTheWay
    <3>5. call' = [call EXCEPT ![p] = c]
      BY <2>3, <2>4, <2>5, <2>7, <3>1
    <3>6. minted' \in Nat /\ UNCHANGED <<file, survivors, lock, submitted, chain, relays, settled, now, faults>>
      BY <1>1, <1>3 DEF Propose, journalVars, networkVars
    <3>. QED  BY <1>1, <1>2, <1>3, <3>2, <3>3, <3>4, <3>5, <3>6, CallMoves DEF Propose
  <2>8. CASE file.transfer # NoTx
    <3>1. PICK c : c = [pc |-> "record", j |-> [j EXCEPT !.intent = t]]
      OBVIOUS
    <3>2. c \in Calls /\ c.j = [file EXCEPT !.intent = c.j.intent, !.deadline = c.j.deadline]
      BY <1>1, <1>2, <2>2, <2>6, <3>1 DEF Calls, Journals
    <3>3. c.pc = "record" /\ c.j.intent = t /\ ~c.j.completed
      BY <2>2, <3>1 DEF Journals
    <3>4. Knows(c)
      BY <2>2, <2>3, <2>6, <2>8, <3>2, <3>3 DEF Knows, OnTheWay
    <3>5. call' = [call EXCEPT ![p] = c]
      BY <2>3, <2>4, <2>5, <2>8, <3>1
    <3>6. minted' \in Nat /\ UNCHANGED <<file, survivors, lock, submitted, chain, relays, settled, now, faults>>
      BY <1>1, <1>3 DEF Propose, journalVars, networkVars
    <3>. QED  BY <1>1, <1>2, <1>3, <3>2, <3>3, <3>4, <3>5, <3>6, CallMoves DEF Propose
  <2>. QED  BY <2>7, <2>8
<1>4. CASE Prove(p)
  <2>1. /\ call[p].j = file /\ file.intent # NoTx /\ file.relay = "none"
        /\ Certified(file.intent) /\ ~file.completed
    BY <1>1, <1>4 DEF Prove, Knows, OnTheWay
  <2>2. PICK c : c = [pc |-> "attempt", j |-> [file EXCEPT !.relay = "attempting"]]
    OBVIOUS
  <2>3. c \in Calls
    BY <1>1, <1>2, <2>2 DEF Calls, Journals
  <2>4. Knows(c)
    <3>1. c.pc = "attempt" /\ c.j = [file EXCEPT !.relay = "attempting"] /\ ~c.j.completed
      BY <1>1, <2>1, <2>2 DEF Journals
    <3>. QED  BY <2>1, <3>1 DEF Knows, OnTheWay
  <2>. QED  BY <1>1, <1>2, <1>4, <2>1, <2>2, <2>3, <2>4, CallMoves
            DEF Prove, Step, journalVars, networkVars, clockVars
<1>5. CASE Answered(p)
  <2>1. call[p].j = file /\ file.relay # "none"
    BY <1>1, <1>5 DEF Answered, Knows
  <2>2. PICK r \in {"accepted", "rejected", "attempting"} :
          call' = [call EXCEPT ![p] = [pc |-> "note", j |-> [file EXCEPT !.relay = r]]]
    BY <1>5, <2>1 DEF Answered, Step
  <2>3. PICK c : c = [pc |-> "note", j |-> [file EXCEPT !.relay = r]]
    OBVIOUS
  <2>4. c \in Calls /\ c.pc = "note" /\ c.j.relay = r /\ c.j = [file EXCEPT !.relay = c.j.relay]
    BY <1>1, <1>2, <2>3 DEF Calls, Journals
  <2>5. Knows(c)
    BY <2>1, <2>4 DEF Knows, OnTheWay
  <2>. QED  BY <1>1, <1>2, <1>5, <2>2, <2>3, <2>4, <2>5, CallMoves
            DEF Answered, journalVars, networkVars, clockVars
<1>. QED  BY <1>3, <1>4, <1>5

-----------------------------------------------------------------------------
(* The external effects, and the environment.                              *)

\* Facts that only grow keep every version and every run right.
LEMMA NetworkMoves ==
  ASSUME IInv, UNCHANGED <<file, survivors, submitted, relays, minted, faults>>,
         now' \in Nat, UNCHANGED <<lock, call>>,
         chain' \in Seq(Txs \cup {ForeignTx}), OnChain',
         settled \subseteq settled',
         \A t : Certified(t) => Certified(t)'
  PROVE  IInv'
<1>1. TypeOK'
  BY DEF IInv, TypeOK, OnChain
<1>2. \A s \in survivors' : Agrees(s)'
  BY VersionByVersion DEF Agrees, WellFormed
<1>3. RelaysCertified'
  BY VersionByVersion DEF RelaysCertified
<1>4. ASSUME NEW q \in Procs PROVE ((call[q].pc \in InSection => lock = q) /\ Knows(call[q]))'
  <2>1. PICK d : d = call[q]
    OBVIOUS
  <2>2. Knows(d)'
    BY <2>1, FileAgrees DEF Knows
  <2>. QED  BY <2>1, <2>2, FileAgrees
<1>. QED  BY <1>1, <1>2, <1>3, <1>4, VersionByVersion, VersionByVersionNext

\* The network, the relayer, the owners and the clock.
LEMMA NetworkSteps ==
  ASSUME IInv, Certify \/ ForeignSettles \/ RelayerExecutes \/ ManualRecovery \/ Tick
  PROVE  IInv'
<1>1. /\ submitted \subseteq Txs /\ chain \in Seq(Txs \cup {ForeignTx}) /\ OnChain /\ now \in Nat
      /\ relays \in Seq([transfer : Txs, intent : Txs]) /\ RelaysCertified
  BY VersionByVersion DEF TypeOK
<1>2. ASSUME NEW t \in submitted \cup {ForeignTx}, chain' = Append(chain, t),
             UNCHANGED <<journalVars, lock, call, submitted, relays, settled, clockVars, faults>>
      PROVE  IInv'
  <2>1. /\ chain' \in Seq(Txs \cup {ForeignTx}) /\ DOMAIN chain' = 1..Len(chain) + 1
        /\ \A i \in DOMAIN chain : chain'[i] = chain[i]
        /\ chain'[Len(chain) + 1] = t /\ DOMAIN chain = 1..Len(chain) /\ Len(chain) \in Nat
    BY <1>1, <1>2, AppendProperties, LenProperties
  <2>2. \A u : Certified(u) => Certified(u)'
    BY <2>1 DEF Certified
  <2>3. OnChain'
    BY <1>1, <1>2, <2>1 DEF OnChain
  <2>. QED  BY <1>1, <1>2, <2>1, <2>2, <2>3, NetworkMoves DEF journalVars, clockVars
<1>3. CASE Certify
  BY <1>2, <1>3 DEF Certify
<1>4. CASE ForeignSettles
  BY <1>2, <1>4 DEF ForeignSettles
<1>5. ASSUME NEW t, Certified(t), t \in Txs, settled' = settled \cup {t},
             UNCHANGED <<journalVars, lock, call, submitted, chain, relays, clockVars, faults>>
      PROVE  IInv'
  <2>1. t \in submitted
    BY <1>1, <1>5, NoTxIsNone DEF OnChain, Certified
  <2>2. OnChain'
    BY <1>1, <1>5, <2>1 DEF OnChain
  <2>3. \A u : Certified(u) => Certified(u)'
    BY <1>5 DEF Certified
  <2>. QED  BY <1>1, <1>5, <2>2, <2>3, NetworkMoves DEF journalVars, clockVars
<1>6. CASE RelayerExecutes
  <2>1. PICK i \in DOMAIN relays : Certified(relays[i].transfer) /\ settled' = settled \cup {relays[i].transfer}
    BY <1>6 DEF RelayerExecutes
  <2>2. relays[i] \in [transfer : Txs, intent : Txs]
    <3>1. /\ relays \in [1..Len(relays) -> [transfer : Txs, intent : Txs]]
          /\ DOMAIN relays = 1..Len(relays)
      BY <1>1, LenProperties
    <3>. QED  BY <2>1, <3>1
  <2>. QED  BY <1>5, <1>6, <2>1, <2>2 DEF RelayerExecutes
<1>7. CASE ManualRecovery
  BY <1>1, <1>5, <1>7 DEF ManualRecovery
<1>8. CASE Tick
  <2>1. \A u : Certified(u) => Certified(u)'
    BY <1>8 DEF Certified, Tick, networkVars
  <2>2. OnChain'
    BY <1>1, <1>8 DEF OnChain, Tick, networkVars
  <2>. QED  BY <1>1, <1>8, <2>1, <2>2, NetworkMoves DEF Tick, journalVars, networkVars
<1>. QED  BY <1>3, <1>4, <1>6, <1>7, <1>8

\* Handing the transaction to the network: the journal has it already.
LEMMA SubmitStep ==
  ASSUME IInv, NEW p \in Procs, Submit(p)
  PROVE  IInv'
<1>1. /\ call[p] \in Calls /\ Knows(call[p]) /\ lock = p /\ call[p].pc = "submit"
      /\ file \in Journals /\ Agrees(file) /\ call \in [Procs -> Calls]
  <2>1. call[p].pc = "submit" /\ "submit" \in InSection
    BY DEF Submit, At, InSection
  <2>. QED  BY <2>1, FileAgrees DEF IInv, TypeOK, Calls
<1>2. call[p].j = file /\ survivors = {file} /\ file.transfer # NoTx
  BY <1>1 DEF Knows
<1>3. PICK t : t = Proposal(file)
  OBVIOUS
<1>4. t \in Txs /\ (IF t.stage = "transfer" THEN file.transfer = t ELSE file.intent = t)
  BY <1>1, <1>2, <1>3 DEF Proposal, Agrees, WellFormed, Journals
<1>5. /\ submitted' = submitted \cup {t}
      /\ UNCHANGED <<file, survivors, lock, chain, relays, settled, now, minted, faults>>
  BY <1>2, <1>3 DEF Submit, journalVars, clockVars
<1>6. PICK c : c = [pc |-> "reply", j |-> file]
  OBVIOUS
<1>7. c \in Calls /\ c.pc = "reply" /\ call' = [call EXCEPT ![p] = c]
  BY <1>1, <1>2, <1>6, GotoIsStep DEF Submit, Calls, InSection, Awaits
<1>8. \A q \in Procs : call'[q] = IF q = p THEN c ELSE call[q]
  BY <1>1, <1>7
<1>9. TypeOK'
  BY <1>1, <1>4, <1>5, <1>7, <1>8 DEF IInv, TypeOK, Calls
<1>10. ASSUME NEW q \in Procs PROVE ((call[q].pc \in InSection => lock = q) /\ Knows(call[q]))'
  <2>1. q # p => call[q].pc \notin InSection
    BY <1>1, FileAgrees
  <2>. QED  BY <1>1, <1>5, <1>7, <1>8, <2>1, KnowsNothing
<1>11. \A s \in survivors' : Agrees(s)'
  BY <1>1, <1>2, <1>4, <1>5 DEF Agrees, WellFormed, Certified
<1>12. (file \in survivors /\ OnChain /\ RelaysCertified)'
  BY <1>5, VersionByVersion DEF OnChain, RelaysCertified, Certified
<1>. QED  BY <1>9, <1>10, <1>11, <1>12, VersionByVersionNext

\* Handing the request to the relayer: the journal says so already, and no
\* run did before.
LEMMA RelayStep ==
  ASSUME IInv, NEW p \in Procs, Relay(p)
  PROVE  IInv'
<1>1. /\ call[p] \in Calls /\ Knows(call[p]) /\ lock = p /\ call[p].pc = "relay"
      /\ file \in Journals /\ Agrees(file) /\ call \in [Procs -> Calls]
  <2>1. call[p].pc = "relay" /\ "relay" \in InSection
    BY DEF Relay, At, InSection
  <2>. QED  BY <2>1, FileAgrees DEF IInv, TypeOK, Calls
<1>2. /\ call[p].j = file /\ survivors = {file} /\ relays = <<>>
      /\ file.intent # NoTx /\ file.relay # "none" /\ Certified(file.intent)
  BY <1>1 DEF Knows
<1>3. /\ file.transfer \in Txs /\ file.intent \in Txs
      /\ Certified(file.transfer) /\ file.intent.of = file.transfer.id
  BY <1>1, <1>2 DEF Agrees, WellFormed, Journals
<1>4. PICK r : r = [transfer |-> file.transfer, intent |-> file.intent]
  OBVIOUS
<1>5. r \in [transfer : Txs, intent : Txs]
  BY <1>3, <1>4
<1>6. /\ relays' = Append(<<>>, r)
      /\ UNCHANGED <<file, survivors, lock, submitted, chain, settled, now, minted, faults>>
  BY <1>2, <1>4 DEF Relay, journalVars, clockVars
<1>7. /\ relays' \in Seq([transfer : Txs, intent : Txs])
      /\ Len(relays') = 1 /\ DOMAIN relays' = {1} /\ relays'[1] = r
  BY <1>5, <1>6, EmptySeq, AppendProperties, LenProperties
<1>8. PICK c : c = [pc |-> "answer", j |-> file]
  OBVIOUS
<1>9. c \in Calls /\ c.pc = "answer" /\ c.j = file /\ call' = [call EXCEPT ![p] = c]
  BY <1>1, <1>2, <1>8, GotoIsStep DEF Relay, Calls, InSection, Awaits
<1>10. \A q \in Procs : call'[q] = IF q = p THEN c ELSE call[q]
  BY <1>1, <1>9
<1>11. TypeOK'
  BY <1>1, <1>6, <1>7, <1>9, <1>10 DEF IInv, TypeOK, Calls
<1>12. Knows(c)'
  BY <1>2, <1>6, <1>9 DEF Knows, OnTheWay
<1>13. ASSUME NEW q \in Procs PROVE ((call[q].pc \in InSection => lock = q) /\ Knows(call[q]))'
  <2>1. q # p => call[q].pc \notin InSection
    BY <1>1, FileAgrees
  <2>. QED  BY <1>1, <1>6, <1>10, <1>12, <2>1, KnowsNothing
<1>14. \A s \in survivors' : Agrees(s)'
  BY <1>1, <1>2, <1>4, <1>6, <1>7 DEF Agrees, WellFormed, Certified
<1>15. RelaysCertified'
  BY <1>2, <1>3, <1>4, <1>6, <1>7 DEF RelaysCertified, Certified
<1>16. (file \in survivors /\ OnChain)'
  BY <1>6, VersionByVersion DEF OnChain
<1>. QED  BY <1>11, <1>13, <1>14, <1>15, <1>16, VersionByVersionNext

\* Deaths, power losses, and the operator.
LEMMA FaultSteps ==
  ASSUME IInv, (\E p \in Procs : Crash(p)) \/ PowerLoss \/ RemoveLock
  PROVE  IInv'
<1>1. /\ call \in [Procs -> Calls] /\ lock \in Procs \cup {"free", "left"}
      /\ minted \in Nat /\ faults \in Nat
  BY DEF IInv, TypeOK, Calls
<1>2. IdleCall \in Calls /\ IdleCall.pc \notin InSection
  BY DEF IdleCall, Calls, InSection, Awaits, Writes, NoJournal, Journals
<1>3. CASE PowerLoss \/ \E p \in Procs : Crash(p)
  <2>1. /\ \A q \in Procs : \/ call'[q] = IdleCall
                            \/ call'[q] = call[q] /\ (lock = q => lock' = q)
        /\ call' \in [Procs -> Calls]
    <3>1. ASSUME PowerLoss
          PROVE  /\ \A q \in Procs : call'[q] = IdleCall
                 /\ call' \in [Procs -> Calls]
      <4>1. call' = [q \in Procs |-> IdleCall]
        BY <3>1 DEF PowerLoss
      <4>. QED  BY <1>2, <4>1
    <3>2. ASSUME NEW p \in Procs, Crash(p)
          PROVE  /\ \A q \in Procs : call'[q] = IF q = p THEN IdleCall ELSE call[q]
                 /\ call' \in [Procs -> Calls]
                 /\ lock' = IF lock = p THEN "left" ELSE lock
      BY <1>1, <1>2, <3>2 DEF Crash
    <3>3. ASSUME NEW p \in Procs, Crash(p)
          PROVE  \A q \in Procs : \/ call'[q] = IdleCall
                                  \/ call'[q] = call[q] /\ (lock = q => lock' = q)
      BY <3>2, <3>3
    <3>4. CASE PowerLoss
      BY <3>1, <3>4
    <3>5. CASE \E p \in Procs : Crash(p)
      BY <3>2, <3>3, <3>5
    <3>. QED  BY <1>3, <3>4, <3>5
  <2>2. /\ file' \in survivors' /\ survivors' \subseteq survivors
        /\ \/ survivors' = survivors /\ file' = file
           \/ \A q \in Procs : call'[q] = IdleCall
        /\ lock' \in Procs \cup {"free", "left"} /\ faults' \in Nat
        /\ UNCHANGED <<submitted, chain, relays, settled, now, minted>>
    BY <1>1, <1>3, VersionByVersion DEF PowerLoss, Crash, journalVars, networkVars, clockVars
  <2>3. TypeOK'
    BY <2>1, <2>2 DEF IInv, TypeOK, Calls
  <2>4. ASSUME NEW q \in Procs PROVE ((call[q].pc \in InSection => lock = q) /\ Knows(call[q]))'
    <3>1. CASE call'[q] = IdleCall
      BY <1>2, <3>1, KnowsNothing
    <3>2. CASE call'[q] # IdleCall
      <4>1. PICK d : d = call[q]
        OBVIOUS
      <4>2. /\ UNCHANGED <<file, survivors, submitted, chain, relays, settled>>
            /\ Knows(d)
        BY <2>2, <3>2, <4>1, FileAgrees
      <4>3. Knows(d)'
        BY <4>2 DEF Knows, Certified
      <4>. QED  BY <2>1, <3>2, <4>1, <4>3, FileAgrees
    <3>. QED  BY <3>1, <3>2
  <2>5. \A s \in survivors' : Agrees(s)'
    BY <2>2, VersionByVersion DEF Agrees, WellFormed, Certified
  <2>6. (OnChain /\ RelaysCertified)'
    BY <2>2, VersionByVersion DEF OnChain, RelaysCertified, Certified
  <2>. QED  BY <2>2, <2>3, <2>4, <2>5, <2>6, VersionByVersionNext
<1>4. CASE RemoveLock
  <2>1. /\ lock = "left" /\ lock' = "free"
        /\ UNCHANGED <<file, survivors, call, submitted, chain, relays, settled, now, minted, faults>>
    BY <1>4 DEF RemoveLock, journalVars, networkVars, clockVars
  <2>2. \A q \in Procs : call[q].pc \notin InSection
    BY <2>1, FileAgrees, ProcsAssumption
  <2>3. TypeOK'
    BY <2>1 DEF IInv, TypeOK
  <2>4. \A q \in Procs : (call[q].pc \notin InSection /\ Knows(call[q]))'
    BY <2>1, <2>2, KnowsNothing
  <2>5. (/\ file \in survivors /\ \A s \in survivors : Agrees(s)
         /\ OnChain /\ RelaysCertified)'
    BY <2>1, VersionByVersion DEF Agrees, WellFormed, OnChain, RelaysCertified, Certified
  <2>. QED  BY <2>3, <2>4, <2>5, VersionByVersionNext
<1>. QED  BY <1>3, <1>4

-----------------------------------------------------------------------------
(* The theorems.                                                           *)

\* No run has started.
LEMMA Initially == Init => IInv
<1>1. SUFFICES ASSUME Init PROVE IInv
  OBVIOUS
<1>2. /\ IdleCall \in Calls /\ IdleCall.pc \notin InSection /\ NoJournal \in Journals
      /\ NoJournal.transfer = NoTx /\ NoJournal.intent = NoTx /\ NoJournal.relay = "none"
      /\ ~NoJournal.completed
  BY DEF IdleCall, Calls, InSection, Awaits, Writes, NoJournal, Journals
<1>3. <<>> \in Seq(Txs \cup {ForeignTx}) /\ <<>> \in Seq([transfer : Txs, intent : Txs])
      /\ Len(<<>>) = 0
  BY EmptySeq
<1>4. TypeOK
  BY <1>1, <1>2, <1>3 DEF Init, TypeOK, Calls
<1>5. \A s \in survivors : Agrees(s)
  BY <1>1, <1>2 DEF Init, Agrees, WellFormed
<1>6. OnChain /\ RelaysCertified
  BY <1>1 DEF Init, OnChain, RelaysCertified
<1>7. \A p \in Procs : call[p].pc \notin InSection /\ Knows(call[p])
  BY <1>1, <1>2, KnowsNothing DEF Init
<1>. QED  BY <1>1, <1>4, <1>5, <1>6, <1>7, VersionByVersion DEF Init

\* Every step keeps the invariant.
LEMMA EveryStep == IInv /\ [Next]_vars => IInv'
<1>1. SUFFICES ASSUME IInv, [Next]_vars PROVE IInv'
  OBVIOUS
<1>2. ASSUME NEW p \in Procs, Start(p) \/ Run(p) PROVE IInv'
  BY <1>1, <1>2, SectionSteps, ReconcileSteps, WriteSteps, DecisionSteps, SubmitStep, RelayStep DEF Run
<1>3. CASE Environment
  BY <1>1, <1>3, NetworkSteps, FaultSteps DEF Environment
<1>4. CASE UNCHANGED vars
  <2>1. /\ TypeOK' /\ lock' = lock /\ call' = call
        /\ (file \in survivors /\ \A s \in survivors : Agrees(s))' /\ (OnChain /\ RelaysCertified)'
    BY <1>1, <1>4, VersionByVersion
       DEF vars, TypeOK, Agrees, WellFormed, OnChain, RelaysCertified, Certified
  <2>2. ASSUME NEW p \in Procs PROVE Knows(call[p])'
    <3>1. PICK d : d = call[p]
      OBVIOUS
    <3>2. Knows(d)'
      BY <1>1, <1>4, <3>1, FileAgrees DEF vars, Knows, Certified
    <3>. QED  BY <2>1, <3>1, <3>2
  <2>. QED  BY <1>1, <2>1, <2>2, FileAgrees, VersionByVersionNext
<1>. QED  BY <1>1, <1>2, <1>3, <1>4 DEF Next

\* The inductive invariant: every version of the journal that may survive
\* agrees with the network, and every run knows what it is about to do.
THEOREM Invariance == Spec => []IInv
BY Initially, EveryStep, PTL DEF Spec

\* At most one transfer and one intent are ever submitted (propose).
THEOREM WithdrawalPaidOnce == Spec => []PaidOnce
<1>1. IInv => PaidOnce
  BY FileAgrees DEF PaidOnce, Agrees
<1>. QED  BY <1>1, Invariance, PTL

\* At most one relay request, of certified transactions, durably recorded.
THEOREM WithdrawalRelayedOnce == Spec => []RelayedOnce
<1>1. IInv => RelayedOnce
  BY DEF IInv
<1>. QED  BY <1>1, Invariance, PTL

\* A journal that says completed is right, and nothing more is submitted or
\* relayed from it: whoever gets as far found it not completed.
THEOREM CompletionIsFinal == Spec => CompletedIsFinal
<1>1. ASSUME IInv, [Next]_vars
      PROVE  CompletedTruthful /\ (file.completed => UNCHANGED <<submitted, relays>>)
  <2>1. \A p \in Procs : call[p].pc \in {"submit", "relay"} => ~file.completed
    BY <1>1, FileAgrees DEF Knows, OnTheWay
  <2>2. ASSUME NEW p \in Procs, Start(p) \/ Run(p), ~(Submit(p) \/ Relay(p))
        PROVE  UNCHANGED <<submitted, relays>>
    BY <2>2 DEF Run, Start, OpenLock, Locked, Exit, Abort, Read, GetEvmBlock, Begin,
       SettlementFound, NoSettlement, Complete, TransferCertified, IntentCertified, Propose, Record,
       Prove, Attempt, Answered, Note, Write, networkVars
  <2>3. ASSUME Environment PROVE UNCHANGED <<submitted, relays>>
    BY <2>3 DEF Environment, Certify, ForeignSettles, RelayerExecutes, ManualRecovery, Tick, Crash,
       PowerLoss, RemoveLock, networkVars
  <2>4. \A p \in Procs : Submit(p) \/ Relay(p) => ~file.completed
    BY <2>1 DEF Submit, Relay, At
  <2>5. file.completed => UNCHANGED <<submitted, relays>>
    BY <1>1, <2>2, <2>3, <2>4 DEF Next, vars, networkVars
  <2>. QED  BY <1>1, <2>5 DEF IInv
<1>. QED  BY <1>1, Invariance, PTL DEF Spec, CompletedIsFinal

\* Version j has what the file has.
Keeps(j) ==
  /\ \A t \in submitted :
       /\ file.transfer = t => j.transfer = t
       /\ file.intent = t => j.intent = t
  /\ file.relay # "none" => j.relay # "none"
  /\ file.completed => j.completed

\* Only the writes add a version, and it keeps what the file has.
LEMMA VersionsGrow ==
  ASSUME IInv, [Next]_vars
  PROVE  \E j : survivors' \subseteq survivors \cup {j} /\ Keeps(j)
<1> USE DEF Keeps
<1>1. ASSUME NEW p \in Procs, Begin(p) \/ Complete(p) \/ Record(p) \/ Attempt(p) \/ Note(p)
      PROVE  \E j : survivors' \subseteq survivors \cup {j} /\ Keeps(j)
  <2>1. /\ file \in Journals /\ Knows(call[p]) /\ submitted \subseteq Txs
    BY FileAgrees
  <2>2. CASE Begin(p)
    <3>1. PICK j : j = [file EXCEPT !.started = TRUE]
      OBVIOUS
    <3>2. call[p].j = file /\ Write(p, j, "propose")
      BY <2>1, <2>2, <3>1 DEF Begin, At, Knows
    <3>3. survivors' \subseteq survivors \cup {j}
      BY <3>2 DEF Write, journalVars
    <3>4. /\ j.transfer = file.transfer /\ j.intent = file.intent /\ j.relay = file.relay
          /\ j.completed = file.completed
      BY <2>1, <3>1 DEF Journals
    <3>. QED  BY <3>3, <3>4
  <2>3. CASE ~Begin(p)
    <3>1. PICK j : j = call[p].j
      OBVIOUS
    <3>2. survivors' \subseteq survivors \cup {j}
      BY <1>1, <2>3, <3>1 DEF Complete, Record, Attempt, Note, Write, journalVars
    <3>3. CASE Complete(p)
      <4>1. j = [file EXCEPT !.completed = TRUE]
        BY <2>1, <3>1, <3>3 DEF Complete, At, Knows
      <4>2. /\ j.transfer = file.transfer /\ j.intent = file.intent /\ j.relay = file.relay
            /\ j.completed
        BY <2>1, <4>1 DEF Journals
      <4>. QED  BY <3>2, <4>2
    <3>4. CASE Record(p)
      <4>1. \/ /\ file.transfer = NoTx
               /\ j = [file EXCEPT !.transfer = j.transfer, !.deadline = j.deadline]
            \/ /\ file.transfer # NoTx /\ file.intent = NoTx
               /\ j = [file EXCEPT !.intent = j.intent, !.deadline = j.deadline]
        BY <2>1, <3>1, <3>4 DEF Record, At, Knows
      <4>2. /\ j.relay = file.relay /\ j.completed = file.completed
            /\ file.transfer # NoTx => j.transfer = file.transfer
            /\ file.intent # NoTx => j.intent = file.intent
        BY <2>1, <4>1 DEF Journals
      <4>. QED  BY <2>1, <3>2, <4>2, NoTxIsNone
    <3>5. CASE Attempt(p)
      <4>1. j = [file EXCEPT !.relay = "attempting"]
        BY <2>1, <3>1, <3>5 DEF Attempt, At, Knows
      <4>. QED  BY <2>1, <3>2, <4>1 DEF Journals
    <3>6. CASE Note(p)
      <4>1. j = [file EXCEPT !.relay = j.relay] /\ j.relay # "none"
        BY <2>1, <3>1, <3>6 DEF Note, At, Knows
      <4>2. /\ j.transfer = file.transfer /\ j.intent = file.intent
            /\ j.completed = file.completed
        BY <2>1, <4>1 DEF Journals
      <4>. QED  BY <3>2, <4>1, <4>2
    <3>. QED  BY <1>1, <2>3, <3>3, <3>4, <3>5, <3>6
  <2>. QED  BY <2>2, <2>3
<1>2. CASE survivors' \subseteq survivors
  BY <1>2
<1>3. CASE \A p \in Procs : ~(Begin(p) \/ Complete(p) \/ Record(p) \/ Attempt(p) \/ Note(p))
  <2>1. ASSUME NEW p \in Procs, Start(p) \/ Run(p) PROVE survivors' = survivors
    BY <1>3, <2>1 DEF Run, Start, OpenLock, Locked, Exit, Abort, Read, GetEvmBlock, SettlementFound,
       NoSettlement, TransferCertified, IntentCertified, Propose, Submit, Prove, Relay, Answered,
       journalVars
  <2>2. ASSUME Environment PROVE survivors' \subseteq survivors
    BY <2>2, FileAgrees DEF Environment, Certify, ForeignSettles, RelayerExecutes, ManualRecovery,
       Tick, Crash, PowerLoss, RemoveLock, journalVars
  <2>. QED  BY <1>2, <2>1, <2>2 DEF Next, vars
<1>4. (\E p \in Procs : Begin(p) \/ Complete(p) \/ Record(p) \/ Attempt(p) \/ Note(p))
      => \E j : survivors' \subseteq survivors \cup {j} /\ Keeps(j)
  BY <1>1
<1>. QED  BY <1>3, <1>4

\* What the journal durably knows is never forgotten.
THEOREM JournalIsMonotone == Spec => JournalMonotone
<1>1. ASSUME IInv, [Next]_vars
      PROVE  /\ \A t \in submitted :
                  /\ (\A s \in survivors : s.transfer = t) => \A s \in survivors' : s.transfer = t
                  /\ (\A s \in survivors : s.intent = t) => \A s \in survivors' : s.intent = t
             /\ (\A s \in survivors : s.relay # "none") => \A s \in survivors' : s.relay # "none"
             /\ (\A s \in survivors : s.completed) => \A s \in survivors' : s.completed
  <2>1. file \in survivors
    BY <1>1 DEF IInv
  <2>2. PICK j : survivors' \subseteq survivors \cup {j} /\ Keeps(j)
    BY <1>1, VersionsGrow
  <2>3. \A t \in submitted :
          /\ (\A s \in survivors : s.transfer = t) => \A s \in survivors' : s.transfer = t
          /\ (\A s \in survivors : s.intent = t) => \A s \in survivors' : s.intent = t
    BY <2>1, <2>2 DEF Keeps
  <2>4. (\A s \in survivors : s.relay # "none") => \A s \in survivors' : s.relay # "none"
    BY <2>1, <2>2 DEF Keeps
  <2>5. (\A s \in survivors : s.completed) => \A s \in survivors' : s.completed
    BY <2>1, <2>2, Zenon DEF Keeps
  <2>. QED  BY <2>3, <2>4, <2>5
<1>. QED  BY <1>1, Invariance, PTL DEF Spec, JournalMonotone
=============================================================================
