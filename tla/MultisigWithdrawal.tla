------------------------- MODULE MultisigWithdrawal -------------------------
(***************************************************************************)
(* runMultisigWithdrawal of the fast CLI: one withdrawal from a multisig   *)
(* account to an EVM chain, advanced by as many runs of the command as it  *)
(* takes, all on one journal file.                                         *)
(*                                                                         *)
(* The withdrawal has three external effects: a transfer to the bridge, an *)
(* intent that names the transfer, and a relay request that carries the    *)
(* certificates of both.  Each run looks for the EVM settlement, then      *)
(* reconciles the effects the journal records and attempts the next one.   *)
(* An effect is never attempted twice, whatever dies in between: the       *)
(* journal is written before each of them.                                 *)
(***************************************************************************)
EXTENDS Naturals, Sequences

CONSTANTS
  Procs,       \* runs of the command that may be alive at once
  Window,      \* life of an intent (24 hours in the code)
  MaxNow,      \* bound: the clock
  MaxNonce,    \* bound: transactions the account settles
  MaxMint,     \* bound: envelopes signed
  MaxFaults    \* bound: failed writes, process deaths and power losses

ASSUME ProcsAssumption == Procs \cap {"free", "left"} = {}
ASSUME WindowAssumption == Window \in Nat \ {0}
ASSUME BoundsAssumption == {MaxNow, MaxNonce, MaxMint, MaxFaults} \subseteq Nat

VARIABLES
  file,        \* the journal file, as read() returns it
  survivors,   \* the versions of the file a power loss may leave
  lock,        \* FILE.lock: the run that made it, "free" or "left" by a dead one
  call,        \* per process, its step and its copy of the journal
  submitted,   \* the transactions handed to the network
  chain,       \* the account's settled transactions, by nonce
  relays,      \* the requests handed to the relayer
  settled,     \* the transfers paid out on the EVM chain
  now, minted, faults

journalVars == <<file, survivors>>
networkVars == <<submitted, chain, relays, settled>>
clockVars == <<now, minted>>
vars == <<file, survivors, lock, call, submitted, chain, relays, settled, now, minted, faults>>

-----------------------------------------------------------------------------

\* A signed envelope; id tells two signatures of the same operation apart.
\* An intent carries the deadline and the transfer it releases.
NoTx == [stage |-> "none", id |-> 0, nonce |-> 0, deadline |-> 0, of |-> 0]
ForeignTx == [NoTx EXCEPT !.stage = "foreign"]
Txs == [stage : {"transfer", "intent"}, id : Nat, nonce : Nat, deadline : Nat, of : Nat]

\* started: the file exists (with its route and EVM start block).
Journals == [started : BOOLEAN, transfer : Txs \cup {NoTx}, intent : Txs \cup {NoTx},
             deadline : Nat, relay : {"none", "attempting", "accepted", "rejected"},
             completed : BOOLEAN]
NoJournal == [started |-> FALSE, transfer |-> NoTx, intent |-> NoTx, deadline |-> 0,
              relay |-> "none", completed |-> FALSE]

Awaits == {"evm", "settlement", "transfer", "propose", "reply", "intent", "prove", "answer"}
Writes == {"begin", "complete", "record", "attempt", "note"}
InSection == Awaits \cup Writes \cup {"read", "submit", "relay", "exit"}
IdleCall == [pc |-> "idle", j |-> NoJournal]

At(p, l) == call[p].pc = l
Step(p, l, j) == call' = [call EXCEPT ![p] = [pc |-> l, j |-> j]]
Goto(p, l) == call' = [call EXCEPT ![p].pc = l]

\* The transaction being proposed: the last one of the journal.
Proposal(j) == IF j.intent = NoTx THEN j.transfer ELSE j.intent

Init ==
  /\ file = NoJournal /\ survivors = {NoJournal}
  /\ lock = "free"
  /\ call = [p \in Procs |-> IdleCall]
  /\ submitted = {} /\ chain = <<>> /\ relays = <<>> /\ settled = {}
  /\ now = 0 /\ minted = 0 /\ faults = 0

-----------------------------------------------------------------------------
(* The journal file and its lock.                                          *)

Start(p) ==
  /\ At(p, "idle")
  /\ Goto(p, "open")
  /\ UNCHANGED <<journalVars, lock, networkVars, clockVars, faults>>

OpenLock(p) ==
  /\ At(p, "open")
  /\ lock = "free" /\ lock' = p
  /\ Goto(p, "read")
  /\ UNCHANGED <<journalVars, networkVars, clockVars, faults>>

Locked(p) ==
  /\ At(p, "open")
  /\ lock # "free"
  /\ Goto(p, "idle")
  /\ UNCHANGED <<journalVars, lock, networkVars, clockVars, faults>>

\* write: it may throw before its rename, or after it and before the
\* directory is synced; then both versions of the file may survive.
Write(p, j, next) ==
  /\ \/ /\ file' = j /\ survivors' = {j}
        /\ Step(p, next, j)
        /\ UNCHANGED faults
     \/ /\ faults < MaxFaults /\ faults' = faults + 1
        /\ UNCHANGED journalVars
        /\ Goto(p, "exit")
     \/ /\ faults < MaxFaults /\ faults' = faults + 1
        /\ file' = j /\ survivors' = survivors \cup {j}
        /\ Goto(p, "exit")
  /\ UNCHANGED <<lock, networkVars, clockVars>>

\* The finally block: the lock file is removed.
Exit(p) ==
  /\ At(p, "exit")
  /\ lock' = "free"
  /\ call' = [call EXCEPT ![p] = IdleCall]
  /\ UNCHANGED <<journalVars, networkVars, clockVars, faults>>

\* Any request may fail, or find nothing to go on with; the run ends.
Abort(p) ==
  /\ call[p].pc \in Awaits \cup {"read"}
  /\ Goto(p, "exit")
  /\ UNCHANGED <<journalVars, lock, networkVars, clockVars, faults>>

-----------------------------------------------------------------------------
(* runMultisigWithdrawal, up to the settlement.                            *)

Read(p) ==
  /\ At(p, "read")
  /\ Step(p, IF ~file.started THEN "evm"
             ELSE IF file.transfer = NoTx THEN "propose" ELSE "settlement", file)
  /\ UNCHANGED <<journalVars, lock, networkVars, clockVars, faults>>

GetEvmBlock(p) ==
  /\ At(p, "evm")
  /\ Goto(p, "begin")
  /\ UNCHANGED <<journalVars, lock, networkVars, clockVars, faults>>

Begin(p) ==
  /\ At(p, "begin")
  /\ Write(p, [call[p].j EXCEPT !.started = TRUE], "propose")

\* Mutant: the settlement is looked for only after an accepted relay.
SettlementFoundAfterRelay(p) ==
  /\ At(p, "settlement")
  /\ call[p].j.relay = "accepted"
  /\ call[p].j.transfer \in settled
  /\ Step(p, "complete", [call[p].j EXCEPT !.completed = TRUE])
  /\ UNCHANGED <<journalVars, lock, networkVars, clockVars, faults>>

\* The withdraw event of this transfer, with its payment.
SettlementFound(p) ==
  /\ At(p, "settlement")
  /\ call[p].j.transfer \in settled
  /\ Step(p, "complete", [call[p].j EXCEPT !.completed = TRUE])
  /\ UNCHANGED <<journalVars, lock, networkVars, clockVars, faults>>

\* Mutant: a completed journal is reopened when its settlement is not seen.
NoSettlementGoesOn(p) ==
  /\ At(p, "settlement")
  /\ Goto(p, "transfer")
  /\ UNCHANGED <<journalVars, lock, networkVars, clockVars, faults>>

\* Not settled, or not seen; a terminal journal is not reopened.
NoSettlement(p) ==
  /\ At(p, "settlement")
  /\ Goto(p, IF call[p].j.completed THEN "exit" ELSE "transfer")
  /\ UNCHANGED <<journalVars, lock, networkVars, clockVars, faults>>

Complete(p) ==
  /\ At(p, "complete")
  /\ Write(p, call[p].j, "exit")

-----------------------------------------------------------------------------
(* The transfer and the intent.                                            *)

Certified(t) == \E i \in DOMAIN chain : chain[i] = t

\* Mutant: any certificate at the saved nonce will do.
CertificateAtNonce(t) == Len(chain) > t.nonce

\* The certificate at the saved nonce is the saved transaction's.
CertificateMatches(t) == Len(chain) > t.nonce /\ chain[t.nonce + 1] = t

\* An expired intent is not relayed: the run fails (Abort).
TransferCertified(p) ==
  LET j == call[p].j
  IN  /\ At(p, "transfer")
      /\ CertificateMatches(j.transfer)
      /\ \/ /\ j.intent = NoTx
            /\ Step(p, "propose", [j EXCEPT !.deadline = now + Window])
         \/ /\ j.intent # NoTx
            /\ j.relay = "none" => j.deadline > now
            /\ Goto(p, "intent")
      /\ UNCHANGED <<journalVars, lock, networkVars, clockVars, faults>>

\* Once relayed the run only waits for the settlement.
IntentCertified(p) ==
  /\ At(p, "intent")
  /\ CertificateMatches(call[p].j.intent)
  /\ Goto(p, IF call[p].j.relay = "none" THEN "prove" ELSE "exit")
  /\ UNCHANGED <<journalVars, lock, networkVars, clockVars, faults>>

Signed(j, n) ==
  [stage |-> IF j.transfer = NoTx THEN "transfer" ELSE "intent", id |-> minted + 1,
   nonce |-> n, deadline |-> j.deadline, of |-> j.transfer.id]

\* getAccountInfo, the balance and proposal checks, and the signature.  The
\* nonce is as old as the replica and the awaits in between make it.
Propose(p) ==
  /\ At(p, "propose")
  /\ minted < MaxMint /\ minted' = minted + 1
  /\ \E n \in 0..Len(chain) :
       LET j == call[p].j
       IN  Step(p, "record", IF j.transfer = NoTx
                               THEN [j EXCEPT !.transfer = Signed(j, n)]
                               ELSE [j EXCEPT !.intent = Signed(j, n)])
  /\ UNCHANGED <<journalVars, lock, networkVars, now, faults>>

\* Mutant: the attempt is recorded after it.
RecordAfterwards(p) ==
  /\ At(p, "record")
  /\ submitted' = submitted \cup {Proposal(call[p].j)}
  /\ \/ file' = call[p].j /\ survivors' = {call[p].j} /\ UNCHANGED faults
     \/ faults < MaxFaults /\ faults' = faults + 1 /\ UNCHANGED journalVars
  /\ Goto(p, "reply")
  /\ UNCHANGED <<lock, chain, relays, settled, clockVars>>

Record(p) ==
  /\ At(p, "record")
  /\ Write(p, call[p].j, "submit")

\* Whatever the network answers, the run ends (Abort).
Submit(p) ==
  /\ At(p, "submit")
  /\ submitted' = submitted \cup {Proposal(call[p].j)}
  /\ Goto(p, "reply")
  /\ UNCHANGED <<journalVars, lock, chain, relays, settled, clockVars, faults>>

-----------------------------------------------------------------------------
(* The relay.                                                              *)

\* Both cross-signatures and the simulation.
Prove(p) ==
  /\ At(p, "prove")
  /\ Step(p, "attempt", [call[p].j EXCEPT !.relay = "attempting"])
  /\ UNCHANGED <<journalVars, lock, networkVars, clockVars, faults>>

Attempt(p) ==
  /\ At(p, "attempt")
  /\ Write(p, call[p].j, "relay")

Relay(p) ==
  /\ At(p, "relay")
  /\ relays' = Append(relays, [transfer |-> call[p].j.transfer, intent |-> call[p].j.intent])
  /\ Goto(p, "answer")
  /\ UNCHANGED <<journalVars, lock, submitted, chain, settled, clockVars, faults>>

\* Mutant: a rejected relay may be tried again.
AnsweredReopening(p) ==
  /\ At(p, "answer")
  /\ \E r \in {"accepted", "none", "attempting"} : Step(p, "note", [call[p].j EXCEPT !.relay = r])
  /\ UNCHANGED <<journalVars, lock, networkVars, clockVars, faults>>

\* Accepted, rejected, or an unusable answer.
Answered(p) ==
  /\ At(p, "answer")
  /\ \E r \in {"accepted", "rejected", "attempting"} : Step(p, "note", [call[p].j EXCEPT !.relay = r])
  /\ UNCHANGED <<journalVars, lock, networkVars, clockVars, faults>>

Note(p) ==
  /\ At(p, "note")
  /\ Write(p, call[p].j, "exit")

-----------------------------------------------------------------------------
(* The environment.                                                        *)

\* The cosigners vote and the network settles a proposal.
Certify ==
  /\ Len(chain) < MaxNonce
  /\ \E t \in submitted : t.nonce = Len(chain) /\ chain' = Append(chain, t)
  /\ UNCHANGED <<journalVars, lock, call, submitted, relays, settled, clockVars, faults>>

\* Another transaction of the account settles.
ForeignSettles ==
  /\ Len(chain) < MaxNonce
  /\ chain' = Append(chain, ForeignTx)
  /\ UNCHANGED <<journalVars, lock, call, submitted, relays, settled, clockVars, faults>>

\* The relayer executes a request; the bridge refuses an expired intent, or
\* one for another transfer.
RelayerExecutes ==
  /\ \E i \in DOMAIN relays :
       LET t == relays[i].transfer u == relays[i].intent
       IN  /\ Certified(t) /\ Certified(u)
           /\ u.of = t.id /\ now < u.deadline
           /\ t \notin settled /\ settled' = settled \cup {t}
  /\ UNCHANGED <<journalVars, lock, call, submitted, chain, relays, clockVars, faults>>

\* The owners recover a certified transfer by hand.
ManualRecovery ==
  /\ \E t \in submitted \ settled :
       /\ t.stage = "transfer" /\ Certified(t)
       /\ settled' = settled \cup {t}
  /\ UNCHANGED <<journalVars, lock, call, submitted, chain, relays, clockVars, faults>>

Tick ==
  /\ now < MaxNow /\ now' = now + 1
  /\ UNCHANGED <<journalVars, lock, call, networkVars, minted, faults>>

\* A dead run leaves its lock file.
Crash(p) ==
  /\ ~At(p, "idle")
  /\ faults < MaxFaults /\ faults' = faults + 1
  /\ lock' = IF lock = p THEN "left" ELSE lock
  /\ call' = [call EXCEPT ![p] = IdleCall]
  /\ UNCHANGED <<journalVars, networkVars, clockVars>>

PowerLoss ==
  /\ faults < MaxFaults /\ faults' = faults + 1
  /\ \E j \in survivors : file' = j /\ survivors' = {j}
  /\ lock' = IF lock = "free" THEN "free" ELSE "left"
  /\ call' = [p \in Procs |-> IdleCall]
  /\ UNCHANGED <<networkVars, clockVars>>

\* An operator removes the lock of a dead run.
RemoveLock ==
  /\ lock = "left" /\ lock' = "free"
  /\ UNCHANGED <<journalVars, call, networkVars, clockVars, faults>>

-----------------------------------------------------------------------------

Run(p) ==
  \/ OpenLock(p) \/ Locked(p) \/ Exit(p) \/ Abort(p)
  \/ Read(p) \/ GetEvmBlock(p) \/ Begin(p)
  \/ SettlementFound(p) \/ NoSettlement(p) \/ Complete(p)
  \/ TransferCertified(p) \/ IntentCertified(p) \/ Propose(p) \/ Record(p) \/ Submit(p)
  \/ Prove(p) \/ Attempt(p) \/ Relay(p) \/ Answered(p) \/ Note(p)

Environment ==
  \/ Certify \/ ForeignSettles \/ RelayerExecutes \/ ManualRecovery \/ Tick
  \/ (\E p \in Procs : Crash(p)) \/ PowerLoss \/ RemoveLock

Next == (\E p \in Procs : Start(p) \/ Run(p)) \/ Environment

Spec == Init /\ [][Next]_vars

-----------------------------------------------------------------------------
(* Safety.                                                                 *)

TypeOK ==
  /\ file \in Journals /\ survivors \subseteq Journals
  /\ lock \in Procs \cup {"free", "left"}
  /\ call \in [Procs -> [pc : InSection \cup {"idle", "open"}, j : Journals]]
  /\ submitted \subseteq Txs
  /\ chain \in Seq(Txs \cup {ForeignTx})
  /\ relays \in Seq([transfer : Txs, intent : Txs])
  /\ settled \subseteq Txs
  /\ now \in Nat /\ minted \in Nat /\ faults \in Nat

\* "Existing attempts are reconciled, never reissued": however often the
\* command is run, and whatever dies, at most one transfer and at most one
\* intent are ever handed to the network.
PaidOnce == \A t, u \in submitted : t.stage = u.stage => t = u

\* The relayer is asked once, with a transfer and an intent that are both
\* certified and belong together, and only when the journal says so in every
\* version a power loss may leave.
RelayedOnce ==
  /\ Len(relays) <= 1
  /\ \A i \in DOMAIN relays :
       LET t == relays[i].transfer u == relays[i].intent
       IN  /\ Certified(t) /\ Certified(u) /\ u.of = t.id
           /\ \A s \in survivors : s.transfer = t /\ s.intent = u /\ s.relay # "none"

\* A journal that says completed is right: its transfer was paid out.
CompletedTruthful ==
  \A s \in survivors \cup {file} : s.completed => s.transfer \in settled

\* A completed withdrawal is over: its transfer was paid out, and no run hands
\* anything more to the network or to the relayer, also when its own query of
\* the EVM chain misses the settlement that the journal records.
CompletedIsFinal ==
  [][CompletedTruthful /\ (file.completed => UNCHANGED <<submitted, relays>>)]_vars

\* What the journal durably knows is never forgotten: neither a transaction,
\* nor that a relay was attempted, nor that the withdrawal is over.
JournalMonotone ==
  [][/\ \A t \in submitted :
          /\ (\A s \in survivors : s.transfer = t) => \A s \in survivors' : s.transfer = t
          /\ (\A s \in survivors : s.intent = t) => \A s \in survivors' : s.intent = t
     /\ (\A s \in survivors : s.relay # "none") => \A s \in survivors' : s.relay # "none"
     /\ (\A s \in survivors : s.completed) => \A s \in survivors' : s.completed]_vars
-----------------------------------------------------------------------------
(* The inductive invariant behind them.                                    *)

\* A journal's stages build on each other; an intent is proposed only for a
\* certified transfer.
WellFormed(s) ==
  /\ s.transfer = NoTx \/ s.transfer.stage = "transfer"
  /\ s.intent = NoTx \/ s.intent.stage = "intent"
  /\ ~s.started => s.transfer = NoTx
  /\ s.transfer = NoTx => s.intent = NoTx /\ ~s.completed
  /\ s.intent # NoTx => Certified(s.transfer) /\ s.intent.of = s.transfer.id
  /\ s.intent = NoTx => s.relay = "none"

\* What is submitted is on file, in every version that may survive.
Evidence ==
  \A t \in submitted : \A s \in survivors :
    IF t.stage = "transfer" THEN s.transfer = t ELSE s.intent = t

OnChain ==
  /\ settled \subseteq submitted
  /\ \A i \in DOMAIN chain : chain[i] \in submitted \cup {ForeignTx}

\* The steps of a run that goes on to propose or relay.
OnTheWay == {"transfer", "intent", "prove", "propose", "record", "submit", "attempt", "relay"}

\* What a run knows at each step, besides holding the lock: its copy of the
\* journal is the file's, but for the change it is about to write.
Knows(c) ==
  LET j == c.j pc == c.pc
  IN  /\ pc \in OnTheWay => ~file.completed /\ ~j.completed
      /\ pc \in {"evm", "begin"} => j = file /\ file.transfer = NoTx
      /\ pc \in {"settlement", "transfer", "intent", "prove"} => j = file /\ file.transfer # NoTx
      /\ pc \in {"intent", "prove"} => file.intent # NoTx
      /\ pc = "prove" => file.relay = "none" /\ Certified(file.intent)
      /\ pc = "propose" => /\ file.started /\ file.intent = NoTx
                           /\ j = [file EXCEPT !.deadline = j.deadline]
                           /\ file.transfer = NoTx \/ Certified(file.transfer)
      /\ pc = "record" => file.started /\
           \/ /\ file.transfer = NoTx /\ j.transfer.stage = "transfer"
              /\ j = [file EXCEPT !.transfer = j.transfer, !.deadline = j.deadline]
           \/ /\ file.transfer # NoTx /\ file.intent = NoTx /\ Certified(file.transfer)
              /\ j.intent.stage = "intent" /\ j.intent.of = file.transfer.id
              /\ j = [file EXCEPT !.intent = j.intent, !.deadline = j.deadline]
      /\ pc = "submit" => /\ j = file /\ survivors = {file} /\ file.transfer # NoTx
      /\ pc = "complete" => /\ j = [file EXCEPT !.completed = TRUE] /\ j.transfer \in settled
      /\ pc = "attempt" => /\ file.relay = "none" /\ file.intent # NoTx
                           /\ Certified(file.intent)
                           /\ j = [file EXCEPT !.relay = "attempting"]
      /\ pc = "relay" => /\ j = file /\ survivors = {file} /\ relays = <<>>
                         /\ file.intent # NoTx /\ file.relay # "none"
                         /\ Certified(file.intent)
      /\ pc = "answer" => j = file /\ file.relay # "none"
      /\ pc = "note" => /\ file.relay # "none" /\ j.relay # "none"
                        /\ j = [file EXCEPT !.relay = j.relay]

IInv ==
  /\ TypeOK /\ file \in survivors
  /\ \A s \in survivors : WellFormed(s)
  /\ Evidence /\ OnChain /\ RelayedOnce /\ CompletedTruthful
  /\ \A p \in Procs : (call[p].pc \in InSection => lock = p) /\ Knows(call[p])

-----------------------------------------------------------------------------
(* Liveness.                                                               *)

FairSpec == Spec /\ \A p \in Procs : WF_vars(Run(p))

\* An owner who keeps running the command, also when no other run holds the
\* lock, an operator who removes the locks of the dead, and an EVM node that
\* shows the settlement.
RerunFairness ==
  /\ WF_vars(RemoveLock)
  /\ \A p \in Procs :
       /\ SF_vars(lock = "free" /\ Start(p))
       /\ SF_vars(OpenLock(p))
       /\ SF_vars(Read(p))
       /\ SF_vars(SettlementFound(p))
       /\ SF_vars(Complete(p) /\ call'[p].pc = "exit" /\ survivors' = {file'})

\* A transfer that was paid out, by the relayer or by hand, whatever became
\* of the runs that started it, is in the end recorded as completed for good.
SettlementRecorded ==
  RerunFairness => (<>(settled # {}) => <>[](file.completed /\ survivors = {file}))
=============================================================================
