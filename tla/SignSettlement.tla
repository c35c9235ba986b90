--------------------------- MODULE SignSettlement ---------------------------
(***************************************************************************)
(* The settlement half of @fastxyz/sign-sdk: signDigest, recoverSettlement *)
(* and the import half of registerReceipt, run by several processes that   *)
(* share one file journal and one signing account.                         *)
(*                                                                         *)
(* A public operationId is frozen into an operation (a transaction at one  *)
(* account nonce), recorded in the journal, and handed to the provider at  *)
(* most once.  Two file locks serialise the work: operation:<id> and       *)
(* account:<network>:<sender>.  Every journal save may fail before or      *)
(* after its rename, a process may die between any two steps, and a power  *)
(* loss may undo renames whose directory was never synced.                 *)
(*                                                                         *)
(* The five settled states of the journal are one state here, "settled";   *)
(* module RecordRegistration takes them apart.                             *)
(***************************************************************************)
EXTENDS Naturals, FiniteSets

CONSTANTS
  Procs,       \* client processes; each runs one SDK call at a time
  Ops,         \* public operationIds
  NoTx,        \* "no transaction"
  MaxNonce,    \* bound: account nonces 0..MaxNonce
  MaxMint,     \* bound: operations frozen from fresh randomness
  MaxFaults,   \* bound: failed saves, process deaths and power losses
  MaxForeign   \* bound: transactions of the account sent by another host

Nonces == 0..MaxNonce
Tx == [op : Ops, nonce : Nonces, id : Nat]

ASSUME ProcsAssumption == Procs \cap {"free", "dead"} = {}
ASSUME OpsAssumption == Ops \cap {"absent", "tombstone", "none"} = {}
ASSUME NoTxAssumption == NoTx \notin Tx
ASSUME BoundsAssumption == MaxNonce \in Nat /\ MaxMint \in Nat
                             /\ MaxFaults \in Nat /\ MaxForeign \in Nat

VARIABLES
  journal,     \* [ops, resv]: the record files as load() reads them
  survivors,   \* [ops, resv]: per file, the versions a power loss may leave
  opLock,      \* lock file operation:<id>: its owner, "free" or "dead"
  accountLock, \* lock file account:<network>:<sender>
  call,        \* per process, the SDK call it is executing
  submitted,   \* transactions handed to provider.submitTransaction
  inflight,    \* those the network may still execute
  certified,   \* transactions with a settlement certificate
  nextNonce,   \* the account's next nonce at the network
  minted, faults, foreign

journalVars == <<journal, survivors>>
lockVars    == <<opLock, accountLock>>
networkVars == <<submitted, inflight, certified, nextNonce, foreign>>
vars == <<journal, survivors, opLock, accountLock, call, submitted, inflight,
          certified, nextNonce, minted, faults, foreign>>

-----------------------------------------------------------------------------
(* Journal records.                                                        *)

States == {"absent", "prepared", "submission_unknown", "settled"}
Entry == [state : States, tx : Tx \cup {NoTx}, retry : BOOLEAN,
          receipt : Tx \cup {NoTx}]
Reservation == Ops \cup {"absent", "tombstone"}

Absent          == [state |-> "absent", tx |-> NoTx, retry |-> FALSE, receipt |-> NoTx]
Prepared(t)     == [state |-> "prepared", tx |-> t, retry |-> FALSE, receipt |-> NoTx]
RetryMarker(t)  == [state |-> "prepared", tx |-> t, retry |-> TRUE, receipt |-> NoTx]
Unknown(t)      == [state |-> "submission_unknown", tx |-> t, retry |-> FALSE, receipt |-> NoTx]
Settled(t, r)   == [state |-> "settled", tx |-> t, retry |-> FALSE, receipt |-> r]

\* What assertJournalSnapshot accepts: a submission's evidence fields follow
\* from its state, and a receipt is for the frozen transaction.
Structured(e) ==
  /\ (e.state = "absent") <=> (e.tx = NoTx)
  /\ e.retry => e.state = "prepared"
  /\ e.receipt = (IF e.state = "settled" THEN e.tx ELSE NoTx)

(* A save is a write to a temporary file, a rename and a directory sync.   *)
(* "lost": it threw before the rename.  "torn": it threw, or the process   *)
(* died, between the rename and the sync, so load() sees the new version   *)
(* but a power loss may restore an older one.  "ok" syncs the directory    *)
(* that holds every record file.                                           *)
Outcomes == {"ok", "lost", "torn"}

Fault(out) ==
  IF out = "ok" THEN faults' = faults
                ELSE faults < MaxFaults /\ faults' = faults + 1

Synced(j) == [ops  |-> [o \in Ops |-> {j.ops[o]}],
              resv |-> [n \in Nonces |-> {j.resv[n]}]]

\* Mutant: the rename is never followed by a directory sync.
SaveOpWithoutSync(o, e, out) ==
  /\ Fault(out)
  /\ journal' = IF out = "lost" THEN journal ELSE [journal EXCEPT !.ops[o] = e]
  /\ survivors' = IF out = "lost" THEN survivors ELSE [survivors EXCEPT !.ops[o] = @ \cup {e}]

SaveOp(o, e, out) ==
  /\ Fault(out)
  /\ journal' = IF out = "lost" THEN journal ELSE [journal EXCEPT !.ops[o] = e]
  /\ survivors' = CASE out = "ok"   -> Synced(journal')
                    [] out = "lost" -> survivors
                    [] out = "torn" -> [survivors EXCEPT !.ops[o] = @ \cup {e}]

SaveReservation(n, r, out) ==
  /\ Fault(out)
  /\ journal' = IF out = "lost" THEN journal ELSE [journal EXCEPT !.resv[n] = r]
  /\ survivors' = CASE out = "ok"   -> Synced(journal')
                    [] out = "lost" -> survivors
                    [] out = "torn" -> [survivors EXCEPT !.resv[n] = @ \cup {r}]

-----------------------------------------------------------------------------
(* Calls.                                                                  *)

Kinds == {"none", "signDigest", "recoverSettlement", "registerReceipt"}
Results == {"none", "unknown", "settled", "unpersisted", "error"}
Labels == {"idle", "op_lock", "load", "account_lock", "load_current", "read_nonce",
           "bind", "sign", "reserve", "release_reservation", "save_unknown",
           "save_retry", "submit", "await", "save_settled", "observe", "import", "exit"}

Call == [pc : Labels, kind : Kinds, op : Ops \cup {"none"}, tx : Tx \cup {NoTx},
         fresh : BOOLEAN, created : BOOLEAN, cert : Tx \cup {NoTx}, result : Results]

IdleCall == [pc |-> "idle", kind |-> "none", op |-> "none", tx |-> NoTx,
             fresh |-> FALSE, created |-> FALSE, cert |-> NoTx, result |-> "none"]
NewCall(k, o, r) == [IdleCall EXCEPT !.pc = "op_lock", !.kind = k, !.op = o, !.cert = r]

At(p, l) == call[p].pc = l
Goto(p, l) == call' = [call EXCEPT ![p].pc = l]
Return(p, r) == call' = [call EXCEPT ![p].pc = "exit", ![p].result = r]
Stored(p) == journal.ops[call[p].op]

\* resultFromSettled and the "unknown" early returns.
ReportStored(e) == IF e.state = "settled" THEN "settled" ELSE "unknown"

Init ==
  /\ journal = [ops |-> [o \in Ops |-> Absent], resv |-> [n \in Nonces |-> "absent"]]
  /\ survivors = Synced(journal)
  /\ opLock = [o \in Ops |-> "free"]
  /\ accountLock = "free"
  /\ call = [p \in Procs |-> IdleCall]
  /\ submitted = {} /\ inflight = {} /\ certified = {}
  /\ nextNonce = 0 /\ minted = 0 /\ faults = 0 /\ foreign = 0

-----------------------------------------------------------------------------
(* Entry and the locks.                                                    *)

StartSign(p, o) ==
  /\ At(p, "idle")
  /\ call' = [call EXCEPT ![p] = NewCall("signDigest", o, NoTx)]
  /\ UNCHANGED <<journalVars, lockVars, networkVars, minted, faults>>

StartRecover(p, o) ==
  /\ At(p, "idle")
  /\ call' = [call EXCEPT ![p] = NewCall("recoverSettlement", o, NoTx)]
  /\ UNCHANGED <<journalVars, lockVars, networkVars, minted, faults>>

\* A receipt reaches registerReceipt only after verifyReceipt saw its
\* transaction through the reader.
StartRegister(p, r) ==
  /\ At(p, "idle")
  /\ call' = [call EXCEPT ![p] = NewCall("registerReceipt", r.op, r)]
  /\ UNCHANGED <<journalVars, lockVars, networkVars, minted, faults>>

AfterOpLock(p) == CASE call[p].kind = "signDigest"        -> "load"
                    [] call[p].kind = "recoverSettlement" -> "observe"
                    [] call[p].kind = "registerReceipt"   -> "import"

\* Mutant: a waiter takes the lock over from an owner that holds it too long.
StealOpLock(p) ==
  /\ At(p, "op_lock")
  /\ opLock' = [opLock EXCEPT ![call[p].op] = p]
  /\ Goto(p, AfterOpLock(p))
  /\ UNCHANGED <<journalVars, accountLock, networkVars, minted, faults>>

AcquireOpLock(p) ==
  /\ At(p, "op_lock")
  /\ opLock[call[p].op] = "free"
  /\ opLock' = [opLock EXCEPT ![call[p].op] = p]
  /\ Goto(p, AfterOpLock(p))
  /\ UNCHANGED <<journalVars, accountLock, networkVars, minted, faults>>

AcquireAccountLock(p) ==
  /\ At(p, "account_lock")
  /\ accountLock = "free"
  /\ accountLock' = p
  /\ Goto(p, "load_current")
  /\ UNCHANGED <<journalVars, opLock, networkVars, minted, faults>>

\* Mutant: only a live owner's lock runs into the deadline.
WaitForDeadOwner(p) ==
  /\ \/ At(p, "op_lock") /\ opLock[call[p].op] \in Procs
     \/ At(p, "account_lock") /\ accountLock \in Procs
  /\ Return(p, "error")
  /\ UNCHANGED <<journalVars, lockVars, networkVars, minted, faults>>

\* The lock file exists: a dead owner makes withLock throw at once, a live
\* one until the deadline passes.
LockUnavailable(p) ==
  /\ \/ At(p, "op_lock") /\ opLock[call[p].op] # "free"
     \/ At(p, "account_lock") /\ accountLock # "free"
  /\ Return(p, "error")
  /\ UNCHANGED <<journalVars, lockVars, networkVars, minted, faults>>

\* Mutant: the outer finally block is missing.
ExitKeepingOpLock(p) ==
  /\ At(p, "exit")
  /\ accountLock' = IF accountLock = p THEN "free" ELSE accountLock
  /\ call' = [call EXCEPT ![p] = IdleCall]
  /\ UNCHANGED <<journalVars, opLock, networkVars, minted, faults>>

\* The finally blocks of both withLock calls, inner lock first.
Exit(p) ==
  /\ At(p, "exit")
  /\ opLock' = [opLock EXCEPT ![call[p].op] = IF @ = p THEN "free" ELSE @]
  /\ accountLock' = IF accountLock = p THEN "free" ELSE accountLock
  /\ call' = [call EXCEPT ![p] = IdleCall]
  /\ UNCHANGED <<journalVars, networkVars, minted, faults>>

-----------------------------------------------------------------------------
(* signDigest.                                                             *)

\* First read, under the operation lock only.
LoadExisting(p) ==
  /\ At(p, "load")
  /\ IF Stored(p).state \in {"submission_unknown", "settled"}
       THEN Return(p, ReportStored(Stored(p)))
       ELSE Goto(p, "account_lock")
  /\ UNCHANGED <<journalVars, lockVars, networkVars, minted, faults>>

\* A prepared operation is resumed with its frozen transaction only while it
\* owns the reservation of its nonce and carries no retry marker.
Resumable(o) ==
  LET e == journal.ops[o]
  IN  e.state = "prepared" /\ ~e.retry /\ journal.resv[e.tx.nonce] = o

LoadCurrent(p) ==
  /\ At(p, "load_current")
  /\ IF Stored(p).state \in {"submission_unknown", "settled"}
       THEN Return(p, ReportStored(Stored(p)))
       ELSE IF Resumable(call[p].op)
         THEN call' = [call EXCEPT ![p].pc = "bind", ![p].tx = Stored(p).tx]
         ELSE call' = [call EXCEPT ![p].pc = "read_nonce", ![p].fresh = TRUE]
  /\ UNCHANGED <<journalVars, lockVars, networkVars, minted, faults>>

\* provider.getNextNonce may answer from a replica that lags the network.
\* The fresh request id makes the transaction different from every other.
ReadNonce(p) ==
  /\ At(p, "read_nonce")
  /\ minted < MaxMint
  /\ minted' = minted + 1
  /\ \E n \in Nonces :
       /\ n <= nextNonce
       /\ call' = [call EXCEPT ![p].pc = "bind",
                               ![p].tx = [op |-> call[p].op, nonce |-> n, id |-> minted + 1]]
  /\ UNCHANGED <<journalVars, lockVars, networkVars, faults>>

\* Signer key, clock, nonce read, fee policy, signing or the second fee read
\* fails: nothing was written by this step and the call throws.
Throw(p) ==
  /\ call[p].pc \in {"load", "load_current", "read_nonce", "bind", "sign", "observe", "import"}
  /\ Return(p, "error")
  /\ UNCHANGED <<journalVars, lockVars, networkVars, minted, faults>>

\* Mutant: another operation's reservation does not count.
ReservableAlways(r) == TRUE
Reservable(r) == r \in {"absent", "tombstone"}

\* reserveNonce refuses a nonce another operation holds, before a fresh
\* operation is frozen in the journal.
Bind(p) ==
  LET c == call[p]
      r == journal.resv[c.tx.nonce]
  IN  /\ At(p, "bind")
      /\ IF ~(Reservable(r) \/ r = c.op)
           THEN Return(p, "error") /\ UNCHANGED <<journalVars, faults>>
           ELSE IF ~c.fresh
             THEN /\ call' = [call EXCEPT ![p].pc = "sign", ![p].created = Reservable(r)]
                  /\ UNCHANGED <<journalVars, faults>>
             ELSE \E out \in Outcomes :
                    /\ SaveOp(c.op, Prepared(c.tx), out)
                    /\ IF out = "ok"
                         THEN call' = [call EXCEPT ![p].pc = "sign", ![p].created = Reservable(r)]
                         ELSE Return(p, "error")
      /\ UNCHANGED <<lockVars, networkVars, minted>>

\* Mutant: the nonce is not reserved before the submission.
SignWithoutReserving(p) ==
  /\ At(p, "sign")
  /\ Goto(p, "save_unknown")
  /\ UNCHANGED <<journalVars, lockVars, networkVars, minted, faults>>

\* prepareExternalClaimTransaction, the signature, and the second fee read.
Sign(p) ==
  /\ At(p, "sign")
  /\ Goto(p, IF call[p].created THEN "reserve" ELSE "save_unknown")
  /\ UNCHANGED <<journalVars, lockVars, networkVars, minted, faults>>

Reserve(p) ==
  /\ At(p, "reserve")
  /\ \E out \in Outcomes :
       /\ SaveReservation(call[p].tx.nonce, call[p].op, out)
       /\ Goto(p, IF out = "ok" THEN "save_unknown" ELSE "release_reservation")
  /\ UNCHANGED <<lockVars, networkVars, minted>>

\* Best effort: the tombstone may itself fail to be saved.
ReleaseReservation(p) ==
  /\ At(p, "release_reservation")
  /\ \E out \in Outcomes : SaveReservation(call[p].tx.nonce, "tombstone", out)
  /\ Return(p, "error")
  /\ UNCHANGED <<lockVars, networkVars, minted>>

SaveUnknown(p) ==
  /\ At(p, "save_unknown")
  /\ \E out \in Outcomes :
       /\ SaveOp(call[p].op, Unknown(call[p].tx), out)
       /\ Goto(p, IF out = "ok" THEN "submit" ELSE "save_retry")
  /\ UNCHANGED <<lockVars, networkVars, minted>>

SaveRetryMarker(p) ==
  /\ At(p, "save_retry")
  /\ \E out \in Outcomes :
       /\ SaveOp(call[p].op, RetryMarker(call[p].tx), out)
       /\ IF out = "ok" /\ call[p].created
            THEN Goto(p, "release_reservation")
            ELSE Return(p, "error")
  /\ UNCHANGED <<lockVars, networkVars, minted>>

Submit(p) ==
  /\ At(p, "submit")
  /\ submitted' = submitted \cup {call[p].tx}
  /\ inflight' = inflight \cup {call[p].tx}
  /\ Goto(p, "await")
  /\ UNCHANGED <<journalVars, lockVars, certified, nextNonce, foreign, minted, faults>>

\* Mutant: any certificate at the account's nonce will do.
MatchesNonce(cert, t) == cert.nonce = t.nonce
\* validateSettlementCertificate and the comparison with the frozen submission.
Matches(cert, t) == cert = t

\* Mutant: a definitive rejection frees the operation for another attempt.
SubmitReplyReopening(p) ==
  /\ At(p, "await")
  /\ Return(p, "error")
  /\ SaveOp(call[p].op, RetryMarker(call[p].tx), "ok")
  /\ UNCHANGED <<lockVars, networkVars, minted>>

\* The provider's answer: a certificate it holds for the account's nonce (the
\* frozen transaction's, or another host's), a lost or unreadable answer
\* ("unknown"), or a definitive rejection, thrown with the journal unchanged.
SubmitReply(p) ==
  /\ At(p, "await")
  /\ \/ \E t \in certified :
          /\ t.nonce = call[p].tx.nonce
          /\ IF Matches(t, call[p].tx)
               THEN call' = [call EXCEPT ![p].pc = "save_settled", ![p].cert = t]
               ELSE Return(p, "unknown")
     \/ Return(p, "unknown")
     \/ Return(p, "error")
  /\ UNCHANGED <<journalVars, lockVars, networkVars, minted, faults>>

-----------------------------------------------------------------------------
(* recoverSettlement and registerReceipt.                                  *)

\* The journal state decides; only submission_unknown asks the reader, which
\* answers with nothing, or with a certificate at the sender's nonce.
Observe(p) ==
  LET e == Stored(p)
  IN  /\ At(p, "observe")
      /\ \/ e.state = "settled" /\ Return(p, "settled")
         \/ e.state \in {"absent", "prepared"} /\ Return(p, "error")
         \/ e.state = "submission_unknown" /\ Return(p, "unknown")
         \/ /\ e.state = "submission_unknown"
            /\ \E t \in certified :
                 /\ t.nonce = e.tx.nonce
                 /\ IF Matches(t, e.tx)
                      THEN call' = [call EXCEPT ![p].pc = "save_settled", ![p].cert = t]
                      ELSE Return(p, "error")
      /\ UNCHANGED <<journalVars, lockVars, networkVars, minted, faults>>

\* The last save of signDigest and of recoverSettlement.
SaveSettled(p) ==
  /\ At(p, "save_settled")
  /\ \E out \in Outcomes :
       /\ SaveOp(call[p].op, Settled(Stored(p).tx, call[p].cert), out)
       /\ Return(p, IF out = "ok" THEN "settled" ELSE "unpersisted")
  /\ UNCHANGED <<lockVars, networkVars, minted>>

\* registerReceipt adopts a receipt only for an operation it has no record of.
Import(p) ==
  LET e == Stored(p)
      r == call[p].cert
  IN  /\ At(p, "import")
      /\ \/ /\ e.state \in {"prepared", "submission_unknown"}
            /\ Return(p, "error") /\ UNCHANGED <<journalVars, faults>>
         \/ /\ e.state = "settled"
            /\ Return(p, IF e.receipt = r THEN "settled" ELSE "error")
            /\ UNCHANGED <<journalVars, faults>>
         \/ /\ e.state = "absent"
            /\ \E out \in Outcomes :
                 /\ SaveOp(call[p].op, Settled(r, r), out)
                 /\ Return(p, IF out = "ok" THEN "settled" ELSE "unpersisted")
      /\ UNCHANGED <<lockVars, networkVars, minted>>

-----------------------------------------------------------------------------
(* The environment: the network, failures, the operator.                   *)

\* The network executes a transaction at the account's next nonce, however
\* long after it was submitted.
Certify(t) ==
  /\ t.nonce = nextNonce
  /\ certified' = certified \cup {t}
  /\ inflight' = inflight \ {t}
  /\ nextNonce' = nextNonce + 1
  /\ UNCHANGED <<journalVars, lockVars, call, submitted, foreign, minted, faults>>

\* The network drops a transaction for good (no funds, stale nonce).
Refuse(t) ==
  /\ inflight' = inflight \ {t}
  /\ UNCHANGED <<journalVars, lockVars, call, submitted, certified, nextNonce, foreign, minted, faults>>

\* Another host settles a transaction of the same account, perhaps for the
\* same operationId; its journal is not this one.
ForeignSettlement(o) ==
  /\ foreign < MaxForeign
  /\ nextNonce \in Nonces
  /\ foreign' = foreign + 1
  /\ certified' = certified \cup {[op |-> o, nonce |-> nextNonce, id |-> 0]}
  /\ nextNonce' = nextNonce + 1
  /\ UNCHANGED <<journalVars, lockVars, call, submitted, inflight, minted, faults>>

\* Lock files of a dead process stay; it restarts with nothing in memory.
Crash(p) ==
  /\ ~At(p, "idle")
  /\ faults < MaxFaults
  /\ faults' = faults + 1
  /\ opLock' = [o \in Ops |-> IF opLock[o] = p THEN "dead" ELSE opLock[o]]
  /\ accountLock' = IF accountLock = p THEN "dead" ELSE accountLock
  /\ call' = [call EXCEPT ![p] = IdleCall]
  /\ UNCHANGED <<journalVars, networkVars, minted>>

PowerLoss ==
  /\ faults < MaxFaults
  /\ faults' = faults + 1
  /\ opLock' = [o \in Ops |-> IF opLock[o] = "free" THEN "free" ELSE "dead"]
  /\ accountLock' = IF accountLock = "free" THEN "free" ELSE "dead"
  /\ call' = [p \in Procs |-> IdleCall]
  /\ \E kept \in [ops : [Ops -> UNION {survivors.ops[o] : o \in Ops}],
                  resv : [Nonces -> UNION {survivors.resv[n] : n \in Nonces}]] :
       /\ \A o \in Ops : kept.ops[o] \in survivors.ops[o]
       /\ \A n \in Nonces : kept.resv[n] \in survivors.resv[n]
       /\ journal' = kept
       /\ survivors' = Synced(kept)
  /\ UNCHANGED <<networkVars, minted>>

\* "manual inspection and explicit recovery are required": an operator
\* removes the lock file of a dead owner.
ClearDeadLock ==
  /\ \/ /\ \E o \in Ops : opLock[o] = "dead" /\ opLock' = [opLock EXCEPT ![o] = "free"]
        /\ UNCHANGED accountLock
     \/ /\ accountLock = "dead" /\ accountLock' = "free"
        /\ UNCHANGED opLock
  /\ UNCHANGED <<journalVars, call, networkVars, minted, faults>>

-----------------------------------------------------------------------------

SignStep(p) ==
  \/ LoadExisting(p) \/ AcquireAccountLock(p) \/ LoadCurrent(p) \/ ReadNonce(p)
  \/ Bind(p) \/ Sign(p) \/ Reserve(p) \/ ReleaseReservation(p) \/ SaveUnknown(p)
  \/ SaveRetryMarker(p) \/ Submit(p) \/ SubmitReply(p)

\* Whatever a running call does next.
Step(p) ==
  \/ AcquireOpLock(p) \/ LockUnavailable(p) \/ SignStep(p) \/ Throw(p)
  \/ Observe(p) \/ SaveSettled(p) \/ Import(p) \/ Exit(p)

Environment ==
  \/ \E t \in inflight : Certify(t) \/ Refuse(t)
  \/ \E o \in Ops : ForeignSettlement(o)
  \/ \E p \in Procs : Crash(p)
  \/ PowerLoss
  \/ ClearDeadLock

Next ==
  \/ \E p \in Procs, o \in Ops : StartSign(p, o) \/ StartRecover(p, o)
  \/ \E p \in Procs, r \in certified : StartRegister(p, r)
  \/ \E p \in Procs : Step(p)
  \/ Environment

Spec == Init /\ [][Next]_vars

-----------------------------------------------------------------------------
(* Safety.                                                                 *)

\* Every record file holds a snapshot assertJournalSnapshot accepts, in every
\* version a power loss may leave, and every call its own kind of data.
TypeOK ==
  /\ journal \in [ops : [Ops -> Entry], resv : [Nonces -> Reservation]]
  /\ survivors \in [ops : [Ops -> SUBSET Entry], resv : [Nonces -> SUBSET Reservation]]
  /\ \A o \in Ops : \A e \in survivors.ops[o] \cup {journal.ops[o]} :
       Structured(e) /\ (e.state # "absent" => e.tx.op = o)
  /\ opLock \in [Ops -> Procs \cup {"free", "dead"}]
  /\ accountLock \in Procs \cup {"free", "dead"}
  /\ call \in [Procs -> Call]
  /\ \A p \in Procs : call[p].pc # "idle" => call[p].op \in Ops
  /\ submitted \subseteq Tx /\ inflight \subseteq submitted /\ certified \subseteq Tx
  /\ nextNonce \in Nat /\ minted \in Nat /\ faults \in Nat /\ foreign \in Nat

\* "Never blindly submit again": this journal hands at most one transaction
\* to the network for each account nonce, whatever processes died, saves
\* failed, answers were lost or nonce reads were stale.
OneTxPerNonce ==
  \A s, t \in submitted : s.nonce = t.nonce => s = t

\* An operation is settled by at most one transaction of this journal: a
\* re-prepared operation never follows one that was submitted.
OneTxPerOperation ==
  \A s, t \in submitted : s.op = t.op => s = t

\* "Signed evidence is durable before submit": in every version of the
\* journal a power loss may leave, a submitted transaction is recorded in its
\* operation, and the operation still owns the reservation of its nonce.
EvidenceDurable ==
  \A t \in submitted :
    /\ \A e \in survivors.ops[t.op] :
         e.state \in {"submission_unknown", "settled"} /\ e.tx = t
    /\ survivors.resv[t.nonce] = {t.op}

ReportTruthful(c) ==
  c.pc = "exit" /\ c.result \in {"settled", "unpersisted"} =>
    \E t \in certified : t.op = c.op

\* A call reports settlement, and the journal records it, only for an
\* operation whose frozen transaction the network really certified.
SettlementTruthful ==
  /\ \A o \in Ops : \A e \in survivors.ops[o] \cup {journal.ops[o]} :
       e.state = "settled" => e.receipt = e.tx /\ e.tx \in certified
  /\ \A p \in Procs : ReportTruthful(call[p])

\* No transaction is handed to the provider twice, and none by a call that
\* does not hold both locks.
SubmitOnceUnderLocks ==
  [][\A p \in Procs : call[p].pc = "submit" /\ call'[p].pc = "await" =>
       /\ call[p].tx \notin submitted
       /\ accountLock = p /\ opLock[call[p].op] = p]_vars

\* The design's contract that a journal write failure is "never represented
\* as durable recovery": what a call reports as persisted survives any power
\* loss.
ReportedIsDurable ==
  \A p \in Procs :
    At(p, "exit") /\ call[p].result \in {"unknown", "settled"} =>
      \A e \in survivors.ops[call[p].op] :
        e.state \in (IF call[p].result = "settled" THEN {"settled"}
                     ELSE {"submission_unknown", "settled"})

-----------------------------------------------------------------------------
(* The inductive invariant behind the safety properties.                   *)

UnderOpLock == {"load", "account_lock", "observe", "import", "save_settled"}
UnderAccountLock == {"load_current", "read_nonce", "bind", "sign", "reserve",
                     "release_reservation", "save_unknown", "save_retry", "submit", "await"}
BeforeSubmit == {"sign", "reserve", "release_reservation", "save_unknown", "save_retry", "submit"}

\* The lock files name the calls inside the critical sections.
HoldsLocks(p, c) ==
  /\ c.pc \in UnderOpLock \cup UnderAccountLock => opLock[c.op] = p
  /\ c.pc \in UnderAccountLock => accountLock = p

\* What load() reads is one of the versions a power loss may leave.
ReadableSurvives ==
  /\ \A o \in Ops : journal.ops[o] \in survivors.ops[o]
  /\ \A n \in Nonces : journal.resv[n] \in survivors.resv[n]

Unspent(c) == \A t \in submitted : t.op # c.op /\ t.nonce # c.tx.nonce

\* What a call has learnt and relies on, given the locks it holds.
Justified(c) ==
  /\ c.pc = "op_lock" => c.kind # "none"
  /\ c.pc = "read_nonce" => journal.ops[c.op].state \in {"absent", "prepared"} /\ c.fresh
  /\ c.pc \in {"bind", "await"} \cup BeforeSubmit => c.tx \in Tx /\ c.tx.op = c.op
  /\ c.pc = "bind" => /\ journal.ops[c.op].state \in {"absent", "prepared"}
                      /\ ~c.fresh => journal.ops[c.op].tx = c.tx
  /\ c.pc \in BeforeSubmit => Unspent(c)
  /\ c.pc = "sign" /\ ~c.created => journal.resv[c.tx.nonce] = c.op
  /\ c.pc = "save_unknown" => journal.resv[c.tx.nonce] = c.op
  /\ c.pc = "submit" => /\ survivors.ops[c.op] = {Unknown(c.tx)}
                        /\ survivors.resv[c.tx.nonce] = {c.op}
  /\ c.pc = "await" => c.tx \in submitted
  /\ c.pc = "save_settled" => journal.ops[c.op].tx = c.cert
  /\ c.pc \in {"save_settled", "import"} \/ c.kind = "registerReceipt" =>
       c.cert \in certified /\ c.cert.op = c.op

CallInv == \A p \in Procs : HoldsLocks(p, call[p]) /\ Justified(call[p])

CoreInv == /\ TypeOK /\ ReadableSurvives /\ CallInv
           /\ EvidenceDurable /\ SettlementTruthful

\* Only other hosts' transactions are certified without a submission, and no
\* operation of this journal is frozen as one of those.
OwnTransactions ==
  /\ \A t \in certified \ submitted : t.id = 0
  /\ \A o \in Ops : \A e \in survivors.ops[o] : e.state = "prepared" => e.tx.id # 0
  /\ \A p \in Procs : call[p].pc \in {"bind"} \cup BeforeSubmit => call[p].tx.id # 0

IInv == CoreInv /\ OwnTransactions

-----------------------------------------------------------------------------
(* The abstract specification this journal implements: a ledger of nonces. *)

SpenderOf(n) == IF \E t \in submitted : t.nonce = n
                  THEN (CHOOSE t \in submitted : t.nonce = n).op
                  ELSE "nobody"

FateOf(o) == IF \E t \in submitted \cap certified : t.op = o THEN "final"
             ELSE IF \E t \in submitted : t.op = o THEN "sent"
             ELSE "new"

Ledger == INSTANCE NonceLedger WITH
  spender <- [n \in Nonces |-> SpenderOf(n)],
  fate    <- [o \in Ops |-> FateOf(o)]

\* Processes, saves, crashes and stale reads together do no more than spend
\* fresh nonces for new operations and see them certified.
ImplementsLedger == Ledger!LedgerSpec

-----------------------------------------------------------------------------
(* Liveness.  A running call is scheduled by its event loop and every      *)
(* await it makes ends (locks and requests have deadlines).                *)

CallFairness == \A p \in Procs : WF_vars(Step(p))
FairSpec == Spec /\ CallFairness

\* Every call returns, whatever locks the dead left behind.
CallsReturn == \A p \in Procs : ~At(p, "idle") ~> At(p, "idle")

\* A caller that keeps calling recoverSettlement, also when no other call has
\* the operation's lock, an operator that clears dead locks, a reader that
\* answers, and a lock that is not lost to another call every time.
Admitted(p) == AcquireOpLock(p) /\ call[p].kind = "recoverSettlement"
Answered(p) == Observe(p) /\ call'[p].pc = "save_settled"
RecoveryFairness ==
  /\ WF_vars(ClearDeadLock)
  /\ \A p \in Procs :
       /\ SF_vars(Admitted(p)) /\ SF_vars(Answered(p))
       /\ \A o \in Ops : SF_vars(opLock[o] = "free" /\ StartRecover(p, o))

\* A submission whose answer was lost is not lost: once the network certified
\* it, recovery alone brings the journal to "settled".
SettlementRecovered ==
  RecoveryFairness => \A o \in Ops :
    (journal.ops[o].state = "submission_unknown" /\ journal.ops[o].tx \in certified)
      ~> journal.ops[o].state = "settled"
=============================================================================
