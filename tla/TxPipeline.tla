----------------------------- MODULE TxPipeline -----------------------------
(* submitOperation of services/tx-pipeline.ts, on which `fast send` and the  *)
(* token commands run: read the nonce, look for proposals at it, sign,       *)
(* submit once, and say what the answer means; and the table of transactions *)
(* each machine keeps (services/storage/history.ts).                         *)
EXTENDS MultisigWallets

VARIABLES history \* each machine's table of transactions

HistoryInit == history = [m \in Members |-> {}]

-----------------------------------------------------------------------------
GetAccountInfo(a) ==
  LET c == at[a]  info == AccountInfo(c.sender) IN
  /\ In(a, "fast", "account")
  /\ \/ info.pendingConfirmation /\ Refuse(a, FALSE)
     \/ /\ ~info.pendingConfirmation
        /\ Move(a, [c EXCEPT !.pc = IF c.sender = Shared THEN "proposals" ELSE "submit",
                             !.nonce = info.nextNonce], FALSE)
        /\ UNCHANGED told
     \/ ReadFails(a)
  /\ UNCHANGED <<net, wallets, history>>

Held == {p.tx : p \in PendingMultisigTransactions}
AtNonceIgnored(txs, nonce) == {}
AtNonce(txs, nonce) == {tx \in txs : tx.nonce = nonce}
GetPendingMultisig(a) ==
  LET c == at[a]  pending == AtNonce(Held, c.nonce) IN
  /\ In(a, "fast", "proposals")
  /\ \/ pending # {} /\ ~c.replace /\ Refuse(a, FALSE)
     \/ /\ pending # {} => c.replace
        /\ Move(a, [c EXCEPT !.pc = "submit", !.seen = Held], FALSE) /\ UNCHANGED told
     \/ ReadFails(a)
  /\ UNCHANGED <<net, wallets, history>>

\* opAsBuilderCall and TransactionBuilder.sign for one signer.
SignSingle(c) ==
  [sender |-> c.m, nonce |-> c.nonce, id |-> c.id, kind |-> c.kind, update |-> c.update]
\* MultiSigSigner.buildTransaction: the sender is the derived address.
BuildTransaction(c) ==
  [sender |-> Shared, nonce |-> c.nonce, id |-> c.id, kind |-> c.kind, update |-> c.update]
\* MultiSigSigner.signEnvelopeFor.
SignEnvelopeFor(c, tx) == tx.sender = Shared /\ AssertAuthorizedSigner(wallets[c.m].config, c.m)
Built(c) == IF c.sender = Shared THEN BuildTransaction(c) ELSE SignSingle(c)

IsDefinitiveSubmissionFailure(reply) == reply = "rejected"
AnyFailure(reply) == "failed"
ClassifySubmissionError(reply) ==
  IF IsDefinitiveSubmissionFailure(reply) THEN "failed" ELSE "unknown"

\* "other" stands for a Success whose certificate is of another transaction.
SuccessCertificateMatches(reply) == reply = "Success"
Classify(reply, multisig) ==
  CASE reply \in {"rejected", "lost", "busy"} -> ClassifySubmissionError(reply)
    [] reply = "IncompleteMultiSig" -> IF multisig THEN "incomplete" ELSE "failed"
    [] reply = "IncompleteVerifierSigs" -> "unknown"
    [] OTHER -> IF SuccessCertificateMatches(reply) THEN "success" ELSE "unknown"

\* A success is recorded before it is told.
After(a, tx, result, fault) ==
  IF result = "success"
  THEN Move(a, [at[a] EXCEPT !.pc = "record", !.tx = tx], fault) /\ UNCHANGED told
  ELSE Finish(a, result, tx, fault)
SubmitOperation(a) ==
  LET c == at[a]  tx == Built(c) IN
  /\ In(a, "fast", "submit") /\ c.command = "operation"
  /\ c.sender = Shared => SignEnvelopeFor(c, tx)
  /\ \E reply \in Replies :
       /\ Receive(c.id, tx, c.m, reply)
       /\ After(a, tx, Classify(reply, c.sender = Shared), ReplyFault(tx, reply))
  /\ UNCHANGED <<wallets, history>>

-----------------------------------------------------------------------------
\* The hash is the key; recording a known hash again changes its status only.
MakeHistoryEntry(id, kind, status) == [hash |-> id, kind |-> kind, status |-> status]
InsertHistoryEntry(rows, entry) ==
  IF \E r \in rows : r.hash = entry.hash
  THEN {IF r.hash = entry.hash THEN [r EXCEPT !.status = entry.status] ELSE r : r \in rows}
  ELSE rows \cup {entry}
UpdateStatus(rows, hash, status) ==
  {IF r.hash = hash THEN [r EXCEPT !.status = status] ELSE r : r \in rows}

\* recordConfirmedHistory: a failed write only warns, and the success is told
\* with the warning.
RecordConfirmedHistory(a, entry) ==
  LET c == at[a] IN
  \/ /\ history' = [history EXCEPT ![c.m] = InsertHistoryEntry(@, entry)]
     /\ Finish(a, "success", c.tx, FALSE)
  \/ UNCHANGED history /\ Finish(a, "unrecorded", c.tx, TRUE)
RecordOperation(a) ==
  /\ In(a, "fast", "record") /\ at[a].command = "operation"
  /\ RecordConfirmedHistory(a, MakeHistoryEntry(at[a].tx.id, at[a].kind, "confirmed"))
  /\ UNCHANGED <<net, wallets>>
=============================================================================
