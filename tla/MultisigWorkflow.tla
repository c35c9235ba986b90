-------------------------- MODULE MultisigWorkflow --------------------------
(* MultiSigWorkflow of the SDK (fast-sdk/src/multisig/index.ts), as a page   *)
(* of a member uses it: prepare, submitPrepared (initiate is the two), vote. *)
(* A page whose submission has an unknown outcome may submit the same        *)
(* prepared transaction again.                                               *)
EXTENDS MultisigVote

CONSTANTS Pages \* the calls pages make: member, call, kind, replacePending

\* A page prepares an operation of the network, not a transfer over the bridge.
ASSUME PagesAssumption ==
  \A p \in Pages : p.m \in Members /\ p.call \in {"prepare", "sdkVote"} /\ p.kind \notin Routes

StartCall(a, p) ==
  /\ ValidateMultiSigConfig(wallets[p.m].config) /\ ResolveSigner(p.m, Shared)
  /\ Begin(a, "fast", Step("fetch", p.call, p.m, Shared, p.kind, p.replace))
  /\ UNCHANGED <<net, told, wallets, history>>

\* fetchState: the account and the proposals are read in parallel. A pending
\* confirmation is kept as the nonce -1.
FetchAccount(c) ==
  LET info == AccountInfo(Shared) IN
  [c EXCEPT !.nonce = IF info.pendingConfirmation THEN -1 ELSE info.nextNonce]
FetchPending(c) == [c EXCEPT !.seen = Held]
FetchFirst(a) ==
  LET c == at[a] IN
  /\ In(a, "fast", "fetch")
  /\ \/ \/ Move(a, [FetchAccount(c) EXCEPT !.pc = "fetchPending"], FALSE)
        \/ Move(a, [FetchPending(c) EXCEPT !.pc = "fetchAccount"], FALSE)
     /\ UNCHANGED told
  /\ UNCHANGED <<net, wallets, history>>

\* prepare: the transaction and the hashes of the proposals it would replace.
PrepareOK(c, pending) == c.nonce # -1 /\ (pending # {} => c.replace)
Prepare(c, pending) ==
  [c EXCEPT !.pc = "fetch", !.command = "submitPrepared", !.tx = BuildTransaction(c),
            !.approved = {tx.id : tx \in pending}]

\* submitPrepared: the prepared bytes at the nonce they were prepared for, and
\* no competing proposal that was not there then.
Competing(c, pending) == pending \ {c.tx}
UnapprovedCompeting(c, pending) == {tx \in Competing(c, pending) : tx.id \notin c.approved}
SubmitPreparedOK(c, pending) ==
  /\ c.nonce # -1 /\ c.nonce = c.tx.nonce
  /\ Competing(c, pending) # {} => c.replace /\ UnapprovedCompeting(c, pending) = {}

\* vote: one proposal at the current nonce, by its hash.
VoteTarget(c, pending) == IF c.nonce = -1 THEN {} ELSE pending

FetchSecond(a) ==
  LET c == [IF at[a].pc = "fetchPending" THEN FetchPending(at[a]) ELSE FetchAccount(at[a]) EXCEPT !.pc = "submit"]
      pending == AtNonce(c.seen, c.nonce)
      next == CASE c.command = "prepare" -> IF PrepareOK(c, pending) THEN {Prepare(c, pending)} ELSE {}
                [] c.command = "submitPrepared" -> IF SubmitPreparedOK(c, pending) THEN {c} ELSE {}
                [] c.command = "sdkVote" -> {[c EXCEPT !.tx = tx] : tx \in VoteTarget(c, pending)}
  IN
  /\ In(a, "fast", "fetchPending") \/ In(a, "fast", "fetchAccount")
  /\ \/ \E n \in next : Move(a, n, FALSE) /\ UNCHANGED told
     \/ next = {} /\ Refuse(a, FALSE)
     \/ ReadFails(a)
  /\ UNCHANGED <<net, wallets, history>>

IsDefinitiveSubmissionRejection(reply) == reply \in {"rejected", "busy"}
SubmissionResult(reply) ==
  CASE IsDefinitiveSubmissionRejection(reply) -> "failed"
    [] reply = "IncompleteMultiSig" -> "incomplete"
    [] reply = "IncompleteVerifierSigs" -> "waiting"
    [] reply = "Success" -> "submitted"
    [] OTHER -> "unknown"

\* submit. The page may try again what it has prepared, once here.
Retries(a, result) == result = "unknown" /\ at[a].command = "submitPrepared" /\ told[at[a].id].result = "none"
Submit(a) ==
  LET c == at[a] IN
  /\ In(a, "fast", "submit") /\ c.command \in {"submitPrepared", "sdkVote"}
  /\ SignEnvelopeFor(c, c.tx)
  /\ \E reply \in Replies :
       LET result == SubmissionResult(reply)
           again == [c EXCEPT !.pc = "fetch", !.nonce = -1, !.seen = {}]
       IN
       /\ Receive(c.id, c.tx, c.m, reply)
       /\ Outcome(a, result, c.tx)
       /\ \E next \in {Idle} \cup (IF Retries(a, result) THEN {again} ELSE {}) : Move(a, next, ReplyFault(c.tx, reply))
  /\ UNCHANGED <<wallets, history>>

Call(a) == FetchFirst(a) \/ FetchSecond(a) \/ Submit(a)
=============================================================================
