---------------------------- MODULE AllSetBridge ----------------------------
(* The allset-sdk calls that move a token between the user's Fast account    *)
(* and an EVM chain: executeIntent (and executeWithdraw), executeDeposit and *)
(* smartDeposit. Each await is a step; every answer of the proxy, the        *)
(* cross-sign service, the relayer, the Portal backend and the EVM node may  *)
(* be an error, be lost after the work was done, or be about something else. *)
EXTENDS Ledgers, IntentClaims

CONSTANTS Amount \* what a call moves

ASSUME AmountAssumption == Amount \in Nat \ {0}

VARIABLES calls \* what each call asked for and what it told its caller

NoCall == [asked |-> [kind |-> "none", cli |-> FALSE, encoding |-> "legacy", intents |-> <<>>], bridge |-> "none", result |-> "none"]
CallsInit == calls = [i \in 1..MaxOps |-> NoCall]

None == Refusal \* what a call has not got
Request(kind, amount) == [kind |-> kind, amount |-> amount, then |-> "return", attempts |-> 0]
Call(id, pc, r) ==
  [in |-> "payments", pc |-> pc, id |-> id, r |-> r, nonce |-> -1, txId |-> 0, bytes |-> None, key |-> -1]
Start(a, pc, r) ==
  /\ Begin(a, "payments", Call(ops + 1, pc, r))
  /\ calls' = [calls EXCEPT ![ops + 1].asked =
                 [kind |-> r.kind, cli |-> r.kind = "pay" /\ r.cli,
                  encoding |-> IF r.kind = "intent" THEN r.encoding ELSE "legacy",
                  intents |-> IF r.kind = "intent" THEN r.intents ELSE <<>>]]
Keep == UNCHANGED calls

(* The call throws or returns: its caller learns the result. A caller of     *)
(* this repository (x402) goes on after a success, and reports any error.    *)
Tell(a, result, fault) ==
  /\ Step(a, IF at[a].r.then # "return" /\ result = "success"
                THEN Call(at[a].id, at[a].r.then, at[a].r.outer)
                ELSE Idle, fault)
  /\ calls' = [calls EXCEPT ![at[a].id].bridge = result,
                            ![at[a].id].result = IF at[a].r.then = "return" THEN result
                                                 ELSE IF result = "success" THEN @ ELSE "error"]

TransferId(op) == 2 * op
IntentId(op) == 2 * op + 1
ForeignId == 1

-----------------------------------------------------------------------------
(* executeIntent refuses what it cannot encode, and metadata it cannot       *)
(* resolve, before it pays.                                                  *)
Prepared(r) ==
  IF r.encoding = "v1" THEN PrepareIntentClaimV1(r, 0) ELSE EncodeIntentClaim(0, 1, r.intents)
CallRefused(r) ==
  \/ r.intents = <<>>
  \/ r.external \notin Hex20 \cup {"none"}
  \/ r.seconds = 0
  \/ r.encoding \notin {"legacy", "v1"}
  \/ Refused(Prepared(r))
  \/ ResolveExternalAddress(r) = "none"

IntentRequest(encoding, intents) ==
  [kind |-> "intent", amount |-> Amount, then |-> "return", outer |-> None, encoding |-> encoding,
   intents |-> intents, chain |-> 1, bridge |-> "vault", seconds |-> 1, display |-> "none",
   external |-> "none"]

(* executeWithdraw is executeIntent with one transfer; the lists stand for   *)
(* what other callers build: a batch of actions, and what only the ABI form  *)
(* takes: a payload that is not canonical, a revoke in a batch, more parts   *)
(* than a document may have.                                                 *)
Withdrawal == <<BuildTransferIntent("usdc", "alice")>>
IntentLists ==
  [legacy |-> {Withdrawal, <<>>},
   v1 |-> {<<BuildExecuteIntent("vault", "call", 1), BuildDepositBackIntent("usdc", "fastAlice")>>,
           Append(Withdrawal, BuildRevokeIntent), Withdrawal \o Withdrawal \o Withdrawal,
           <<Intent("DynamicTransfer", "usdc", "alice", 0, "padded")>>}]
ExecuteIntent(a) ==
  \E r \in UNION {{IntentRequest(e, l) : l \in IntentLists[e]} : e \in DOMAIN IntentLists} :
    /\ ~CallRefused(r)
    /\ Start(a, "account", r)
    /\ UNCHANGED ledgers

AccountInfo(a) ==
  /\ In(a, "payments", "account")
  /\ \/ Step(a, [at[a] EXCEPT !.pc = "transfer", !.nonce = fast.nonce], FALSE) /\ Keep
     \/ Tell(a, "error", TRUE)
  /\ UNCHANGED ledgers

(* submitWithRecovery and successCertificateMatchesIdentity: an error of the *)
(* proxy that says so rejects the transaction; after any other answer but    *)
(* the certificate of this very envelope it may have settled.                *)
Transfer(a) ==
  [id |-> TransferId(at[a].id), kind |-> "bridge", op |-> at[a].id, nonce |-> at[a].nonce,
   amount |-> at[a].r.amount, to |-> "bridge", token |-> "usdc",
   data |-> IF at[a].r.encoding = "v1" THEN Prepared(at[a].r).userData ELSE NoUserData]
LostIsRejection(reply) == reply \in {"rejected", "lost"}
IsDefinitiveRejection(reply) == reply = "rejected"
SubmitWithRecovery(reply) ==
  IF reply = "Success" THEN reply ELSE IF IsDefinitiveRejection(reply) THEN "rejected" ELSE "indeterminate"
SubmitTransfer(a) ==
  /\ In(a, "payments", "transfer")
  /\ \E reply \in {"Success", "rejected"} \cup Unclear :
       /\ Submit(Transfer(a), reply)
       /\ LET fault == SubmitFault(Transfer(a), reply) IN
          CASE SubmitWithRecovery(reply) = "Success" -> Step(a, [at[a] EXCEPT !.pc = "crossSign"], fault) /\ Keep
            [] SubmitWithRecovery(reply) = "rejected" -> Tell(a, "error", fault)
            [] SubmitWithRecovery(reply) = "indeterminate" -> Tell(a, "indeterminate", fault)
  /\ UNCHANGED evm

(* evmSign and extractCrossSignClaimId: the bytes that come back must be a   *)
(* claim of the stage's type whose id is the hash of the certificate's own   *)
(* transaction.                                                              *)
CrossSignReplies(id, type) == {[id |-> i, type |-> t] : i \in {id, ForeignId}, t \in {0, 5, 9}}
ExtractClaimIdUnchecked(reply, id, type) == IF reply.type # type THEN 0 ELSE reply.id
ExtractClaimId(reply, id, type) == IF reply.type # type \/ reply.id # id THEN 0 ELSE reply.id

CrossSignTransfer(a) ==
  /\ In(a, "payments", "crossSign")
  /\ \/ \E reply \in CrossSignReplies(TransferId(at[a].id), 0) :
          LET id == ExtractClaimId(reply, TransferId(at[a].id), 0)
              fault == reply # [id |-> TransferId(at[a].id), type |-> 0] IN
          IF id = 0 THEN Tell(a, "postPayment", fault)
          ELSE Step(a, [at[a] EXCEPT !.pc = "claim", !.txId = id], fault) /\ Keep
     \/ Tell(a, "postPayment", TRUE)
  /\ UNCHANGED ledgers

\* The claim is encoded with the id of the settled transfer; then the nonce is read again.
ClaimBytes(r, id) ==
  IF r.encoding = "v1" THEN FinishIntentClaimV1(Prepared(r), id)
  ELSE EncodeIntentClaim(id, r.seconds, r.intents)
BuildClaim(a) ==
  /\ In(a, "payments", "claim")
  /\ LET bytes == ClaimBytes(at[a].r, at[a].txId) IN
     IF Refused(bytes) THEN Tell(a, "unencodable", FALSE)
     ELSE \/ Step(a, [at[a] EXCEPT !.pc = "intent", !.nonce = fast.nonce, !.bytes = bytes], FALSE) /\ Keep
          \/ Tell(a, "postPayment", TRUE)
  /\ UNCHANGED ledgers

SubmitIntent(a) ==
  /\ In(a, "payments", "intent")
  /\ \E reply \in {"Success", "rejected"} \cup Unclear :
       LET tx == [id |-> IntentId(at[a].id), kind |-> "claim", op |-> at[a].id,
                  nonce |-> at[a].nonce, amount |-> 0, to |-> "none", token |-> "none",
                  data |-> NoUserData] IN
       /\ Submit(tx, reply)
       /\ LET fault == SubmitFault(tx, reply) IN
          CASE SubmitWithRecovery(reply) = "Success" -> Step(a, [at[a] EXCEPT !.pc = "crossSignIntent"], fault) /\ Keep
            [] SubmitWithRecovery(reply) = "rejected" -> Tell(a, "postPayment", fault)
            [] SubmitWithRecovery(reply) = "indeterminate" -> Tell(a, "indeterminate", fault)
  /\ UNCHANGED evm

CrossSignIntent(a) ==
  /\ In(a, "payments", "crossSignIntent")
  /\ \/ \E reply \in CrossSignReplies(IntentId(at[a].id), 5) :
          LET id == ExtractClaimId(reply, IntentId(at[a].id), 5)
              fault == reply # [id |-> IntentId(at[a].id), type |-> 5] IN
          IF id = 0 THEN Tell(a, "postPayment", fault)
          ELSE Step(a, [at[a] EXCEPT !.pc = "relay"], fault) /\ Keep
     \/ Tell(a, "postPayment", TRUE)
  /\ UNCHANGED ledgers

(* relayExecute: only an answer that says success is one; an HTTP error, or  *)
(* an answer that says nothing, may come after the relayer took the task.    *)
RelaySucceeded(answer) == answer = "true"
Relay(a) ==
  /\ In(a, "payments", "relay")
  /\ \E answer \in {"true", "false", "unusable", "http error"}, taken \in BOOLEAN :
       /\ answer = "true" => taken
       /\ answer = "false" => ~taken
       /\ evm' = IF taken
                   THEN [evm EXCEPT !.relayed = @ \cup
                          {[op |-> at[a].id, txId |-> at[a].txId, amount |-> at[a].r.amount,
                            claim |-> AbiClaim(at[a].bytes)]}]
                   ELSE evm
       /\ Tell(a, IF RelaySucceeded(answer) THEN "success" ELSE "postPayment", answer # "true")
  /\ UNCHANGED fast

-----------------------------------------------------------------------------
(* executeDeposit: a transaction of the user's own account, sent and waited  *)
(* for; the node may fail before or after it is sent.                        *)
Deposit(a) ==
  /\ \E receiver \in FastAddresses \cup {"junk"} :
       /\ receiver \in FastAddresses
       /\ \/ Start(a, "native", Request("native", Amount))
          \/ \E amount \in {Amount, 2 * Amount} : Start(a, "reserve", Request("deposit", amount))
  /\ UNCHANGED ledgers

(* ensureGasReserveIfGasToken                                                *)
NoReserve == 0
Reserve == WeiToTokenUnits(EstimateGasReserve)
EnsureGasReserve(a) ==
  /\ In(a, "payments", "reserve")
  /\ \/ GasToken /\ BalanceOf < at[a].r.amount + Reserve /\ Tell(a, "error", FALSE)
     \/ ~(GasToken /\ BalanceOf < at[a].r.amount + Reserve)
          /\ Step(a, [at[a] EXCEPT !.pc = "approve"], FALSE) /\ Keep
     \/ GasToken /\ Tell(a, "error", TRUE)
  /\ UNCHANGED ledgers

\* approveErc20 sets the allowance to the amount; whatever the ten reads that
\* follow say, the deposit goes ahead.
Mined(a, ok) ==
  IF ok /\ at[a].pc = "approve" THEN Step(a, [at[a] EXCEPT !.pc = "deposit"], FALSE) /\ Keep
  ELSE Tell(a, IF ok THEN "success" ELSE "reverted", FALSE)

SendTx(a) ==
  LET t == Tx(at[a].pc, at[a].id, at[a].r.amount, -1, "bridge") IN
  /\ \/ evm' = AfterMining(t) /\ Mined(a, Succeeds(t))
     \/ evm' \in {evm, AfterMining(t)} /\ Tell(a, "error", TRUE)
  /\ UNCHANGED fast

ApproveErc20(a) == In(a, "payments", "approve") /\ SendTx(a)
SendDeposit(a) == (In(a, "payments", "native") \/ In(a, "payments", "deposit")) /\ SendTx(a)

-----------------------------------------------------------------------------
(* smartDeposit: the backend prepares a user operation, three times at most  *)
(* when it times out or is busy; the delegate must be a trusted one; the     *)
(* operation is submitted once.                                              *)
SmartDeposit(a) ==
  /\ Start(a, "prepare", Request("smart", Amount))
  /\ UNCHANGED ledgers
MaxAttempts == 3
Prepare(a) ==
  /\ In(a, "payments", "prepare")
  /\ \/ BalanceOf < at[a].r.amount /\ at[a].r.attempts = 0 /\ Tell(a, "error", FALSE)
     \/ /\ BalanceOf >= at[a].r.amount \/ at[a].r.attempts > 0
        /\ \/ \E key \in {-1, evm.nonce} : Step(a, [at[a] EXCEPT !.pc = "submit", !.key = key], FALSE) /\ Keep
           \/ Tell(a, "error", TRUE)
           \/ at[a].r.attempts + 1 < MaxAttempts
                /\ Step(a, [at[a] EXCEPT !.r.attempts = @ + 1], TRUE) /\ Keep
  /\ UNCHANGED ledgers

AfterSubmitRetrying(a, lost) ==
  IF lost THEN Step(a, at[a], TRUE) /\ Keep ELSE Tell(a, "success", FALSE)
AfterSubmit(a, lost) == Tell(a, IF lost THEN "error" ELSE "success", lost)
SubmitUserOp(a) ==
  /\ In(a, "payments", "submit")
  /\ \E lost, taken \in BOOLEAN :
       /\ ~lost => taken
       /\ evm' = IF taken
                   THEN [evm EXCEPT !.waiting = @ \cup {Tx("userop", at[a].id, at[a].r.amount, at[a].key, "bridge")}]
                   ELSE evm
       /\ AfterSubmit(a, lost)
  /\ UNCHANGED fast

BridgeNext(a) ==
  \/ ExecuteIntent(a) \/ AccountInfo(a) \/ SubmitTransfer(a) \/ CrossSignTransfer(a) \/ BuildClaim(a)
  \/ SubmitIntent(a) \/ CrossSignIntent(a) \/ Relay(a)
  \/ Deposit(a) \/ EnsureGasReserve(a) \/ ApproveErc20(a) \/ SendDeposit(a)
  \/ SmartDeposit(a) \/ Prepare(a) \/ SubmitUserOp(a)
=============================================================================
