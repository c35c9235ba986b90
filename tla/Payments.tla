------------------------------ MODULE Payments ------------------------------
(* One user's payments: calls of the allset-sdk, x402 clients and "fast pay" *)
(* on one Fast account and one EVM account, a seller's middleware and its    *)
(* facilitator, and the two ledgers.                                         *)
EXTENDS X402Client

vars == <<activity, ledgers, calls, jobs, history>>

Init == ActivityInit /\ LedgersInit /\ CallsInit /\ JobsInit /\ history = {}

Pending(i) == jobs[i].step \notin {"none", "done"} /\ jobs[i].payload.body.kind = "evm"
Outside == UNCHANGED <<calls, jobs, history>>
Dies(a) == at[a] # Idle /\ Fault(a) /\ UNCHANGED ledgers

Next ==
  \/ \E a \in Actors : BridgeNext(a) /\ Unserved
  \/ \E a \in Actors : ClientNext(a)
  \/ \E a \in Actors : Dies(a) /\ Outside
  \/ \E i \in 1..MaxOps : ServiceNext(i) /\ UNCHANGED <<calls, history>>
  \/ Mine /\ Outside
  \/ Deliver /\ Outside
  \/ \E i \in 1..MaxOps : Pending(i) /\ Lapse(jobs[i].payload.body.key) /\ Outside

Spec == Init /\ [][Next]_vars

-----------------------------------------------------------------------------
Bridges(op) == calls[op].asked.kind \in {"intent", "pay"}
Relayed(op) == {x \in evm.relayed : x.op = op}

(* A transfer to the bridge is never lost sight of: executeIntent reports a  *)
(* plain error only when the proxy has accepted nothing, success only when   *)
(* the relayer has taken the claim, and otherwise an error that carries the  *)
(* transfer; it never finds, after it paid, that the claim cannot be written *)
(* (bridge.ts executeIntent, errors.ts).                                     *)
TransferAccounted ==
  \A op \in 1..MaxOps : Bridges(op) =>
    /\ calls[op].bridge = "error" => Accepted(op, "bridge") = {}
    /\ calls[op].bridge = "success" => Relayed(op) # {}
    /\ calls[op].bridge # "unencodable"

Asked(op) ==
  LET asked == calls[op].asked IN
  IntentRequest(asked.encoding, IF asked.kind = "pay" THEN Withdrawal ELSE asked.intents)

(* What the relayer is asked to do is what the caller asked for, paid by the *)
(* caller's own transfer of that amount and marked as such, in either        *)
(* encoding of the claim, which is the one buildClaimBytes writes for it     *)
(* (bridge.ts extractCrossSignClaimId, intent-v1.ts, claims.ts).             *)
PaidAsAsked ==
  \A x \in evm.relayed :
    /\ x.claim.transfer = TransferId(x.op)
    /\ x.claim = AbiClaim(BuildClaimBytes(Asked(x.op), TransferId(x.op), Asked(x.op).seconds))
    /\ x.claim.intents = Asked(x.op).intents
    /\ \E tx \in Accepted(x.op, "bridge") :
         /\ tx.id = x.claim.transfer /\ tx.amount = x.amount
         /\ ReadTransferUserDataTag(tx.data) = IF Asked(x.op).encoding = "v1" THEN Asked(x.op).chain ELSE NoChain

(* One call pays once, however its answers are lost: one transfer and one    *)
(* claim on Fast, one payment, one deposit on the chain (bridge.ts,          *)
(* eip7702.ts smartDeposit, x402-client).                                    *)
EachCallPaysOnce ==
  \A op \in 1..MaxOps :
    /\ \A kind \in {"bridge", "claim", "payment"} : Cardinality(Accepted(op, kind)) <= 1
    /\ Cardinality({k \in DOMAIN evm.deposited : evm.deposited[k] = op}) <= 1

(* On a chain whose fees are paid in the token, an ERC-20 deposit that       *)
(* passed the reserve check does not run out of it between the approval and  *)
(* the deposit, when no other call spends on the chain (evm.ts               *)
(* ensureGasReserveIfGasToken).                                              *)
DepositNotStarved ==
  GasToken => \A op \in 1..MaxOps :
    /\ calls[op].asked.kind = "deposit"
    /\ \A other \in (1..MaxOps) \ {op} : calls[other].asked.kind \in {"none", "intent"}
    => calls[op].result # "reverted"

(* Content is delivered only for a payment that was made, to the seller, in  *)
(* its token and for at least its price: a transaction the network has       *)
(* accepted, or a transfer that was mined (verify.ts, settle.ts,             *)
(* middleware.ts).                                                           *)
ServedWasPaid ==
  \A i \in 1..MaxOps : jobs[i].answer = "served" =>
    IF NetworkType(jobs[i].terms.network) = "fast"
      THEN LET tx == jobs[i].payload.body.tx IN
           tx \in fast.txs /\ tx.to = "shop" /\ tx.amount >= Cost /\ tx.token = "usdc"
      ELSE LET t == Transferred(i) IN
           <<t, TRUE>> \in evm.receipts /\ t.to = "shop" /\ t.amount >= Cost

(* One EIP-3009 authorization buys content once, though two requests with it *)
(* are settled at the same time (settle.ts settleEvmPayment).                *)
AuthorizationServesOnce ==
  \A i, j \in 1..MaxOps :
    /\ i # j /\ jobs[i].answer = "served" /\ jobs[j].answer = "served"
    /\ NetworkType(jobs[i].terms.network) = "evm" /\ NetworkType(jobs[j].terms.network) = "evm"
    => jobs[i].payload.body.key # jobs[j].payload.body.key

(* "Record in history if payment was made" (pay.ts:237): when "fast pay" is  *)
(* told that its payment was taken, and the history can be written, the      *)
(* history has the payment with its amount.                                  *)
PaymentRecorded ==
  \A op \in 1..MaxOps :
    calls[op].result \in {"success", "threw"} /\ calls[op].asked.kind = "pay" /\ calls[op].asked.cli
      => [op |-> op, units |-> Cost] \in history
=============================================================================
