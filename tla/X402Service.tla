----------------------------- MODULE X402Service ----------------------------
(* A seller's x402 middleware and the facilitator it asks. Each paid request *)
(* is a job that goes on whatever becomes of the client that sent it, and    *)
(* jobs run at the same time. A step is one call of the middleware or of the *)
(* facilitator that leaves the process.                                      *)
EXTENDS Ledgers, X402Terms

CONSTANTS
  Unit,  \* the token's units in a whole token
  Price  \* what a request costs, as the route's configuration says it

ASSUME UnitAssumption == Unit \in Nat \ {0}

VARIABLES jobs \* for each activity: the paid request it sent, and the answer

NoJob == [step |-> "none", native |-> FALSE, payload |-> NoPayload, terms |-> NoTerms, answer |-> "none"]
JobsInit == jobs = [i \in 1..MaxOps |-> NoJob]

\* resolvePayTo and createPaymentRequirement for the route's network
Cost == ParsePrice(Price, Unit)
RouteTerms(network) == Requirement(network, Cost, "shop", "usdc")

\* The middleware finds the route and the header; PAYMENT-SIGNATURE must be native.
Arrive(i, native, payload, terms) ==
  jobs' = [jobs EXCEPT ![i] = [step |-> "arrived", native |-> native, payload |-> payload,
                               terms |-> terms, answer |-> "none"]]
ParsePaymentHeader(j) ==
  IF ~j.native THEN j.payload
  ELSE IF j.payload.v = 2 THEN FromV2PaymentPayload(j.payload, j.terms) ELSE NoPayload

\* The first answer is the one the client gets; a request that bought nothing is forgotten.
Done(i, answer) ==
  LET told == IF jobs[i].answer = "none" THEN answer ELSE jobs[i].answer IN
  jobs' = [jobs EXCEPT ![i] = IF told = "served" THEN [@ EXCEPT !.step = "done", !.answer = told]
                              ELSE [NoJob EXCEPT !.step = "done", !.answer = told]]
Advance(i, step) == jobs' = [jobs EXCEPT ![i].step = step]
Quietly == UNCHANGED <<activity, ledgers>>
Failing == faults < MaxFaults /\ faults' = faults + 1 /\ UNCHANGED <<at, ops, overlapped, ledgers>>

\* getTransactionCertificates: what the network has at the payer's nonce, or nothing.
Quorum(tx) == Certificate("typed", "fast:testnet", tx, "Signature",
                          [k \in DOMAIN Committee |-> Signed(Committee[k])])
NetworkViews(p) ==
  {{}} \cup (IF p.body.kind = "fast"
               THEN {{Quorum(t)} : t \in {t \in fast.txs : t.nonce = p.body.tx.nonce}} ELSE {})
Valid(p, terms, networks) == Verify(p, terms, networks, evm.expired, BalanceOf)

(* POST /verify. Fast content is delivered at once; an EVM payment has to be *)
(* settled first. An HTTP error refuses, a failed fetch is an error of ours. *)
VerifyPayment(i) ==
  LET j == jobs[i] p == ParsePaymentHeader(j) IN
  /\ j.step = "arrived"
  /\ \/ \E networks \in NetworkViews(p) :
          /\ IF ~Valid(p, j.terms, networks) THEN Done(i, "refused")
             ELSE IF NetworkType(j.terms.network) = "fast" THEN Done(i, "served")
             ELSE Advance(i, "verified")
          /\ Quietly
     \/ \E answer \in {"refused", "error"} : Done(i, answer) /\ Failing

-----------------------------------------------------------------------------
(* POST /settle: the payment is verified again, the authorization must be    *)
(* unused, and the transfer is sent and waited for.                          *)
SettleEvmPayment(i) ==
  /\ jobs[i].step = "verified"
  /\ IF Valid(ParsePaymentHeader(jobs[i]), jobs[i].terms, {}) THEN Advance(i, "checked") ELSE Done(i, "refused")
  /\ Quietly

AuthorizationState(i) ==
  /\ jobs[i].step = "checked"
  /\ \/ /\ IF jobs[i].payload.body.key \in evm.used THEN Done(i, "refused") ELSE Advance(i, "sending")
        /\ Quietly
     \/ Done(i, "refused") /\ Failing

Transferred(i) ==
  LET auth == jobs[i].payload.body IN Tx("authorized", i, auth.amount, auth.key, auth.to)
Broadcast(i) == evm' = [evm EXCEPT !.waiting = @ \cup {Transferred(i)}] /\ UNCHANGED fast
WriteContract(i) ==
  /\ jobs[i].step = "sending"
  /\ \/ Broadcast(i) /\ Advance(i, "receipt") /\ UNCHANGED activity
     \/ /\ Broadcast(i) \/ UNCHANGED ledgers
        /\ Done(i, "refused")
        /\ faults < MaxFaults /\ faults' = faults + 1 /\ UNCHANGED <<at, ops, overlapped>>

AnyReceipt(ok) == "served"
ReceiptAnswer(ok) == IF ok THEN "served" ELSE "refused"
WaitForReceipt(i) ==
  /\ jobs[i].step = "receipt"
  /\ \/ \E r \in evm.receipts : r[1] = Transferred(i) /\ Done(i, ReceiptAnswer(r[2])) /\ Quietly
     \/ Done(i, "refused") /\ Failing

(* The middleware's fetch fails while the facilitator is at work: the client *)
(* gets an error, and the settlement goes on.                                *)
LoseFacilitator(i) ==
  /\ jobs[i].step \in {"verified", "checked", "sending", "receipt"}
  /\ jobs[i].answer = "none"
  /\ jobs' = [jobs EXCEPT ![i].answer = "error"]
  /\ Failing

ServiceNext(i) ==
  \/ VerifyPayment(i) \/ SettleEvmPayment(i) \/ AuthorizationState(i) \/ WriteContract(i)
  \/ WaitForReceipt(i) \/ LoseFacilitator(i)
=============================================================================
