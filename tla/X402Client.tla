----------------------------- MODULE X402Client -----------------------------
(* x402Pay, which pays for what a request asks for on the Fast network, or   *)
(* with an EIP-3009 authorization on an EVM chain after bridging what is     *)
(* missing; "fast pay", the CLI command around it; and the manual flow, in   *)
(* which a caller presents a payment of its own making.                      *)
EXTENDS AllSetBridge, X402Service

VARIABLES history \* what "fast pay" has recorded

\* what x402Pay, or its caller, learns: the activity ends here.
End(a, result, fault) ==
  /\ Step(a, Idle, fault)
  /\ calls' = [calls EXCEPT ![at[a].id].result = result]
Unserved == UNCHANGED <<jobs, history>>

(* The wallets and the bridge a caller may have: "fast pay" gives both       *)
(* wallets, and no bridge. Old sellers make offers of the first version.     *)
Callers(terms) ==
  {[kind |-> "pay", cli |-> TRUE, wallets |-> {"fast", "evm"}, bridge |-> FALSE, v |-> 2, terms |-> terms],
   [kind |-> "pay", cli |-> FALSE, wallets |-> {"fast", "evm"}, bridge |-> TRUE, v |-> 1, terms |-> terms]}
Pay(a) ==
  /\ \E network \in {"fast-testnet", "base"} : \E r \in Callers(RouteTerms(network)) : Start(a, "request", r)
  /\ UNCHANGED ledgers /\ Unserved

(* The 402: native terms from its header, or the first version's from its    *)
(* body. A Fast offer is taken before an EVM one.                            *)
Offer(r) == IF r.v = 2 THEN FromV2(ToV2(r.terms)) ELSE r.terms
RequestContent(a) ==
  /\ In(a, "payments", "request")
  /\ LET r == at[a].r
         offer == Offer(r)
         way == IF NetworkType(offer.network) = "fast" THEN "fast" ELSE "evm" IN
     \/ /\ RequestedProtocolOK(r.v, offer) /\ way \in r.wallets
        /\ Step(a, [at[a] EXCEPT !.pc = IF way = "fast" THEN "payNonce" ELSE "balance",
                                 !.r.terms = offer], FALSE)
        /\ Keep
     \/ ~(RequestedProtocolOK(r.v, offer) /\ way \in r.wallets) /\ End(a, "error", FALSE)
     \/ End(a, "error", TRUE)
  /\ UNCHANGED ledgers /\ Unserved

-----------------------------------------------------------------------------
\* handleFastPayment: the nonce is read, then one transfer of the price is submitted.
PaymentNonce(a) ==
  /\ In(a, "payments", "payNonce")
  /\ \/ Step(a, [at[a] EXCEPT !.pc = "pay", !.nonce = fast.nonce], FALSE) /\ Keep
     \/ End(a, "error", TRUE)
  /\ UNCHANGED ledgers /\ Unserved

PaymentTx(a) ==
  [id |-> TransferId(at[a].id), kind |-> "payment", op |-> at[a].id, nonce |-> at[a].nonce,
   amount |-> at[a].r.terms.amount, to |-> at[a].r.terms.payTo, token |-> at[a].r.terms.asset,
   data |-> NoUserData]
Built(r, body) ==
  LET p == Payload(1, NoTerms, r.terms.network, body) IN
  IF r.v = 2 THEN ToV2PaymentPayload(p, ToV2(r.terms)) ELSE p
SubmitPayment(a) ==
  /\ In(a, "payments", "pay")
  /\ \E reply \in {"Success", "rejected"} \cup Unclear :
       /\ Submit(PaymentTx(a), reply)
       /\ LET fault == SubmitFault(PaymentTx(a), reply) IN
          IF reply \in {"Success", "other"}
            THEN \E tx \in IF reply = "Success" THEN {PaymentTx(a)} ELSE {[PaymentTx(a) EXCEPT !.to = "other"]} :
                   /\ Step(a, [at[a] EXCEPT !.pc = "paid", !.bytes = Built(at[a].r, Quorum(tx))], fault)
                   /\ Keep
            ELSE End(a, "error", fault)
  /\ UNCHANGED evm /\ Unserved

-----------------------------------------------------------------------------
\* handleEvmPayment: a balance that cannot be read counts as none.
Readings(balance) == {balance, 0}
Bridging(r, missing) ==
  [IntentRequest("legacy", Withdrawal) EXCEPT !.amount = missing, !.then = "poll", !.outer = r]
EvmBalance(a) ==
  /\ In(a, "payments", "balance")
  /\ LET r == at[a].r IN
     \E seen \in Readings(BalanceOf) :
       IF seen >= r.terms.amount THEN Step(a, [at[a] EXCEPT !.pc = "authorize"], FALSE) /\ Keep
       ELSE IF "fast" \in r.wallets /\ r.bridge
         THEN Step(a, [at[a] EXCEPT !.pc = "fastBalance", !.r = Bridging(r, r.terms.amount - seen)],
                   seen # BalanceOf) /\ Keep
         ELSE End(a, "error", seen # BalanceOf)
  /\ UNCHANGED ledgers /\ Unserved

\* getFastBalance, then bridgeFastusdcToUsdc: executeWithdraw of what is missing.
FastBalance(a) ==
  /\ In(a, "payments", "fastBalance")
  /\ \E seen \in Readings(fast.balance) :
       IF seen >= at[a].r.amount THEN Step(a, [at[a] EXCEPT !.pc = "account"], FALSE) /\ Keep
       ELSE End(a, "error", seen # fast.balance)
  /\ UNCHANGED ledgers /\ Unserved

\* pollForBalance: until the price is there, or two minutes have passed
PollForBalance(a) ==
  /\ In(a, "payments", "poll")
  /\ \/ BalanceOf >= at[a].r.terms.amount /\ Step(a, [at[a] EXCEPT !.pc = "authorize"], FALSE) /\ Keep
     \/ End(a, "error", TRUE)
  /\ UNCHANGED ledgers /\ Unserved

\* an authorization with a random nonce, for the price, to the seller
Authorize(a) ==
  /\ In(a, "payments", "authorize")
  /\ LET t == at[a].r.terms IN
     Step(a, [at[a] EXCEPT !.pc = "paid",
                           !.bytes = Built(at[a].r, Authorization(at[a].id, t.payTo, t.amount, t.asset))], FALSE)
  /\ UNCHANGED <<ledgers, calls>> /\ Unserved

-----------------------------------------------------------------------------
(* The paid request goes out; its connection may be lost, before it arrives  *)
(* or before the answer does.                                                *)
SendPaidRequest(a) ==
  /\ In(a, "payments", "paid")
  /\ \/ /\ Arrive(at[a].id, at[a].bytes.v = 2, at[a].bytes, RouteTerms(ToLegacyNetwork(at[a].r.terms.network)))
        /\ Goto(a, "answer")
        /\ Keep
     \/ End(a, "error", TRUE) /\ UNCHANGED jobs
  /\ UNCHANGED <<ledgers, history>>

ReadAnswer(a) ==
  /\ In(a, "payments", "answer")
  /\ LET answer == jobs[at[a].id].answer IN
     \/ answer = "served" /\ at[a].r.cli /\ Goto(a, "record") /\ Keep
     \/ answer = "served" /\ ~at[a].r.cli /\ End(a, "success", FALSE)
     \/ answer \in {"refused", "error"} /\ End(a, "unpaid", FALSE)
     \/ End(a, "error", TRUE)
  /\ UNCHANGED ledgers /\ Unserved

(* "fast pay" writes the payment in the history. A Fast payment reports its  *)
(* amount in the token's units, an EVM payment in whole tokens; the command  *)
(* takes both for units, and a fraction it cannot read ends it.              *)
ReportedAmount(r) ==
  IF NetworkType(r.terms.network) = "fast" THEN [units |-> r.terms.amount, fraction |-> FALSE]
  ELSE [units |-> r.terms.amount \div Unit, fraction |-> r.terms.amount % Unit # 0]
RecordHistory(a) ==
  /\ In(a, "payments", "record")
  /\ LET amount == ReportedAmount(at[a].r) IN
     \/ /\ ~amount.fraction
        /\ history' = history \cup {[op |-> at[a].id, units |-> amount.units]}
        /\ End(a, "success", FALSE)
     \/ amount.fraction /\ End(a, "threw", FALSE) /\ UNCHANGED history
     \/ End(a, "unrecorded", TRUE) /\ UNCHANGED history
  /\ UNCHANGED <<ledgers, jobs>>

-----------------------------------------------------------------------------
(* The manual flow: buildPaymentHeader of a payment made elsewhere: one that *)
(* was made, one that misses something, one that was used before.            *)
ASSUME CommitteeAssumption ==
  Committee \in Seq(STRING) /\ Len(Committee) >= 2 /\ "stranger" \notin Range(Committee)
Short == [k \in 1..(MinSignatures - 1) |-> Signed(Committee[k])]
Partial == {Short, Append(Short, Short[1]), Append(Short, Signed("stranger")),
            Append(Short, [member |-> Committee[MinSignatures], good |-> FALSE])}
Unsubmitted ==
  [id |-> TransferId(0), kind |-> "payment", op |-> 0, nonce |-> fast.nonce, amount |-> Cost,
   to |-> "shop", token |-> "usdc", data |-> NoUserData]
FastPresented ==
  {[Quorum(Unsubmitted) EXCEPT !.signatures = s] : s \in Partial} \cup
  UNION {{Quorum(t), [Quorum(t) EXCEPT !.form = "junk"], [Quorum(t) EXCEPT !.network = "fast:mainnet"],
          [Quorum(t) EXCEPT !.signature = "MultiSig"]} : t \in fast.txs}
Authorized == Authorization(0, "shop", Cost, "usdc")
EvmPresented ==
  {Authorized, [Authorized EXCEPT !.to = "other"], [Authorized EXCEPT !.amount = Cost - 1],
   [Authorized EXCEPT !.signedFor = "other"]} \cup
  {Authorization(i, "shop", Cost, "usdc") : i \in {i \in 1..MaxOps : calls[i].asked.kind = "pay"}}
Presented(network, v) ==
  {Built([v |-> v, terms |-> RouteTerms(network)], b) :
     b \in IF network = "base" THEN EvmPresented ELSE FastPresented}

Present(a) ==
  /\ \E network \in {"fast-testnet", "base"}, native \in BOOLEAN, v \in {1, 2} : \E p \in Presented(network, v) :
       /\ Start(a, "answer", [kind |-> "present", cli |-> FALSE])
       /\ Arrive(ops + 1, native, p, RouteTerms(network))
  /\ UNCHANGED <<ledgers, history>>

ClientNext(a) ==
  \/ Pay(a) \/ RequestContent(a) \/ PaymentNonce(a) \/ SubmitPayment(a) \/ EvmBalance(a)
  \/ FastBalance(a) \/ PollForBalance(a) \/ Authorize(a) \/ SendPaidRequest(a) \/ ReadAnswer(a)
  \/ RecordHistory(a) \/ Present(a)
=============================================================================
