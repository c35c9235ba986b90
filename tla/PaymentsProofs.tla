--------------------------- MODULE PaymentsProofs ---------------------------
(***************************************************************************)
(* What payments tell, pay and buy, for any number of concurrent calls,    *)
(* amounts, fees, committees and faults.                                   *)
(***************************************************************************)
EXTENDS Payments, FiniteSetTheorems, TLAPS

-----------------------------------------------------------------------------
(* Where a call of each kind can be, and where it has not yet submitted the  *)
(* transaction of a kind.                                                   *)
BridgePcs == {"account", "transfer", "crossSign", "claim", "intent", "crossSignIntent", "relay"}
DepositPcs == {"native", "reserve", "approve", "deposit", "prepare", "submit"}
PayPcs == {"request", "payNonce", "pay", "balance", "fastBalance", "poll", "authorize", "paid", "answer", "record"}
TxKinds == {"bridge", "claim", "payment"}
Before(kind) ==
  CASE kind = "bridge" -> {"request", "balance", "fastBalance", "account", "transfer"}
    [] kind = "claim" -> {"request", "balance", "fastBalance", "account", "transfer", "crossSign", "claim", "intent"}
    [] kind = "payment" -> {"request", "payNonce", "pay"}

(* The forms of what the variables hold.                                    *)
Kinds == {"none", "intent", "native", "deposit", "smart", "pay", "present"}
Tellings ==
  {"none", "success", "error", "indeterminate", "postPayment", "unencodable", "reverted", "unpaid",
   "threw", "unrecorded"}
Requests ==
  {q \in [kind : Kinds, cli : BOOLEAN, encoding : {"legacy", "v1"}, intents : Seq(Intents)] :
     q.kind # "intent" => q.encoding = "legacy"}
Results == [asked : Requests, bridge : Tellings, result : Tellings]
IsCall(s) ==
  /\ s = [f \in {"in", "pc", "id", "r", "nonce", "txId", "bytes", "key"} |-> s[f]]
  /\ s.in = "payments"
IsJob(j) ==
  j = [f \in {"step", "native", "payload", "terms", "answer"} |-> j[f]]
IsEvm(e) ==
  /\ e = [balance |-> e.balance, nonce |-> e.nonce, allowance |-> e.allowance, used |-> e.used,
          expired |-> e.expired, deposited |-> e.deposited, waiting |-> e.waiting,
          receipts |-> e.receipts, relayed |-> e.relayed, delivered |-> e.delivered]
  /\ e.deposited \in Seq(1..MaxOps)
FormsRight ==
  /\ ops \in 0..MaxOps
  /\ at = [a \in Actors |-> at[a]]
  /\ \A a \in Actors : at[a] = Idle \/ IsCall(at[a])
  /\ calls \in [1..MaxOps -> Results]
  /\ jobs = [i \in 1..MaxOps |-> jobs[i]]
  /\ \A i \in 1..MaxOps : IsJob(jobs[i])
  /\ IsEvm(evm)

(* Calls have numbers of their own, and what they did has the number of a    *)
(* call that was made.                                                      *)
Busy(a) == at[a].in = "payments"
IdsRight ==
  /\ \A a \in Actors : Busy(a) => at[a].id \in 1..ops
  /\ \A a, b \in Actors : Busy(a) /\ Busy(b) /\ at[a].id = at[b].id => a = b
  /\ \A i \in 1..MaxOps : i > ops => calls[i] = NoCall
  /\ \A tx \in fast.txs : tx.op \in 1..ops /\ tx.kind \in TxKinds
  /\ \A n \in DOMAIN evm.deposited : evm.deposited[n] \in 1..ops
  /\ \A t \in evm.waiting : t.op \in 1..ops
  /\ \A x \in evm.relayed : x.op \in 1..ops

-----------------------------------------------------------------------------
(* A payment is genuine unless it cannot pass for one.                      *)
Genuine(body) ==
  body.kind = "fast" => body.tx \in fast.txs \/ body.tx.to = "other" \/ ~CommitteeOK(body.signatures)

(* The bridge transfer of a call was made as it was asked for.              *)
Tag(op) == IF Asked(op).encoding = "v1" THEN Prepared(Asked(op)).userData ELSE NoUserData
TransferMade(op, amount) ==
  \E tx \in Accepted(op, "bridge") : tx.id = TransferId(op) /\ tx.amount = amount /\ tx.data = Tag(op)

(* What a call is doing is what its caller asked for.                       *)
BridgeRight(s) ==
  LET asked == calls[s.id].asked IN
  /\ s.r = [Asked(s.id) EXCEPT !.amount = s.r.amount, !.then = s.r.then, !.outer = s.r.outer]
  /\ \/ asked.kind = "intent" /\ s.r.then = "return" /\ s.r.amount = Amount
     \/ asked.kind = "pay" /\ s.r.then = "poll"
  /\ ~Refused(Prepared(Asked(s.id)))
DepositRight(s) ==
  /\ s.r = [kind |-> calls[s.id].asked.kind, amount |-> s.r.amount, then |-> "return", attempts |-> s.r.attempts]
  /\ s.r.amount \in Nat
  /\ s.r.kind = CASE s.pc = "native" -> "native"
                  [] s.pc \in {"reserve", "approve", "deposit"} -> "deposit"
                  [] s.pc \in {"prepare", "submit"} -> "smart"
StagesRight(s) ==
  /\ s.pc \in {"crossSign", "claim", "intent", "crossSignIntent", "relay"} => TransferMade(s.id, s.r.amount)
  /\ s.pc \in {"claim", "intent", "crossSignIntent", "relay"} => s.txId = TransferId(s.id)
  /\ s.pc \in {"intent", "crossSignIntent", "relay"} => s.bytes = ClaimBytes(Asked(s.id), TransferId(s.id))
  /\ s.pc = "paid" => Genuine(s.bytes.body)
  /\ s.pc = "answer" /\ s.r.cli => calls[s.id].asked.kind = "pay"
CallRight(s) ==
  /\ s.pc \in BridgePcs \cup DepositPcs \cup PayPcs
  /\ s.pc \in BridgePcs \cup {"fastBalance"} => BridgeRight(s)
  /\ s.pc \in DepositPcs => DepositRight(s)
  /\ s.pc \in PayPcs => calls[s.id].asked.kind \in IF s.pc = "answer" THEN {"pay", "present"} ELSE {"pay"}
  /\ s.pc \in Before("bridge") \cup BridgePcs => calls[s.id].bridge = "none"
  /\ StagesRight(s)
CallsRight == \A a \in Actors : Busy(a) => CallRight(at[a])

-----------------------------------------------------------------------------
(* A call that has not submitted a transaction yet has none on a ledger, and *)
(* no call has two.                                                         *)
Undeposited(op) ==
  /\ \A n \in DOMAIN evm.deposited : evm.deposited[n] # op
  /\ \A t \in evm.waiting : t.kind = "userop" => t.op # op
Fresh(s) ==
  /\ \A kind \in TxKinds : s.pc \in Before(kind) => Accepted(s.id, kind) = {}
  /\ s.pc \in DepositPcs => Undeposited(s.id)
PaysOnce ==
  /\ \A a \in Actors : Busy(a) => Fresh(at[a])
  /\ \A tx, ty \in fast.txs : tx.op = ty.op /\ tx.kind = ty.kind => tx = ty
  /\ \A m, n \in DOMAIN evm.deposited : evm.deposited[m] = evm.deposited[n] => m = n
  /\ \A t, u \in evm.waiting : t.kind = "userop" /\ u.kind = "userop" /\ t.op = u.op => t = u
  /\ \A t \in evm.waiting, n \in DOMAIN evm.deposited : t.kind = "userop" => evm.deposited[n] # t.op

(* What a call was told of its transfer, and what was relayed.              *)
ToldRight(op) ==
  Bridges(op) =>
    /\ calls[op].bridge = "error" => Accepted(op, "bridge") = {}
    /\ calls[op].bridge = "success" => Relayed(op) # {}
    /\ calls[op].bridge # "unencodable"
RelayRight(x) ==
  LET asked == calls[x.op].asked IN
  /\ x.claim = AbiClaim(ClaimBytes(Asked(x.op), TransferId(x.op)))
  /\ TransferMade(x.op, x.amount)
  /\ asked.kind = "pay" \/ (asked.kind = "intent" /\ x.amount = Amount)
  /\ ~Refused(Prepared(Asked(x.op)))
TransfersRight ==
  /\ \A op \in 1..MaxOps : ToldRight(op)
  /\ \A x \in evm.relayed : RelayRight(x)

-----------------------------------------------------------------------------
(* A paid request holds what it was sent with, and content went out only for *)
(* a payment on a ledger.                                                   *)
Bought(i) ==
  IF NetworkType(jobs[i].terms.network) = "fast"
    THEN LET tx == jobs[i].payload.body.tx IN
         tx \in fast.txs /\ tx.to = "shop" /\ tx.amount >= Cost /\ tx.token = "usdc"
    ELSE LET t == Transferred(i) IN
         <<t, TRUE>> \in evm.receipts /\ t.to = "shop" /\ t.amount >= Cost
JobRight(i) ==
  LET j == jobs[i] IN
  /\ j.step # "none" => calls[i].asked.kind \in {"pay", "present"}
  /\ j.step \in {"arrived", "verified", "checked", "sending", "receipt"} =>
       j.terms.payTo = "shop" /\ j.terms.amount = Cost /\ j.terms.asset = "usdc" /\ Genuine(j.payload.body)
  /\ j.step \in {"verified", "checked", "sending", "receipt"} =>
       /\ NetworkType(j.terms.network) # "fast"
       /\ j.payload.body.to = "shop" /\ j.payload.body.amount >= Cost
  /\ j.answer = "served" => j.step = "done" /\ Bought(i)
ReceiptsRight ==
  /\ \A r \in evm.receipts : r = <<r[1], r[2]>> /\ r[2] \in BOOLEAN
  /\ \A r \in evm.receipts : r[2] /\ r[1].kind = "authorized" => r[1].key \in evm.used
  /\ \A r, q \in evm.receipts :
       r[2] /\ q[2] /\ r[1].kind = "authorized" /\ q[1].kind = "authorized" /\ r[1].key = q[1].key => r = q
WaitingRight ==
  \A t \in evm.waiting :
    \/ t.kind = "userop" /\ calls[t.op].asked.kind = "smart"
    \/ t.kind = "authorized" /\ calls[t.op].asked.kind \in {"pay", "present"}
JobsRight == (\A i \in 1..MaxOps : JobRight(i)) /\ ReceiptsRight /\ WaitingRight

-----------------------------------------------------------------------------
(* While nothing but intents and deposits was asked for, only deposits take  *)
(* from the user's balance on the chain; and while there was one deposit, it *)
(* finds what it checked for.                                               *)
Calm == \A i \in 1..MaxOps : calls[i].asked.kind \in {"none", "intent", "deposit"}
Undisturbed(op) ==
  /\ calls[op].asked.kind = "deposit"
  /\ \A other \in (1..MaxOps) \ {op} : calls[other].asked.kind \in {"none", "intent"}
Ready(s) ==
  /\ s.pc = "approve" => evm.balance >= s.r.amount * Scale + 2 * FeeWei
  /\ s.pc = "deposit" => evm.balance >= s.r.amount * Scale + FeeWei /\ evm.allowance = s.r.amount
DepositsRight ==
  /\ Calm => evm.balance \in Int
  /\ GasToken => \A op \in 1..MaxOps : Undisturbed(op) =>
       calls[op].result # "reverted" /\ \A a \in Actors : Busy(a) /\ at[a].id = op => Ready(at[a])

(* The inductive invariant of the payments.                                 *)
PaymentsRight ==
  FormsRight /\ IdsRight /\ CallsRight /\ PaysOnce /\ TransfersRight /\ JobsRight /\ DepositsRight

-----------------------------------------------------------------------------
(* What a step of an actor does at most: at[a] becomes s.                   *)
Doing(a) == IF at[a] = Idle THEN ops + 1 ELSE at[a].id
Follows(c, s) ==
  /\ \A kind \in TxKinds : s.pc \in Before(kind) => c.pc \in Before(kind)
  /\ s.pc \in DepositPcs => c.pc \in DepositPcs
Starting(c, s) == c = Idle /\ ops < MaxOps /\ ops' = ops + 1 /\ IsCall(s) /\ s.id = ops + 1
Going(c, s) == c # Idle /\ ops' = ops /\ (s = Idle \/ (IsCall(s) /\ s.id = c.id /\ Follows(c, s)))
Spends(c, s) ==
  \/ fast'.txs = fast.txs
  \/ \E tx : /\ fast'.txs = fast.txs \cup {tx}
             /\ c # Idle /\ tx.op = c.id /\ tx.kind \in TxKinds /\ c.pc \in Before(tx.kind)
             /\ s # Idle => s.pc \notin Before(tx.kind)
CallsMove(a) ==
  /\ calls' \in [1..MaxOps -> Results]
  /\ \A i \in 1..MaxOps : i # Doing(a) => calls'[i] = calls[i]
  /\ at[a] # Idle => calls'[at[a].id].asked = calls[at[a].id].asked
  /\ \A i \in 1..MaxOps : i = Doing(a) => ToldRight(i)'
JobsMove(a) ==
  /\ jobs' = [i \in 1..MaxOps |-> jobs'[i]]
  /\ \A i \in 1..MaxOps : jobs'[i] = jobs[i] \/ (i = Doing(a) /\ IsJob(jobs'[i]) /\ JobRight(i)')
Sent(c) == Tx(c.pc, c.id, c.r.amount, -1, "bridge")
SendingPcs == {"native", "approve", "deposit"}
EvmMoves(c, s) ==
  \/ UNCHANGED evm
  \/ \E x : evm' = [evm EXCEPT !.relayed = @ \cup {x}] /\ c # Idle /\ x.op = c.id /\ RelayRight(x)'
  \/ /\ c # Idle /\ c.pc = "submit" /\ s = Idle
     /\ evm' = [evm EXCEPT !.waiting = @ \cup {Tx("userop", c.id, c.r.amount, c.key, "bridge")}]
  \/ /\ c # Idle /\ c.pc \in SendingPcs /\ (s = Idle \/ c.pc = "approve")
     /\ evm' = AfterMining(Sent(c))
DepositMoves(a, s) ==
  /\ s # Idle /\ s.pc = "approve" =>
       /\ at[a] # Idle /\ at[a].pc = "reserve" /\ s.r = at[a].r /\ UNCHANGED evm
       /\ GasToken /\ evm.balance \in Int => BalanceOf >= at[a].r.amount + Reserve
  /\ s # Idle /\ s.pc = "deposit" =>
       /\ at[a] # Idle /\ at[a].pc = "approve" /\ s.r = at[a].r
       /\ evm' = AfterMining(Sent(at[a])) /\ Succeeds(Sent(at[a]))
  /\ calls'[Doing(a)].result = "reverted" =>
       \/ calls[Doing(a)].result = "reverted"
       \/ at[a] # Idle /\ at[a].pc \in SendingPcs /\ ~Succeeds(Sent(at[a]))

CallStep(a, s) ==
  /\ at' = [at EXCEPT ![a] = s]
  /\ Starting(at[a], s) \/ Going(at[a], s)
  /\ s # Idle => CallRight(s)'
  /\ Spends(at[a], s)
  /\ CallsMove(a) /\ JobsMove(a)
  /\ EvmMoves(at[a], s) /\ DepositMoves(a, s)

-----------------------------------------------------------------------------
\* Where a transaction of each kind has not been submitted.
LEMMA BeforeSets ==
  /\ Before("bridge") = {"request", "balance", "fastBalance", "account", "transfer"}
  /\ Before("claim") = {"request", "balance", "fastBalance", "account", "transfer", "crossSign", "claim", "intent"}
  /\ Before("payment") = {"request", "payNonce", "pay"}
BY DEF Before

\* Calls are busy or idle.
LEMMA BusyForms ==
  ASSUME FormsRight
  PROVE  /\ Idle.in = "none"
         /\ \A a \in Actors : (Busy(a) <=> at[a] # Idle) /\ (Busy(a) <=> IsCall(at[a]))
         /\ \A s : IsCall(s) => s.in = "payments" /\ s # Idle
<1>1. \A s : IsCall(s) => s.in = "payments"
  BY DEF IsCall
<1>2. Idle.in = "none"
  BY DEF Idle
<1>. QED  BY <1>1, <1>2 DEF FormsRight, Busy

\* A transaction mined at once, or in its block, changes what its kind changes.
LEMMA MiningForms ==
  ASSUME FormsRight, NEW t, t.op \in 1..MaxOps,
         t.kind \in {"authorized", "approve", "deposit", "native", "userop"}
  PROVE  LET e == AfterMining(t) IN
         /\ IsEvm(e)
         /\ e.waiting = evm.waiting /\ e.receipts = evm.receipts /\ e.relayed = evm.relayed
         /\ IF t.kind = "authorized" /\ Succeeds(t) THEN e.used = evm.used \cup {t.key} ELSE e.used = evm.used
         /\ IF t.kind \in {"deposit", "native", "userop"} /\ Succeeds(t)
              THEN e.deposited = Append(evm.deposited, t.op) ELSE e.deposited = evm.deposited
<1>1. IsEvm(evm)
  BY DEF FormsRight
<1>2. Append(evm.deposited, t.op) \in Seq(1..MaxOps)
  BY <1>1 DEF IsEvm
<1>. DEFINE f == AfterFee(t)
<1>3. /\ IsEvm(f) /\ f.waiting = evm.waiting /\ f.receipts = evm.receipts /\ f.relayed = evm.relayed
      /\ f.used = evm.used /\ f.deposited = evm.deposited
  BY <1>1 DEF AfterFee, IsEvm
<1>4. CASE ~Succeeds(t)
  BY <1>3, <1>4 DEF AfterMining
<1>5. CASE Succeeds(t)
  <2>. HIDE DEF f
  <2>1. CASE t.kind = "authorized"
    BY <1>3, <1>5, <2>1 DEF AfterMining, f, IsEvm
  <2>2. CASE t.kind = "approve"
    BY <1>3, <1>5, <2>2 DEF AfterMining, f, IsEvm
  <2>3. CASE t.kind = "deposit"
    BY <1>2, <1>3, <1>5, <2>3 DEF AfterMining, f, IsEvm
  <2>4. CASE t.kind = "native"
    BY <1>2, <1>3, <1>5, <2>4 DEF AfterMining, f, IsEvm
  <2>5. CASE t.kind = "userop"
    BY <1>2, <1>3, <1>5, <2>5 DEF AfterMining, f, IsEvm
  <2>. QED  BY <2>1, <2>2, <2>3, <2>4, <2>5
<1>. QED  BY <1>4, <1>5

-----------------------------------------------------------------------------
\* The call an actor is at, and the calls of the others.
LEMMA StepForms ==
  ASSUME FormsRight, IdsRight, NEW a \in Actors, NEW s, CallStep(a, s)
  PROVE  /\ Doing(a) \in 1..MaxOps /\ Doing(a) <= ops' /\ ops' \in 0..MaxOps /\ ops <= ops'
         /\ at'[a] = s /\ at' = [b \in Actors |-> at'[b]]
         /\ \A b \in Actors \ {a} : at'[b] = at[b] /\ (Busy(b) => at[b].id # Doing(a))
         /\ s # Idle => IsCall(s) /\ s.id = Doing(a)
         /\ at[a] # Idle => at[a].id = Doing(a) /\ ops' = ops
         /\ at[a] = Idle => calls[Doing(a)] = NoCall /\ Doing(a) = ops + 1
         /\ fast.txs \subseteq fast'.txs
<1>1. ops \in 0..MaxOps /\ MaxOps \in Nat
  BY ActivityBounds DEF FormsRight
<1>2. at'[a] = s /\ at' = [b \in Actors |-> at'[b]] /\ \A b \in Actors \ {a} : at'[b] = at[b]
  BY DEF CallStep, FormsRight
<1>3. fast.txs \subseteq fast'.txs
  BY DEF CallStep, Spends
<1>4. CASE at[a] = Idle
  <2>1. Starting(at[a], s) /\ Doing(a) = ops + 1
    BY <1>4 DEF CallStep, Going, Doing
  <2>2. ops < MaxOps /\ ops' = ops + 1 /\ IsCall(s) /\ s.id = ops + 1
    BY <2>1 DEF Starting
  <2>3. calls[ops + 1] = NoCall
    BY <1>1, <2>2 DEF IdsRight
  <2>4. \A b \in Actors : Busy(b) => at[b].id # ops + 1
    BY <1>1 DEF IdsRight
  <2>. QED  BY <1>1, <1>2, <1>3, <1>4, <2>1, <2>2, <2>3, <2>4
<1>5. CASE at[a] # Idle
  <2>1. Going(at[a], s) /\ Doing(a) = at[a].id
    BY <1>5 DEF CallStep, Starting, Doing
  <2>2. Busy(a) /\ at[a].id \in 1..ops
    BY <1>5, BusyForms DEF IdsRight
  <2>3. \A b \in Actors \ {a} : Busy(b) => at[b].id # at[a].id
    BY <2>2 DEF IdsRight
  <2>. QED  BY <1>1, <1>2, <1>3, <1>5, <2>1, <2>2, <2>3 DEF Going
<1>. QED  BY <1>4, <1>5

\* What a step of an actor puts on the chain.
LEMMA EvmForms ==
  ASSUME FormsRight, IdsRight, NEW a \in Actors, NEW s, CallStep(a, s)
  PROVE  /\ IsEvm(evm')
         /\ evm'.receipts = evm.receipts /\ evm'.used = evm.used
         /\ \A t \in evm'.waiting : t \in evm.waiting \/
              (at[a] # Idle /\ at[a].pc = "submit" /\ s = Idle
               /\ t = Tx("userop", at[a].id, at[a].r.amount, at[a].key, "bridge"))
         /\ evm.waiting \subseteq evm'.waiting
         /\ \A x \in evm'.relayed : x \in evm.relayed \/ (at[a] # Idle /\ x.op = at[a].id /\ RelayRight(x)')
         /\ evm.relayed \subseteq evm'.relayed
         /\ \/ evm'.deposited = evm.deposited
            \/ /\ at[a] # Idle /\ at[a].pc \in {"native", "deposit"} /\ s = Idle
               /\ evm'.deposited = Append(evm.deposited, at[a].id)
               /\ evm'.waiting = evm.waiting
<1>. DEFINE c == at[a]
<1>1. IsEvm(evm)
  BY DEF FormsRight
<1>2. CASE UNCHANGED evm
  BY <1>1, <1>2
<1>3. ASSUME NEW x, evm' = [evm EXCEPT !.relayed = @ \cup {x}], c # Idle, x.op = c.id, RelayRight(x)'
      PROVE  /\ IsEvm(evm') /\ evm'.relayed = evm.relayed \cup {x}
             /\ evm'.receipts = evm.receipts /\ evm'.used = evm.used /\ evm'.waiting = evm.waiting
             /\ evm'.deposited = evm.deposited
  BY <1>1, <1>3 DEF IsEvm
<1>4. ASSUME c # Idle, c.pc = "submit", s = Idle,
             evm' = [evm EXCEPT !.waiting = @ \cup {Tx("userop", c.id, c.r.amount, c.key, "bridge")}]
      PROVE  /\ IsEvm(evm')
             /\ evm'.waiting = evm.waiting \cup {Tx("userop", c.id, c.r.amount, c.key, "bridge")}
             /\ evm'.receipts = evm.receipts /\ evm'.used = evm.used /\ evm'.relayed = evm.relayed
             /\ evm'.deposited = evm.deposited
  BY <1>1, <1>4 DEF IsEvm
<1>5. ASSUME c # Idle, c.pc \in SendingPcs, s = Idle \/ c.pc = "approve", evm' = AfterMining(Sent(c))
      PROVE  /\ IsEvm(evm') /\ evm'.waiting = evm.waiting
             /\ evm'.receipts = evm.receipts /\ evm'.used = evm.used /\ evm'.relayed = evm.relayed
             /\ \/ evm'.deposited = evm.deposited
                \/ c.pc \in {"native", "deposit"} /\ s = Idle /\ evm'.deposited = Append(evm.deposited, c.id)
  <2>1. Sent(c).op = c.id /\ Sent(c).kind = c.pc
    BY DEF Sent, Tx
  <2>2. c.id \in 1..MaxOps
    BY <1>5, StepForms
  <2>3. Sent(c).kind \in {"authorized", "approve", "deposit", "native", "userop"} /\ Sent(c).op \in 1..MaxOps
    BY <1>5, <2>1, <2>2 DEF SendingPcs
  <2>. HIDE DEF c
  <2>. QED  BY <1>5, <2>1, <2>3, MiningForms DEF SendingPcs
<1>. QED
  BY <1>1, <1>2, <1>3, <1>4, <1>5 DEF CallStep, EvmMoves

\* A call step keeps the forms of the variables.
LEMMA FormsKept ==
  ASSUME FormsRight, IdsRight, NEW a \in Actors, NEW s, CallStep(a, s)
  PROVE  FormsRight'
<1>1. \A b \in Actors : at'[b] = Idle \/ IsCall(at'[b])
  <2>. TAKE b \in Actors
  <2>1. CASE b = a
    BY <2>1, StepForms
  <2>2. CASE b # a
    BY <2>2, StepForms DEF FormsRight
  <2>. QED  BY <2>1, <2>2
<1>2. calls' \in [1..MaxOps -> Results] /\ jobs' = [i \in 1..MaxOps |-> jobs'[i]]
  BY DEF CallStep, CallsMove, JobsMove
<1>3. \A i \in 1..MaxOps : IsJob(jobs'[i])
  BY DEF CallStep, JobsMove, FormsRight
<1>. QED  BY <1>1, <1>2, <1>3, StepForms, EvmForms DEF FormsRight, IsCall, IsJob, IsEvm, Idle

\* A call step keeps calls apart, and what they did with a call that was made.
LEMMA IdsKept ==
  ASSUME FormsRight, IdsRight, NEW a \in Actors, NEW s, CallStep(a, s)
  PROVE  IdsRight'
<1>. ops \in Nat /\ ops' \in Nat
  BY StepForms DEF FormsRight
<1>1. at'[a].in = "payments" => s # Idle
  BY StepForms, BusyForms
<1>2. \A b \in Actors : at'[b].in = "payments" => at'[b].id \in 1..ops'
  BY <1>1, StepForms DEF IdsRight, Busy
<1>3. \A b, d \in Actors : at'[b].in = "payments" /\ at'[d].in = "payments" /\ at'[b].id = at'[d].id => b = d
  <2>. TAKE b, d \in Actors
  <2>1. CASE b # a /\ d # a
    BY <2>1, StepForms DEF IdsRight, Busy
  <2>2. CASE b = a /\ d # a
    BY <1>1, <2>2, StepForms DEF Busy
  <2>3. CASE b # a /\ d = a
    BY <1>1, <2>3, StepForms DEF Busy
  <2>. QED  BY <2>1, <2>2, <2>3
<1>4. \A i \in 1..MaxOps : i > ops' => calls'[i] = NoCall
  <2>1. \A i \in 1..MaxOps : i # Doing(a) => calls'[i] = calls[i]
    BY DEF CallStep, CallsMove
  <2>. QED  BY <2>1, StepForms DEF IdsRight
<1>5. \A tx \in fast'.txs : tx.op \in 1..ops' /\ tx.kind \in TxKinds
  <2>. TAKE tx \in fast'.txs
  <2>1. CASE tx \in fast.txs
    BY <2>1, StepForms DEF IdsRight
  <2>2. CASE at[a] # Idle /\ tx.op = at[a].id /\ tx.kind \in TxKinds
    BY <2>2, StepForms
  <2>. QED  BY <2>1, <2>2 DEF CallStep, Spends
<1>6. \A n \in DOMAIN evm'.deposited : evm'.deposited[n] \in 1..ops'
  <2>1. CASE evm'.deposited = evm.deposited
    BY <2>1, StepForms DEF IdsRight
  <2>2. CASE at[a] # Idle /\ evm'.deposited = Append(evm.deposited, at[a].id)
    <3>1. evm.deposited \in Seq(1..MaxOps)
      BY DEF FormsRight, IsEvm
    <3>. QED  BY <2>2, <3>1, StepForms DEF IdsRight
  <2>. QED  BY <2>1, <2>2, EvmForms
<1>7. \A t \in evm'.waiting : t.op \in 1..ops'
  <2>. TAKE t \in evm'.waiting
  <2>1. CASE t \in evm.waiting
    BY <2>1, StepForms DEF IdsRight
  <2>2. CASE at[a] # Idle /\ t = Tx("userop", at[a].id, at[a].r.amount, at[a].key, "bridge")
    BY <2>2, StepForms DEF Tx
  <2>. QED  BY <2>1, <2>2, EvmForms
<1>8. \A x \in evm'.relayed : x.op \in 1..ops'
  <2>. TAKE x \in evm'.relayed
  <2>1. CASE x \in evm.relayed
    BY <2>1, StepForms DEF IdsRight
  <2>2. CASE at[a] # Idle /\ x.op = at[a].id
    BY <2>2, StepForms
  <2>. QED  BY <2>1, <2>2, EvmForms
<1>. QED  BY <1>2, <1>3, <1>4, <1>5, <1>6, <1>7, <1>8 DEF IdsRight, Busy

\* What another call does leaves a call where it was.
LEMMA OtherCall ==
  ASSUME NEW c, CallRight(c), calls'[c.id] = calls[c.id], fast.txs \subseteq fast'.txs
  PROVE  CallRight(c)'
<1>1. Asked(c.id)' = Asked(c.id)
  BY DEF Asked
<1>2. BridgeRight(c) => BridgeRight(c)'
  BY <1>1 DEF BridgeRight
<1>3. DepositRight(c) => DepositRight(c)'
  BY DEF DepositRight
<1>4. Tag(c.id)' = Tag(c.id)
  BY <1>1 DEF Tag
<1>5. TransferMade(c.id, c.r.amount) => TransferMade(c.id, c.r.amount)'
  BY <1>4 DEF TransferMade, Accepted
<1>6. StagesRight(c) => StagesRight(c)'
  BY <1>1, <1>5 DEF StagesRight, Genuine
<1>. QED  BY <1>2, <1>3, <1>6 DEF CallRight

\* A call step keeps what every call is doing as its caller asked for it.
LEMMA CallsKept ==
  ASSUME FormsRight, IdsRight, CallsRight, NEW a \in Actors, NEW s, CallStep(a, s)
  PROVE  CallsRight'
<1>. SUFFICES ASSUME NEW b \in Actors, Busy(b)'
              PROVE  CallRight(at[b])'
  BY DEF CallsRight
<1>1. CASE b = a
  <2>1. s # Idle /\ at'[b] = s
    BY <1>1, StepForms, BusyForms DEF Busy
  <2>2. CallRight(s)'
    BY <2>1 DEF CallStep
  <2>. QED  BY <2>1, <2>2
<1>2. CASE b # a
  <2>1. at'[b] = at[b] /\ Busy(b) /\ at[b].id # Doing(a) /\ at[b].id \in 1..ops
    BY <1>2, StepForms DEF Busy, IdsRight
  <2>2. calls'[at[b].id] = calls[at[b].id]
    <3>1. at[b].id \in 1..MaxOps
      BY <2>1, ActivityBounds DEF FormsRight
    <3>. QED  BY <2>1, <3>1 DEF CallStep, CallsMove
  <2>3. CallRight(at[b])
    BY <2>1 DEF CallsRight
  <2>. DEFINE c == at[b]
  <2>4. CallRight(c)' <=> CallRight(at[b])'
    BY <2>1
  <2>. QED  BY <2>1, <2>2, <2>3, StepForms, OtherCall
<1>. QED  BY <1>1, <1>2

\* Nobody is charged twice: a step submits only what its call has not submitted yet.
LEMMA PaysOnceKept ==
  ASSUME FormsRight, IdsRight, PaysOnce, CallsRight, NEW a \in Actors, NEW s, CallStep(a, s)
  PROVE  PaysOnce'
<1>. DEFINE c == at[a]
<1>1. evm.deposited \in Seq(1..MaxOps) /\ ops \in Nat /\ ops' \in Nat
  BY StepForms DEF FormsRight, IsEvm
<1>2. c # Idle => Busy(a) /\ Fresh(c) /\ c.id = Doing(a)
  BY BusyForms, StepForms DEF PaysOnce
<1>3. c = Idle => /\ \A tx \in fast.txs : tx.op # Doing(a)
                  /\ \A n \in DOMAIN evm.deposited : evm.deposited[n] # Doing(a)
                  /\ \A t \in evm.waiting : t.op # Doing(a)
  BY <1>1, StepForms DEF IdsRight
<1>4. \A b \in Actors : Busy(b)' => Fresh(at[b])'
  <2>. SUFFICES ASSUME NEW b \in Actors, Busy(b)'
                PROVE  Fresh(at[b])'
    OBVIOUS
  <2>. DEFINE d == at'[b]
  <2>1. d.in = "payments"
    BY DEF Busy
  <2>2. ASSUME NEW kind \in TxKinds, d.pc \in Before(kind)
        PROVE  {tx \in fast'.txs : tx.op = d.id /\ tx.kind = kind} = {}
    <3>. SUFFICES ASSUME NEW tx \in fast'.txs, tx.op = d.id, tx.kind = kind
                  PROVE  FALSE
      OBVIOUS
    <3>1. CASE b # a
      <4>1. d = at[b] /\ Busy(b) /\ d.id # Doing(a)
        BY <2>1, <3>1, StepForms DEF Busy
      <4>2. tx \in fast.txs \/ (c # Idle /\ tx.op = c.id)
        BY DEF CallStep, Spends
      <4>3. tx \in fast.txs
        BY <1>2, <4>1, <4>2
      <4>. QED  BY <2>2, <4>1, <4>3 DEF PaysOnce, Fresh, Accepted
    <3>2. CASE b = a
      <4>1. d = s /\ s # Idle /\ s.id = Doing(a)
        BY <2>1, <3>2, StepForms, BusyForms
      <4>2. tx \in fast.txs
        BY <2>2, <4>1 DEF CallStep, Spends
      <4>3. CASE c = Idle
        BY <1>3, <4>1, <4>2, <4>3
      <4>4. CASE c # Idle
        <5>1. c.pc \in Before(kind)
          BY <2>2, <4>1, <4>4 DEF CallStep, Starting, Going, Follows
        <5>. QED  BY <1>2, <4>1, <4>2, <4>4, <5>1 DEF Fresh, Accepted
      <4>. QED  BY <4>3, <4>4
    <3>. QED  BY <3>1, <3>2
  <2>3. ASSUME d.pc \in DepositPcs
        PROVE  /\ \A n \in DOMAIN evm'.deposited : evm'.deposited[n] # d.id
               /\ \A t \in evm'.waiting : t.kind = "userop" => t.op # d.id
    <3>1. CASE b # a
      <4>1. d = at[b] /\ Busy(b) /\ d.id # Doing(a) /\ Undeposited(d.id)
        BY <2>1, <2>3, <3>1, StepForms DEF Busy, PaysOnce, Fresh
      <4>2. \A n \in DOMAIN evm'.deposited : evm'.deposited[n] # d.id
        <5>1. evm'.deposited = evm.deposited \/ (c # Idle /\ evm'.deposited = Append(evm.deposited, c.id))
          BY EvmForms
        <5>. QED  BY <1>1, <1>2, <4>1, <5>1 DEF Undeposited
      <4>3. \A t \in evm'.waiting : t.kind = "userop" => t.op # d.id
        <5>1. \A t \in evm'.waiting : t \in evm.waiting \/ (c # Idle /\ t.op = c.id)
          BY EvmForms DEF Tx
        <5>. QED  BY <1>2, <4>1, <5>1 DEF Undeposited
      <4>. QED  BY <4>2, <4>3
    <3>2. CASE b = a
      <4>1. d = s /\ s # Idle /\ s.id = Doing(a)
        BY <2>1, <3>2, StepForms, BusyForms
      <4>2. evm'.deposited = evm.deposited /\ \A t \in evm'.waiting : t \in evm.waiting
        BY <4>1, EvmForms
      <4>3. CASE c = Idle
        BY <1>3, <4>1, <4>2, <4>3
      <4>4. CASE c # Idle
        <5>1. c.pc \in DepositPcs
          BY <2>3, <4>1, <4>4 DEF CallStep, Starting, Going, Follows
        <5>. QED  BY <1>2, <4>1, <4>2, <4>4, <5>1 DEF Fresh, Undeposited
      <4>. QED  BY <4>3, <4>4
    <3>. QED  BY <3>1, <3>2
  <2>. QED  BY <2>2, <2>3 DEF Fresh, Accepted, Undeposited
<1>5. \A tx, ty \in fast'.txs : tx.op = ty.op /\ tx.kind = ty.kind => tx = ty
  <2>1. CASE fast'.txs = fast.txs
    BY <2>1 DEF PaysOnce
  <2>2. ASSUME NEW tz, fast'.txs = fast.txs \cup {tz}, c # Idle, tz.op = c.id, tz.kind \in TxKinds,
               c.pc \in Before(tz.kind)
        PROVE  \A tx, ty \in fast'.txs : tx.op = ty.op /\ tx.kind = ty.kind => tx = ty
    <3>1. \A tx \in fast.txs : ~(tx.op = tz.op /\ tx.kind = tz.kind)
      BY <1>2, <2>2 DEF Fresh, Accepted
    <3>. QED  BY <2>2, <3>1 DEF PaysOnce
  <2>. QED  BY <2>1, <2>2 DEF CallStep, Spends
<1>6. c # Idle /\ c.pc \in DepositPcs => Undeposited(c.id)
  BY <1>2 DEF Fresh
<1>7. CASE evm'.deposited = evm.deposited
  <2>1. \A t \in evm'.waiting : t \in evm.waiting \/ (c # Idle /\ c.pc \in DepositPcs /\ t.op = c.id
                                     /\ t = Tx("userop", c.id, c.r.amount, c.key, "bridge"))
    BY EvmForms DEF Tx, DepositPcs
  <2>2. \A t, u \in evm'.waiting : t.kind = "userop" /\ u.kind = "userop" /\ t.op = u.op => t = u
    BY <1>6, <2>1 DEF PaysOnce, Undeposited
  <2>3. \A t \in evm'.waiting, n \in DOMAIN evm'.deposited : t.kind = "userop" => evm'.deposited[n] # t.op
    BY <1>6, <1>7, <2>1 DEF PaysOnce, Undeposited
  <2>. QED  BY <1>4, <1>5, <1>7, <2>2, <2>3 DEF PaysOnce
<1>8. CASE c # Idle /\ c.pc \in {"native", "deposit"} /\ evm'.deposited = Append(evm.deposited, c.id)
             /\ evm'.waiting = evm.waiting
  <2>1. Undeposited(c.id) /\ c.id \in 1..MaxOps
    BY <1>6, <1>8, StepForms DEF DepositPcs
  <2>. DEFINE q == evm.deposited
  <2>2. DOMAIN Append(q, c.id) = 1..(Len(q) + 1) /\ DOMAIN q = 1..Len(q) /\ Len(q) \in Nat
        /\ (\A n \in 1..Len(q) : Append(q, c.id)[n] = q[n]) /\ Append(q, c.id)[Len(q) + 1] = c.id
    BY <1>1, <2>1
  <2>3. \A m, n \in DOMAIN Append(q, c.id) : Append(q, c.id)[m] = Append(q, c.id)[n] => m = n
    BY <2>1, <2>2 DEF PaysOnce, Undeposited
  <2>4. \A t \in evm.waiting, n \in DOMAIN Append(q, c.id) : t.kind = "userop" => Append(q, c.id)[n] # t.op
    BY <2>1, <2>2 DEF PaysOnce, Undeposited
  <2>. QED  BY <1>4, <1>5, <1>8, <2>3, <2>4 DEF PaysOnce
<1>. QED  BY <1>7, <1>8, EvmForms

\* What a call was asked for stays.
LEMMA AskedStays ==
  ASSUME FormsRight, IdsRight, NEW a \in Actors, NEW s, CallStep(a, s)
  PROVE  /\ \A i \in 1..ops : i \in 1..MaxOps /\ calls'[i].asked = calls[i].asked
         /\ \A i \in 1..MaxOps : i # Doing(a) => calls'[i] = calls[i]
         /\ \A i \in 1..MaxOps : calls'[i].asked = calls[i].asked \/ calls[i] = NoCall
<1>1. \A i \in 1..MaxOps : i # Doing(a) => calls'[i] = calls[i]
  BY DEF CallStep, CallsMove
<1>2. at[a] # Idle => calls'[Doing(a)].asked = calls[Doing(a)].asked
  BY StepForms DEF CallStep, CallsMove
<1>3. ops \in Nat /\ ops <= MaxOps
  BY ActivityBounds DEF FormsRight
<1>4. at[a] = Idle => Doing(a) = ops + 1 /\ calls[Doing(a)] = NoCall
  BY StepForms
<1>5. \A i \in 1..ops : i \in 1..MaxOps
  BY <1>3, ActivityBounds
<1>6. \A i \in 1..ops : i = Doing(a) => at[a] # Idle
  BY <1>3, <1>4
<1>. QED  BY <1>1, <1>2, <1>4, <1>5, <1>6

\* A call step keeps what was told and relayed.
LEMMA TransfersKept ==
  ASSUME FormsRight, IdsRight, TransfersRight, NEW a \in Actors, NEW s, CallStep(a, s)
  PROVE  TransfersRight'
<1>1. \A op \in 1..MaxOps : ToldRight(op)'
  <2>. TAKE op \in 1..MaxOps
  <2>1. CASE op = Doing(a)
    BY <2>1 DEF CallStep, CallsMove
  <2>2. CASE op # Doing(a)
    <3>1. calls'[op] = calls[op]
      BY <2>2, AskedStays
    <3>2. Accepted(op, "bridge")' = Accepted(op, "bridge")
      <4>1. \A tx \in fast'.txs : tx \in fast.txs \/ tx.op = Doing(a)
        <5>1. \A tx \in fast'.txs : tx \in fast.txs \/ (at[a] # Idle /\ tx.op = at[a].id)
          BY DEF CallStep, Spends
        <5>. QED  BY <5>1, StepForms
      <4>. QED  BY <2>2, <4>1, StepForms DEF Accepted
    <3>3. Relayed(op) # {} => Relayed(op)' # {}
      BY EvmForms DEF Relayed
    <3>. QED  BY <3>1, <3>2, <3>3 DEF TransfersRight, ToldRight, Bridges
  <2>. QED  BY <2>1, <2>2
<1>2. ASSUME NEW x \in evm.relayed
      PROVE  RelayRight(x)'
  <2>1. x.op \in 1..ops
    BY DEF IdsRight
  <2>2. calls'[x.op].asked = calls[x.op].asked
    BY <2>1, AskedStays
  <2>3. Asked(x.op)' = Asked(x.op)
    BY <2>2 DEF Asked
  <2>4. Tag(x.op)' = Tag(x.op)
    BY <2>3 DEF Tag
  <2>5. TransferMade(x.op, x.amount) => TransferMade(x.op, x.amount)'
    BY <2>4, StepForms DEF TransferMade, Accepted
  <2>6. RelayRight(x)
    BY DEF TransfersRight
  <2>. QED  BY <2>2, <2>3, <2>5, <2>6 DEF RelayRight
<1>3. \A x \in evm'.relayed : RelayRight(x)'
  BY <1>2, EvmForms
<1>. QED  BY <1>1, <1>3 DEF TransfersRight

\* A call step keeps the paid requests.
LEMMA JobsKept ==
  ASSUME FormsRight, IdsRight, CallsRight, JobsRight, NEW a \in Actors, NEW s, CallStep(a, s)
  PROVE  JobsRight'
<1>1. ASSUME NEW i \in 1..MaxOps, jobs'[i] = jobs[i]
      PROVE  JobRight(i)'
  <2>1. JobRight(i)
    BY DEF JobsRight
  <2>2. jobs[i].step # "none" => calls'[i].asked = calls[i].asked
    <3>1. calls[i] = NoCall => calls[i].asked.kind = "none"
      BY DEF NoCall
    <3>. QED  BY <2>1, <3>1, AskedStays DEF JobRight
  <2>3. Genuine(jobs[i].payload.body) => Genuine(jobs[i].payload.body)'
    BY <1>1, StepForms DEF Genuine
  <2>4. Transferred(i)' = Transferred(i)
    BY <1>1 DEF Transferred
  <2>5. Bought(i) => Bought(i)'
    BY <1>1, <2>4, StepForms, EvmForms DEF Bought
  <2>. QED  BY <1>1, <2>1, <2>2, <2>3, <2>5 DEF JobRight
<1>2. \A i \in 1..MaxOps : JobRight(i)'
  BY <1>1 DEF CallStep, JobsMove
<1>3. ReceiptsRight'
  BY EvmForms DEF JobsRight, ReceiptsRight
<1>4. WaitingRight'
  <2>. SUFFICES ASSUME NEW t \in evm'.waiting
                PROVE  \/ t.kind = "userop" /\ calls'[t.op].asked.kind = "smart"
                       \/ t.kind = "authorized" /\ calls'[t.op].asked.kind \in {"pay", "present"}
    BY DEF WaitingRight
  <2>1. CASE t \in evm.waiting
    <3>1. t.op \in 1..ops
      BY <2>1 DEF IdsRight
    <3>. QED  BY <2>1, <3>1, AskedStays DEF JobsRight, WaitingRight
  <2>2. CASE at[a] # Idle /\ at[a].pc = "submit" /\ t = Tx("userop", at[a].id, at[a].r.amount, at[a].key, "bridge")
    <3>1. t.kind = "userop" /\ t.op = at[a].id
      BY <2>2 DEF Tx
    <3>2. DepositRight(at[a]) /\ at[a].id \in 1..ops
      BY <2>2, BusyForms DEF CallsRight, CallRight, DepositPcs, IdsRight
    <3>3. calls[at[a].id].asked.kind = "smart"
      BY <2>2, <3>2 DEF DepositRight
    <3>. QED  BY <3>1, <3>2, <3>3, AskedStays
  <2>. QED  BY <2>1, <2>2, EvmForms
<1>. QED  BY <1>2, <1>3, <1>4 DEF JobsRight

-----------------------------------------------------------------------------
\* The reserve check, in native units.
LEMMA ReserveCovers ==
  ASSUME NEW balance \in Int, NEW amount \in Nat, NEW wei \in Nat,
         balance \div Scale >= amount + WeiToTokenUnits(wei)
  PROVE  balance >= amount * Scale + wei
<1>1. Scale \in Nat \ {0}
  BY ScaleAssumption
<1>. DEFINE u == balance \div Scale
            q == (wei + Scale - 1) \div Scale
<1>2. u \in Int /\ u * Scale <= balance
  BY <1>1
<1>3. q \in Int /\ wei <= q * Scale
  BY <1>1
<1>4. u >= amount + q
  BY DEF WeiToTokenUnits
<1>. HIDE DEF u, q
<1>5. u * Scale >= (amount + q) * Scale
  BY <1>1, <1>2, <1>3, <1>4
<1>6. (amount + q) * Scale = amount * Scale + q * Scale
  BY <1>1, <1>3
<1>7. u * Scale \in Int /\ q * Scale \in Int /\ amount * Scale \in Int
  BY <1>1, <1>2, <1>3
<1>. QED  BY <1>2, <1>3, <1>5, <1>6, <1>7

\* What mining one of the user's transactions costs.
LEMMA MiningCosts ==
  ASSUME FormsRight, evm.balance \in Int, NEW t, t.amount \in Nat, t.kind \in SendingPcs
  PROVE  /\ AfterMining(t).balance \in Int
         /\ t.kind = "approve" /\ Succeeds(t) =>
              AfterMining(t).balance = evm.balance - Fee /\ AfterMining(t).allowance = t.amount
<1>1. Fee \in Nat /\ Scale \in Nat \ {0} /\ t.amount * Scale \in Int
  BY FundsAssumption, ScaleAssumption DEF Fee
<1>2. IsEvm(evm)
  BY DEF FormsRight
<1>. DEFINE f == AfterFee(t)
<1>3. t.kind \notin {"authorized", "userop"}
  BY DEF SendingPcs
<1>4. f = [evm EXCEPT !.balance = IF Fee <= @ THEN @ - Fee ELSE 0, !.nonce = @ + 1]
  BY <1>3 DEF AfterFee
<1>5. f.balance = (IF Fee <= evm.balance THEN evm.balance - Fee ELSE 0) /\ f.balance \in Int
  BY <1>1, <1>2, <1>4 DEF IsEvm
<1>6. IsEvm(f)
  BY <1>2, <1>4 DEF IsEvm
<1>. HIDE DEF f
<1>7. CASE ~Succeeds(t)
  BY <1>5, <1>7 DEF AfterMining, f
<1>8. CASE Succeeds(t)
  <2>1. CASE t.kind = "approve"
    <3>1. AfterMining(t) = [f EXCEPT !.allowance = t.amount]
      BY <1>8, <2>1 DEF AfterMining, f
    <3>2. evm.balance >= Fee
      BY <1>8, <2>1 DEF Succeeds
    <3>. QED  BY <1>1, <1>5, <1>6, <3>1, <3>2 DEF IsEvm
  <2>2. CASE t.kind = "deposit"
    <3>1. AfterMining(t) = [f EXCEPT !.balance = @ - t.amount * Scale, !.allowance = @ - t.amount,
                                     !.deposited = Append(@, t.op)]
      BY <1>8, <2>2 DEF AfterMining, f
    <3>. QED  BY <1>1, <1>5, <1>6, <2>2, <3>1 DEF IsEvm
  <2>3. CASE t.kind = "native"
    <3>1. AfterMining(t) = [f EXCEPT !.balance = @ - t.amount * Scale, !.deposited = Append(@, t.op)]
      BY <1>8, <2>3 DEF AfterMining, f
    <3>. QED  BY <1>1, <1>5, <1>6, <2>3, <3>1 DEF IsEvm
  <2>. QED  BY <2>1, <2>2, <2>3 DEF SendingPcs
<1>. QED  BY <1>7, <1>8

\* A deposit that has the chain to itself finds what the reserve check saw.
LEMMA ReadyKept ==
  ASSUME FormsRight, IdsRight, CallsRight, DepositsRight, GasToken, evm.balance \in Int,
         NEW a \in Actors, NEW s, CallStep(a, s), at[a] # Idle,
         Undisturbed(at[a].id)
  PROVE  /\ s # Idle => Ready(s)'
         /\ calls'[at[a].id].result # "reverted"
<1>. DEFINE c == at[a]
<1>1. Busy(a) /\ c.id \in 1..MaxOps /\ CallRight(c) /\ c.id = Doing(a)
  BY BusyForms, StepForms DEF CallsRight
<1>2. Ready(c) /\ calls[c.id].result # "reverted" /\ calls[c.id].asked.kind = "deposit"
  BY <1>1 DEF DepositsRight, Undisturbed
<1>3. c.pc \in {"reserve", "approve", "deposit"} => c.r.kind = "deposit" /\ c.r.amount \in Nat
  BY <1>1, <1>2 DEF CallRight, DepositRight, DepositPcs
<1>4. c.pc # "native"
  <2>1. c.pc = "native" => c.r.kind = "native" /\ c.r.kind = "deposit"
    BY <1>1, <1>2 DEF CallRight, DepositRight, DepositPcs
  <2>. QED  BY <2>1
<1>5. Scale \in Nat \ {0} /\ FeeWei \in Nat /\ Fee = FeeWei
  BY FundsAssumption, ScaleAssumption DEF Fee
<1>6. Sent(c).kind = c.pc /\ Sent(c).amount = c.r.amount
  BY DEF Sent, Tx
<1>. DEFINE m == c.r.amount * Scale
<1>7. c.pc \in {"reserve", "approve", "deposit"} => m \in Int
  BY <1>3, <1>5
<1>. HIDE DEF m
<1>8. c.pc = "approve" => Succeeds(Sent(c))
  <2>. SUFFICES ASSUME c.pc = "approve"
                PROVE  evm.balance >= Fee
    BY <1>6 DEF Succeeds
  <2>1. evm.balance >= m + 2 * FeeWei
    BY <1>2 DEF Ready, m
  <2>2. m >= 0
    BY <1>3, <1>5 DEF m
  <2>. QED  BY <1>5, <1>7, <2>1, <2>2
<1>9. c.pc = "deposit" => Succeeds(Sent(c))
  <2>. SUFFICES ASSUME c.pc = "deposit"
                PROVE  evm.balance >= m + Fee /\ evm.allowance >= c.r.amount
    BY <1>6 DEF Succeeds, m
  <2>. QED  BY <1>2, <1>3, <1>5 DEF Ready, m
<1>10. calls'[c.id].result # "reverted"
  BY <1>1, <1>2, <1>4, <1>8, <1>9 DEF CallStep, DepositMoves, SendingPcs
<1>11. ASSUME s # Idle, s.pc = "approve"
       PROVE  Ready(s)'
  <2>1. c.pc = "reserve" /\ s.r = c.r /\ evm' = evm /\ BalanceOf >= c.r.amount + Reserve
    BY <1>11 DEF CallStep, DepositMoves
  <2>2. EstimateGasReserve \in Nat /\ EstimateGasReserve >= 2 * FeeWei
    BY <1>5 DEF EstimateGasReserve, Multiplier
  <2>3. evm.balance >= c.r.amount * Scale + EstimateGasReserve
    BY <1>3, <2>1, <2>2, ReserveCovers DEF BalanceOf, Reserve
  <2>4. evm.balance >= m + 2 * FeeWei
    BY <1>5, <1>7, <2>1, <2>2, <2>3 DEF m
  <2>. QED  BY <1>11, <2>1, <2>4 DEF Ready, m
<1>12. ASSUME s # Idle, s.pc = "deposit"
       PROVE  Ready(s)'
  <2>1. c.pc = "approve" /\ s.r = c.r /\ evm' = AfterMining(Sent(c)) /\ Succeeds(Sent(c))
    BY <1>12 DEF CallStep, DepositMoves
  <2>2. evm'.balance = evm.balance - Fee /\ evm'.allowance = c.r.amount
    BY <1>3, <1>6, <2>1, MiningCosts DEF SendingPcs
  <2>3. evm.balance >= m + 2 * FeeWei
    BY <1>2, <2>1 DEF Ready, m
  <2>4. evm'.balance >= m + FeeWei
    BY <1>5, <1>7, <2>1, <2>2, <2>3
  <2>. QED  BY <1>12, <2>1, <2>2, <2>4 DEF Ready, m
<1>13. s.pc \notin {"approve", "deposit"} => Ready(s)'
  BY DEF Ready
<1>. QED  BY <1>10, <1>11, <1>12, <1>13

\* A call step keeps what deposits rely on.
LEMMA DepositsKept ==
  ASSUME FormsRight, IdsRight, CallsRight, DepositsRight, NEW a \in Actors, NEW s, CallStep(a, s), IdsRight'
  PROVE  DepositsRight'
<1>. DEFINE c == at[a]
<1>1. NoCall.asked.kind = "none" /\ NoCall.result = "none"
  BY DEF NoCall
<1>2. Calm' => Calm
  BY <1>1, AskedStays DEF Calm
<1>3. c # Idle => /\ Busy(a) /\ CallRight(c) /\ c.id = Doing(a)
                  /\ c.id \in 1..MaxOps /\ calls'[c.id].asked = calls[c.id].asked
  <2>1. c # Idle => Busy(a) /\ CallRight(c) /\ c.id = Doing(a) /\ c.id \in 1..ops
    BY BusyForms, StepForms DEF CallsRight, IdsRight
  <2>. QED  BY <2>1, AskedStays
<1>4. c # Idle /\ c.pc \in DepositPcs =>
        /\ c.r.amount \in Nat
        /\ calls[c.id].asked.kind \in {"native", "deposit", "smart"}
        /\ c.pc \in {"approve", "deposit"} => calls[c.id].asked.kind = "deposit"
        /\ c.pc = "submit" => calls[c.id].asked.kind = "smart"
  BY <1>3 DEF CallRight, DepositRight, DepositPcs
<1>5. \/ UNCHANGED evm
      \/ \E x : evm' = [evm EXCEPT !.relayed = @ \cup {x}]
      \/ c # Idle /\ c.pc \in DepositPcs /\ evm' = [evm EXCEPT !.waiting = evm'.waiting]
      \/ c # Idle /\ c.pc \in SendingPcs /\ evm' = AfterMining(Sent(c))
  BY EvmForms DEF CallStep, EvmMoves, DepositPcs, FormsRight, IsEvm
<1>6. Calm' => evm'.balance \in Int
  <2>. SUFFICES ASSUME Calm'
                PROVE  evm'.balance \in Int
    OBVIOUS
  <2>1. evm.balance \in Int
    BY <1>2 DEF DepositsRight
  <2>2. CASE c # Idle /\ c.pc \in SendingPcs /\ evm' = AfterMining(Sent(c))
    <3>1. Sent(c).amount \in Nat /\ Sent(c).kind \in SendingPcs
      BY <1>4, <2>2 DEF Sent, Tx, SendingPcs, DepositPcs
    <3>. QED  BY <2>1, <2>2, <3>1, MiningCosts
  <2>. QED  BY <1>5, <2>1, <2>2 DEF FormsRight, IsEvm
<1>7. ASSUME GasToken, NEW op \in 1..MaxOps, Undisturbed(op)'
      PROVE  /\ calls'[op].result # "reverted"
             /\ \A b \in Actors : Busy(b)' /\ at'[b].id = op => Ready(at[b])'
  <2>1. Calm'
    BY <1>7 DEF Undisturbed, Calm
  <2>2. evm.balance \in Int
    BY <1>2, <2>1 DEF DepositsRight
  <2>3. CASE op # Doing(a)
    <3>1. calls'[op] = calls[op]
      BY <2>3, AskedStays
    <3>2. Undisturbed(op)
      BY <1>1, <1>7, <3>1, AskedStays DEF Undisturbed
    <3>3. c # Idle => calls[c.id].asked.kind \in {"none", "intent"}
      BY <1>3, <1>7, <2>3 DEF Undisturbed
    <3>4. evm'.balance = evm.balance /\ evm'.allowance = evm.allowance
      BY <1>4, <1>5, <3>3 DEF FormsRight, IsEvm, DepositPcs, SendingPcs
    <3>5. ASSUME NEW b \in Actors, Busy(b)', at'[b].id = op
          PROVE  Ready(at[b])'
      <4>1. b # a
        BY <2>3, <3>5, StepForms, BusyForms DEF Busy
      <4>2. at'[b] = at[b] /\ Busy(b)
        BY <3>5, <4>1, StepForms DEF Busy
      <4>3. Ready(at[b])
        BY <1>7, <3>2, <3>5, <4>2 DEF DepositsRight
      <4>. QED  BY <3>4, <4>2, <4>3 DEF Ready
    <3>6. calls[op].result # "reverted"
      BY <1>7, <3>2 DEF DepositsRight
    <3>. QED  BY <3>1, <3>5, <3>6
  <2>4. CASE op = Doing(a)
    <3>1. ASSUME NEW b \in Actors, Busy(b)', at'[b].id = op
          PROVE  b = a /\ s # Idle /\ at'[b] = s
      <4>1. b = a
        BY <2>4, <3>1, StepForms DEF Busy
      <4>. QED  BY <3>1, <4>1, StepForms, BusyForms DEF Busy
    <3>2. CASE c = Idle
      <4>1. calls[op] = NoCall
        BY <2>4, <3>2, StepForms
      <4>2. calls'[op].result # "reverted"
        BY <1>1, <2>4, <3>2, <4>1 DEF CallStep, DepositMoves
      <4>3. s # Idle => s.pc \notin {"approve", "deposit"}
        BY <3>2 DEF CallStep, DepositMoves
      <4>. QED  BY <3>1, <4>2, <4>3 DEF Ready
    <3>3. CASE c # Idle
      <4>1. Undisturbed(c.id)
        BY <1>1, <1>3, <1>7, <2>4, <3>3, AskedStays DEF Undisturbed
      <4>2. (s # Idle => Ready(s)') /\ calls'[op].result # "reverted"
        BY <1>3, <1>7, <2>2, <2>4, <3>3, <4>1, ReadyKept
      <4>. QED  BY <3>1, <4>2
    <3>. QED  BY <3>2, <3>3
  <2>. QED  BY <2>3, <2>4
<1>. QED  BY <1>6, <1>7 DEF DepositsRight

\* Whatever a call does, if it is a step of the kind above, keeps the invariant.
LEMMA CallStepKeeps ==
  ASSUME PaymentsRight, NEW a \in Actors, NEW s, CallStep(a, s)
  PROVE  PaymentsRight'
BY FormsKept, IdsKept, CallsKept, PaysOnceKept, TransfersKept, JobsKept, DepositsKept DEF PaymentsRight

-----------------------------------------------------------------------------
(* Claims. What executeIntent prepares without an error it can write once    *)
(* the id of the transfer is known, and what cross-sign reads of it is what  *)
(* was asked for.                                                           *)
PlainRequest(r) ==
  /\ r.encoding \in {"legacy", "v1"} /\ r.intents \in Seq(Intents)
  /\ r.chain \in Int /\ r.bridge \in Words /\ r.seconds \in Int /\ r.display \in Words
Lifted(intents) == [i \in DOMAIN intents |-> IntentToWire([intents[i] EXCEPT !.action = V1Name[@]])]
Document(r, id) == Claim(Lifted(r.intents), r.chain, r.bridge, r.seconds, r.display, id)

\* The names of the actions.
LEMMA ActionNames ==
  /\ DOMAIN V1Name = {"DynamicTransfer", "Execute", "DynamicDeposit", "Revoke"}
  /\ Range(V1Name) \subseteq Words
  /\ \A x \in DOMAIN V1Name : V1Name[x] \in Range(V1Name) /\ LegacyName(V1Name[x]) = x
<1>1. DOMAIN V1Name = {"DynamicTransfer", "Execute", "DynamicDeposit", "Revoke"}
  BY DEF V1Name
<1>0. /\ V1Name["DynamicTransfer"] = "transfer" /\ V1Name["Execute"] = "execute"
      /\ V1Name["DynamicDeposit"] = "deposit_back" /\ V1Name["Revoke"] = "revoke"
  BY DEF V1Name
<1>2. \A x \in DOMAIN V1Name : V1Name[x] \in Words
  BY <1>0, <1>1 DEF Words
<1>3. \A x, y \in DOMAIN V1Name : V1Name[x] = V1Name[y] => x = y
  <2>. QED  BY <1>0, <1>1
<1>4. ASSUME NEW x \in DOMAIN V1Name
      PROVE  LegacyName(V1Name[x]) = x
  <2>1. \E l \in DOMAIN V1Name : V1Name[l] = V1Name[x]
    OBVIOUS
  <2>2. LegacyName(V1Name[x]) \in DOMAIN V1Name /\ V1Name[LegacyName(V1Name[x])] = V1Name[x]
    BY <2>1 DEF LegacyName
  <2>. QED  BY <1>3, <2>2
<1>. QED  BY <1>1, <1>2, <1>4 DEF Range

\* What a list of intents becomes in a document.
LEMMA LiftedForms ==
  ASSUME NEW intents \in Seq(Intents), \A i \in DOMAIN intents : Liftable(intents[i])
  PROVE  /\ Lifted(intents) \in Seq(WireIntents) /\ Len(Lifted(intents)) = Len(intents)
         /\ \A i \in DOMAIN intents :
              /\ intents[i] \in Intents /\ intents[i].action \in DOMAIN V1Name
              /\ intents[i].payload = "exact"
              /\ Lifted(intents)[i] = [action |-> V1Name[intents[i].action], a |-> intents[i].a,
                                       b |-> intents[i].b, value |-> intents[i].value]
<1>1. \A i \in DOMAIN intents : intents[i] \in Intents /\ intents[i].action \in DOMAIN V1Name /\ intents[i].payload = "exact"
  BY DEF Liftable
<1>2. ASSUME NEW i \in DOMAIN intents
      PROVE  /\ Lifted(intents)[i] = [action |-> V1Name[intents[i].action], a |-> intents[i].a,
                                       b |-> intents[i].b, value |-> intents[i].value]
             /\ Lifted(intents)[i] \in WireIntents
  <2>1. V1Name[intents[i].action] \in Words
    BY <1>1, ActionNames
  <2>2. Lifted(intents)[i] = [action |-> V1Name[intents[i].action], a |-> intents[i].a,
                              b |-> intents[i].b, value |-> intents[i].value]
    BY <1>1 DEF Lifted, IntentToWire, Intents
  <2>. QED  BY <1>1, <2>1, <2>2 DEF Intents, WireIntents
<1>3. DOMAIN Lifted(intents) = 1..Len(intents) /\ DOMAIN intents = 1..Len(intents) /\ Len(intents) \in Nat
  BY DEF Lifted
<1>4. Lifted(intents) \in [1..Len(intents) -> WireIntents]
  BY <1>2, <1>3 DEF Lifted
<1>5. Lifted(intents) \in Seq(WireIntents)
  BY <1>3, <1>4
<1>. QED  BY <1>1, <1>2, <1>3, <1>5

\* A document that was prepared can be finished, and is the one buildClaimBytes writes.
LEMMA PreparedDocument ==
  ASSUME NEW r, PlainRequest(r), r.encoding = "v1", ~Refused(Prepared(r)), NEW id \in Int
  PROVE  /\ \A i \in DOMAIN r.intents : Liftable(r.intents[i])
         /\ Prepared(r).userData = TransferUserDataTag(r.chain)
         /\ r.chain \in 0..MaxChain
         /\ ValidClaim(Document(r, id)) /\ DocumentSize(Document(r, id)) <= MaxBytes
         /\ ClaimBytes(r, id) = CanonicalJson(Document(r, id))
         /\ BuildClaimBytes(r, id, r.seconds) = CanonicalJson(Document(r, id))
<1>. DEFINE lifted == IntentsToV1(r.intents)
            full == Claim(lifted, r.chain, r.bridge, 0 + r.seconds, r.display, "placeholder")
<1>1. ~Refused(PrepareIntentClaimV1(r, 0))
  BY DEF Prepared
<1>2. /\ r.chain # NoChain /\ r.bridge # "none" /\ ~Refused(lifted) /\ ~Refused(EncodeIntentClaimV1(full))
      /\ PrepareIntentClaimV1(r, 0) = [claim |-> full, userData |-> TransferUserDataTag(r.chain)]
  BY <1>1 DEF PrepareIntentClaimV1, Refused
<1>3. (\A i \in DOMAIN r.intents : Liftable(r.intents[i])) /\ lifted = Lifted(r.intents)
  BY <1>2 DEF IntentsToV1, Refused, Lifted
<1>. HIDE DEF lifted
<1>4. 0 + r.seconds = r.seconds
  BY DEF PlainRequest
<1>5. full = Document(r, "placeholder")
  BY <1>3, <1>4 DEF Document
<1>. HIDE DEF full
<1>6. ValidClaim(full) /\ DocumentSize(full) <= MaxBytes
  BY <1>2 DEF EncodeIntentClaimV1, Refused
<1>7. [full EXCEPT !.transferTx = id] = Document(r, id)
  BY <1>5 DEF Document, Claim
<1>8. ValidClaim(Document(r, id)) /\ DocumentSize(Document(r, id)) <= MaxBytes
  BY <1>5, <1>6 DEF Document, Claim, ValidClaim, DocumentSize
<1>9. EncodeIntentClaimV1(Document(r, id)) = CanonicalJson(Document(r, id))
  BY <1>8 DEF EncodeIntentClaimV1
<1>10. ClaimBytes(r, id) = EncodeIntentClaimV1(Document(r, id))
  BY <1>2, <1>7 DEF ClaimBytes, FinishIntentClaimV1, Prepared
<1>11. BuildClaimBytes(r, id, r.seconds) = EncodeIntentClaimV1(Document(r, id))
  BY <1>2, <1>3 DEF BuildClaimBytes, Document, lifted
<1>12. r.chain \in 0..MaxChain
  BY <1>8 DEF Document, Claim, ValidClaim
<1>13. Prepared(r).userData = TransferUserDataTag(r.chain)
  BY <1>2 DEF Prepared
<1>. QED  BY <1>3, <1>8, <1>9, <1>10, <1>11, <1>12, <1>13

\* What is read of a document is what was written.
LEMMA DocumentReadBack ==
  ASSUME NEW r, PlainRequest(r), NEW id \in Int, \A i \in DOMAIN r.intents : Liftable(r.intents[i]),
         ValidClaim(Document(r, id)), DocumentSize(Document(r, id)) <= MaxBytes
  PROVE  /\ ~Refused(CanonicalJson(Document(r, id)))
         /\ AbiClaim(CanonicalJson(Document(r, id))) =
              [transfer |-> id, deadline |-> r.seconds, intents |-> r.intents]
<1>. DEFINE c == Document(r, id)
            doc == CanonicalJson(c)
            wire == Lifted(r.intents)
<1>1. /\ wire \in Seq(WireIntents) /\ Len(wire) = Len(r.intents) /\ r.intents \in Seq(Intents)
      /\ \A i \in DOMAIN r.intents :
              /\ r.intents[i] \in Intents /\ r.intents[i].action \in DOMAIN V1Name
              /\ r.intents[i].payload = "exact"
              /\ wire[i] = [action |-> V1Name[r.intents[i].action], a |-> r.intents[i].a,
                            b |-> r.intents[i].b, value |-> r.intents[i].value]
  BY LiftedForms DEF PlainRequest
<1>2. DOMAIN wire = 1..Len(wire) /\ DOMAIN r.intents = 1..Len(wire)
  BY <1>1
<1>. HIDE DEF wire
<1>3. c = [schema |-> "allset/intent/v1", kind |-> DerivedKind(wire), chain |-> r.chain,
           bridge |-> r.bridge, transferTx |-> id, deadline |-> r.seconds, intents |-> wire,
           display |-> r.display]
  BY DEF Document, Claim, wire
<1>4. [i \in DOMAIN c.intents |-> IntentToWire(c.intents[i])] = wire
  <2>1. ASSUME NEW i \in DOMAIN wire
        PROVE  IntentToWire(wire[i]) = wire[i]
    <3>1. wire[i] \in WireIntents
      BY <1>1, <1>2
    <3>. QED  BY <3>1 DEF IntentToWire, WireIntents
  <2>2. c.intents = wire
    BY <1>3
  <2>3. wire = [i \in DOMAIN wire |-> wire[i]]
    BY <1>1
  <2>. QED  BY <2>1, <2>2, <2>3
<1>5. doc = [schema |-> "allset/intent/v1", kind |-> DerivedKind(wire), chain |-> r.chain,
             bridge |-> r.bridge, transferTx |-> id, deadline |-> r.seconds, intents |-> wire,
             display |-> r.display, canonical |-> TRUE, extra |-> {}]
  <2>. DEFINE intents == [i \in DOMAIN c.intents |-> IntentToWire(c.intents[i])]
  <2>. HIDE DEF intents
  <2>1. doc = [schema |-> c.schema, kind |-> c.kind, chain |-> c.chain, bridge |-> c.bridge,
               transferTx |-> c.transferTx, deadline |-> c.deadline, intents |-> intents,
               display |-> c.display, canonical |-> TRUE, extra |-> {}]
    BY DEF CanonicalJson, intents
  <2>2. intents = wire
    BY <1>4 DEF intents
  <2>. QED  BY <1>3, <2>1, <2>2
<1>6. DerivedKind(wire) \in Words
  <2>1. c.intents # <<>>
    BY DEF ValidClaim
  <2>2. wire # <<>>
    BY <1>3, <2>1
  <2>3. wire[1] \in WireIntents
    BY <1>1, <2>2
  <2>4. wire[1].action \in Words
    BY <2>3 DEF WireIntents
  <2>5. "batch" \in Words /\ "withdraw" \in Words
    BY DEF Words
  <2>. QED  BY <2>4, <2>5 DEF DerivedKind
<1>7. doc \in V1Documents
  <2>1. r.chain \in Int /\ r.bridge \in Words /\ r.seconds \in Int /\ r.display \in Words
    BY DEF PlainRequest
  <2>2. "allset/intent/v1" \in Words
    BY DEF Words
  <2>. QED  BY <1>1, <1>5, <1>6, <2>1, <2>2 DEF V1Documents
<1>8. ~Refused(doc)
  BY <1>7, RefusalAssumption DEF Refused
<1>9. "schema" \in DOMAIN doc /\ doc.schema = "allset/intent/v1" /\ doc.extra = {} /\ doc.canonical
  BY <1>5
<1>. HIDE DEF c
<1>10. ValidClaim(doc) /\ DocumentSize(doc) <= MaxBytes
  <2>1. ValidClaim(c) /\ DocumentSize(c) <= MaxBytes
    BY DEF c
  <2>2. /\ doc.schema = c.schema /\ doc.kind = c.kind /\ doc.chain = c.chain /\ doc.bridge = c.bridge
        /\ doc.deadline = c.deadline /\ doc.intents = c.intents /\ doc.display = c.display
    BY <1>3, <1>5
  <2>. HIDE DEF doc
  <2>. QED  BY <2>1, <2>2 DEF ValidClaim, DocumentSize
<1>. HIDE DEF doc
<1>11. DecodeIntentClaimV1(doc) = c
  <2>. DEFINE read == [f \in DOMAIN doc \ {"canonical", "extra"} |->
                        IF f = "intents" THEN [i \in DOMAIN doc.intents |-> DecodeWireIntent(doc.intents[i])]
                        ELSE doc[f]]
  <2>1. DecodeIntentClaimV1(doc) = read
    BY <1>9, <1>10 DEF DecodeIntentClaimV1
  <2>2. DOMAIN doc \ {"canonical", "extra"} =
          {"schema", "kind", "chain", "bridge", "transferTx", "deadline", "intents", "display"}
    BY <1>5
  <2>3. [i \in DOMAIN doc.intents |-> DecodeWireIntent(doc.intents[i])] = wire
    <3>1. doc.intents = wire /\ wire = [i \in DOMAIN wire |-> wire[i]]
      BY <1>1, <1>5
    <3>. QED  BY <3>1 DEF DecodeWireIntent
  <2>4. read = [schema |-> "allset/intent/v1", kind |-> DerivedKind(wire), chain |-> r.chain,
           bridge |-> r.bridge, transferTx |-> id, deadline |-> r.seconds, intents |-> wire,
           display |-> r.display]
    BY <1>5, <2>2, <2>3
  <2>. QED  BY <1>3, <2>1, <2>4
<1>12. c \in V1Claims /\ ~Refused(c)
  <2>1. r.chain \in Int /\ r.bridge \in Words /\ r.seconds \in Int /\ r.display \in Words
    BY DEF PlainRequest
  <2>2. c \in V1Claims
    <3>1. "allset/intent/v1" \in Words
      BY DEF Words
    <3>. QED  BY <1>1, <1>3, <1>6, <2>1, <3>1 DEF V1Claims
  <2>. QED  BY <2>2, RefusalAssumption DEF Refused
<1>13. [i \in DOMAIN c.intents |-> IntentV1ToLegacy(c.intents[i])] = r.intents
  <2>1. c.intents = wire /\ r.intents = [i \in 1..Len(wire) |-> r.intents[i]]
    BY <1>1, <1>2, <1>3
  <2>2. ASSUME NEW i \in 1..Len(wire)
        PROVE  IntentV1ToLegacy(wire[i]) = r.intents[i]
    <3>1. /\ r.intents[i] \in Intents /\ r.intents[i].action \in DOMAIN V1Name
          /\ r.intents[i].payload = "exact"
          /\ wire[i] = [action |-> V1Name[r.intents[i].action], a |-> r.intents[i].a,
                        b |-> r.intents[i].b, value |-> r.intents[i].value]
      BY <1>1, <1>2
    <3>2. LegacyName(V1Name[r.intents[i].action]) = r.intents[i].action
      BY <3>1, ActionNames
    <3>3. IntentV1ToLegacy(wire[i]) = Intent(r.intents[i].action, r.intents[i].a, r.intents[i].b,
                                             r.intents[i].value, "exact")
      BY <3>1, <3>2 DEF IntentV1ToLegacy
    <3>. QED  BY <3>1, <3>3 DEF Intent, Intents
  <2>. QED  BY <1>2, <2>1, <2>2
<1>14. ValidClaim(c)
  BY DEF c
<1>15. \A i \in DOMAIN r.intents : r.intents[i].value \in 0..MaxUint
  <2>. TAKE i \in DOMAIN r.intents
  <2>1. wire[i] = [action |-> V1Name[r.intents[i].action], a |-> r.intents[i].a,
                   b |-> r.intents[i].b, value |-> r.intents[i].value]
    BY <1>1
  <2>2. wire[i].value = r.intents[i].value
    BY <2>1
  <2>3. c.intents = wire /\ i \in DOMAIN wire
    BY <1>2, <1>3
  <2>. QED  BY <1>14, <2>2, <2>3 DEF ValidClaim
<1>16. c.transferTx = id /\ c.deadline = r.seconds
  BY <1>3
<1>17. IntentClaimV1ToAbi(c) = [transfer |-> id, deadline |-> r.seconds, intents |-> r.intents]
  BY <1>13, <1>14, <1>15, <1>16 DEF IntentClaimV1ToAbi, EncodeIntentClaim
<1>. QED  BY <1>8, <1>9, <1>11, <1>12, <1>17 DEF AbiClaim, c, doc

\* Both encodings say what was asked for, with the id of the transfer.
LEMMA ClaimWritten ==
  ASSUME NEW r, PlainRequest(r), ~Refused(Prepared(r)), NEW id \in Int
  PROVE  /\ ~Refused(ClaimBytes(r, id))
         /\ ClaimBytes(r, id) = BuildClaimBytes(r, id, r.seconds)
         /\ AbiClaim(ClaimBytes(r, id)).transfer = id
         /\ AbiClaim(ClaimBytes(r, id)).intents = r.intents
         /\ ReadTransferUserDataTag(IF r.encoding = "v1" THEN Prepared(r).userData ELSE NoUserData)
              = IF r.encoding = "v1" THEN r.chain ELSE NoChain
<1>1. CASE r.encoding = "v1"
  <2>1. ReadTransferUserDataTag(TransferUserDataTag(r.chain)) = r.chain
    <3>1. r.chain \in 0..MaxChain
      BY <1>1, PreparedDocument
    <3>. QED  BY <3>1 DEF ReadTransferUserDataTag, TransferUserDataTag
  <2>2. AbiClaim(ClaimBytes(r, id)) = [transfer |-> id, deadline |-> r.seconds, intents |-> r.intents]
        /\ ~Refused(ClaimBytes(r, id))
    BY <1>1, PreparedDocument, DocumentReadBack
  <2>. QED  BY <1>1, <2>1, <2>2, PreparedDocument
<1>2. CASE r.encoding # "v1"
  <2>1. r.encoding = "legacy"
    BY <1>2 DEF PlainRequest
  <2>2. \A i \in DOMAIN r.intents : r.intents[i].value \in 0..MaxUint
    BY <1>2 DEF Prepared, EncodeIntentClaim, Refused
  <2>3. ClaimBytes(r, id) = [transfer |-> id, deadline |-> r.seconds, intents |-> r.intents]
    BY <1>2, <2>2 DEF ClaimBytes, EncodeIntentClaim
  <2>4. ClaimBytes(r, id) \in AbiClaims
    BY <2>3 DEF AbiClaims, PlainRequest
  <2>5. AbiClaim(ClaimBytes(r, id)) = ClaimBytes(r, id)
    BY <2>3 DEF AbiClaim
  <2>6. ReadTransferUserDataTag(NoUserData) = NoChain
    BY DEF ReadTransferUserDataTag, NoUserData
  <2>. QED  BY <1>2, <2>1, <2>2, <2>3, <2>4, <2>5, <2>6, RefusalAssumption
            DEF BuildClaimBytes, EncodeIntentClaim, Refused
<1>. QED  BY <1>1, <1>2

\* The lists of intents that callers give.
LEMMA IntentForms ==
  /\ Withdrawal \in Seq(Intents)
  /\ \A e \in DOMAIN IntentLists : e \in {"legacy", "v1"} /\ IntentLists[e] \subseteq Seq(Intents)
<1>1. BuildTransferIntent("usdc", "alice") \in Intents /\ BuildExecuteIntent("vault", "call", 1) \in Intents
      /\ BuildDepositBackIntent("usdc", "fastAlice") \in Intents /\ BuildRevokeIntent \in Intents
      /\ Intent("DynamicTransfer", "usdc", "alice", 0, "padded") \in Intents
  BY DEF BuildTransferIntent, BuildExecuteIntent, BuildDepositBackIntent, BuildRevokeIntent, Intent, Intents, Words
<1>2. Withdrawal \in Seq(Intents)
  BY <1>1 DEF Withdrawal
<1>3. /\ <<>> \in Seq(Intents)
      /\ <<BuildExecuteIntent("vault", "call", 1), BuildDepositBackIntent("usdc", "fastAlice")>> \in Seq(Intents)
      /\ Append(Withdrawal, BuildRevokeIntent) \in Seq(Intents)
      /\ Withdrawal \o Withdrawal \o Withdrawal \in Seq(Intents)
      /\ <<Intent("DynamicTransfer", "usdc", "alice", 0, "padded")>> \in Seq(Intents)
  BY <1>1, <1>2
<1>4. DOMAIN IntentLists = {"legacy", "v1"}
  BY DEF IntentLists
<1>5. IntentLists["legacy"] \subseteq Seq(Intents)
  BY <1>2, <1>3 DEF IntentLists
<1>6. IntentLists["v1"] \subseteq Seq(Intents)
  BY <1>3 DEF IntentLists
<1>. QED  BY <1>2, <1>4, <1>5, <1>6

\* What a call asked for is a request that a claim can be written for.
LEMMA AskedForms ==
  ASSUME FormsRight, NEW op \in 1..MaxOps
  PROVE  /\ PlainRequest(Asked(op)) /\ Asked(op).seconds = 1 /\ Asked(op).kind = "intent"
         /\ Asked(op).encoding = calls[op].asked.encoding
         /\ Asked(op) = IntentRequest(Asked(op).encoding, Asked(op).intents)
         /\ TransferId(op) \in Int
<1>1. calls[op] \in Results
  BY DEF FormsRight
<1>2. calls[op].asked \in Requests
  BY <1>1 DEF Results
<1>3. calls[op].asked.encoding \in {"legacy", "v1"} /\ calls[op].asked.intents \in Seq(Intents)
  BY <1>2 DEF Requests
<1>4. Withdrawal \in Seq(Intents)
  BY IntentForms
<1>. DEFINE asked == calls[op].asked
            intents == IF asked.kind = "pay" THEN Withdrawal ELSE asked.intents
<1>5. intents \in Seq(Intents)
  BY <1>3, <1>4
<1>6. Asked(op) = IntentRequest(asked.encoding, intents)
  BY DEF Asked
<1>. HIDE DEF intents
<1>. QED  BY <1>3, <1>5, <1>6 DEF IntentRequest, PlainRequest, TransferId, Words

-----------------------------------------------------------------------------
\* A call that goes on, and keeps what it has told so far.
LEMMA GoesOn ==
  ASSUME PaymentsRight, NEW a \in Actors, at[a] # Idle, NEW s,
         at' = [at EXCEPT ![a] = s], ops' = ops, calls' = calls,
         s = Idle \/ (IsCall(s) /\ s.id = at[a].id /\ Follows(at[a], s) /\ CallRight(s)'),
         Spends(at[a], s), JobsMove(a), EvmMoves(at[a], s), DepositMoves(a, s)
  PROVE  CallStep(a, s)
<1>. DEFINE c == at[a]
<1>1. Busy(a) /\ CallRight(c) /\ c.id \in 1..MaxOps /\ Doing(a) = c.id
  BY BusyForms, ActivityBounds DEF PaymentsRight, CallsRight, IdsRight, FormsRight, Doing
<1>2. ToldRight(c.id)
  BY <1>1 DEF PaymentsRight, TransfersRight
<1>3. \A i \in 1..MaxOps : i = c.id => ToldRight(i)'
  <2>. SUFFICES ASSUME NEW i \in 1..MaxOps, i = c.id, Bridges(i)
                PROVE  /\ calls[i].bridge = "error" => Accepted(i, "bridge")' = {}
                       /\ calls[i].bridge = "success" => Relayed(i)' # {}
                       /\ calls[i].bridge # "unencodable"
    BY DEF ToldRight, Bridges
  <2>1. calls[i].bridge = "error" => Accepted(i, "bridge")' = {}
    <3>1. ASSUME calls[i].bridge = "error", NEW tx \in fast'.txs \ fast.txs
          PROVE  tx.kind # "bridge"
      <4>1. tx.kind \in TxKinds /\ c.pc \in Before(tx.kind)
        BY <3>1 DEF Spends
      <4>2. c.pc \in Before("bridge") => calls[c.id].bridge = "none"
        BY <1>1 DEF CallRight
      <4>. QED  BY <3>1, <4>1, <4>2
    <3>. QED  BY <1>2, <3>1 DEF ToldRight, Accepted
  <2>2. evm.relayed \subseteq evm'.relayed
    <3>1. FormsRight /\ IsEvm(evm)
      BY DEF PaymentsRight, FormsRight
    <3>2. c # Idle /\ c.pc \in SendingPcs => AfterMining(Sent(c)).relayed = evm.relayed
      <4>1. Sent(c).op \in 1..MaxOps /\ Sent(c).kind = c.pc
        BY <1>1 DEF Sent, Tx
      <4>. HIDE DEF c
      <4>. QED  BY <3>1, <4>1, MiningForms DEF SendingPcs
    <3>. QED  BY <3>1, <3>2 DEF EvmMoves, IsEvm
  <2>. QED  BY <1>2, <2>1, <2>2 DEF ToldRight, Relayed
<1>4. CallsMove(a)
  BY <1>1, <1>3 DEF CallsMove, PaymentsRight, FormsRight
<1>5. Going(at[a], s)
  BY DEF Going
<1>. QED  BY <1>4, <1>5, BusyForms DEF CallStep, PaymentsRight

\* A call that tells its caller something.
LEMMA TellsCaller ==
  ASSUME PaymentsRight, NEW a \in Actors, at[a] # Idle, NEW s, NEW id, id = at[a].id,
         at' = [at EXCEPT ![a] = s], ops' = ops,
         NEW told \in Tellings, NEW result \in Tellings,
         calls' = [calls EXCEPT ![id].bridge = told, ![id].result = result],
         Bridges(id) => /\ told = "error" => Accepted(id, "bridge")' = {}
                        /\ told = "success" => Relayed(id)' # {}
                        /\ told # "unencodable",
         s = Idle \/ (IsCall(s) /\ s.id = id /\ Follows(at[a], s) /\ CallRight(s)'),
         Spends(at[a], s), JobsMove(a), EvmMoves(at[a], s), DepositMoves(a, s)
  PROVE  CallStep(a, s)
<1>1. Busy(a) /\ id \in 1..MaxOps /\ Doing(a) = id
  BY BusyForms, ActivityBounds DEF PaymentsRight, IdsRight, FormsRight, Doing
<1>2. calls \in [1..MaxOps -> Results]
  BY DEF PaymentsRight, FormsRight
<1>3. calls[id] \in Results
  BY <1>1, <1>2
<1>4. calls' = [calls EXCEPT ![id] = [calls[id] EXCEPT !.bridge = told, !.result = result]]
  BY <1>1, <1>2, <1>3 DEF Results
<1>5. [calls[id] EXCEPT !.bridge = told, !.result = result] \in Results
  BY <1>3 DEF Results
<1>6. calls' \in [1..MaxOps -> Results]
  BY <1>2, <1>4, <1>5
<1>7. calls'[id].asked = calls[id].asked /\ calls'[id].bridge = told
  BY <1>1, <1>2, <1>3, <1>4 DEF Results
<1>8. \A i \in 1..MaxOps : i # id => calls'[i] = calls[i]
  BY <1>1, <1>2, <1>4
<1>9. ToldRight(id)'
  BY <1>7 DEF ToldRight, Bridges
<1>10. \A i \in 1..MaxOps : i = Doing(a) => ToldRight(i)'
  BY <1>1, <1>9
<1>11. CallsMove(a)
  BY <1>1, <1>6, <1>7, <1>8, <1>10 DEF CallsMove
<1>12. Going(at[a], s)
  BY DEF Going
<1>. QED  BY <1>11, <1>12, BusyForms DEF CallStep, PaymentsRight

\* An x402 call that ends.
LEMMA Ends ==
  ASSUME PaymentsRight, NEW a \in Actors, at[a] # Idle, NEW result \in Tellings, NEW fault,
         result # "reverted", End(a, result, fault), Spends(at[a], Idle), JobsMove(a), UNCHANGED evm,
         at[a].pc \notin Before("bridge") \/ UNCHANGED fast
  PROVE  CallStep(a, Idle)
<1>1. Busy(a) /\ at[a].id \in 1..MaxOps /\ Doing(a) = at[a].id /\ CallRight(at[a])
  BY BusyForms, ActivityBounds DEF PaymentsRight, IdsRight, FormsRight, Doing, CallsRight
<1>2. calls \in [1..MaxOps -> Results] /\ ToldRight(at[a].id)
  BY <1>1 DEF PaymentsRight, FormsRight, TransfersRight
<1>4. calls[at[a].id] \in Results
  BY <1>1, <1>2
<1>. SUFFICES ASSUME NEW id, id = at[a].id, NEW told, told = calls[id].bridge
              PROVE  CallStep(a, Idle)
  OBVIOUS
<1>3. told \in Tellings
  BY <1>1, <1>4 DEF Results
<1>5. calls' = [calls EXCEPT ![id].bridge = told, ![id].result = result]
  <2>1. calls[id] = [calls[id] EXCEPT !.bridge = told]
    BY <1>4 DEF Results
  <2>. QED  BY <1>1, <1>2, <1>4, <2>1 DEF End, Results
<1>6. \A tx \in fast'.txs : tx \in fast.txs \/ tx.kind # "bridge"
  <2>1. UNCHANGED fast => fast'.txs = fast.txs
    OBVIOUS
  <2>. QED  BY <2>1 DEF Spends
<1>7. Bridges(id) => /\ told = "error" => Accepted(id, "bridge")' = {}
                     /\ told = "success" => Relayed(id)' # {}
                     /\ told # "unencodable"
  BY <1>2, <1>6 DEF ToldRight, Accepted, Relayed
<1>8. calls'[Doing(a)].result # "reverted"
  BY <1>1, <1>2, <1>4, <1>5 DEF Results
<1>9. DepositMoves(a, Idle) /\ EvmMoves(at[a], Idle)
  BY <1>8 DEF DepositMoves, EvmMoves
<1>10. at' = [at EXCEPT ![a] = Idle] /\ ops' = ops
  BY DEF End, Step
<1>. QED  BY <1>3, <1>5, <1>7, <1>9, <1>10, TellsCaller

\* What an actor's call is, before its step.
LEMMA CallForms ==
  ASSUME PaymentsRight, NEW a \in Actors, NEW pc, In(a, "payments", pc)
  PROVE  /\ at[a] # Idle /\ IsCall(at[a]) /\ at[a].pc = pc
         /\ Busy(a) /\ CallRight(at[a]) /\ Fresh(at[a])
         /\ at[a].id \in 1..MaxOps /\ Doing(a) = at[a].id /\ ToldRight(at[a].id)
         /\ calls \in [1..MaxOps -> Results] /\ calls[at[a].id] \in Results
         /\ at' = [at EXCEPT ![a] = Idle] => at'[a] = Idle
<1>1. Busy(a) /\ at[a].pc = pc
  BY DEF In, Busy
<1>2. at[a] # Idle /\ IsCall(at[a]) /\ Doing(a) = at[a].id
  BY <1>1, BusyForms DEF PaymentsRight, Doing
<1>3. at[a].id \in 1..MaxOps
  BY <1>1, ActivityBounds DEF PaymentsRight, IdsRight, FormsRight
<1>. QED  BY <1>1, <1>2, <1>3 DEF PaymentsRight, CallsRight, PaysOnce, TransfersRight, FormsRight

\* A deposit that tells its caller how it went.
LEMMA DepositTells ==
  ASSUME PaymentsRight, NEW a \in Actors, NEW pc \in DepositPcs, In(a, "payments", pc),
         NEW result \in Tellings, NEW fault, Tell(a, result, fault),
         UNCHANGED <<fast, jobs>>, EvmMoves(at[a], Idle),
         result = "reverted" => pc \in SendingPcs /\ ~Succeeds(Sent(at[a]))
  PROVE  CallStep(a, Idle)
<1>. SUFFICES ASSUME NEW id, id = at[a].id
              PROVE  CallStep(a, Idle)
  OBVIOUS
<1>1. DepositRight(at[a]) /\ id \in 1..MaxOps /\ Doing(a) = id /\ at[a].pc = pc /\ at[a] # Idle
      /\ calls \in [1..MaxOps -> Results] /\ calls[id] \in Results
  BY CallForms DEF CallRight
<1>2. at[a].r.then = "return" /\ ~Bridges(id)
  BY <1>1 DEF DepositRight, Bridges, DepositPcs
<1>3. at' = [at EXCEPT ![a] = Idle] /\ ops' = ops
  BY <1>2 DEF Tell, Step
<1>4. calls' = [calls EXCEPT ![id].bridge = result, ![id].result = result]
  BY <1>2 DEF Tell
<1>5. calls'[id].result = result
  BY <1>1, <1>4 DEF Results
<1>6. DepositMoves(a, Idle)
  BY <1>1, <1>5 DEF DepositMoves
<1>7. Spends(at[a], Idle) /\ JobsMove(a)
  BY DEF Spends, JobsMove, PaymentsRight, FormsRight
<1>. QED  BY <1>1, <1>2, <1>3, <1>4, <1>6, <1>7, TellsCaller

\* A transfer to the bridge that tells its caller how it went.
LEMMA BridgeTells ==
  ASSUME PaymentsRight, NEW a \in Actors, NEW pc \in BridgePcs, In(a, "payments", pc), NEW id, id = at[a].id,
         NEW result \in Tellings \ {"reverted", "unencodable"}, NEW fault, Tell(a, result, fault),
         UNCHANGED jobs, Spends(at[a], Idle),
         UNCHANGED evm \/ \E x : evm' = [evm EXCEPT !.relayed = @ \cup {x}] /\ x.op = id /\ RelayRight(x)',
         result = "error" => Accepted(id, "bridge")' = {},
         result = "success" => Relayed(id)' # {}
  PROVE  \E s : CallStep(a, s)
<1>1. BridgeRight(at[a]) /\ id \in 1..MaxOps /\ Doing(a) = id /\ at[a].pc = pc /\ at[a] # Idle
      /\ calls \in [1..MaxOps -> Results] /\ calls[id] \in Results
  BY CallForms DEF CallRight
<1>. DEFINE c == at[a]
<1>2. c.r.then = "return" \/ (c.r.then = "poll" /\ calls[id].asked.kind = "pay")
  BY <1>1 DEF BridgeRight
<1>3. PICK s : s = IF c.r.then # "return" /\ result = "success" THEN Call(id, c.r.then, c.r.outer) ELSE Idle
  OBVIOUS
<1>4. at' = [at EXCEPT ![a] = s] /\ ops' = ops
  BY <1>3 DEF Tell, Step
<1>5. PICK told \in Tellings, told2 \in Tellings :
        /\ calls' = [calls EXCEPT ![id].bridge = told, ![id].result = told2]
        /\ told = result /\ (told2 # "reverted" \/ told2 = calls[id].result)
  <2>1. calls' = [calls EXCEPT ![id].bridge = result,
                               ![id].result = IF c.r.then = "return" THEN result
                                              ELSE IF result = "success" THEN calls[id].result ELSE "error"]
    BY <1>1 DEF Tell, Results
  <2>2. calls[id].result \in Tellings /\ "error" \in Tellings
    BY <1>1 DEF Results, Tellings
  <2>. QED  BY <2>1, <2>2
<1>6. calls'[id].result = told2
  BY <1>1, <1>5 DEF Results
<1>7. s # Idle => s = Call(id, "poll", c.r.outer) /\ calls[id].asked.kind = "pay"
  BY <1>2, <1>3
<1>8. s # Idle => IsCall(s) /\ s.id = id /\ s.pc = "poll"
  BY <1>7 DEF Call, IsCall
<1>9. s # Idle => CallRight(s)'
  <2>1. calls'[id].asked.kind = calls[id].asked.kind
    BY <1>1, <1>5 DEF Results
  <2>. QED  BY <1>7, <1>8, <2>1, BeforeSets
            DEF CallRight, StagesRight, BridgePcs, DepositPcs, PayPcs
<1>10. s # Idle => Follows(c, s)
  BY <1>8, BeforeSets DEF Follows, TxKinds, DepositPcs
<1>11. Spends(c, s)
  BY <1>8, BeforeSets DEF Spends, TxKinds
<1>12. EvmMoves(c, s)
  BY <1>1 DEF EvmMoves
<1>13. DepositMoves(a, s)
  BY <1>1, <1>5, <1>6, <1>8 DEF DepositMoves
<1>14. JobsMove(a)
  BY DEF JobsMove, PaymentsRight, FormsRight
<1>. QED  BY <1>1, <1>4, <1>5, <1>8, <1>9, <1>10, <1>11, <1>12, <1>13, <1>14, TellsCaller

\* A call that starts.
LEMMA StartForms ==
  ASSUME PaymentsRight, NEW a \in Actors, NEW pc, NEW r, Start(a, pc, r), NEW s, s = Call(ops + 1, pc, r),
         r.kind \in Kinds, r.kind = "intent" => r.encoding \in {"legacy", "v1"} /\ r.intents \in Seq(Intents)
  PROVE  /\ s # Idle /\ IsCall(s) /\ s.id = ops + 1 /\ s.pc = pc /\ s.r = r
         /\ s.id \in 1..MaxOps /\ at[a] = Idle /\ Doing(a) = s.id
         /\ at' = [at EXCEPT ![a] = s] /\ ops < MaxOps /\ ops' = ops + 1
         /\ calls' \in [1..MaxOps -> Results]
         /\ \A i \in 1..MaxOps : i # s.id => calls'[i] = calls[i]
         /\ calls'[s.id].bridge = "none" /\ calls'[s.id].result = "none"
         /\ calls'[s.id].asked.kind = r.kind
         /\ r.kind = "intent" => calls'[s.id].asked.encoding = r.encoding /\ calls'[s.id].asked.intents = r.intents
<1>1. ops \in Nat /\ ops < MaxOps /\ MaxOps \in Nat /\ at[a] = Idle /\ ops' = ops + 1 /\ at' = [at EXCEPT ![a] = s]
  BY ActivityBounds DEF Start, Begin, PaymentsRight, FormsRight
<1>2. s # Idle /\ IsCall(s) /\ s.id = ops + 1 /\ s.pc = pc /\ s.r = r
  <2>1. IsCall(s) /\ s.id = ops + 1 /\ s.pc = pc /\ s.r = r
    BY DEF Call, IsCall
  <2>. QED  BY <2>1, BusyForms DEF PaymentsRight
<1>3. s.id \in 1..MaxOps /\ Doing(a) = s.id
  BY <1>1, <1>2 DEF Doing
<1>4. calls[s.id] = NoCall
  BY <1>1, <1>2, <1>3 DEF PaymentsRight, IdsRight
<1>5. calls \in [1..MaxOps -> Results]
  BY DEF PaymentsRight, FormsRight
<1>. DEFINE asked == [kind |-> r.kind, cli |-> r.kind = "pay" /\ r.cli,
                      encoding |-> IF r.kind = "intent" THEN r.encoding ELSE "legacy",
                      intents |-> IF r.kind = "intent" THEN r.intents ELSE <<>>]
<1>6. asked \in Requests
  BY DEF Requests
<1>. HIDE DEF asked
<1>7. [NoCall EXCEPT !.asked = asked] \in Results
  BY <1>6 DEF NoCall, Results, Tellings
<1>8. calls' = [calls EXCEPT ![s.id].asked = asked]
  BY <1>2 DEF Start, asked
<1>9. calls' = [calls EXCEPT ![s.id] = [NoCall EXCEPT !.asked = asked]]
  BY <1>3, <1>4, <1>5, <1>8
<1>10. calls'[s.id] = [NoCall EXCEPT !.asked = asked]
  BY <1>3, <1>5, <1>9
<1>11. calls'[s.id].bridge = "none" /\ calls'[s.id].result = "none" /\ calls'[s.id].asked = asked
  BY <1>10 DEF NoCall
<1>12. asked.kind = r.kind /\ (r.kind = "intent" => asked.encoding = r.encoding /\ asked.intents = r.intents)
  BY DEF asked
<1>13. calls' \in [1..MaxOps -> Results] /\ \A i \in 1..MaxOps : i # s.id => calls'[i] = calls[i]
  BY <1>3, <1>5, <1>7, <1>9
<1>. QED  BY <1>1, <1>2, <1>3, <1>11, <1>12, <1>13

\* A call that starts.
LEMMA Starts ==
  ASSUME PaymentsRight, NEW a \in Actors, NEW pc, NEW r, Start(a, pc, r), NEW s, s = Call(ops + 1, pc, r),
         r.kind \in Kinds, r.kind = "intent" => r.encoding \in {"legacy", "v1"} /\ r.intents \in Seq(Intents),
         UNCHANGED ledgers, JobsMove(a), pc \notin {"approve", "deposit"}, CallRight(s)'
  PROVE  CallStep(a, s)
<1>1. /\ s # Idle /\ IsCall(s) /\ s.id = ops + 1 /\ s.pc = pc
      /\ s.id \in 1..MaxOps /\ at[a] = Idle /\ Doing(a) = s.id
      /\ at' = [at EXCEPT ![a] = s] /\ ops < MaxOps /\ ops' = ops + 1
      /\ calls' \in [1..MaxOps -> Results]
      /\ \A i \in 1..MaxOps : i # s.id => calls'[i] = calls[i]
      /\ calls'[s.id].bridge = "none" /\ calls'[s.id].result = "none"
  BY StartForms
<1>2. ToldRight(s.id)'
  BY <1>1 DEF ToldRight
<1>3. \A i \in 1..MaxOps : i = Doing(a) => ToldRight(i)'
  BY <1>1, <1>2
<1>4. CallsMove(a)
  BY <1>1, <1>3 DEF CallsMove
<1>5. Spends(at[a], s) /\ EvmMoves(at[a], s)
  BY DEF Spends, EvmMoves, ledgers
<1>6. DepositMoves(a, s)
  BY <1>1 DEF DepositMoves
<1>7. Starting(at[a], s)
  BY <1>1 DEF Starting
<1>. QED  BY <1>1, <1>4, <1>5, <1>6, <1>7 DEF CallStep

\* The step of a call that keeps its request.
LEMMA SameRequest ==
  ASSUME PaymentsRight, NEW a \in Actors, NEW pc, In(a, "payments", pc), NEW s, s.id = at[a].id,
         s.r = at[a].r, UNCHANGED calls, fast.txs \subseteq fast'.txs
  PROVE  /\ BridgeRight(at[a]) => BridgeRight(s)'
         /\ TransferMade(at[a].id, at[a].r.amount) => TransferMade(s.id, s.r.amount)'
         /\ Asked(s.id)' = Asked(at[a].id)
<1>1. Asked(s.id)' = Asked(at[a].id) /\ Tag(s.id)' = Tag(at[a].id)
  BY DEF Asked, Tag
<1>2. TransferMade(at[a].id, at[a].r.amount) => TransferMade(s.id, s.r.amount)'
  BY <1>1 DEF TransferMade, Accepted
<1>. QED  BY <1>1, <1>2 DEF BridgeRight

\* A call that goes on to a step that needs no funds on the chain.
LEMMA Continues ==
  ASSUME PaymentsRight, NEW a \in Actors, NEW pc, In(a, "payments", pc), NEW s,
         at' = [at EXCEPT ![a] = s], ops' = ops, UNCHANGED <<calls, evm, jobs>>,
         IsCall(s), s.id = at[a].id, Follows(at[a], s), CallRight(s)', Spends(at[a], s),
         s.pc \notin {"approve", "deposit"}
  PROVE  CallStep(a, s)
<1>1. at[a] # Idle /\ calls'[Doing(a)] = calls[Doing(a)]
  BY CallForms
<1>2. EvmMoves(at[a], s) /\ JobsMove(a)
  BY DEF EvmMoves, JobsMove, PaymentsRight, FormsRight
<1>3. DepositMoves(a, s)
  BY <1>1 DEF DepositMoves
<1>. QED  BY <1>1, <1>2, <1>3, GoesOn

-----------------------------------------------------------------------------
\* executeIntent is called.
LEMMA ExecuteIntentSteps ==
  ASSUME PaymentsRight, NEW a \in Actors, ExecuteIntent(a), Unserved
  PROVE  \E s : CallStep(a, s)
<1>1. PICK e \in DOMAIN IntentLists : \E l \in IntentLists[e] :
        /\ ~CallRefused(IntentRequest(e, l)) /\ Start(a, "account", IntentRequest(e, l)) /\ UNCHANGED ledgers
  BY DEF ExecuteIntent
<1>11. PICK l \in IntentLists[e] :
        /\ ~CallRefused(IntentRequest(e, l)) /\ Start(a, "account", IntentRequest(e, l)) /\ UNCHANGED ledgers
  BY <1>1
<1>. DEFINE r == IntentRequest(e, l)
<1>2. e \in {"legacy", "v1"} /\ l \in Seq(Intents)
  BY <1>1, IntentForms
<1>3. PICK s : s = Call(ops + 1, "account", r)
  OBVIOUS
<1>4. r.kind = "intent" /\ r.encoding = e /\ r.intents = l /\ r.then = "return" /\ r.amount = Amount
  BY DEF IntentRequest
<1>5. s.id \in 1..MaxOps /\ s.pc = "account" /\ s.r = r /\ calls'[s.id].bridge = "none"
      /\ calls'[s.id].asked.kind = "intent" /\ calls'[s.id].asked.encoding = e
      /\ calls'[s.id].asked.intents = l
  BY <1>2, <1>3, <1>4, <1>11, StartForms DEF Kinds
<1>6. Asked(s.id)' = r
  BY <1>5 DEF Asked
<1>7. ~Refused(Prepared(r))
  BY <1>11 DEF CallRefused
<1>8. BridgeRight(s)'
  BY <1>4, <1>5, <1>6, <1>7 DEF BridgeRight, IntentRequest
<1>9. CallRight(s)'
  BY <1>5, <1>8, BeforeSets DEF CallRight, StagesRight, BridgePcs, DepositPcs, PayPcs
<1>10. JobsMove(a)
  BY DEF JobsMove, PaymentsRight, FormsRight, Unserved
<1>. QED  BY <1>2, <1>3, <1>4, <1>9, <1>10, <1>11, Starts DEF Kinds

\* The nonce of the transfer is read, or the call fails before it pays.
LEMMA AccountInfoSteps ==
  ASSUME PaymentsRight, NEW a \in Actors, AccountInfo(a), Unserved
  PROVE  \E s : CallStep(a, s)
<1>1. In(a, "payments", "account") /\ UNCHANGED <<fast, evm, jobs>>
  BY DEF AccountInfo, Unserved, ledgers
<1>2. CallRight(at[a]) /\ Fresh(at[a]) /\ IsCall(at[a]) /\ at[a] # Idle /\ at[a].pc = "account"
  BY <1>1, CallForms
<1>3. ASSUME Tell(a, "error", TRUE)
      PROVE  \E s : CallStep(a, s)
  <2>1. PICK id : id = at[a].id
    OBVIOUS
  <2>2. Accepted(id, "bridge")' = {}
    BY <1>1, <1>2, <2>1, BeforeSets DEF Fresh, TxKinds, Accepted
  <2>3. Spends(at[a], Idle)
    BY <1>1 DEF Spends
  <2>4. "account" \in BridgePcs /\ "error" \in Tellings \ {"reverted", "unencodable"} /\ UNCHANGED jobs
    BY <1>1 DEF BridgePcs, Tellings
  <2>. QED  BY <1>1, <1>3, <2>1, <2>2, <2>3, <2>4, BridgeTells
<1>4. ASSUME Step(a, [at[a] EXCEPT !.pc = "transfer", !.nonce = fast.nonce], FALSE), Keep
      PROVE  \E s : CallStep(a, s)
  <2>1. PICK s : s = [at[a] EXCEPT !.pc = "transfer", !.nonce = fast.nonce]
    OBVIOUS
  <2>2. IsCall(s) /\ s.id = at[a].id /\ s.r = at[a].r /\ s.pc = "transfer"
    BY <1>2, <2>1 DEF IsCall
  <2>3. UNCHANGED calls /\ at' = [at EXCEPT ![a] = s] /\ ops' = ops
    BY <1>4, <2>1 DEF Step, Keep
  <2>4. BridgeRight(s)'
    BY <1>1, <1>2, <2>2, <2>3, SameRequest DEF CallRight, BridgePcs
  <2>5. CallRight(s)'
    BY <1>2, <2>2, <2>3, <2>4, BeforeSets DEF CallRight, StagesRight, BridgePcs, DepositPcs, PayPcs
  <2>6. Follows(at[a], s) /\ Spends(at[a], s)
    BY <1>1, <1>2, <2>2, BeforeSets DEF Follows, TxKinds, DepositPcs, Spends
  <2>. QED  BY <1>1, <1>2, <2>2, <2>3, <2>5, <2>6, Continues
<1>. QED  BY <1>3, <1>4 DEF AccountInfo

\* What the network takes of a submission.
LEMMA SubmitForms ==
  ASSUME NEW tx, NEW reply, Submit(tx, reply)
  PROVE  \/ fast'.txs = fast.txs \cup {tx} /\ reply \in {"Success", "lost", "other", "incomplete"}
         \/ fast' = fast /\ reply \in {"rejected", "lost", "incomplete"}
BY DEF Submit, Unclear

\* What a transfer to the bridge asks for, however it was changed on the way.
LEMMA SameClaim ==
  ASSUME PaymentsRight, NEW c, c.id \in 1..MaxOps, BridgeRight(c)
  PROVE  /\ c.r.encoding = Asked(c.id).encoding /\ Prepared(c.r) = Prepared(Asked(c.id))
         /\ \A id : ClaimBytes(c.r, id) = ClaimBytes(Asked(c.id), id)
         /\ Tag(c.id) = IF c.r.encoding = "v1" THEN Prepared(c.r).userData ELSE NoUserData
         /\ ~Refused(Prepared(c.r)) /\ ~Refused(ClaimBytes(c.r, TransferId(c.id)))
<1>. DEFINE q == Asked(c.id)
<1>1. PlainRequest(q) /\ q = IntentRequest(q.encoding, q.intents) /\ TransferId(c.id) \in Int
  BY AskedForms DEF PaymentsRight
<1>2. c.r = [q EXCEPT !.amount = c.r.amount, !.then = c.r.then, !.outer = c.r.outer] /\ ~Refused(Prepared(q))
  BY DEF BridgeRight
<1>. HIDE DEF q
<1>3. /\ c.r.encoding = q.encoding /\ c.r.intents = q.intents /\ c.r.chain = q.chain /\ c.r.bridge = q.bridge
      /\ c.r.seconds = q.seconds /\ c.r.display = q.display
  BY <1>1, <1>2 DEF IntentRequest
<1>. DEFINE r == c.r
<1>. HIDE DEF r
<1>4. r.encoding = q.encoding /\ r.intents = q.intents /\ r.chain = q.chain /\ r.bridge = q.bridge
      /\ r.seconds = q.seconds /\ r.display = q.display
  BY <1>3 DEF r
<1>5. Prepared(r) = Prepared(q)
  BY <1>4 DEF Prepared, PrepareIntentClaimV1
<1>6. \A id : ClaimBytes(r, id) = ClaimBytes(q, id)
  BY <1>4, <1>5 DEF ClaimBytes
<1>7. ~Refused(ClaimBytes(q, TransferId(c.id)))
  BY <1>1, <1>2, ClaimWritten
<1>. QED  BY <1>2, <1>4, <1>5, <1>6, <1>7 DEF Tag, q, r

\* The transfer is submitted: the call goes on only when it was accepted, and calls it an error only when it was not.
LEMMA SubmitTransferSteps ==
  ASSUME PaymentsRight, NEW a \in Actors, SubmitTransfer(a), Unserved
  PROVE  \E s : CallStep(a, s)
<1>1. In(a, "payments", "transfer") /\ UNCHANGED <<evm, jobs>>
  BY DEF SubmitTransfer, Unserved
<1>2. /\ CallRight(at[a]) /\ Fresh(at[a]) /\ IsCall(at[a]) /\ at[a] # Idle /\ at[a].pc = "transfer"
      /\ at[a].id \in 1..MaxOps /\ BridgeRight(at[a])
  BY <1>1, CallForms DEF CallRight, BridgePcs
<1>. DEFINE tx == Transfer(a)
<1>3. tx.op = at[a].id /\ tx.kind = "bridge" /\ tx.id = TransferId(at[a].id) /\ tx.amount = at[a].r.amount
      /\ tx.data = Tag(at[a].id)
  BY <1>2, SameClaim DEF Transfer
<1>. HIDE DEF tx
<1>4. PICK reply \in {"Success", "rejected"} \cup Unclear :
        /\ Submit(tx, reply)
        /\ LET fault == SubmitFault(tx, reply) IN
           CASE SubmitWithRecovery(reply) = "Success" -> Step(a, [at[a] EXCEPT !.pc = "crossSign"], fault) /\ Keep
             [] SubmitWithRecovery(reply) = "rejected" -> Tell(a, "error", fault)
             [] SubmitWithRecovery(reply) = "indeterminate" -> Tell(a, "indeterminate", fault)
  BY DEF SubmitTransfer, tx
<1>5. PICK fault : fault = SubmitFault(tx, reply)
  OBVIOUS
<1>6. fast'.txs = fast.txs \cup {tx} \/ (fast' = fast /\ reply \in {"rejected", "lost", "incomplete"})
  BY <1>4, SubmitForms
<1>7. Spends(at[a], Idle)
  BY <1>2, <1>3, <1>6, BeforeSets DEF Spends, TxKinds
<1>8. PICK id : id = at[a].id
  OBVIOUS
<1>9. "transfer" \in BridgePcs /\ "error" \in Tellings \ {"reverted", "unencodable"}
      /\ "indeterminate" \in Tellings \ {"reverted", "unencodable"}
  BY DEF BridgePcs, Tellings
<1>10. CASE reply = "Success"
  <2>1. Step(a, [at[a] EXCEPT !.pc = "crossSign"], fault) /\ Keep
    BY <1>4, <1>5, <1>10 DEF SubmitWithRecovery
  <2>2. PICK s : s = [at[a] EXCEPT !.pc = "crossSign"]
    OBVIOUS
  <2>3. IsCall(s) /\ s.id = at[a].id /\ s.r = at[a].r /\ s.pc = "crossSign"
    BY <1>2, <2>2 DEF IsCall
  <2>4. UNCHANGED calls /\ at' = [at EXCEPT ![a] = s] /\ ops' = ops
    BY <2>1, <2>2 DEF Step, Keep
  <2>5. fast'.txs = fast.txs \cup {tx}
    BY <1>6, <1>10
  <2>6. BridgeRight(s)' /\ Asked(s.id)' = Asked(at[a].id)
    BY <1>1, <1>2, <2>3, <2>4, <2>5, SameRequest
  <2>7. Tag(s.id)' = Tag(at[a].id)
    BY <2>6 DEF Tag
  <2>8. TransferMade(s.id, s.r.amount)'
    BY <1>3, <2>3, <2>5, <2>7 DEF TransferMade, Accepted
  <2>9. CallRight(s)'
    BY <1>2, <2>3, <2>4, <2>6, <2>8, BeforeSets
    DEF CallRight, StagesRight, BridgePcs, DepositPcs, PayPcs
  <2>10. Follows(at[a], s) /\ Spends(at[a], s)
    BY <1>2, <1>3, <2>3, <2>5, BeforeSets DEF Follows, TxKinds, DepositPcs, Spends
  <2>. QED  BY <1>1, <1>2, <2>3, <2>4, <2>9, <2>10, Continues
<1>11. CASE reply = "rejected"
  <2>1. Tell(a, "error", fault)
    BY <1>4, <1>5, <1>11 DEF SubmitWithRecovery, IsDefinitiveRejection
  <2>2. fast' = fast
    BY <1>4, <1>11, SubmitForms
  <2>3. Accepted(id, "bridge")' = {}
    BY <1>2, <1>8, <2>2, BeforeSets DEF Fresh, TxKinds, Accepted
  <2>. QED  BY <1>1, <1>7, <1>8, <1>9, <2>1, <2>3, BridgeTells
<1>12. CASE reply \in Unclear
  <2>1. Tell(a, "indeterminate", fault)
    BY <1>4, <1>5, <1>12 DEF SubmitWithRecovery, IsDefinitiveRejection, Unclear
  <2>. QED  BY <1>1, <1>7, <1>8, <1>9, <2>1, BridgeTells
<1>. QED  BY <1>10, <1>11, <1>12

\* The transfer is cross-signed: the id that goes on is that of the transfer.
LEMMA CrossSignTransferSteps ==
  ASSUME PaymentsRight, NEW a \in Actors, CrossSignTransfer(a), Unserved
  PROVE  \E s : CallStep(a, s)
<1>1. In(a, "payments", "crossSign") /\ UNCHANGED <<fast, evm, jobs>>
  BY DEF CrossSignTransfer, Unserved, ledgers
<1>2. /\ CallRight(at[a]) /\ IsCall(at[a]) /\ at[a] # Idle /\ at[a].pc = "crossSign"
      /\ BridgeRight(at[a]) /\ TransferMade(at[a].id, at[a].r.amount)
  BY <1>1, CallForms DEF CallRight, BridgePcs, StagesRight
<1>3. PICK id : id = at[a].id
  OBVIOUS
<1>4. Spends(at[a], Idle)
  BY <1>1 DEF Spends
<1>5. ASSUME NEW fault, Tell(a, "postPayment", fault)
      PROVE  \E s : CallStep(a, s)
  <2>1. "crossSign" \in BridgePcs /\ "postPayment" \in Tellings \ {"reverted", "unencodable"}
    BY DEF BridgePcs, Tellings
  <2>. QED  BY <1>1, <1>3, <1>4, <1>5, <2>1, BridgeTells
<1>6. ASSUME NEW reply, NEW fault,
             ExtractClaimId(reply, TransferId(at[a].id), 0) # 0,
             Step(a, [at[a] EXCEPT !.pc = "claim", !.txId = ExtractClaimId(reply, TransferId(at[a].id), 0)], fault),
             Keep
      PROVE  \E s : CallStep(a, s)
  <2>1. ExtractClaimId(reply, TransferId(at[a].id), 0) = TransferId(at[a].id)
    BY <1>6 DEF ExtractClaimId
  <2>2. PICK s : s = [at[a] EXCEPT !.pc = "claim", !.txId = TransferId(at[a].id)]
    OBVIOUS
  <2>3. IsCall(s) /\ s.id = at[a].id /\ s.r = at[a].r /\ s.pc = "claim" /\ s.txId = TransferId(at[a].id)
    BY <1>2, <2>2 DEF IsCall
  <2>4. UNCHANGED calls /\ at' = [at EXCEPT ![a] = s] /\ ops' = ops
    BY <1>6, <2>1, <2>2 DEF Step, Keep
  <2>5. BridgeRight(s)' /\ TransferMade(s.id, s.r.amount)'
    BY <1>1, <1>2, <2>3, <2>4, SameRequest
  <2>6. CallRight(s)'
    BY <1>2, <2>3, <2>4, <2>5, BeforeSets
    DEF CallRight, StagesRight, BridgePcs, DepositPcs, PayPcs
  <2>7. Follows(at[a], s) /\ Spends(at[a], s)
    BY <1>1, <1>2, <2>3, BeforeSets DEF Follows, TxKinds, DepositPcs, Spends
  <2>. QED  BY <1>1, <1>2, <2>3, <2>4, <2>6, <2>7, Continues
<1>. QED  BY <1>5, <1>6 DEF CrossSignTransfer

\* The claim is written, which cannot fail any more.
LEMMA BuildClaimSteps ==
  ASSUME PaymentsRight, NEW a \in Actors, BuildClaim(a), Unserved
  PROVE  \E s : CallStep(a, s)
<1>1. In(a, "payments", "claim") /\ UNCHANGED <<fast, evm, jobs>>
  BY DEF BuildClaim, Unserved, ledgers
<1>2. /\ CallRight(at[a]) /\ IsCall(at[a]) /\ at[a] # Idle /\ at[a].pc = "claim" /\ at[a].id \in 1..MaxOps
      /\ BridgeRight(at[a]) /\ TransferMade(at[a].id, at[a].r.amount) /\ at[a].txId = TransferId(at[a].id)
  BY <1>1, CallForms DEF CallRight, BridgePcs, StagesRight
<1>3. PICK bytes : bytes = ClaimBytes(at[a].r, at[a].txId)
  OBVIOUS
<1>4. ~Refused(bytes) /\ bytes = ClaimBytes(Asked(at[a].id), TransferId(at[a].id))
  BY <1>2, <1>3, SameClaim
<1>5. ASSUME Tell(a, "postPayment", TRUE)
      PROVE  \E s : CallStep(a, s)
  <2>1. PICK id : id = at[a].id
    OBVIOUS
  <2>2. "claim" \in BridgePcs /\ "postPayment" \in Tellings \ {"reverted", "unencodable"} /\ Spends(at[a], Idle)
    BY <1>1 DEF BridgePcs, Tellings, Spends
  <2>. QED  BY <1>1, <1>5, <2>1, <2>2, BridgeTells
<1>6. ASSUME Step(a, [at[a] EXCEPT !.pc = "intent", !.nonce = fast.nonce, !.bytes = bytes], FALSE), Keep
      PROVE  \E s : CallStep(a, s)
  <2>1. PICK s : s = [at[a] EXCEPT !.pc = "intent", !.nonce = fast.nonce, !.bytes = bytes]
    OBVIOUS
  <2>2. IsCall(s) /\ s.id = at[a].id /\ s.r = at[a].r /\ s.pc = "intent" /\ s.txId = at[a].txId /\ s.bytes = bytes
    BY <1>2, <2>1 DEF IsCall
  <2>3. UNCHANGED calls /\ at' = [at EXCEPT ![a] = s] /\ ops' = ops
    BY <1>6, <2>1 DEF Step, Keep
  <2>4. BridgeRight(s)' /\ TransferMade(s.id, s.r.amount)' /\ Asked(s.id)' = Asked(at[a].id)
    BY <1>1, <1>2, <2>2, <2>3, SameRequest
  <2>5. s.bytes = ClaimBytes(Asked(s.id)', TransferId(s.id))
    BY <1>4, <2>2, <2>4
  <2>6. CallRight(s)'
    BY <1>2, <2>2, <2>3, <2>4, <2>5, BeforeSets
    DEF CallRight, StagesRight, BridgePcs, DepositPcs, PayPcs
  <2>7. Follows(at[a], s) /\ Spends(at[a], s)
    BY <1>1, <1>2, <2>2, BeforeSets DEF Follows, TxKinds, DepositPcs, Spends
  <2>. QED  BY <1>1, <1>2, <2>2, <2>3, <2>6, <2>7, Continues
<1>. QED  BY <1>3, <1>4, <1>5, <1>6 DEF BuildClaim

\* The claim is submitted.
LEMMA SubmitIntentSteps ==
  ASSUME PaymentsRight, NEW a \in Actors, SubmitIntent(a), Unserved
  PROVE  \E s : CallStep(a, s)
<1>1. In(a, "payments", "intent") /\ UNCHANGED <<evm, jobs>>
  BY DEF SubmitIntent, Unserved
<1>2. /\ CallRight(at[a]) /\ IsCall(at[a]) /\ at[a] # Idle /\ at[a].pc = "intent"
      /\ BridgeRight(at[a]) /\ TransferMade(at[a].id, at[a].r.amount) /\ at[a].txId = TransferId(at[a].id)
      /\ at[a].bytes = ClaimBytes(Asked(at[a].id), TransferId(at[a].id))
  BY <1>1, CallForms DEF CallRight, BridgePcs, StagesRight
<1>3. PICK tx : tx = [id |-> IntentId(at[a].id), kind |-> "claim", op |-> at[a].id,
                      nonce |-> at[a].nonce, amount |-> 0, to |-> "none", token |-> "none",
                      data |-> NoUserData]
  OBVIOUS
<1>4. tx.op = at[a].id /\ tx.kind = "claim"
  BY <1>3
<1>5. PICK reply \in {"Success", "rejected"} \cup Unclear :
        /\ Submit(tx, reply)
        /\ LET fault == SubmitFault(tx, reply) IN
           CASE SubmitWithRecovery(reply) = "Success" -> Step(a, [at[a] EXCEPT !.pc = "crossSignIntent"], fault) /\ Keep
             [] SubmitWithRecovery(reply) = "rejected" -> Tell(a, "postPayment", fault)
             [] SubmitWithRecovery(reply) = "indeterminate" -> Tell(a, "indeterminate", fault)
  BY <1>3 DEF SubmitIntent
<1>6. PICK fault : fault = SubmitFault(tx, reply)
  OBVIOUS
<1>7. fast'.txs = fast.txs \cup {tx} \/ fast'.txs = fast.txs
  BY <1>5, SubmitForms
<1>8. Spends(at[a], Idle)
  BY <1>2, <1>4, <1>7, BeforeSets DEF Spends, TxKinds
<1>9. PICK id : id = at[a].id
  OBVIOUS
<1>10. CASE reply = "Success"
  <2>1. Step(a, [at[a] EXCEPT !.pc = "crossSignIntent"], fault) /\ Keep
    BY <1>5, <1>6, <1>10 DEF SubmitWithRecovery
  <2>2. PICK s : s = [at[a] EXCEPT !.pc = "crossSignIntent"]
    OBVIOUS
  <2>3. IsCall(s) /\ s.id = at[a].id /\ s.r = at[a].r /\ s.pc = "crossSignIntent" /\ s.txId = at[a].txId
        /\ s.bytes = at[a].bytes
    BY <1>2, <2>2 DEF IsCall
  <2>4. UNCHANGED calls /\ at' = [at EXCEPT ![a] = s] /\ ops' = ops
    BY <2>1, <2>2 DEF Step, Keep
  <2>5. BridgeRight(s)' /\ TransferMade(s.id, s.r.amount)' /\ Asked(s.id)' = Asked(at[a].id)
    BY <1>1, <1>2, <1>7, <2>3, <2>4, SameRequest
  <2>6. CallRight(s)'
    BY <1>2, <2>3, <2>4, <2>5, BeforeSets
    DEF CallRight, StagesRight, BridgePcs, DepositPcs, PayPcs
  <2>7. Follows(at[a], s) /\ Spends(at[a], s)
    BY <1>2, <1>4, <1>7, <2>3, BeforeSets DEF Follows, TxKinds, DepositPcs, Spends
  <2>. QED  BY <1>1, <1>2, <2>3, <2>4, <2>6, <2>7, Continues
<1>11. CASE reply # "Success"
  <2>1. Tell(a, "postPayment", fault) \/ Tell(a, "indeterminate", fault)
    BY <1>5, <1>6, <1>11 DEF SubmitWithRecovery, IsDefinitiveRejection
  <2>2. "intent" \in BridgePcs /\ "postPayment" \in Tellings \ {"reverted", "unencodable"}
        /\ "indeterminate" \in Tellings \ {"reverted", "unencodable"}
    BY DEF BridgePcs, Tellings
  <2>. QED  BY <1>1, <1>8, <1>9, <2>1, <2>2, BridgeTells
<1>. QED  BY <1>10, <1>11

\* The claim is cross-signed.
LEMMA CrossSignIntentSteps ==
  ASSUME PaymentsRight, NEW a \in Actors, CrossSignIntent(a), Unserved
  PROVE  \E s : CallStep(a, s)
<1>1. In(a, "payments", "crossSignIntent") /\ UNCHANGED <<fast, evm, jobs>>
  BY DEF CrossSignIntent, Unserved, ledgers
<1>2. /\ CallRight(at[a]) /\ IsCall(at[a]) /\ at[a] # Idle /\ at[a].pc = "crossSignIntent"
      /\ BridgeRight(at[a]) /\ TransferMade(at[a].id, at[a].r.amount) /\ at[a].txId = TransferId(at[a].id)
      /\ at[a].bytes = ClaimBytes(Asked(at[a].id), TransferId(at[a].id))
  BY <1>1, CallForms DEF CallRight, BridgePcs, StagesRight
<1>3. ASSUME NEW fault, Tell(a, "postPayment", fault)
      PROVE  \E s : CallStep(a, s)
  <2>1. PICK id : id = at[a].id
    OBVIOUS
  <2>2. "crossSignIntent" \in BridgePcs /\ "postPayment" \in Tellings \ {"reverted", "unencodable"}
        /\ Spends(at[a], Idle)
    BY <1>1 DEF BridgePcs, Tellings, Spends
  <2>. QED  BY <1>1, <1>3, <2>1, <2>2, BridgeTells
<1>4. ASSUME NEW fault, Step(a, [at[a] EXCEPT !.pc = "relay"], fault), Keep
      PROVE  \E s : CallStep(a, s)
  <2>1. PICK s : s = [at[a] EXCEPT !.pc = "relay"]
    OBVIOUS
  <2>2. IsCall(s) /\ s.id = at[a].id /\ s.r = at[a].r /\ s.pc = "relay" /\ s.txId = at[a].txId
        /\ s.bytes = at[a].bytes
    BY <1>2, <2>1 DEF IsCall
  <2>3. UNCHANGED calls /\ at' = [at EXCEPT ![a] = s] /\ ops' = ops
    BY <1>4, <2>1 DEF Step, Keep
  <2>4. BridgeRight(s)' /\ TransferMade(s.id, s.r.amount)' /\ Asked(s.id)' = Asked(at[a].id)
    BY <1>1, <1>2, <2>2, <2>3, SameRequest
  <2>5. CallRight(s)'
    BY <1>2, <2>2, <2>3, <2>4, BeforeSets
    DEF CallRight, StagesRight, BridgePcs, DepositPcs, PayPcs
  <2>6. Follows(at[a], s) /\ Spends(at[a], s)
    BY <1>1, <1>2, <2>2, BeforeSets DEF Follows, TxKinds, DepositPcs, Spends
  <2>. QED  BY <1>1, <1>2, <2>2, <2>3, <2>5, <2>6, Continues
<1>. QED  BY <1>3, <1>4 DEF CrossSignIntent

\* The claim is relayed.
LEMMA RelaySteps ==
  ASSUME PaymentsRight, NEW a \in Actors, Relay(a), Unserved
  PROVE  \E s : CallStep(a, s)
<1>1. In(a, "payments", "relay") /\ UNCHANGED <<fast, jobs>>
  BY DEF Relay, Unserved
<1>2. /\ CallRight(at[a]) /\ at[a] # Idle /\ at[a].pc = "relay" /\ at[a].id \in 1..MaxOps /\ Doing(a) = at[a].id
      /\ BridgeRight(at[a]) /\ TransferMade(at[a].id, at[a].r.amount) /\ at[a].txId = TransferId(at[a].id)
      /\ at[a].bytes = ClaimBytes(Asked(at[a].id), TransferId(at[a].id))
      /\ calls \in [1..MaxOps -> Results] /\ calls[at[a].id] \in Results
  BY <1>1, CallForms DEF CallRight, BridgePcs, StagesRight
<1>3. PICK x : x = [op |-> at[a].id, txId |-> at[a].txId, amount |-> at[a].r.amount, claim |-> AbiClaim(at[a].bytes)]
  OBVIOUS
<1>4. PICK answer \in {"true", "false", "unusable", "http error"}, taken \in BOOLEAN :
        /\ answer = "true" => taken
        /\ evm' = IF taken THEN [evm EXCEPT !.relayed = @ \cup {x}] ELSE evm
        /\ Tell(a, IF RelaySucceeded(answer) THEN "success" ELSE "postPayment", answer # "true")
  BY <1>3 DEF Relay
<1>5. PICK result, fault : result = (IF answer = "true" THEN "success" ELSE "postPayment") /\ fault = (answer # "true")
  OBVIOUS
<1>6. Tell(a, result, fault)
  BY <1>4, <1>5 DEF RelaySucceeded
<1>7. PICK id : id = at[a].id
  OBVIOUS
<1>8. calls'[id].asked = calls[id].asked
  BY <1>2, <1>6, <1>7 DEF Tell, Results
<1>9. Asked(id)' = Asked(id) /\ Tag(id)' = Tag(id)
  BY <1>8 DEF Asked, Tag
<1>10. x.op = id /\ x.amount = at[a].r.amount /\ x.claim = AbiClaim(ClaimBytes(Asked(id), TransferId(id)))
  BY <1>2, <1>3, <1>7
<1>11. TransferMade(id, x.amount)'
  BY <1>1, <1>2, <1>7, <1>9, <1>10 DEF TransferMade, Accepted
<1>12. BridgeRight(at[a])
  BY <1>2
<1>13. RelayRight(x)'
  <2>1. calls[id].asked.kind = "pay" \/ (calls[id].asked.kind = "intent" /\ x.amount = Amount)
    BY <1>7, <1>10, <1>12 DEF BridgeRight
  <2>2. ~Refused(Prepared(Asked(id)))
    BY <1>7, <1>12 DEF BridgeRight
  <2>. QED  BY <1>8, <1>9, <1>10, <1>11, <2>1, <2>2 DEF RelayRight
<1>14. result = "success" => Relayed(id)' # {}
  <2>1. evm.relayed \in {evm.relayed} /\ IsEvm(evm)
    BY DEF PaymentsRight, FormsRight
  <2>2. answer = "true" => x \in evm'.relayed
    BY <1>4, <2>1 DEF IsEvm
  <2>. QED  BY <1>5, <1>10, <2>2 DEF Relayed
<1>15. UNCHANGED evm \/ \E y : evm' = [evm EXCEPT !.relayed = @ \cup {y}] /\ y.op = id /\ RelayRight(y)'
  BY <1>4, <1>10, <1>13
<1>16. "relay" \in BridgePcs /\ result \in Tellings \ {"reverted", "unencodable"} /\ result # "error"
       /\ Spends(at[a], Idle)
  BY <1>1, <1>5 DEF BridgePcs, Tellings, Spends
<1>. QED  BY <1>1, <1>6, <1>7, <1>14, <1>15, <1>16, BridgeTells

-----------------------------------------------------------------------------
\* executeDeposit is called.
LEMMA DepositSteps ==
  ASSUME PaymentsRight, NEW a \in Actors, Deposit(a), Unserved
  PROVE  \E s : CallStep(a, s)
<1>1. PICK pc, kind, amount :
        /\ (pc = "native" /\ kind = "native") \/ (pc = "reserve" /\ kind = "deposit")
        /\ amount \in {Amount, 2 * Amount}
        /\ Start(a, pc, Request(kind, amount))
  BY DEF Deposit
<1>2. UNCHANGED ledgers /\ UNCHANGED jobs
  BY DEF Deposit, Unserved
<1>3. PICK r : r = Request(kind, amount)
  OBVIOUS
<1>4. r = [kind |-> kind, amount |-> amount, then |-> "return", attempts |-> 0] /\ amount \in Nat
  BY <1>1, <1>3, AmountAssumption DEF Request
<1>5. PICK s : s = Call(ops + 1, pc, r)
  OBVIOUS
<1>6. r.kind = kind /\ kind \in Kinds /\ kind # "intent"
  BY <1>1, <1>4 DEF Kinds
<1>7. s.pc = pc /\ s.r = r /\ calls'[s.id].asked.kind = kind
  BY <1>1, <1>3, <1>5, <1>6, StartForms
<1>8. DepositRight(s)'
  BY <1>1, <1>4, <1>7 DEF DepositRight
<1>9. CallRight(s)'
  BY <1>1, <1>7, <1>8, BeforeSets DEF CallRight, StagesRight, BridgePcs, DepositPcs, PayPcs
<1>10. JobsMove(a)
  BY <1>2 DEF JobsMove, PaymentsRight, FormsRight
<1>. QED  BY <1>1, <1>2, <1>3, <1>5, <1>6, <1>9, <1>10, Starts

\* smartDeposit is called.
LEMMA SmartDepositSteps ==
  ASSUME PaymentsRight, NEW a \in Actors, SmartDeposit(a), Unserved
  PROVE  \E s : CallStep(a, s)
<1>1. Start(a, "prepare", Request("smart", Amount)) /\ UNCHANGED ledgers /\ UNCHANGED jobs
  BY DEF SmartDeposit, Unserved
<1>2. PICK r : r = Request("smart", Amount)
  OBVIOUS
<1>3. r = [kind |-> "smart", amount |-> Amount, then |-> "return", attempts |-> 0] /\ Amount \in Nat
  BY <1>2, AmountAssumption DEF Request
<1>4. PICK s : s = Call(ops + 1, "prepare", r)
  OBVIOUS
<1>5. r.kind = "smart" /\ "smart" \in Kinds
  BY <1>3 DEF Kinds
<1>6. s.pc = "prepare" /\ s.r = r /\ calls'[s.id].asked.kind = "smart"
  BY <1>1, <1>2, <1>4, <1>5, StartForms
<1>7. DepositRight(s)'
  BY <1>3, <1>6 DEF DepositRight
<1>8. CallRight(s)'
  BY <1>6, <1>7, BeforeSets DEF CallRight, StagesRight, BridgePcs, DepositPcs, PayPcs
<1>9. JobsMove(a)
  BY <1>1 DEF JobsMove, PaymentsRight, FormsRight
<1>. QED  BY <1>1, <1>2, <1>4, <1>5, <1>8, <1>9, Starts

\* A deposit that goes on.
LEMMA DepositContinues ==
  ASSUME PaymentsRight, NEW a \in Actors, NEW pc \in DepositPcs, In(a, "payments", pc), NEW s,
         at' = [at EXCEPT ![a] = s], ops' = ops, UNCHANGED <<fast, calls, jobs>>,
         IsCall(s), s.id = at[a].id, s.pc \in DepositPcs, DepositRight(s)',
         EvmMoves(at[a], s), DepositMoves(a, s)
  PROVE  CallStep(a, s)
<1>1. at[a] # Idle /\ at[a].pc = pc
  BY CallForms
<1>2. CallRight(s)'
  BY BeforeSets DEF CallRight, StagesRight, BridgePcs, DepositPcs, PayPcs
<1>3. Follows(at[a], s) /\ Spends(at[a], s) /\ JobsMove(a)
  BY <1>1, BeforeSets DEF Follows, TxKinds, DepositPcs, Spends, JobsMove, PaymentsRight, FormsRight
<1>. QED  BY <1>1, <1>2, <1>3, GoesOn

\* The reserve is checked.
LEMMA EnsureGasReserveSteps ==
  ASSUME PaymentsRight, NEW a \in Actors, EnsureGasReserve(a), Unserved
  PROVE  \E s : CallStep(a, s)
<1>1. In(a, "payments", "reserve") /\ UNCHANGED <<fast, evm, jobs>>
  BY DEF EnsureGasReserve, Unserved, ledgers
<1>2. /\ IsCall(at[a]) /\ at[a] # Idle /\ at[a].pc = "reserve" /\ DepositRight(at[a]) /\ Doing(a) = at[a].id
      /\ "reserve" \in DepositPcs
  BY <1>1, CallForms DEF CallRight, DepositPcs
<1>3. ASSUME NEW fault, Tell(a, "error", fault)
      PROVE  \E s : CallStep(a, s)
  <2>1. "error" \in Tellings /\ EvmMoves(at[a], Idle)
    BY <1>1 DEF Tellings, EvmMoves
  <2>. QED  BY <1>1, <1>2, <1>3, <2>1, DepositTells
<1>4. ASSUME ~(GasToken /\ BalanceOf < at[a].r.amount + Reserve), Step(a, [at[a] EXCEPT !.pc = "approve"], FALSE), Keep
      PROVE  \E s : CallStep(a, s)
  <2>1. PICK s : s = [at[a] EXCEPT !.pc = "approve"]
    OBVIOUS
  <2>2. IsCall(s) /\ s.id = at[a].id /\ s.r = at[a].r /\ s.pc = "approve"
    BY <1>2, <2>1 DEF IsCall
  <2>3. UNCHANGED calls /\ at' = [at EXCEPT ![a] = s] /\ ops' = ops
    BY <1>4, <2>1 DEF Step, Keep
  <2>4. DepositRight(s)'
    BY <1>2, <2>2, <2>3 DEF DepositRight
  <2>5. GasToken /\ evm.balance \in Int => BalanceOf >= at[a].r.amount + Reserve
    <3>1. evm.balance \in Int => BalanceOf \in Int
      BY ScaleAssumption DEF BalanceOf
    <3>2. at[a].r.amount \in Nat
      BY <1>2 DEF DepositRight
    <3>3. Reserve \in Int
      BY ScaleAssumption, FundsAssumption DEF Reserve, WeiToTokenUnits, EstimateGasReserve, Multiplier
    <3>. QED  BY <1>4, <3>1, <3>2, <3>3
  <2>6. DepositMoves(a, s)
    BY <1>1, <1>2, <2>2, <2>3, <2>5 DEF DepositMoves
  <2>7. EvmMoves(at[a], s) /\ s.pc \in DepositPcs
    BY <1>1, <2>2 DEF EvmMoves, DepositPcs
  <2>. QED  BY <1>1, <1>2, <2>2, <2>3, <2>4, <2>6, <2>7, DepositContinues
<1>. QED  BY <1>3, <1>4 DEF EnsureGasReserve

\* An approval or a deposit is sent and mined.
LEMMA SendTxSteps ==
  ASSUME PaymentsRight, NEW a \in Actors, ApproveErc20(a) \/ SendDeposit(a), Unserved
  PROVE  \E s : CallStep(a, s)
<1>1. PICK pc \in SendingPcs : In(a, "payments", pc)
  BY DEF ApproveErc20, SendDeposit, SendingPcs
<1>2. SendTx(a) /\ UNCHANGED <<fast, jobs>>
  BY DEF ApproveErc20, SendDeposit, SendTx, Unserved
<1>3. /\ IsCall(at[a]) /\ at[a] # Idle /\ at[a].pc = pc /\ DepositRight(at[a]) /\ Doing(a) = at[a].id
      /\ pc \in DepositPcs
  BY <1>1, CallForms DEF CallRight, DepositPcs, SendingPcs
<1>4. PICK t : t = Sent(at[a])
  OBVIOUS
<1>5. \/ evm' = AfterMining(t) /\ Mined(a, Succeeds(t))
      \/ evm' \in {evm, AfterMining(t)} /\ Tell(a, "error", TRUE)
  BY <1>2, <1>4 DEF SendTx, Sent
<1>6. ASSUME NEW result \in Tellings, NEW fault, Tell(a, result, fault), evm' \in {evm, AfterMining(t)},
             result = "reverted" => ~Succeeds(t)
      PROVE  \E s : CallStep(a, s)
  <2>1. EvmMoves(at[a], Idle)
    BY <1>1, <1>3, <1>4, <1>6 DEF EvmMoves
  <2>. QED  BY <1>1, <1>2, <1>3, <1>4, <1>6, <2>1, DepositTells
<1>7. ASSUME evm' = AfterMining(t), Succeeds(t), pc = "approve", Step(a, [at[a] EXCEPT !.pc = "deposit"], FALSE), Keep
      PROVE  \E s : CallStep(a, s)
  <2>1. PICK s : s = [at[a] EXCEPT !.pc = "deposit"]
    OBVIOUS
  <2>2. IsCall(s) /\ s.id = at[a].id /\ s.r = at[a].r /\ s.pc = "deposit"
    BY <1>3, <2>1 DEF IsCall
  <2>3. UNCHANGED calls /\ at' = [at EXCEPT ![a] = s] /\ ops' = ops
    BY <1>7, <2>1 DEF Step, Keep
  <2>4. DepositRight(s)'
    BY <1>3, <1>7, <2>2, <2>3 DEF DepositRight
  <2>5. DepositMoves(a, s)
    BY <1>3, <1>4, <1>7, <2>2, <2>3 DEF DepositMoves
  <2>6. EvmMoves(at[a], s) /\ s.pc \in DepositPcs
    BY <1>1, <1>3, <1>4, <1>7, <2>2 DEF EvmMoves, DepositPcs
  <2>. QED  BY <1>1, <1>2, <1>3, <2>2, <2>3, <2>4, <2>5, <2>6, DepositContinues
<1>8. "success" \in Tellings /\ "reverted" \in Tellings /\ "error" \in Tellings
  BY DEF Tellings
<1>9. CASE evm' = AfterMining(t) /\ Mined(a, Succeeds(t))
  <2>1. CASE Succeeds(t) /\ pc = "approve"
    BY <1>3, <1>7, <1>9, <2>1 DEF Mined
  <2>2. CASE Succeeds(t) /\ pc # "approve"
    BY <1>3, <1>6, <1>8, <1>9, <2>2 DEF Mined
  <2>3. CASE ~Succeeds(t)
    BY <1>3, <1>6, <1>8, <1>9, <2>3 DEF Mined
  <2>. QED  BY <2>1, <2>2, <2>3
<1>10. CASE evm' \in {evm, AfterMining(t)} /\ Tell(a, "error", TRUE)
  BY <1>6, <1>8, <1>10
<1>. QED  BY <1>5, <1>9, <1>10

\* The user operation is prepared, at most three times.
LEMMA PrepareSteps ==
  ASSUME PaymentsRight, NEW a \in Actors, Prepare(a), Unserved
  PROVE  \E s : CallStep(a, s)
<1>1. In(a, "payments", "prepare") /\ UNCHANGED <<fast, evm, jobs>>
  BY DEF Prepare, Unserved, ledgers
<1>2. /\ IsCall(at[a]) /\ at[a] # Idle /\ at[a].pc = "prepare" /\ DepositRight(at[a]) /\ Doing(a) = at[a].id
      /\ "prepare" \in DepositPcs
  BY <1>1, CallForms DEF CallRight, DepositPcs
<1>3. ASSUME NEW fault, Tell(a, "error", fault)
      PROVE  \E s : CallStep(a, s)
  <2>1. "error" \in Tellings /\ EvmMoves(at[a], Idle)
    BY <1>1 DEF Tellings, EvmMoves
  <2>. QED  BY <1>1, <1>2, <1>3, <2>1, DepositTells
<1>4. ASSUME NEW s, NEW fault, Step(a, s, fault), Keep, IsCall(s), s.id = at[a].id, s.pc \in {"prepare", "submit"},
             s.r = [at[a].r EXCEPT !.attempts = s.r.attempts]
      PROVE  \E c : CallStep(a, c)
  <2>1. UNCHANGED calls /\ at' = [at EXCEPT ![a] = s] /\ ops' = ops
    BY <1>4 DEF Step, Keep
  <2>2. s.r = [kind |-> calls[at[a].id].asked.kind, amount |-> at[a].r.amount, then |-> "return",
               attempts |-> s.r.attempts] /\ at[a].r.kind = "smart" /\ calls[at[a].id].asked.kind = "smart"
        /\ at[a].r.amount \in Nat
    BY <1>2, <1>4 DEF DepositRight
  <2>3. DepositRight(s)'
    BY <1>4, <2>1, <2>2 DEF DepositRight
  <2>4. DepositMoves(a, s)
    BY <1>2, <1>4, <2>1 DEF DepositMoves
  <2>5. EvmMoves(at[a], s) /\ s.pc \in DepositPcs
    BY <1>1, <1>4 DEF EvmMoves, DepositPcs
  <2>. QED  BY <1>1, <1>2, <1>4, <2>1, <2>3, <2>4, <2>5, DepositContinues
<1>5. ASSUME NEW key, Step(a, [at[a] EXCEPT !.pc = "submit", !.key = key], FALSE), Keep
      PROVE  \E c : CallStep(a, c)
  <2>1. PICK s : s = [at[a] EXCEPT !.pc = "submit", !.key = key]
    OBVIOUS
  <2>2. IsCall(s) /\ s.id = at[a].id /\ s.r = at[a].r /\ s.pc = "submit"
    BY <1>2, <2>1 DEF IsCall
  <2>3. s.r = [at[a].r EXCEPT !.attempts = s.r.attempts]
    BY <1>2, <2>2 DEF DepositRight
  <2>. QED  BY <1>4, <1>5, <2>1, <2>2, <2>3
<1>6. ASSUME Step(a, [at[a] EXCEPT !.r.attempts = @ + 1], TRUE), Keep
      PROVE  \E c : CallStep(a, c)
  <2>1. PICK s : s = [at[a] EXCEPT !.r.attempts = @ + 1]
    OBVIOUS
  <2>2. IsCall(s) /\ s.id = at[a].id /\ s.r = [at[a].r EXCEPT !.attempts = at[a].r.attempts + 1] /\ s.pc = "prepare"
    BY <1>2, <2>1 DEF IsCall
  <2>3. s.r = [at[a].r EXCEPT !.attempts = s.r.attempts]
    BY <1>2, <2>2 DEF DepositRight
  <2>. QED  BY <1>4, <1>6, <2>1, <2>2, <2>3
<1>. QED  BY <1>3, <1>5, <1>6 DEF Prepare

\* The user operation is submitted once.
LEMMA SubmitUserOpSteps ==
  ASSUME PaymentsRight, NEW a \in Actors, SubmitUserOp(a), Unserved
  PROVE  \E s : CallStep(a, s)
<1>1. In(a, "payments", "submit") /\ UNCHANGED <<fast, jobs>>
  BY DEF SubmitUserOp, Unserved
<1>2. at[a] # Idle /\ at[a].pc = "submit" /\ "submit" \in DepositPcs
  BY <1>1, CallForms DEF DepositPcs
<1>3. PICK lost \in BOOLEAN : \E taken \in BOOLEAN :
        /\ evm' = IF taken
                    THEN [evm EXCEPT !.waiting = @ \cup {Tx("userop", at[a].id, at[a].r.amount, at[a].key, "bridge")}]
                    ELSE evm
        /\ AfterSubmit(a, lost)
  BY DEF SubmitUserOp
<1>4. PICK result : result = IF lost THEN "error" ELSE "success"
  OBVIOUS
<1>5. Tell(a, result, lost) /\ result \in Tellings /\ result # "reverted"
  BY <1>3, <1>4 DEF AfterSubmit, Tellings
<1>6. EvmMoves(at[a], Idle)
  BY <1>2, <1>3 DEF EvmMoves
<1>. QED  BY <1>1, <1>2, <1>5, <1>6, DepositTells

-----------------------------------------------------------------------------
\* x402Pay is called.
LEMMA PaySteps ==
  ASSUME PaymentsRight, NEW a \in Actors, Pay(a)
  PROVE  \E s : CallStep(a, s)
<1>1. PICK network : \E r \in Callers(RouteTerms(network)) : Start(a, "request", r)
  BY DEF Pay
<1>2. PICK r \in Callers(RouteTerms(network)) : Start(a, "request", r)
  BY <1>1
<1>3. r.kind = "pay" /\ "pay" \in Kinds
  BY DEF Callers, Kinds
<1>4. PICK s : s = Call(ops + 1, "request", r)
  OBVIOUS
<1>5. s.pc = "request" /\ calls'[s.id].asked.kind = "pay" /\ calls'[s.id].bridge = "none"
  BY <1>2, <1>3, <1>4, StartForms
<1>6. CallRight(s)'
  BY <1>5, BeforeSets DEF CallRight, StagesRight, BridgePcs, DepositPcs, PayPcs
<1>7. UNCHANGED ledgers /\ JobsMove(a)
  BY DEF Pay, Unserved, JobsMove, PaymentsRight, FormsRight
<1>. QED  BY <1>2, <1>3, <1>4, <1>6, <1>7, Starts

\* A purchase that goes on, and one that ends, without a trace on a ledger.
LEMMA PurchaseContinues ==
  ASSUME PaymentsRight, NEW a \in Actors, NEW pc \in PayPcs \ {"answer"}, In(a, "payments", pc),
         NEW s, NEW fault, Step(a, s, fault), UNCHANGED <<fast, evm, calls, jobs>>,
         IsCall(s), s.id = at[a].id, s.pc \in PayPcs \ {"fastBalance", "answer"},
         s.pc \in Before("bridge") => pc \in Before("bridge"),
         s.pc \in Before("payment") => pc \in Before("payment"),
         s.pc = "paid" => Genuine(s.bytes.body)
  PROVE  \E c : CallStep(a, c)
<1>1. at[a] # Idle /\ at[a].pc = pc /\ CallRight(at[a])
  BY CallForms
<1>2. at' = [at EXCEPT ![a] = s] /\ ops' = ops
  BY DEF Step
<1>3. s.pc = "paid" => Genuine(s.bytes.body)'
  BY DEF Genuine
<1>4. CallRight(s)'
  BY <1>1, <1>3, BeforeSets DEF CallRight, StagesRight, BridgePcs, DepositPcs, PayPcs
<1>5. Follows(at[a], s) /\ Spends(at[a], s)
  BY <1>1, BeforeSets DEF Follows, TxKinds, DepositPcs, PayPcs, Spends
<1>6. s.pc \notin {"approve", "deposit"}
  BY DEF PayPcs
<1>. QED  BY <1>2, <1>4, <1>5, <1>6, Continues

\* A payment that ends with a result.
LEMMA PurchaseEnds ==
  ASSUME PaymentsRight, NEW a \in Actors, NEW pc, In(a, "payments", pc), NEW result \in Tellings \ {"reverted"},
         NEW fault, End(a, result, fault), UNCHANGED <<fast, evm, jobs>>
  PROVE  \E c : CallStep(a, c)
<1>1. at[a] # Idle
  BY CallForms
<1>2. Spends(at[a], Idle) /\ JobsMove(a)
  BY DEF Spends, JobsMove, PaymentsRight, FormsRight
<1>. QED  BY <1>1, <1>2, Ends

\* The terms are asked for.
LEMMA RequestContentSteps ==
  ASSUME PaymentsRight, NEW a \in Actors, RequestContent(a)
  PROVE  \E s : CallStep(a, s)
<1>1. In(a, "payments", "request") /\ UNCHANGED <<fast, evm, jobs>> /\ "request" \in PayPcs \ {"answer"}
  BY DEF RequestContent, Unserved, ledgers, PayPcs
<1>2. IsCall(at[a])
  BY <1>1, CallForms
<1>3. ASSUME NEW offer, NEW pc \in {"payNonce", "balance"}, Keep,
             Step(a, [at[a] EXCEPT !.pc = pc, !.r.terms = offer], FALSE)
      PROVE  \E s : CallStep(a, s)
  <2>1. PICK s : s = [at[a] EXCEPT !.pc = pc, !.r.terms = offer]
    OBVIOUS
  <2>2. IsCall(s) /\ s.id = at[a].id /\ s.pc = pc
    BY <1>2, <2>1 DEF IsCall
  <2>3. pc \in PayPcs \ {"fastBalance", "answer"} /\ pc # "paid"
    BY DEF PayPcs
  <2>. QED  BY <1>1, <1>3, <2>1, <2>2, <2>3, BeforeSets, PurchaseContinues DEF Keep
<1>4. ASSUME NEW fault, End(a, "error", fault)
      PROVE  \E s : CallStep(a, s)
  BY <1>1, <1>4, PurchaseEnds DEF Tellings
<1>5. PICK way \in {"fast", "evm"} : \E offer :
        \/ /\ Step(a, [at[a] EXCEPT !.pc = IF way = "fast" THEN "payNonce" ELSE "balance", !.r.terms = offer], FALSE)
           /\ Keep
        \/ \E fault : End(a, "error", fault)
  BY DEF RequestContent
<1>6. CASE way = "fast"
  BY <1>3, <1>4, <1>5, <1>6
<1>7. CASE way = "evm"
  BY <1>3, <1>4, <1>5, <1>7
<1>. QED  BY <1>6, <1>7

\* The nonce of a Fast payment is read.
LEMMA PaymentNonceSteps ==
  ASSUME PaymentsRight, NEW a \in Actors, PaymentNonce(a)
  PROVE  \E s : CallStep(a, s)
<1>1. In(a, "payments", "payNonce") /\ UNCHANGED <<fast, evm, jobs>> /\ "payNonce" \in PayPcs \ {"answer"}
  BY DEF PaymentNonce, Unserved, ledgers, PayPcs
<1>2. IsCall(at[a])
  BY <1>1, CallForms
<1>3. ASSUME Step(a, [at[a] EXCEPT !.pc = "pay", !.nonce = fast.nonce], FALSE), Keep
      PROVE  \E s : CallStep(a, s)
  <2>1. PICK s : s = [at[a] EXCEPT !.pc = "pay", !.nonce = fast.nonce]
    OBVIOUS
  <2>2. IsCall(s) /\ s.id = at[a].id /\ s.pc = "pay"
    BY <1>2, <2>1 DEF IsCall
  <2>3. s.pc \in PayPcs \ {"fastBalance", "answer"}
    BY <2>2 DEF PayPcs
  <2>. QED  BY <1>1, <1>3, <2>1, <2>2, <2>3, BeforeSets, PurchaseContinues DEF Keep
<1>4. ASSUME End(a, "error", TRUE)
      PROVE  \E s : CallStep(a, s)
  BY <1>1, <1>4, PurchaseEnds DEF Tellings
<1>. QED  BY <1>3, <1>4 DEF PaymentNonce

\* The body of a payment is what it was built from, in either version.
LEMMA BuiltBody ==
  ASSUME NEW r, NEW body
  PROVE  Built(r, body).body = body
BY DEF Built, Payload, ToV2PaymentPayload

\* The Fast payment is submitted, and what is presented of it is genuine.
LEMMA SubmitPaymentSteps ==
  ASSUME PaymentsRight, NEW a \in Actors, SubmitPayment(a)
  PROVE  \E s : CallStep(a, s)
<1>1. In(a, "payments", "pay") /\ UNCHANGED <<evm, jobs>>
  BY DEF SubmitPayment, Unserved
<1>2. IsCall(at[a]) /\ at[a] # Idle /\ at[a].pc = "pay" /\ CallRight(at[a])
  BY <1>1, CallForms
<1>3. PICK p : p = PaymentTx(a)
  OBVIOUS
<1>4. p.op = at[a].id /\ p.kind = "payment" /\ [p EXCEPT !.to = "other"].to = "other"
  BY <1>3 DEF PaymentTx
<1>5. PICK reply \in {"Success", "rejected"} \cup Unclear :
        /\ Submit(p, reply)
        /\ LET fault == SubmitFault(p, reply) IN
           IF reply \in {"Success", "other"}
             THEN \E tx \in IF reply = "Success" THEN {p} ELSE {[p EXCEPT !.to = "other"]} :
                    /\ Step(a, [at[a] EXCEPT !.pc = "paid", !.bytes = Built(at[a].r, Quorum(tx))], fault)
                    /\ Keep
             ELSE End(a, "error", fault)
  BY <1>3 DEF SubmitPayment
<1>6. PICK fault : fault = SubmitFault(p, reply)
  OBVIOUS
<1>7. \/ fast'.txs = fast.txs \cup {p} /\ reply \in {"Success", "lost", "other", "incomplete"}
      \/ fast' = fast /\ reply \in {"rejected", "lost", "incomplete"}
  BY <1>5, SubmitForms
<1>8. JobsMove(a)
  BY <1>1 DEF JobsMove, PaymentsRight, FormsRight
<1>9. CASE reply \in {"Success", "other"}
  <2>1. PICK tx \in IF reply = "Success" THEN {p} ELSE {[p EXCEPT !.to = "other"]} :
          Step(a, [at[a] EXCEPT !.pc = "paid", !.bytes = Built(at[a].r, Quorum(tx))], fault) /\ Keep
    BY <1>5, <1>6, <1>9
  <2>2. fast'.txs = fast.txs \cup {p} /\ (tx \in fast'.txs \/ tx.to = "other")
    BY <1>4, <1>7, <1>9
  <2>3. PICK s : s = [at[a] EXCEPT !.pc = "paid", !.bytes = Built(at[a].r, Quorum(tx))]
    OBVIOUS
  <2>4a. IsCall(s) /\ s.id = at[a].id /\ s.pc = "paid" /\ s.bytes = Built(at[a].r, Quorum(tx))
    BY <1>2, <2>3 DEF IsCall
  <2>4. IsCall(s) /\ s.id = at[a].id /\ s.pc = "paid" /\ s.bytes.body = Quorum(tx)
    BY <2>4a, BuiltBody
  <2>5. UNCHANGED calls /\ at' = [at EXCEPT ![a] = s] /\ ops' = ops
    BY <2>1, <2>3 DEF Step, Keep
  <2>6. Quorum(tx).tx = tx
    BY DEF Quorum, Certificate
  <2>7. Genuine(s.bytes.body)'
    BY <2>2, <2>4, <2>6 DEF Genuine
  <2>8. CallRight(s)'
    BY <1>2, <2>4, <2>5, <2>7, BeforeSets DEF CallRight, StagesRight, BridgePcs, DepositPcs, PayPcs
  <2>9. Follows(at[a], s) /\ Spends(at[a], s)
    BY <1>2, <1>4, <2>2, <2>4, BeforeSets DEF Follows, TxKinds, DepositPcs, Spends
  <2>. QED  BY <1>1, <2>4, <2>5, <2>8, <2>9, Continues
<1>10. CASE reply \notin {"Success", "other"}
  <2>1. End(a, "error", fault) /\ "error" \in Tellings
    BY <1>5, <1>6, <1>10 DEF Tellings
  <2>2. Spends(at[a], Idle)
    BY <1>2, <1>4, <1>7, BeforeSets DEF Spends, TxKinds
  <2>3. at[a].pc \notin Before("bridge")
    BY <1>2, BeforeSets
  <2>. QED  BY <1>1, <1>2, <1>8, <2>1, <2>2, <2>3, Ends
<1>. QED  BY <1>9, <1>10

\* The withdrawal of a payment can always be written.
LEMMA WithdrawalPrepared ==
  ASSUME NEW r, r.encoding = "legacy", r.intents = Withdrawal
  PROVE  ~Refused(Prepared(r))
<1>1. Withdrawal \in Seq(Intents)
  BY IntentForms
<1>2. \A i \in DOMAIN Withdrawal : Withdrawal[i].value = 0
  BY DEF Withdrawal, BuildTransferIntent, Intent
<1>3. Prepared(r) = [transfer |-> 0, deadline |-> 1, intents |-> Withdrawal]
  BY <1>2, ClaimBounds DEF Prepared, EncodeIntentClaim
<1>4. Prepared(r) \in AbiClaims
  BY <1>1, <1>3 DEF AbiClaims
<1>. QED  BY <1>4, RefusalAssumption DEF Refused

\* The EVM balance decides whether to bridge.
LEMMA EvmBalanceSteps ==
  ASSUME PaymentsRight, NEW a \in Actors, EvmBalance(a)
  PROVE  \E s : CallStep(a, s)
<1>1. In(a, "payments", "balance") /\ UNCHANGED <<fast, evm, jobs>> /\ "balance" \in PayPcs \ {"answer"}
  BY DEF EvmBalance, Unserved, ledgers, PayPcs
<1>2. /\ IsCall(at[a]) /\ at[a].pc = "balance" /\ CallRight(at[a]) /\ at[a].id \in 1..MaxOps
      /\ calls[at[a].id] \in Results
  BY <1>1, CallForms
<1>3. ASSUME Step(a, [at[a] EXCEPT !.pc = "authorize"], FALSE), Keep
      PROVE  \E s : CallStep(a, s)
  <2>1. PICK s : s = [at[a] EXCEPT !.pc = "authorize"]
    OBVIOUS
  <2>2. IsCall(s) /\ s.id = at[a].id /\ s.pc = "authorize"
    BY <1>2, <2>1 DEF IsCall
  <2>3. s.pc \in PayPcs \ {"fastBalance", "answer"}
    BY <2>2 DEF PayPcs
  <2>. QED  BY <1>1, <1>3, <2>1, <2>2, <2>3, BeforeSets, PurchaseContinues DEF Keep
<1>4. ASSUME NEW fault, NEW missing, Keep,
             Step(a, [at[a] EXCEPT !.pc = "fastBalance", !.r = Bridging(at[a].r, missing)], fault)
      PROVE  \E s : CallStep(a, s)
  <2>1. PICK s : s = [at[a] EXCEPT !.pc = "fastBalance", !.r = Bridging(at[a].r, missing)]
    OBVIOUS
  <2>2. IsCall(s) /\ s.id = at[a].id /\ s.pc = "fastBalance" /\ s.r = Bridging(at[a].r, missing)
    BY <1>2, <2>1 DEF IsCall
  <2>3. at' = [at EXCEPT ![a] = s] /\ ops' = ops /\ UNCHANGED calls
    BY <1>4, <2>1 DEF Step, Keep
  <2>4. calls[s.id].asked.kind = "pay" /\ calls[s.id].asked.encoding = "legacy"
    BY <1>2, <2>2 DEF CallRight, PayPcs, Results, Requests
  <2>5. Asked(s.id) = IntentRequest("legacy", Withdrawal) /\ Asked(s.id)' = Asked(s.id)
    BY <2>3, <2>4 DEF Asked
  <2>6. ~Refused(Prepared(Asked(s.id)))
    <3>1. IntentRequest("legacy", Withdrawal).encoding = "legacy"
          /\ IntentRequest("legacy", Withdrawal).intents = Withdrawal
      BY DEF IntentRequest
    <3>. QED  BY <2>5, <3>1, WithdrawalPrepared
  <2>7. s.r = [Asked(s.id) EXCEPT !.amount = s.r.amount, !.then = s.r.then, !.outer = s.r.outer] /\ s.r.then = "poll"
    BY <2>2, <2>5 DEF Bridging, IntentRequest
  <2>8. BridgeRight(s)'
    BY <2>3, <2>4, <2>5, <2>6, <2>7 DEF BridgeRight
  <2>9. CallRight(s)'
    BY <1>2, <2>2, <2>3, <2>4, <2>8, BeforeSets DEF CallRight, StagesRight, BridgePcs, DepositPcs, PayPcs
  <2>10. Follows(at[a], s) /\ Spends(at[a], s)
    BY <1>1, <1>2, <2>2, BeforeSets DEF Follows, TxKinds, DepositPcs, Spends
  <2>. QED  BY <1>1, <2>2, <2>3, <2>9, <2>10, Continues DEF Keep
<1>5. ASSUME NEW fault, End(a, "error", fault)
      PROVE  \E s : CallStep(a, s)
  BY <1>1, <1>5, PurchaseEnds DEF Tellings
<1>. QED  BY <1>3, <1>4, <1>5 DEF EvmBalance

\* The Fast balance has to cover the bridge transfer.
LEMMA FastBalanceSteps ==
  ASSUME PaymentsRight, NEW a \in Actors, FastBalance(a)
  PROVE  \E s : CallStep(a, s)
<1>1. In(a, "payments", "fastBalance") /\ UNCHANGED <<fast, evm, jobs>>
  BY DEF FastBalance, Unserved, ledgers
<1>2. IsCall(at[a]) /\ at[a].pc = "fastBalance" /\ CallRight(at[a]) /\ BridgeRight(at[a])
  BY <1>1, CallForms DEF CallRight
<1>3. ASSUME Step(a, [at[a] EXCEPT !.pc = "account"], FALSE), Keep
      PROVE  \E s : CallStep(a, s)
  <2>1. PICK s : s = [at[a] EXCEPT !.pc = "account"]
    OBVIOUS
  <2>2. IsCall(s) /\ s.id = at[a].id /\ s.pc = "account" /\ s.r = at[a].r
    BY <1>2, <2>1 DEF IsCall
  <2>3. at' = [at EXCEPT ![a] = s] /\ ops' = ops /\ UNCHANGED calls
    BY <1>3, <2>1 DEF Step, Keep
  <2>4. BridgeRight(s)'
    BY <1>1, <1>2, <2>2, <2>3, SameRequest
  <2>5. CallRight(s)'
    BY <1>2, <2>2, <2>3, <2>4, BeforeSets DEF CallRight, StagesRight, BridgePcs, DepositPcs, PayPcs
  <2>6. Follows(at[a], s) /\ Spends(at[a], s)
    BY <1>1, <1>2, <2>2, BeforeSets DEF Follows, TxKinds, DepositPcs, Spends
  <2>. QED  BY <1>1, <2>2, <2>3, <2>5, <2>6, Continues
<1>4. ASSUME NEW fault, End(a, "error", fault)
      PROVE  \E s : CallStep(a, s)
  BY <1>1, <1>4, PurchaseEnds DEF Tellings
<1>. QED  BY <1>3, <1>4 DEF FastBalance

\* The bridged amount is waited for.
LEMMA PollSteps ==
  ASSUME PaymentsRight, NEW a \in Actors, PollForBalance(a)
  PROVE  \E s : CallStep(a, s)
<1>1. In(a, "payments", "poll") /\ UNCHANGED <<fast, evm, jobs>> /\ "poll" \in PayPcs \ {"answer"}
  BY DEF PollForBalance, Unserved, ledgers, PayPcs
<1>2. IsCall(at[a])
  BY <1>1, CallForms
<1>3. ASSUME Step(a, [at[a] EXCEPT !.pc = "authorize"], FALSE), Keep
      PROVE  \E s : CallStep(a, s)
  <2>1. PICK s : s = [at[a] EXCEPT !.pc = "authorize"]
    OBVIOUS
  <2>2. IsCall(s) /\ s.id = at[a].id /\ s.pc = "authorize"
    BY <1>2, <2>1 DEF IsCall
  <2>3. s.pc \in PayPcs \ {"fastBalance", "answer"}
    BY <2>2 DEF PayPcs
  <2>. QED  BY <1>1, <1>3, <2>1, <2>2, <2>3, BeforeSets, PurchaseContinues DEF Keep
<1>4. ASSUME End(a, "error", TRUE)
      PROVE  \E s : CallStep(a, s)
  BY <1>1, <1>4, PurchaseEnds DEF Tellings
<1>. QED  BY <1>3, <1>4 DEF PollForBalance

\* The authorization is signed.
LEMMA AuthorizeSteps ==
  ASSUME PaymentsRight, NEW a \in Actors, Authorize(a)
  PROVE  \E s : CallStep(a, s)
<1>1. In(a, "payments", "authorize") /\ UNCHANGED <<fast, evm, calls, jobs>> /\ "authorize" \in PayPcs \ {"answer"}
  BY DEF Authorize, Unserved, ledgers, PayPcs
<1>2. IsCall(at[a])
  BY <1>1, CallForms
<1>3. PICK body : body = Authorization(at[a].id, at[a].r.terms.payTo, at[a].r.terms.amount, at[a].r.terms.asset)
  OBVIOUS
<1>4. body.kind = "evm"
  BY <1>3 DEF Authorization
<1>5. PICK s : s = [at[a] EXCEPT !.pc = "paid", !.bytes = Built(at[a].r, body)]
  OBVIOUS
<1>6. Step(a, s, FALSE)
  BY <1>3, <1>5 DEF Authorize
<1>7. IsCall(s) /\ s.id = at[a].id /\ s.pc = "paid" /\ s.bytes.body = body
  BY <1>2, <1>5, BuiltBody DEF IsCall
<1>8. Genuine(s.bytes.body) /\ s.pc \in PayPcs \ {"fastBalance", "answer"}
  BY <1>4, <1>7 DEF Genuine, PayPcs
<1>. QED  BY <1>1, <1>6, <1>7, <1>8, BeforeSets, PurchaseContinues

\* A request that arrives is judged by what the route asks, with the payment it came with.
LEMMA Arrives ==
  ASSUME PaymentsRight, NEW a \in Actors, NEW i \in 1..MaxOps, i = Doing(a),
         NEW native, NEW payload, NEW network, Arrive(i, native, payload, RouteTerms(network)),
         Genuine(payload.body)', calls'[i].asked.kind \in {"pay", "present"}
  PROVE  JobsMove(a)
<1>1. jobs = [k \in 1..MaxOps |-> jobs[k]]
  BY DEF PaymentsRight, FormsRight
<1>2. PICK j : j = [step |-> "arrived", native |-> native, payload |-> payload, terms |-> RouteTerms(network),
                    answer |-> "none"]
  OBVIOUS
<1>3. jobs' = [jobs EXCEPT ![i] = j]
  BY <1>2 DEF Arrive
<1>4. jobs'[i] = j /\ jobs' = [k \in 1..MaxOps |-> jobs'[k]] /\ \A k \in 1..MaxOps : k # i => jobs'[k] = jobs[k]
  BY <1>1, <1>3
<1>5. IsJob(j) /\ j.step = "arrived" /\ j.payload = payload /\ j.terms = RouteTerms(network) /\ j.answer = "none"
  BY <1>2 DEF IsJob
<1>6. j.terms.payTo = "shop" /\ j.terms.amount = Cost /\ j.terms.asset = "usdc"
  BY <1>5 DEF RouteTerms, Requirement
<1>7. JobRight(i)'
  BY <1>4, <1>5, <1>6 DEF JobRight
<1>8. \A k \in 1..MaxOps : k = i => JobRight(k)'
  BY <1>7
<1>. QED  BY <1>4, <1>5, <1>8 DEF JobsMove

\* The paid request is sent.
LEMMA SendPaidRequestSteps ==
  ASSUME PaymentsRight, NEW a \in Actors, SendPaidRequest(a)
  PROVE  \E s : CallStep(a, s)
<1>1. In(a, "payments", "paid") /\ UNCHANGED <<fast, evm>>
  BY DEF SendPaidRequest, ledgers
<1>2. /\ IsCall(at[a]) /\ at[a] # Idle /\ at[a].pc = "paid" /\ CallRight(at[a]) /\ at[a].id \in 1..MaxOps
      /\ Doing(a) = at[a].id
  BY <1>1, CallForms
<1>3. ASSUME Arrive(at[a].id, at[a].bytes.v = 2, at[a].bytes, RouteTerms(ToLegacyNetwork(at[a].r.terms.network))),
             Goto(a, "answer"), Keep
      PROVE  \E s : CallStep(a, s)
  <2>1. PICK s : s = [at[a] EXCEPT !.pc = "answer"]
    OBVIOUS
  <2>2. IsCall(s) /\ s.id = at[a].id /\ s.pc = "answer"
    BY <1>2, <2>1 DEF IsCall
  <2>3. at' = [at EXCEPT ![a] = s] /\ ops' = ops /\ UNCHANGED calls
    BY <1>3, <2>1 DEF Goto, Go, Keep
  <2>4. calls[at[a].id].asked.kind = "pay" /\ Genuine(at[a].bytes.body)
    BY <1>2 DEF CallRight, StagesRight, PayPcs
  <2>5. CallRight(s)'
    BY <2>2, <2>3, <2>4, BeforeSets DEF CallRight, StagesRight, BridgePcs, DepositPcs, PayPcs
  <2>6. JobsMove(a)
    <3>1. PICK payload, i, native, network :
            /\ payload = at[a].bytes /\ i = at[a].id /\ native = (at[a].bytes.v = 2)
            /\ network = ToLegacyNetwork(at[a].r.terms.network)
      OBVIOUS
    <3>2. Genuine(payload.body)'
      BY <1>1, <2>4, <3>1 DEF Genuine
    <3>3. calls'[i].asked.kind \in {"pay", "present"}
      BY <2>3, <2>4, <3>1
    <3>. QED  BY <1>2, <1>3, <3>1, <3>2, <3>3, Arrives
  <2>7. Follows(at[a], s) /\ Spends(at[a], s) /\ EvmMoves(at[a], s)
    BY <1>1, <1>2, <2>2, BeforeSets DEF Follows, TxKinds, DepositPcs, Spends, EvmMoves
  <2>8. DepositMoves(a, s)
    BY <1>2, <2>2, <2>3 DEF DepositMoves
  <2>. QED  BY <1>2, <2>2, <2>3, <2>5, <2>6, <2>7, <2>8, GoesOn DEF Keep
<1>4. ASSUME End(a, "error", TRUE), UNCHANGED jobs
      PROVE  \E s : CallStep(a, s)
  BY <1>1, <1>4, PurchaseEnds DEF Tellings
<1>. QED  BY <1>3, <1>4 DEF SendPaidRequest

\* The answer to the paid request is read.
LEMMA ReadAnswerSteps ==
  ASSUME PaymentsRight, NEW a \in Actors, ReadAnswer(a)
  PROVE  \E s : CallStep(a, s)
<1>1. In(a, "payments", "answer") /\ UNCHANGED <<fast, evm, jobs>>
  BY DEF ReadAnswer, Unserved, ledgers
<1>2. IsCall(at[a]) /\ at[a] # Idle /\ at[a].pc = "answer" /\ CallRight(at[a]) /\ at[a].id \in 1..MaxOps
  BY <1>1, CallForms
<1>3. ASSUME at[a].r.cli, jobs[at[a].id].answer = "served", Goto(a, "record"), Keep
      PROVE  \E s : CallStep(a, s)
  <2>1. PICK s : s = [at[a] EXCEPT !.pc = "record"]
    OBVIOUS
  <2>2. IsCall(s) /\ s.id = at[a].id /\ s.pc = "record"
    BY <1>2, <2>1 DEF IsCall
  <2>3. at' = [at EXCEPT ![a] = s] /\ ops' = ops /\ UNCHANGED calls
    BY <1>3, <2>1 DEF Goto, Go, Keep
  <2>4. calls[at[a].id].asked.kind = "pay"
    BY <1>2, <1>3 DEF CallRight, StagesRight
  <2>5. CallRight(s)'
    BY <2>2, <2>3, <2>4, BeforeSets DEF CallRight, StagesRight, BridgePcs, DepositPcs, PayPcs
  <2>6. Follows(at[a], s) /\ Spends(at[a], s)
    BY <1>1, <1>2, <2>2, BeforeSets DEF Follows, TxKinds, DepositPcs, Spends
  <2>. QED  BY <1>1, <2>2, <2>3, <2>5, <2>6, Continues
<1>4. ASSUME NEW result \in {"success", "unpaid", "error"}, NEW fault, End(a, result, fault)
      PROVE  \E s : CallStep(a, s)
  BY <1>1, <1>4, PurchaseEnds DEF Tellings
<1>. QED  BY <1>3, <1>4 DEF ReadAnswer

\* "fast pay" records the payment.
LEMMA RecordHistorySteps ==
  ASSUME PaymentsRight, NEW a \in Actors, RecordHistory(a)
  PROVE  \E s : CallStep(a, s)
<1>1. In(a, "payments", "record") /\ UNCHANGED <<fast, evm, jobs>>
  BY DEF RecordHistory, ledgers
<1>2. PICK result \in {"success", "threw", "unrecorded"}, fault \in BOOLEAN : End(a, result, fault)
  BY DEF RecordHistory
<1>. QED  BY <1>1, <1>2, PurchaseEnds DEF Tellings

\* A process dies.
LEMMA DiesSteps ==
  ASSUME PaymentsRight, NEW a \in Actors, Dies(a), Outside
  PROVE  \E s : CallStep(a, s)
<1>1. at[a] # Idle /\ at' = [at EXCEPT ![a] = Idle] /\ ops' = ops /\ UNCHANGED <<calls, fast, evm, jobs>>
  BY DEF Dies, Fault, Outside, ledgers
<1>2. Spends(at[a], Idle) /\ JobsMove(a) /\ EvmMoves(at[a], Idle) /\ DepositMoves(a, Idle)
  BY <1>1 DEF Spends, JobsMove, EvmMoves, DepositMoves, PaymentsRight, FormsRight
<1>. QED  BY <1>1, <1>2, GoesOn

\* A certificate that misses signatures is refused, whoever's signatures it has.
LEMMA PartialRefused ==
  ASSUME NEW signatures \in Partial
  PROVE  ~CommitteeOK(signatures)
<1>. DEFINE n == Len(Committee)
            m == MinSignatures
            Signatures == [member : STRING \cup {"stranger"}, good : BOOLEAN]
<1>1. n \in Nat /\ n >= 2 /\ Committee # <<>> /\ \A k \in 1..n : Committee[k] \in STRING
  BY CommitteeAssumption
<1>2. m = (2 * n) \div 3 + 1
  BY <1>1 DEF MinSignatures, QuorumThreshold
<1>3. m \in Nat /\ m >= 2 /\ m <= n
  BY <1>1, <1>2
<1>. HIDE DEF n, m
<1>4. \A k \in 1..n : Signed(Committee[k]) \in Signatures
  BY <1>1 DEF Signed
<1>5. Short \in Seq(Signatures) /\ Len(Short) = m - 1
  <2>1. Short = [k \in 1..(m - 1) |-> Signed(Committee[k])]
    BY DEF Short, m
  <2>2. \A k \in 1..(m - 1) : Signed(Committee[k]) \in Signatures
    BY <1>1, <1>3, <1>4
  <2>. HIDE DEF Signatures
  <2>3. Short \in [1..(m - 1) -> Signatures] /\ m - 1 \in Nat
    BY <1>3, <2>1, <2>2
  <2>4. Short \in Seq(Signatures)
    BY <2>3
  <2>. QED  BY <2>3, <2>4
<1>6. ASSUME NEW x \in Signatures, EachTrustedOnce(Append(Short, x))
      PROVE  x.member \in Range(Committee) /\ x.good /\ \A i \in 1..(m - 1) : Short[i].member # x.member
  <2>1. /\ DOMAIN Append(Short, x) = 1..m /\ Append(Short, x)[m] = x
        /\ \A i \in 1..(m - 1) : Append(Short, x)[i] = Short[i]
    <3>. HIDE DEF Signatures
    <3>1. (m - 1) + 1 = m /\ m - 1 \in Nat
      BY <1>3
    <3>2. x \in Signatures
      BY <1>6
    <3>3. /\ Append(Short, x) \in Seq(Signatures) /\ Len(Append(Short, x)) = m
          /\ Append(Short, x)[m] = x
      BY <1>5, <3>1, <3>2
    <3>4. \A i \in 1..(m - 1) : Append(Short, x)[i] = Short[i]
      BY <1>5, <3>1, <3>2
    <3>5. DOMAIN Append(Short, x) = 1..m
      BY <3>3
    <3>. QED  BY <3>3, <3>4, <3>5
  <2>. QED  BY <1>1, <1>3, <1>6, <2>1 DEF EachTrustedOnce
<1>7. ~CommitteeOK(Short)
  BY <1>3, <1>5 DEF CommitteeOK, m
<1>8. ~CommitteeOK(Append(Short, Short[1]))
  <2>1. 1 \in 1..(m - 1)
    BY <1>3
  <2>2. Short[1] \in Signatures
    <3>. HIDE DEF Signatures
    <3>. QED  BY <1>3, <1>5, <2>1
  <2>. QED  BY <1>6, <2>1, <2>2 DEF CommitteeOK
<1>9. ~CommitteeOK(Append(Short, Signed("stranger")))
  <2>1. Signed("stranger") \in Signatures /\ Signed("stranger").member = "stranger"
    BY DEF Signed
  <2>. QED  BY <1>6, <2>1, CommitteeAssumption DEF CommitteeOK
<1>10. ~CommitteeOK(Append(Short, [member |-> Committee[MinSignatures], good |-> FALSE]))
  <2>1. [member |-> Committee[MinSignatures], good |-> FALSE] \in Signatures
    <3>1. MinSignatures \in 1..n
      BY <1>3 DEF m
    <3>. QED  BY <1>1, <3>1
  <2>. QED  BY <1>6, <2>1 DEF CommitteeOK
<1>. QED  BY <1>7, <1>8, <1>9, <1>10 DEF Partial

\* Whatever a caller presents is a payment that was made, or cannot pass for one.
LEMMA PresentedGenuine ==
  ASSUME NEW network, NEW v, NEW p \in Presented(network, v)
  PROVE  Genuine(p.body)
<1>1. PICK b \in (IF network = "base" THEN EvmPresented ELSE FastPresented) :
        p = Built([v |-> v, terms |-> RouteTerms(network)], b)
  BY DEF Presented
<1>2. p.body = b
  BY <1>1, BuiltBody
<1>3. \A q \in EvmPresented : q.kind = "evm"
  BY DEF EvmPresented, Authorized, Authorization
<1>4. ASSUME NEW q \in FastPresented
      PROVE  Genuine(q)
  <2>1. CASE \E s \in Partial : q = [Quorum(Unsubmitted) EXCEPT !.signatures = s]
    <3>1. PICK s \in Partial : q = [Quorum(Unsubmitted) EXCEPT !.signatures = s]
      BY <2>1
    <3>2. q.signatures = s
      BY <3>1 DEF Quorum, Certificate
    <3>. QED  BY <3>2, PartialRefused DEF Genuine
  <2>2. CASE \E t \in fast.txs : q \in {Quorum(t), [Quorum(t) EXCEPT !.form = "junk"],
                    [Quorum(t) EXCEPT !.network = "fast:mainnet"], [Quorum(t) EXCEPT !.signature = "MultiSig"]}
    <3>1. PICK t \in fast.txs : q \in {Quorum(t), [Quorum(t) EXCEPT !.form = "junk"],
                    [Quorum(t) EXCEPT !.network = "fast:mainnet"], [Quorum(t) EXCEPT !.signature = "MultiSig"]}
      BY <2>2
    <3>2. PICK c : c = Quorum(t)
      OBVIOUS
    <3>3. c = [kind |-> "fast", form |-> c.form, network |-> c.network, tx |-> t, signature |-> c.signature,
               signatures |-> c.signatures]
      BY <3>2 DEF Quorum, Certificate
    <3>4. q \in {c, [c EXCEPT !.form = "junk"], [c EXCEPT !.network = "fast:mainnet"],
                 [c EXCEPT !.signature = "MultiSig"]}
      BY <3>1, <3>2
    <3>5. q.tx = t
      BY <3>3, <3>4
    <3>. QED  BY <3>5 DEF Genuine
  <2>. QED  BY <2>1, <2>2 DEF FastPresented
<1>. QED  BY <1>1, <1>2, <1>3, <1>4 DEF Genuine

\* A payment made elsewhere is presented.
LEMMA PresentSteps ==
  ASSUME PaymentsRight, NEW a \in Actors, Present(a)
  PROVE  \E s : CallStep(a, s)
<1>1. PICK network, native, v : \E p \in Presented(network, v) :
        /\ Start(a, "answer", [kind |-> "present", cli |-> FALSE])
        /\ Arrive(ops + 1, native, p, RouteTerms(network))
  BY DEF Present
<1>2. PICK p \in Presented(network, v) :
        /\ Start(a, "answer", [kind |-> "present", cli |-> FALSE])
        /\ Arrive(ops + 1, native, p, RouteTerms(network))
  BY <1>1
<1>3. PICK r : r = [kind |-> "present", cli |-> FALSE]
  OBVIOUS
<1>4. PICK s : s = Call(ops + 1, "answer", r)
  OBVIOUS
<1>5. r.kind = "present" /\ r.cli = FALSE /\ "present" \in Kinds
  BY <1>3 DEF Kinds
<1>6. /\ s.pc = "answer" /\ s.r = r /\ calls'[s.id].asked.kind = "present"
      /\ s.id = ops + 1 /\ s.id \in 1..MaxOps /\ Doing(a) = s.id
  BY <1>2, <1>3, <1>4, <1>5, StartForms
<1>7. CallRight(s)'
  BY <1>5, <1>6, BeforeSets DEF CallRight, StagesRight, BridgePcs, DepositPcs, PayPcs
<1>8. UNCHANGED ledgers /\ Genuine(p.body)'
  BY PresentedGenuine DEF Present, Genuine, ledgers
<1>9. JobsMove(a)
  <2>1. PICK i : i = s.id
    OBVIOUS
  <2>. QED  BY <1>2, <1>6, <1>8, <2>1, Arrives
<1>. QED  BY <1>2, <1>3, <1>4, <1>5, <1>7, <1>8, <1>9, Starts

\* An activity of a caller, or its death, keeps what is right.
LEMMA ActivitiesKeep ==
  ASSUME PaymentsRight, NEW a \in Actors,
         (BridgeNext(a) /\ Unserved) \/ ClientNext(a) \/ (Dies(a) /\ Outside)
  PROVE  PaymentsRight'
<1>1. ASSUME BridgeNext(a), Unserved
      PROVE  \E s : CallStep(a, s)
  BY <1>1, ExecuteIntentSteps, AccountInfoSteps, SubmitTransferSteps, CrossSignTransferSteps, BuildClaimSteps,
     SubmitIntentSteps, CrossSignIntentSteps, RelaySteps, DepositSteps, EnsureGasReserveSteps, SendTxSteps,
     SmartDepositSteps, PrepareSteps, SubmitUserOpSteps DEF BridgeNext
<1>2. ASSUME ClientNext(a)
      PROVE  \E s : CallStep(a, s)
  BY <1>2, PaySteps, RequestContentSteps, PaymentNonceSteps, SubmitPaymentSteps, EvmBalanceSteps, FastBalanceSteps,
     PollSteps, AuthorizeSteps, SendPaidRequestSteps, ReadAnswerSteps, RecordHistorySteps, PresentSteps
     DEF ClientNext
<1>3. PICK s : CallStep(a, s)
  BY <1>1, <1>2, DiesSteps
<1>. QED  BY <1>3, CallStepKeeps

-----------------------------------------------------------------------------
(* The steps of the seller's services and of the ledgers.                   *)

\* While no caller moves, what the calls do stays right.
LEMMA Still ==
  ASSUME PaymentsRight, UNCHANGED <<at, ops, calls, fast>>
  PROVE  CallsRight' /\ \A op \in 1..MaxOps : evm'.relayed = evm.relayed => ToldRight(op)'
<1>1. ASSUME NEW s, CallRight(s)
      PROVE  CallRight(s)'
  <2>1. BridgeRight(s) => BridgeRight(s)'
    BY DEF BridgeRight, Asked
  <2>2. DepositRight(s) => DepositRight(s)'
    BY DEF DepositRight
  <2>3. \A amount : TransferMade(s.id, amount) => TransferMade(s.id, amount)'
    BY DEF TransferMade, Tag, Asked, Accepted
  <2>4. \A body : Genuine(body) => Genuine(body)'
    BY DEF Genuine
  <2>5. Asked(s.id)' = Asked(s.id)
    BY DEF Asked
  <2>6. StagesRight(s)'
    BY <1>1, <2>3, <2>4, <2>5 DEF CallRight, StagesRight
  <2>. QED  BY <1>1, <2>1, <2>2, <2>6 DEF CallRight
<1>2. CallsRight'
  BY <1>1 DEF PaymentsRight, CallsRight, Busy
<1>3. \A op \in 1..MaxOps : ToldRight(op)
  BY DEF PaymentsRight, TransfersRight
<1>. QED  BY <1>2, <1>3 DEF ToldRight, Bridges, Accepted, Relayed

\* A paid request that no step touches stays right.
LEMMA JobStays ==
  ASSUME UNCHANGED <<calls, fast>>, evm.receipts \subseteq evm'.receipts,
         NEW i \in 1..MaxOps, jobs'[i] = jobs[i], JobRight(i)
  PROVE  JobRight(i)'
<1>1. Bought(i) => Bought(i)'
  BY DEF Bought, Transferred
<1>2. Genuine(jobs[i].payload.body) => Genuine(jobs[i].payload.body)'
  BY DEF Genuine
<1>. QED  BY <1>1, <1>2 DEF JobRight

\* A user operation that waited is mined.
Mines(t) == t.kind = "userop" /\ t \notin evm'.waiting /\ evm'.deposited = Append(evm.deposited, t.op)

\* A step outside of the calls keeps them, when it keeps the jobs and the balance right.
LEMMA EnvironmentKeeps ==
  ASSUME PaymentsRight, UNCHANGED <<at, ops, calls, fast>>,
         jobs' = [i \in 1..MaxOps |-> jobs'[i]],
         \A i \in 1..MaxOps : IsJob(jobs'[i]) /\ JobRight(i)',
         IsEvm(evm'), evm'.relayed = evm.relayed,
         \A t \in evm'.waiting : \/ t \in evm.waiting
                                 \/ /\ t.kind = "authorized" /\ t.op \in 1..MaxOps
                                    /\ calls[t.op].asked.kind \in {"pay", "present"},
         evm'.deposited = evm.deposited \/ \E t \in evm.waiting : Mines(t),
         ReceiptsRight', DepositsRight'
  PROVE  PaymentsRight'
<1>1. FormsRight'
  BY DEF PaymentsRight, FormsRight, IsCall, Idle, IsEvm, IsJob
<1>2. \A i \in 1..MaxOps : calls[i].asked.kind # "none" => i \in 1..ops
  <2>1. ops \in Nat
    BY DEF PaymentsRight, FormsRight
  <2>. QED  BY <2>1 DEF PaymentsRight, IdsRight, NoCall
<1>3. evm.deposited \in Seq(1..MaxOps)
  BY DEF PaymentsRight, FormsRight, IsEvm
<1>4. \A t \in evm'.waiting : t.op \in 1..ops
  BY <1>2 DEF PaymentsRight, IdsRight
<1>5. \A t \in evm.waiting : t.op \in 1..ops /\ t.op \in 1..MaxOps
  BY ActivityBounds DEF PaymentsRight, IdsRight, FormsRight
<1>6. \A t \in evm'.waiting : t.kind = "userop" => t \in evm.waiting
  OBVIOUS
<1>7. WaitingRight'
  BY DEF PaymentsRight, JobsRight, WaitingRight
<1>8. TransfersRight'
  <2>1. \A x \in evm.relayed : RelayRight(x) => RelayRight(x)'
    BY DEF RelayRight, Asked, TransferMade, Tag, Accepted
  <2>. QED  BY <2>1, Still DEF PaymentsRight, TransfersRight
<1>9. \A tx, ty \in fast'.txs : tx.op = ty.op /\ tx.kind = ty.kind => tx = ty
  BY DEF PaymentsRight, PaysOnce
<1>10. \A b \in Actors, kind \in TxKinds :
         Busy(b)' /\ at'[b].pc \in Before(kind) => {tx \in fast'.txs : tx.op = at'[b].id /\ tx.kind = kind} = {}
  BY DEF PaymentsRight, PaysOnce, Fresh, Busy, Accepted
<1>11. \A b \in Actors : Busy(b)' /\ at'[b].pc \in DepositPcs => Undeposited(at[b].id)
  BY DEF PaymentsRight, PaysOnce, Fresh, Busy
<1>12. ASSUME evm'.deposited = evm.deposited
       PROVE  IdsRight' /\ PaysOnce'
  <2>1. IdsRight'
    BY <1>4, <1>12 DEF PaymentsRight, IdsRight, Busy
  <2>2. \A b \in Actors : Busy(b)' => Fresh(at[b])'
    BY <1>6, <1>10, <1>11, <1>12 DEF Fresh, Accepted, Undeposited
  <2>. QED  BY <1>6, <1>9, <1>12, <2>1, <2>2 DEF PaymentsRight, PaysOnce
<1>13. ASSUME NEW t \in evm.waiting, Mines(t)
       PROVE  IdsRight' /\ PaysOnce'
  <2>. DEFINE q == evm.deposited
              p == evm'.deposited
  <2>1. t.kind = "userop" /\ t \notin evm'.waiting /\ p = Append(q, t.op)
    BY <1>13 DEF Mines
  <2>2. DOMAIN p = 1..(Len(q) + 1) /\ DOMAIN q = 1..Len(q) /\ Len(q) \in Nat
        /\ (\A n \in 1..Len(q) : p[n] = q[n]) /\ p[Len(q) + 1] = t.op
    BY <1>3, <1>5, <2>1
  <2>3. (\A n \in DOMAIN q : q[n] \in 1..ops /\ q[n] # t.op) /\ t.op \in 1..ops
    BY <1>5, <2>1 DEF PaymentsRight, IdsRight, PaysOnce
  <2>. HIDE DEF p, q
  <2>4. \A n \in DOMAIN p : (n \in DOMAIN q /\ p[n] = q[n]) \/ (n = Len(q) + 1 /\ p[n] = t.op)
    BY <2>2
  <2>5. \A n \in DOMAIN p : p[n] \in 1..ops
    BY <2>3, <2>4
  <2>6. IdsRight'
    BY <1>4, <2>5 DEF PaymentsRight, IdsRight, Busy, p
  <2>7. \A m, n \in DOMAIN q : q[m] = q[n] => m = n
    BY DEF PaymentsRight, PaysOnce, q
  <2>8. \A m, n \in DOMAIN p : p[m] = p[n] => m = n
    BY <2>3, <2>4, <2>7
  <2>9. \A u \in evm'.waiting : u.kind = "userop" => u \in evm.waiting /\ u.op # t.op
    BY <1>6, <2>1 DEF PaymentsRight, PaysOnce
  <2>10. \A u \in evm'.waiting, n \in DOMAIN p : u.kind = "userop" => p[n] # u.op
    <3>1. \A u \in evm.waiting, n \in DOMAIN q : u.kind = "userop" => q[n] # u.op
      BY DEF PaymentsRight, PaysOnce, q
    <3>. QED  BY <2>4, <2>9, <3>1
  <2>11. ASSUME NEW b \in Actors, Busy(b)', at'[b].pc \in DepositPcs
         PROVE  (\A n \in DOMAIN p : p[n] # at[b].id)
                /\ \A u \in evm'.waiting : u.kind = "userop" => u.op # at[b].id
    <3>1. Undeposited(at[b].id)
      BY <1>11, <2>11
    <3>2. t.op # at[b].id /\ \A n \in DOMAIN q : q[n] # at[b].id
      BY <2>1, <3>1 DEF Undeposited, q
    <3>. QED  BY <2>4, <2>9, <3>1, <3>2 DEF Undeposited
  <2>12. \A b \in Actors : Busy(b)' => Fresh(at[b])'
    BY <1>10, <2>11 DEF Fresh, Accepted, Undeposited, p
  <2>13. \A u, w \in evm'.waiting : u.kind = "userop" /\ w.kind = "userop" /\ u.op = w.op => u = w
    BY <1>6 DEF PaymentsRight, PaysOnce
  <2>. QED  BY <1>9, <2>6, <2>8, <2>10, <2>12, <2>13 DEF PaysOnce, p
<1>14. JobsRight'
  BY <1>7 DEF JobsRight
<1>. QED  BY <1>1, <1>8, <1>12, <1>13, <1>14, Still DEF PaymentsRight

\* The balance keeps what deposits need while only intents, deposits and deliveries move it.
LEMMA BalanceStays ==
  ASSUME PaymentsRight, UNCHANGED <<at, calls>>, evm'.allowance = evm.allowance,
         Calm => evm.balance \in Int /\ evm'.balance \in Int /\ evm'.balance >= evm.balance
  PROVE  DepositsRight'
<1>1. \A op \in 1..MaxOps : Undisturbed(op) => Calm
  BY DEF Undisturbed, Calm
<1>2. Calm' => Calm
  BY DEF Calm
<1>3. \A op \in 1..MaxOps : Undisturbed(op)' => Undisturbed(op)
  BY DEF Undisturbed
<1>4. ASSUME NEW a \in Actors, Busy(a), Ready(at[a]), Calm
      PROVE  Ready(at[a])'
  <2>1. FeeWei \in Int /\ evm.balance \in Int /\ evm'.balance \in Int /\ evm'.balance >= evm.balance
    BY <1>4, FundsAssumption
  <2>2. at[a].pc \in {"approve", "deposit"} => at[a].r.amount \in Nat
    BY <1>4 DEF PaymentsRight, CallsRight, CallRight, DepositPcs, DepositRight
  <2>3. \A x \in Nat : x * Scale \in Int
    BY ScaleAssumption
  <2>4. PICK s : s = at[a] /\ s = at'[a]
    OBVIOUS
  <2>5. at[a].pc \in {"approve", "deposit"} => at[a].r.amount * Scale \in Int
    BY <2>2, <2>3
  <2>6. Ready(s)'
    BY <1>4, <2>1, <2>4, <2>5 DEF Ready
  <2>. QED  BY <2>4, <2>6 DEF Ready
<1>5. DepositsRight
  BY DEF PaymentsRight
<1>6. Calm' => evm'.balance \in Int
  BY <1>2
<1>7. ASSUME GasToken, NEW op \in 1..MaxOps, Undisturbed(op)', NEW a \in Actors, Busy(a)', at'[a].id = op
      PROVE  Ready(at[a])'
  <2>1. Undisturbed(op) /\ Calm
    BY <1>1, <1>3, <1>7
  <2>2. Busy(a) /\ Ready(at[a])
    BY <1>5, <1>7, <2>1 DEF DepositsRight, Busy
  <2>. QED  BY <1>4, <2>1, <2>2
<1>8. \A op \in 1..MaxOps : GasToken /\ Undisturbed(op)' => calls'[op].result # "reverted"
  BY <1>3, <1>5 DEF DepositsRight
<1>. QED  BY <1>6, <1>7, <1>8 DEF DepositsRight

\* A step of the seller's services moves one paid request.
LEMMA ServiceKeeps ==
  ASSUME PaymentsRight, NEW i \in 1..MaxOps, NEW j, IsJob(j), jobs' = [jobs EXCEPT ![i] = j],
         UNCHANGED <<at, ops, calls, fast>>, JobRight(i)',
         \/ UNCHANGED evm
         \/ calls[i].asked.kind \in {"pay", "present"} /\ evm' = [evm EXCEPT !.waiting = @ \cup {Transferred(i)}]
  PROVE  PaymentsRight'
<1>1. jobs = [k \in 1..MaxOps |-> jobs[k]] /\ IsEvm(evm)
  BY DEF PaymentsRight, FormsRight
<1>2. /\ jobs' = [k \in 1..MaxOps |-> jobs'[k]] /\ jobs'[i] = j
      /\ \A k \in 1..MaxOps : k # i => jobs'[k] = jobs[k]
  BY <1>1
<1>3. Transferred(i).kind = "authorized" /\ Transferred(i).op = i
  BY DEF Transferred, Tx
<1>4. /\ IsEvm(evm') /\ evm'.relayed = evm.relayed /\ evm'.deposited = evm.deposited
      /\ evm'.receipts = evm.receipts /\ evm'.used = evm.used /\ evm'.balance = evm.balance
      /\ evm'.allowance = evm.allowance
      /\ evm'.waiting = evm.waiting
           \/ (calls[i].asked.kind \in {"pay", "present"} /\ evm'.waiting = evm.waiting \cup {Transferred(i)})
  BY <1>1 DEF IsEvm
<1>5. \A k \in 1..MaxOps : k # i => JobRight(k)'
  BY <1>2, <1>4, JobStays DEF PaymentsRight, JobsRight
<1>6. \A k \in 1..MaxOps : IsJob(jobs'[k]) /\ JobRight(k)'
  BY <1>2, <1>5 DEF PaymentsRight, FormsRight
<1>7. ReceiptsRight'
  BY <1>4 DEF PaymentsRight, JobsRight, ReceiptsRight
<1>8. DepositsRight'
  <2>1. DepositsRight /\ (Calm => evm.balance \in Int)
    BY DEF PaymentsRight, DepositsRight
  <2>. QED  BY <1>4, <2>1 DEF DepositsRight, Calm, Undisturbed, Ready, Busy
<1>9. \A t \in evm'.waiting : \/ t \in evm.waiting
                              \/ /\ t.kind = "authorized" /\ t.op \in 1..MaxOps
                                 /\ calls[t.op].asked.kind \in {"pay", "present"}
  BY <1>3, <1>4
<1>. QED  BY <1>2, <1>4, <1>6, <1>7, <1>8, <1>9, EnvironmentKeeps

-----------------------------------------------------------------------------
(* The answer of the facilitator.                                           *)

\* A payment that is found valid pays what the seller asked for.
LEMMA ValidPays ==
  ASSUME NEW i \in 1..MaxOps, NEW networks, Valid(ParsePaymentHeader(jobs[i]), jobs[i].terms, networks)
  PROVE  LET terms == jobs[i].terms  body == jobs[i].payload.body IN
         IF NetworkType(terms.network) = "fast"
           THEN /\ body.kind = "fast" /\ CommitteeOK(body.signatures) /\ body.tx.to = terms.payTo
                /\ body.tx.amount >= terms.amount /\ terms.asset \in {"", body.tx.token}
           ELSE body.to = terms.payTo /\ body.amount >= terms.amount
<1>. DEFINE terms == jobs[i].terms
            body == jobs[i].payload.body
            p == ParsePaymentHeader(jobs[i])
            q == NormalizePayment(p, terms)
<1>1. \A x, e : FromV2PaymentPayload(x, e) = NoPayload \/ FromV2PaymentPayload(x, e).body = x.body
  BY DEF FromV2PaymentPayload, Payload
<1>2. p = NoPayload \/ p.body = body
  BY <1>1 DEF ParsePaymentHeader
<1>3. NoPayload.body = [kind |-> "none"] /\ NoPayload.network = "unmapped" /\ NoPayload.v = 0
  BY DEF NoPayload, Payload
<1>4. q = NoPayload \/ q.body = body
  <2>1. CASE p = NoPayload
    BY <1>3, <2>1 DEF NormalizePayment
  <2>2. CASE p.body = body
    BY <1>1, <2>2 DEF NormalizePayment
  <2>. QED  BY <1>2, <2>1, <2>2
<1>5. ToCanonicalNetwork("unmapped") = "unmapped"
  BY DEF ToCanonicalNetwork, LegacyToCaip, Range
<1>6. q # NoPayload
  <2>1. CASE q = NoPayload
    <3>1. NetworkType(q.network) = "evm" /\ ToCanonicalNetwork(q.network) = "unmapped"
      BY <1>3, <1>5, <2>1 DEF NetworkType
    <3>2. VerifyEvm(q, terms, evm.expired, BalanceOf)
      BY <3>1 DEF Valid, Verify
    <3>. QED  BY <3>1, <3>2 DEF VerifyEvm, AuthorizationOK
  <2>. QED  BY <2>1
<1>7. q.body = body
  BY <1>4, <1>6
<1>8. CASE NetworkType(q.network) = "fast"
  <2>1. VerifyFast(q, terms, networks)
    BY <1>8 DEF Valid, Verify
  <2>2. NetworkType(terms.network) = "fast" /\ body.kind = "fast"
    BY <1>7, <1>8, <2>1 DEF VerifyFast, EnvelopeOK
  <2>. QED  BY <1>7, <2>1, <2>2 DEF VerifyFast, TermsMet, AddressesMatch
<1>9. CASE NetworkType(q.network) # "fast"
  <2>1. VerifyEvm(q, terms, evm.expired, BalanceOf)
    BY <1>9 DEF Valid, Verify
  <2>2. NetworkType(terms.network) # "fast"
    BY <1>9, <2>1 DEF VerifyEvm, AuthorizationOK
  <2>. QED  BY <1>7, <2>1, <2>2 DEF VerifyEvm, AuthorizationOK, AuthorizationFunded
<1>. QED  BY <1>8, <1>9

\* A request that is answered without content.
LEMMA DoneKeeps ==
  ASSUME PaymentsRight, NEW i \in 1..MaxOps, NEW answer, Done(i, answer), answer # "served",
         jobs[i].step \notin {"none", "done"}, UNCHANGED <<at, ops, calls, fast, evm>>
  PROVE  PaymentsRight'
<1>1. IsJob(jobs[i]) /\ JobRight(i) /\ jobs = [k \in 1..MaxOps |-> jobs[k]]
  BY DEF PaymentsRight, FormsRight, JobsRight
<1>2. jobs[i].answer # "served" /\ calls[i].asked.kind \in {"pay", "present"}
  BY <1>1 DEF JobRight
<1>3. PICK told : told # "served" /\ jobs' = [jobs EXCEPT ![i] = [NoJob EXCEPT !.step = "done", !.answer = told]]
  BY <1>2 DEF Done
<1>4. PICK j : j = [NoJob EXCEPT !.step = "done", !.answer = told]
  OBVIOUS
<1>5. IsJob(j) /\ j.step = "done" /\ j.answer = told
  BY <1>4 DEF NoJob, IsJob
<1>6. jobs' = [jobs EXCEPT ![i] = j] /\ jobs'[i] = j
  BY <1>1, <1>3, <1>4
<1>7. JobRight(i)'
  BY <1>2, <1>3, <1>5, <1>6 DEF JobRight
<1>. QED  BY <1>5, <1>6, <1>7, ServiceKeeps

\* A request that is answered with content, for a payment on a ledger.
LEMMA ServedKeeps ==
  ASSUME PaymentsRight, NEW i \in 1..MaxOps, Done(i, "served"), Bought(i),
         jobs[i].step \notin {"none", "done"}, UNCHANGED <<at, ops, calls, fast, evm>>
  PROVE  PaymentsRight'
<1>1. IsJob(jobs[i]) /\ JobRight(i) /\ jobs = [k \in 1..MaxOps |-> jobs[k]]
  BY DEF PaymentsRight, FormsRight, JobsRight
<1>2. calls[i].asked.kind \in {"pay", "present"} /\ jobs[i].answer # "served"
  BY <1>1 DEF JobRight
<1>3. CASE jobs[i].answer = "none"
  <2>1. PICK j : j = [jobs[i] EXCEPT !.step = "done", !.answer = "served"]
    OBVIOUS
  <2>2. jobs' = [jobs EXCEPT ![i] = j]
    BY <1>1, <1>3, <2>1 DEF Done
  <2>3. /\ IsJob(j) /\ j.step = "done" /\ j.answer = "served" /\ j.terms = jobs[i].terms
        /\ j.payload = jobs[i].payload /\ jobs'[i] = j
    BY <1>1, <2>1, <2>2 DEF IsJob
  <2>4. Transferred(i)' = Transferred(i)
    BY <2>3 DEF Transferred
  <2>5. Bought(i)'
    BY <2>3, <2>4 DEF Bought
  <2>6. JobRight(i)'
    BY <1>2, <2>3, <2>5 DEF JobRight
  <2>. QED  BY <2>2, <2>3, <2>6, ServiceKeeps
<1>4. CASE jobs[i].answer # "none"
  <2>1. Done(i, jobs[i].answer)
    BY <1>4 DEF Done
  <2>. QED  BY <1>2, <2>1, DoneKeeps
<1>. QED  BY <1>3, <1>4

\* A request that goes on.
LEMMA AdvanceKeeps ==
  ASSUME PaymentsRight, NEW i \in 1..MaxOps, NEW step, Advance(i, step),
         UNCHANGED <<at, ops, calls, fast>>,
         \/ UNCHANGED evm
         \/ calls[i].asked.kind \in {"pay", "present"} /\ evm' = [evm EXCEPT !.waiting = @ \cup {Transferred(i)}],
         jobs[i].step \in {"arrived", "verified", "checked", "sending"},
         step \in {"verified", "checked", "sending", "receipt"},
         /\ NetworkType(jobs[i].terms.network) # "fast"
         /\ jobs[i].payload.body.to = "shop" /\ jobs[i].payload.body.amount >= Cost
  PROVE  PaymentsRight'
<1>1. IsJob(jobs[i]) /\ JobRight(i) /\ jobs = [k \in 1..MaxOps |-> jobs[k]]
  BY DEF PaymentsRight, FormsRight, JobsRight
<1>2. PICK j : j = [jobs[i] EXCEPT !.step = step]
  OBVIOUS
<1>3. jobs' = [jobs EXCEPT ![i] = j]
  BY <1>1, <1>2 DEF Advance
<1>4. /\ IsJob(j) /\ j.step = step /\ j.answer = jobs[i].answer /\ j.terms = jobs[i].terms
      /\ j.payload = jobs[i].payload /\ jobs'[i] = j
  BY <1>1, <1>2, <1>3 DEF IsJob
<1>5. Genuine(j.payload.body)' /\ jobs[i].answer # "served"
  BY <1>1, <1>4 DEF JobRight, Genuine
<1>6. JobRight(i)'
  BY <1>1, <1>4, <1>5 DEF JobRight
<1>. QED  BY <1>3, <1>4, <1>6, ServiceKeeps

\* What a request at work is known to be.
LEMMA JobForms ==
  ASSUME PaymentsRight, NEW i \in 1..MaxOps, jobs[i].step \notin {"none", "done"}
  PROVE  /\ JobRight(i) /\ IsJob(jobs[i]) /\ jobs[i].answer # "served"
         /\ calls[i].asked.kind \in {"pay", "present"}
         /\ jobs[i].step \in {"verified", "checked", "sending", "receipt"} =>
              /\ NetworkType(jobs[i].terms.network) # "fast"
              /\ jobs[i].payload.body.to = "shop" /\ jobs[i].payload.body.amount >= Cost
BY DEF PaymentsRight, FormsRight, JobsRight, JobRight

\* Content goes out for a Fast payment that the network has accepted.
LEMMA VerifyPaymentKeeps ==
  ASSUME PaymentsRight, NEW i \in 1..MaxOps, VerifyPayment(i), UNCHANGED <<calls, history>>
  PROVE  PaymentsRight'
<1>1. jobs[i].step = "arrived" /\ UNCHANGED <<at, ops, calls, fast, evm>>
  BY DEF VerifyPayment, Quietly, Failing, activity, ledgers
<1>2. /\ jobs[i].terms.payTo = "shop" /\ jobs[i].terms.amount = Cost /\ jobs[i].terms.asset = "usdc"
      /\ Genuine(jobs[i].payload.body)
  BY <1>1, JobForms DEF JobRight
<1>3. ASSUME NEW answer \in {"refused", "error"}, Done(i, answer)
      PROVE  PaymentsRight'
  BY <1>1, <1>3, DoneKeeps
<1>4. ASSUME NEW networks, Valid(ParsePaymentHeader(jobs[i]), jobs[i].terms, networks),
             NetworkType(jobs[i].terms.network) = "fast", Done(i, "served")
      PROVE  PaymentsRight'
  <2>1. /\ jobs[i].payload.body.kind = "fast" /\ CommitteeOK(jobs[i].payload.body.signatures)
        /\ jobs[i].payload.body.tx.to = "shop" /\ jobs[i].payload.body.tx.amount >= Cost
        /\ jobs[i].payload.body.tx.token = "usdc"
    BY <1>2, <1>4, ValidPays
  <2>2. jobs[i].payload.body.tx \in fast.txs
    BY <1>2, <2>1 DEF Genuine
  <2>3. Bought(i)
    BY <1>4, <2>1, <2>2 DEF Bought
  <2>. QED  BY <1>1, <1>4, <2>3, ServedKeeps
<1>5. ASSUME NEW networks, Valid(ParsePaymentHeader(jobs[i]), jobs[i].terms, networks),
             NetworkType(jobs[i].terms.network) # "fast", Advance(i, "verified")
      PROVE  PaymentsRight'
  <2>1. jobs[i].payload.body.to = "shop" /\ jobs[i].payload.body.amount >= Cost
    BY <1>2, <1>5, ValidPays
  <2>. QED  BY <1>1, <1>5, <2>1, AdvanceKeeps
<1>. QED  BY <1>3, <1>4, <1>5 DEF VerifyPayment

\* The steps of a settlement.
LEMMA SettlementKeeps ==
  ASSUME PaymentsRight, NEW i \in 1..MaxOps, UNCHANGED <<calls, history>>,
         SettleEvmPayment(i) \/ AuthorizationState(i) \/ WriteContract(i)
  PROVE  PaymentsRight'
<1>1. jobs[i].step \in {"verified", "checked", "sending"} /\ UNCHANGED <<at, ops, calls, fast>>
  BY DEF SettleEvmPayment, AuthorizationState, WriteContract, Quietly, Failing, Broadcast, activity, ledgers
<1>2. \/ (\E step \in {"checked", "sending"} : Advance(i, step)) /\ UNCHANGED evm
      \/ Done(i, "refused") /\ UNCHANGED evm
      \/ Advance(i, "receipt") /\ Broadcast(i)
      \/ Done(i, "refused") /\ Broadcast(i)
  BY DEF SettleEvmPayment, AuthorizationState, WriteContract, Quietly, Failing, activity, ledgers
<1>3. calls[i].asked.kind \in {"pay", "present"}
  BY <1>1, JobForms
<1>4. CASE (\E step \in {"checked", "sending"} : Advance(i, step)) /\ UNCHANGED evm
  BY <1>1, <1>4, JobForms, AdvanceKeeps
<1>5. CASE Done(i, "refused") /\ UNCHANGED evm
  BY <1>1, <1>5, DoneKeeps
<1>6. CASE Advance(i, "receipt") /\ Broadcast(i)
  BY <1>1, <1>3, <1>6, JobForms, AdvanceKeeps DEF Broadcast
<1>7. CASE Done(i, "refused") /\ Broadcast(i)
  <2>1. jobs[i].answer # "served" /\ jobs = [k \in 1..MaxOps |-> jobs[k]]
    BY <1>1, JobForms DEF PaymentsRight, FormsRight
  <2>2. PICK told : told # "served" /\ jobs' = [jobs EXCEPT ![i] = [NoJob EXCEPT !.step = "done", !.answer = told]]
    <3>1. jobs[i].answer # "served" /\ "refused" # "served"
      BY <2>1
    <3>2. Done(i, "refused")
      BY <1>7
    <3>. QED  BY <3>1, <3>2 DEF Done
  <2>3. PICK j : j = [NoJob EXCEPT !.step = "done", !.answer = told]
    OBVIOUS
  <2>4. IsJob(j) /\ j.step = "done" /\ j.answer = told /\ jobs' = [jobs EXCEPT ![i] = j] /\ jobs'[i] = j
    BY <2>1, <2>2, <2>3 DEF NoJob, IsJob
  <2>5. JobRight(i)'
    BY <1>1, <1>3, <2>2, <2>4 DEF JobRight
  <2>. QED  BY <1>1, <1>3, <1>7, <2>4, <2>5, ServiceKeeps DEF Broadcast
<1>. QED  BY <1>2, <1>4, <1>5, <1>6, <1>7

\* Content goes out for a transfer that was mined.
LEMMA WaitForReceiptKeeps ==
  ASSUME PaymentsRight, NEW i \in 1..MaxOps, WaitForReceipt(i), UNCHANGED <<calls, history>>
  PROVE  PaymentsRight'
<1>1. jobs[i].step = "receipt" /\ UNCHANGED <<at, ops, calls, fast, evm>>
  BY DEF WaitForReceipt, Quietly, Failing, activity, ledgers
<1>2. ASSUME NEW r \in evm.receipts, r[1] = Transferred(i), r[2], Done(i, "served")
      PROVE  PaymentsRight'
  <2>1. r = <<r[1], r[2]>> /\ r[2] \in BOOLEAN
    BY DEF PaymentsRight, JobsRight, ReceiptsRight
  <2>2. <<Transferred(i), TRUE>> \in evm.receipts
    <3>1. r[2] = TRUE
      BY <1>2, <2>1
    <3>. QED  BY <1>2, <2>1, <3>1
  <2>3. NetworkType(jobs[i].terms.network) # "fast" /\ jobs[i].payload.body.to = "shop"
        /\ jobs[i].payload.body.amount >= Cost
    BY <1>1, JobForms
  <2>4. Transferred(i).to = "shop" /\ Transferred(i).amount >= Cost
    BY <2>3 DEF Transferred, Tx
  <2>5. Bought(i)
    BY <2>2, <2>3, <2>4 DEF Bought
  <2>. QED  BY <1>1, <1>2, <2>5, ServedKeeps
<1>3. CASE Done(i, "refused")
  BY <1>1, <1>3, DoneKeeps
<1>4. (\E r \in evm.receipts : r[1] = Transferred(i) /\ Done(i, ReceiptAnswer(r[2]))) \/ Done(i, "refused")
  BY DEF WaitForReceipt
<1>5. ASSUME NEW r \in evm.receipts, r[1] = Transferred(i), Done(i, ReceiptAnswer(r[2]))
      PROVE  PaymentsRight'
  <2>1. CASE r[2]
    BY <1>2, <1>5, <2>1 DEF ReceiptAnswer
  <2>2. CASE ~r[2]
    BY <1>3, <1>5, <2>2 DEF ReceiptAnswer
  <2>. QED  BY <2>1, <2>2
<1>. QED  BY <1>3, <1>4, <1>5

\* The middleware answers an error, and the settlement goes on.
LEMMA LoseFacilitatorKeeps ==
  ASSUME PaymentsRight, NEW i \in 1..MaxOps, LoseFacilitator(i), UNCHANGED <<calls, history>>
  PROVE  PaymentsRight'
<1>1. /\ jobs[i].step \in {"verified", "checked", "sending", "receipt"}
      /\ UNCHANGED <<at, ops, calls, fast, evm>> /\ jobs' = [jobs EXCEPT ![i].answer = "error"]
  BY DEF LoseFacilitator, Failing, ledgers
<1>2. IsJob(jobs[i]) /\ JobRight(i) /\ jobs = [k \in 1..MaxOps |-> jobs[k]]
  BY <1>1, JobForms DEF PaymentsRight, FormsRight
<1>3. PICK j : j = [jobs[i] EXCEPT !.answer = "error"]
  OBVIOUS
<1>4. /\ IsJob(j) /\ j.step = jobs[i].step /\ j.answer = "error" /\ j.terms = jobs[i].terms
      /\ j.payload = jobs[i].payload /\ jobs' = [jobs EXCEPT ![i] = j] /\ jobs'[i] = j
  BY <1>1, <1>2, <1>3 DEF IsJob
<1>5. Genuine(j.payload.body)'
  BY <1>1, <1>2, <1>4 DEF JobRight, Genuine
<1>6. JobRight(i)'
  BY <1>1, <1>2, <1>4, <1>5 DEF JobRight
<1>. QED  BY <1>1, <1>4, <1>6, ServiceKeeps

-----------------------------------------------------------------------------
\* A transaction that waited is mined.
LEMMA MineKeeps ==
  ASSUME PaymentsRight, Mine, Outside
  PROVE  PaymentsRight'
<1>1. UNCHANGED <<at, ops, calls, fast, jobs>>
  BY DEF Mine, Outside, activity
<1>2. PICK t \in evm.waiting :
        evm' = [AfterMining(t) EXCEPT !.waiting = @ \ {t}, !.receipts = @ \cup {<<t, Succeeds(t)>>}]
  BY DEF Mine
<1>3. t.op \in 1..MaxOps
  BY ActivityBounds DEF PaymentsRight, IdsRight, FormsRight
<1>4. \/ t.kind = "userop" /\ calls[t.op].asked.kind = "smart"
      \/ t.kind = "authorized" /\ calls[t.op].asked.kind \in {"pay", "present"}
  BY DEF PaymentsRight, JobsRight, WaitingRight
<1>5. PICK e : e = AfterMining(t)
  OBVIOUS
<1>6. /\ IsEvm(e)
      /\ e.waiting = evm.waiting /\ e.receipts = evm.receipts /\ e.relayed = evm.relayed
      /\ t.kind = "authorized" =>
           /\ e.used = IF Succeeds(t) THEN evm.used \cup {t.key} ELSE evm.used
           /\ e.deposited = evm.deposited
      /\ t.kind = "userop" => e.used = evm.used /\ e.deposited \in {evm.deposited, Append(evm.deposited, t.op)}
  BY <1>3, <1>4, <1>5, MiningForms DEF PaymentsRight
<1>7. /\ IsEvm(evm') /\ evm'.waiting = evm.waiting \ {t} /\ evm'.relayed = evm.relayed
      /\ evm'.receipts = evm.receipts \cup {<<t, Succeeds(t)>>}
      /\ evm'.used = e.used /\ evm'.deposited = e.deposited
  BY <1>2, <1>5, <1>6 DEF IsEvm
<1>8. Succeeds(t) \in BOOLEAN /\ (t.kind = "authorized" /\ Succeeds(t) => t.key \notin evm.used)
  BY <1>4 DEF Succeeds
<1>9. ReceiptsRight'
  <2>. DEFINE q == <<t, Succeeds(t)>>
  <2>1. q[1] = t /\ q[2] = Succeeds(t)
    OBVIOUS
  <2>. HIDE DEF q
  <2>2. evm'.receipts = evm.receipts \cup {q}
    BY <1>7 DEF q
  <2>3. evm.used \subseteq evm'.used /\ (t.kind = "authorized" /\ Succeeds(t) => t.key \in evm'.used)
    BY <1>4, <1>6, <1>7
  <2>4. \A r \in evm'.receipts : r = <<r[1], r[2]>> /\ r[2] \in BOOLEAN
    <3>1. q = <<q[1], q[2]>>
      BY DEF q
    <3>. QED  BY <1>8, <2>1, <2>2, <3>1 DEF PaymentsRight, JobsRight, ReceiptsRight
  <2>5. \A r \in evm.receipts : r[2] /\ r[1].kind = "authorized" => r[1].key \in evm.used
    BY DEF PaymentsRight, JobsRight, ReceiptsRight
  <2>6. \A r \in evm'.receipts : r[2] /\ r[1].kind = "authorized" => r[1].key \in evm'.used
    BY <2>1, <2>2, <2>3, <2>5
  <2>7. q[2] /\ q[1].kind = "authorized" => q[1].key \notin evm.used
    BY <1>8, <2>1
  <2>8. \A r, p \in evm.receipts :
          r[2] /\ p[2] /\ r[1].kind = "authorized" /\ p[1].kind = "authorized" /\ r[1].key = p[1].key => r = p
    BY DEF PaymentsRight, JobsRight, ReceiptsRight
  <2>9. \A r, p \in evm'.receipts :
          r[2] /\ p[2] /\ r[1].kind = "authorized" /\ p[1].kind = "authorized" /\ r[1].key = p[1].key => r = p
    BY <2>2, <2>5, <2>7, <2>8
  <2>. QED  BY <2>4, <2>6, <2>9 DEF ReceiptsRight
<1>10. DepositsRight'
  <2>1. ~Calm
    BY <1>3, <1>4 DEF Calm
  <2>2. \A op \in 1..MaxOps : Undisturbed(op) => Calm
    BY DEF Undisturbed, Calm
  <2>. QED  BY <1>1, <2>1, <2>2 DEF DepositsRight, Calm, Undisturbed
<1>11. \A i \in 1..MaxOps : IsJob(jobs'[i]) /\ JobRight(i)'
  BY <1>1, <1>7, JobStays DEF PaymentsRight, FormsRight, JobsRight
<1>12. jobs' = [i \in 1..MaxOps |-> jobs'[i]]
  BY <1>1 DEF PaymentsRight, FormsRight
<1>13. evm'.deposited = evm.deposited \/ \E u \in evm.waiting : Mines(u)
  BY <1>4, <1>6, <1>7 DEF Mines
<1>14. \A u \in evm'.waiting : u \in evm.waiting
  BY <1>7
<1>. QED  BY <1>1, <1>7, <1>9, <1>10, <1>11, <1>12, <1>13, <1>14, EnvironmentKeeps

\* A relayed claim is paid out.
LEMMA DeliverKeeps ==
  ASSUME PaymentsRight, Deliver, Outside
  PROVE  PaymentsRight'
<1>1. UNCHANGED <<at, ops, calls, fast, jobs>>
  BY DEF Deliver, Outside, activity
<1>2. PICK x \in evm.relayed : evm' = [evm EXCEPT !.delivered = @ \cup {x}, !.balance = @ + x.amount * Scale]
  BY DEF Deliver
<1>3. IsEvm(evm)
  BY DEF PaymentsRight, FormsRight
<1>4. /\ IsEvm(evm') /\ evm'.relayed = evm.relayed /\ evm'.deposited = evm.deposited
      /\ evm'.receipts = evm.receipts /\ evm'.used = evm.used /\ evm'.waiting = evm.waiting
      /\ evm'.allowance = evm.allowance /\ evm'.balance = evm.balance + x.amount * Scale
  BY <1>2, <1>3 DEF IsEvm
<1>5. x.op \in 1..MaxOps /\ RelayRight(x)
  BY ActivityBounds DEF PaymentsRight, IdsRight, FormsRight, TransfersRight
<1>6. Calm => x.amount \in Nat
  BY <1>5, AmountAssumption DEF Calm, RelayRight
<1>7. Calm => evm.balance \in Int /\ evm'.balance \in Int /\ evm'.balance >= evm.balance
  <2>. SUFFICES ASSUME Calm
                PROVE  evm.balance \in Int /\ evm'.balance \in Int /\ evm'.balance >= evm.balance
    OBVIOUS
  <2>1. evm.balance \in Int
    BY DEF PaymentsRight, DepositsRight
  <2>2. x.amount * Scale \in Nat
    BY <1>6, ScaleAssumption
  <2>. QED  BY <1>4, <2>1, <2>2
<1>8. DepositsRight'
  BY <1>1, <1>4, <1>7, BalanceStays
<1>9. ReceiptsRight'
  BY <1>4 DEF PaymentsRight, JobsRight, ReceiptsRight
<1>10. \A i \in 1..MaxOps : IsJob(jobs'[i]) /\ JobRight(i)'
  BY <1>1, <1>4, JobStays DEF PaymentsRight, FormsRight, JobsRight
<1>11. jobs' = [i \in 1..MaxOps |-> jobs'[i]]
  BY <1>1 DEF PaymentsRight, FormsRight
<1>. QED  BY <1>1, <1>4, <1>8, <1>9, <1>10, <1>11, EnvironmentKeeps

\* An authorization expires.
LEMMA LapseKeeps ==
  ASSUME PaymentsRight, NEW key, Lapse(key), Outside
  PROVE  PaymentsRight'
<1>1. UNCHANGED <<at, ops, calls, fast, jobs>> /\ evm' = [evm EXCEPT !.expired = @ \cup {key}]
  BY DEF Lapse, Outside
<1>2. IsEvm(evm)
  BY DEF PaymentsRight, FormsRight
<1>3. /\ IsEvm(evm') /\ evm'.relayed = evm.relayed /\ evm'.deposited = evm.deposited
      /\ evm'.receipts = evm.receipts /\ evm'.used = evm.used /\ evm'.waiting = evm.waiting
      /\ evm'.allowance = evm.allowance /\ evm'.balance = evm.balance
  BY <1>1, <1>2 DEF IsEvm
<1>4. DepositsRight'
  BY <1>1, <1>3 DEF PaymentsRight, DepositsRight, Calm, Undisturbed, Ready, Busy
<1>5. ReceiptsRight'
  BY <1>3 DEF PaymentsRight, JobsRight, ReceiptsRight
<1>6. \A i \in 1..MaxOps : IsJob(jobs'[i]) /\ JobRight(i)'
  BY <1>1, <1>3, JobStays DEF PaymentsRight, FormsRight, JobsRight
<1>7. jobs' = [i \in 1..MaxOps |-> jobs'[i]]
  BY <1>1 DEF PaymentsRight, FormsRight
<1>. QED  BY <1>1, <1>3, <1>4, <1>5, <1>6, <1>7, EnvironmentKeeps

-----------------------------------------------------------------------------
\* At the start nothing has been paid.
LEMMA StartsRight ==
  ASSUME Init
  PROVE  PaymentsRight
<1>1. at = [a \in Actors |-> Idle] /\ ops = 0
  BY DEF Init, ActivityInit
<1>2. /\ fast.txs = {} /\ evm.balance = EvmFunds * Scale /\ evm.deposited = <<>> /\ evm.waiting = {}
      /\ evm.receipts = {} /\ evm.relayed = {} /\ IsEvm(evm)
  BY DEF Init, LedgersInit, IsEvm
<1>3. calls = [i \in 1..MaxOps |-> NoCall] /\ jobs = [i \in 1..MaxOps |-> NoJob]
  BY DEF Init, CallsInit, JobsInit
<1>4. NoCall \in Results /\ NoCall.asked.kind = "none" /\ NoCall.bridge = "none" /\ NoCall.result = "none"
  <2>1. <<>> \in Seq(Intents)
    OBVIOUS
  <2>. QED  BY <2>1 DEF NoCall, Results, Requests, Kinds, Tellings
<1>5. IsJob(NoJob) /\ NoJob.step = "none" /\ NoJob.answer = "none"
  BY DEF NoJob, IsJob
<1>6. \A a \in Actors : at[a] = Idle /\ ~Busy(a)
  BY <1>1 DEF Busy, Idle
<1>7. \A i \in 1..MaxOps : calls[i] = NoCall /\ jobs[i] = NoJob
  BY <1>3
<1>8. FormsRight
  BY <1>1, <1>2, <1>3, <1>4, <1>5, <1>6, <1>7, ActivityBounds DEF FormsRight
<1>9. DOMAIN evm.deposited = {}
  BY <1>2
<1>10. IdsRight /\ CallsRight /\ PaysOnce
  BY <1>2, <1>6, <1>7, <1>9 DEF IdsRight, CallsRight, PaysOnce
<1>11. TransfersRight
  BY <1>2, <1>4, <1>7 DEF TransfersRight, ToldRight, Bridges
<1>12. JobsRight
  BY <1>2, <1>5, <1>7 DEF JobsRight, JobRight, ReceiptsRight, WaitingRight
<1>13. DepositsRight
  <2>1. evm.balance \in Int
    BY <1>2, FundsAssumption, ScaleAssumption
  <2>. QED  BY <1>4, <1>6, <1>7, <2>1 DEF DepositsRight
<1>. QED  BY <1>8, <1>10, <1>11, <1>12, <1>13 DEF PaymentsRight

(* The inductive invariant holds for any number of callers, calls and        *)
(* faults, any amounts, fees and committee.                                  *)
THEOREM PaymentsAlwaysRight == Spec => []PaymentsRight
<1>1. Init => PaymentsRight
  BY StartsRight
<1>2. PaymentsRight /\ [Next]_vars => PaymentsRight'
  <2>. SUFFICES ASSUME PaymentsRight, [Next]_vars
                PROVE  PaymentsRight'
    OBVIOUS
  <2>1. CASE \E a \in Actors : (BridgeNext(a) /\ Unserved) \/ ClientNext(a) \/ (Dies(a) /\ Outside)
    BY <2>1, ActivitiesKeep
  <2>2. ASSUME NEW i \in 1..MaxOps, ServiceNext(i), UNCHANGED <<calls, history>>
        PROVE  PaymentsRight'
    BY <2>2, VerifyPaymentKeeps, SettlementKeeps, WaitForReceiptKeeps, LoseFacilitatorKeeps DEF ServiceNext
  <2>3. CASE Mine /\ Outside
    BY <2>3, MineKeeps
  <2>4. CASE Deliver /\ Outside
    BY <2>4, DeliverKeeps
  <2>5. CASE \E i \in 1..MaxOps : Pending(i) /\ Lapse(jobs[i].payload.body.key) /\ Outside
    BY <2>5, LapseKeeps
  <2>6. CASE UNCHANGED vars
    <3>1. UNCHANGED <<at, ops, fast, evm, calls, jobs>>
      BY <2>6 DEF vars, activity, ledgers
    <3>2. ReceiptsRight' /\ DepositsRight'
      BY <3>1 DEF PaymentsRight, JobsRight, ReceiptsRight, DepositsRight, Calm, Undisturbed, Ready, Busy
    <3>3. /\ IsEvm(evm') /\ jobs' = [i \in 1..MaxOps |-> jobs'[i]]
          /\ \A i \in 1..MaxOps : IsJob(jobs'[i]) /\ JobRight(i)
      BY <3>1 DEF PaymentsRight, FormsRight, JobsRight
    <3>4. \A i \in 1..MaxOps : JobRight(i)'
      BY <3>1, <3>3, JobStays
    <3>. QED  BY <3>1, <3>2, <3>3, <3>4, EnvironmentKeeps
  <2>. QED  BY <2>1, <2>2, <2>3, <2>4, <2>5, <2>6 DEF Next
<1>. QED  BY <1>1, <1>2, PTL DEF Spec

-----------------------------------------------------------------------------
(* TransferAccounted: a transfer to the bridge is never lost sight of,       *)
(* however the answers of the proxy, cross-sign and the relayer come         *)
(* (bridge.ts executeIntent).                                                *)
THEOREM TransferAccountedAlways == Spec => []TransferAccounted
<1>1. PaymentsRight => TransferAccounted
  BY DEF PaymentsRight, TransfersRight, ToldRight, TransferAccounted
<1>. QED  BY <1>1, PaymentsAlwaysRight, PTL

(* PaidAsAsked: whatever is relayed is what the caller asked for, paid by    *)
(* the caller's own transfer (bridge.ts, intent-v1.ts, claims.ts).           *)
THEOREM PaidAsAskedAlways == Spec => []PaidAsAsked
<1>1. ASSUME PaymentsRight
      PROVE  PaidAsAsked
  <2>. SUFFICES ASSUME NEW x \in evm.relayed
                PROVE  /\ x.claim.transfer = TransferId(x.op)
                       /\ x.claim = AbiClaim(BuildClaimBytes(Asked(x.op), TransferId(x.op), Asked(x.op).seconds))
                       /\ x.claim.intents = Asked(x.op).intents
                       /\ \E tx \in Accepted(x.op, "bridge") :
                            /\ tx.id = x.claim.transfer /\ tx.amount = x.amount
                            /\ ReadTransferUserDataTag(tx.data) =
                                 IF Asked(x.op).encoding = "v1" THEN Asked(x.op).chain ELSE NoChain
    BY DEF PaidAsAsked
  <2>1. x.op \in 1..MaxOps /\ RelayRight(x)
    BY <1>1, ActivityBounds DEF PaymentsRight, IdsRight, FormsRight, TransfersRight
  <2>2. PICK r, id : r = Asked(x.op) /\ id = TransferId(x.op)
    OBVIOUS
  <2>3. PlainRequest(r) /\ ~Refused(Prepared(r)) /\ id \in Int
    BY <1>1, <2>1, <2>2, AskedForms DEF PaymentsRight, RelayRight
  <2>4. /\ ClaimBytes(r, id) = BuildClaimBytes(r, id, r.seconds)
        /\ AbiClaim(ClaimBytes(r, id)).transfer = id /\ AbiClaim(ClaimBytes(r, id)).intents = r.intents
    BY <2>3, ClaimWritten
  <2>5. ReadTransferUserDataTag(Tag(x.op)) = IF r.encoding = "v1" THEN r.chain ELSE NoChain
    BY <2>2, <2>3, ClaimWritten DEF Tag
  <2>6. x.claim = AbiClaim(ClaimBytes(r, id)) /\ TransferMade(x.op, x.amount)
    BY <2>1, <2>2 DEF RelayRight
  <2>. QED  BY <2>2, <2>4, <2>5, <2>6 DEF TransferMade
<1>. QED  BY <1>1, PaymentsAlwaysRight, PTL

\* A set without two members has one at most.
LEMMA OneAtMost ==
  ASSUME NEW S, \A x, y \in S : x = y
  PROVE  IsFiniteSet(S) /\ Cardinality(S) <= 1
<1>1. CASE S = {}
  BY <1>1, FS_EmptySet
<1>2. CASE S # {}
  <2>1. PICK x \in S : S = {x}
    BY <1>2
  <2>2. IsFiniteSet({x}) /\ Cardinality({x}) = 1
    BY FS_Singleton
  <2>. QED  BY <2>1, <2>2
<1>. QED  BY <1>1, <1>2

(* EachCallPaysOnce: one transfer, one claim, one payment and one deposit of *)
(* a call, however its answers are lost (bridge.ts, eip7702.ts, x402-client).*)
THEOREM EachCallPaysOnceAlways == Spec => []EachCallPaysOnce
<1>1. ASSUME PaymentsRight, NEW op \in 1..MaxOps
      PROVE  /\ \A kind \in {"bridge", "claim", "payment"} : Cardinality(Accepted(op, kind)) <= 1
             /\ Cardinality({k \in DOMAIN evm.deposited : evm.deposited[k] = op}) <= 1
  <2>1. ASSUME NEW kind \in {"bridge", "claim", "payment"}
        PROVE  Cardinality(Accepted(op, kind)) <= 1
    <3>1. \A tx, ty \in Accepted(op, kind) : tx = ty
      BY <1>1 DEF PaymentsRight, PaysOnce, Accepted
    <3>. QED  BY <3>1, OneAtMost
  <2>2. Cardinality({k \in DOMAIN evm.deposited : evm.deposited[k] = op}) <= 1
    <3>1. \A m, n \in {k \in DOMAIN evm.deposited : evm.deposited[k] = op} : m = n
      BY <1>1 DEF PaymentsRight, PaysOnce
    <3>. QED  BY <3>1, OneAtMost
  <2>. QED  BY <2>1, <2>2
<1>2. PaymentsRight => EachCallPaysOnce
  BY <1>1 DEF EachCallPaysOnce
<1>. QED  BY <1>2, PaymentsAlwaysRight, PTL

(* DepositNotStarved: the reserve that a deposit checked for covers its      *)
(* approval and its transfer, whatever the fee and the scale (evm.ts        *)
(* ensureGasReserveIfGasToken).                                              *)
THEOREM DepositNotStarvedAlways == Spec => []DepositNotStarved
<1>1. PaymentsRight => DepositNotStarved
  BY DEF PaymentsRight, DepositsRight, Undisturbed, DepositNotStarved
<1>. QED  BY <1>1, PaymentsAlwaysRight, PTL

(* ServedWasPaid: content is delivered only for a payment on a ledger        *)
(* (verify.ts, settle.ts, middleware.ts).                                    *)
THEOREM ServedWasPaidAlways == Spec => []ServedWasPaid
<1>1. PaymentsRight => ServedWasPaid
  BY DEF PaymentsRight, JobsRight, JobRight, Bought, ServedWasPaid
<1>. QED  BY <1>1, PaymentsAlwaysRight, PTL

(* AuthorizationServesOnce: one authorization buys content once (settle.ts). *)
THEOREM AuthorizationServesOnceAlways == Spec => []AuthorizationServesOnce
<1>1. ASSUME PaymentsRight
      PROVE  AuthorizationServesOnce
  <2>. SUFFICES ASSUME NEW i \in 1..MaxOps, NEW j \in 1..MaxOps, i # j,
                       jobs[i].answer = "served", jobs[j].answer = "served",
                       NetworkType(jobs[i].terms.network) = "evm", NetworkType(jobs[j].terms.network) = "evm",
                       jobs[i].payload.body.key = jobs[j].payload.body.key
                PROVE  FALSE
    BY DEF AuthorizationServesOnce
  <2>1. Bought(i) /\ Bought(j)
    BY <1>1 DEF PaymentsRight, JobsRight, JobRight
  <2>2. PICK r, q : r = <<Transferred(i), TRUE>> /\ q = <<Transferred(j), TRUE>>
    OBVIOUS
  <2>3. r \in evm.receipts /\ q \in evm.receipts
    BY <2>1, <2>2 DEF Bought
  <2>4. /\ r[1] = Transferred(i) /\ r[2] = TRUE /\ r[1].kind = "authorized"
        /\ r[1].key = jobs[i].payload.body.key /\ r[1].op = i
        /\ q[1] = Transferred(j) /\ q[2] = TRUE /\ q[1].kind = "authorized"
        /\ q[1].key = jobs[j].payload.body.key /\ q[1].op = j
    BY <2>2 DEF Transferred, Tx
  <2>5. r = q
    BY <1>1, <2>3, <2>4 DEF PaymentsRight, JobsRight, ReceiptsRight
  <2>. QED  BY <2>4, <2>5
<1>. QED  BY <1>1, PaymentsAlwaysRight, PTL
=============================================================================
