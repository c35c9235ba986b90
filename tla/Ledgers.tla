------------------------------- MODULE Ledgers -------------------------------
(* The two ledgers one user's payments run on, as this code sees them: the   *)
(* user's account on the Fast network, behind a proxy, and on an EVM chain,  *)
(* behind a JSON-RPC node, with one token on both and the bridge between     *)
(* them. What the networks do is outside this repository.                    *)
EXTENDS Activity, Integers, Sequences

CONSTANTS
  FastFunds, EvmFunds, \* what the user starts with on each
  GasToken,  \* whether the chain's native units are the token's, and its fees paid in them
  FeeWei,    \* the fee of one transaction, in native units
  Scale      \* native units in a unit of the token

ASSUME FundsAssumption == FastFunds \in Nat /\ EvmFunds \in Nat /\ FeeWei \in Nat
ASSUME ScaleAssumption == Scale \in Nat \ {0} /\ GasToken \in BOOLEAN

VARIABLES
  fast,  \* the user's next nonce and balance, and the transactions accepted
  evm    \* the user's balance in native units, nonce and allowance, authorizations, and what
         \* was mined and relayed

ledgers == <<fast, evm>>

LedgersInit ==
  /\ fast = [nonce |-> 0, balance |-> FastFunds, txs |-> {}]
  /\ evm = [balance |-> EvmFunds * Scale, nonce |-> 0, allowance |-> 0, used |-> {}, expired |-> {},
            deposited |-> <<>>, waiting |-> {}, receipts |-> {}, relayed |-> {}, delivered |-> {}]

\* A step of an activity that may be a fault of the network or of a service.
Step(a, step, fault) ==
  /\ at' = [at EXCEPT ![a] = step]
  /\ fault => faults < MaxFaults
  /\ faults' = IF fault THEN faults + 1 ELSE faults
  /\ UNCHANGED <<ops, overlapped>>

(* submitTransaction. The proxy answers a transaction it accepts with its    *)
(* certificate; or the answer is lost, is the certificate of another one, or *)
(* says that signatures are still missing. It rejects one with another nonce *)
(* or too large an amount, and any one when it is busy.                      *)
Unclear == {"lost", "other", "incomplete"}
Applies(tx) == tx.nonce = fast.nonce /\ tx.amount <= fast.balance
Submit(tx, reply) ==
  \/ /\ Applies(tx) /\ reply \in {"Success"} \cup Unclear
     /\ fast' = [nonce |-> fast.nonce + 1, balance |-> fast.balance - tx.amount,
                 txs |-> fast.txs \cup {tx}]
  \/ /\ reply \in {"rejected", "lost", "incomplete"}
     /\ UNCHANGED fast
SubmitFault(tx, reply) == reply \in Unclear \/ (reply = "rejected" /\ Applies(tx))

Accepted(op, kind) == {tx \in fast.txs : tx.op = op /\ tx.kind = kind}

(* weiToTokenUnits rounds up; estimateGasReserve budgets an approve and a    *)
(* deposit at twice the fee.                                                 *)
WeiToTokenUnits(wei) == (wei + Scale - 1) \div Scale
Multiplier == 2
EstimateGasReserve == FeeWei * 2 * Multiplier
Fee == IF GasToken THEN FeeWei ELSE 0

\* balanceOf: the token's contract shows whole units.
BalanceOf == evm.balance \div Scale

(* A transaction is mined: an EIP-3009 transfer reverts when its             *)
(* authorization was used or has expired, a user operation fails when the    *)
(* account nonce its delegation was signed for is taken, and any transfer    *)
(* when the balance or the allowance is short. Fees are paid all the same.   *)
Tx(kind, op, amount, key, to) ==
  [kind |-> kind, op |-> op, amount |-> amount, key |-> key, to |-> to]
Succeeds(t) ==
  CASE t.kind = "authorized" -> t.key \notin evm.used \cup evm.expired /\ BalanceOf >= t.amount
    [] t.kind = "approve" -> evm.balance >= Fee
    [] t.kind = "deposit" -> evm.balance >= t.amount * Scale + Fee /\ evm.allowance >= t.amount
    [] t.kind = "native" -> evm.balance >= t.amount * Scale + Fee
    [] t.kind = "userop" -> BalanceOf >= t.amount /\ t.key \in {-1, evm.nonce}
AfterFee(t) ==
  IF t.kind \in {"authorized", "userop"} THEN evm
  ELSE [evm EXCEPT !.balance = IF Fee <= @ THEN @ - Fee ELSE 0, !.nonce = @ + 1]
AfterMining(t) ==
  LET e == AfterFee(t) IN
  IF ~Succeeds(t) THEN e
  ELSE CASE t.kind = "authorized" -> [e EXCEPT !.balance = @ - t.amount * Scale, !.used = @ \cup {t.key}]
         [] t.kind = "approve" -> [e EXCEPT !.allowance = t.amount]
         [] t.kind = "deposit" ->
              [e EXCEPT !.balance = @ - t.amount * Scale, !.allowance = @ - t.amount, !.deposited = Append(@, t.op)]
         [] t.kind = "native" -> [e EXCEPT !.balance = @ - t.amount * Scale, !.deposited = Append(@, t.op)]
         [] t.kind = "userop" ->
              [e EXCEPT !.balance = @ - t.amount * Scale, !.nonce = @ + 1, !.deposited = Append(@, t.op)]

\* A transaction of the facilitator or of a bundler waits for its block.
Mine ==
  /\ \E t \in evm.waiting :
       evm' = [AfterMining(t) EXCEPT !.waiting = @ \ {t},
                                     !.receipts = @ \cup {<<t, Succeeds(t)>>}]
  /\ UNCHANGED <<activity, fast>>

(* The bridge contract pays what a relayed claim says, some time after the   *)
(* relayer has accepted it; an authorization reaches its validBefore.        *)
Deliver ==
  /\ \E r \in evm.relayed \ evm.delivered :
       evm' = [evm EXCEPT !.delivered = @ \cup {r}, !.balance = @ + r.amount * Scale]
  /\ UNCHANGED <<activity, fast>>
Lapse(op) ==
  /\ op \notin evm.expired
  /\ faults < MaxFaults
  /\ faults' = faults + 1
  /\ evm' = [evm EXCEPT !.expired = @ \cup {op}]
  /\ UNCHANGED <<at, ops, overlapped, fast>>
=============================================================================
