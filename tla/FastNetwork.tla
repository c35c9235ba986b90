----------------------------- MODULE FastNetwork -----------------------------
(* The Fast network as the CLI and the SDK see it through the proxy (core/   *)
(* proxy.ts, interface/provider.ts, services/api/fast.ts): an account of     *)
(* each member and one account they share, whose transactions need the       *)
(* signatures of a quorum of them, and one token. What the proxy and the     *)
(* validators do is outside this repository.                                 *)
EXTENDS Activity, Integers, Sequences

CONSTANTS
  Members, \* the members of the shared account, each with a machine of its own
  Shared,  \* the shared account, which is the token's admin
  Quorum   \* its quorum

ASSUME QuorumAssumption == Quorum \in 1..Cardinality(Members) /\ Shared \notin Members

VARIABLES
  net,  \* next nonces, proposals, transactions awaiting confirmation and accepted, ...
  told  \* what each command told its caller, and about which transaction

Senders == Members \cup {Shared}

(* A transaction is known by the command that built it: its timestamp makes  *)
(* it unlike any other. Its kind is that of its first operation; update is   *)
(* the token update a management operation claims to follow.                 *)
Manages == {"addMinter", "removeMinter"}
NoTx == [sender |-> Shared, nonce |-> -1, id |-> 0, kind |-> "none", update |-> -1]
NoOutcome == [result |-> "none", tx |-> NoTx]

NetInit ==
  /\ net = [next |-> [s \in Senders |-> 0], proposals |-> {}, waiting |-> {}, txs |-> {},
            taken |-> {}, update |-> 0, minters |-> {Shared}, bridged |-> {}, arrived |-> {}]
  /\ told = [op \in 1..MaxOps |-> NoOutcome]

\* The three reads.
AccountInfo(sender) ==
  [nextNonce |-> net.next[sender], pendingConfirmation |-> \E w \in net.waiting : w.sender = sender]
PendingMultisigTransactions == net.proposals
TokenInfo == [admin |-> Shared, mints |-> net.minters, updateId |-> net.update]

Signatures(tx) == UNION {p.signed : p \in {q \in net.proposals : q.tx = tx}}
Current(tx) == AccountInfo(tx.sender) = [nextNonce |-> tx.nonce, pendingConfirmation |-> FALSE]
Executable(tx) ==
  /\ Current(tx)
  /\ tx.kind \in Manages => tx.update = net.update /\ tx.sender = TokenInfo.admin
  /\ tx.kind = "mint" => tx.sender \in net.minters
Enough(tx, m) == tx.sender # Shared \/ Cardinality(Signatures(tx) \cup {m}) >= Quorum

Accept(n, tx) ==
  [n EXCEPT !.next[tx.sender] = @ + 1, !.txs = @ \cup {tx}, !.waiting = @ \ {tx},
            !.proposals = {p \in @ : p.tx # tx},
            !.update = IF tx.kind \in Manages THEN @ + 1 ELSE @,
            !.minters = CASE tx.kind = "addMinter" -> @ \cup {Shared}
                          [] tx.kind = "removeMinter" -> @ \ {Shared}
                          [] OTHER -> @]

\* A signature on a proposal the proxy holds joins the others. A new one may
\* take the place of the proposals at its nonce, or be held beside them.
Collect(n, tx, m) ==
  LET known == \E p \in n.proposals : p.tx = tx
      entry == [tx |-> tx, signed |-> Signatures(tx) \cup {m}]
      others == {p \in n.proposals : p.tx # tx}
  IN {[n EXCEPT !.proposals = others \cup {entry}]} \cup
     (IF known THEN {} ELSE {[n EXCEPT !.proposals = {p \in others : p.tx.nonce # tx.nonce} \cup {entry}]})

(* What the proxy does with an envelope of command op that carries the       *)
(* signature of m, and what it answers. An answer may be lost on its way, or *)
(* be the certificate of another transaction; a request may be turned away   *)
(* ("busy": too many requests, or no service).                               *)
Garbled == {"lost", "other"}
Receive(op, tx, m, reply) ==
  LET Take(S) == net' \in {[n EXCEPT !.taken = @ \cup {op}] : n \in S} IN
  \/ /\ Executable(tx) /\ Enough(tx, m)
     /\ \/ reply \in Garbled \cup {"Success"} /\ Take({Accept(net, tx)})
        \/ reply \in {"lost", "IncompleteVerifierSigs"} /\ Take({[net EXCEPT !.waiting = @ \cup {tx}]})
  \/ /\ Current(tx) /\ ~Enough(tx, m)
     /\ reply \in {"lost", "IncompleteMultiSig"} /\ Take(Collect(net, tx, m))
  \/ reply \in {"lost", "rejected", "busy"} /\ UNCHANGED net
Replies == Garbled \cup {"Success", "IncompleteVerifierSigs", "IncompleteMultiSig", "rejected", "busy"}
ReplyFault(tx, reply) == reply \in Garbled \cup {"busy"} \/ (reply = "rejected" /\ Executable(tx))

\* The validators confirm; the bridge delivers.
Confirm ==
  /\ \E w \in net.waiting : net' = Accept(net, w)
  /\ UNCHANGED <<activity, told>>
Arrive ==
  /\ \E id \in net.bridged \ net.arrived : net' = [net EXCEPT !.arrived = @ \cup {id}]
  /\ UNCHANGED <<activity, told>>

-----------------------------------------------------------------------------
(* A command of member m: at[a] holds what it was asked (kind, sender,       *)
(* replace), what it has read (nonce, update, seen) and, once there is one,  *)
(* its transaction; approved are the proposals it was told it replaces.      *)
Step(pc, command, m, sender, kind, replace) ==
  [in |-> "fast", pc |-> pc, command |-> command, m |-> m, sender |-> sender, kind |-> kind, replace |-> replace,
   nonce |-> -1, update |-> -1, tx |-> NoTx, seen |-> {}, approved |-> {}, id |-> ops + 1]

\* A step of a command, perhaps a fault of the network or of the machine.
Move(a, step, fault) ==
  /\ at' = [at EXCEPT ![a] = step]
  /\ fault => faults < MaxFaults
  /\ faults' = IF fault THEN faults + 1 ELSE faults
  /\ UNCHANGED <<ops, overlapped>>

\* The command ends with a result; a call that submits again keeps the doubt
\* an earlier submission has left.
Outcome(a, result, tx) ==
  LET before == told[at[a].id].result IN
  told' = [told EXCEPT ![at[a].id] =
             [result |-> IF result = "failed" /\ before # "none" THEN before ELSE result,
              tx |-> IF result = "failed" /\ before # "none" THEN @.tx ELSE tx]]
Finish(a, result, tx, fault) == Outcome(a, result, tx) /\ Move(a, Idle, fault)
Refuse(a, fault) == Finish(a, "failed", NoTx, fault)
\* A read that fails ends the command.
ReadFails(a) == Refuse(a, TRUE) /\ UNCHANGED net
=============================================================================
