--------------------------- MODULE FastTransactions ---------------------------
(* The processes of the members of a shared account: their CLI commands and  *)
(* SDK pages on the Fast network.                                            *)
EXTENDS HistoryView, IncomingPayments

local == <<net, told, wallets, history>>
vars == <<activity, local, feed, waited>>

Init == ActivityInit /\ NetInit /\ WalletsInit /\ HistoryInit /\ WaitInit

\* Commands start once the wallets are set up.
Start(a) ==
  /\ UsualSetUp
  /\ \/ StartCommand(a)
     \/ \E m \in Members : StartVote(a, m) \/ StartHistory(a, m)
     \/ \E p \in Pages : StartCall(a, p)

Dies(a) ==
  /\ at[a].pc \in {"bridged", "record", "update"} /\ Fault(a)
  /\ UNCHANGED local

\* A wait for a payment shares no state with the rest, and is followed alone.
Next ==
  \/ /\ \/ \E m \in Members : SetUp(m) /\ UNCHANGED history
        \/ \E a \in Actors : Start(a) \/ Command(a) \/ Vote(a) \/ Call(a) \/ View(a) \/ Dies(a)
        \/ Confirm /\ UNCHANGED <<wallets, history>>
        \/ Arrive /\ UNCHANGED <<wallets, history>>
     /\ UNCHANGED <<feed, waited>>
  \/ /\ WalletsInit
     /\ \E a \in Actors : Wait(a)
     /\ UNCHANGED local

Spec == Init /\ [][Next]_vars

-----------------------------------------------------------------------------
\* What a command tells of its transaction is so: a success was accepted, an
\* incomplete one was taken, and a failure left nothing behind (tx-pipeline.ts
\* submitOperation, multisig/index.ts, commands/multisig/vote.ts).
OutcomeTruthful ==
  \A op \in 1..MaxOps :
    LET t == told[op] IN
    /\ t.result \in {"success", "unrecorded", "submitted"} => t.tx \in net.txs
    /\ t.result = "incomplete" => op \in net.taken
    /\ t.result = "waiting" => t.tx \in net.txs \cup net.waiting
    /\ t.result = "failed" => op \notin net.taken

Displaced(tx) == tx \in Held /\ tx \notin Held' /\ tx \notin net.txs' /\ tx.nonce = net.next[Shared]'
MayReplace(c, tx) ==
  CASE c.command = "operation" -> tx \notin c.seen \/ c.replace
    [] c.command = "submitPrepared" -> tx \notin c.seen \/ tx.id \in c.approved
    [] OTHER -> c.tx \notin Held

\* A proposal that could still be executed disappears unexecuted only when
\* its replacer had not seen it, or had been told to replace it; a vote drops
\* one only if the proposal it signs had itself been dropped (multisig/index.ts
\* prepare and submitPrepared, tx-pipeline.ts, commands/multisig/vote.ts).
ReplacedOnPurpose ==
  [][\A tx \in Held : Displaced(tx) =>
       \E a \in Actors : In(a, "fast", "submit") /\ at'[a] # at[a] /\ MayReplace(at[a], tx)]_vars

\* A machine's table: a confirmed row is of an accepted transaction or of a
\* transfer that arrived, a pending one of a transfer. And what a command told
\* as done is in it, whatever writes failed: a transaction told without the
\* warning that it is not recorded, and a transfer not told as an error
\* (services/storage/history.ts, commands/info/history.ts, commands/send.ts).
HistoryTruthful ==
  LET rows == UNION {history[m] : m \in Members} IN
  /\ \A r \in rows :
       \/ r.kind \notin Routes /\ \E tx \in net.txs : tx.id = r.hash /\ tx.kind = r.kind
       \/ r.kind \in Routes /\ r.hash \in net.bridged /\ (r.status = "confirmed" => r.hash \in net.arrived)
  /\ \A op \in 1..MaxOps :
       LET t == told[op] IN
       /\ t.result = "success" /\ t.tx.kind \in RecordedKinds => MakeVoteHistoryEntry(t.tx) \in rows
       /\ t.result = "transferred" => \E r \in rows : r.hash = op

\* A wallet's address is that of its configuration, and two wallets are of one
\* account if and only if they have the same members, quorum and config nonce,
\* in whatever order and by whichever of init, import and an edited file these
\* were given (interface/multisig-signer.ts, commands/multisig/).
WalletsAgree ==
  \A m, n \in Members :
    LET w == wallets[m]  v == wallets[n] IN
    /\ w # NoWallet => w.fastAddress = DeriveMultiSigAddress(w.config)
    /\ w # NoWallet /\ v # NoWallet =>
         (w.fastAddress = v.fastAddress <=>
            /\ ToSet(w.config.signers) = ToSet(v.config.signers)
            /\ w.config.quorum = v.config.quorum
            /\ w.config.nonce = v.config.nonce)
=============================================================================
