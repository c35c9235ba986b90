---------------------------- MODULE MultisigVote ----------------------------
(* `fast multisig pending` and `fast multisig vote` (commands/multisig/): a  *)
(* member lists the proposals at the current nonce, and signs one of them.   *)
(* Both read the proposals first and the account's nonce after them.         *)
EXTENDS CliCommands

StartVote(a, m) ==
  /\ ResolveSigner(m, Shared)
  /\ \E pc \in {"list", "pending"} : Begin(a, "fast", Step(pc, "vote", m, Shared, "vote", FALSE))
  /\ UNCHANGED <<net, told, wallets, history>>

ReadPending(a, pc, next) ==
  /\ In(a, "fast", pc)
  /\ \/ Move(a, [at[a] EXCEPT !.pc = next, !.seen = Held], FALSE) /\ UNCHANGED told
     \/ ReadFails(a)
  /\ UNCHANGED <<net, wallets, history>>

\* fast multisig pending: the list of which the member will pass one --tx.
MultisigPending(a) == ReadPending(a, "list", "listed")
ShowPending(a) ==
  LET c == at[a]  shown == AtNonce(c.seen, AccountInfo(Shared).nextNonce) IN
  /\ In(a, "fast", "listed")
  /\ \/ \E tx \in shown : Move(a, [c EXCEPT !.pc = "pending", !.approved = {tx.id}], FALSE) /\ UNCHANGED told
     \/ shown = {} /\ Refuse(a, FALSE)
     \/ ReadFails(a)
  /\ UNCHANGED <<net, wallets, history>>

\* fast multisig vote.
GetVotePending(a) == ReadPending(a, "pending", "info")

\* The proposal of --tx, or the only one.
PickTarget(entries, wanted) ==
  IF wanted = {} THEN {tx \in entries : entries = {tx}} ELSE {tx \in entries : tx.id \in wanted}
GetVoteAccount(a) ==
  LET c == at[a]
      entries == AtNonce(c.seen, AccountInfo(Shared).nextNonce)
      target == PickTarget(entries, c.approved)
  IN
  /\ In(a, "fast", "info")
  /\ \/ target = {} /\ Refuse(a, FALSE)
     \/ \E tx \in target :
          /\ SignEnvelopeFor(c, tx)
          /\ Move(a, [c EXCEPT !.pc = "submit", !.tx = tx], FALSE) /\ UNCHANGED told
     \/ ReadFails(a)
  /\ UNCHANGED <<net, wallets, history>>

\* The answer means what it means to the pipeline; a failed vote has no result.
VoteReachedQuorum(reply) == Classify(reply, TRUE)
SubmitVote(a) ==
  LET c == at[a] IN
  /\ In(a, "fast", "submit") /\ c.command = "vote"
  /\ \E reply \in Replies :
       /\ Receive(c.id, c.tx, c.m, reply)
       /\ After(a, c.tx, VoteReachedQuorum(reply), ReplyFault(c.tx, reply))
  /\ UNCHANGED <<wallets, history>>

\* makeVoteHistoryEntry knows the token operations; others leave no entry.
RecordedKinds == {"send", "create", "mint", "burn"} \cup Manages
MakeVoteHistoryEntry(tx) == MakeHistoryEntry(tx.id, tx.kind, "confirmed")
RecordVote(a) ==
  LET tx == at[a].tx IN
  /\ In(a, "fast", "record") /\ at[a].command = "vote"
  /\ \/ tx.kind \in RecordedKinds /\ RecordConfirmedHistory(a, MakeVoteHistoryEntry(tx))
     \/ tx.kind \notin RecordedKinds /\ Finish(a, "success", tx, FALSE) /\ UNCHANGED history
  /\ UNCHANGED <<net, wallets>>

Vote(a) ==
  MultisigPending(a) \/ ShowPending(a) \/ GetVotePending(a) \/ GetVoteAccount(a) \/ SubmitVote(a) \/ RecordVote(a)
=============================================================================
