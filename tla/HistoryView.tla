----------------------------- MODULE HistoryView -----------------------------
(* `fast info history` (commands/info/history.ts): it lists the machine's    *)
(* rows, asks the bridge's portal about the pending transfers among them,    *)
(* and marks those that arrived.                                             *)
EXTENDS MultisigWorkflow

StartHistory(a, m) ==
  /\ Begin(a, "fast", Step("rows", "history", m, m, "history", FALSE))
  /\ UNCHANGED <<net, told, wallets, history>>

InferRoute(row) == IF row.kind \in Routes THEN row.kind ELSE "fast"
PendingBridge(rows) == {r.hash : r \in {q \in rows : q.status = "pending" /\ InferRoute(q) # "fast"}}

\* The pending transfers, of which each is asked about on its own.
QueryHistory(a) ==
  LET c == at[a] IN
  /\ In(a, "fast", "rows")
  /\ Go(a, [c EXCEPT !.pc = "portal", !.approved = PendingBridge(history[c.m])])
  /\ UNCHANGED <<net, told, wallets, history>>

\* isDepositConfirmed, isWithdrawConfirmed: a portal that does not answer has
\* not confirmed.
QueryActivity(a) ==
  LET c == at[a] IN
  /\ In(a, "fast", "portal")
  /\ \/ /\ c.approved = {}
        /\ Finish(a, "shown", NoTx, FALSE)
     \/ \E hash \in c.approved :
          /\ \/ hash \in net.arrived /\ Move(a, [c EXCEPT !.pc = "update", !.update = hash], FALSE)
             \/ hash \notin net.arrived /\ Move(a, [c EXCEPT !.approved = @ \ {hash}], FALSE)
             \/ Move(a, [c EXCEPT !.approved = @ \ {hash}], TRUE)
          /\ UNCHANGED told
  /\ UNCHANGED <<net, wallets, history>>

RefreshStatus(a) ==
  LET c == at[a] IN
  /\ In(a, "fast", "update")
  /\ \/ /\ history' = [history EXCEPT ![c.m] = UpdateStatus(@, c.update, "confirmed")]
        /\ Move(a, [c EXCEPT !.pc = "portal", !.approved = @ \ {c.update}], FALSE)
        /\ UNCHANGED told
     \/ Refuse(a, TRUE) /\ UNCHANGED history
  /\ UNCHANGED <<net, wallets>>

View(a) == QueryHistory(a) \/ QueryActivity(a) \/ RefreshStatus(a)
=============================================================================
