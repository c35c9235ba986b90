----------------------------- MODULE NonceLedger -----------------------------
(***************************************************************************)
(* What the settlement journal promises the owner of a signing account,    *)
(* with no files, locks, processes or failures in it: an operation spends  *)
(* one nonce, once; a nonce is spent by one operation; a spent nonce is    *)
(* never given back, and only a spent one can become final.                *)
(***************************************************************************)
CONSTANTS Ops, Nonces

VARIABLES
  spender,  \* per nonce, the operation whose transaction was sent with it
  fate      \* per operation: "new", "sent" or "final"

ledgerVars == <<spender, fate>>

LedgerInit ==
  /\ spender = [n \in Nonces |-> "nobody"]
  /\ fate = [o \in Ops |-> "new"]

\* The only step that puts the account's money at stake.
Spend(o, n) ==
  /\ fate[o] = "new"
  /\ spender[n] = "nobody"
  /\ spender' = [spender EXCEPT ![n] = o]
  /\ fate' = [fate EXCEPT ![o] = "sent"]

\* The network certified the operation's transaction.
Finalise(o) ==
  /\ fate[o] = "sent"
  /\ fate' = [fate EXCEPT ![o] = "final"]
  /\ UNCHANGED spender

LedgerNext ==
  \/ \E o \in Ops, n \in Nonces : Spend(o, n)
  \/ \E o \in Ops : Finalise(o)

LedgerSpec == LedgerInit /\ [][LedgerNext]_ledgerVars
=============================================================================
