----------------------------- MODULE WalletPopup -----------------------------
(* FastWalletClient of the wallet SDK: sign and connect calls of one page,  *)
(* each settled by a message of its popup, the popup's closing, a timeout   *)
(* or a later call, and one slot for the call in flight.                    *)
EXTENDS Activity

CONSTANT NoCall

ASSUME NoCallAssumption == NoCall \notin Actors

VARIABLES
  inFlight,  \* the call in flight, or NoCall
  popups,    \* the calls whose popup window is open
  connected  \* whether an address is cached in localStorage

page == <<inFlight, popups, connected>>

Waiting == {a \in Actors : In(a, "popup", "waiting")}

PageInit ==
  /\ inFlight = NoCall
  /\ popups = {}
  /\ connected = FALSE

PopupCall(kind) == [in |-> "popup", pc |-> "waiting", kind |-> kind, ok |-> FALSE]

(* openPopupAndAwait: the call in flight is cleaned up, closed and rejected *)
(* before the new one may fail on its URL or the popup blocker.             *)
SupersededSilently(step) == step
Superseded(step) ==
  [b \in Actors |-> IF b = inFlight /\ b \in Waiting
                      THEN [at[b] EXCEPT !.pc = "settled"] ELSE step[b]]
Start(a, kind, opened) ==
  /\ at[a] = Idle
  /\ ops < MaxOps
  /\ ops' = ops + 1
  /\ at' = Superseded([at EXCEPT ![a] =
                         IF opened THEN PopupCall(kind)
                                   ELSE [PopupCall(kind) EXCEPT !.pc = "settled"]])
  /\ inFlight' = IF opened THEN a ELSE NoCall
  /\ popups' = (popups \ {inFlight}) \cup (IF opened THEN {a} ELSE {})
  /\ UNCHANGED <<faults, overlapped, connected>>
Sign(a) == \E opened \in BOOLEAN : Start(a, "sign", opened)
Connect(a) == ~connected /\ \E opened \in BOOLEAN : Start(a, "connect", opened)

(* finish: settles once, and frees the slot only when it is the call's own. *)
Finish(a, ok) ==
  /\ at' = [at EXCEPT ![a].pc = "settled", ![a].ok = ok]
  /\ inFlight' = IF inFlight = a THEN NoCall ELSE inFlight
  /\ UNCHANGED <<ops, faults, overlapped, connected>>

(* The popup posts its result, or an error; anything else is noise.         *)
Message(a) ==
  /\ a \in Waiting /\ a \in popups
  /\ \E ok \in BOOLEAN : Finish(a, ok)
  /\ UNCHANGED popups
ClosedPoll(a) ==
  /\ a \in Waiting /\ a \notin popups
  /\ Finish(a, FALSE)
  /\ UNCHANGED popups
Timeout(a) ==
  /\ a \in Waiting
  /\ popups' = popups \ {a}
  /\ Finish(a, FALSE)

(* The call's continuation runs after it settled: connect then caches the   *)
(* address, even when the page disconnected in between.                     *)
Continue(a) ==
  /\ In(a, "popup", "settled")
  /\ connected' = (connected \/ (at[a].kind = "connect" /\ at[a].ok))
  /\ Exit(a)
  /\ UNCHANGED <<inFlight, popups>>
Disconnect ==
  /\ connected
  /\ connected' = FALSE
  /\ UNCHANGED <<activity, inFlight, popups>>
UserCloses(a) ==
  /\ a \in popups
  /\ popups' = popups \ {a}
  /\ UNCHANGED <<activity, inFlight, connected>>

PopupNext(a) ==
  \/ Sign(a) \/ Connect(a)
  \/ Message(a) \/ ClosedPoll(a) \/ Timeout(a) \/ Continue(a)
  \/ UserCloses(a)
-----------------------------------------------------------------------------
PopupTypeOK ==
  /\ inFlight \in Actors \cup {NoCall}
  /\ popups \subseteq Actors
  /\ connected \in BOOLEAN

(* However calls supersede each other, fail to open and settle: the calls   *)
(* that have not settled are the one in flight and no other, so a message,  *)
(* a timeout or a later call still reaches each of them. wallet/client.ts   *)
(* openPopupAndAwait.                                                       *)
NoOrphanCall == Waiting = {inFlight} \ {NoCall}
=============================================================================
