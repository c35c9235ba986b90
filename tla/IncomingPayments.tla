--------------------------- MODULE IncomingPayments ---------------------------
(* `fast wait-for-payment` and `fast request --wait` (services/              *)
(* incoming-payments.ts): the explorer's feed of an address is polled until  *)
(* it shows the payment, or the time is up. The explorer (services/api/      *)
(* explorer.ts) lists the rows newest first, page by page, and may publish a *)
(* row long after the time it bears. A page holds one row here.              *)
EXTENDS Activity, FiniteSetsExt, Integers

CONSTANTS
  Overlap, FullEvery, Interval, \* RESCAN_OVERLAP_MS, FULL_RESCAN_INTERVAL_MS and the poll interval
  Timeouts, Since,              \* the --timeout and, finer than the clock, the --since that may be given
  StartedAt,                    \* when the wait starts
  Transactions                  \* time and kind of the transactions that touch the address

ASSUME WaitAssumption == {Overlap, FullEvery, Interval, StartedAt} \cup Timeouts \subseteq Nat \ {0} /\ Since \in 0..StartedAt /\ \A x \in Transactions : x.t \in Nat

VARIABLES
  feed,  \* the clock in milliseconds, and the rows published
  waited \* what a wait told at its end

\* Time stamps are finer than the clock, by this factor here.
Fraction == 2
NsToMs(ns) == ns \div Fraction

\* A row is late if it was published later than the overlap allows for.
Row(x, published) == [t |-> x.t, kind |-> x.kind, late |-> published > NsToMs(x.t) + Overlap]
Kind(type, from, to, amount) == [type |-> type, from |-> from, to |-> to, amount |-> amount]
Transaction(t, kind) == [t |-> t, kind |-> kind]
NoRow == Row(Transaction(-1, Kind("none", "none", "none", "none")), -1)
NotWaited == [result |-> "none", err |-> "none", row |-> NoRow, present |-> {}, began |-> -1, sinceNs |-> -1, deadline |-> -1]
WaitInit == feed = [now |-> StartedAt, rows |-> {}] /\ waited = NotWaited

-----------------------------------------------------------------------------
(* explorer.ts. A page with a row that cannot be read is no answer.          *)
ValueTransferTypes == {"TokenTransfer", "Mint", "Burn"}
ParseRow(row) ==
  LET k == row.kind IN
  /\ "bad" \notin {k.from, k.to}
  /\ k.type \in ValueTransferTypes => k.to # "null" /\ k.amount # "bad"
ParseExplorerTransfersResponse(page) == \A row \in page : ParseRow(row)
NormalizeTransfer(row, address) ==
  row.kind.type \in ValueTransferTypes /\ address \in {row.kind.from, row.kind.to}

\* incoming-payments.ts: c holds the criteria, and "me" is the payee.
MatchesIncomingPayment(row, sinceNs) ==
  LET k == row.kind IN
  /\ NormalizeTransfer(row, "me")
  /\ k.type \in {"TokenTransfer", "Mint"} /\ k.to = "me" /\ k.from # "me" /\ k.amount = "exact"
  /\ row.t >= sinceNs

Earliest(rows) == IF rows = {} THEN NoRow ELSE CHOOSE r \in rows : \A s \in rows : r.t <= s.t

-----------------------------------------------------------------------------
(* What is typed. An amount is a number or not, has a fraction the token     *)
(* holds or a finer one, or is zero; a time is an instant, no time, or an    *)
(* impossible one; an address is a Fast address, a name, or neither.         *)
ParsePositiveAmount(amount) == amount \in {"number", "fraction"}
NormalizeRequestAmount(amount) ==
  CASE amount \in {"number", "0number"} -> "number"
    [] amount \in {"fraction", "fraction0"} -> "fraction"
    [] OTHER -> "refused"
ParseIsoTimestampNs(since) == since \in {"instant", "date"}
ValidateWaitTimeoutSeconds(seconds) == seconds \in 1..Max(Timeouts)
ResolvePayee(to, registry) ==
  CASE to = "fast" -> TRUE [] to = "name" -> registry [] to = "none" -> TRUE [] OTHER -> FALSE

WaitArgs == [amount : {"number", "fraction", "finer", "zero", "junk"}, since : {"instant", "date", "impossible", "none"},
             to : {"fast", "name", "none", "bad"}, timeout : {0, Max(Timeouts) + 1} \cup Timeouts, explorer : BOOLEAN]
WaitForPayment(args) ==
  /\ ValidateWaitTimeoutSeconds(args.timeout) /\ args.explorer
  /\ args.since # "none" => ParseIsoTimestampNs(args.since)
  /\ ParsePositiveAmount(args.amount) /\ args.to \in {"fast", "none"}
RequestArgs == [amount : {"number", "0number", "fraction", "fraction0", "finer", "zero", "junk"}, wait : BOOLEAN,
                to : {"fast", "name", "none", "bad"}, registry : BOOLEAN, timeout : {0} \cup Timeouts, mainnet : BOOLEAN]
RequestPayment(args) ==
  /\ ValidateWaitTimeoutSeconds(args.timeout) /\ args.mainnet /\ args.wait
  /\ ParsePositiveAmount(NormalizeRequestAmount(args.amount)) /\ ResolvePayee(args.to, args.registry)

\* A request waits for payments from now on; --since may be earlier, and finer
\* than the clock. Nothing else runs meanwhile.
StartWait(a) ==
  /\ ops = 0
  /\ \E sinceNs \in {feed.now * Fraction, Since}, timeout \in Timeouts, old \in SUBSET Transactions :
       /\ \/ sinceNs # Since /\ \E args \in RequestArgs : RequestPayment(args) /\ args.timeout = timeout
          \/ \E args \in WaitArgs : WaitForPayment(args) /\ args.timeout = timeout
       /\ \A x \in old : NsToMs(x.t) <= feed.now
       /\ feed' = [feed EXCEPT !.rows = {Row(x, NsToMs(x.t)) : x \in old}]
       /\ Begin(a, "wait", [in |-> "wait", pc |-> "sleep", sinceNs |-> sinceNs, deadline |-> feed.now + timeout, wake |-> feed.now,
            floor |-> NsToMs(sinceNs), lastFull |-> -FullEvery, err |-> "none",
            began |-> -1, full |-> FALSE, present |-> {}, bound |-> -1, cursor |-> -1,
            newest |-> -1, first |-> NoRow, best |-> NoRow])
  /\ UNCHANGED waited

-----------------------------------------------------------------------------
SlowlyFull(c) == feed.now - c.lastFull >= FullEvery
IsFull(c) == feed.now - c.lastFull >= FullEvery \/ c.deadline - feed.now <= FullEvery

\* A scan starts at the newest row and goes back to its bound.
ScanFrom(c, bound) ==
  [c EXCEPT !.bound = bound, !.cursor = -1, !.best = NoRow, !.present = feed.rows]

Poll(a) ==
  LET c == at[a]  full == IsFull(c) IN
  /\ In(a, "wait", "sleep") /\ feed.now >= c.wake
  /\ Go(a, [ScanFrom(c, IF full THEN NsToMs(c.sinceNs) ELSE c.floor) EXCEPT
              !.pc = "scan", !.began = feed.now, !.full = full, !.err = "in flight",
              !.newest = -1, !.first = NoRow])
  /\ UNCHANGED <<feed, waited>>

Tell(a, result, row) ==
  LET c == at[a] IN
  waited' = [result |-> result, err |-> c.err, row |-> row, present |-> c.present, began |-> c.began,
             sinceNs |-> c.sinceNs, deadline |-> c.deadline]

\* A poll that read all it wanted: the next one goes back to a little before
\* the newest row it saw.
Completed(c, confirmed) ==
  [c EXCEPT !.pc = "sleep", !.wake = feed.now + Interval, !.err = "none",
            !.floor = IF c.newest = -1 THEN @ ELSE Max({NsToMs(c.sinceNs), c.newest - Overlap}),
            !.lastFull = IF c.full \/ confirmed THEN c.began ELSE @]
PollDone(a, c) ==
  LET confirmed == c.pc = "confirm"
      found == IF c.best # NoRow THEN c.best ELSE c.first
  IN IF found # NoRow THEN Tell(a, "paid", found) /\ Exit(a)
     ELSE Go(a, Completed(c, confirmed)) /\ UNCHANGED waited

\* An incremental scan that finds the payment is followed by a full one.
Confirms(c) == c.pc = "scan" /\ ~c.full /\ c.best # NoRow
Scanned(a, c) ==
  IF Confirms(c)
  THEN Go(a, [ScanFrom(c, NsToMs(c.sinceNs)) EXCEPT !.pc = "confirm", !.first = c.best]) /\ UNCHANGED waited
  ELSE PollDone(a, c)

\* One page: the newest row before the cursor.
ListTransfers(cursor) ==
  LET older == {r \in feed.rows : cursor = -1 \/ r.t < cursor} IN
  {r \in older : \A s \in older : s.t <= r.t}
HasMore(page) == \E r \in feed.rows, s \in page : r.t < s.t
ReadPage(a) ==
  LET c == at[a]
      page == ListTransfers(c.cursor)
      matching == {r \in page : MatchesIncomingPayment(r, c.sinceNs)}
      times == {NsToMs(r.t) : r \in page}
      read == [c EXCEPT !.best = Earliest(matching \cup ({@} \ {NoRow})),
                        !.newest = IF @ = -1 /\ times # {} THEN Max(times) ELSE @]
      passedFloor == \E t \in times : t < c.bound
  IN
  /\ In(a, "wait", "scan") \/ In(a, "wait", "confirm")
  /\ ParseExplorerTransfersResponse(page)
  /\ \/ /\ passedFloor \/ ~HasMore(page)
        /\ Scanned(a, read)
     \/ /\ ~passedFloor /\ HasMore(page)
        /\ Go(a, [read EXCEPT !.cursor = Min({r.t : r \in page})]) /\ UNCHANGED waited
  /\ UNCHANGED feed

\* No answer, or one with a row that cannot be read.
Broken == {Kind("Mint", "payer", "me", "bad"), Kind("TokenTransfer", "payer", "null", "exact"), Kind("Burn", "bad", "me", "exact")}
\* A failed poll is tried again, from where the last complete one left off.
PollFails(a) ==
  LET c == at[a]
      retry == [c EXCEPT !.pc = "sleep", !.wake = feed.now + Interval, !.err = "unavailable"]
  IN
  /\ In(a, "wait", "scan") \/ In(a, "wait", "confirm")
  /\ \E page \in {{}} \cup {ListTransfers(c.cursor) \cup {Row(Transaction(0, k), 0)} : k \in Broken} :
       page = {} \/ ~ParseExplorerTransfersResponse(page)
  /\ faults < MaxFaults /\ faults' = faults + 1
  /\ at' = [at EXCEPT ![a] = retry] /\ UNCHANGED <<ops, overlapped>>
  /\ UNCHANGED <<feed, waited>>

\* The timeout interrupts whatever the wait is doing.
TimeOut(a) ==
  /\ at[a].in = "wait" /\ feed.now >= at[a].deadline
  /\ Tell(a, "timeout", NoRow) /\ Exit(a)
  /\ UNCHANGED feed

-----------------------------------------------------------------------------
\* The clock, and the indexer. Answers take any time; a sleep ends on time.
Tick(a) ==
  /\ at[a].in = "wait" /\ feed.now < at[a].deadline
  /\ at[a].pc = "sleep" => feed.now < at[a].wake
  /\ feed' = [feed EXCEPT !.now = @ + 1]
  /\ UNCHANGED <<activity, waited>>
Publish(a) ==
  /\ at[a].in = "wait"
  /\ \E x \in Transactions :
       /\ NsToMs(x.t) <= feed.now /\ \A r \in feed.rows : r.t # x.t
       /\ feed' = [feed EXCEPT !.rows = @ \cup {Row(x, feed.now)}]
  /\ UNCHANGED <<activity, waited>>

Wait(a) == StartWait(a) \/ Poll(a) \/ ReadPage(a) \/ PollFails(a) \/ TimeOut(a) \/ Tick(a) \/ Publish(a)

-----------------------------------------------------------------------------
\* A wait that ends with a payment tells the earliest of those the explorer
\* showed when it last looked through the whole window. One that ends for lack
\* of time, with no failure to report, had not been shown the payment when its
\* last poll began; only if that poll began too early to be one of the last
\* stretch may it have passed over a row that was published later than the
\* overlap allows for (services/incoming-payments.ts waitForIncoming).
WaitTruthful ==
  LET w == waited
      shown == {r \in w.present : MatchesIncomingPayment(r, w.sinceNs)}
  IN
  /\ w.result = "paid" =>
       /\ w.row \in feed.rows /\ MatchesIncomingPayment(w.row, w.sinceNs)
       /\ \A r \in shown : w.row.t <= r.t
  /\ w.result = "timeout" /\ w.err = "none" =>
       \A r \in shown : w.began < w.deadline - FullEvery /\ r.late
=============================================================================
