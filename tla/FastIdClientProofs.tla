------------------------- MODULE FastIdClientProofs -------------------------
(***************************************************************************)
(* What calls on the fastid-sdk tell and pay, for any number of concurrent *)
(* calls, applications, failures and retries.                              *)
(***************************************************************************)
EXTENDS LocalStateProofs

-----------------------------------------------------------------------------
(* A call that has neither paid nor sent anything yet.                      *)
Early(s) == s.in = "fastid" /\ s.pc \notin {"join", "links", "register"}
Since(kind) == IF kind = "github" THEN client.forgot ELSE 0
Heard == {said[i] : i \in 1..MaxOps} \cup {promises[i] : i \in 1..MaxOps}

(* Calls have numbers of their own, and what is on the network or stored has *)
(* the number of a call that is no longer early.                            *)
IdsRight ==
  /\ \A a \in Actors : at[a].in = "fastid" => at[a].id \in 1..ops
  /\ \A a, b \in Actors : at[a].in = "fastid" /\ at[b].in = "fastid" /\ at[a].id = at[b].id => a = b
  /\ \A tx \in account.txs : tx.id <= ops
  /\ \A i \in service.stored : i <= ops
  /\ \A a \in Actors : Early(at[a]) =>
       at[a].id \notin service.stored /\ \A tx \in account.txs : tx.id # at[a].id
  /\ \A i \in 1..MaxOps : i > ops => promises[i] = Untold

(* What was told is so.                                                     *)
Borne(o) ==
  LET t == o.tx IN
  /\ o.result = "unpaid" => \A tx \in account.txs : tx.id # t.id
  /\ o.result \in {"pending", "unverified", "registered", "terminal"} => t \in account.txs
  /\ o.result = "registered" => t \in service.rows \/ t.of \in service.revoked
  /\ o.result = "verified" => t.id \in service.verified
  /\ o.result = "already" => service.x = "applied"
  /\ o.result = "stored" => t.id \in service.stored
  /\ o.result = "refused" => t.id \notin service.stored
Denied(o) == o.result \in {"unpaid", "refused"}
OutcomeRight(o) ==
  /\ Borne(o)
  /\ Denied(o) => o.tx.id <= ops /\ \A a \in Actors : Early(at[a]) => at[a].id # o.tx.id
OutcomesRight == \A o \in Heard : OutcomeRight(o)

(* What a call relies on: a settlement that has not ended is the one in the  *)
(* slot of its property, but for one a revocation made the client forget.    *)
SettlementRight(c) ==
  /\ c.by = c.id /\ promises[c.id] = Untold
  /\ c.id > Since(c.kind) => client.slot[c.kind] = c.id
CallRight(c) ==
  /\ c.pc = "register" => c.tx \in account.txs
  /\ c.pc = "links" => promises[c.by].result \in {"registered", "pending"}
  /\ c.pc = "found" /\ c.kind = "applied" => service.x = "applied"
  /\ c.kind \in Proven /\ c.pc \notin {"join", "links"} => SettlementRight(c)
CallsRight == \A a \in Actors : at[a].in = "fastid" => CallRight(at[a])
PaymentRight(tx) ==
  tx.prop \in Proven =>
    /\ tx = Claim(tx.id, tx.prop)
    /\ tx.id > Since(tx.prop) => client.slot[tx.prop] = tx.id
PaymentsRight == \A tx \in account.txs : PaymentRight(tx)
ClientRight ==
  /\ client.verified # 0 => client.verified \in service.verified
  /\ client.verification = "applied" => service.x = "applied"

(* The inductive invariant of the fastid-sdk.                               *)
ClaimsRight == IdsRight /\ OutcomesRight /\ CallsRight /\ PaymentsRight /\ ClientRight

-----------------------------------------------------------------------------
(* What each step of a call does at most, from c to s.                      *)
Grows ==
  /\ account.txs \subseteq account'.txs /\ service.rows \subseteq service'.rows
  /\ service.revoked \subseteq service'.revoked /\ service.verified \subseteq service'.verified
  /\ service.stored \subseteq service'.stored
  /\ service.x = "applied" => service'.x = "applied"
SlotMoves(c, k) ==
  \/ client'.slot[k] = client.slot[k] /\ Since(k)' = Since(k)
  \/ client'.slot[k] = ops + 1 /\ client.slot[k] = 0 /\ Since(k)' = Since(k)
  \/ client'.slot[k] = 0 /\ Early(c) /\ client.slot[k] = c.id /\ Since(k)' = Since(k)
  \/ client'.slot[k] = 0 /\ Since(k)' = ops
Starting(c, s) == c = Idle /\ ops' = ops + 1 /\ s.in = "fastid" /\ s.id = ops + 1
Going(c, s) ==
  /\ c.in = "fastid" /\ ops' = ops
  /\ s.in = "fastid" => s.id = c.id
  /\ Early(s) => Early(c)
Spends(c, s) == Early(c) /\ ~Early(s)
News(c, s, o) == Borne(o)' /\ (Denied(o) => Spends(c, s) /\ o.tx.id = c.id)

CallStep(a, s) ==
  /\ at' = [at EXCEPT ![a] = s]
  /\ Starting(at[a], s) \/ Going(at[a], s)
  /\ Grows
  /\ \A tx \in account'.txs \ account.txs : Spends(at[a], s) /\ tx.id = at[a].id /\ PaymentRight(tx)'
  /\ \A i \in service'.stored \ service.stored : Spends(at[a], s) /\ i = at[a].id
  /\ \A k \in Proven : SlotMoves(at[a], k)
  /\ \A i \in 1..MaxOps :
       promises'[i] = promises[i] \/ (at[a].in = "fastid" /\ i = at[a].id /\ promises[i] = Untold)
  /\ \A o \in Heard' : o \in Heard \/ News(at[a], s, o)
  /\ s.in = "fastid" => CallRight(s)'
  /\ ClientRight'

\* Numbers of the calls and of what they did.
LEMMA Numbers ==
  ASSUME Typed
  PROVE  /\ ops \in 0..MaxOps /\ MaxOps \in Nat
         /\ \A tx \in account.txs : tx.id \in Int /\ tx \in Txs
         /\ \A i \in service.stored : i \in Int
         /\ \A a \in Actors : at[a].in = "fastid" => at[a].id \in 1..MaxOps /\ at[a] \in FastIdSteps
         /\ \A k \in Proven : client.slot[k] \in 0..MaxOps /\ Since(k) \in 0..MaxOps
         /\ \A o \in Heard : o \in Outcomes /\ o.tx.id \in Int
<1>1. \A tx \in account.txs : tx \in Txs /\ tx.id \in Int
  BY FastIdTypes DEF Txs
<1>2. \A k \in Proven : client.slot[k] \in 0..MaxOps /\ Since(k) \in 0..MaxOps
  BY FastIdTypes, ActivityBounds DEF Clients, Since
<1>3. \A i \in service.stored : i \in Int
  BY FastIdTypes DEF Services
<1>4. \A a \in Actors : at[a].in = "fastid" => at[a].id \in 1..MaxOps /\ at[a] \in FastIdSteps
  BY CallForms
<1>5. \A o \in Heard : o \in Outcomes /\ o.tx.id \in Int
  <2>1. \A o \in Heard : o \in Outcomes
    BY FastIdTypes DEF Heard
  <2>. QED  BY <2>1 DEF Outcomes, Txs
<1>. QED  BY <1>1, <1>2, <1>3, <1>4, <1>5, FastIdTypes, ActivityBounds

\* The other calls are as they were.
LEMMA OthersSame ==
  ASSUME Typed, NEW a \in Actors, NEW s, CallStep(a, s)
  PROVE  at'[a] = s /\ \A b \in Actors \ {a} : at'[b] = at[b]
BY DEF CallStep, Typed, ActivityTyped

\* Numbers stay right.
LEMMA IdsStep ==
  ASSUME Typed, Typed', IdsRight, NEW a \in Actors, NEW s, CallStep(a, s)
  PROVE  IdsRight'
<1>0. at'[a] = s /\ \A b \in Actors \ {a} : at'[b] = at[b]
  BY OthersSame
<1>1. ops \in Nat /\ ops' \in {ops, ops + 1} /\ ops' \in Nat
  BY Numbers DEF CallStep, Starting, Going
<1>2. s.in = "fastid" => (s.id = ops + 1 /\ ops' = ops + 1) \/ (at[a].in = "fastid" /\ s.id = at[a].id)
  BY DEF CallStep, Starting, Going
<1>3. \A b \in Actors : at'[b].in = "fastid" => at'[b].id \in 1..ops'
  BY <1>0, <1>1, <1>2 DEF IdsRight
<1>4. \A b, d \in Actors : at'[b].in = "fastid" /\ at'[d].in = "fastid" /\ at'[b].id = at'[d].id => b = d
  BY <1>0, <1>1, <1>2 DEF IdsRight
<1>5. (\A tx \in account'.txs : tx.id <= ops') /\ \A i \in service'.stored : i <= ops'
  <2>1. at[a].in = "fastid" => at[a].id <= ops'
    BY <1>1, Numbers DEF IdsRight
  <2>2. Spends(at[a], s) => at[a].in = "fastid"
    BY DEF Spends, Early
  <2>. QED  BY <1>1, <2>1, <2>2, Numbers DEF IdsRight, CallStep
<1>6. ASSUME NEW b \in Actors, Early(at'[b])
      PROVE  at'[b].id \notin service'.stored /\ \A tx \in account'.txs : tx.id # at'[b].id
  <2>1. CASE b # a
    <3>1. /\ Early(at[b]) /\ at'[b] = at[b] /\ at[b].in = "fastid"
          /\ Spends(at[a], s) => at[a].in = "fastid" /\ at[a].id # at[b].id
      BY <1>0, <1>6, <2>1 DEF IdsRight, Early, Spends
    <3>. QED  BY <3>1 DEF IdsRight, CallStep
  <2>2. CASE b = a
    <3>1. Early(s) /\ ~Spends(at[a], s) /\ s.in = "fastid"
      BY <1>0, <1>6, <2>2 DEF Spends, Early
    <3>2. account'.txs = account.txs /\ service'.stored = service.stored
      BY <3>1 DEF CallStep, Grows
    <3>3. CASE s.id = ops + 1
      BY <1>0, <1>1, <2>2, <3>2, <3>3, Numbers DEF IdsRight
    <3>4. CASE Going(at[a], s)
      BY <1>0, <2>2, <3>1, <3>2, <3>4 DEF IdsRight, Going
    <3>. QED  BY <3>3, <3>4 DEF CallStep, Starting
  <2>. QED  BY <2>1, <2>2
<1>7. \A i \in 1..MaxOps : i > ops' => promises'[i] = Untold
  <2>1. \A i \in 1..MaxOps : i > ops' => promises'[i] = promises[i]
    BY <1>1 DEF IdsRight, CallStep
  <2>. QED  BY <1>1, <2>1 DEF IdsRight
<1>. QED  BY <1>3, <1>4, <1>5, <1>6, <1>7 DEF IdsRight

\* What was told stays so, and what is told is.
LEMMA OutcomesStep ==
  ASSUME Typed, Typed', IdsRight, IdsRight', OutcomesRight, NEW a \in Actors, NEW s, CallStep(a, s)
  PROVE  OutcomesRight'
<1>0. at'[a] = s /\ \A b \in Actors \ {a} : at'[b] = at[b]
  BY OthersSame
<1>1. ops \in Nat /\ ops' \in {ops, ops + 1} /\ ops' \in Nat
  BY Numbers DEF CallStep, Starting, Going
<1>2. ASSUME NEW o \in Heard  PROVE OutcomeRight(o)'
  <2>0. OutcomeRight(o) /\ o.tx.id \in Int
    BY Numbers DEF OutcomesRight
  <2>1. ASSUME Denied(o)  PROVE o.tx.id <= ops' /\ \A b \in Actors : Early(at'[b]) => at'[b].id # o.tx.id
    <3>1. o.tx.id <= ops /\ \A b \in Actors : Early(at[b]) => at[b].id # o.tx.id
      BY <2>0, <2>1 DEF OutcomeRight
    <3>2. Early(s) => s.id # o.tx.id
      BY <1>1, <2>0, <3>1 DEF CallStep, Starting, Going, Early
    <3>. QED  BY <1>0, <1>1, <2>0, <3>1, <3>2
  <2>2. ASSUME Denied(o)
        PROVE  /\ \A tx \in account'.txs \ account.txs : tx.id # o.tx.id
               /\ o.tx.id \notin service'.stored \ service.stored
    BY <2>0, <2>2 DEF OutcomeRight, CallStep, Spends
  <2>3. Borne(o)'
    BY <2>0, <2>2 DEF OutcomeRight, Borne, Denied, CallStep, Grows
  <2>. QED  BY <2>1, <2>3 DEF OutcomeRight, Denied
<1>3. ASSUME NEW o \in Heard', News(at[a], s, o)  PROVE OutcomeRight(o)'
  <2>1. ASSUME Denied(o)  PROVE o.tx.id <= ops' /\ \A b \in Actors : Early(at'[b]) => at'[b].id # o.tx.id
    <3>1. Early(at[a]) /\ ~Early(s) /\ o.tx.id = at[a].id /\ at[a].in = "fastid"
      BY <1>3, <2>1 DEF News, Spends, Early
    <3>2. at[a].id \in 1..ops
      BY <3>1 DEF IdsRight
    <3>3. \A b \in Actors \ {a} : Early(at[b]) => at[b].id # o.tx.id
      BY <3>1 DEF IdsRight, Early
    <3>. QED  BY <1>0, <1>1, <3>1, <3>2, <3>3
  <2>. QED  BY <1>3, <2>1 DEF News, OutcomeRight, Denied
<1>. QED  BY <1>2, <1>3 DEF OutcomesRight, CallStep

\* The other calls can still rely on what they relied on.
LEMMA CallsStep ==
  ASSUME Typed, Typed', IdsRight, CallsRight, NEW a \in Actors, NEW s, CallStep(a, s)
  PROVE  CallsRight'
<1>. SUFFICES ASSUME NEW b \in Actors, at'[b].in = "fastid"  PROVE CallRight(at[b])'
  BY DEF CallsRight
<1>0. at'[a] = s /\ \A d \in Actors \ {a} : at'[d] = at[d]
  BY OthersSame
<1>1. CASE b = a
  <2>1. s.in = "fastid" /\ CallRight(s)'
    BY <1>0, <1>1 DEF CallStep
  <2>. QED  BY <1>0, <1>1, <2>1 DEF CallRight, SettlementRight
<1>2. CASE b # a
  <2>. DEFINE c == at[b]
  <2>1. at'[b] = c /\ c.in = "fastid" /\ CallRight(c) /\ c.id \in 1..ops /\ c.id \in 1..MaxOps /\ c \in FastIdSteps
    BY <1>0, <1>2, Numbers DEF CallsRight, IdsRight
  <2>2. at[a].in = "fastid" => at[a].id # c.id
    BY <1>2, <2>1 DEF IdsRight
  <2>3. c.pc = "links" => promises'[c.by] = promises[c.by]
    <3>. SUFFICES ASSUME c.pc = "links"  PROVE promises'[c.by] = promises[c.by]
      OBVIOUS
    <3>1. promises[c.by] # Untold
      BY <2>1 DEF CallRight, Untold, Told
    <3>2. c.by \in 1..MaxOps
      BY <2>1, ActivityBounds DEF FastIdSteps
    <3>. QED  BY <3>1, <3>2 DEF CallStep
  <2>4. c.kind \in Proven /\ c.pc \notin {"join", "links"} => SettlementRight(c)'
    <3>. SUFFICES ASSUME c.kind \in Proven, c.pc \notin {"join", "links"}  PROVE SettlementRight(c)'
      OBVIOUS
    <3>1. SettlementRight(c)
      BY <2>1 DEF CallRight
    <3>2. promises'[c.id] = promises[c.id]
      BY <2>1, <2>2 DEF CallStep
    <3>3. /\ SlotMoves(at[a], c.kind)
          /\ client.slot[c.kind] \in 0..MaxOps /\ Since(c.kind) \in 0..MaxOps /\ ops \in 0..MaxOps
      BY Numbers DEF CallStep
    <3>4. Early(at[a]) => at[a].id # c.id
      BY <2>2 DEF Early
    <3>5. c.id > Since(c.kind)' => client'.slot[c.kind] = c.id
      BY <2>1, <3>1, <3>3, <3>4 DEF SlotMoves, SettlementRight
    <3>. QED  BY <2>1, <3>1, <3>2, <3>5 DEF SettlementRight
  <2>5. CallRight(c)'
    BY <2>1, <2>3, <2>4 DEF CallRight, CallStep, Grows
  <2>. QED  BY <2>1, <2>5 DEF CallRight, SettlementRight
<1>. QED  BY <1>1, <1>2

\* Payments are those of the settlements that the client remembers.
LEMMA PaymentsStep ==
  ASSUME Typed, Typed', IdsRight, PaymentsRight, NEW a \in Actors, NEW s, CallStep(a, s)
  PROVE  PaymentsRight'
<1>. SUFFICES ASSUME NEW tx \in account'.txs  PROVE PaymentRight(tx)'
  BY DEF PaymentsRight
<1>1. CASE tx \notin account.txs
  BY <1>1 DEF CallStep
<1>2. CASE tx \in account.txs /\ tx.prop \in Proven
  <2>1. PaymentRight(tx) /\ tx.id \in Int /\ tx.id <= ops
    BY <1>2, Numbers DEF PaymentsRight, IdsRight
  <2>2. /\ SlotMoves(at[a], tx.prop) /\ ops \in 0..MaxOps /\ ops \in Int
        /\ client.slot[tx.prop] \in 0..MaxOps /\ Since(tx.prop) \in 0..MaxOps /\ Since(tx.prop) \in Nat
    BY <1>2, Numbers DEF CallStep
  <2>3. Early(at[a]) => at[a].id # tx.id
    BY <1>2 DEF IdsRight
  <2>4. tx.id > Since(tx.prop)' => client'.slot[tx.prop] = tx.id
    BY <1>2, <2>1, <2>2, <2>3 DEF SlotMoves, PaymentRight
  <2>. QED  BY <1>2, <2>1, <2>4 DEF PaymentRight
<1>3. CASE tx.prop \notin Proven
  BY <1>3 DEF PaymentRight
<1>. QED  BY <1>1, <1>2, <1>3

\* Any step of a call keeps the invariant.
LEMMA ClaimsRightStep ==
  ASSUME Typed, Typed', ClaimsRight, NEW a \in Actors, NEW s, CallStep(a, s)
  PROVE  ClaimsRight'
BY IdsStep, OutcomesStep, CallsStep, PaymentsStep DEF ClaimsRight, CallStep

-----------------------------------------------------------------------------
\* The words of the calls' steps that matter here.
LEMMA IdleIsNoCall == Idle.in = "none" /\ ~Early(Idle)
BY DEF Idle, Early

\* A call that begins.
LEMMA BeginsRight ==
  ASSUME Typed, ClaimsRight, NEW a \in Actors, NEW s, Begin(a, "fastid", s), s.in = "fastid", s.id = ops + 1,
         UNCHANGED <<account, service, promises, said>>, s.pc \notin {"links", "found"},
         s.pc = "register" => s.tx \in account.txs,
         \/ client' = client /\ (s.kind \notin Proven \/ s.pc = "join")
         \/ /\ s.kind \in Proven /\ s.by = s.id /\ client.slot[s.kind] = 0
            /\ client' = [client EXCEPT !.slot[s.kind] = ops + 1]
  PROVE  CallStep(a, s)
<1>1. at[a] = Idle /\ at' = [at EXCEPT ![a] = s] /\ ops' = ops + 1 /\ ops < MaxOps
  BY DEF Begin
<1>2. \A k \in Proven : client'.slot[k] = client.slot[k] \/ (client'.slot[k] = ops + 1 /\ client.slot[k] = 0)
  BY FastIdTypes DEF Clients
<1>3. \A k : Since(k)' = Since(k)
  BY FastIdTypes DEF Since, Clients
<1>4. ClientRight'
  BY FastIdTypes DEF ClaimsRight, ClientRight, Clients
<1>5. s.kind \in Proven /\ s.pc \notin {"join", "links"} => SettlementRight(s)'
  <2>. SUFFICES ASSUME s.kind \in Proven, s.pc \notin {"join", "links"}  PROVE SettlementRight(s)'
    OBVIOUS
  <2>1. s.id \in 1..MaxOps /\ s.id > ops
    BY <1>1, Numbers
  <2>2. promises'[s.id] = Untold
    BY <2>1 DEF ClaimsRight, IdsRight
  <2>3. client'.slot[s.kind] = s.id
    BY FastIdTypes DEF Clients
  <2>. QED  BY <2>2, <2>3 DEF SettlementRight
<1>6. CallRight(s)'
  BY <1>5 DEF CallRight
<1>7. Heard' = Heard
  BY DEF Heard
<1>. QED  BY <1>1, <1>2, <1>3, <1>4, <1>6, <1>7 DEF CallStep, Starting, Grows, SlotMoves

\* A call that goes on before it pays or sends anything.
LEMMA GoesOnRight ==
  ASSUME Typed, ClaimsRight, NEW a \in Actors, NEW s, NEW fault \in BOOLEAN, StepsOn(a, s, fault),
         at[a].in = "fastid", UNCHANGED account, Grows, service'.stored = service.stored,
         Early(at[a]), Early(s), s.id = at[a].id,
         s.kind \in Proven => s.kind = at[a].kind /\ s.by = at[a].by,
         s.pc = "found" /\ s.kind = "applied" => service'.x = "applied"
  PROVE  CallStep(a, s)
<1>1. at' = [at EXCEPT ![a] = s] /\ ops' = ops /\ UNCHANGED <<client, promises, said>>
  BY DEF StepsOn, Take
<1>2. s.in = "fastid" /\ s.pc \notin {"join", "links", "register"} /\ at[a].pc \notin {"join", "links"}
  BY DEF Early
<1>3. s.kind \in Proven => SettlementRight(s)'
  <2>. SUFFICES ASSUME s.kind \in Proven  PROVE SettlementRight(s)'
    OBVIOUS
  <2>1. SettlementRight(at[a])
    BY <1>2 DEF ClaimsRight, CallsRight, CallRight
  <2>. QED  BY <1>1, <2>1 DEF SettlementRight, Since
<1>4. CallRight(s)'
  BY <1>2, <1>3 DEF CallRight
<1>5. ClientRight'
  BY <1>1 DEF ClaimsRight, ClientRight, Grows
<1>6. Heard' = Heard
  BY <1>1 DEF Heard
<1>. QED  BY <1>1, <1>4, <1>5, <1>6 DEF CallStep, Going, SlotMoves, Since

\* What is heard when a call tells its caller something.
LEMMA HeardWhenTold ==
  ASSUME Typed, NEW a \in Actors, at[a].in = "fastid", NEW outcome \in Outcomes,
         said' = said \/ said' = [said EXCEPT ![at[a].id] = outcome],
         promises' = promises \/ promises' = [promises EXCEPT ![at[a].id] = outcome]
  PROVE  \A o \in Heard' : o \in Heard \/ o = outcome
BY FastIdTypes DEF Heard

\* A call that tells its caller an outcome, and ends.
LEMMA TellsRight ==
  ASSUME Typed, ClaimsRight, NEW a \in Actors, NEW outcome \in Outcomes, NEW fault \in BOOLEAN,
         Tells(a, outcome, fault), at[a].in = "fastid", UNCHANGED account, Grows,
         \A i \in service'.stored \ service.stored : Early(at[a]) /\ i = at[a].id,
         \A k \in Proven : SlotMoves(at[a], k), ClientRight',
         outcome \in Heard \/ (Borne(outcome)' /\ (Denied(outcome) => Early(at[a]) /\ outcome.tx.id = at[a].id))
  PROVE  CallStep(a, Idle)
<1>1. /\ at' = [at EXCEPT ![a] = Idle] /\ ops' = ops /\ promises' = promises
      /\ said' = [said EXCEPT ![at[a].id] = outcome]
  BY DEF Tells, Tell, Take
<1>2. \A o \in Heard' : o \in Heard \/ o = outcome
  BY <1>1, HeardWhenTold
<1>3. outcome \in Heard \/ News(at[a], Idle, outcome)
  BY IdleIsNoCall DEF News, Spends
<1>. QED  BY <1>1, <1>2, <1>3, IdleIsNoCall DEF CallStep, Going, Spends

\* A call that ends, with the settlement that it made.
LEMMA EndsRight ==
  ASSUME Typed, ClaimsRight, NEW a \in Actors, NEW outcome \in Outcomes, NEW fault \in BOOLEAN,
         Ends(a, outcome, fault), at[a].in = "fastid", at[a].pc \notin {"join", "links"},
         Grows, service'.stored = service.stored,
         \A tx \in account'.txs \ account.txs :
           /\ Early(at[a]) /\ tx.id = at[a].id /\ outcome.result = "unknown"
           /\ tx.prop \in Proven => tx = Claim(tx.id, tx.prop) /\ tx.prop = at[a].kind,
         Borne(outcome)', Denied(outcome) => Early(at[a]) /\ outcome.tx.id = at[a].id
  PROVE  \E s : CallStep(a, s)
<1>. DEFINE c == at[a]
<1>0. c \in FastIdSteps /\ c.id \in 1..MaxOps
  BY Numbers
<1>1. PICK s : /\ at' = [at EXCEPT ![a] = s] /\ ops' = ops
               /\ \/ s = Idle
                  \/ /\ s = [c EXCEPT !.pc = "links"] /\ c.kind \in Proven
                     /\ outcome.result \in {"registered", "pending"}
  BY DEF Ends, Tell, TakeTo, Take
<1>2. ~Early(s) /\ (s.in = "fastid" => s.id = c.id /\ s.pc = "links" /\ s.by = c.by)
  BY <1>0, <1>1, IdleIsNoCall DEF FastIdSteps, Early
<1>3. /\ said' = said \/ said' = [said EXCEPT ![c.id] = outcome]
      /\ promises' = promises \/ promises' = [promises EXCEPT ![c.id] = outcome]
  BY DEF Ends, Settled, Tell
<1>4. \A o \in Heard' : o \in Heard \/ News(c, s, o)
  <2>1. \A o \in Heard' : o \in Heard \/ o = outcome
    BY <1>3, HeardWhenTold
  <2>2. News(c, s, outcome)
    BY <1>2 DEF News, Spends
  <2>. QED  BY <2>1, <2>2
<1>5. CASE c.kind \notin Proven
  <2>1. s = Idle /\ client' = client /\ promises' = promises
    BY <1>1, <1>5 DEF Ends
  <2>2. \A tx \in account'.txs \ account.txs : Spends(c, s) /\ tx.id = c.id /\ PaymentRight(tx)'
    BY <1>2, <1>5 DEF Spends, PaymentRight
  <2>3. ClientRight'
    BY <2>1 DEF ClaimsRight, ClientRight, Grows
  <2>. QED  BY <1>1, <1>2, <1>4, <2>1, <2>2, <2>3, IdleIsNoCall DEF CallStep, Going, SlotMoves, Since
<1>6. CASE c.kind \in Proven
  <2>1. Settled(c, outcome) /\ SettlementRight(c)
    BY <1>6 DEF Ends, ClaimsRight, CallsRight, CallRight
  <2>2. promises'[c.id] = outcome /\ \A i \in 1..MaxOps : i # c.id => promises'[i] = promises[i]
    BY <1>0, <2>1, FastIdTypes DEF Settled
  <2>3. s.in = "fastid" => CallRight(s)'
    <3>. SUFFICES ASSUME s.in = "fastid"  PROVE CallRight(s)'
      OBVIOUS
    <3>1. s.pc = "links" /\ s.by = c.id /\ outcome.result \in {"registered", "pending"}
      BY <1>1, <1>2, <2>1, IdleIsNoCall DEF SettlementRight
    <3>. QED  BY <2>2, <3>1 DEF CallRight
  <2>4. \/ /\ outcome.result = "unpaid" /\ client.slot[c.kind] = c.id
           /\ client' = [client EXCEPT !.slot[c.kind] = 0]
        \/ outcome.result = "verified" /\ client' = [client EXCEPT !.verified = outcome.tx.id]
        \/ client' = client
    BY <2>1 DEF Settled, ProvesNoPaidAttempt
  <2>5. \A k : Since(k)' = Since(k)
    BY <2>4, FastIdTypes DEF Since, Clients
  <2>6. \A k \in Proven : SlotMoves(c, k)
    <3>1. \A k \in Proven : \/ client'.slot[k] = client.slot[k]
                            \/ client'.slot[k] = 0 /\ client.slot[k] = c.id /\ outcome.result = "unpaid"
      BY <2>4, FastIdTypes DEF Clients
    <3>. QED  BY <2>5, <3>1 DEF SlotMoves, Denied
  <2>7. ClientRight'
    BY <2>4, FastIdTypes DEF ClaimsRight, ClientRight, Grows, Borne, Clients
  <2>8. ASSUME NEW tx \in account'.txs \ account.txs  PROVE Spends(c, s) /\ tx.id = c.id /\ PaymentRight(tx)'
    <3>1. client' = client
      BY <2>4
    <3>. QED  BY <1>2, <2>1, <2>5, <3>1 DEF Spends, PaymentRight, SettlementRight
  <2>9. \A i \in 1..MaxOps : promises'[i] = promises[i] \/ (i = c.id /\ promises[i] = Untold)
    BY <2>1, <2>2 DEF SettlementRight
  <2>. QED  BY <1>1, <1>2, <1>4, <2>3, <2>6, <2>7, <2>8, <2>9 DEF CallStep, Going
<1>. QED  BY <1>5, <1>6

-----------------------------------------------------------------------------
\* The service commits to an X claim, or nothing changes outside.
LEMMA CommittedGrows ==
  ASSUME Typed, account' = account, service' \in {service, Committed}
  PROVE  Grows /\ service'.stored = service.stored
BY FastIdTypes DEF Grows, Committed, Services

\* A step to another label, or a failure before any payment.
LEMMA ReadsRight ==
  ASSUME Typed, ClaimsRight, NEW a \in Actors, at[a].in = "fastid", Early(at[a]), NEW fault \in BOOLEAN,
         UNCHANGED account, Grows, service'.stored = service.stored,
         \/ \E pc \in Words \ {"join", "links", "register", "found"} :
              TakeTo(a, pc, fault) /\ UNCHANGED <<client, promises, said>>
         \/ Unpaid(a, fault)
  PROVE  \E s : CallStep(a, s)
<1>1. CASE \E pc \in Words \ {"join", "links", "register", "found"} :
             TakeTo(a, pc, fault) /\ UNCHANGED <<client, promises, said>>
  <2>1. PICK pc \in Words \ {"join", "links", "register", "found"} :
          TakeTo(a, pc, fault) /\ UNCHANGED <<client, promises, said>>
    BY <1>1
  <2>2. PICK s : s = [at[a] EXCEPT !.pc = pc]
    OBVIOUS
  <2>3. /\ s.in = "fastid" /\ s.pc = pc /\ s.id = at[a].id /\ s.kind = at[a].kind /\ s.by = at[a].by
    BY <2>2, Numbers DEF FastIdSteps
  <2>. QED  BY <2>1, <2>2, <2>3, GoesOnRight DEF TakeTo, StepsOn, Early
<1>2. CASE Unpaid(a, fault)
  <2>1. PICK o : o = NotPaid(at[a].id)
    OBVIOUS
  <2>2. at[a].id \in Int
    BY Numbers
  <2>3. o \in Outcomes /\ o.result = "unpaid" /\ o.tx.id = at[a].id
    BY <2>1, <2>2, OutcomeForms DEF NotPaid, Told
  <2>4. Borne(o)'
    BY <2>3 DEF Borne, ClaimsRight, IdsRight
  <2>5. at[a].pc \notin {"join", "links"}
    BY DEF Early
  <2>. QED  BY <1>2, <2>1, <2>3, <2>4, <2>5, EndsRight DEF Unpaid, Denied
<1>. QED  BY <1>1, <1>2

\* The reads, the commitment and the documents' reads.
LEMMA ReadStepsRight ==
  ASSUME Typed, ClaimsRight, NEW a \in Actors,
         \/ OAuthProof(a) \/ CommitLegacy(a) \/ Identity(a) \/ Availability(a) \/ PropertyClaimed(a)
         \/ ResolveClaimFee(a) \/ ReadFirst(a)
  PROVE  \E s : CallStep(a, s)
<1>1. at[a].in = "fastid" /\ Early(at[a]) /\ account' = account
  BY DEF OAuthProof, CommitLegacy, Identity, Availability, PropertyClaimed, ResolveClaimFee, ReadFirst, In, Early
<1>2. Grows /\ service'.stored = service.stored
  <2>1. service' \in {service, Committed}
    BY DEF OAuthProof, CommitLegacy, Identity, Availability, PropertyClaimed, ResolveClaimFee, ReadFirst
  <2>. QED  BY <1>1, <2>1, CommittedGrows
<1>3. PICK fault \in BOOLEAN :
        \/ \E pc \in Words \ {"join", "links", "register", "found"} :
             TakeTo(a, pc, fault) /\ UNCHANGED <<client, promises, said>>
        \/ Unpaid(a, fault)
  <2>1. {"claimed", "fee", "availability", "nonce", "challenge", "send"}
          \subseteq Words \ {"join", "links", "register", "found"}
    BY DEF Words
  <2>2. CASE OAuthProof(a) \/ CommitLegacy(a) \/ ResolveClaimFee(a)
    BY <2>1, <2>2 DEF OAuthProof, CommitLegacy, ResolveClaimFee
  <2>3. CASE Identity(a) \/ Availability(a) \/ PropertyClaimed(a)
    BY <2>1, <2>3 DEF Identity, Availability, PropertyClaimed
  <2>4. CASE ReadFirst(a)
    BY <2>1, <2>4 DEF ReadFirst
  <2>. QED  BY <2>2, <2>3, <2>4
<1>. QED  BY <1>1, <1>2, <1>3, ReadsRight

\* What is submitted carries the number and the property of its call.
LEMMA BuiltRight ==
  ASSUME Typed, NEW c \in FastIdSteps
  PROVE  /\ BuiltClaim(c) \in Txs /\ BuiltClaim(c).id = c.id
         /\ BuiltClaim(c).prop \in Proven => BuiltClaim(c) = Claim(c.id, c.kind) /\ BuiltClaim(c).prop = c.kind
<1>1. c.id \in Int /\ c.kind \in Words /\ c.tx \in Txs
  BY ActivityBounds DEF FastIdSteps
<1>2. CASE c.kind = "revoke"
  BY <1>1, <1>2, OutcomeForms DEF BuiltClaim, Revocation, Proven
<1>3. CASE c.kind # "revoke"
  BY <1>1, <1>3, OutcomeForms DEF BuiltClaim, Claim
<1>. QED  BY <1>2, <1>3

\* Revoking, the nonce, the submission.
LEMMA PaymentStepsRight ==
  ASSUME Typed, ClaimsRight, NEW a \in Actors,
         ClaimTransactionForRevoke(a) \/ GetNextNonce(a) \/ SubmitSignedClaim(a)
  PROVE  \E s : CallStep(a, s)
<1>1. /\ at[a].in = "fastid" /\ service' = service /\ Early(at[a]) /\ at[a] \in FastIdSteps
      /\ service'.stored = service.stored
  BY Numbers DEF ClaimTransactionForRevoke, GetNextNonce, SubmitSignedClaim, In, Early
<1>2. account' = account => Grows
  BY <1>1 DEF Grows
<1>3. CASE ClaimTransactionForRevoke(a) \/ GetNextNonce(a)
  <2>1. account' = account
    BY <1>3 DEF ClaimTransactionForRevoke, GetNextNonce
  <2>2. CASE \E fault \in BOOLEAN : Unpaid(a, fault)
    BY <1>1, <1>2, <2>1, <2>2, ReadsRight
  <2>3. CASE /\ UNCHANGED <<client, promises, said>>
             /\ \E fault \in BOOLEAN : \/ \E r : Take(a, [at[a] EXCEPT !.pc = "fee", !.tx = r], fault)
                                       \/ \E n : Take(a, [at[a] EXCEPT !.pc = "submit", !.nonce = n], fault)
    <3>1. PICK fault \in BOOLEAN : \/ \E r : Take(a, [at[a] EXCEPT !.pc = "fee", !.tx = r], fault)
                                   \/ \E n : Take(a, [at[a] EXCEPT !.pc = "submit", !.nonce = n], fault)
      BY <2>3
    <3>2. PICK s : /\ Take(a, s, fault)
                   /\ \/ \E r : s = [at[a] EXCEPT !.pc = "fee", !.tx = r]
                      \/ \E n : s = [at[a] EXCEPT !.pc = "submit", !.nonce = n]
      BY <3>1
    <3>3. /\ s.in = "fastid" /\ s.pc \in {"fee", "submit"} /\ s.id = at[a].id
          /\ s.kind = at[a].kind /\ s.by = at[a].by
      BY <1>1, <3>2 DEF FastIdSteps
    <3>4. Early(s) /\ StepsOn(a, s, fault) /\ Grows
      BY <1>2, <2>1, <2>3, <3>2, <3>3 DEF StepsOn, Early
    <3>. QED  BY <1>1, <2>1, <3>3, <3>4, GoesOnRight
  <2>. QED  BY <1>3, <2>2, <2>3 DEF ClaimTransactionForRevoke, GetNextNonce
<1>4. CASE SubmitSignedClaim(a)
  <2>1. PICK tx : tx = BuiltClaim(at[a])
    OBVIOUS
  <2>2. /\ tx \in Txs /\ tx.id = at[a].id
        /\ tx.prop \in Proven => tx = Claim(tx.id, tx.prop) /\ tx.prop = at[a].kind
    BY <1>1, <2>1, BuiltRight
  <2>3. PICK o : o = IndeterminateSubmission(tx)
    OBVIOUS
  <2>4. o \in Outcomes /\ o.result = "unknown"
    BY <2>2, <2>3, OutcomeForms DEF IndeterminateSubmission, Told, Words
  <2>5. account' = account \/ (Accept(tx) /\ account'.txs = account.txs \cup {tx})
    <3>1. account' = account \/ Accept(tx)
      BY <1>4, <2>1 DEF SubmitSignedClaim
    <3>. QED  BY <3>1 DEF Accept
  <2>6. Grows
    BY <1>1, <2>5 DEF Grows
  <2>7. CASE Accept(tx) /\ Take(a, [at[a] EXCEPT !.pc = "register", !.tx = tx], FALSE)
             /\ UNCHANGED <<client, promises, said>>
    <3>1. PICK s : s = [[at[a] EXCEPT !.pc = "register"] EXCEPT !.tx = tx]
      OBVIOUS
    <3>2. /\ s.in = "fastid" /\ s.pc = "register" /\ s.id = at[a].id /\ s.tx = tx
          /\ s.kind = at[a].kind /\ s.by = at[a].by
      BY <1>1, <3>1 DEF FastIdSteps
    <3>3. at' = [at EXCEPT ![a] = s] /\ ops' = ops
      BY <2>7, <3>1 DEF Take
    <3>4. Spends(at[a], s)
      BY <1>1, <3>2 DEF Spends, Early
    <3>5. at[a].kind \in Proven => SettlementRight(at[a])
      BY <1>1 DEF ClaimsRight, CallsRight, CallRight, Early
    <3>6. \A k : Since(k)' = Since(k)
      BY <2>7 DEF Since
    <3>7. PaymentRight(tx)'
      BY <2>2, <2>7, <3>5, <3>6 DEF PaymentRight, SettlementRight
    <3>8. CallRight(s)'
      <4>1. s.kind \in Proven => SettlementRight(s)'
        BY <2>7, <3>2, <3>5, <3>6 DEF SettlementRight
      <4>2. tx \in account'.txs
        BY <2>7 DEF Accept
      <4>. QED  BY <3>2, <4>1, <4>2 DEF CallRight
    <3>9. ClientRight' /\ Heard' = Heard
      BY <1>1, <2>7 DEF ClaimsRight, ClientRight, Heard
    <3>10. \A t \in account'.txs \ account.txs : t = tx
      BY <2>5
    <3>11. \A i \in service'.stored \ service.stored : FALSE
      BY <1>1
    <3>12. \A k \in Proven : SlotMoves(at[a], k)
      BY <2>7, <3>6 DEF SlotMoves
    <3>. QED
      BY <1>1, <2>2, <2>6, <2>7, <3>2, <3>3, <3>4, <3>7, <3>8, <3>9, <3>10, <3>11, <3>12
         DEF CallStep, Going, Spends
  <2>8. CASE Ends(a, o, TRUE)
    <3>1. at[a].pc \notin {"join", "links"}
      BY <1>1 DEF Early
    <3>2. Borne(o)' /\ ~Denied(o)
      BY <2>4 DEF Borne, Denied
    <3>. QED  BY <1>1, <2>2, <2>4, <2>5, <2>6, <2>8, <3>1, <3>2, EndsRight
  <2>9. CASE account' = account /\ \E fault \in BOOLEAN : Unpaid(a, fault)
    BY <1>1, <1>2, <2>9, ReadsRight
  <2>. QED  BY <1>4, <2>1, <2>3, <2>7, <2>8, <2>9 DEF SubmitSignedClaim
<1>. QED  BY <1>3, <1>4

-----------------------------------------------------------------------------
\* A registration, whatever comes of it.
LEMMA RegisterRight ==
  ASSUME Typed, ClaimsRight, NEW a \in Actors, Register(a)
  PROVE  \E s : CallStep(a, s)
<1>. DEFINE c == at[a]
            tx == at[a].tx
<1>1. /\ c.in = "fastid" /\ c.pc = "register" /\ account' = account /\ ~Early(c) /\ c \in FastIdSteps
      /\ tx \in account.txs /\ tx \in Txs
  BY Numbers DEF Register, In, Early, ClaimsRight, CallsRight, CallRight
<1>2. Grows /\ service'.stored = service.stored
  <2>1. ASSUME NEW verified \in BOOLEAN, Apply(tx, verified)  PROVE Grows /\ service'.stored = service.stored
    BY <1>1, <2>1, FastIdTypes DEF Apply, Grows, Services
  <2>2. service' = service => Grows /\ service'.stored = service.stored
    BY <1>1 DEF Grows
  <2>. QED  BY <2>1, <2>2 DEF Register
<1>3. PICK r \in {"registered", "verified", "pending", "terminal"}, fault \in BOOLEAN :
        /\ Registered(a, Told(r, tx), fault)
        /\ r = "registered" => Apply(tx, FALSE)
        /\ r = "verified" => Apply(tx, TRUE)
  BY DEF Register
<1>4. PICK o : o = Told(r, tx)
  OBVIOUS
<1>5. o \in Outcomes /\ o.result = r /\ o.tx = tx /\ ~Denied(o)
  <2>1. r \in Words
    BY DEF Words
  <2>. QED  BY <1>1, <1>4, <2>1, OutcomeForms DEF Told, Denied
<1>6. Borne(o)'
  <2>0. ASSUME NEW v \in BOOLEAN, Apply(tx, v)
        PROVE  /\ tx \in service'.rows \/ tx.of \in service'.revoked
               /\ v => tx.id \in service'.verified
    <3>1. /\ service'.rows = IF tx.prop = "revoke" THEN service.rows ELSE service.rows \cup {tx}
          /\ service'.revoked = IF tx.prop = "revoke" THEN service.revoked \cup {tx.of} ELSE service.revoked
          /\ service'.verified = IF v THEN service.verified \cup {tx.id} ELSE service.verified
      BY <2>0, FastIdTypes DEF Apply, Services
    <3>. QED  BY <3>1
  <2>1. r = "registered" => tx \in service'.rows \/ tx.of \in service'.revoked
    BY <1>3, <2>0
  <2>2. r = "verified" => tx.id \in service'.verified
    BY <1>3, <2>0
  <2>. QED  BY <1>1, <1>5, <2>1, <2>2 DEF Borne
<1>7. CASE Ends(a, o, fault)
  BY <1>1, <1>2, <1>5, <1>6, <1>7, EndsRight
<1>8. CASE /\ Tell(a, o, fault) /\ UNCHANGED promises
           /\ \/ \E R : Forgotten(R)
              \/ \E R : client' = [client EXCEPT !.revocations = R]
  <2>1. \A k \in Proven : SlotMoves(c, k)
    <3>1. CASE \E R : Forgotten(R)
      BY <3>1, FastIdTypes DEF Forgotten, Clients, SlotMoves, Since
    <3>2. CASE \E R : client' = [client EXCEPT !.revocations = R]
      BY <3>2, FastIdTypes DEF Clients, SlotMoves, Since
    <3>. QED  BY <1>8, <3>1, <3>2
  <2>2. client'.verified = client.verified /\ client'.verification = client.verification
    BY <1>8, FastIdTypes DEF Forgotten, Clients
  <2>3. ClientRight'
    BY <1>2, <2>2 DEF ClaimsRight, ClientRight, Grows
  <2>4. Tells(a, o, fault)
    BY <1>8 DEF Tells
  <2>. QED  BY <1>1, <1>2, <1>5, <1>6, <2>1, <2>3, <2>4, TellsRight
<1>9. \/ Ends(a, o, fault)
      \/ /\ Tell(a, o, fault) /\ UNCHANGED promises
         /\ \/ \E R : Forgotten(R)
            \/ \E R : client' = [client EXCEPT !.revocations = R]
  <2>1. CASE c.kind = "revoke"
    <3>1. \/ Forgotten(client.revocations)
          \/ client' = [client EXCEPT !.revocations = IF o.result = "pending" THEN @ \cup {c.tx} ELSE @]
      BY <1>3, <1>4, <2>1 DEF Registered
    <3>2. Tell(a, o, fault) /\ UNCHANGED promises
      BY <1>3, <1>4, <2>1 DEF Registered
    <3>. QED  BY <3>1, <3>2
  <2>2. CASE c.kind # "revoke"
    BY <1>3, <1>4, <2>2 DEF Registered
  <2>. QED  BY <2>1, <2>2
<1>. QED  BY <1>7, <1>8, <1>9

\* Joining a settlement, and waiting for a website.
LEMMA JoinStepsRight ==
  ASSUME Typed, ClaimsRight, NEW a \in Actors, Join(a) \/ WaitForWebsite(a)
  PROVE  \E s : CallStep(a, s)
<1>1. /\ at[a].in = "fastid" /\ at[a].pc \in {"join", "links"} /\ at[a] \in FastIdSteps
      /\ UNCHANGED <<account, service, promises>>
  BY Numbers DEF Join, WaitForWebsite, In
<1>2. PICK o : o = promises[at[a].by]
  OBVIOUS
<1>3. at[a].by \in 1..MaxOps /\ o \in Heard /\ o \in Outcomes /\ o.tx \in Txs /\ OutcomeRight(o)
  <2>1. at[a].by \in 1..MaxOps
    BY <1>1, ActivityBounds DEF FastIdSteps
  <2>2. o \in Heard
    BY <1>2, <2>1 DEF Heard
  <2>. QED  BY <2>1, <2>2, Numbers, OutcomeForms DEF ClaimsRight, OutcomesRight
<1>4. Grows /\ \A i \in service'.stored \ service.stored : FALSE
  BY <1>1 DEF Grows
<1>5. \A k \in Proven : SlotMoves(at[a], k)
  <2>1. client' = client \/ \E i : client' = [client EXCEPT !.verified = i]
    BY DEF Join, WaitForWebsite
  <2>. QED  BY <2>1, FastIdTypes DEF Clients, SlotMoves, Since
<1>6. CASE Join(a)
  <2>1. client' = client /\ ClientRight'
    BY <1>1, <1>6 DEF Join, ClaimsRight, ClientRight
  <2>2. CASE Tell(a, o, FALSE)
    <3>1. Tells(a, o, FALSE) /\ FALSE \in BOOLEAN
      BY <1>1, <2>2 DEF Tells
    <3>. QED  BY <1>1, <1>3, <1>4, <1>5, <2>1, <3>1, TellsRight
  <2>3. CASE TakeTo(a, "links", FALSE) /\ UNCHANGED said /\ o.result \in {"registered", "pending"}
    <3>1. PICK s : s = [at[a] EXCEPT !.pc = "links"]
      OBVIOUS
    <3>2. s.in = "fastid" /\ s.pc = "links" /\ s.id = at[a].id /\ s.by = at[a].by /\ ~Early(s)
      BY <1>1, <3>1 DEF FastIdSteps, Early
    <3>3. at' = [at EXCEPT ![a] = s] /\ ops' = ops
      BY <2>3, <3>1 DEF TakeTo, Take
    <3>4. CallRight(s)' /\ Heard' = Heard
      BY <1>1, <1>2, <2>3, <3>2 DEF CallRight, Heard
    <3>. QED
      BY <1>1, <1>4, <1>5, <2>1, <3>2, <3>3, <3>4 DEF CallStep, Going
  <2>. QED  BY <1>2, <1>6, <2>2, <2>3 DEF Join
<1>7. CASE WaitForWebsite(a)
  <2>1. o.result \in {"registered", "pending"} /\ o.tx \in account.txs
    <3>1. o.result \in {"registered", "pending"}
      BY <1>1, <1>2, <1>7 DEF WaitForWebsite, In, ClaimsRight, CallsRight, CallRight
    <3>. QED  BY <1>3, <3>1 DEF OutcomeRight, Borne
  <2>2. ASSUME NEW r \in {"verified", "unverified"}
        PROVE  Told(r, o.tx) \in Outcomes /\ Told(r, o.tx).result = r /\ Told(r, o.tx).tx = o.tx
    BY <1>3, OutcomeForms DEF Words, Told
  <2>3. CASE /\ o.tx.id \in service.verified /\ client' = [client EXCEPT !.verified = o.tx.id]
             /\ Tell(a, Told("verified", o.tx), FALSE)
    <3>1. PICK t \in Outcomes : t = Told("verified", o.tx) /\ t.result = "verified" /\ t.tx = o.tx
      BY <2>2
    <3>2. Tells(a, t, FALSE) /\ FALSE \in BOOLEAN
      BY <1>1, <2>3, <3>1 DEF Tells
    <3>3. Borne(t)' /\ ~Denied(t)
      BY <1>1, <2>3, <3>1 DEF Borne, Denied
    <3>4. ClientRight'
      BY <1>1, <2>3, FastIdTypes DEF ClaimsRight, ClientRight, Clients
    <3>. QED  BY <1>1, <1>4, <1>5, <3>2, <3>3, <3>4, TellsRight
  <2>4. CASE client' = client /\ Tell(a, o, FALSE)
    <3>1. Tells(a, o, FALSE) /\ FALSE \in BOOLEAN
      BY <1>1, <2>4 DEF Tells
    <3>2. ClientRight'
      BY <1>1, <2>4 DEF ClaimsRight, ClientRight
    <3>. QED  BY <1>1, <1>3, <1>4, <1>5, <3>1, <3>2, TellsRight
  <2>5. CASE client' = client /\ Tell(a, Told("unverified", o.tx), FALSE)
    <3>1. PICK t \in Outcomes : t = Told("unverified", o.tx) /\ t.result = "unverified" /\ t.tx = o.tx
      BY <2>2
    <3>2. Tells(a, t, FALSE) /\ FALSE \in BOOLEAN
      BY <1>1, <2>5, <3>1 DEF Tells
    <3>3. Borne(t)' /\ ~Denied(t)
      BY <1>1, <2>1, <3>1 DEF Borne, Denied
    <3>4. ClientRight'
      BY <1>1, <2>5 DEF ClaimsRight, ClientRight
    <3>. QED  BY <1>1, <1>4, <1>5, <3>2, <3>3, <3>4, TellsRight
  <2>. QED  BY <1>2, <1>7, <2>3, <2>4, <2>5 DEF WaitForWebsite
<1>. QED  BY <1>6, <1>7

\* A session is issued, or not.
LEMMA IssueRight ==
  ASSUME Typed, ClaimsRight, NEW a \in Actors, IssueSession(a)
  PROVE  \E s : CallStep(a, s)
<1>1. at[a].in = "fastid" /\ Early(at[a]) /\ at[a].id \in Int /\ UNCHANGED <<account, service, promises>>
  BY Numbers DEF IssueSession, In, Early
<1>2. PICK o \in Outcomes, fault \in BOOLEAN :
        /\ Tell(a, o, fault)
        /\ \/ o.result = "session"
           \/ o.result = "already" /\ service.x = "applied"
           \/ o.result = "unpaid" /\ o.tx.id = at[a].id
  <2>1. \A r \in {"session", "already"} : Told(r, NoTx) \in Outcomes /\ Told(r, NoTx).result = r
    BY OutcomeForms DEF Told, Words
  <2>2. NotPaid(at[a].id) \in Outcomes /\ NotPaid(at[a].id).result = "unpaid" /\ NotPaid(at[a].id).tx.id = at[a].id
    BY <1>1, OutcomeForms DEF NotPaid, Told
  <2>. QED  BY <2>1, <2>2 DEF IssueSession
<1>3. Borne(o)' /\ (Denied(o) => o.tx.id = at[a].id)
  BY <1>1, <1>2 DEF Borne, Denied, ClaimsRight, IdsRight
<1>4. client' = client \/ \E p : client' = [client EXCEPT !.session = p]
  BY DEF IssueSession
<1>5. (\A k \in Proven : SlotMoves(at[a], k)) /\ ClientRight'
  <2>1. /\ client'.slot = client.slot /\ client'.forgot = client.forgot
        /\ client'.verified = client.verified /\ client'.verification = client.verification
    BY <1>4, FastIdTypes DEF Clients
  <2>. QED  BY <1>1, <2>1 DEF SlotMoves, Since, ClaimsRight, ClientRight
<1>6. Grows /\ \A i \in service'.stored \ service.stored : FALSE
  BY <1>1 DEF Grows
<1>7. Tells(a, o, fault)
  BY <1>1, <1>2 DEF Tells
<1>. QED  BY <1>1, <1>3, <1>5, <1>6, <1>7, TellsRight

\* A post is looked at, and what was found recorded.
LEMMA VerifyRight ==
  ASSUME Typed, ClaimsRight, NEW a \in Actors, Found(a) \/ RecordVerification(a)
  PROVE  \E s : CallStep(a, s)
<1>1. at[a].in = "fastid" /\ Early(at[a]) /\ at[a] \in FastIdSteps /\ UNCHANGED <<account, promises>>
  BY Numbers DEF Found, RecordVerification, In, Early
<1>2. CASE Found(a)
  <2>1. PICK k \in {"verified", "applied", "committed", "failed"}, fault \in BOOLEAN :
          /\ Take(a, [at[a] EXCEPT !.pc = "found", !.kind = k], fault)
          /\ k \notin Proven /\ service' \in {service, Committed}
          /\ k = "applied" => service'.x = "applied"
    <3>1. Finding \subseteq {"verified", "applied", "committed"} /\ ("applied" \in Finding => service.x = "applied")
      BY DEF Finding
    <3>2. \A k \in Finding \cup {"failed"} : k \notin Proven
      BY <3>1 DEF Proven
    <3>3. CASE \E found \in Finding :
                 /\ Take(a, [at[a] EXCEPT !.pc = "found", !.kind = found], FALSE)
                 /\ service' = IF found = "committed" THEN Committed ELSE service
      BY <3>1, <3>2, <3>3
    <3>4. CASE Take(a, [at[a] EXCEPT !.pc = "found", !.kind = "failed"], TRUE) /\ UNCHANGED service
      BY <3>2, <3>4
    <3>. QED  BY <1>2, <3>3, <3>4 DEF Found
  <2>2. PICK s : s = [[at[a] EXCEPT !.pc = "found"] EXCEPT !.kind = k]
    OBVIOUS
  <2>3. s.in = "fastid" /\ s.pc = "found" /\ s.id = at[a].id /\ s.kind = k
    BY <1>1, <2>2 DEF FastIdSteps
  <2>4. StepsOn(a, s, fault) /\ Early(s)
    BY <1>2, <2>1, <2>2, <2>3 DEF Found, StepsOn, Early
  <2>5. Grows /\ service'.stored = service.stored
    BY <1>1, <2>1, CommittedGrows
  <2>. QED  BY <1>1, <2>1, <2>3, <2>4, <2>5, GoesOnRight
<1>3. CASE RecordVerification(a)
  <2>1. PICK o \in Outcomes : o.result = "found" /\ o = Told("found", NoTx)
    BY OutcomeForms DEF Told, Words
  <2>2. Tells(a, o, FALSE) /\ FALSE \in BOOLEAN /\ service' = service
    BY <1>1, <1>3, <2>1 DEF Tells, RecordVerification
  <2>3. Borne(o)' /\ ~Denied(o)
    BY <2>1 DEF Borne, Denied
  <2>4. client' = client \/ client' = [client EXCEPT !.verification = at[a].kind]
    BY <1>3 DEF RecordVerification
  <2>5. at[a].kind = "applied" => service.x = "applied"
    BY <1>1, <1>3 DEF RecordVerification, In, ClaimsRight, CallsRight, CallRight
  <2>6. (\A k \in Proven : SlotMoves(at[a], k)) /\ ClientRight'
    <3>1. /\ client'.slot = client.slot /\ client'.forgot = client.forgot
          /\ client'.verified = client.verified /\ client'.verification \in {client.verification, at[a].kind}
      BY <2>4, FastIdTypes DEF Clients
    <3>. QED  BY <2>2, <2>5, <3>1 DEF SlotMoves, Since, ClaimsRight, ClientRight
  <2>7. Grows /\ \A i \in service'.stored \ service.stored : FALSE
    BY <1>1, <2>2 DEF Grows
  <2>. QED  BY <1>1, <2>2, <2>3, <2>6, <2>7, TellsRight
<1>. QED  BY <1>2, <1>3

\* A document is sent.
LEMMA SendRight ==
  ASSUME Typed, ClaimsRight, NEW a \in Actors, Send(a)
  PROVE  \E s : CallStep(a, s)
<1>1. at[a].in = "fastid" /\ Early(at[a]) /\ at[a].id \in Int /\ UNCHANGED <<account, client, promises>>
  BY Numbers DEF Send, In, Early
<1>2. PICK r \in {"stored", "refused", "unknown", "failed"}, fault \in BOOLEAN :
        /\ Tell(a, Told(r, [NoTx EXCEPT !.id = at[a].id]), fault)
        /\ service' = service \/ service' = [service EXCEPT !.stored = @ \cup {at[a].id}]
        /\ r = "stored" => service' = [service EXCEPT !.stored = @ \cup {at[a].id}]
        /\ r = "refused" => service' = service
  BY DEF Send, Doubtful
<1>3. PICK o \in Outcomes : /\ o = Told(r, [NoTx EXCEPT !.id = at[a].id])
                            /\ o.result = r /\ o.tx.id = at[a].id
  <2>1. r \in Words
    BY DEF Words
  <2>. QED  BY <1>1, <2>1, OutcomeForms DEF Told
<1>4. /\ Grows /\ \A i \in service'.stored \ service.stored : i = at[a].id
      /\ r = "stored" => at[a].id \in service'.stored
  BY <1>1, <1>2, FastIdTypes DEF Grows, Services
<1>5. Borne(o)'
  BY <1>1, <1>2, <1>3, <1>4 DEF Borne, ClaimsRight, IdsRight
<1>6. (\A k \in Proven : SlotMoves(at[a], k)) /\ ClientRight'
  BY <1>1, <1>4 DEF SlotMoves, Since, ClaimsRight, ClientRight, Grows
<1>7. Tells(a, o, fault)
  BY <1>1, <1>2, <1>3 DEF Tells
<1>. QED  BY <1>1, <1>3, <1>4, <1>5, <1>6, <1>7, TellsRight

-----------------------------------------------------------------------------
\* A step of no call of the fastid-sdk.
LEMMA QuietRight ==
  ASSUME Typed, Typed', ClaimsRight, ops' \in {ops, ops + 1},
         \A b \in Actors : at[b].in = "fastid" \/ at'[b].in = "fastid" => at'[b] = at[b],
         UNCHANGED <<account, client, promises>>, Grows, service'.stored = service.stored,
         \A o \in Heard' : o \in Heard \/ (Borne(o)' /\ ~Denied(o))
  PROVE  ClaimsRight'
<1>1. ops \in Nat /\ ops' \in Nat
  BY Numbers
<1>2. \A k : Since(k)' = Since(k)
  BY DEF Since
<1>3. IdsRight'
  BY <1>1, Numbers DEF ClaimsRight, IdsRight, Early
<1>4. OutcomesRight'
  <2>. SUFFICES ASSUME NEW o \in Heard'  PROVE OutcomeRight(o)'
    BY DEF OutcomesRight
  <2>1. CASE o \in Heard
    <3>1. OutcomeRight(o) /\ o.tx.id \in Int
      BY <2>1, Numbers DEF ClaimsRight, OutcomesRight
    <3>2. Borne(o)'
      BY <3>1 DEF OutcomeRight, Borne, Grows
    <3>3. Denied(o) => o.tx.id <= ops' /\ \A b \in Actors : Early(at'[b]) => at'[b].id # o.tx.id
      BY <1>1, <3>1 DEF OutcomeRight, Early
    <3>. QED  BY <3>2, <3>3 DEF OutcomeRight, Denied
  <2>. QED  BY <2>1 DEF OutcomeRight, Denied
<1>5. CallsRight'
  <2>. SUFFICES ASSUME NEW b \in Actors, at'[b].in = "fastid"  PROVE CallRight(at[b])'
    BY DEF CallsRight
  <2>1. at'[b] = at[b] /\ CallRight(at[b])
    BY DEF ClaimsRight, CallsRight
  <2>. QED  BY <1>2, <2>1 DEF CallRight, SettlementRight, Grows
<1>6. PaymentsRight' /\ ClientRight'
  BY <1>2 DEF ClaimsRight, PaymentsRight, PaymentRight, ClientRight, Grows
<1>. QED  BY <1>3, <1>4, <1>5, <1>6 DEF ClaimsRight

\* What a call is when it begins.
LEMMA StartForm ==
  ASSUME NEW pc, NEW kind, NEW by
  PROVE  LET s == IdCall(pc, kind, by) IN
         /\ s.in = "fastid" /\ s.pc = pc /\ s.kind = kind /\ s.by = by /\ s.id = ops + 1
         /\ \A tx : [s EXCEPT !.tx = tx].in = "fastid" /\ [s EXCEPT !.tx = tx].pc = pc
                    /\ [s EXCEPT !.tx = tx].kind = kind /\ [s EXCEPT !.tx = tx].id = ops + 1
                    /\ [s EXCEPT !.tx = tx].tx = tx
BY DEF IdCall

\* A call that starts keeps the invariant.
LEMMA StartsRight ==
  ASSUME Typed, Typed', ClaimsRight, NEW a \in Actors, CallStarts(a)
  PROVE  ClaimsRight'
<1>1. ASSUME NEW kind \in Proven, SettleAtOnce(a, kind)  PROVE ClaimsRight'
  <2>1. PICK o : /\ Answer(o)
                 /\ \/ o.result = "verified" /\ o.tx.id = client.verified /\ client.verified # 0
                    \/ o.result = "already" /\ client.verification = "applied"
    <3>1. client.verified \in Int
      BY FastIdTypes DEF Clients
    <3>2. PICK tx : tx = [NoTx EXCEPT !.id = client.verified]
      OBVIOUS
    <3>3. tx.id = client.verified
      BY <3>1, <3>2, OutcomeForms DEF Txs
    <3>4. CASE client.verified # 0 /\ Answer(Told("verified", tx))
      <4>1. PICK o : o = Told("verified", tx)
        OBVIOUS
      <4>2. o.result = "verified" /\ o.tx = tx
        BY <4>1 DEF Told
      <4>. QED  BY <3>3, <3>4, <4>1, <4>2
    <3>5. CASE client.verification = "applied" /\ Answer(Told("already", NoTx))
      BY <3>5 DEF Told
    <3>. QED  BY <1>1, <3>2, <3>4, <3>5 DEF SettleAtOnce
  <2>2. ops' = ops + 1 /\ UNCHANGED <<at, account, service, client, promises>>
    BY <1>1 DEF SettleAtOnce
  <2>3. \A x \in Heard' : x \in Heard \/ x = o
    BY <2>1, <2>2, FastIdTypes DEF Answer, Heard
  <2>4. Borne(o)' /\ ~Denied(o)
    BY <2>1, <2>2 DEF ClaimsRight, ClientRight, Borne, Denied
  <2>5. Grows
    BY <2>2 DEF Grows
  <2>. QED  BY <2>2, <2>3, <2>4, <2>5, QuietRight
<1>2. ASSUME NEW kind \in Proven, Settle(a, kind)  PROVE ClaimsRight'
  <2>1. CASE Begin(a, "fastid", IdCall("join", kind, client.slot[kind])) /\ UNCHANGED fastid
    <3>1. PICK s : s = IdCall("join", kind, client.slot[kind])
      OBVIOUS
    <3>2. s.in = "fastid" /\ s.pc = "join" /\ s.id = ops + 1
      BY <3>1, StartForm
    <3>3. CallStep(a, s)
      BY <2>1, <3>1, <3>2, BeginsRight DEF fastid
    <3>. QED  BY <3>3, ClaimsRightStep
  <2>2. CASE /\ client.slot[kind] = 0
             /\ Begin(a, "fastid", IdCall(FirstStep[kind], kind, ops + 1))
             /\ client' = [client EXCEPT !.slot[kind] = ops + 1]
             /\ UNCHANGED <<account, service, promises, said>>
    <3>1. FirstStep[kind] \notin {"links", "found", "register"}
      BY DEF FirstStep, Proven
    <3>2. PICK s : s = IdCall(FirstStep[kind], kind, ops + 1)
      OBVIOUS
    <3>3. s.in = "fastid" /\ s.pc = FirstStep[kind] /\ s.kind = kind /\ s.by = ops + 1 /\ s.id = ops + 1
      BY <3>2, StartForm
    <3>4. CallStep(a, s)
      BY <2>2, <3>1, <3>2, <3>3, BeginsRight
    <3>. QED  BY <3>4, ClaimsRightStep
  <2>. QED  BY <1>2, <2>1, <2>2 DEF Settle
<1>3. CASE RetryRegistration(a)
  <2>1. PICK i \in 1..ops : /\ said[i].result = "pending" /\ UNCHANGED fastid
                            /\ Begin(a, "fastid", [IdCall("register", "retry", 0) EXCEPT !.tx = said[i].tx])
    BY <1>3 DEF RetryRegistration
  <2>2. said[i].tx \in account.txs
    <3>1. i \in 1..MaxOps
      BY <2>1, Numbers
    <3>2. OutcomeRight(said[i])
      BY <3>1 DEF ClaimsRight, OutcomesRight, Heard
    <3>. QED  BY <2>1, <3>2 DEF OutcomeRight, Borne
  <2>3. PICK s : s = [IdCall("register", "retry", 0) EXCEPT !.tx = said[i].tx]
    OBVIOUS
  <2>4. s.in = "fastid" /\ s.pc = "register" /\ s.kind = "retry" /\ s.id = ops + 1 /\ s.tx = said[i].tx
    BY <2>3, StartForm
  <2>5. CallStep(a, s)
    BY <2>1, <2>2, <2>3, <2>4, BeginsRight DEF fastid, Proven
  <2>. QED  BY <2>5, ClaimsRightStep
<1>4. CASE \/ \E kind \in {"name", "work"} : StartClaim(a, kind)
           \/ StartRevoke(a) \/ StartXClaim(a) \/ VerifyPost(a)
           \/ \E kind \in {"profile", "report"} : StartDocument(a, kind)
  <2>1. PICK pc \in {"identity", "claimed", "held", "issue", "verify", "read"},
             kind \in {"name", "work", "revoke", "startX", "verifyPost", "profile", "report"} :
          Begin(a, "fastid", IdCall(pc, kind, 0)) /\ UNCHANGED fastid
    BY <1>4 DEF StartClaim, StartRevoke, StartXClaim, VerifyPost, StartDocument
  <2>2. PICK s : s = IdCall(pc, kind, 0)
    OBVIOUS
  <2>3. s.in = "fastid" /\ s.pc = pc /\ s.kind = kind /\ s.id = ops + 1
    BY <2>2, StartForm
  <2>4. CallStep(a, s)
    BY <2>1, <2>2, <2>3, BeginsRight DEF fastid, Proven
  <2>. QED  BY <2>4, ClaimsRightStep
<1>. QED  BY <1>1, <1>2, <1>3, <1>4 DEF CallStarts

\* What the service does by itself keeps the invariant.
LEMMA AloneRight ==
  ASSUME Typed, Typed', ClaimsRight, VerifyWebsite \/ ApplyIntent
  PROVE  ClaimsRight'
<1>1. UNCHANGED <<at, ops, account, client, promises, said>>
  BY DEF VerifyWebsite, ApplyIntent, activity
<1>2. Grows /\ service'.stored = service.stored
  BY <1>1, FastIdTypes DEF VerifyWebsite, ApplyIntent, Grows, Services
<1>3. Heard' = Heard
  BY <1>1 DEF Heard
<1>. QED  BY <1>1, <1>2, <1>3, QuietRight

\* A step of the rest of the machine starts one command or call, or none.
LEMMA MachineCounts ==
  ASSUME Machine
  PROVE  ops' \in {ops, ops + 1}
<1>1. ASSUME NEW a \in Actors, StoresNext(a)  PROVE ops' \in {ops, ops + 1}
  BY <1>1 DEF StoresNext, CreateAccount, ImportAccount, KeyRead, CheckExisting, CountAccounts, Insert, CreateMultiSig,
           MultiSigTransaction, SetDefault, ClearDefault, WriteDefault, DeleteConfirmed, CheckDelete, CheckTotal,
           Delete, AddNetwork, SetDefaultNetwork, RemoveNetwork, CheckNetworkUsed, WriteNetwork, StoresDie,
           Begin, Exit, Goto, Go, Fault
<1>2. ASSUME NEW a \in Actors, AgentNext(a)  PROVE ops' \in {ops, ops + 1}
  BY <1>2 DEF AgentNext, GenerateAuthRequest, SetPending, DecryptAuthPayload, DropExpired, Opened, Begin, Exit, Go,
              activity
<1>3. ASSUME NEW a \in Actors, AuthorizeNext(a)  PROVE ops' \in {ops, ops + 1}
  BY <1>3 DEF AuthorizeNext, ReadExisting, Replace, Generate, ReadPending, Malformed, Decrypt, PrintKey,
              Unlink, Unlinked, OpenTmp, FillTmp, RenameTmp, AuthorizeDies, Begin, Exit, Goto, Go, Fault
<1>4. ASSUME NEW a \in Actors, PopupNext(a)  PROVE ops' \in {ops, ops + 1}
  BY <1>4 DEF PopupNext, Sign, Connect, Start, Message, ClosedPoll, Timeout, Finish, Continue, UserCloses, Begin, Exit, Go,
              activity
<1>. QED  BY <1>1, <1>2, <1>3, <1>4 DEF Machine, Expire, Disconnect, activity

\* Nothing else writes where a call is.
LEMMA ElsewhereStays ==
  ASSUME NEW parts, Stays(parts), "fastid" \notin parts,
         NEW b \in Actors, at[b].in = "fastid" \/ at'[b].in = "fastid"
  PROVE  at'[b] = at[b]
BY DEF Stays

\* A call that goes on keeps the invariant.
LEMMA GoingKeeps ==
  ASSUME Typed, Typed', ClaimsRight, NEW a \in Actors, CallGoesOn(a)
  PROVE  ClaimsRight'
<1>1. \E s : CallStep(a, s)
  BY ReadStepsRight, PaymentStepsRight, RegisterRight, JoinStepsRight, IssueRight, VerifyRight, SendRight
     DEF CallGoesOn
<1>. QED  BY <1>1, ClaimsRightStep

\* A step of the rest of the machine keeps the invariant.
LEMMA MachineKeeps ==
  ASSUME Typed, Typed', ClaimsRight, Machine, UNCHANGED fastid
  PROVE  ClaimsRight'
<1>1. PICK parts : Stays(parts) /\ "fastid" \notin parts
  <2>1. \/ \E a \in Actors : StoresNext(a) \/ AgentNext(a) \/ AuthorizeNext(a) \/ PopupNext(a)
        \/ Expire \/ Disconnect
    BY DEF Machine
  <2>2. CASE \E a \in Actors : StoresNext(a)
    <3>1. Stays({"accounts", "networks"})
      BY <2>2, StoresStay, MovingStays
    <3>. QED  BY <3>1
  <2>3. CASE \E a \in Actors : AgentNext(a)
    BY <2>3, AgentStays
  <2>4. CASE \E a \in Actors : AuthorizeNext(a)
    BY <2>4, AuthorizeStays
  <2>5. CASE \E a \in Actors : PopupNext(a)
    BY <2>5, PopupStays
  <2>6. CASE Expire \/ Disconnect
    <3>1. Stays({})
      BY <2>6 DEF Expire, Disconnect, activity, Stays, Apart, Shared
    <3>. QED  BY <3>1
  <2>. QED  BY <2>1, <2>2, <2>3, <2>4, <2>5, <2>6
<1>2. \A b \in Actors : at[b].in = "fastid" \/ at'[b].in = "fastid" => at'[b] = at[b]
  BY <1>1, ElsewhereStays
<1>3. UNCHANGED <<account, service, client, promises, said>>
  BY DEF fastid
<1>4. Grows /\ Heard' = Heard
  BY <1>3 DEF Grows, Heard
<1>5. UNCHANGED <<account, client, promises>> /\ service'.stored = service.stored
  BY <1>3
<1>. QED  BY <1>2, <1>4, <1>5, MachineCounts, QuietRight

\* The invariant holds at the start, when the signer may have claimed before.
LEMMA ClaimsInitially == Init => ClaimsRight
<1>. SUFFICES ASSUME Init PROVE ClaimsRight
  OBVIOUS
<1>1. ops = 0 /\ \A a \in Actors : at[a].in = "none" /\ ~Early(at[a])
  BY IdleIsNoCall DEF Init, ActivityInit
<1>2. /\ promises = [i \in 1..MaxOps |-> Untold] /\ \A o \in Heard : o = Untold
      /\ account.txs = service.rows /\ service.rows \subseteq {Before}
      /\ service.stored = {} /\ client.slot["github"] = 0 /\ client.forgot = 0
      /\ client.verified = 0 /\ client.verification = "none"
  BY DEF Init, FastIdInit, Heard, Proven
<1>3. Before.id = 0 /\ Before.prop = "github" /\ Before = Claim(Before.id, Before.prop)
  BY DEF Before, Claim
<1>4. IdsRight
  BY <1>1, <1>2, <1>3, ActivityBounds DEF IdsRight
<1>5. OutcomesRight
  <2>1. Untold.result = "none"
    BY DEF Untold, Told
  <2>. QED  BY <1>2, <2>1 DEF OutcomesRight, OutcomeRight, Borne, Denied
<1>6. CallsRight
  BY <1>1 DEF CallsRight
<1>7. PaymentsRight /\ ClientRight
  BY <1>2, <1>3 DEF PaymentsRight, PaymentRight, ClientRight, Since
<1>. QED  BY <1>4, <1>5, <1>6, <1>7 DEF ClaimsRight

\* It is kept by every step.
LEMMA ClaimsStay == Typed /\ Typed' /\ ClaimsRight /\ [Next]_vars => ClaimsRight'
<1>. SUFFICES ASSUME Typed, Typed', ClaimsRight, [Next]_vars PROVE ClaimsRight'
  OBVIOUS
<1>1. CASE UNCHANGED vars
  BY <1>1 DEF vars, activity, fastid, ClaimsRight, IdsRight, OutcomesRight, OutcomeRight, Borne, Denied, Heard,
              Early, CallsRight, CallRight, SettlementRight, PaymentsRight, PaymentRight, ClientRight, Since
<1>2. CASE Machine /\ UNCHANGED fastid
  BY <1>2, MachineKeeps
<1>3. CASE FastIdNext
  BY <1>3, StartsRight, GoingKeeps, AloneRight DEF FastIdNext
<1>. QED  BY <1>1, <1>2, <1>3 DEF Next

-----------------------------------------------------------------------------
\* Whatever calls overlap, fail and are repeated: calls keep numbers of their
\* own, what was told is so, and a settlement that has not ended, or has
\* paid, is the one its client remembers unless a revocation made it forget.
THEOREM ClaimsAlwaysRight == Spec => []ClaimsRight
<1>1. Spec => []Typed
  BY AlwaysTyped
<1>2. Typed /\ ClaimsRight /\ [Next]_vars /\ Typed' => ClaimsRight'
  BY ClaimsStay
<1>. QED  BY <1>1, <1>2, ClaimsInitially, PTL DEF Spec

\* What a call told of its payment, its claim or its document is so, and
\* stays so, for any number of calls.
THEOREM ClaimAccountedAlways == Spec => []ClaimAccounted
<1>1. ClaimsRight => ClaimAccounted
  <2>. SUFFICES ASSUME ClaimsRight PROVE ClaimAccounted
    OBVIOUS
  <2>1. \A i \in 1..MaxOps : Borne(said[i])
    BY DEF ClaimsRight, OutcomesRight, OutcomeRight, Heard
  <2>. QED  BY <2>1 DEF ClaimAccounted, Borne
<1>. QED  BY <1>1, ClaimsAlwaysRight, PTL

\* Of the settlements of a proven property since the client was last made to
\* forget, one at most pays.
THEOREM ClaimedOnceAlways == Spec => []ClaimedOnce
<1>1. Typed /\ ClaimsRight => ClaimedOnce
  <2>. SUFFICES ASSUME Typed, ClaimsRight, NEW kind \in Proven
                PROVE  Cardinality({tx \in account.txs : tx.prop = kind /\ tx.id > Since(kind)}) <= 1
    BY DEF ClaimedOnce, Since
  <2>. DEFINE Paid == {tx \in account.txs : tx.prop = kind /\ tx.id > Since(kind)}
  <2>1. \A tx \in Paid : tx = Claim(client.slot[kind], kind)
    BY DEF ClaimsRight, PaymentsRight, PaymentRight
  <2>2. Paid = {} \/ Paid = {Claim(client.slot[kind], kind)}
    BY <2>1
  <2>3. Cardinality(Paid) \in {0, 1}
    BY <2>2, FS_EmptySet, FS_Singleton
  <2>. QED  BY <2>3
<1>. QED  BY <1>1, AlwaysTyped, ClaimsAlwaysRight, PTL
=============================================================================
