---------------------------- MODULE FastIdClient ----------------------------
(* One IdClient of the fastid-sdk and the calls an application makes on it  *)
(* while others are in progress: claims that are paid for with a transaction *)
(* on the Fast network and registered with the ID service, revocations, the  *)
(* settlements of proven claims that calls share, profile updates and       *)
(* reports. The network and the service are outside this repository.         *)
EXTENDS Activity, Integers

CONSTANT Applications \* the calls an application makes of its client, for each application

VARIABLES
  account,   \* the signer's next nonce, and the transactions accepted
  service,   \* claims applied, revoked and verified; the X claim; profiles and reports stored
  client,    \* what the client remembers between calls
  promises,  \* what each settlement came to
  said       \* what each call told its caller, and about which transaction

fastid == <<account, service, client, promises, said>>

(* A transaction is known by the call that made it; a settlement too.        *)
Proven == {"github", "website", "x"}
Claim(id, prop) == [id |-> id, prop |-> prop, of |-> -1]
Revocation(id, claim) == [id |-> id, prop |-> "revoke", of |-> claim.id]
Before == Claim(0, "github")
NoTx == Claim(-1, "none")
Told(result, tx) == [result |-> result, tx |-> tx]
Untold == Told("none", NoTx)

\* The signer may have made claims before this client was created.
FastIdInit ==
  /\ \E calls \in Applications :
       /\ client = [calls |-> calls, slot |-> [k \in Proven |-> 0], verified |-> 0, session |-> "none",
                    verification |-> "none", revocations |-> {}, forgot |-> 0]
       /\ \E rows \in IF "revoke" \in calls THEN {{}, {Before}} ELSE {{}},
             x \in IF "x" \in calls THEN {"none", "applied"} ELSE {"none"} :
            service = [rows |-> rows, revoked |-> {}, verified |-> {}, x |-> x, stored |-> {}]
  /\ account = [nonce |-> 0, txs |-> service.rows]
  /\ promises = [i \in 1..MaxOps |-> Untold]
  /\ said = [i \in 1..MaxOps |-> Untold]

-----------------------------------------------------------------------------
IdCall(pc, kind, by) ==
  [in |-> "fastid", pc |-> pc, kind |-> kind, id |-> ops + 1, by |-> by, tx |-> NoTx, nonce |-> -1]
Take(a, step, fault) ==
  /\ fault => faults < MaxFaults
  /\ at' = [at EXCEPT ![a] = step]
  /\ faults' = IF fault THEN faults + 1 ELSE faults
  /\ UNCHANGED <<ops, overlapped>>
TakeTo(a, pc, fault) == Take(a, [at[a] EXCEPT !.pc = pc], fault)
Tell(a, outcome, fault) == Take(a, Idle, fault) /\ said' = [said EXCEPT ![at[a].id] = outcome]
Answer(outcome) == said' = [said EXCEPT ![ops + 1] = outcome]

\* Mutant: any failure to hear of a settled payment counts as none.
ProvesNoPaidAttemptOrUnknown(outcome) == outcome.result \in {"unpaid", "unknown"}

(* A settlement that failed before it paid is forgotten, so that a later     *)
(* call may start another; any other is what later calls are told.           *)
ProvesNoPaidAttempt(outcome) == outcome.result = "unpaid"
Settled(c, outcome) ==
  /\ promises' = [promises EXCEPT ![c.id] = outcome]
  /\ client' = IF ProvesNoPaidAttempt(outcome) /\ client.slot[c.kind] = c.id
                 THEN [client EXCEPT !.slot[c.kind] = 0]
               ELSE IF outcome.result = "verified" THEN [client EXCEPT !.verified = outcome.tx.id]
               ELSE client

(* A call ends; the settlement it made, if it made one, with it. A website's *)
(* settlement is followed by a wait for its verification.                    *)
Ends(a, outcome, fault) ==
  LET c == at[a] IN
  IF c.kind \notin Proven THEN Tell(a, outcome, fault) /\ UNCHANGED <<client, promises>>
  ELSE /\ Settled(c, outcome)
       /\ IF c.kind = "website" /\ outcome.result \in {"registered", "pending"}
            THEN TakeTo(a, "links", fault) /\ UNCHANGED said
            ELSE Tell(a, outcome, fault)
NotPaid(id) == Told("unpaid", [NoTx EXCEPT !.id = id])
Unpaid(a, fault) == Ends(a, NotPaid(at[a].id), fault)

-----------------------------------------------------------------------------
(* settleOAuthClaim, verifyAndSettle and XSession.settle: a call joins the   *)
(* settlement that was started for the same property, or starts it.          *)
SettleAuthorized ==
  client.verification = "committed" \/ (client.verification = "verified" /\ client.session = "legacy")
FirstStep == [github |-> "proof", website |-> "claimed",
              x |-> IF client.session = "legacy" THEN "commit" ELSE "fee"]
Settle(a, kind) ==
  /\ kind \in client.calls
  /\ kind = "x" => client.session # "none" /\ client.verification # "applied"
  /\ kind = "website" => client.verified = 0
  /\ \/ /\ client.slot[kind] # 0
        /\ Begin(a, "fastid", IdCall("join", kind, client.slot[kind]))
        /\ UNCHANGED fastid
     \/ /\ client.slot[kind] = 0
        /\ kind = "x" => SettleAuthorized
        /\ Begin(a, "fastid", IdCall(FirstStep[kind], kind, ops + 1))
        /\ client' = [client EXCEPT !.slot[kind] = ops + 1]
        /\ UNCHANGED <<account, service, promises, said>>

Join(a) ==
  LET c == at[a]  outcome == promises[c.by] IN
  /\ In(a, "fastid", "join") /\ outcome # Untold
  /\ IF c.kind = "website" /\ outcome.result \in {"registered", "pending"}
       THEN TakeTo(a, "links", FALSE) /\ UNCHANGED said
       ELSE Tell(a, outcome, FALSE)
  /\ UNCHANGED <<account, service, client, promises>>

\* oauthProofAvailable: without an exact answer the proof is not there.
OAuthProof(a) ==
  /\ In(a, "fastid", "proof")
  /\ \/ TakeTo(a, "claimed", FALSE) /\ UNCHANGED <<client, promises, said>>
     \/ Unpaid(a, TRUE)
  /\ UNCHANGED <<account, service>>

Committed == IF service.x = "applied" THEN service ELSE [service EXCEPT !.x = "committed"]

\* commitLegacy: only a confirmed commitment goes on.
CommitLegacy(a) ==
  /\ In(a, "fastid", "commit")
  /\ \/ /\ TakeTo(a, "fee", FALSE) /\ service' = Committed
        /\ UNCHANGED <<client, promises, said>>
     \/ Unpaid(a, TRUE) /\ service' \in {service, Committed}
  /\ UNCHANGED account

-----------------------------------------------------------------------------
(* claimName, claimProperty and settleProvenProperty look whether the        *)
(* property is taken: the two reads of a name refuse when they fail, the     *)
(* read of another property passes.                                          *)
StartClaim(a, kind) ==
  /\ kind \in client.calls \cap {"name", "work"}
  /\ Begin(a, "fastid", IdCall(IF kind = "name" THEN "identity" ELSE "claimed", kind, 0))
  /\ UNCHANGED fastid

Held(prop) == {r \in service.rows : r.prop = prop /\ r.id \notin service.revoked}
Identity(a) ==
  /\ In(a, "fastid", "identity")
  /\ \/ Held("name") = {} /\ TakeTo(a, "availability", FALSE) /\ UNCHANGED <<client, promises, said>>
     \/ Unpaid(a, Held("name") = {})
  /\ UNCHANGED <<account, service>>
Availability(a) ==
  /\ In(a, "fastid", "availability")
  /\ \/ Held("name") = {} /\ TakeTo(a, "fee", FALSE) /\ UNCHANGED <<client, promises, said>>
     \/ Unpaid(a, Held("name") = {})
  /\ UNCHANGED <<account, service>>
PropertyClaimed(a) ==
  LET held == Held(at[a].kind) # {} IN
  /\ In(a, "fastid", "claimed")
  /\ \/ TakeTo(a, "fee", held) /\ UNCHANGED <<client, promises, said>>
     \/ held /\ Unpaid(a, FALSE)
  /\ UNCHANGED <<account, service>>

(* revoke: the transaction of the claim the signer holds, which an old       *)
(* answer may still show when it was revoked.                                *)
StartRevoke(a) ==
  /\ "revoke" \in client.calls
  /\ Begin(a, "fastid", IdCall("held", "revoke", 0))
  /\ UNCHANGED fastid
ClaimTransactionForRevoke(a) ==
  /\ In(a, "fastid", "held")
  /\ \/ /\ \E r \in {r \in service.rows : r.prop = "github"} :
             Take(a, [at[a] EXCEPT !.pc = "fee", !.tx = r], r \notin Held("github"))
        /\ UNCHANGED <<client, promises, said>>
     \/ Unpaid(a, Held("github") # {})
  /\ UNCHANGED <<account, service>>

-----------------------------------------------------------------------------
(* ClaimService.settle: the fee and the nonce are read, the transaction is   *)
(* built, signed and submitted once.                                         *)
ResolveClaimFee(a) ==
  /\ In(a, "fastid", "fee")
  /\ \/ TakeTo(a, "nonce", FALSE) /\ UNCHANGED <<client, promises, said>>
     \/ Unpaid(a, TRUE)
  /\ UNCHANGED <<account, service>>
GetNextNonce(a) ==
  /\ In(a, "fastid", "nonce")
  /\ \/ /\ Take(a, [at[a] EXCEPT !.pc = "submit", !.nonce = account.nonce], FALSE)
        /\ UNCHANGED <<client, promises, said>>
     \/ Unpaid(a, TRUE)
  /\ UNCHANGED <<account, service>>

BuiltClaim(c) == IF c.kind = "revoke" THEN Revocation(c.id, c.tx) ELSE Claim(c.id, c.kind)
\* Mutant: an error of the provider is taken to precede the submission.
AlwaysPreSubmit(tx) == NotPaid(tx.id)
IndeterminateSubmission(tx) == Told("unknown", tx)
Accept(tx) == account' = [nonce |-> account.nonce + 1, txs |-> account.txs \cup {tx}]
SubmitSignedClaim(a) ==
  LET c == at[a]  tx == BuiltClaim(c) IN
  /\ In(a, "fastid", "submit")
  /\ \/ /\ c.nonce = account.nonce /\ Accept(tx)
        /\ Take(a, [c EXCEPT !.pc = "register", !.tx = tx], FALSE)
        /\ UNCHANGED <<client, promises, said>>
     \/ \* the answer is lost, incomplete, or the certificate of something else
        /\ c.nonce = account.nonce /\ Accept(tx)
        /\ Ends(a, IndeterminateSubmission(tx), TRUE)
     \/ \* another nonce, or no signature, or not enough for the fee
        /\ Unpaid(a, c.nonce = account.nonce)
        /\ UNCHANGED account
     \/ \* an error that proves nothing
        /\ Ends(a, IndeterminateSubmission(tx), TRUE)
        /\ UNCHANGED account
  /\ UNCHANGED service

-----------------------------------------------------------------------------
(* register: the service applies what was paid for, once; it refuses a       *)
(* second claim of a property and may refuse a second revocation.            *)
RetryRegistration(a) ==
  /\ "retry" \in client.calls
  /\ \E tx \in {said[i].tx : i \in {i \in 1..ops : said[i].result = "pending"}} :
       Begin(a, "fastid", [IdCall("register", "retry", 0) EXCEPT !.tx = tx])
  /\ UNCHANGED fastid

Refusable(tx) == IF tx.prop = "revoke" THEN tx.of \in service.revoked ELSE Held(tx.prop) \ {tx} # {}
Applicable(tx) == tx.prop = "revoke" \/ Held(tx.prop) \subseteq {tx}
Apply(tx, verified) ==
  service' = [service EXCEPT !.rows = IF tx.prop = "revoke" THEN @ ELSE @ \cup {tx},
                             !.revoked = IF tx.prop = "revoke" THEN @ \cup {tx.of} ELSE @,
                             !.verified = IF verified THEN @ \cup {tx.id} ELSE @]

(* A revocation that is registered, at once or by a retry, makes the client  *)
(* forget the settlement of the claim, whichever it is by then.              *)
Forgotten(revocations) ==
  client' = [client EXCEPT !.slot["github"] = 0, !.revocations = revocations, !.forgot = ops]
Registered(a, outcome, fault) ==
  LET c == at[a] IN
  CASE c.kind = "revoke" ->
         /\ IF outcome.result = "registered" THEN Forgotten(client.revocations)
            ELSE client' = [client EXCEPT !.revocations =
                              IF outcome.result = "pending" THEN @ \cup {c.tx} ELSE @]
         /\ Tell(a, outcome, fault) /\ UNCHANGED promises
    [] c.kind = "retry" /\ outcome.result = "registered" /\ c.tx \in client.revocations ->
         Forgotten(client.revocations \ {c.tx}) /\ Tell(a, outcome, fault) /\ UNCHANGED promises
    [] OTHER -> Ends(a, outcome, fault)

Register(a) ==
  LET tx == at[a].tx IN
  /\ In(a, "fastid", "register")
  /\ \/ /\ Applicable(tx)
        /\ \/ Apply(tx, FALSE) /\ Registered(a, Told("registered", tx), FALSE)
           \/ tx.prop = "website" /\ Apply(tx, TRUE) /\ Registered(a, Told("verified", tx), FALSE)
           \/ Apply(tx, FALSE) /\ Registered(a, Told("pending", tx), TRUE)
     \/ Refusable(tx) /\ Registered(a, Told("terminal", tx), FALSE) /\ UNCHANGED service
     \/ Registered(a, Told("pending", tx), TRUE) /\ UNCHANGED service
  /\ UNCHANGED account

\* The service fetches the proof from the website, at once or later.
VerifyWebsite ==
  /\ \E r \in Held("website") :
       r.id \notin service.verified /\ service' = [service EXCEPT !.verified = @ \cup {r.id}]
  /\ UNCHANGED <<activity, account, client, promises, said>>

\* waitForWebsite: polled until the service shows our claim verified, or the
\* time is up, or the caller cancels.
WaitForWebsite(a) ==
  LET c == at[a]  outcome == promises[c.by] IN
  /\ In(a, "fastid", "links")
  /\ \/ /\ outcome.tx.id \in service.verified
        /\ client' = [client EXCEPT !.verified = outcome.tx.id]
        /\ Tell(a, Told("verified", outcome.tx), FALSE)
     \/ /\ Tell(a, IF outcome.result = "pending" THEN outcome ELSE Told("unverified", outcome.tx), FALSE)
        /\ UNCHANGED client
  /\ UNCHANGED <<account, service, promises>>

\* What a call is told at once: the website is verified, X settled by the
\* service, the post not verified.
SettleAtOnce(a, kind) ==
  /\ kind \in client.calls /\ at[a] = Idle /\ ops < MaxOps
  /\ ops' = ops + 1
  /\ \/ kind = "website" /\ client.verified # 0 /\ Answer(Told("verified", [NoTx EXCEPT !.id = client.verified]))
     \/ kind = "x" /\ client.verification = "applied" /\ Answer(Told("already", NoTx))
  /\ UNCHANGED <<at, faults, overlapped, account, service, client, promises>>

-----------------------------------------------------------------------------
(* startXClaim: a session of the intent protocol, or of the legacy one; the  *)
(* service may already have settled the first. Every session has a           *)
(* settlement of its own; an application that is given two uses the first.   *)
StartXClaim(a) ==
  /\ "startX" \in client.calls /\ client.session = "none"
  /\ Begin(a, "fastid", IdCall("issue", "startX", 0))
  /\ UNCHANGED fastid
IssueSession(a) ==
  /\ In(a, "fastid", "issue")
  /\ \/ /\ \/ client.session # "none" /\ UNCHANGED client
           \/ /\ client.session = "none"
              /\ \E protocol \in {"legacy", "intent"} : client' = [client EXCEPT !.session = protocol]
        /\ Tell(a, Told("session", NoTx), FALSE)
     \/ service.x = "applied" /\ Tell(a, Told("already", NoTx), FALSE) /\ UNCHANGED client
     \/ Tell(a, NotPaid(at[a].id), TRUE) /\ UNCHANGED client
  /\ UNCHANGED <<account, service, promises>>

(* verifyPost: what the service finds now, and what the session keeps of it  *)
(* when the answer is here: an applied settlement is never forgotten.        *)
VerifyPost(a) ==
  /\ "verifyPost" \in client.calls /\ client.session # "none"
  /\ Begin(a, "fastid", IdCall("verify", "verifyPost", 0))
  /\ UNCHANGED fastid
Finding == IF client.session = "legacy" THEN {"verified"}
           ELSE IF service.x = "applied" THEN {"applied"} ELSE {"committed"}
Found(a) ==
  /\ In(a, "fastid", "verify")
  /\ \/ \E found \in Finding :
          /\ Take(a, [at[a] EXCEPT !.pc = "found", !.kind = found], FALSE)
          /\ service' = IF found = "committed" THEN Committed ELSE service
     \/ Take(a, [at[a] EXCEPT !.pc = "found", !.kind = "failed"], TRUE) /\ UNCHANGED service
  /\ UNCHANGED <<account, client, promises, said>>
RecordVerification(a) ==
  /\ In(a, "fastid", "found")
  /\ client' = IF client.verification = "applied" THEN client ELSE [client EXCEPT !.verification = at[a].kind]
  /\ Tell(a, Told("found", NoTx), FALSE)
  /\ UNCHANGED <<account, service, promises>>

\* The service settles a committed intent by itself.
ApplyIntent ==
  /\ client.session = "intent" /\ service.x = "committed"
  /\ service' = [service EXCEPT !.x = "applied"]
  /\ UNCHANGED <<activity, account, client, promises, said>>

-----------------------------------------------------------------------------
(* updateProfile and submitReport: the current profile, or the report        *)
(* configuration, is read; a challenge, for a profile; one signed or sealed  *)
(* document is sent, and the answer is stored, refused or neither: of a      *)
(* profile that failed otherwise the caller is told no more than that.       *)
StartDocument(a, kind) ==
  /\ kind \in client.calls \cap {"profile", "report"}
  /\ Begin(a, "fastid", IdCall("read", kind, 0))
  /\ UNCHANGED fastid
ReadFirst(a) ==
  /\ In(a, "fastid", "read") \/ In(a, "fastid", "challenge")
  /\ \/ /\ TakeTo(a, IF at[a].pc = "read" /\ at[a].kind = "profile" THEN "challenge" ELSE "send", FALSE)
        /\ UNCHANGED <<client, promises, said>>
     \/ Unpaid(a, TRUE)
  /\ UNCHANGED <<account, service>>
\* What a caller may be told though the document was stored.
Doubtful(kind) == IF kind = "profile" THEN {"unknown", "failed"} ELSE {"unknown"}
Send(a) ==
  LET c == at[a]  Says(result, fault) == Tell(a, Told(result, [NoTx EXCEPT !.id = c.id]), fault) IN
  /\ In(a, "fastid", "send")
  /\ \/ /\ service' = [service EXCEPT !.stored = @ \cup {c.id}]
        /\ Says("stored", FALSE) \/ \E result \in Doubtful(c.kind) : Says(result, TRUE)
     \/ UNCHANGED service /\ \E result \in Doubtful(c.kind) \cup {"refused"} : Says(result, TRUE)
  /\ UNCHANGED <<account, client, promises>>

-----------------------------------------------------------------------------
CallStarts(a) ==
  \/ \E kind \in Proven : Settle(a, kind) \/ SettleAtOnce(a, kind)
  \/ \E kind \in {"name", "work"} : StartClaim(a, kind)
  \/ StartRevoke(a) \/ RetryRegistration(a) \/ StartXClaim(a) \/ VerifyPost(a)
  \/ \E kind \in {"profile", "report"} : StartDocument(a, kind)
CallGoesOn(a) ==
  \/ Join(a) \/ OAuthProof(a) \/ CommitLegacy(a)
  \/ Identity(a) \/ Availability(a) \/ PropertyClaimed(a) \/ ClaimTransactionForRevoke(a)
  \/ ResolveClaimFee(a) \/ GetNextNonce(a) \/ SubmitSignedClaim(a) \/ Register(a)
  \/ WaitForWebsite(a) \/ IssueSession(a) \/ Found(a) \/ RecordVerification(a)
  \/ ReadFirst(a) \/ Send(a)
FastIdNext == (\E a \in Actors : CallStarts(a) \/ CallGoesOn(a)) \/ VerifyWebsite \/ ApplyIntent

-----------------------------------------------------------------------------
(* What a call tells is so: one that failed before it paid left nothing on   *)
(* the network, a pending one has paid, and the transaction it carries is    *)
(* what was paid with; a registered claim was applied, a verified one shown  *)
(* to be; a stored document is stored, a refused one is not (claims.ts,      *)
(* claim-tx.ts, proofs.ts, profile.ts, report.ts).                           *)
ClaimAccounted ==
  \A i \in 1..MaxOps :
    LET t == said[i].tx  result == said[i].result IN
    /\ result = "unpaid" => \A tx \in account.txs : tx.id # t.id
    /\ result \in {"pending", "unverified", "registered", "terminal"} => t \in account.txs
    /\ result = "registered" => t \in service.rows \/ t.of \in service.revoked
    /\ result = "verified" => t.id \in service.verified
    /\ result = "already" => service.x = "applied"
    /\ result = "stored" => t.id \in service.stored
    /\ result = "refused" => t.id \notin service.stored

(* However calls overlap, fail and are repeated, a proven property is paid   *)
(* for once by a client, a website by its instructions, X by its session: of *)
(* the settlements started since a revocation last made the client forget,   *)
(* one at most pays (proofs.ts settleOAuthClaim, verifyAndSettle,            *)
(* XSession.settle).                                                         *)
ClaimedOnce ==
  \A kind \in Proven :
    LET since == IF kind = "github" THEN client.forgot ELSE 0 IN
    Cardinality({tx \in account.txs : tx.prop = kind /\ tx.id > since}) <= 1
=============================================================================
