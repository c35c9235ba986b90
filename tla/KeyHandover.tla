----------------------------- MODULE KeyHandover -----------------------------
(* The key handover agent of the wallet SDK: one pending request in memory, *)
(* and calls that await key generation and HPKE decryption while other      *)
(* calls of the same agent run. Requests are numbered as they are issued    *)
(* and expire in that order; a handover code is the number of the request   *)
(* it was sealed for, 0 for a code that opens none.                         *)
EXTENDS Activity

CONSTANT MaxFailures  \* failed decryptions a request survives, plus one: 3 in the code

ASSUME FailuresAssumption == MaxFailures \in Nat \ {0}

VARIABLES
  issued, expired, \* requests issued so far; those up to expired have expired
  record,          \* the agent's pending record
  begun,           \* history: decryptions begun with each request's key, by this agent
  released,        \* seeds returned for each request, by this agent
  crossed          \* a request was generated while a decryption was in progress

agent == <<issued, expired, record, begun, released, crossed>>

Codes == 0..issued
NoPending == [req |-> 0, state |-> "none", fails |-> 0]
Pending(r) == [req |-> r, state |-> "pending", fails |-> 0]

AgentInit ==
  /\ issued = 0
  /\ expired = 0
  /\ record = NoPending
  /\ begun = [r \in 1..MaxOps |-> 0]
  /\ released = [r \in 1..MaxOps |-> 0]
  /\ crossed = FALSE

(* PendingStore: beginConsuming may be entered only from "pending", an      *)
(* expired record is dropped; recordFailure drops the record at the limit.  *)
Consumable(rec) == rec.state = "pending" /\ rec.req > expired
TooMany(rec) == rec.fails + 1 >= MaxFailures
RecordFailureUnlimited(rec) ==
  IF rec.state = "none" THEN NoPending
  ELSE [rec EXCEPT !.fails = @ + 1, !.state = "pending"]
RecordFailure(rec) ==
  IF rec.state = "none" \/ TooMany(rec) THEN NoPending
  ELSE [rec EXCEPT !.fails = @ + 1, !.state = "pending"]

Call(pc, req, code) == [in |-> "agent", pc |-> pc, req |-> req, code |-> code]
Opening == {a \in Actors : In(a, "agent", "hpkeOpen")}

(* generateAuthRequest forgets the pending request at once and sets the new *)
(* one when its key pair exists.                                            *)
GenerateAuthRequest(a) ==
  /\ Begin(a, "agent", Call("keys", 0, 0))
  /\ record' = NoPending
  /\ crossed' = (crossed \/ Opening # {})
  /\ UNCHANGED <<issued, expired, begun, released>>
SetPending(a) ==
  /\ In(a, "agent", "keys")
  /\ issued' = issued + 1
  /\ record' = Pending(issued')
  /\ crossed' = (crossed \/ Opening # {})
  /\ Exit(a)
  /\ UNCHANGED <<expired, begun, released>>

(* decryptAuthPayload: an expired record is dropped, any other that is not  *)
(* pending refused; the record is then being consumed while hpkeOpen runs.  *)
DecryptAuthPayloadAgain(a) ==
  /\ record.state # "none" /\ record.req > expired
  /\ \E c \in Codes : Begin(a, "agent", Call("hpkeOpen", record.req, c))
  /\ record' = [record EXCEPT !.state = "consuming"]
  /\ begun' = [begun EXCEPT ![record.req] = @ + 1]
  /\ UNCHANGED <<issued, expired, released, crossed>>
DecryptAuthPayload(a) ==
  /\ Consumable(record)
  /\ \E c \in Codes : Begin(a, "agent", Call("hpkeOpen", record.req, c))
  /\ record' = [record EXCEPT !.state = "consuming"]
  /\ begun' = [begun EXCEPT ![record.req] = @ + 1]
  /\ UNCHANGED <<issued, expired, released, crossed>>
DropExpired(a) ==
  /\ at[a] = Idle
  /\ record.state # "none" /\ record.req <= expired
  /\ record' = NoPending
  /\ UNCHANGED <<activity, issued, expired, begun, released, crossed>>

(* What hpkeOpen found is applied to the record that is pending by then.    *)
Opened(a) ==
  /\ In(a, "agent", "hpkeOpen")
  /\ LET r == at[a].req IN
       IF at[a].code = r
         THEN /\ record' = NoPending
              /\ released' = [released EXCEPT ![r] = @ + 1]
         ELSE record' = RecordFailure(record) /\ UNCHANGED released
  /\ Exit(a)
  /\ UNCHANGED <<issued, expired, begun, crossed>>

Expire ==
  /\ expired < issued
  /\ expired' = expired + 1
  /\ UNCHANGED <<activity, issued, record, begun, released, crossed>>

AgentNext(a) ==
  \/ GenerateAuthRequest(a) \/ SetPending(a)
  \/ DecryptAuthPayload(a) \/ DropExpired(a) \/ Opened(a)
-----------------------------------------------------------------------------
AgentTypeOK ==
  /\ issued \in 0..MaxOps /\ expired \in 0..issued
  /\ record \in [req : 0..MaxOps, state : {"none", "pending", "consuming"}, fails : 0..MaxFailures - 1]
  /\ crossed \in BOOLEAN

(* A request's key never serves more than MaxFailures decryptions of one     *)
(* agent, however its calls interleave, also when a late failure is counted  *)
(* on the request that replaced its own. As long as no request is generated  *)
(* while a decryption is in progress: one decryption runs at a time, every   *)
(* one is counted, and a request releases its seed at most once and is spent *)
(* by it. agent.ts decryptAuthPayload, whose outcome is applied after an     *)
(* await.                                                                    *)
SeedReleasedOnce ==
  /\ \A r \in 1..issued : begun[r] <= MaxFailures
  /\ ~crossed =>
       /\ Cardinality(Opening) <= 1
       /\ \A r \in 1..issued : released[r] <= 1 /\ (released[r] = 1 => record.req # r)
       /\ record.state # "none" =>
            begun[record.req] = record.fails + (IF record.state = "consuming" THEN 1 ELSE 0)
=============================================================================
