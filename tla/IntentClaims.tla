---------------------------- MODULE IntentClaims ----------------------------
(* The claims that tell the AllSet bridge contract what to do with a Fast    *)
(* transfer: the ABI form ("legacy") and the self-describing JSON form       *)
(* ("v1") that cross-sign maps back to the ABI form. Hex and addresses are   *)
(* names, letter case aside; a payload is its two decoded operands and       *)
(* whether it is exactly their ABI encoding, decodes all the same, or not.   *)
EXTENDS Integers, SequencesExt

CONSTANTS
  MaxUint,   \* the largest unsigned value a claim can carry
  MaxBytes,  \* the largest v1 document: 4096 bytes, here the number of parts
  MaxChain,  \* the largest chain identifier: 13 digits
  Refusal    \* what an encoder or a decoder that throws answers

(* Intents, as callers and documents have them; the two forms of a claim, as *)
(* they are written, and what is read of the second.                         *)
Words ==
  {"DynamicTransfer", "Execute", "DynamicDeposit", "Revoke", "transfer", "execute", "deposit_back",
   "revoke", "batch", "withdraw", "usdc", "alice", "vault", "fastAlice", "call", "", "exact", "padded",
   "short", "none", "shown", "allset/intent/v1"}
Intents == [action : Words, a : Words, b : Words, value : Int, payload : Words]
WireIntents == [action : Words, a : Words, b : Words, value : Int]
AbiClaims == [transfer : Int, deadline : Int, intents : Seq(Intents)]
V1Documents ==
  [schema : Words, kind : Words, chain : Int, bridge : Words, transferTx : Int, deadline : Int,
   intents : Seq(WireIntents), display : Words, canonical : BOOLEAN, extra : SUBSET Words]
V1Claims ==
  [schema : Words, kind : Words, chain : Int, bridge : Words, transferTx : Int, deadline : Int,
   intents : Seq(WireIntents), display : Words]
ASSUME RefusalAssumption == Refusal \notin AbiClaims \cup V1Documents \cup V1Claims
ASSUME ClaimBounds == MaxUint \in Nat /\ MaxBytes \in Nat \ {0} /\ MaxChain \in Nat

NoChain == -1
Hex20 == {"usdc", "alice", "vault"}
FastAddresses == {"fastAlice"}
Bytes == {"call"}
Refused(x) == x = Refusal

Intent(action, a, b, value, payload) ==
  [action |-> action, a |-> a, b |-> b, value |-> value, payload |-> payload]

\* buildTransferIntent, buildExecuteIntent, buildDepositBackIntent, buildRevokeIntent
BuildTransferIntent(token, receiver) == Intent("DynamicTransfer", token, receiver, 0, "exact")
BuildExecuteIntent(target, calldata, value) == Intent("Execute", target, calldata, value, "exact")
BuildDepositBackIntent(token, receiver) == Intent("DynamicDeposit", token, receiver, 0, "exact")
BuildRevokeIntent == Intent("Revoke", "", "", 0, "exact")

-----------------------------------------------------------------------------
\* The actions of the two forms, and the types of their operands.
V1Name == [DynamicTransfer |-> "transfer", Execute |-> "execute",
           DynamicDeposit |-> "deposit_back", Revoke |-> "revoke"]
LegacyName(action) == CHOOSE l \in DOMAIN V1Name : V1Name[l] = action
Operands(action) ==
  CASE action = "transfer" -> Hex20 \X Hex20
    [] action = "execute" -> Hex20 \X Bytes
    [] action = "deposit_back" -> Hex20 \X FastAddresses
    [] action = "revoke" -> {<<"", "">>}

DerivedKind(intents) ==
  IF Len(intents) >= 2 THEN "batch"
  ELSE IF intents[1].action = "transfer" THEN "withdraw" ELSE intents[1].action

DisplayOK(d) == d \in {"none", "shown"}

ValidClaim(c) ==
  /\ c.schema = "allset/intent/v1"
  /\ c.chain \in 0..MaxChain
  /\ c.bridge \in Hex20
  /\ c.deadline \in 0..MaxUint
  /\ c.intents # <<>>
  /\ Len(c.intents) > 1 => \A i \in DOMAIN c.intents : c.intents[i].action # "revoke"
  /\ \A i \in DOMAIN c.intents :
       LET x == c.intents[i] IN
       /\ x.value \in 0..MaxUint
       /\ x.action \in Range(V1Name)
       /\ <<x.a, x.b>> \in Operands(x.action)
       /\ x.action = "revoke" => x.value = 0
  /\ c.kind = DerivedKind(c.intents)
  /\ DisplayOK(c.display)

(* encodeIntentClaimV1. Canonical JSON writes one document for a claim, in   *)
(* a fixed key order; the transfer id has a fixed width.                     *)
IntentToWire(x) == [action |-> x.action, a |-> x.a, b |-> x.b, value |-> x.value]
DocumentSize(c) == Len(c.intents) + (IF c.display = "shown" THEN 1 ELSE 0)
CanonicalJson(c) ==
  [schema |-> c.schema, kind |-> c.kind, chain |-> c.chain, bridge |-> c.bridge,
   transferTx |-> c.transferTx, deadline |-> c.deadline,
   intents |-> [i \in DOMAIN c.intents |-> IntentToWire(c.intents[i])],
   display |-> c.display, canonical |-> TRUE, extra |-> {}]
EncodeIntentClaimV1(c) ==
  IF ValidClaim(c) /\ DocumentSize(c) <= MaxBytes THEN CanonicalJson(c) ELSE Refusal

(* decodeIntentClaimV1: only the very bytes the encoder writes are accepted. *)
DecodeWireIntent(x) == x
DecodeIntentClaimV1(doc) ==
  IF /\ DocumentSize(doc) <= MaxBytes
     /\ doc.schema = "allset/intent/v1"
     /\ doc.extra = {}
     /\ ValidClaim(doc)
     /\ doc.canonical
    THEN [f \in DOMAIN doc \ {"canonical", "extra"} |->
            IF f = "intents" THEN [i \in DOMAIN doc.intents |-> DecodeWireIntent(doc.intents[i])]
            ELSE doc[f]]
    ELSE Refusal

\* intentV1ToLegacy: the value is kept as it is.
IntentV1ToLegacy(x) == Intent(LegacyName(x.action), x.a, x.b, x.value, "exact")

\* encodeIntentClaim: any payload and any action number can be ABI-encoded.
EncodeIntentClaim(tx, deadline, intents) ==
  IF \A i \in DOMAIN intents : intents[i].value \in 0..MaxUint
    THEN [transfer |-> tx, deadline |-> deadline, intents |-> intents]
    ELSE Refusal

IntentClaimV1ToAbi(c) ==
  IF ValidClaim(c)
    THEN EncodeIntentClaim(c.transferTx, c.deadline,
           [i \in DOMAIN c.intents |-> IntentV1ToLegacy(c.intents[i])])
    ELSE Refusal

(* intentsToV1 refuses a payload that does not decode, one that decodes but  *)
(* is not the encoding of what it decodes to, and an unknown action.         *)
Liftable(x) ==
  /\ x.action \in DOMAIN V1Name
  /\ x.payload = "exact"
  /\ x.action = "Revoke" => x.value = 0
IntentsToV1(intents) ==
  IF \A i \in DOMAIN intents : Liftable(intents[i])
    THEN [i \in DOMAIN intents |-> IntentToWire([intents[i] EXCEPT !.action = V1Name[@]])]
    ELSE Refusal

\* transferUserDataTag and readTransferUserDataTag
TransferUserDataTag(chain) == [prefix |-> "allset/transfer/v1:", chain |-> chain]
NoUserData == [prefix |-> "", chain |-> NoChain]
ReadTransferUserDataTag(u) ==
  IF u \in [prefix : {"allset/transfer/v1:"}, chain : 0..MaxChain] THEN u.chain ELSE NoChain

(* prepareIntentClaimV1 builds the whole document with a placeholder in the  *)
(* place of the transfer id before anything is signed; finishIntentClaimV1   *)
(* puts the id in and encodes again.                                         *)
Claim(intents, chain, bridge, deadline, display, tx) ==
  [schema |-> "allset/intent/v1", kind |-> DerivedKind(intents), chain |-> chain,
   bridge |-> bridge, transferTx |-> tx, deadline |-> deadline,
   intents |-> intents, display |-> display]

PrepareIntentClaimV1(r, now) ==
  LET lifted == IntentsToV1(r.intents)
      full == Claim(lifted, r.chain, r.bridge, now + r.seconds, r.display, "placeholder") IN
  IF \/ r.chain = NoChain \/ r.bridge = "none"
     \/ r.seconds = 0
     \/ Refused(lifted) \/ Refused(EncodeIntentClaimV1(full))
    THEN Refusal
    ELSE [claim |-> full, userData |-> TransferUserDataTag(r.chain)]

FinishIntentClaimV1(prepared, tx) ==
  EncodeIntentClaimV1([prepared.claim EXCEPT !.transferTx = tx])

(* buildClaimBytes, for callers that know the transfer already, and          *)
(* buildIntentClaimBytes, its legacy half with a deadline of one hour.       *)
BuildClaimBytes(r, tx, deadline) ==
  IF r.encoding = "legacy" THEN EncodeIntentClaim(tx, deadline, r.intents)
  ELSE LET lifted == IntentsToV1(r.intents) IN
       IF Refused(lifted) \/ r.chain = NoChain \/ r.bridge = "none" THEN Refusal
       ELSE EncodeIntentClaimV1(Claim(lifted, r.chain, r.bridge, deadline, r.display, tx))

(* resolveExternalAddress and resolveV1ExternalAddress: the first transfer's *)
(* receiver or execute's target, unless the caller gives one.                *)
ResolveExternalAddress(r) ==
  LET named == SelectSeq(r.intents, LAMBDA x :
                 x.action \in {"DynamicTransfer", "Execute"} /\ x.payload # "short")
  IN IF r.external # "none" THEN r.external
     ELSE IF named = <<>> THEN "none"
     ELSE IF named[1].action = "DynamicTransfer" THEN named[1].b ELSE named[1].a

(* What cross-sign, outside this repository, makes of the bytes of a claim.  *)
AbiClaim(bytes) ==
  IF "schema" \in DOMAIN bytes
    THEN LET c == DecodeIntentClaimV1(bytes) IN IF Refused(c) THEN Refusal ELSE IntentClaimV1ToAbi(c)
    ELSE bytes
=============================================================================
