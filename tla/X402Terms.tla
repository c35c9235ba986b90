------------------------------ MODULE X402Terms -----------------------------
(* The payment terms and payloads of the x402 protocol, in the form of the   *)
(* protocol's first version, which every package works on, and in the native *)
(* form of its second, and the verification of a payload against terms. Why  *)
(* a payload is refused is left out: a payload is valid or it is not.        *)
EXTENDS Naturals, SequencesExt

CONSTANTS Committee \* the trusted keys of the Fast committee, <<>> when none are configured

\* toCanonicalNetwork, toLegacyNetwork and getNetworkType, on the networks in use.
LegacyToCaip == [n \in {"fast-testnet", "fast-mainnet", "base"} |->
  CASE n = "fast-testnet" -> "fast:testnet" [] n = "fast-mainnet" -> "fast:mainnet"
    [] n = "base" -> "eip155:8453"]
ToCanonicalNetwork(n) ==
  IF n \in DOMAIN LegacyToCaip THEN LegacyToCaip[n]
  ELSE IF n \in Range(LegacyToCaip) THEN n ELSE "unmapped"
ToLegacyNetwork(n) == CHOOSE l \in DOMAIN LegacyToCaip : ToCanonicalNetwork(n) = LegacyToCaip[l]
NetworkType(n) == IF ToCanonicalNetwork(n) \in {"fast:testnet", "fast:mainnet"} THEN "fast" ELSE "evm"

(* createPaymentRequirement: what one request costs. A price is an amount in *)
(* the token's units, or a decimal that parsePrice rounds to one.            *)
ParsePrice(price, unit) == IF price.decimal THEN (price.value * unit + 5) \div 10 ELSE price.value
Requirement(network, amount, payTo, asset) ==
  [scheme |-> "exact", network |-> network, amount |-> amount, payTo |-> payTo, asset |-> asset,
   flow |-> "none"]
NoTerms == Requirement("unmapped", 0, "", "")

ValidV2(r) == r.scheme = "exact" /\ r.network \in Range(LegacyToCaip) /\ r.asset # "" /\ r.payTo # ""
FromV2(r) == [r EXCEPT !.network = ToLegacyNetwork(@)]
ToV2(r) ==
  [r EXCEPT !.network = ToCanonicalNetwork(@),
            !.flow = IF NetworkType(r.network) = "fast" THEN "upfront" ELSE @]

Payload(v, accepted, network, body) ==
  [v |-> v, accepted |-> accepted, scheme |-> "exact", network |-> network, body |-> body]
NoPayload == Payload(0, NoTerms, "unmapped", [kind |-> "none"])

(* toV2PaymentPayload and fromV2PaymentPayload: the terms a native payload   *)
(* says it accepted must be the seller's own, to the letter.                 *)
ToV2PaymentPayload(p, accepted) == [p EXCEPT !.v = 2, !.accepted = accepted]
AcceptsTerms(p, expected) == ValidV2(p.accepted) /\ p.accepted = ToV2(expected)
FromV2PaymentPayload(p, expected) ==
  IF AcceptsTerms(p, expected)
    THEN Payload(1, NoTerms, expected.network, p.body) ELSE NoPayload

(* normalizePayment                                                          *)
NormalizePayment(p, expected) ==
  IF p.v # 2 THEN p
  ELSE IF NetworkType(p.accepted.network) = "fast" /\ p.accepted.flow # "upfront" THEN NoPayload
  ELSE FromV2PaymentPayload(p, expected)

(* validateRequestedProtocol, the payer's side: the terms it pays are those  *)
(* of the original offer, and of a flow it knows.                            *)
RequestedProtocolOK(v, r) ==
  /\ v \in {1, 2}
  /\ v = 2 => /\ ValidV2(ToV2(r))
              /\ r.flow \in IF NetworkType(r.network) = "fast" THEN {"upfront"} ELSE {"none", "authorization"}

-----------------------------------------------------------------------------
(* Fast certificates: a transaction in one of the forms the schema writes,   *)
(* the sender's signature and the committee's.                               *)
Certificate(form, network, tx, signature, signatures) ==
  [kind |-> "fast", form |-> form, network |-> network, tx |-> tx, signature |-> signature,
   signatures |-> signatures]
Signed(member) == [member |-> member, good |-> TRUE]

\* unwrapFastTransaction and serializeFastTransaction: the forms that can be read back
UnwrapFastTransaction(c) == c.form \in {"keyed", "typed", "snake_case", "camelCase"}

\* decodeEnvelope and getTransferDetails: the transaction's first transfer, if it has one
TransferDetails(c) == c.tx.to # "none"

\* extractSenderSignature and hasMultiSig, then verifyEd25519 of the signing message
SenderSigned(c) == c.signature = "Signature"

QuorumThreshold(n) == (2 * n) \div 3 + 1
MinSignatures == IF Committee = <<>> THEN 3 ELSE QuorumThreshold(Len(Committee))

EnvelopeOK(p, expected) ==
  /\ p.scheme = "exact" /\ expected.scheme = "exact"
  /\ p.network = expected.network
  /\ NetworkType(p.network) = "fast"
  /\ p.body.kind = "fast"
  /\ p.body.signatures # <<>>
  /\ UnwrapFastTransaction(p.body)

TransactionOK(p) ==
  /\ p.body.network = ToCanonicalNetwork(p.network)
  /\ TransferDetails(p.body)
  /\ SenderSigned(p.body)

\* every committee signature counts: distinct, of a known member, and right
EachTrustedAnyTimes(s) == \A i \in DOMAIN s : s[i].member \in Range(Committee) /\ s[i].good
EachTrustedOnce(s) ==
  /\ \A i, j \in DOMAIN s : i # j => s[i].member # s[j].member
  /\ \A i \in DOMAIN s : (Committee # <<>> => s[i].member \in Range(Committee)) /\ s[i].good
CommitteeOK(s) == Len(s) >= MinSignatures /\ EachTrustedOnce(s)

(* The certificate the network has at the payer's nonce, when it can be      *)
(* read, must be of the same transaction and hold every signature presented. *)
NetworkAgrees(c, networks) ==
  \A n \in networks :
    /\ c.tx = n.tx /\ c.signature = n.signature
    /\ Range(c.signatures) \subseteq Range(n.signatures)

AddressesMatch(a, b) == a = b
TermsMet(tx, expected) ==
  /\ AddressesMatch(tx.to, expected.payTo)
  /\ tx.amount >= expected.amount
  /\ expected.asset \in {"", tx.token}

VerifyFast(p, expected, networks) ==
  /\ EnvelopeOK(p, expected)
  /\ TransactionOK(p)
  /\ CommitteeOK(p.body.signatures)
  /\ NetworkAgrees(p.body, networks)
  /\ TermsMet(p.body.tx, expected)

-----------------------------------------------------------------------------
(* EIP-3009 authorizations: signed for one token and one chain, valid until  *)
(* a moment, here until they have lapsed.                                    *)
Authorization(key, to, amount, token) ==
  [kind |-> "evm", key |-> key, to |-> to, amount |-> amount, signedFor |-> token]

AuthorizationOK(p, expected) ==
  /\ p.scheme = "exact" /\ expected.scheme = "exact"
  /\ NetworkType(p.network) = "evm" /\ ToCanonicalNetwork(p.network) # "unmapped"
  /\ p.body.kind = "evm"
  /\ p.network = expected.network
  /\ p.body.to = expected.payTo

AuthorizationFunded(p, expected, lapsed, balance) ==
  /\ p.body.signedFor = expected.asset
  /\ p.body.key \notin lapsed
  /\ p.body.amount >= expected.amount
  /\ balance >= expected.amount

VerifyEvm(p, expected, lapsed, balance) ==
  AuthorizationOK(p, expected) /\ AuthorizationFunded(p, expected, lapsed, balance)

\* verify: the payload is normalized, then judged by the type of its network.
Verify(payload, expected, networks, lapsed, balance) ==
  LET p == NormalizePayment(payload, expected) IN
  IF NetworkType(p.network) = "fast" THEN VerifyFast(p, expected, networks)
  ELSE VerifyEvm(p, expected, lapsed, balance)
=============================================================================
