--------------------------- MODULE MultisigWallets ---------------------------
(* The configuration of the shared account on each member's machine: `fast   *)
(* multisig init`, `export` and `import` (commands/multisig/), the           *)
(* constraints of interface/multisig-signer.ts and the choice of the signing *)
(* member (services/signer-resolver.ts). An address is the configuration it  *)
(* is derived from.                                                          *)
EXTENDS FastNetwork, FiniteSetsExt, SequencesExt

CONSTANTS
  Order,          \* the members in the order of their address bytes
  MaxConfigNonce  \* stands for the largest u64

ASSUME ConfigNonceAssumption == MaxConfigNonce \in Nat
ASSUME OrderAssumption == Order \in Seq(Members) /\ ToSet(Order) = Members /\ Len(Order) = Cardinality(Members)

VARIABLES wallets \* each member's wallet: its configuration, its address, and the file it came from

CompareMultiSigSignerBytes(m, n) == \E i, j \in DOMAIN Order : i < j /\ Order[i] = m /\ Order[j] = n

Config(signers, quorum, nonce) == [signers |-> signers, quorum |-> quorum, nonce |-> nonce]
NoConfig == Config(<<>>, 0, 0)
Wallet(config, fastAddress, origin) == [config |-> config, fastAddress |-> fastAddress, origin |-> origin]
NoWallet == Wallet(NoConfig, NoConfig, "none")
WalletsInit == wallets = [m \in Members |-> NoWallet]

\* A sort: each signer comes after those that are less and those before it that are equal.
CanonicalizeMultiSigSigners(signers) ==
  LET precedes(j, i) == CompareMultiSigSignerBytes(signers[j], signers[i]) \/ (signers[j] = signers[i] /\ j < i)
      place(i) == Cardinality({j \in DOMAIN signers : precedes(j, i)}) + 1
  IN [k \in DOMAIN signers |-> signers[CHOOSE i \in DOMAIN signers : place(i) = k]]

ValidateMultiSigConfig(c) ==
  /\ Len(c.signers) >= 2
  /\ \A i \in 1..(Len(c.signers) - 1) : CompareMultiSigSignerBytes(c.signers[i], c.signers[i + 1])
  /\ c.quorum \in 1..Len(c.signers)
  /\ c.nonce \in 0..MaxConfigNonce

AssertAuthorizedSigner(c, m) == ValidateMultiSigConfig(c) /\ m \in ToSet(c.signers)

DeriveMultiSigAddress(c) == c

\* The lists a user may type: any order, one missing, one twice.
Typed == {s \in SeqOf(Members, Cardinality(Members)) : Len(s) >= Cardinality(Members) - 1}
SignerListOK(typed) == Len(typed) >= 2 /\ IsInjective(typed)

\* What --config-nonce may be: one that is too large is refused.
ConfigNonces == 0..MaxConfigNonce + 1

MultisigInit(m) ==
  \E typed \in Typed, quorum \in {Quorum, Cardinality(Members) + 1}, nonce \in ConfigNonces :
    LET c == Config(CanonicalizeMultiSigSigners(typed), quorum, nonce) IN
    /\ SignerListOK(typed) /\ ValidateMultiSigConfig(c)
    /\ wallets' = [wallets EXCEPT ![m] = Wallet(c, DeriveMultiSigAddress(c), "init")]

\* A configuration file: as a member exported it, or edited since.
ExportFile(n) == [config |-> wallets[n].config, fastAddress |-> wallets[n].fastAddress]
Edited(f) ==
  {f, [f EXCEPT !.config.quorum = 1], [f EXCEPT !.config.signers = Reverse(@)], [f EXCEPT !.config.nonce = @ + 1]}

AnyAddress(derived, f) == TRUE
AddressMatches(derived, f) == derived = f.fastAddress
ImportFile(m) ==
  \E n \in Members : wallets[n] # NoWallet /\ \E f \in Edited(ExportFile(n)) :
    LET c == Config(CanonicalizeMultiSigSigners(f.config.signers), f.config.quorum, f.config.nonce) IN
    /\ ValidateMultiSigConfig(c) /\ AddressMatches(DeriveMultiSigAddress(c), f)
    /\ wallets' = [wallets EXCEPT ![m] = Wallet(c, f.fastAddress, "file")]

ImportSigners(m) ==
  \E typed \in Typed, quorum \in {1, Quorum}, nonce \in ConfigNonces,
     expect \in {NoConfig} \cup {wallets[n].fastAddress : n \in Members} :
    LET c == Config(CanonicalizeMultiSigSigners(typed), quorum, nonce)
        derived == DeriveMultiSigAddress(c)
    IN
    /\ SignerListOK(typed) /\ ValidateMultiSigConfig(c)
    /\ expect # NoConfig => derived = expect
    /\ wallets' = [wallets EXCEPT ![m] = Wallet(c, derived, "signers")]

\* The wallets are set up before any other command runs.
SetUp(m) ==
  /\ ops = 0 /\ wallets[m] = NoWallet
  /\ MultisigInit(m) \/ ImportFile(m) \/ ImportSigners(m)
  /\ UNCHANGED <<activity, net, told>>

-----------------------------------------------------------------------------
(* resolveSigner: the one local account that is a member signs for the       *)
(* shared account, and a machine here holds one member. How a wallet was     *)
(* made does not matter to the commands, so they are followed from one way.  *)
TheConfig == Config(Order, Quorum, 0)
UsualSetUp == \A m \in Members :
  wallets[m] = Wallet(TheConfig, DeriveMultiSigAddress(TheConfig), IF m = Order[1] THEN "init" ELSE "file")
ResolveSigner(m, sender) ==
  \/ sender = m
  \/ sender = Shared /\ AssertAuthorizedSigner(wallets[m].config, m)
=============================================================================
