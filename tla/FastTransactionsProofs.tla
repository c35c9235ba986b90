------------------------ MODULE FastTransactionsProofs ------------------------
(***************************************************************************)
(* What the members of a shared account are told, what their machines      *)
(* record, and what a wait for a payment finds, for any number of members,  *)
(* processes, commands and faults.                                          *)
(***************************************************************************)
EXTENDS FastTransactions, FiniteSetTheorems, WellFoundedInduction, TLAPS

(* Numbers that are natural have a least one.                               *)
LEMMA LeastExists ==
  ASSUME NEW T, T \subseteq Nat, T # {}
  PROVE  \E m \in T : \A k \in T : m <= k
<1>1. IsWellFoundedOn(OpToRel(<, Nat), Nat)
  BY NatLessThanWellFounded, Zenon
<1>2. \E m \in T : \A k \in T : <<k, m>> \notin OpToRel(<, Nat)
  BY <1>1, WFMin, Zenon
<1>3. \A j \in Nat, k \in Nat : j < k => <<j, k>> \in OpToRel(<, Nat)
  BY Zenon DEF OpToRel
<1>4. \A j \in Nat, k \in Nat : ~(j < k) => k <= j
  OBVIOUS
<1>. QED  BY <1>2, <1>3, <1>4, Zenon

-----------------------------------------------------------------------------
(* The order of the members is one place for each.                          *)
LEMMA PlaceExists ==
  \E place \in [Members -> 1..Len(Order)] :
    \A m, n \in Members : CompareMultiSigSignerBytes(m, n) <=> place[m] < place[n]
<1>1. Len(Order) \in Nat /\ Order \in [1..Len(Order) -> Members] /\ DOMAIN Order = 1..Len(Order)
  BY OrderAssumption DEF OrderAssumption
<1>2. ToSet(Order) = {Order[i] : i \in 1..Len(Order)}
  BY <1>1 DEF ToSet
<1>3. \A m \in Members : \E i \in 1..Len(Order) : Order[i] = m
  BY <1>2, OrderAssumption DEF OrderAssumption
<1>4. Order \in Surjection(1..Len(Order), Members)
  BY <1>1, <1>3 DEF Surjection
<1>5. IsFiniteSet(1..Len(Order)) /\ Cardinality(1..Len(Order)) = Len(Order)
  BY <1>1, FS_Interval
<1>6. Order \in Injection(1..Len(Order), Members)
  BY <1>4, <1>5, FS_SurjSameCardinalityImpliesInj, OrderAssumption DEF OrderAssumption
<1>7. \A i, j \in 1..Len(Order) : Order[i] = Order[j] => i = j
  BY <1>6 DEF Injection, IsInjective
<1>8. PICK place : place = [m \in Members |-> CHOOSE i \in 1..Len(Order) : Order[i] = m]
  OBVIOUS
<1>9. \A m \in Members : place[m] \in 1..Len(Order) /\ Order[place[m]] = m
  BY <1>3, <1>8
<1>10. ASSUME NEW m \in Members, NEW n \in Members
       PROVE  CompareMultiSigSignerBytes(m, n) <=> place[m] < place[n]
  <2>1. CompareMultiSigSignerBytes(m, n) <=> \E i, j \in 1..Len(Order) : i < j /\ Order[i] = m /\ Order[j] = n
    BY <1>1 DEF CompareMultiSigSignerBytes
  <2>. QED  BY <2>1, <1>7, <1>9
<1>. QED  BY <1>8, <1>9, <1>10

(* Signers in the order of their bytes, each before the next one.           *)
Sorted(s) ==
  /\ s \in Seq(Members)
  /\ \A i \in 1..(Len(s) - 1) : CompareMultiSigSignerBytes(s[i], s[i + 1])

(* Of sorted signers each is before every later one.                        *)
LEMMA SortedThroughout ==
  ASSUME NEW s, Sorted(s), NEW place \in [Members -> 1..Len(Order)],
         \A m, n \in Members : CompareMultiSigSignerBytes(m, n) <=> place[m] < place[n],
         NEW i \in 1..Len(s), NEW j \in 1..Len(s), i < j
  PROVE  place[s[i]] < place[s[j]]
<1>1. Len(s) \in Nat /\ (\A k \in 1..Len(s) : s[k] \in Members /\ place[s[k]] \in Int)
  BY OrderAssumption DEF Sorted, OrderAssumption
<1>2. \A k \in 1..Len(s) : k + 1 \in 1..Len(s) => place[s[k]] < place[s[k + 1]]
  BY <1>1 DEF Sorted
<1>3. PICK T : T = {k \in (i + 1)..Len(s) : ~(place[s[i]] < place[s[k]])}
  OBVIOUS
<1>4. SUFFICES ASSUME T # {} PROVE FALSE
  BY <1>1, <1>3
<1>5a. T \subseteq Nat
  BY <1>1, <1>3
<1>5. PICK m \in T : \A k \in T : m <= k
  BY <1>4, <1>5a, LeastExists
<1>6. m \in (i + 1)..Len(s) /\ m \in Int /\ ~(place[s[i]] < place[s[m]])
  BY <1>1, <1>3, <1>5
<1>7. m # i + 1
  BY <1>2, <1>6
<1>8. m - 1 \in (i + 1)..Len(s) /\ m - 1 \notin T
  BY <1>1, <1>5, <1>6, <1>7
<1>9. place[s[i]] < place[s[m - 1]] /\ place[s[m - 1]] < place[s[(m - 1) + 1]]
  BY <1>1, <1>2, <1>3, <1>6, <1>8
<1>10. (m - 1) + 1 = m
  BY <1>6
<1>. QED  BY <1>1, <1>6, <1>8, <1>9, <1>10

(* Sorted signers are told by their set: the members alone decide the       *)
(* address, whatever order they were typed in.                              *)
LEMMA SortedOnce ==
  ASSUME NEW s, NEW t, Sorted(s), Sorted(t), ToSet(s) = ToSet(t)
  PROVE  s = t
<1>1. PICK place \in [Members -> 1..Len(Order)] :
        \A m, n \in Members : CompareMultiSigSignerBytes(m, n) <=> place[m] < place[n]
  BY PlaceExists
<1>2. /\ Len(s) \in Nat /\ DOMAIN s = 1..Len(s) /\ (\A k \in 1..Len(s) : s[k] \in Members)
      /\ Len(t) \in Nat /\ DOMAIN t = 1..Len(t) /\ (\A k \in 1..Len(t) : t[k] \in Members)
  BY DEF Sorted
<1>3. \A m \in Members : place[m] \in Int
  BY <1>1, OrderAssumption DEF OrderAssumption
<1>4. \A i, j \in 1..Len(s) : i < j => place[s[i]] < place[s[j]]
  BY <1>1, SortedThroughout
<1>5. \A i, j \in 1..Len(t) : i < j => place[t[i]] < place[t[j]]
  BY <1>1, SortedThroughout
<1>6. /\ \A i \in 1..Len(s) : \E j \in 1..Len(t) : t[j] = s[i]
      /\ \A i \in 1..Len(t) : \E j \in 1..Len(s) : s[j] = t[i]
  BY <1>2 DEF ToSet
<1>7. PICK T : T = {k \in 1..Len(s) : k \in 1..Len(t) /\ s[k] # t[k]}
  OBVIOUS
<1>8. T = {}
  <2>1. SUFFICES ASSUME T # {} PROVE FALSE
    OBVIOUS
  <2>2a. T \subseteq Nat
    BY <1>2, <1>7
  <2>2. PICK k \in T : \A j \in T : k <= j
    BY <2>1, <2>2a, LeastExists
  <2>3. k \in 1..Len(s) /\ k \in 1..Len(t) /\ s[k] # t[k] /\ k \in Int
    BY <1>2, <1>7, <2>2
  <2>4. \A j \in 1..Len(s) : j \in 1..Len(t) /\ j < k => s[j] = t[j]
    BY <1>2, <1>7, <2>2, <2>3
  <2>5. place[t[k]] < place[s[k]]
    <3>1. PICK j \in 1..Len(t) : t[j] = s[k]
      BY <1>6, <2>3
    <3>2. ~(j < k)
      <4>1. SUFFICES ASSUME j < k PROVE FALSE
        OBVIOUS
      <4>2. j \in 1..Len(s) /\ s[j] = t[j]
        BY <1>2, <2>3, <2>4, <4>1
      <4>3. place[s[j]] < place[s[k]] /\ s[j] = s[k] /\ s[k] \in Members
        BY <1>2, <1>4, <2>3, <3>1, <4>1, <4>2
      <4>. QED  BY <1>3, <4>3
    <3>3. k < j
      BY <1>2, <2>3, <3>1, <3>2
    <3>. QED  BY <1>5, <2>3, <3>1, <3>3
  <2>6. place[s[k]] < place[t[k]]
    <3>1. PICK j \in 1..Len(s) : s[j] = t[k]
      BY <1>6, <2>3
    <3>2. ~(j < k)
      <4>1. SUFFICES ASSUME j < k PROVE FALSE
        OBVIOUS
      <4>2. j \in 1..Len(t) /\ s[j] = t[j]
        BY <1>2, <2>3, <2>4, <4>1
      <4>3. place[t[j]] < place[t[k]] /\ t[j] = t[k] /\ t[k] \in Members
        BY <1>2, <1>5, <2>3, <3>1, <4>1, <4>2
      <4>. QED  BY <1>3, <4>3
    <3>3. k < j
      BY <1>2, <2>3, <3>1, <3>2
    <3>. QED  BY <1>4, <2>3, <3>1, <3>3
  <2>. QED  BY <1>2, <1>3, <2>3, <2>5, <2>6
<1>9. ~(Len(s) < Len(t))
  <2>1. SUFFICES ASSUME Len(s) < Len(t) PROVE FALSE
    OBVIOUS
  <2>2. Len(s) + 1 \in 1..Len(t)
    BY <1>2, <2>1
  <2>3. PICK j \in 1..Len(s) : s[j] = t[Len(s) + 1]
    BY <1>6, <2>2
  <2>4. j \in 1..Len(t) /\ j < Len(s) + 1 /\ t[j] = s[j]
    BY <1>2, <1>7, <1>8, <2>1, <2>3
  <2>. QED  BY <1>2, <1>3, <1>5, <2>2, <2>3, <2>4
<1>10. ~(Len(t) < Len(s))
  <2>1. SUFFICES ASSUME Len(t) < Len(s) PROVE FALSE
    OBVIOUS
  <2>2. Len(t) + 1 \in 1..Len(s)
    BY <1>2, <2>1
  <2>3. PICK j \in 1..Len(t) : t[j] = s[Len(t) + 1]
    BY <1>6, <2>2
  <2>4. j \in 1..Len(s) /\ j < Len(t) + 1 /\ s[j] = t[j]
    BY <1>2, <1>7, <1>8, <2>1, <2>3
  <2>. QED  BY <1>2, <1>3, <1>4, <2>2, <2>3, <2>4
<1>11. Len(s) = Len(t)
  <2>1. Len(s) \in Nat /\ Len(t) \in Nat
    BY <1>2
  <2>. QED  BY <1>9, <1>10, <2>1
<1>12. \A k \in 1..Len(s) : s[k] = t[k]
  BY <1>7, <1>8, <1>11
<1>. QED  BY <1>2, <1>11, <1>12 DEF Sorted

-----------------------------------------------------------------------------
(* A wallet of sorted signers, at the address of its configuration.         *)
WalletRight(w) ==
  LET c == Config(w.config.signers, w.config.quorum, w.config.nonce) IN
  Sorted(w.config.signers) /\ w = Wallet(c, c, w.origin)
WalletsRight ==
  /\ wallets = [m \in Members |-> wallets[m]]
  /\ \A m \in Members : WalletRight(wallets[m])

(* Signers that pass the check of a configuration are sorted members.       *)
LEMMA ValidSorted ==
  ASSUME NEW s, NEW n \in Nat, NEW f, s = [k \in 1..n |-> f[k]], NEW quorum, NEW nonce,
         ValidateMultiSigConfig(Config(s, quorum, nonce))
  PROVE  Sorted(s)
<1>1. PICK S : S = {f[k] : k \in 1..n}
  OBVIOUS
<1>2. s \in [1..n -> S]
  BY <1>1
<1>3. s \in Seq(S) /\ Len(s) = n
  BY <1>2
<1>4. Len(s) >= 2 /\ \A i \in 1..(Len(s) - 1) : CompareMultiSigSignerBytes(s[i], s[i + 1])
  BY DEF ValidateMultiSigConfig, Config
<1>5. \A i \in DOMAIN Order : Order[i] \in Members
  BY OrderAssumption DEF OrderAssumption
<1>6. \A m, k : CompareMultiSigSignerBytes(m, k) => m \in Members /\ k \in Members
  BY <1>5 DEF CompareMultiSigSignerBytes
<1>7. ASSUME NEW i \in 1..n PROVE s[i] \in Members
  <2>1. CASE i < n
    <3>1. i \in 1..(Len(s) - 1)
      BY <1>3, <2>1
    <3>. QED  BY <1>4, <1>6, <3>1
  <2>2. CASE ~(i < n)
    <3>1. i - 1 \in 1..(Len(s) - 1) /\ (i - 1) + 1 = i
      BY <1>3, <1>4, <2>2
    <3>. QED  BY <1>4, <1>6, <3>1
  <2>. QED  BY <2>1, <2>2
<1>8. s \in Seq(Members)
  BY <1>2, <1>7
<1>. QED  BY <1>4, <1>8 DEF Sorted

(* The signers of a configuration that passes are sorted, each named once.  *)
LEMMA CanonicalSorted ==
  ASSUME NEW signers, NEW n \in Nat, DOMAIN signers = 1..n, NEW quorum, NEW nonce,
         ValidateMultiSigConfig(Config(CanonicalizeMultiSigSigners(signers), quorum, nonce))
  PROVE  Sorted(CanonicalizeMultiSigSigners(signers))
<1>1. PICK s : s = CanonicalizeMultiSigSigners(signers)
  OBVIOUS
<1>2. s = [k \in 1..n |-> s[k]]
  BY <1>1 DEF CanonicalizeMultiSigSigners
<1>. QED  BY <1>1, <1>2, ValidSorted

(* What a member types is a list of members.                                *)
LEMMA TypedLists ==
  ASSUME NEW typed \in Typed
  PROVE  \E n \in Nat : DOMAIN typed = 1..n
<1>1. Cardinality(Members) \in Nat
  BY OrderAssumption DEF OrderAssumption
<1>2. PICK n \in 0..Cardinality(Members) : typed \in [1..n -> Members]
  BY DEF Typed, SeqOf
<1>. QED  BY <1>1, <1>2

(* Every way to set up a wallet makes a right one.                          *)
LEMMA SetUpRight ==
  ASSUME WalletsRight, NEW m \in Members, MultisigInit(m) \/ ImportFile(m) \/ ImportSigners(m)
  PROVE  WalletsRight'
<1>1. SUFFICES \E w : WalletRight(w) /\ wallets' = [wallets EXCEPT ![m] = w]
  <2>1. PICK w : WalletRight(w) /\ wallets' = [wallets EXCEPT ![m] = w]
    OBVIOUS
  <2>2. wallets' = [k \in Members |-> IF k = m THEN w ELSE wallets[k]]
    BY <2>1 DEF WalletsRight
  <2>. QED  BY <2>1, <2>2 DEF WalletsRight, WalletRight
<1>2. CASE MultisigInit(m)
  <2>1. PICK typed \in Typed, quorum \in {Quorum, Cardinality(Members) + 1}, nonce \in ConfigNonces :
          LET c == Config(CanonicalizeMultiSigSigners(typed), quorum, nonce) IN
          ValidateMultiSigConfig(c) /\ wallets' = [wallets EXCEPT ![m] = Wallet(c, c, "init")]
    BY <1>2 DEF MultisigInit, DeriveMultiSigAddress
  <2>2. Sorted(CanonicalizeMultiSigSigners(typed))
    BY <2>1, TypedLists, CanonicalSorted
  <2>. QED  BY <2>1, <2>2 DEF WalletRight, Wallet, Config
<1>3. CASE ImportFile(m)
  <2>1. PICK n \in Members : \E f \in Edited(ExportFile(n)) :
          LET c == Config(CanonicalizeMultiSigSigners(f.config.signers), f.config.quorum, f.config.nonce) IN
          ValidateMultiSigConfig(c) /\ c = f.fastAddress /\ wallets' = [wallets EXCEPT ![m] = Wallet(c, f.fastAddress, "file")]
    BY <1>3 DEF ImportFile, DeriveMultiSigAddress, AddressMatches
  <2>2. PICK f \in Edited(ExportFile(n)) :
          LET c == Config(CanonicalizeMultiSigSigners(f.config.signers), f.config.quorum, f.config.nonce) IN
          ValidateMultiSigConfig(c) /\ wallets' = [wallets EXCEPT ![m] = Wallet(c, c, "file")]
    BY <2>1
  <2>3. PICK s, q, k, o : Sorted(s) /\ wallets[n] = Wallet(Config(s, q, k), Config(s, q, k), o)
    BY DEF WalletsRight, WalletRight
  <2>4. PICK e : e = ExportFile(n)
    OBVIOUS
  <2>5. e.config = [signers |-> s, quorum |-> q, nonce |-> k] /\ e = [config |-> e.config, fastAddress |-> e.fastAddress]
    BY <2>3, <2>4 DEF ExportFile, Wallet, Config
  <2>6. f.config.signers = s \/ f.config.signers = Reverse(s)
    BY <2>2, <2>4, <2>5 DEF Edited
  <2>7. Len(s) \in Nat /\ DOMAIN s = 1..Len(s) /\ DOMAIN Reverse(s) = 1..Len(s)
    BY <2>3 DEF Sorted, Reverse
  <2>8. Sorted(CanonicalizeMultiSigSigners(f.config.signers))
    BY <2>2, <2>6, <2>7, CanonicalSorted
  <2>. QED  BY <2>2, <2>8 DEF WalletRight, Wallet, Config
<1>4. CASE ImportSigners(m)
  <2>1. PICK typed \in Typed, quorum \in {1, Quorum}, nonce \in ConfigNonces :
          LET c == Config(CanonicalizeMultiSigSigners(typed), quorum, nonce) IN
          ValidateMultiSigConfig(c) /\ wallets' = [wallets EXCEPT ![m] = Wallet(c, c, "signers")]
    BY <1>4 DEF ImportSigners, DeriveMultiSigAddress
  <2>2. Sorted(CanonicalizeMultiSigSigners(typed))
    BY <2>1, TypedLists, CanonicalSorted
  <2>. QED  BY <2>1, <2>2 DEF WalletRight, Wallet, Config
<1>. QED  BY <1>2, <1>3, <1>4

(* Right wallets agree.                                                     *)
LEMMA RightWalletsAgree ==
  ASSUME WalletsRight
  PROVE  WalletsAgree
<1>1. SUFFICES ASSUME NEW m \in Members, NEW n \in Members
               PROVE  LET w == wallets[m]  v == wallets[n] IN
                      /\ w # NoWallet => w.fastAddress = DeriveMultiSigAddress(w.config)
                      /\ w # NoWallet /\ v # NoWallet =>
                           (w.fastAddress = v.fastAddress <=>
                              /\ ToSet(w.config.signers) = ToSet(v.config.signers)
                              /\ w.config.quorum = v.config.quorum
                              /\ w.config.nonce = v.config.nonce)
  BY DEF WalletsAgree
<1>2. PICK s, q, k, o : Sorted(s) /\ wallets[m] = Wallet(Config(s, q, k), Config(s, q, k), o)
  BY DEF WalletsRight, WalletRight
<1>3. PICK t, p, l, u : Sorted(t) /\ wallets[n] = Wallet(Config(t, p, l), Config(t, p, l), u)
  BY DEF WalletsRight, WalletRight
<1>4. /\ wallets[m].config = Config(s, q, k) /\ wallets[m].fastAddress = Config(s, q, k)
      /\ wallets[m].config.signers = s /\ wallets[m].config.quorum = q /\ wallets[m].config.nonce = k
  BY <1>2 DEF Wallet, Config
<1>5. /\ wallets[n].fastAddress = Config(t, p, l)
      /\ wallets[n].config.signers = t /\ wallets[n].config.quorum = p /\ wallets[n].config.nonce = l
  BY <1>3 DEF Wallet, Config
<1>6. ToSet(s) = ToSet(t) <=> s = t
  BY <1>2, <1>3, SortedOnce
<1>7. Config(s, q, k) = Config(t, p, l) <=> s = t /\ q = p /\ k = l
  BY DEF Config
<1>. QED  BY <1>4, <1>5, <1>6, <1>7 DEF DeriveMultiSigAddress

-----------------------------------------------------------------------------
(* A command in progress, and what it has seen and built.                   *)
CommandFields == {"in", "pc", "command", "m", "sender", "kind", "replace", "nonce", "update", "tx", "seen", "approved", "id"}
NetFields == {"next", "proposals", "waiting", "txs", "taken", "update", "minters", "bridged", "arrived"}
IsCommand(c) ==
  /\ c = [f \in CommandFields |-> c[f]]
  /\ c.in = "fast" /\ c.m \in Members /\ c.sender \in {c.m, Shared}
Fast == {a \in Actors : at[a].in = "fast"}

(* A wait for a payment.                                                    *)
WaitFields == {"in", "pc", "sinceNs", "deadline", "wake", "floor", "lastFull", "err", "began", "full", "present", "bound",
               "cursor", "newest", "first", "best"}
IsWait(c) == c.in = "wait" /\ c.pc \in {"sleep", "scan", "confirm"} /\ c = [f \in WaitFields |-> c[f]]

(* The variables have their shapes.                                         *)
Shapes ==
  /\ ops \in Nat /\ ops <= MaxOps /\ faults \in Nat
  /\ at = [a \in Actors |-> at[a]]
  /\ \A a \in Actors : at[a] = Idle \/ IsWait(at[a]) \/ IsCommand(at[a])
  /\ net = [f \in NetFields |-> net[f]]
  /\ told = [op \in 1..MaxOps |-> told[op]]
  /\ \A op \in 1..MaxOps : told[op] = [result |-> told[op].result, tx |-> told[op].tx]
  /\ history = [m \in Members |-> history[m]]
  /\ \A m \in Members : \A r \in history[m] : r = MakeHistoryEntry(r.hash, r.kind, r.status)

(* Every transaction there is: on the network, seen or built by a command.  *)
AllTx == {NoTx} \cup net.txs \cup net.waiting \cup Held \cup UNION {at[a].seen \cup {at[a].tx} : a \in Fast}

(* A command that has not built its transaction; those that never will.     *)
Builds(c) == c.command \in {"operation", "prepare"} /\ c.pc # "record"
Spends(c) == c.command \in {"operation", "prepare", "transfer"} /\ c.pc # "record"

(* Commands have numbers of their own.                                      *)
Numbers ==
  /\ \A a \in Fast : at[a].id \in 1..ops
  /\ \A a, b \in Fast : at[a].id = at[b].id => a = b
  /\ \A op \in 1..MaxOps : op > ops => told[op].result = "none"
  /\ \A i \in net.taken \cup net.bridged : i \in Nat /\ i <= ops

(* A command in progress has told nothing but the doubt about an earlier     *)
(* submission, and is not taken until it has submitted.                     *)
Silent ==
  \A a \in Fast :
    LET c == at[a] IN
    /\ told[c.id].result = "none" \/ (told[c.id].result = "unknown" /\ c.command = "submitPrepared")
    /\ c.pc # "record" /\ told[c.id].result = "none" => c.id \notin net.taken

(* A transaction is known by the number of the command that built it, and   *)
(* no transfer has that number.                                             *)
TxsRight ==
  /\ \A x \in AllTx : x.id \in Nat /\ x.id <= ops /\ x.kind \notin Routes /\ x.id \notin net.bridged
  /\ \A x, y \in AllTx : x.id = y.id => x = y
  /\ \A a \in Fast : Spends(at[a]) => \A x \in AllTx : x.id # at[a].id
  /\ \A a \in Fast : Builds(at[a]) => at[a].id \notin net.bridged

(* Each step belongs to a command, and knows what the ones before it read.  *)
StagesRight(c) ==
  /\ c.pc \in {"metadata", "account", "proposals"} => c.command = "operation"
  /\ c.pc \in {"list", "listed", "pending", "info"} => c.command = "vote"
  /\ c.pc \in {"fetch", "fetchPending", "fetchAccount"} => c.command \in {"prepare", "submitPrepared", "sdkVote"}
  /\ c.pc \in {"bridge", "bridged"} => c.command = "transfer"
  /\ c.pc \in {"rows", "portal", "update"} => c.command = "history"
  /\ c.pc \in {"submit", "record"} => c.command \in {"operation", "vote", "submitPrepared", "sdkVote"}
  /\ Builds(c) => c.kind \notin Routes
  /\ c.command = "transfer" => c.kind \in Routes \ {"fast"}
CommandRight(c) ==
  /\ StagesRight(c)
  /\ c.pc = "record" => c.tx \in net.txs /\ (c.command = "operation" => c.tx.kind = c.kind)
  /\ c.pc = "bridged" => c.id \in net.bridged
  /\ c.pc = "update" => c.update \in net.arrived
  /\ c.pc = "submit" /\ c.command = "operation" /\ c.sender = Shared =>
       \A x \in c.seen : x.nonce = c.nonce => c.replace
  /\ c.pc = "submit" /\ c.command = "submitPrepared" =>
       /\ c.tx.nonce = c.nonce
       /\ \A x \in c.seen : x.nonce = c.nonce /\ x # c.tx => x.id \in c.approved
CommandsRight == \A a \in Fast : CommandRight(at[a])

FastRight ==
  Shapes /\ Numbers /\ Silent /\ TxsRight /\ CommandsRight /\ OutcomeTruthful /\ HistoryTruthful

(* What a command tells is so.                                              *)
Truthful(op, t) ==
  /\ t.result \in {"success", "unrecorded", "submitted"} => t.tx \in net.txs
  /\ t.result = "incomplete" => op \in net.taken
  /\ t.result = "waiting" => t.tx \in net.txs \cup net.waiting
  /\ t.result = "failed" => op \notin net.taken
SilentOf(c) ==
  /\ told[c.id].result = "none" \/ (told[c.id].result = "unknown" /\ c.command = "submitPrepared")
  /\ c.pc # "record" /\ told[c.id].result = "none" => c.id \notin net.taken

-----------------------------------------------------------------------------
(* What a step of command i may do to the network, with transaction x.      *)
NetGrows(i, x) ==
  /\ net' = [f \in NetFields |-> net'[f]]
  /\ net.txs \subseteq net'.txs /\ net.arrived \subseteq net'.arrived
  /\ net.waiting \subseteq net'.waiting \cup net'.txs
  /\ net.taken \subseteq net'.taken /\ net'.taken \subseteq net.taken \cup {i}
  /\ net.bridged \subseteq net'.bridged /\ net'.bridged \subseteq net.bridged \cup {i}
  /\ net'.txs \cup net'.waiting \cup Held' \subseteq AllTx \cup {x}

(* A step of a command that leaves it at s (or ends it), perhaps with a new  *)
(* transaction x, and tells o.                                              *)
CommandStep(a, s, x, o) ==
  LET c == at[a] IN
  /\ a \in Fast
  /\ at' = [at EXCEPT ![a] = s] /\ ops' = ops /\ faults' \in {faults, faults + 1}
  /\ told' = [told EXCEPT ![c.id] = o]
  /\ NetGrows(c.id, x) /\ (net'.bridged = net.bridged \/ c.command = "transfer")
  /\ x \in AllTx \/ (Builds(c) /\ x.id = c.id /\ x.kind = c.kind)
  /\ \A i : i = c.id => Truthful(i, o)'
  /\ s = Idle \/ (/\ IsCommand(s) /\ s.id = c.id /\ s.seen \subseteq AllTx /\ s.tx \in AllTx \cup {x}
                  /\ Spends(s) => Spends(c) /\ x \in AllTx
                  /\ Builds(s) => Builds(c)
                  /\ CommandRight(s)' /\ SilentOf(s)')

(* The transactions there are, one by one.                                  *)
LEMMA AllTxMembers ==
  ASSUME NEW x
  PROVE  x \in AllTx <=> \/ x = NoTx \/ x \in net.txs \/ x \in net.waiting \/ x \in Held
                         \/ \E a \in Fast : x \in at[a].seen \/ x = at[a].tx
BY DEF AllTx

(* Who is at work after a step of a.                                        *)
LEMMA FastAfter ==
  ASSUME Shapes, NEW a \in Fast, NEW s, at' = [at EXCEPT ![a] = s], s = Idle \/ IsCommand(s)
  PROVE  /\ \A b \in Fast' : b \in Fast /\ at'[b] = IF b = a THEN s ELSE at[b]
         /\ (a \in Fast' => s # Idle)
         /\ at' = [b \in Actors |-> at'[b]]
         /\ \A b \in Actors : at'[b] = IF b = a THEN s ELSE at[b]
<1>1. a \in Actors /\ (\A b \in Actors : at'[b] = IF b = a THEN s ELSE at[b]) /\ at' = [b \in Actors |-> at'[b]]
  BY DEF Shapes, Fast
<1>2. Idle.in # "fast"
  BY DEF Idle
<1>3. Fast' = {b \in Actors : at'[b].in = "fast"}
  BY DEF Fast
<1>. QED  BY <1>1, <1>2, <1>3 DEF Fast

(* The only transaction a step can add is the one it names.                 *)
LEMMA StepTxs ==
  ASSUME FastRight, NEW a, NEW s, NEW x, NEW o, CommandStep(a, s, x, o)
  PROVE  AllTx' \subseteq AllTx \cup {x}
<1>1. a \in Fast /\ at' = [at EXCEPT ![a] = s] /\ Shapes /\ (s = Idle \/ IsCommand(s))
  BY DEF CommandStep, FastRight
<1>2. SUFFICES ASSUME NEW y \in AllTx' PROVE y \in AllTx \cup {x}
  OBVIOUS
<1>3. \/ y = NoTx \/ y \in net'.txs \/ y \in net'.waiting \/ y \in Held'
      \/ \E b \in Fast' : y \in at'[b].seen \/ y = at'[b].tx
  BY <1>2 DEF AllTx
<1>4. NoTx \in AllTx /\ \A b \in Fast : at[b].tx \in AllTx /\ at[b].seen \subseteq AllTx
  BY DEF AllTx
<1>5a. (\A b \in Fast' : b \in Fast /\ at'[b] = IF b = a THEN s ELSE at[b]) /\ (a \in Fast' => s # Idle)
  BY <1>1, FastAfter, ZenonT(40)
<1>5. CASE \E b \in Fast' : y \in at'[b].seen \/ y = at'[b].tx
  <2>1. PICK b \in Fast' : y \in at'[b].seen \/ y = at'[b].tx
    BY <1>5
  <2>2. b \in Fast /\ at'[b] = (IF b = a THEN s ELSE at[b]) /\ (b = a => s # Idle)
    BY <1>5a, <2>1
  <2>3. s # Idle => s.seen \subseteq AllTx /\ s.tx \in AllTx \cup {x}
    BY DEF CommandStep
  <2>. QED  BY <1>4, <2>1, <2>2, <2>3
<1>. QED  BY <1>3, <1>4, <1>5 DEF CommandStep, NetGrows

(* A step keeps the numbers, the transactions and what each command knows.  *)
LEMMA StepShapes ==
  ASSUME FastRight, NEW a, NEW s, NEW x, NEW o, CommandStep(a, s, x, o),
         o = [result |-> o.result, tx |-> o.tx]
  PROVE  /\ ops' \in Nat /\ ops' <= MaxOps /\ faults' \in Nat
         /\ at' = [b \in Actors |-> at'[b]]
         /\ \A b \in Actors : at'[b] = Idle \/ IsWait(at'[b]) \/ IsCommand(at'[b])
         /\ net' = [f \in NetFields |-> net'[f]]
         /\ told' = [op \in 1..MaxOps |-> told'[op]]
         /\ \A op \in 1..MaxOps : told'[op] = IF op = at[a].id THEN o ELSE told[op]
         /\ at[a].id \in 1..MaxOps /\ at[a].id <= ops
<1>1. a \in Fast /\ at' = [at EXCEPT ![a] = s] /\ Shapes /\ (s = Idle \/ IsCommand(s))
  BY DEF CommandStep, FastRight
<1>2. at' = [b \in Actors |-> at'[b]] /\ \A b \in Actors : at'[b] = IF b = a THEN s ELSE at[b]
  BY <1>1, FastAfter, ZenonT(40)
<1>3. \A b \in Actors : at'[b] = Idle \/ IsWait(at'[b]) \/ IsCommand(at'[b])
  BY <1>1, <1>2 DEF Shapes
<1>4. ops' \in Nat /\ ops' <= MaxOps /\ faults' \in Nat
  BY <1>1 DEF CommandStep, Shapes
<1>5. at[a].id \in 1..ops
  BY <1>1 DEF FastRight, Numbers
<1>6. at[a].id \in 1..MaxOps /\ at[a].id <= ops
  BY <1>1, <1>5, ActivityBounds DEF Shapes, ActivityBounds
<1>7. /\ told' = [op \in 1..MaxOps |-> told'[op]]
      /\ \A op \in 1..MaxOps : told'[op] = IF op = at[a].id THEN o ELSE told[op]
  <2>1. told' = [told EXCEPT ![at[a].id] = o] /\ told = [op \in 1..MaxOps |-> told[op]]
    BY <1>1 DEF CommandStep, Shapes
  <2>. QED  BY <1>6, <2>1
<1>8. net' = [f \in NetFields |-> net'[f]]
  BY DEF CommandStep, NetGrows
<1>. QED  BY <1>2, <1>3, <1>4, <1>6, <1>7, <1>8

(* The activities stay numbered, and those that have not ended tell nothing.*)
LEMMA StepNumbers ==
  ASSUME FastRight, NEW a, NEW s, NEW x, NEW o, CommandStep(a, s, x, o),
         o = [result |-> o.result, tx |-> o.tx]
  PROVE  Numbers' /\ Silent'
<1>1. a \in Fast /\ at' = [at EXCEPT ![a] = s] /\ Shapes /\ (s = Idle \/ IsCommand(s))
  BY DEF CommandStep, FastRight
<1>2. (\A b \in Fast' : b \in Fast /\ at'[b] = IF b = a THEN s ELSE at[b]) /\ (a \in Fast' => s # Idle)
  BY <1>1, FastAfter, ZenonT(40)
<1>3. (s # Idle => s.id = at[a].id /\ SilentOf(s)') /\ ops' = ops
  BY DEF CommandStep
<1>4. \A b \in Fast' : b \in Fast /\ at'[b].id = at[b].id
  BY <1>2, <1>3
<1>5. /\ \A op \in 1..MaxOps : told'[op] = IF op = at[a].id THEN o ELSE told[op]
      /\ at[a].id \in 1..MaxOps /\ at[a].id <= ops
  BY StepShapes
<1>6. net'.taken \subseteq net.taken \cup {at[a].id} /\ net'.bridged \subseteq net.bridged \cup {at[a].id}
  BY DEF CommandStep, NetGrows
<1>7. /\ \A b \in Fast : at[b].id \in 1..ops
      /\ \A b, c \in Fast : at[b].id = at[c].id => b = c
      /\ \A op \in 1..MaxOps : op > ops => told[op].result = "none"
      /\ \A i \in net.taken \cup net.bridged : i \in Nat /\ i <= ops
  BY DEF FastRight, Numbers
<1>8. Numbers'
  <2>1. \A b \in Fast' : at'[b].id \in 1..ops'
    BY <1>3, <1>4, <1>7
  <2>2. \A b, c \in Fast' : at'[b].id = at'[c].id => b = c
    BY <1>4, <1>7
  <2>3. \A op \in 1..MaxOps : op > ops' => told'[op].result = "none"
    BY <1>1, <1>3, <1>5, <1>7 DEF Shapes
  <2>4. \A i \in net'.taken \cup net'.bridged : i \in Nat /\ i <= ops'
    BY <1>3, <1>5, <1>6, <1>7
  <2>. QED  BY <2>1, <2>2, <2>3, <2>4 DEF Numbers
<1>9. \A b \in Fast' : \A c : c = at'[b] => SilentOf(c)'
  <2>0. TAKE b \in Fast'
  <2>1. TAKE c
  <2>4. HAVE c = at'[b]
  <2>2. CASE b = a
    BY <1>2, <1>3, <2>2, <2>4
  <2>3. CASE b # a
    <3>1. b \in Fast /\ at'[b] = at[b] /\ at[b].id # at[a].id
      BY <1>1, <1>2, <1>7, <2>3
    <3>2. at[b].id \in 1..MaxOps
      <4>1. at[b].id \in 1..ops /\ ops \in Nat /\ ops <= MaxOps /\ MaxOps \in Nat
        BY <1>1, <1>7, <3>1, ActivityBounds DEF Shapes, ActivityBounds
      <4>. QED  BY <4>1
    <3>3. told'[at[b].id] = told[at[b].id] /\ (at[b].id \in net'.taken => at[b].id \in net.taken)
      BY <1>5, <1>6, <3>1, <3>2
    <3>4. SilentOf(c) /\ c.id = at[b].id
      BY <2>4, <3>1 DEF FastRight, Silent, SilentOf
    <3>. QED  BY <3>3, <3>4 DEF SilentOf
  <2>. QED  BY <2>2, <2>3
<1>. QED  BY <1>8, <1>9 DEF Silent, SilentOf

(* Two transactions of one activity are one, and of its kind.               *)
LEMMA StepTxsRight ==
  ASSUME FastRight, NEW a, NEW s, NEW x, NEW o, CommandStep(a, s, x, o)
  PROVE  TxsRight'
<1>1. a \in Fast /\ at' = [at EXCEPT ![a] = s] /\ Shapes /\ (s = Idle \/ IsCommand(s))
  BY DEF CommandStep, FastRight
<1>2. (\A b \in Fast' : b \in Fast /\ at'[b] = IF b = a THEN s ELSE at[b]) /\ (a \in Fast' => s # Idle)
  BY <1>1, FastAfter, ZenonT(40)
<1>3. ops' = ops /\ ops \in Nat /\ net'.bridged \subseteq net.bridged \cup {at[a].id}
      /\ (net'.bridged = net.bridged \/ at[a].command = "transfer")
  BY <1>1 DEF CommandStep, NetGrows, Shapes
<1>4. /\ \A b \in Fast : at[b].id \in 1..ops
      /\ \A b, c \in Fast : at[b].id = at[c].id => b = c
  BY DEF FastRight, Numbers
<1>5. /\ \A y \in AllTx : y.id \in Nat /\ y.id <= ops /\ y.kind \notin Routes /\ y.id \notin net.bridged
      /\ \A y, z \in AllTx : y.id = z.id => y = z
      /\ \A b \in Fast : Spends(at[b]) => \A y \in AllTx : y.id # at[b].id
      /\ \A b \in Fast : Builds(at[b]) => at[b].id \notin net.bridged
  BY DEF FastRight, TxsRight
<1>6. AllTx' \subseteq AllTx \cup {x}
  BY StepTxs
<1>7. StagesRight(at[a])
  BY <1>1 DEF FastRight, CommandsRight, CommandRight
<1>8. at[a].command = "transfer" => Spends(at[a]) /\ ~Builds(at[a])
  BY <1>7 DEF StagesRight, Spends, Builds
<1>9. Builds(at[a]) => Spends(at[a]) /\ at[a].kind \notin Routes
  BY <1>7 DEF StagesRight, Spends, Builds
<1>10. x \in AllTx \/ (Builds(at[a]) /\ x.id = at[a].id /\ x.kind = at[a].kind)
  BY DEF CommandStep
<1>11. s # Idle => s.id = at[a].id /\ (Spends(s) => Spends(at[a]) /\ x \in AllTx) /\ (Builds(s) => Builds(at[a]))
  BY DEF CommandStep
<1>12. ASSUME NEW y \in AllTx' PROVE y.id \in Nat /\ y.id <= ops /\ y.kind \notin Routes /\ y.id \notin net'.bridged
  <2>1. CASE y \in AllTx
    <3>1. y.id # at[a].id \/ at[a].command # "transfer"
      BY <1>1, <1>5, <1>8, <2>1
    <3>. QED  BY <1>3, <1>5, <2>1, <3>1
  <2>2. CASE y \notin AllTx
    <3>1. y = x /\ Builds(at[a]) /\ x.id = at[a].id /\ x.kind = at[a].kind
      BY <1>6, <1>10, <2>2
    <3>2. at[a].id \in 1..ops /\ at[a].id \notin net.bridged /\ at[a].kind \notin Routes /\ net'.bridged = net.bridged
      BY <1>1, <1>3, <1>4, <1>5, <1>8, <1>9, <3>1
    <3>. QED  BY <1>3, <3>1, <3>2
  <2>. QED  BY <2>1, <2>2
<1>13. ASSUME NEW y \in AllTx', NEW z \in AllTx', y.id = z.id PROVE y = z
  <2>1. CASE y \in AllTx /\ z \in AllTx
    BY <1>5, <1>13, <2>1
  <2>2. CASE y \notin AllTx /\ z \notin AllTx
    BY <1>6, <2>2
  <2>3. CASE y \in AllTx /\ z \notin AllTx
    <3>1. z = x /\ Spends(at[a]) /\ x.id = at[a].id
      BY <1>6, <1>9, <1>10, <2>3
    <3>. QED  BY <1>1, <1>5, <1>13, <2>3, <3>1
  <2>4. CASE y \notin AllTx /\ z \in AllTx
    <3>1. y = x /\ Spends(at[a]) /\ x.id = at[a].id
      BY <1>6, <1>9, <1>10, <2>4
    <3>. QED  BY <1>1, <1>5, <1>13, <2>4, <3>1
  <2>. QED  BY <2>1, <2>2, <2>3, <2>4
<1>14. ASSUME NEW b \in Fast', Spends(at'[b]), NEW y \in AllTx' PROVE y.id # at'[b].id
  <2>1. CASE b = a
    <3>1. s # Idle /\ at'[b] = s /\ Spends(s)
      BY <1>2, <1>14, <2>1
    <3>2. y \in AllTx /\ Spends(at[a]) /\ s.id = at[a].id
      BY <1>6, <1>11, <3>1
    <3>. QED  BY <1>1, <1>5, <3>1, <3>2
  <2>2. CASE b # a
    <3>1. b \in Fast /\ at'[b] = at[b] /\ at[b].id # at[a].id
      BY <1>1, <1>2, <1>4, <2>2
    <3>2. y \in AllTx => y.id # at[b].id
      BY <1>5, <1>14, <3>1
    <3>3. y \notin AllTx => y.id = at[a].id
      BY <1>6, <1>10
    <3>. QED  BY <3>1, <3>2, <3>3
  <2>. QED  BY <2>1, <2>2
<1>15. ASSUME NEW b \in Fast', Builds(at'[b]) PROVE at'[b].id \notin net'.bridged
  <2>1. CASE b = a
    <3>1. s # Idle /\ at'[b] = s /\ Builds(s)
      BY <1>2, <1>15, <2>1
    <3>2. Builds(at[a]) /\ s.id = at[a].id /\ net'.bridged = net.bridged
      BY <1>3, <1>8, <1>11, <3>1
    <3>. QED  BY <1>1, <1>5, <3>1, <3>2
  <2>2. CASE b # a
    <3>1. b \in Fast /\ at'[b] = at[b] /\ at[b].id # at[a].id
      BY <1>1, <1>2, <1>4, <2>2
    <3>. QED  BY <1>3, <1>5, <1>15, <3>1
  <2>. QED  BY <2>1, <2>2
<1>. QED  BY <1>3, <1>12, <1>13, <1>14, <1>15 DEF TxsRight, Spends, Builds

(* The command that steps is right by the step, the others as before.       *)
LEMMA StepCommands ==
  ASSUME FastRight, NEW a, NEW s, NEW x, NEW o, CommandStep(a, s, x, o)
  PROVE  CommandsRight'
<1>1. a \in Fast /\ at' = [at EXCEPT ![a] = s] /\ Shapes /\ (s = Idle \/ IsCommand(s))
  BY DEF CommandStep, FastRight
<1>2. (\A b \in Fast' : b \in Fast /\ at'[b] = IF b = a THEN s ELSE at[b]) /\ (a \in Fast' => s # Idle)
  BY <1>1, FastAfter, ZenonT(40)
<1>3. s # Idle => CommandRight(s)'
  BY DEF CommandStep
<1>4. net.txs \subseteq net'.txs /\ net.arrived \subseteq net'.arrived /\ net.bridged \subseteq net'.bridged
  BY DEF CommandStep, NetGrows
<1>5. SUFFICES \A b \in Fast' : \A c : c = at'[b] => CommandRight(c)'
  BY DEF CommandsRight
<1>6. TAKE b \in Fast'
<1>7. TAKE c
<1>8. HAVE c = at'[b]
<1>9. CASE b = a
  BY <1>2, <1>3, <1>8, <1>9
<1>10. CASE b # a
  <2>1. c = at[b] /\ b \in Fast
    BY <1>2, <1>8, <1>10
  <2>2. CommandRight(c)
    BY <2>1 DEF FastRight, CommandsRight
  <2>. QED  BY <1>4, <2>2 DEF CommandRight
<1>. QED  BY <1>9, <1>10

(* What a command tells holds when it tells it, and stays true.             *)
LEMMA StepOutcomes ==
  ASSUME FastRight, NEW a, NEW s, NEW x, NEW o, CommandStep(a, s, x, o),
         o = [result |-> o.result, tx |-> o.tx]
  PROVE  OutcomeTruthful'
<1>1. /\ \A op \in 1..MaxOps : told'[op] = IF op = at[a].id THEN o ELSE told[op]
      /\ at[a].id \in 1..MaxOps
  BY StepShapes
<1>2. \A i : i = at[a].id => Truthful(i, o)'
  BY DEF CommandStep
<1>3. /\ net.txs \subseteq net'.txs /\ net.waiting \subseteq net'.waiting \cup net'.txs
      /\ net.taken \subseteq net'.taken /\ net'.taken \subseteq net.taken \cup {at[a].id}
  BY DEF CommandStep, NetGrows
<1>4. \A op \in 1..MaxOps : \A t : t = told'[op] => Truthful(op, t)'
  <2>0. TAKE op \in 1..MaxOps
  <2>1. TAKE t
  <2>2. HAVE t = told'[op]
  <2>3. CASE op = at[a].id
    BY <1>1, <1>2, <2>2, <2>3
  <2>4. CASE op # at[a].id
    <3>1. t = told[op]
      BY <1>1, <2>2, <2>4
    <3>2. Truthful(op, t)
      BY <3>1 DEF FastRight, OutcomeTruthful, Truthful
    <3>. QED  BY <1>3, <2>4, <3>2 DEF Truthful
  <2>. QED  BY <2>3, <2>4
<1>. QED  BY <1>4 DEF OutcomeTruthful, Truthful

-----------------------------------------------------------------------------
(* What is recorded, and that what is told as done is recorded.             *)
RowRight(r) ==
  \/ r.kind \notin Routes /\ \E tx \in net.txs : tx.id = r.hash /\ tx.kind = r.kind
  \/ r.kind \in Routes /\ r.hash \in net.bridged /\ (r.status = "confirmed" => r.hash \in net.arrived)
Recorded(op, t) ==
  /\ t.result = "success" /\ t.tx.kind \in RecordedKinds =>
       \E m \in Members : MakeVoteHistoryEntry(t.tx) \in history[m]
  /\ t.result = "transferred" => \E m \in Members : \E r \in history[m] : r.hash = op
HistoryRight ==
  /\ \A m \in Members : \A r \in history[m] : RowRight(r)
  /\ \A op \in 1..MaxOps : Recorded(op, told[op])

(* The table, a row at a time.                                              *)
LEMMA HistoryForm == HistoryTruthful <=> HistoryRight
<1>1. \A r : (r \in UNION {history[m] : m \in Members}) <=> \E m \in Members : r \in history[m]
  OBVIOUS
<1>2. (\A m \in Members : \A r \in history[m] : RowRight(r))
        <=> \A r \in UNION {history[m] : m \in Members} : RowRight(r)
  BY <1>1
<1>3. \A op, t : Recorded(op, t) <=>
        /\ t.result = "success" /\ t.tx.kind \in RecordedKinds =>
             MakeVoteHistoryEntry(t.tx) \in UNION {history[m] : m \in Members}
        /\ t.result = "transferred" => \E r \in UNION {history[m] : m \in Members} : r.hash = op
  BY <1>1 DEF Recorded
<1>. QED  BY <1>2, <1>3 DEF HistoryTruthful, HistoryRight, RowRight

(* A step that records nothing, and tells of nothing done.                  *)
LEMMA StepHistory ==
  ASSUME FastRight, NEW a, NEW s, NEW x, NEW o, CommandStep(a, s, x, o),
         o = [result |-> o.result, tx |-> o.tx],
         UNCHANGED history, o.result \notin {"success", "transferred"}
  PROVE  HistoryTruthful' /\ Shapes'
<1>1. HistoryRight /\ Shapes
  BY HistoryForm DEF FastRight
<1>2. net.txs \subseteq net'.txs /\ net.arrived \subseteq net'.arrived /\ net.bridged \subseteq net'.bridged
      /\ net'.bridged \subseteq net.bridged \cup {at[a].id}
  BY DEF CommandStep, NetGrows
<1>3. \A op \in 1..MaxOps : told'[op] = IF op = at[a].id THEN o ELSE told[op]
  BY StepShapes
<1>5. \A r : RowRight(r) => RowRight(r)'
  BY <1>2 DEF RowRight
<1>6. \A op, t : Recorded(op, t) => Recorded(op, t)'
  BY DEF Recorded
<1>7. \A op \in 1..MaxOps : \A t : t = told'[op] /\ (t = told[op] => Recorded(op, t)) => Recorded(op, t)'
  <2>0. TAKE op \in 1..MaxOps
  <2>1. TAKE t
  <2>2. HAVE t = told'[op] /\ (t = told[op] => Recorded(op, t))
  <2>3. CASE t = told[op]
    BY <1>6, <2>2, <2>3
  <2>4. CASE t = o
    BY <2>4 DEF Recorded
  <2>. QED  BY <1>3, <2>2, <2>3, <2>4
<1>8. HistoryRight'
  BY <1>1, <1>5, <1>7 DEF HistoryRight
<1>9. /\ history' = [m \in Members |-> history'[m]]
      /\ \A m \in Members : \A r \in history'[m] : r = MakeHistoryEntry(r.hash, r.kind, r.status)
  BY <1>1 DEF Shapes
<1>10a. \A op \in 1..MaxOps : told'[op] = [result |-> told'[op].result, tx |-> told'[op].tx]
  BY <1>1, <1>3 DEF Shapes
<1>10. Shapes'
  BY <1>9, <1>10a, StepShapes DEF Shapes, MakeHistoryEntry, IsCommand, IsWait, Idle
<1>11. HistoryTruthful'
  BY <1>8, HistoryForm, PTL
<1>. QED  BY <1>10, <1>11

(* A step that records nothing keeps everything.                            *)
LEMMA StepKeeps ==
  ASSUME FastRight, NEW a, NEW s, NEW x, NEW o, CommandStep(a, s, x, o),
         o = [result |-> o.result, tx |-> o.tx],
         UNCHANGED history, o.result \notin {"success", "transferred"}
  PROVE  FastRight'
BY StepHistory, StepNumbers, StepTxsRight, StepCommands, StepOutcomes DEF FastRight

-----------------------------------------------------------------------------
(* The starts of commands.                                                  *)
Starts(a, s) ==
  /\ a \in Actors /\ at[a] = Idle /\ ops < MaxOps /\ ops' = ops + 1 /\ faults' = faults
  /\ at' = [at EXCEPT ![a] = s] /\ UNCHANGED <<net, told, history>>
  /\ IsCommand(s) /\ s.id = ops + 1 /\ s.seen = {} /\ s.tx = NoTx
  /\ StagesRight(s) /\ s.pc \notin {"record", "bridged", "update", "submit"}

(* A command that starts has a number of its own and has built nothing.     *)
LEMMA StartKeeps ==
  ASSUME FastRight, NEW a, NEW s, Starts(a, s)
  PROVE  FastRight'
<1>1. Shapes /\ Numbers /\ Silent /\ TxsRight /\ CommandsRight /\ OutcomeTruthful /\ HistoryTruthful
  BY DEF FastRight
<1>2. a \in Actors /\ a \notin Fast /\ (\A b \in Actors : at'[b] = IF b = a THEN s ELSE at[b]) /\ at' = [b \in Actors |-> at'[b]]
  BY <1>1 DEF Starts, Shapes, Fast, Idle
<1>3. s.in = "fast" /\ s.id = ops + 1 /\ ops \in Nat /\ ops' = ops + 1
  BY <1>1 DEF Starts, IsCommand, Shapes
<1>4. \A b \in Actors : b \in Fast' <=> b = a \/ b \in Fast
  BY <1>2, <1>3 DEF Fast
<1>5. Fast' \subseteq Actors /\ Fast \subseteq Actors
  BY DEF Fast
<1>6. (\A b \in Fast : at'[b] = at[b]) /\ at'[a] = s
  BY <1>2, <1>5
<1>7. \A b \in Fast : at[b].id \in 1..ops
  BY <1>1 DEF Numbers
<1>8. MaxOps \in Nat /\ ops < MaxOps /\ s.id \in 1..MaxOps /\ told[s.id].result = "none"
  <2>1. MaxOps \in Nat /\ ops < MaxOps
    BY ActivityBounds DEF ActivityBounds, Starts
  <2>2. s.id \in 1..MaxOps /\ s.id > ops
    BY <1>3, <2>1
  <2>. QED  BY <1>1, <2>1, <2>2 DEF Numbers
<1>9. \A i \in net.taken \cup net.bridged : i \in Nat /\ i <= ops
  BY <1>1 DEF Numbers
<1>10. s.id \notin net.taken /\ s.id \notin net.bridged
  BY <1>3, <1>9
<1>11. net' = net /\ told' = told /\ history' = history /\ faults' = faults
  BY DEF Starts
<1>12. Shapes'
  <2>1. \A b \in Actors : at'[b] = Idle \/ IsWait(at'[b]) \/ IsCommand(at'[b])
    BY <1>1, <1>2 DEF Shapes, Starts
  <2>2. ops' \in Nat /\ ops' <= MaxOps
    BY <1>3, <1>8
  <2>. QED  BY <1>1, <1>2, <1>11, <2>1, <2>2 DEF Shapes, MakeHistoryEntry, IsCommand, IsWait, Idle
<1>13. Numbers'
  <2>1. \A b \in Fast' : at'[b].id \in 1..ops'
    BY <1>3, <1>4, <1>5, <1>6, <1>7
  <2>2. \A b, c \in Fast' : at'[b].id = at'[c].id => b = c
    <3>1. \A b \in Fast : at'[b].id # at'[a].id
      BY <1>3, <1>6, <1>7
    <3>2. \A b, c \in Fast : at'[b].id = at'[c].id => b = c
      BY <1>1, <1>6 DEF Numbers
    <3>. QED  BY <1>4, <1>5, <3>1, <3>2
  <2>3. \A op \in 1..MaxOps : op > ops' => told'[op].result = "none"
    BY <1>1, <1>3, <1>8, <1>11 DEF Numbers
  <2>4. \A i \in net'.taken \cup net'.bridged : i \in Nat /\ i <= ops'
    <3>1. net'.taken \cup net'.bridged = net.taken \cup net.bridged
      BY <1>11
    <3>2. \A i \in Nat : i <= ops => i <= ops + 1
      BY <1>3
    <3>. QED  BY <1>3, <1>9, <3>1, <3>2
  <2>. QED  BY <2>1, <2>2, <2>3, <2>4 DEF Numbers
<1>14. Silent'
  <2>1. \A b \in Fast' : \A c : c = at'[b] => SilentOf(c)
    BY <1>1, <1>4, <1>5, <1>6, <1>8, <1>10 DEF Silent, SilentOf
  <2>. QED  BY <1>11, <2>1 DEF Silent, SilentOf
<1>15. AllTx' \subseteq AllTx
  <2>1. Held' = Held
    BY <1>11 DEF Held, PendingMultisigTransactions
  <2>2. SUFFICES ASSUME NEW y \in AllTx' PROVE y \in AllTx
    OBVIOUS
  <2>3. \/ y = NoTx \/ y \in net.txs \/ y \in net.waiting \/ y \in Held
        \/ \E b \in Fast' : y \in at'[b].seen \/ y = at'[b].tx
    BY <1>11, <2>1, <2>2 DEF AllTx
  <2>4. CASE \E b \in Fast' : y \in at'[b].seen \/ y = at'[b].tx
    <3>1. PICK b \in Fast' : y \in at'[b].seen \/ y = at'[b].tx
      BY <2>4
    <3>2. b = a => y = NoTx
      BY <1>6, <3>1 DEF Starts
    <3>. QED  BY <1>4, <1>5, <1>6, <3>1, <3>2 DEF AllTx
  <2>. QED  BY <2>3, <2>4 DEF AllTx
<1>16. TxsRight'
  <2>1. \A y \in AllTx' : y.id \in Nat /\ y.id <= ops /\ y.kind \notin Routes /\ y.id \notin net.bridged
    BY <1>1, <1>15 DEF TxsRight
  <2>2. \A y \in AllTx' : y.id <= ops'
    <3>1. \A i \in Nat : i <= ops => i <= ops + 1
      BY <1>3
    <3>. QED  BY <1>3, <2>1, <3>1
  <2>3. \A y, z \in AllTx' : y.id = z.id => y = z
    BY <1>1, <1>15 DEF TxsRight
  <2>4. \A y \in AllTx' : y.id # s.id
    BY <1>3, <2>1
  <2>5. \A b \in Fast' : Spends(at'[b]) => \A y \in AllTx' : y.id # at'[b].id
    BY <1>1, <1>4, <1>5, <1>6, <1>15, <2>4 DEF TxsRight
  <2>6. \A b \in Fast' : Builds(at'[b]) => at'[b].id \notin net.bridged
    BY <1>1, <1>4, <1>5, <1>6, <1>10 DEF TxsRight
  <2>. QED  BY <1>11, <2>1, <2>2, <2>3, <2>5, <2>6 DEF TxsRight, Spends, Builds
<1>17. CommandsRight'
  <2>1. \A b \in Fast' : \A c : c = at'[b] => CommandRight(c)
    BY <1>1, <1>4, <1>5, <1>6 DEF CommandsRight, CommandRight, Starts
  <2>. QED  BY <1>11, <2>1 DEF CommandsRight, CommandRight, StagesRight, Builds
<1>18. OutcomeTruthful' /\ HistoryTruthful'
  BY <1>1, <1>11 DEF OutcomeTruthful, HistoryTruthful
<1>. QED  BY <1>12, <1>13, <1>14, <1>16, <1>17, <1>18 DEF FastRight

(* The routes of a send.                                                    *)
LEMMA RoutesAre == Routes \subseteq {"fast", "evm-to-fast", "fast-to-evm"}
<1>1. \A args : Route(args) \in {"fast", "evm-to-fast", "fast-to-evm"}
  BY DEF Route
<1>2. \A args : SendRoute(args) = Route(args) \/ SendRoute(args) = "refused"
  BY DEF SendRoute
<1>. QED  BY <1>1, <1>2 DEF Routes

(* A command starts at a stage of its kind.                                 *)
LEMMA NewCommand ==
  ASSUME Shapes, NEW a \in Actors, NEW pc, NEW command, NEW m \in Members, NEW sender, NEW kind, NEW replace,
         sender = m \/ sender = Shared,
         Begin(a, "fast", Step(pc, command, m, sender, kind, replace)), UNCHANGED <<net, told, history>>,
         pc \notin {"record", "bridged", "update", "submit"},
         pc \in {"metadata", "account", "proposals"} => command = "operation",
         pc \in {"list", "listed", "pending", "info"} => command = "vote",
         pc \in {"fetch", "fetchPending", "fetchAccount"} => command \in {"prepare", "submitPrepared", "sdkVote"},
         pc = "bridge" => command = "transfer",
         pc \in {"rows", "portal"} => command = "history",
         command \in {"operation", "prepare"} => kind \notin Routes,
         command = "transfer" => kind \in Routes \ {"fast"}
  PROVE  \E s : Starts(a, s)
<1>1. PICK s : s = Step(pc, command, m, sender, kind, replace)
  OBVIOUS
<1>2. /\ s.in = "fast" /\ s.pc = pc /\ s.command = command /\ s.m = m /\ s.sender = sender /\ s.kind = kind
      /\ s.tx = NoTx /\ s.seen = {} /\ s.id = ops + 1
  BY <1>1 DEF Step
<1>3. s = [f \in CommandFields |-> s[f]]
  BY <1>1 DEF Step, CommandFields
<1>4. IsCommand(s)
  BY <1>2, <1>3 DEF IsCommand
<1>5. StagesRight(s)
  BY <1>2 DEF StagesRight, Builds
<1>6. Starts(a, s)
  BY <1>1, <1>2, <1>4, <1>5 DEF Starts, Begin
<1>. QED  BY <1>6

(* Every command, vote and call of a page starts like this.                 *)
LEMMA StartSteps ==
  ASSUME Shapes, NEW a \in Actors, Start(a)
  PROVE  \E s : Starts(a, s)
<1>1. \A m, sender : ResolveSigner(m, sender) => sender = m \/ sender = Shared
  BY DEF ResolveSigner
<1>2. {"send", "create", "burn", "mint", "addMinter", "removeMinter"} \cap Routes = {}
  BY RoutesAre
<1>3. CASE \E c \in Requests : StartSend(a, c)
  <2>1. PICK c \in Requests : StartSend(a, c)
    BY <1>3
  <2>2. PICK m, sender, kind, replace : m = c.m /\ sender = c.sender /\ kind = c.kind /\ replace = c.replace
    OBVIOUS
  <2>3. /\ Begin(a, "fast", Step("account", "operation", m, sender, kind, replace))
        /\ UNCHANGED <<net, told, history>> /\ kind \notin Routes
        /\ m \in Members /\ (sender = m \/ sender = Shared)
    BY <1>1, <1>2, <2>1, <2>2, CommandsAssumption DEF StartSend, CommandsAssumption
  <2>. QED  BY <2>3, NewCommand
<1>4. CASE \E c \in Requests : StartToken(a, c)
  <2>1. PICK c \in Requests : StartToken(a, c)
    BY <1>4
  <2>2. PICK m, sender, kind, replace, pc : m = c.m /\ sender = c.sender /\ kind = c.kind /\ replace = c.replace
          /\ pc = IF c.kind \in Manages \cup {"mint"} THEN "metadata" ELSE "account"
    OBVIOUS
  <2>3. kind \in {"create", "burn", "mint", "addMinter", "removeMinter"}
    BY <2>1, <2>2 DEF StartToken, TokenCreate, TokenBurn, TokenMint, TokenManage, Manages
  <2>4. /\ Begin(a, "fast", Step(pc, "operation", m, sender, kind, replace))
        /\ UNCHANGED <<net, told, history>>
        /\ m \in Members /\ (sender = m \/ sender = Shared) /\ pc \in {"metadata", "account"}
    BY <1>1, <2>1, <2>2, CommandsAssumption DEF StartToken, CommandsAssumption
  <2>. QED  BY <1>2, <2>3, <2>4, NewCommand
<1>5. CASE \E c \in Transfers : StartTransfer(a, c)
  <2>1. PICK c \in Transfers : StartTransfer(a, c)
    BY <1>5
  <2>2. PICK m, sender, route, pc, command :
          m = c.m /\ sender = m /\ route = c.route /\ pc = "bridge" /\ command = "transfer"
    OBVIOUS
  <2>3. /\ Begin(a, "fast", Step(pc, command, m, sender, route, FALSE))
        /\ UNCHANGED <<net, told, history>>
        /\ m \in Members /\ route \in Routes \ {"fast"}
    BY <2>1, <2>2, CommandsAssumption DEF StartTransfer, CommandsAssumption
  <2>4. sender = m \/ sender = Shared
    BY <2>2
  <2>5. /\ pc \notin {"record", "bridged", "update", "submit"}
        /\ (pc \in {"metadata", "account", "proposals"} => command = "operation")
        /\ (pc \in {"list", "listed", "pending", "info"} => command = "vote")
        /\ (pc \in {"fetch", "fetchPending", "fetchAccount"} => command \in {"prepare", "submitPrepared", "sdkVote"})
        /\ (pc = "bridge" => command = "transfer")
        /\ (pc \in {"rows", "portal"} => command = "history")
    BY <2>2
  <2>6. command \notin {"operation", "prepare"}
    BY <2>2
  <2>. QED  BY <2>3, <2>4, <2>5, <2>6, <2>2, NewCommand
<1>6. CASE \E m \in Members : StartVote(a, m)
  <2>1. PICK m \in Members, pc \in {"list", "pending"} :
          Begin(a, "fast", Step(pc, "vote", m, Shared, "vote", FALSE)) /\ UNCHANGED <<net, told, history>>
    BY <1>6 DEF StartVote
  <2>. QED  BY <2>1, NewCommand
<1>7. CASE \E m \in Members : StartHistory(a, m)
  <2>1. PICK m \in Members :
          Begin(a, "fast", Step("rows", "history", m, m, "history", FALSE)) /\ UNCHANGED <<net, told, history>>
    BY <1>7 DEF StartHistory
  <2>2. PICK sender, pc, command : sender = m /\ pc = "rows" /\ command = "history"
    OBVIOUS
  <2>3. Begin(a, "fast", Step(pc, command, m, sender, command, FALSE)) /\ UNCHANGED <<net, told, history>>
    BY <2>1, <2>2
  <2>4. sender = m \/ sender = Shared
    BY <2>2
  <2>5. /\ pc \notin {"record", "bridged", "update", "submit"}
        /\ (pc \in {"metadata", "account", "proposals"} => command = "operation")
        /\ (pc \in {"list", "listed", "pending", "info"} => command = "vote")
        /\ (pc \in {"fetch", "fetchPending", "fetchAccount"} => command \in {"prepare", "submitPrepared", "sdkVote"})
        /\ (pc = "bridge" => command = "transfer")
        /\ (pc \in {"rows", "portal"} => command = "history")
    BY <2>2
  <2>6. command \notin {"operation", "prepare"}
    BY <2>2
  <2>. QED  BY <2>3, <2>4, <2>5, <2>6, <2>2, NewCommand
<1>8. CASE \E p \in Pages : StartCall(a, p)
  <2>1. PICK p \in Pages : StartCall(a, p)
    BY <1>8
  <2>2. PICK m, call, kind, replace : m = p.m /\ call = p.call /\ kind = p.kind /\ replace = p.replace
    OBVIOUS
  <2>3. /\ Begin(a, "fast", Step("fetch", call, m, Shared, kind, replace))
        /\ UNCHANGED <<net, told, history>>
        /\ m \in Members /\ call \in {"prepare", "sdkVote"} /\ kind \notin Routes
    BY <2>1, <2>2, PagesAssumption DEF StartCall, PagesAssumption
  <2>. QED  BY <2>3, NewCommand
<1>. QED  BY <1>3, <1>4, <1>5, <1>6, <1>7, <1>8 DEF Start, StartCommand

-----------------------------------------------------------------------------
(* A step that leaves the network, the tables and what was told alone.      *)
LEMMA HeldKept == UNCHANGED net => Held' = Held
BY DEF Held, PendingMultisigTransactions

(* A step that tells nothing, and may build the transaction.                *)
LEMMA QuietBuilding ==
  ASSUME FastRight, NEW a \in Fast, NEW s, NEW x, at' = [at EXCEPT ![a] = s], ops' = ops,
         faults' = faults \/ faults' = faults + 1, UNCHANGED <<net, told, history>>,
         x \in AllTx \/ (Builds(at[a]) /\ x.id = at[a].id /\ x.kind = at[a].kind),
         \/ s = Idle
         \/ /\ IsCommand(s) /\ s.id = at[a].id /\ s.pc # "record" /\ at[a].pc # "record"
            /\ s.seen \subseteq AllTx /\ s.tx \in AllTx \cup {x} /\ CommandRight(s)
            /\ at[a].command = "submitPrepared" => s.command = "submitPrepared"
            /\ Spends(s) => Spends(at[a]) /\ x \in AllTx
            /\ Builds(s) => Builds(at[a])
  PROVE  FastRight'
<1>1. PICK i, o : i = at[a].id /\ o = told[i]
  OBVIOUS
<1>2. Shapes /\ Numbers /\ Silent /\ OutcomeTruthful /\ Held' = Held /\ net' = net /\ told' = told /\ history' = history
  BY HeldKept DEF FastRight
<1>3. i \in 1..MaxOps
  <2>1. i \in 1..ops /\ ops \in Nat /\ ops <= MaxOps /\ MaxOps \in Nat
    BY <1>1, <1>2, ActivityBounds DEF Shapes, Numbers, ActivityBounds
  <2>. QED  BY <2>1
<1>4. o = [result |-> o.result, tx |-> o.tx] /\ told' = [told EXCEPT ![i] = o]
  BY <1>1, <1>2, <1>3 DEF Shapes
<1>5. o.result \notin {"success", "transferred"} /\ Truthful(i, o)
  BY <1>1, <1>2, <1>3 DEF Silent, OutcomeTruthful, Truthful
<1>6. \A j : j = i => Truthful(j, o)'
  BY <1>2, <1>5 DEF Truthful
<1>7. NoTx \in AllTx /\ net.txs \cup net.waiting \cup Held \subseteq AllTx
  BY DEF AllTx
<1>8. NetGrows(i, x)
  BY <1>2, <1>7 DEF NetGrows, Shapes
<1>9. SilentOf(at[a])
  BY <1>2 DEF Silent, SilentOf
<1>10. s # Idle => CommandRight(s)' /\ SilentOf(s)'
  BY <1>2, <1>9 DEF CommandRight, SilentOf, StagesRight, Builds
<1>11. CommandStep(a, s, x, o)
  BY <1>1, <1>2, <1>4, <1>6, <1>8, <1>10 DEF CommandStep
<1>. QED  BY <1>2, <1>4, <1>5, <1>11, StepKeeps

(* A step that tells nothing and builds nothing.                            *)
LEMMA Quiet ==
  ASSUME FastRight, NEW a \in Fast, NEW s, at' = [at EXCEPT ![a] = s], ops' = ops,
         faults' = faults \/ faults' = faults + 1, UNCHANGED <<net, told, history>>,
         \/ s = Idle
         \/ /\ IsCommand(s) /\ s.id = at[a].id /\ s.command = at[a].command /\ s.pc # "record" /\ at[a].pc # "record"
            /\ s.seen \subseteq AllTx /\ s.tx \in AllTx /\ CommandRight(s)
  PROVE  FastRight'
<1>1. NoTx \in AllTx
  BY DEF AllTx
<1>2. s # Idle => (Spends(s) => Spends(at[a])) /\ (Builds(s) => Builds(at[a]))
  BY DEF Spends, Builds
<1>3. PICK x : x = NoTx
  OBVIOUS
<1>. QED  BY <1>1, <1>2, <1>3, QuietBuilding

(* A command ends, and tells of nothing it did.                             *)
LEMMA Ended ==
  ASSUME FastRight, NEW a \in Fast, NEW result, NEW fault, Finish(a, result, NoTx, fault),
         UNCHANGED <<net, history>>, at[a].pc # "record", result \in {"failed", "shown"}
  PROVE  FastRight'
<1>1. Shapes /\ Numbers /\ Silent /\ Held' = Held /\ net' = net /\ history' = history
  BY HeldKept DEF FastRight
<1>2. PICK i, before, o : /\ i = at[a].id /\ before = told[i].result
                          /\ o = [result |-> IF result = "failed" /\ before # "none" THEN before ELSE result,
                                  tx |-> IF result = "failed" /\ before # "none" THEN told[i].tx ELSE NoTx]
  OBVIOUS
<1>3. i \in 1..MaxOps
  <2>1. i \in 1..ops /\ ops \in Nat /\ ops <= MaxOps /\ MaxOps \in Nat
    BY <1>1, <1>2, ActivityBounds DEF Shapes, Numbers, ActivityBounds
  <2>. QED  BY <2>1
<1>4. told' = [told EXCEPT ![i] = o] /\ at' = [at EXCEPT ![a] = Idle] /\ ops' = ops
      /\ faults' \in {faults, faults + 1}
  BY <1>1, <1>2, <1>3 DEF Finish, Outcome, Move, Shapes
<1>5. SilentOf(at[a])
  BY <1>1 DEF Silent, SilentOf
<1>6. /\ o = [result |-> o.result, tx |-> o.tx]
      /\ o.result \in {"failed", "shown", "unknown"} /\ (o.result = "failed" => i \notin net.taken)
  BY <1>2, <1>5 DEF SilentOf
<1>7. \A j : j = i => Truthful(j, o)'
  BY <1>1, <1>6 DEF Truthful
<1>8. NoTx \in AllTx /\ net.txs \cup net.waiting \cup Held \subseteq AllTx
  BY DEF AllTx
<1>9. NetGrows(i, NoTx)
  BY <1>1, <1>8 DEF NetGrows, Shapes
<1>10. CommandStep(a, Idle, NoTx, o)
  BY <1>1, <1>2, <1>4, <1>7, <1>8, <1>9 DEF CommandStep
<1>. QED  BY <1>1, <1>6, <1>10, StepKeeps

(* A command that is refused has left nothing behind.                       *)
LEMMA Refused ==
  ASSUME FastRight, NEW a \in Fast, NEW fault, Refuse(a, fault), UNCHANGED <<net, history>>, at[a].pc # "record"
  PROVE  FastRight'
BY Ended DEF Refuse

(* A command goes on to its next stage.                                     *)
LEMMA Moved ==
  ASSUME FastRight, NEW a \in Fast, NEW s, NEW fault, Move(a, s, fault), UNCHANGED <<net, told, history>>,
         IsCommand(s), s.id = at[a].id, s.command = at[a].command, s.pc # "record", at[a].pc # "record",
         s.seen \subseteq AllTx, s.tx \in AllTx, CommandRight(s)
  PROVE  FastRight'
BY Quiet DEF Move

(* What a command in progress is.                                           *)
LEMMA InFast ==
  ASSUME FastRight, NEW a \in Actors, NEW pc, In(a, "fast", pc)
  PROVE  /\ a \in Fast /\ at[a].pc = pc /\ IsCommand(at[a]) /\ CommandRight(at[a]) /\ StagesRight(at[a])
         /\ at[a].seen \subseteq AllTx /\ at[a].tx \in AllTx /\ Held \subseteq AllTx /\ NoTx \in AllTx
<1>1. a \in Fast /\ at[a].pc = pc /\ at[a].in = "fast"
  BY DEF In, Fast
<1>2. IsCommand(at[a])
  BY <1>1 DEF FastRight, Shapes, IsWait, Idle
<1>3. CommandRight(at[a])
  BY <1>1 DEF FastRight, CommandsRight
<1>. QED  BY <1>1, <1>2, <1>3 DEF AllTx, CommandRight

(* The reads of the pipeline.                                               *)
LEMMA GetTokenInfoKeeps ==
  ASSUME FastRight, NEW a \in Actors, GetTokenInfo(a)
  PROVE  FastRight'
<1>1. In(a, "fast", "metadata") /\ UNCHANGED <<net, history>>
  BY DEF GetTokenInfo
<1>2. /\ a \in Fast /\ at[a].pc = "metadata" /\ IsCommand(at[a]) /\ CommandRight(at[a]) /\ StagesRight(at[a])
      /\ at[a].seen \subseteq AllTx /\ at[a].tx \in AllTx
  BY <1>1, InFast
<1>3. CASE \E fault : Refuse(a, fault)
  BY <1>1, <1>2, <1>3, Refused
<1>4. CASE \E u : Move(a, [at[a] EXCEPT !.pc = "account", !.update = u], FALSE) /\ UNCHANGED told
  <2>1. PICK u : Move(a, [at[a] EXCEPT !.pc = "account", !.update = u], FALSE) /\ UNCHANGED told
    BY <1>4
  <2>2. PICK s : s = [at[a] EXCEPT !.pc = "account", !.update = u]
    OBVIOUS
  <2>3. /\ IsCommand(s) /\ s.id = at[a].id /\ s.command = at[a].command /\ s.pc = "account"
        /\ s.seen = at[a].seen /\ s.tx = at[a].tx /\ s.kind = at[a].kind
    BY <1>2, <2>2 DEF IsCommand, CommandFields
  <2>4. CommandRight(s)
    BY <1>2, <2>3 DEF CommandRight, StagesRight, Builds
  <2>. QED  BY <1>1, <1>2, <2>1, <2>2, <2>3, <2>4, Moved
<1>. QED  BY <1>3, <1>4 DEF GetTokenInfo

(* The nonce is read, and the transaction built or the proposals asked for. *)
LEMMA GetAccountInfoKeeps ==
  ASSUME FastRight, NEW a \in Actors, GetAccountInfo(a)
  PROVE  FastRight'
<1>1. In(a, "fast", "account") /\ UNCHANGED <<net, history>>
  BY DEF GetAccountInfo
<1>2. /\ a \in Fast /\ at[a].pc = "account" /\ IsCommand(at[a]) /\ CommandRight(at[a]) /\ StagesRight(at[a])
      /\ at[a].seen \subseteq AllTx /\ at[a].tx \in AllTx
  BY <1>1, InFast
<1>3. CASE \E fault : Refuse(a, fault)
  BY <1>1, <1>2, <1>3, Refused
<1>4. CASE \E n : Move(a, [at[a] EXCEPT !.pc = IF at[a].sender = Shared THEN "proposals" ELSE "submit", !.nonce = n], FALSE)
             /\ UNCHANGED told
  <2>1. PICK n : Move(a, [at[a] EXCEPT !.pc = IF at[a].sender = Shared THEN "proposals" ELSE "submit", !.nonce = n], FALSE)
               /\ UNCHANGED told
    BY <1>4
  <2>2. PICK s : s = [at[a] EXCEPT !.pc = IF at[a].sender = Shared THEN "proposals" ELSE "submit", !.nonce = n]
    OBVIOUS
  <2>3. /\ IsCommand(s) /\ s.id = at[a].id /\ s.command = at[a].command /\ s.sender = at[a].sender
        /\ s.pc = (IF s.sender = Shared THEN "proposals" ELSE "submit")
        /\ s.seen = at[a].seen /\ s.tx = at[a].tx /\ s.kind = at[a].kind
    BY <1>2, <2>2 DEF IsCommand, CommandFields
  <2>4. CommandRight(s) /\ s.pc # "record"
    BY <1>2, <2>3 DEF CommandRight, StagesRight, Builds
  <2>. QED  BY <1>1, <1>2, <2>1, <2>2, <2>3, <2>4, Moved
<1>. QED  BY <1>3, <1>4 DEF GetAccountInfo, ReadFails

(* The proposals at the nonce are read.                                     *)
LEMMA GetPendingMultisigKeeps ==
  ASSUME FastRight, NEW a \in Actors, GetPendingMultisig(a)
  PROVE  FastRight'
<1>1. In(a, "fast", "proposals") /\ UNCHANGED <<net, history>>
  BY DEF GetPendingMultisig
<1>2. /\ a \in Fast /\ at[a].pc = "proposals" /\ IsCommand(at[a]) /\ CommandRight(at[a]) /\ StagesRight(at[a])
      /\ at[a].seen \subseteq AllTx /\ at[a].tx \in AllTx /\ Held \subseteq AllTx
  BY <1>1, InFast
<1>3. CASE \E fault : Refuse(a, fault)
  BY <1>1, <1>2, <1>3, Refused
<1>4. CASE /\ AtNonce(Held, at[a].nonce) # {} => at[a].replace
           /\ Move(a, [at[a] EXCEPT !.pc = "submit", !.seen = Held], FALSE) /\ UNCHANGED told
  <2>1. PICK s : s = [at[a] EXCEPT !.pc = "submit", !.seen = Held]
    OBVIOUS
  <2>2. /\ IsCommand(s) /\ s.id = at[a].id /\ s.command = at[a].command /\ s.replace = at[a].replace /\ s.pc = "submit"
        /\ s.seen = Held /\ s.tx = at[a].tx /\ s.kind = at[a].kind /\ s.nonce = at[a].nonce
    BY <1>2, <2>1 DEF IsCommand, CommandFields
  <2>3. ASSUME NEW x \in s.seen, x.nonce = s.nonce PROVE s.replace
    <3>1. x \in AtNonce(Held, at[a].nonce)
      BY <2>2, <2>3 DEF AtNonce
    <3>. QED  BY <1>4, <2>2, <3>1
  <2>4. CommandRight(s)
    BY <1>2, <2>2, <2>3 DEF CommandRight, StagesRight, Builds
  <2>. QED  BY <1>1, <1>2, <1>4, <2>1, <2>2, <2>4, Moved
<1>. QED  BY <1>3, <1>4 DEF GetPendingMultisig, ReadFails

(* The reads of a vote.                                                     *)
LEMMA ReadPendingKeeps ==
  ASSUME FastRight, NEW a \in Actors, NEW pc, NEW next, ReadPending(a, pc, next),
         pc \in {"list", "pending"}, next \in {"listed", "info"}
  PROVE  FastRight'
<1>1. In(a, "fast", pc) /\ UNCHANGED <<net, history>>
  BY DEF ReadPending
<1>2. /\ a \in Fast /\ at[a].pc = pc /\ IsCommand(at[a]) /\ CommandRight(at[a]) /\ StagesRight(at[a])
      /\ at[a].seen \subseteq AllTx /\ at[a].tx \in AllTx /\ Held \subseteq AllTx
  BY <1>1, InFast
<1>3. CASE \E fault : Refuse(a, fault)
  BY <1>1, <1>2, <1>3, Refused
<1>4. CASE Move(a, [at[a] EXCEPT !.pc = next, !.seen = Held], FALSE) /\ UNCHANGED told
  <2>1. PICK s : s = [at[a] EXCEPT !.pc = next, !.seen = Held]
    OBVIOUS
  <2>2. /\ IsCommand(s) /\ s.id = at[a].id /\ s.command = at[a].command /\ s.pc = next
        /\ s.seen = Held /\ s.tx = at[a].tx /\ s.kind = at[a].kind
    BY <1>2, <2>1 DEF IsCommand, CommandFields
  <2>3. CommandRight(s)
    BY <1>2, <2>2 DEF CommandRight, StagesRight, Builds
  <2>. QED  BY <1>1, <1>2, <1>4, <2>1, <2>2, <2>3, Moved
<1>. QED  BY <1>3, <1>4 DEF ReadPending, ReadFails

(* A proposal is shown, and voted for or not.                               *)
LEMMA ShowPendingKeeps ==
  ASSUME FastRight, NEW a \in Actors, ShowPending(a)
  PROVE  FastRight'
<1>1. In(a, "fast", "listed") /\ UNCHANGED <<net, history>>
  BY DEF ShowPending
<1>2. /\ a \in Fast /\ at[a].pc = "listed" /\ IsCommand(at[a]) /\ CommandRight(at[a]) /\ StagesRight(at[a])
      /\ at[a].seen \subseteq AllTx /\ at[a].tx \in AllTx
  BY <1>1, InFast
<1>3. CASE \E fault : Refuse(a, fault)
  BY <1>1, <1>2, <1>3, Refused
<1>4. CASE \E ids : Move(a, [at[a] EXCEPT !.pc = "pending", !.approved = ids], FALSE) /\ UNCHANGED told
  <2>1. PICK ids : Move(a, [at[a] EXCEPT !.pc = "pending", !.approved = ids], FALSE) /\ UNCHANGED told
    BY <1>4
  <2>2. PICK s : s = [at[a] EXCEPT !.pc = "pending", !.approved = ids]
    OBVIOUS
  <2>3. /\ IsCommand(s) /\ s.id = at[a].id /\ s.command = at[a].command /\ s.pc = "pending"
        /\ s.seen = at[a].seen /\ s.tx = at[a].tx /\ s.kind = at[a].kind
    BY <1>2, <2>2 DEF IsCommand, CommandFields
  <2>4. CommandRight(s)
    BY <1>2, <2>3 DEF CommandRight, StagesRight, Builds
  <2>. QED  BY <1>1, <1>2, <2>1, <2>2, <2>3, <2>4, Moved
<1>. QED  BY <1>3, <1>4 DEF ShowPending, ReadFails

(* The vote checks the nonce of the proposal.                               *)
LEMMA GetVoteAccountKeeps ==
  ASSUME FastRight, NEW a \in Actors, GetVoteAccount(a)
  PROVE  FastRight'
<1>1. In(a, "fast", "info") /\ UNCHANGED <<net, history>>
  BY DEF GetVoteAccount
<1>2. /\ a \in Fast /\ at[a].pc = "info" /\ IsCommand(at[a]) /\ CommandRight(at[a]) /\ StagesRight(at[a])
      /\ at[a].seen \subseteq AllTx /\ at[a].tx \in AllTx
  BY <1>1, InFast
<1>3. CASE \E fault : Refuse(a, fault)
  BY <1>1, <1>2, <1>3, Refused
<1>4. CASE \E tx \in at[a].seen : Move(a, [at[a] EXCEPT !.pc = "submit", !.tx = tx], FALSE) /\ UNCHANGED told
  <2>1. PICK tx \in at[a].seen : Move(a, [at[a] EXCEPT !.pc = "submit", !.tx = tx], FALSE) /\ UNCHANGED told
    BY <1>4
  <2>2. PICK s : s = [at[a] EXCEPT !.pc = "submit", !.tx = tx]
    OBVIOUS
  <2>3. /\ IsCommand(s) /\ s.id = at[a].id /\ s.command = at[a].command /\ s.pc = "submit"
        /\ s.seen = at[a].seen /\ s.tx = tx /\ s.kind = at[a].kind
    BY <1>2, <2>2 DEF IsCommand, CommandFields
  <2>4. CommandRight(s)
    BY <1>2, <2>3 DEF CommandRight, StagesRight, Builds
  <2>. QED  BY <1>1, <1>2, <2>1, <2>2, <2>3, <2>4, Moved
<1>5. \A entries, wanted : PickTarget(entries, wanted) \subseteq entries
  BY DEF PickTarget
<1>6. \A n : AtNonce(at[a].seen, n) \subseteq at[a].seen
  BY DEF AtNonce
<1>. QED  BY <1>3, <1>4, <1>5, <1>6 DEF GetVoteAccount, ReadFails

(* The reads of a page.                                                     *)
LEMMA FetchFirstKeeps ==
  ASSUME FastRight, NEW a \in Actors, FetchFirst(a)
  PROVE  FastRight'
<1>1. In(a, "fast", "fetch") /\ UNCHANGED <<net, history, told>>
  BY DEF FetchFirst
<1>2. /\ a \in Fast /\ at[a].pc = "fetch" /\ IsCommand(at[a]) /\ CommandRight(at[a]) /\ StagesRight(at[a])
      /\ at[a].seen \subseteq AllTx /\ at[a].tx \in AllTx /\ Held \subseteq AllTx
  BY <1>1, InFast
<1>3. CASE Move(a, [FetchAccount(at[a]) EXCEPT !.pc = "fetchPending"], FALSE)
  <2>1. PICK s : s = [FetchAccount(at[a]) EXCEPT !.pc = "fetchPending"]
    OBVIOUS
  <2>2. /\ IsCommand(s) /\ s.id = at[a].id /\ s.command = at[a].command /\ s.pc = "fetchPending"
        /\ s.seen = at[a].seen /\ s.tx = at[a].tx /\ s.kind = at[a].kind
    BY <1>2, <2>1 DEF IsCommand, CommandFields, FetchAccount
  <2>3. CommandRight(s)
    BY <1>2, <2>2 DEF CommandRight, StagesRight, Builds
  <2>. QED  BY <1>1, <1>2, <1>3, <2>1, <2>2, <2>3, Moved
<1>4. CASE Move(a, [FetchPending(at[a]) EXCEPT !.pc = "fetchAccount"], FALSE)
  <2>1. PICK s : s = [FetchPending(at[a]) EXCEPT !.pc = "fetchAccount"]
    OBVIOUS
  <2>2. /\ IsCommand(s) /\ s.id = at[a].id /\ s.command = at[a].command /\ s.pc = "fetchAccount"
        /\ s.seen = Held /\ s.tx = at[a].tx /\ s.kind = at[a].kind
    BY <1>2, <2>1 DEF IsCommand, CommandFields, FetchPending
  <2>3. CommandRight(s)
    BY <1>2, <2>2 DEF CommandRight, StagesRight, Builds
  <2>. QED  BY <1>1, <1>2, <1>4, <2>1, <2>2, <2>3, Moved
<1>. QED  BY <1>3, <1>4 DEF FetchFirst

(* The second answer decides what the call of the page signs.               *)
LEMMA FetchSecondKeeps ==
  ASSUME FastRight, NEW a \in Actors, FetchSecond(a)
  PROVE  FastRight'
<1>1. UNCHANGED <<net, history>> /\ \E pc \in {"fetchPending", "fetchAccount"} : In(a, "fast", pc)
  BY DEF FetchSecond
<1>2. /\ a \in Fast /\ at[a].pc \in {"fetchPending", "fetchAccount"} /\ IsCommand(at[a]) /\ CommandRight(at[a]) /\ StagesRight(at[a])
      /\ at[a].seen \subseteq AllTx /\ at[a].tx \in AllTx /\ Held \subseteq AllTx
  BY <1>1, InFast
<1>3. CASE \E fault : Refuse(a, fault)
  BY <1>1, <1>2, <1>3, Refused
<1>4. PICK c, pending : /\ c = [IF at[a].pc = "fetchPending" THEN FetchPending(at[a]) ELSE FetchAccount(at[a]) EXCEPT !.pc = "submit"]
                        /\ pending = AtNonce(c.seen, c.nonce)
  OBVIOUS
<1>5. /\ IsCommand(c) /\ c.id = at[a].id /\ c.command = at[a].command /\ c.pc = "submit" /\ c.kind = at[a].kind
      /\ c.seen \subseteq AllTx /\ c.tx = at[a].tx
  BY <1>2, <1>4 DEF IsCommand, CommandFields, FetchPending, FetchAccount
<1>6. at[a].command \in {"prepare", "submitPrepared", "sdkVote"}
  BY <1>2 DEF StagesRight
<1>7. CASE c.command = "prepare" /\ Move(a, Prepare(c, pending), FALSE) /\ UNCHANGED told
  <2>1. PICK s, x : s = Prepare(c, pending) /\ x = BuildTransaction(c)
    OBVIOUS
  <2>2. x.id = at[a].id /\ x.kind = at[a].kind
    BY <1>5, <2>1 DEF BuildTransaction
  <2>3. IsCommand(s) /\ s.id = at[a].id /\ s.pc = "fetch" /\ s.command = "submitPrepared" /\ s.tx = x /\ s.seen = c.seen
    BY <1>5, <2>1 DEF Prepare, IsCommand, CommandFields
  <2>4. Builds(at[a]) /\ ~Spends(s) /\ ~Builds(s)
    BY <1>2, <1>5, <1>7, <2>3 DEF Spends, Builds
  <2>5. CommandRight(s)
    BY <2>3, <2>4 DEF CommandRight, StagesRight
  <2>6. at' = [at EXCEPT ![a] = s] /\ ops' = ops /\ faults' = faults
    BY <1>7, <2>1 DEF Move
  <2>. QED  BY <1>1, <1>2, <1>5, <1>7, <2>2, <2>3, <2>4, <2>5, <2>6, QuietBuilding
<1>8. CASE c.command = "submitPrepared" /\ SubmitPreparedOK(c, pending) /\ Move(a, c, FALSE) /\ UNCHANGED told
  <2>1. ASSUME NEW y \in c.seen, y.nonce = c.nonce, y # c.tx PROVE y.id \in c.approved
    <3>1. y \in Competing(c, pending)
      BY <1>4, <2>1 DEF Competing, AtNonce
    <3>2. UnapprovedCompeting(c, pending) = {}
      BY <1>8, <3>1 DEF SubmitPreparedOK
    <3>. QED  BY <3>1, <3>2 DEF UnapprovedCompeting
  <2>2. c.tx.nonce = c.nonce
    BY <1>8 DEF SubmitPreparedOK
  <2>3. CommandRight(c)
    BY <1>5, <1>8, <2>1, <2>2 DEF CommandRight, StagesRight, Builds
  <2>. QED  BY <1>1, <1>2, <1>5, <1>8, <2>3, Moved
<1>9. CASE c.command = "sdkVote" /\ \E tx \in pending : Move(a, [c EXCEPT !.tx = tx], FALSE) /\ UNCHANGED told
  <2>1. PICK tx \in pending : Move(a, [c EXCEPT !.tx = tx], FALSE) /\ UNCHANGED told
    BY <1>9
  <2>2. tx \in AllTx
    BY <1>4, <1>5 DEF AtNonce
  <2>3. PICK s : s = [c EXCEPT !.tx = tx]
    OBVIOUS
  <2>4. IsCommand(s) /\ s.id = at[a].id /\ s.pc = "submit" /\ s.command = "sdkVote" /\ s.tx = tx /\ s.seen = c.seen
    BY <1>5, <1>9, <2>3 DEF IsCommand, CommandFields
  <2>5. CommandRight(s)
    BY <2>4 DEF CommandRight, StagesRight, Builds
  <2>. QED  BY <1>1, <1>2, <1>5, <1>9, <2>1, <2>2, <2>3, <2>4, <2>5, Moved
<1>10. VoteTarget(c, pending) \subseteq pending
  BY DEF VoteTarget
<1>11. PICK next :
         /\ next = CASE c.command = "prepare" -> IF PrepareOK(c, pending) THEN {Prepare(c, pending)} ELSE {}
                     [] c.command = "submitPrepared" -> IF SubmitPreparedOK(c, pending) THEN {c} ELSE {}
                     [] c.command = "sdkVote" -> {[c EXCEPT !.tx = tx] : tx \in VoteTarget(c, pending)}
         /\ \/ \E n \in next : Move(a, n, FALSE) /\ UNCHANGED told
            \/ next = {} /\ Refuse(a, FALSE)
            \/ ReadFails(a)
  BY <1>4 DEF FetchSecond
<1>12. CASE \E n \in next : Move(a, n, FALSE) /\ UNCHANGED told
  <2>1. PICK n \in next : Move(a, n, FALSE) /\ UNCHANGED told
    BY <1>12
  <2>2. CASE c.command = "prepare"
    <3>1. n = Prepare(c, pending)
      BY <1>11, <2>2
    <3>. QED  BY <1>7, <2>1, <2>2, <3>1
  <2>3. CASE c.command = "submitPrepared"
    <3>1. n = c /\ SubmitPreparedOK(c, pending)
      BY <1>11, <2>3
    <3>. QED  BY <1>8, <2>1, <2>3, <3>1
  <2>4. CASE c.command = "sdkVote"
    <3>1. \E tx \in pending : n = [c EXCEPT !.tx = tx]
      BY <1>10, <1>11, <2>4
    <3>. QED  BY <1>9, <2>1, <2>4, <3>1
  <2>. QED  BY <1>5, <1>6, <2>2, <2>3, <2>4
<1>. QED  BY <1>3, <1>11, <1>12 DEF ReadFails

(* The reads of the view of the history.                                    *)
LEMMA QueryHistoryKeeps ==
  ASSUME FastRight, NEW a \in Actors, QueryHistory(a)
  PROVE  FastRight'
<1>1. In(a, "fast", "rows")
  BY DEF QueryHistory
<1>2. /\ a \in Fast /\ at[a].pc = "rows" /\ IsCommand(at[a]) /\ CommandRight(at[a]) /\ StagesRight(at[a])
      /\ at[a].seen \subseteq AllTx /\ at[a].tx \in AllTx
  BY <1>1, InFast
<1>3. PICK s : s = [at[a] EXCEPT !.pc = "portal", !.approved = PendingBridge(history[at[a].m])]
  OBVIOUS
<1>4. /\ IsCommand(s) /\ s.id = at[a].id /\ s.command = at[a].command /\ s.pc = "portal"
      /\ s.seen = at[a].seen /\ s.tx = at[a].tx /\ s.kind = at[a].kind
  BY <1>2, <1>3 DEF IsCommand, CommandFields
<1>5. CommandRight(s)
  BY <1>2, <1>4 DEF CommandRight, StagesRight, Builds
<1>6. at' = [at EXCEPT ![a] = s] /\ ops' = ops /\ faults' = faults /\ UNCHANGED <<net, told, history>>
  BY <1>3 DEF QueryHistory, Go
<1>. QED  BY <1>2, <1>4, <1>5, <1>6, Quiet

(* The transfers that have not arrived are looked up.                       *)
LEMMA QueryActivityKeeps ==
  ASSUME FastRight, NEW a \in Actors, QueryActivity(a)
  PROVE  FastRight'
<1>1. In(a, "fast", "portal") /\ UNCHANGED <<net, history>>
  BY DEF QueryActivity
<1>2. /\ a \in Fast /\ at[a].pc = "portal" /\ IsCommand(at[a]) /\ CommandRight(at[a]) /\ StagesRight(at[a])
      /\ at[a].seen \subseteq AllTx /\ at[a].tx \in AllTx
  BY <1>1, InFast
<1>3. CASE Finish(a, "shown", NoTx, FALSE)
  BY <1>1, <1>2, <1>3, Ended
<1>4. CASE \E hash \in net.arrived : Move(a, [at[a] EXCEPT !.pc = "update", !.update = hash], FALSE) /\ UNCHANGED told
  <2>1. PICK hash \in net.arrived : Move(a, [at[a] EXCEPT !.pc = "update", !.update = hash], FALSE) /\ UNCHANGED told
    BY <1>4
  <2>2. PICK s : s = [at[a] EXCEPT !.pc = "update", !.update = hash]
    OBVIOUS
  <2>3. /\ IsCommand(s) /\ s.id = at[a].id /\ s.command = at[a].command /\ s.pc = "update" /\ s.update = hash
        /\ s.seen = at[a].seen /\ s.tx = at[a].tx /\ s.kind = at[a].kind
    BY <1>2, <2>2 DEF IsCommand, CommandFields
  <2>4. CommandRight(s)
    BY <1>2, <2>3 DEF CommandRight, StagesRight, Builds
  <2>. QED  BY <1>1, <1>2, <2>1, <2>2, <2>3, <2>4, Moved
<1>5. CASE \E hash, fault : Move(a, [at[a] EXCEPT !.approved = @ \ {hash}], fault) /\ UNCHANGED told
  <2>1. PICK hash, fault : Move(a, [at[a] EXCEPT !.approved = @ \ {hash}], fault) /\ UNCHANGED told
    BY <1>5
  <2>2. PICK s : s = [at[a] EXCEPT !.approved = @ \ {hash}]
    OBVIOUS
  <2>3. /\ IsCommand(s) /\ s.id = at[a].id /\ s.command = at[a].command /\ s.pc = "portal"
        /\ s.seen = at[a].seen /\ s.tx = at[a].tx /\ s.kind = at[a].kind
    BY <1>2, <2>2 DEF IsCommand, CommandFields
  <2>4. CommandRight(s)
    BY <1>2, <2>3 DEF CommandRight, StagesRight, Builds
  <2>. QED  BY <1>1, <1>2, <2>1, <2>2, <2>3, <2>4, Moved
<1>. QED  BY <1>3, <1>4, <1>5 DEF QueryActivity

(* A command dies.                                                          *)
LEMMA DiesKeeps ==
  ASSUME FastRight, NEW a \in Fast, Dies(a)
  PROVE  FastRight'
<1>1. at' = [at EXCEPT ![a] = Idle] /\ ops' = ops /\ faults' = faults + 1 /\ UNCHANGED <<net, told, history>>
  BY DEF Dies, Fault, local
<1>. QED  BY <1>1, Quiet

-----------------------------------------------------------------------------
(* The network changes, and no command does anything.                       *)
LEMMA NetworkKeeps ==
  ASSUME FastRight, UNCHANGED <<at, ops, faults, told, history>>, net' = [f \in NetFields |-> net'[f]],
         net.txs \subseteq net'.txs, net.arrived \subseteq net'.arrived, net.waiting \subseteq net'.waiting \cup net'.txs,
         net'.taken = net.taken, net'.bridged = net.bridged, net'.txs \cup net'.waiting \cup Held' \subseteq AllTx
  PROVE  FastRight'
<1>1. Shapes /\ Numbers /\ Silent /\ TxsRight /\ CommandsRight /\ OutcomeTruthful /\ HistoryRight
  BY HistoryForm DEF FastRight
<1>2. at' = at /\ ops' = ops /\ faults' = faults /\ told' = told /\ history' = history /\ Fast' = Fast
  BY DEF Fast
<1>3. Shapes'
  BY <1>1, <1>2 DEF Shapes, IsCommand, IsWait, MakeHistoryEntry, Idle
<1>4. Numbers' /\ Silent'
  BY <1>1, <1>2 DEF Numbers, Silent
<1>5. AllTx' \subseteq AllTx
  <2>1. SUFFICES ASSUME NEW y \in AllTx' PROVE y \in AllTx
    OBVIOUS
  <2>2. \/ y = NoTx \/ y \in net'.txs \cup net'.waiting \cup Held'
        \/ \E b \in Fast : y \in at[b].seen \/ y = at[b].tx
    BY <1>2, <2>1 DEF AllTx
  <2>. QED  BY <2>2 DEF AllTx
<1>6. TxsRight'
  BY <1>1, <1>2, <1>5 DEF TxsRight, Spends, Builds
<1>7. CommandsRight'
  <2>1. \A b \in Fast : \A c : c = at[b] => CommandRight(c)'
    BY <1>1 DEF CommandsRight, CommandRight
  <2>. QED  BY <1>2, <2>1 DEF CommandsRight
<1>8. OutcomeTruthful'
  BY <1>1, <1>2 DEF OutcomeTruthful
<1>9. HistoryRight'
  BY <1>1, <1>2 DEF HistoryRight, RowRight, Recorded
<1>10. HistoryTruthful'
  BY <1>9, HistoryForm, PTL
<1>. QED  BY <1>3, <1>4, <1>6, <1>7, <1>8, <1>10 DEF FastRight

(* The fields of the network.                                               *)
IsNet(n) == n = [f \in NetFields |-> n[f]]
(* What the network becomes when it accepts a transaction.                  *)
LEMMA Accepts ==
  ASSUME IsNet(net), NEW tx, NEW n, n = Accept(net, tx)
  PROVE  /\ IsNet(n) /\ n.txs = net.txs \cup {tx} /\ n.waiting = net.waiting \ {tx}
         /\ n.proposals = {p \in net.proposals : p.tx # tx}
         /\ n.taken = net.taken /\ n.bridged = net.bridged /\ n.arrived = net.arrived
BY DEF IsNet, NetFields, Accept

(* What the network becomes when it holds a transaction for more signatures.*)
LEMMA Collects ==
  ASSUME IsNet(net), NEW tx, NEW m, NEW n \in Collect(net, tx, m)
  PROVE  /\ IsNet(n) /\ n.txs = net.txs /\ n.waiting = net.waiting /\ n.next = net.next
         /\ n.taken = net.taken /\ n.bridged = net.bridged /\ n.arrived = net.arrived
         /\ \A p \in n.proposals : p \in net.proposals \/ p.tx = tx
         /\ \/ \A p \in net.proposals : p.tx # tx => p \in n.proposals
            \/ \A p \in net.proposals : p.tx # tx /\ (p.tx.nonce # tx.nonce => p \in n.proposals)
         /\ \E p \in n.proposals : p.tx = tx
<1>1. PICK P, e : /\ n = [net EXCEPT !.proposals = P] /\ e.tx = tx /\ e \in P
                  /\ \A p \in P : p \in net.proposals \/ p = e
                  /\ \/ \A p \in net.proposals : p.tx # tx => p \in P
                     \/ \A p \in net.proposals : p.tx # tx /\ (p.tx.nonce # tx.nonce => p \in P)
  <2>1. PICK known, e, others :
          /\ known = (\E p \in net.proposals : p.tx = tx)
          /\ e = [tx |-> tx, signed |-> Signatures(tx) \cup {m}]
          /\ others = {p \in net.proposals : p.tx # tx}
    OBVIOUS
  <2>2. \/ n = [net EXCEPT !.proposals = others \cup {e}]
        \/ (\A p \in net.proposals : p.tx # tx) /\ n = [net EXCEPT !.proposals = {p \in others : p.tx.nonce # tx.nonce} \cup {e}]
    BY <2>1 DEF Collect
  <2>3. e.tx = tx
    BY <2>1
  <2>4. CASE n = [net EXCEPT !.proposals = others \cup {e}]
    <3>1. PICK P : P = others \cup {e}
      OBVIOUS
    <3>2. n = [net EXCEPT !.proposals = P] /\ e \in P /\ (\A p \in P : p \in net.proposals \/ p = e)
          /\ (\A p \in net.proposals : p.tx # tx => p \in P)
      BY <2>1, <2>4, <3>1
    <3>. QED  BY <2>3, <3>2
  <2>5. CASE (\A p \in net.proposals : p.tx # tx) /\ n = [net EXCEPT !.proposals = {p \in others : p.tx.nonce # tx.nonce} \cup {e}]
    <3>1. PICK P : P = {p \in others : p.tx.nonce # tx.nonce} \cup {e}
      OBVIOUS
    <3>2. n = [net EXCEPT !.proposals = P] /\ e \in P /\ (\A p \in P : p \in net.proposals \/ p = e)
          /\ (\A p \in net.proposals : p.tx # tx /\ (p.tx.nonce # tx.nonce => p \in P))
      BY <2>1, <2>5, <3>1
    <3>. QED  BY <2>3, <3>2
  <2>. QED  BY <2>2, <2>4, <2>5
<1>2. /\ IsNet(n) /\ n.txs = net.txs /\ n.waiting = net.waiting /\ n.next = net.next
      /\ n.taken = net.taken /\ n.bridged = net.bridged /\ n.arrived = net.arrived /\ n.proposals = P
  BY <1>1 DEF IsNet, NetFields
<1>. QED  BY <1>1, <1>2

(* What may come of a submission, as the answer to it says.                 *)
LEMMA Submitted ==
  ASSUME IsNet(net), NEW op, NEW tx, NEW m, NEW reply, Receive(op, tx, m, reply)
  PROVE  /\ NetGrows(op, tx) /\ net'.bridged = net.bridged
         /\ (reply = "Success" => tx \in net'.txs)
         /\ (reply = "IncompleteMultiSig" => tx.sender = Shared /\ op \in net'.taken)
         /\ (reply = "IncompleteVerifierSigs" => tx \in net'.waiting)
         /\ (reply \in {"rejected", "busy"} => net' = net)
<1>1. Held = {p.tx : p \in net.proposals} /\ Held' = {p.tx : p \in net'.proposals} /\ Held \subseteq AllTx
      /\ net.txs \subseteq AllTx /\ net.waiting \subseteq AllTx
  BY DEF Held, PendingMultisigTransactions, AllTx
<1>2. \A n : IsNet(n) => LET t == [n EXCEPT !.taken = @ \cup {op}] IN
        /\ IsNet(t) /\ t.taken = n.taken \cup {op} /\ t.txs = n.txs /\ t.waiting = n.waiting /\ t.proposals = n.proposals
        /\ t.bridged = n.bridged /\ t.arrived = n.arrived
  BY DEF IsNet, NetFields
<1>3. CASE \E n : n = Accept(net, tx) /\ net' = [n EXCEPT !.taken = @ \cup {op}] /\ reply \in Garbled \cup {"Success"}
  <2>1. PICK n : n = Accept(net, tx) /\ net' = [n EXCEPT !.taken = @ \cup {op}] /\ reply \in Garbled \cup {"Success"}
    BY <1>3
  <2>2. /\ IsNet(n) /\ n.txs = net.txs \cup {tx} /\ n.waiting = net.waiting \ {tx}
        /\ n.proposals = {p \in net.proposals : p.tx # tx}
        /\ n.taken = net.taken /\ n.bridged = net.bridged /\ n.arrived = net.arrived
    BY <2>1, Accepts
  <2>3. /\ IsNet(net') /\ net'.taken = net.taken \cup {op} /\ net'.txs = net.txs \cup {tx} /\ net'.waiting = net.waiting \ {tx}
        /\ net'.proposals \subseteq net.proposals /\ net'.bridged = net.bridged /\ net'.arrived = net.arrived
    BY <1>2, <2>1, <2>2
  <2>4. Held' \subseteq AllTx
    BY <1>1, <2>3
  <2>. QED  BY <1>1, <2>1, <2>3, <2>4 DEF NetGrows, IsNet, Garbled
<1>4. CASE net' = [[net EXCEPT !.waiting = @ \cup {tx}] EXCEPT !.taken = @ \cup {op}]
           /\ reply \in {"lost", "IncompleteVerifierSigs"}
  <2>1. /\ IsNet(net') /\ net'.taken = net.taken \cup {op} /\ net'.txs = net.txs /\ net'.waiting = net.waiting \cup {tx}
        /\ net'.proposals = net.proposals /\ net'.bridged = net.bridged /\ net'.arrived = net.arrived
    BY <1>4 DEF IsNet, NetFields
  <2>. QED  BY <1>1, <1>4, <2>1 DEF NetGrows, IsNet
<1>5. CASE /\ \E n \in Collect(net, tx, m) : net' = [n EXCEPT !.taken = @ \cup {op}]
           /\ reply \in {"lost", "IncompleteMultiSig"} /\ ~Enough(tx, m)
  <2>1. PICK n \in Collect(net, tx, m) : net' = [n EXCEPT !.taken = @ \cup {op}]
    BY <1>5
  <2>2. /\ IsNet(n) /\ n.txs = net.txs /\ n.waiting = net.waiting
        /\ n.taken = net.taken /\ n.bridged = net.bridged /\ n.arrived = net.arrived
        /\ \A p \in n.proposals : p \in net.proposals \/ p.tx = tx
    BY <2>1, Collects
  <2>3. /\ IsNet(net') /\ net'.taken = net.taken \cup {op} /\ net'.txs = net.txs /\ net'.waiting = net.waiting
        /\ (\A p \in net'.proposals : p \in net.proposals \/ p.tx = tx)
        /\ net'.bridged = net.bridged /\ net'.arrived = net.arrived
    BY <1>2, <2>1, <2>2
  <2>4. Held' \subseteq AllTx \cup {tx}
    BY <1>1, <2>3
  <2>5. tx.sender = Shared
    BY <1>5 DEF Enough
  <2>. QED  BY <1>1, <1>5, <2>3, <2>4, <2>5 DEF NetGrows, IsNet
<1>6. CASE UNCHANGED net /\ reply \in {"lost", "rejected", "busy"}
  BY <1>1, <1>6 DEF NetGrows, IsNet
<1>. QED  BY <1>3, <1>4, <1>5, <1>6 DEF Receive

(* What the pipeline makes of an answer.                                    *)
LEMMA Classified ==
  ASSUME NEW reply \in Replies, NEW multisig, NEW result, result = Classify(reply, multisig)
  PROVE  /\ result \in {"success", "incomplete", "failed", "unknown"}
         /\ (result = "success" => reply = "Success")
         /\ (result = "incomplete" => reply = "IncompleteMultiSig")
         /\ (result = "failed" => reply = "rejected" \/ (reply = "IncompleteMultiSig" /\ ~multisig))
<1>1. reply \in {"lost", "other", "Success", "IncompleteVerifierSigs", "IncompleteMultiSig", "rejected", "busy"}
  BY DEF Replies, Garbled
<1>. QED  BY <1>1 DEF Classify, ClassifySubmissionError, IsDefinitiveSubmissionFailure, SuccessCertificateMatches

(* The submission of an operation, or of a vote.                            *)
LEMMA SubmissionKeeps ==
  ASSUME FastRight, NEW a \in Actors, In(a, "fast", "submit"), at[a].command \in {"operation", "vote"},
         NEW x, x \in AllTx \/ (Builds(at[a]) /\ x.id = at[a].id /\ x.kind = at[a].kind),
         at[a].command = "operation" => x.kind = at[a].kind,
         NEW multisig, x.sender = Shared => multisig, NEW reply \in Replies, NEW fault,
         Receive(at[a].id, x, at[a].m, reply), After(a, x, Classify(reply, multisig), fault), UNCHANGED history
  PROVE  FastRight'
<1>1. /\ a \in Fast /\ at[a].pc = "submit" /\ IsCommand(at[a]) /\ CommandRight(at[a]) /\ StagesRight(at[a])
      /\ at[a].seen \subseteq AllTx /\ at[a].tx \in AllTx
  BY InFast
<1>2. Shapes /\ Numbers /\ Silent /\ OutcomeTruthful
  BY DEF FastRight
<1>3. PICK i, result : i = at[a].id /\ result = Classify(reply, multisig)
  OBVIOUS
<1>4. i \in 1..MaxOps
  <2>1. i \in 1..ops /\ ops \in Nat /\ ops <= MaxOps /\ MaxOps \in Nat
    BY <1>1, <1>2, <1>3, ActivityBounds DEF Shapes, Numbers, ActivityBounds
  <2>. QED  BY <2>1
<1>5. told[i].result = "none" /\ i \notin net.taken
  BY <1>1, <1>2, <1>3 DEF Silent
<1>6. /\ result \in {"success", "incomplete", "failed", "unknown"}
      /\ (result = "success" => reply = "Success")
      /\ (result = "incomplete" => reply = "IncompleteMultiSig")
      /\ (result = "failed" => reply = "rejected" \/ (reply = "IncompleteMultiSig" /\ ~multisig))
  BY <1>3, Classified
<1>7. IsNet(net)
  BY <1>2 DEF Shapes, IsNet
<1>8. PICK m : m = at[a].m
  OBVIOUS
<1>9. /\ NetGrows(i, x) /\ net'.bridged = net.bridged
      /\ (reply = "Success" => x \in net'.txs)
      /\ (reply = "IncompleteMultiSig" => x.sender = Shared /\ i \in net'.taken)
      /\ (reply \in {"rejected", "busy"} => net' = net)
  BY <1>3, <1>7, <1>8, Submitted
<1>10. CASE result = "success"
  <2>1. PICK s, o : s = [at[a] EXCEPT !.pc = "record", !.tx = x] /\ o = told[i]
    OBVIOUS
  <2>2. at' = [at EXCEPT ![a] = s] /\ ops' = ops /\ faults' \in {faults, faults + 1} /\ told' = told
    BY <1>3, <1>10, <2>1 DEF After, Move
  <2>3. /\ IsCommand(s) /\ s.id = i /\ s.pc = "record" /\ s.command = at[a].command /\ s.tx = x /\ s.seen = at[a].seen
        /\ s.kind = at[a].kind
    BY <1>1, <1>3, <2>1 DEF IsCommand, CommandFields
  <2>4. o.result = "none" /\ o = [result |-> o.result, tx |-> o.tx] /\ told' = [told EXCEPT ![i] = o]
    BY <1>2, <1>4, <1>5, <2>1, <2>2 DEF Shapes
  <2>5. \A j : j = i => Truthful(j, o)'
    BY <2>4 DEF Truthful
  <2>6. x \in net'.txs
    BY <1>6, <1>9, <1>10
  <2>7. ~Spends(s) /\ ~Builds(s)
    BY <2>3 DEF Spends, Builds
  <2>8. CommandRight(s)' /\ SilentOf(s)'
    BY <1>5, <2>2, <2>3, <2>6, <2>7 DEF CommandRight, SilentOf, StagesRight, Builds
  <2>9. CommandStep(a, s, x, o)
    BY <1>1, <1>3, <1>9, <2>2, <2>3, <2>4, <2>5, <2>7, <2>8 DEF CommandStep
  <2>. QED  BY <2>4, <2>9, StepKeeps
<1>11. CASE result # "success"
  <2>1. PICK o : o = [result |-> result, tx |-> x]
    OBVIOUS
  <2>2. at' = [at EXCEPT ![a] = Idle] /\ ops' = ops /\ faults' \in {faults, faults + 1} /\ told' = [told EXCEPT ![i] = o]
    BY <1>3, <1>5, <1>11, <2>1 DEF After, Finish, Outcome, Move
  <2>3. o = [result |-> o.result, tx |-> o.tx] /\ o.result = result /\ o.tx = x
    BY <2>1
  <2>4. result = "failed" => i \notin net'.taken
    BY <1>5, <1>6, <1>9
  <2>5. result = "incomplete" => i \in net'.taken
    BY <1>6, <1>9
  <2>6. \A j : j = i => Truthful(j, o)'
    BY <1>6, <1>11, <2>3, <2>4, <2>5 DEF Truthful
  <2>7. CommandStep(a, Idle, x, o)
    BY <1>1, <1>3, <1>9, <2>2, <2>6 DEF CommandStep
  <2>. QED  BY <1>6, <1>11, <2>3, <2>7, StepKeeps
<1>. QED  BY <1>10, <1>11

(* The command submits its transaction.                                     *)
LEMMA SubmitOperationKeeps ==
  ASSUME FastRight, NEW a \in Actors, SubmitOperation(a)
  PROVE  FastRight'
<1>1. In(a, "fast", "submit") /\ at[a].command = "operation" /\ UNCHANGED history
  BY DEF SubmitOperation
<1>2. IsCommand(at[a]) /\ at[a].pc = "submit"
  BY <1>1, InFast
<1>3. PICK x, multisig : x = Built(at[a]) /\ multisig = (at[a].sender = Shared)
  OBVIOUS
<1>4. x.id = at[a].id /\ x.kind = at[a].kind /\ (x.sender = Shared => multisig)
  BY <1>2, <1>3, QuorumAssumption DEF Built, BuildTransaction, SignSingle, IsCommand, QuorumAssumption
<1>5. Builds(at[a])
  BY <1>1, <1>2 DEF Builds
<1>6. PICK reply, fault :
        reply \in Replies /\ Receive(at[a].id, x, at[a].m, reply) /\ After(a, x, Classify(reply, multisig), fault)
  <2>1. PICK reply \in Replies :
          /\ Receive(at[a].id, x, at[a].m, reply)
          /\ After(a, x, Classify(reply, at[a].sender = Shared), ReplyFault(x, reply))
    BY <1>3 DEF SubmitOperation
  <2>2. PICK fault : fault = ReplyFault(x, reply)
    OBVIOUS
  <2>3. After(a, x, Classify(reply, multisig), fault)
    BY <1>3, <2>1, <2>2, Zenon
  <2>. QED  BY <2>1, <2>3
<1>. QED  BY <1>1, <1>4, <1>5, <1>6, SubmissionKeeps

(* The vote submits the proposal it signed.                                 *)
LEMMA SubmitVoteKeeps ==
  ASSUME FastRight, NEW a \in Actors, SubmitVote(a)
  PROVE  FastRight'
<1>1. In(a, "fast", "submit") /\ at[a].command = "vote" /\ UNCHANGED history
  BY DEF SubmitVote
<1>2. PICK x : x = at[a].tx
  OBVIOUS
<1>3. x \in AllTx
  BY <1>1, <1>2, InFast
<1>4. PICK reply, fault :
        reply \in Replies /\ Receive(at[a].id, x, at[a].m, reply) /\ After(a, x, Classify(reply, TRUE), fault)
  BY <1>2 DEF SubmitVote, VoteReachedQuorum
<1>5. PICK multisig : multisig = TRUE
  OBVIOUS
<1>6. After(a, x, Classify(reply, multisig), fault)
  BY <1>4, <1>5
<1>. QED  BY <1>1, <1>3, <1>4, <1>5, <1>6, SubmissionKeeps

(* The submission of a page, which may try what it has prepared again.      *)
LEMMA SubmitKeeps ==
  ASSUME FastRight, NEW a \in Actors, Submit(a)
  PROVE  FastRight'
<1>1. In(a, "fast", "submit") /\ at[a].command \in {"submitPrepared", "sdkVote"} /\ UNCHANGED history
  BY DEF Submit
<1>2. /\ a \in Fast /\ at[a].pc = "submit" /\ IsCommand(at[a]) /\ CommandRight(at[a]) /\ StagesRight(at[a])
      /\ at[a].seen \subseteq AllTx /\ at[a].tx \in AllTx
  BY <1>1, InFast
<1>3. Shapes /\ Numbers /\ Silent
  BY DEF FastRight
<1>4. PICK i, x, m, before : i = at[a].id /\ x = at[a].tx /\ m = at[a].m /\ before = told[at[a].id].result
  OBVIOUS
<1>5. i \in 1..MaxOps
  <2>1. i \in 1..ops /\ ops \in Nat /\ ops <= MaxOps /\ MaxOps \in Nat
    BY <1>2, <1>3, <1>4, ActivityBounds DEF Shapes, Numbers, ActivityBounds
  <2>. QED  BY <2>1
<1>6. before \in {"none", "unknown"} /\ (before = "none" => i \notin net.taken)
  BY <1>2, <1>3, <1>4 DEF Silent
<1>7. PICK again : again = [at[a] EXCEPT !.pc = "fetch", !.nonce = -1, !.seen = {}]
  OBVIOUS
<1>8. PICK reply \in Replies :
        /\ Receive(i, x, m, reply)
        /\ Outcome(a, SubmissionResult(reply), x)
        /\ \E next \in {Idle} \cup (IF Retries(a, SubmissionResult(reply)) THEN {again} ELSE {}) :
             Move(a, next, ReplyFault(x, reply))
  BY <1>4, <1>7 DEF Submit
<1>9. PICK result, fault : result = SubmissionResult(reply) /\ fault = ReplyFault(x, reply)
  OBVIOUS
<1>10. /\ result \in {"failed", "incomplete", "waiting", "submitted", "unknown"}
       /\ (result = "failed" => reply \in {"rejected", "busy"}) /\ (result = "incomplete" => reply = "IncompleteMultiSig")
       /\ (result = "waiting" => reply = "IncompleteVerifierSigs") /\ (result = "submitted" => reply = "Success")
  BY <1>9 DEF SubmissionResult, IsDefinitiveSubmissionRejection
<1>11. IsNet(net)
  BY <1>3 DEF Shapes, IsNet
<1>12. /\ NetGrows(i, x) /\ net'.bridged = net.bridged
       /\ (reply = "Success" => x \in net'.txs)
       /\ (reply = "IncompleteMultiSig" => x.sender = Shared /\ i \in net'.taken)
       /\ (reply = "IncompleteVerifierSigs" => x \in net'.waiting)
       /\ (reply \in {"rejected", "busy"} => net' = net)
  BY <1>8, <1>11, Submitted
<1>13. PICK o : o = [result |-> IF result = "failed" /\ before # "none" THEN before ELSE result,
                     tx |-> IF result = "failed" /\ before # "none" THEN told[i].tx ELSE x]
  OBVIOUS
<1>14. told' = [told EXCEPT ![i] = o]
  BY <1>3, <1>4, <1>5, <1>8, <1>9, <1>13 DEF Outcome, Shapes
<1>15. /\ o = [result |-> o.result, tx |-> o.tx]
       /\ (o.result = "unknown" \/ (o.result = result /\ o.tx = x /\ (result = "failed" => before = "none")))
  BY <1>6, <1>13
<1>16. \A j : j = i => Truthful(j, o)'
  BY <1>6, <1>10, <1>12, <1>15 DEF Truthful
<1>17. PICK next : /\ at' = [at EXCEPT ![a] = next] /\ ops' = ops /\ faults' \in {faults, faults + 1}
                   /\ (next = Idle \/ (next = again /\ Retries(a, result)))
  BY <1>8, <1>9 DEF Move
<1>18. CASE next = Idle
  <2>1. CommandStep(a, Idle, x, o)
    BY <1>2, <1>4, <1>12, <1>14, <1>16, <1>17, <1>18 DEF CommandStep
  <2>. QED  BY <1>1, <1>10, <1>15, <2>1, StepKeeps
<1>19. CASE next = again /\ Retries(a, result)
  <2>1. result = "unknown" /\ at[a].command = "submitPrepared"
    BY <1>19 DEF Retries
  <2>2. IsCommand(again) /\ again.id = i /\ again.pc = "fetch" /\ again.command = "submitPrepared" /\ again.tx = x /\ again.seen = {}
    BY <1>2, <1>4, <1>7, <2>1 DEF IsCommand, CommandFields
  <2>3. ~Spends(again) /\ ~Builds(again)
    BY <2>2 DEF Spends, Builds
  <2>4. o.result = "unknown"
    BY <1>15, <2>1
  <2>5. told'[i] = o
    BY <1>3, <1>5, <1>14 DEF Shapes
  <2>6. CommandRight(again)' /\ SilentOf(again)'
    BY <2>2, <2>3, <2>4, <2>5 DEF CommandRight, SilentOf, StagesRight, Builds
  <2>7. CommandStep(a, again, x, o)
    BY <1>2, <1>4, <1>12, <1>14, <1>16, <1>17, <1>19, <2>2, <2>3, <2>6 DEF CommandStep
  <2>. QED  BY <1>1, <1>15, <2>4, <2>7, StepKeeps
<1>. QED  BY <1>17, <1>18, <1>19

(* The call of the bridge.                                                  *)
LEMMA BridgeCallKeeps ==
  ASSUME FastRight, NEW a \in Actors, BridgeCall(a)
  PROVE  FastRight'
<1>1. In(a, "fast", "bridge") /\ UNCHANGED history
  BY DEF BridgeCall
<1>2. /\ a \in Fast /\ at[a].pc = "bridge" /\ IsCommand(at[a]) /\ CommandRight(at[a]) /\ StagesRight(at[a])
      /\ at[a].seen \subseteq AllTx /\ at[a].tx \in AllTx /\ NoTx \in AllTx
  BY <1>1, InFast
<1>3. Shapes /\ Numbers /\ Silent
  BY DEF FastRight
<1>4. PICK i : i = at[a].id
  OBVIOUS
<1>5. i \in 1..MaxOps
  <2>1. i \in 1..ops /\ ops \in Nat /\ ops <= MaxOps /\ MaxOps \in Nat
    BY <1>2, <1>3, <1>4, ActivityBounds DEF Shapes, Numbers, ActivityBounds
  <2>. QED  BY <2>1
<1>6. at[a].command = "transfer" /\ told[i].result = "none" /\ i \notin net.taken
  BY <1>2, <1>3, <1>4 DEF Silent, StagesRight
<1>7. net' \in {net, [net EXCEPT !.bridged = @ \cup {i}]}
  BY <1>4 DEF BridgeCall
<1>8. /\ IsNet(net') /\ net'.proposals = net.proposals /\ net'.txs = net.txs /\ net'.waiting = net.waiting
      /\ net'.taken = net.taken /\ net'.arrived = net.arrived
      /\ net.bridged \subseteq net'.bridged /\ net'.bridged \subseteq net.bridged \cup {i}
  BY <1>3, <1>7 DEF Shapes, IsNet, NetFields
<1>9. Held' = Held /\ net.txs \cup net.waiting \cup Held \subseteq AllTx
  BY <1>8 DEF Held, PendingMultisigTransactions, AllTx
<1>10. NetGrows(i, NoTx)
  BY <1>8, <1>9 DEF NetGrows, IsNet
<1>11. CASE Refuse(a, TRUE)
  <2>1. PICK o : o = [result |-> "failed", tx |-> NoTx]
    OBVIOUS
  <2>2. at' = [at EXCEPT ![a] = Idle] /\ ops' = ops /\ faults' \in {faults, faults + 1} /\ told' = [told EXCEPT ![i] = o]
    BY <1>4, <1>6, <1>11, <2>1 DEF Refuse, Finish, Outcome, Move
  <2>3. \A j : j = i => Truthful(j, o)'
    BY <1>6, <1>8, <2>1 DEF Truthful
  <2>4. CommandStep(a, Idle, NoTx, o)
    BY <1>2, <1>4, <1>6, <1>10, <2>2, <2>3 DEF CommandStep
  <2>. QED  BY <1>1, <2>1, <2>4, StepKeeps
<1>12. CASE net' = [net EXCEPT !.bridged = @ \cup {i}] /\ Goto(a, "bridged") /\ UNCHANGED told
  <2>1. PICK s, o : s = [at[a] EXCEPT !.pc = "bridged"] /\ o = told[i]
    OBVIOUS
  <2>2. at' = [at EXCEPT ![a] = s] /\ ops' = ops /\ faults' \in {faults, faults + 1} /\ told' = told
    BY <1>12, <2>1 DEF Goto, Go
  <2>3. /\ IsCommand(s) /\ s.id = i /\ s.pc = "bridged" /\ s.command = "transfer" /\ s.tx = at[a].tx /\ s.seen = at[a].seen
        /\ s.kind = at[a].kind
    BY <1>2, <1>4, <1>6, <2>1 DEF IsCommand, CommandFields
  <2>4. o.result = "none" /\ o = [result |-> o.result, tx |-> o.tx] /\ told' = [told EXCEPT ![i] = o]
    BY <1>3, <1>5, <1>6, <2>1, <2>2 DEF Shapes
  <2>5. \A j : j = i => Truthful(j, o)'
    BY <2>4 DEF Truthful
  <2>6. i \in net'.bridged
    BY <1>3, <1>12 DEF Shapes, NetFields
  <2>7. Spends(at[a]) /\ ~Builds(s)
    BY <1>2, <1>6, <2>3 DEF Spends, Builds
  <2>8. CommandRight(s)' /\ SilentOf(s)'
    BY <1>2, <1>6, <1>8, <2>2, <2>3, <2>6 DEF CommandRight, SilentOf, StagesRight, Builds
  <2>9. CommandStep(a, s, NoTx, o)
    BY <1>2, <1>4, <1>6, <1>10, <2>2, <2>3, <2>4, <2>5, <2>7, <2>8 DEF CommandStep
  <2>. QED  BY <1>1, <2>4, <2>9, StepKeeps
<1>. QED  BY <1>4, <1>11, <1>12 DEF BridgeCall

(* The network goes on by itself.                                           *)
LEMMA ConfirmKeeps ==
  ASSUME FastRight, Confirm, UNCHANGED history
  PROVE  FastRight'
<1>1. PICK w \in net.waiting : net' = Accept(net, w)
  BY DEF Confirm
<1>2. PICK n : n = net'
  OBVIOUS
<1>3. IsNet(net)
  BY DEF FastRight, Shapes, IsNet
<1>4. /\ IsNet(n) /\ n.txs = net.txs \cup {w} /\ n.waiting = net.waiting \ {w}
      /\ n.proposals = {p \in net.proposals : p.tx # w}
      /\ n.taken = net.taken /\ n.bridged = net.bridged /\ n.arrived = net.arrived
  BY <1>1, <1>2, <1>3, Accepts
<1>5. Held' \subseteq Held
  BY <1>2, <1>4 DEF Held, PendingMultisigTransactions
<1>6. net.txs \cup net.waiting \cup Held \subseteq AllTx
  BY DEF AllTx
<1>7. UNCHANGED <<at, ops, faults, told>>
  BY DEF Confirm, activity
<1>. QED  BY <1>2, <1>4, <1>5, <1>6, <1>7, NetworkKeeps DEF IsNet

(* A transfer arrives.                                                      *)
LEMMA ArriveKeeps ==
  ASSUME FastRight, Arrive, UNCHANGED history
  PROVE  FastRight'
<1>1. PICK id : net' = [net EXCEPT !.arrived = @ \cup {id}]
  BY DEF Arrive
<1>2. /\ net' = [f \in NetFields |-> net'[f]] /\ net'.txs = net.txs /\ net'.waiting = net.waiting /\ net'.proposals = net.proposals
      /\ net'.taken = net.taken /\ net'.bridged = net.bridged /\ net.arrived \subseteq net'.arrived
  BY <1>1 DEF FastRight, Shapes, NetFields
<1>3. Held' = Held
  BY <1>2 DEF Held, PendingMultisigTransactions
<1>4. net.txs \cup net.waiting \cup Held \subseteq AllTx
  BY DEF AllTx
<1>5. UNCHANGED <<at, ops, faults, told>>
  BY DEF Arrive, activity
<1>. QED  BY <1>2, <1>3, <1>4, <1>5, NetworkKeeps

-----------------------------------------------------------------------------
(* What becomes of a table of rows when one is inserted or updated.         *)
RowsKept(rows, new, h, status) ==
  /\ \A r \in new : r = MakeHistoryEntry(r.hash, r.kind, r.status)
  /\ \A q \in rows : q \in new \/ (q.hash = h /\ MakeHistoryEntry(h, q.kind, status) \in new)

(* The fields of a row.                                                     *)
LEMMA RowFields ==
  ASSUME NEW h, NEW k, NEW status
  PROVE  /\ MakeHistoryEntry(h, k, status).hash = h /\ MakeHistoryEntry(h, k, status).kind = k
         /\ MakeHistoryEntry(h, k, status).status = status
BY DEF MakeHistoryEntry

(* A row with another status.                                               *)
LEMMA StatusOnly ==
  ASSUME NEW r, r = MakeHistoryEntry(r.hash, r.kind, r.status), NEW status
  PROVE  [r EXCEPT !.status = status] = MakeHistoryEntry(r.hash, r.kind, status)
BY DEF MakeHistoryEntry

AllEntries(rows) == \A r \in rows : r = MakeHistoryEntry(r.hash, r.kind, r.status)
(* The entries of a hash have another status in the new table.              *)
Marks(rows, new, h, status) ==
  /\ RowsKept(rows, new, h, status)
  /\ \A r \in new : r \in rows \/ \E q \in rows : q.hash = h /\ r = MakeHistoryEntry(h, q.kind, status)
(* Marking the entries of a hash changes their status only.                 *)
LEMMA Updated ==
  ASSUME NEW rows, AllEntries(rows), NEW h, NEW status
  PROVE  Marks(rows, UpdateStatus(rows, h, status), h, status)
<1>0. PICK new : new = UpdateStatus(rows, h, status)
  OBVIOUS
<1>1. \A r \in rows : r.hash = h => [r EXCEPT !.status = status] = MakeHistoryEntry(h, r.kind, status)
  BY StatusOnly DEF AllEntries
<1>2. \A r \in new : r \in rows \/ \E q \in rows : q.hash = h /\ r = MakeHistoryEntry(h, q.kind, status)
  BY <1>0, <1>1 DEF UpdateStatus
<1>3. \A q \in rows : q \in new \/ (q.hash = h /\ MakeHistoryEntry(h, q.kind, status) \in new)
  BY <1>0, <1>1 DEF UpdateStatus
<1>4. \A r \in new : r = MakeHistoryEntry(r.hash, r.kind, r.status)
  BY <1>2, RowFields DEF AllEntries
<1>5. Marks(rows, new, h, status)
  BY <1>2, <1>3, <1>4 DEF RowsKept, Marks
<1>. QED  BY <1>0, <1>5

(* The entry is in the new table, or one of its hash that was there.        *)
Puts(rows, new, e, h, status) ==
  /\ RowsKept(rows, new, h, status)
  /\ (\A r \in new : \/ r \in rows \/ r = e
                     \/ \E q \in rows : q.hash = h /\ r = MakeHistoryEntry(h, q.kind, status))
  /\ (e \in new \/ \E q \in rows : q.hash = h /\ MakeHistoryEntry(h, q.kind, status) \in new)
(* Inserting an entry puts it, or one of a known hash, in the table.        *)
LEMMA Inserted ==
  ASSUME NEW rows, AllEntries(rows), NEW h, NEW kind, NEW status,
         NEW e, e = MakeHistoryEntry(h, kind, status)
  PROVE  Puts(rows, InsertHistoryEntry(rows, e), e, h, status)
<1>0. PICK new : new = InsertHistoryEntry(rows, e)
  OBVIOUS
<1>1. e = MakeHistoryEntry(h, kind, status) /\ \A r \in rows : r = MakeHistoryEntry(r.hash, r.kind, r.status)
  BY DEF AllEntries
<1>2. e.hash = h /\ e.kind = kind /\ e.status = status
  BY <1>1, RowFields
<1>3. CASE \E r \in rows : r.hash = h
  <2>1. new = UpdateStatus(rows, h, status)
    BY <1>0, <1>1, <1>2, <1>3 DEF InsertHistoryEntry, UpdateStatus
  <2>2. /\ RowsKept(rows, new, h, status)
        /\ \A r \in new : r \in rows \/ \E q \in rows : q.hash = h /\ r = MakeHistoryEntry(h, q.kind, status)
    BY <2>1, Updated DEF Marks
  <2>3. PICK q \in rows : q.hash = h
    BY <1>3
  <2>4. MakeHistoryEntry(h, q.kind, status) \in new
    BY <1>1, <2>1, <2>3, StatusOnly DEF UpdateStatus
  <2>. QED  BY <1>0, <2>2, <2>3, <2>4 DEF Puts
<1>4. CASE ~\E r \in rows : r.hash = h
  <2>1. new = rows \cup {e}
    BY <1>0, <1>1, <1>2, <1>4 DEF InsertHistoryEntry
  <2>2. \A r \in new : r = MakeHistoryEntry(r.hash, r.kind, r.status)
    BY <1>1, <1>2, <2>1
  <2>. QED  BY <1>0, <1>1, <2>1, <2>2 DEF RowsKept, Puts
<1>. QED  BY <1>3, <1>4

(* A step that records, and may tell of something done.                     *)
LEMMA RecordKeeps ==
  ASSUME FastRight, NEW a, NEW s, NEW x, NEW o, CommandStep(a, s, x, o),
         o = [result |-> o.result, tx |-> o.tx], UNCHANGED net,
         history' = [m \in Members |-> history'[m]], NEW h, NEW status, status = "confirmed" \/ h \in net.bridged,
         \A m \in Members : RowsKept(history[m], history'[m], h, status) /\ \A r \in history'[m] : RowRight(r),
         \A i : i = at[a].id => Recorded(i, o)'
  PROVE  FastRight'
<1>1. HistoryRight /\ Shapes /\ OutcomeTruthful /\ TxsRight
  BY HistoryForm DEF FastRight
<1>2. \A op \in 1..MaxOps : told'[op] = IF op = at[a].id THEN o ELSE told[op]
  BY StepShapes
<1>4. \A m \in Members : \A r \in history'[m] : RowRight(r)'
  BY DEF RowRight
<1>5. ASSUME NEW op \in 1..MaxOps, NEW t, t = told'[op] PROVE Recorded(op, t)'
  <2>1. CASE op = at[a].id
    BY <1>2, <1>5, <2>1
  <2>2. CASE op # at[a].id
    <3>1. t = told[op] /\ Recorded(op, t)
      BY <1>1, <1>2, <1>5, <2>2 DEF HistoryRight
    <3>2. ASSUME t.result = "success", t.tx.kind \in RecordedKinds
          PROVE  \E m \in Members : MakeVoteHistoryEntry(t.tx) \in history'[m]
      <4>1. PICK m \in Members : MakeVoteHistoryEntry(t.tx) \in history[m]
        BY <3>1, <3>2 DEF Recorded
      <4>2. t.tx \in net.txs
        BY <1>1, <3>1, <3>2 DEF OutcomeTruthful
      <4>3. t.tx.id \notin net.bridged
        BY <1>1, <4>2 DEF TxsRight, AllTx
      <4>4. PICK e : e = MakeVoteHistoryEntry(t.tx)
        OBVIOUS
      <4>5. e = MakeHistoryEntry(t.tx.id, t.tx.kind, "confirmed") /\ e.hash = t.tx.id /\ e.kind = t.tx.kind
        BY <4>4, RowFields DEF MakeVoteHistoryEntry
      <4>6. e \in history'[m] \/ (e.hash = h /\ MakeHistoryEntry(h, e.kind, status) \in history'[m])
        BY <4>1, <4>4 DEF RowsKept
      <4>. QED  BY <4>3, <4>4, <4>5, <4>6
    <3>3. ASSUME t.result = "transferred" PROVE \E m \in Members : \E r \in history'[m] : r.hash = op
      <4>0. PICK m \in Members : \E r \in history[m] : r.hash = op
        BY <3>1, <3>3 DEF Recorded
      <4>1. PICK r \in history[m] : r.hash = op
        BY <4>0
      <4>2. r \in history'[m] \/ (r.hash = h /\ MakeHistoryEntry(h, r.kind, status) \in history'[m])
        BY <4>1 DEF RowsKept
      <4>. QED  BY <4>1, <4>2, RowFields
    <3>. QED  BY <3>2, <3>3 DEF Recorded, MakeVoteHistoryEntry
  <2>. QED  BY <2>1, <2>2
<1>6. HistoryRight'
  BY <1>4, <1>5 DEF HistoryRight
<1>7. \A m \in Members : \A r \in history'[m] : r = MakeHistoryEntry(r.hash, r.kind, r.status)
  BY DEF RowsKept
<1>8. \A op \in 1..MaxOps : told'[op] = [result |-> told'[op].result, tx |-> told'[op].tx]
  BY <1>1, <1>2 DEF Shapes
<1>9. Shapes'
  BY <1>7, <1>8, StepShapes DEF Shapes, MakeHistoryEntry, IsCommand, IsWait, Idle
<1>10. HistoryTruthful'
  BY <1>6, HistoryForm, PTL
<1>. QED  BY <1>9, <1>10, StepNumbers, StepTxsRight, StepCommands, StepOutcomes DEF FastRight

(* A success is recorded, and told whether or not it could be.              *)
LEMMA RecordConfirmedKeeps ==
  ASSUME FastRight, NEW a \in Actors, In(a, "fast", "record"),
         RecordConfirmedHistory(a, MakeHistoryEntry(at[a].tx.id, at[a].tx.kind, "confirmed")), UNCHANGED net
  PROVE  FastRight'
<1>1. a \in Fast /\ at[a].pc = "record" /\ IsCommand(at[a]) /\ CommandRight(at[a]) /\ StagesRight(at[a]) /\ NoTx \in AllTx
  BY InFast
<1>2. Shapes /\ Numbers /\ Silent /\ TxsRight /\ HistoryRight /\ Held' = Held /\ net' = net
  BY HeldKept, HistoryForm DEF FastRight
<1>3. PICK i, m, x, h, kind, e, result, o :
        /\ i = at[a].id /\ m = at[a].m /\ x = at[a].tx /\ h = x.id /\ kind = x.kind
        /\ e = MakeHistoryEntry(h, kind, "confirmed") /\ o = [result |-> result, tx |-> x]
        /\ \/ /\ result = "success" /\ faults' = faults
              /\ history' = [history EXCEPT ![m] = InsertHistoryEntry(@, e)]
           \/ result = "unrecorded" /\ faults' = faults + 1 /\ history' = history
        /\ at' = [at EXCEPT ![a] = Idle] /\ ops' = ops /\ told' = [told EXCEPT ![i] = o]
  BY DEF RecordConfirmedHistory, Finish, Outcome, Move
<1>4. m \in Members /\ x \in net.txs
  BY <1>1, <1>3 DEF IsCommand, CommandRight
<1>5. i \in 1..MaxOps
  <2>1. i \in 1..ops /\ ops \in Nat /\ ops <= MaxOps /\ MaxOps \in Nat
    BY <1>1, <1>2, <1>3, ActivityBounds DEF Shapes, Numbers, ActivityBounds
  <2>. QED  BY <2>1
<1>6. x \in AllTx /\ net.txs \cup net.waiting \cup Held \subseteq AllTx
  BY <1>4 DEF AllTx
<1>7. h \notin net.bridged /\ kind \notin Routes /\ \A y \in net.txs : y.id = h => y.kind = kind
  BY <1>2, <1>3, <1>4, <1>6 DEF TxsRight
<1>8. told[i].result \in {"none", "unknown"}
  BY <1>1, <1>2, <1>3 DEF Silent
<1>9. NetGrows(i, NoTx)
  BY <1>2, <1>6 DEF NetGrows, Shapes
<1>11. o = [result |-> o.result, tx |-> o.tx] /\ \A j : j = i => Truthful(j, o)'
  BY <1>2, <1>3, <1>4 DEF Truthful
<1>12. CommandStep(a, Idle, NoTx, o)
  BY <1>1, <1>2, <1>3, <1>9, <1>11 DEF CommandStep
<1>13. CASE result = "success" /\ history' = [history EXCEPT ![m] = InsertHistoryEntry(@, e)]
  <2>1. PICK rows, new, status : rows = history[m] /\ new = InsertHistoryEntry(rows, e) /\ status = "confirmed"
    OBVIOUS
  <2>2. history' = [k \in Members |-> IF k = m THEN new ELSE history[k]]
    BY <1>2, <1>13, <2>1 DEF Shapes
  <2>3. (\A r \in rows : r = MakeHistoryEntry(r.hash, r.kind, r.status) /\ RowRight(r))
    BY <1>2, <1>4, <2>1 DEF Shapes, HistoryRight
  <2>3a. e = MakeHistoryEntry(h, kind, status)
    BY <1>3, <2>1
  <2>4. /\ RowsKept(rows, new, h, status)
        /\ (\A r \in new : \/ r \in rows \/ r = e
                           \/ \E q \in rows : q.hash = h /\ r = MakeHistoryEntry(h, q.kind, status))
        /\ (e \in new \/ \E q \in rows : q.hash = h /\ MakeHistoryEntry(h, q.kind, status) \in new)
    <3>1. AllEntries(rows)
      BY <2>3 DEF AllEntries
    <3>2. Puts(rows, InsertHistoryEntry(rows, e), e, h, status)
      BY <2>3a, <3>1, Inserted
    <3>. QED  BY <2>1, <3>2 DEF Puts
  <2>5. \A q \in rows : q.hash = h => q.kind = kind
    BY <1>7, <2>3 DEF RowRight
  <2>6. e \in new /\ \A r \in new : r \in rows \/ r = e
    BY <2>3a, <2>4, <2>5
  <2>7. RowRight(e)
    BY <1>3, <1>4, <1>7, RowFields DEF RowRight
  <2>8. \A r \in new : RowRight(r)
    BY <2>3, <2>6, <2>7
  <2>9. \A k \in Members : RowsKept(history[k], history'[k], h, "confirmed") /\ \A r \in history'[k] : RowRight(r)
    BY <1>2, <2>1, <2>2, <2>4, <2>8 DEF RowsKept, Shapes, HistoryRight
  <2>10. e \in history'[m]
    BY <1>4, <2>2, <2>6
  <2>11. \A j : j = i => Recorded(j, o)'
    BY <1>3, <1>4, <2>10 DEF Recorded, MakeVoteHistoryEntry, MakeHistoryEntry
  <2>12. history' = [k \in Members |-> history'[k]]
    BY <2>2
  <2>. QED  BY <1>2, <1>3, <1>11, <1>12, <2>9, <2>11, <2>12, RecordKeeps
<1>14. CASE result = "unrecorded" /\ history' = history
  <2>1. \A k \in Members : RowsKept(history[k], history'[k], h, "confirmed") /\ \A r \in history'[k] : RowRight(r)
    BY <1>2, <1>14 DEF RowsKept, Shapes, HistoryRight
  <2>2. \A j : j = i => Recorded(j, o)'
    BY <1>3, <1>14 DEF Recorded
  <2>3. history' = [k \in Members |-> history'[k]]
    BY <1>2, <1>14 DEF Shapes
  <2>. QED  BY <1>2, <1>3, <1>11, <1>12, <2>1, <2>2, <2>3, RecordKeeps
<1>. QED  BY <1>3, <1>13, <1>14

(* A command records its transaction.                                       *)
LEMMA RecordOperationKeeps ==
  ASSUME FastRight, NEW a \in Actors, RecordOperation(a)
  PROVE  FastRight'
<1>1. In(a, "fast", "record") /\ at[a].command = "operation" /\ UNCHANGED net
  BY DEF RecordOperation
<1>2. at[a].kind = at[a].tx.kind
  BY <1>1, InFast DEF CommandRight
<1>. QED  BY <1>1, <1>2, RecordConfirmedKeeps DEF RecordOperation

(* A vote records the proposal it completed.                                *)
LEMMA RecordVoteKeeps ==
  ASSUME FastRight, NEW a \in Actors, RecordVote(a)
  PROVE  FastRight'
<1>1. In(a, "fast", "record") /\ UNCHANGED net
  BY DEF RecordVote
<1>2. CASE RecordConfirmedHistory(a, MakeVoteHistoryEntry(at[a].tx))
  BY <1>1, <1>2, RecordConfirmedKeeps DEF MakeVoteHistoryEntry
<1>3. CASE at[a].tx.kind \notin RecordedKinds /\ Finish(a, "success", at[a].tx, FALSE) /\ UNCHANGED history
  <2>1. a \in Fast /\ at[a].pc = "record" /\ IsCommand(at[a]) /\ CommandRight(at[a]) /\ NoTx \in AllTx
    BY <1>1, InFast
  <2>2. Shapes /\ HistoryRight /\ Held' = Held /\ net' = net
    BY <1>1, HeldKept, HistoryForm DEF FastRight
  <2>3. PICK i, x, o, h : i = at[a].id /\ x = at[a].tx /\ o = [result |-> "success", tx |-> x] /\ h = x.id
    OBVIOUS
  <2>4. x \in net.txs
    BY <2>1, <2>3 DEF CommandRight
  <2>5. net.txs \cup net.waiting \cup Held \subseteq AllTx
    BY DEF AllTx
  <2>6. NetGrows(i, NoTx)
    BY <2>2, <2>5 DEF NetGrows, Shapes
  <2>7. at' = [at EXCEPT ![a] = Idle] /\ ops' = ops /\ faults' = faults /\ told' = [told EXCEPT ![i] = o] /\ history' = history
    BY <1>3, <2>3 DEF Finish, Outcome, Move
  <2>8. o = [result |-> o.result, tx |-> o.tx] /\ (\A j : j = i => Truthful(j, o)') /\ \A j : j = i => Recorded(j, o)'
    BY <1>3, <2>2, <2>3, <2>4 DEF Truthful, Recorded
  <2>9. CommandStep(a, Idle, NoTx, o)
    BY <2>1, <2>2, <2>3, <2>6, <2>7, <2>8 DEF CommandStep
  <2>10. \A k \in Members : RowsKept(history[k], history'[k], h, "confirmed") /\ \A r \in history'[k] : RowRight(r)
    BY <2>2, <2>7 DEF RowsKept, Shapes, HistoryRight
  <2>11. history' = [k \in Members |-> history'[k]]
    BY <2>2, <2>7 DEF Shapes
  <2>. QED  BY <2>2, <2>3, <2>8, <2>9, <2>10, <2>11, RecordKeeps
<1>. QED  BY <1>2, <1>3 DEF RecordVote

(* A transfer is recorded as pending, or the command fails.                 *)
LEMMA RecordTransferKeeps ==
  ASSUME FastRight, NEW a \in Actors, RecordTransfer(a)
  PROVE  FastRight'
<1>1. In(a, "fast", "bridged") /\ UNCHANGED net
  BY DEF RecordTransfer
<1>2. a \in Fast /\ at[a].pc = "bridged" /\ IsCommand(at[a]) /\ CommandRight(at[a]) /\ StagesRight(at[a]) /\ NoTx \in AllTx
  BY <1>1, InFast
<1>3. CASE UNCHANGED history /\ Refuse(a, TRUE)
  <2>1. PICK fault : fault = TRUE
    OBVIOUS
  <2>2. Refuse(a, fault)
    BY <1>3, <2>1
  <2>. QED  BY <1>1, <1>2, <1>3, <2>2, Refused
<1>4. Shapes /\ Numbers /\ Silent /\ HistoryRight /\ Held' = Held /\ net' = net
  BY <1>1, HeldKept, HistoryForm DEF FastRight
<1>5. PICK i, m, kind, status, e, o :
        /\ i = at[a].id /\ m = at[a].m /\ kind = at[a].kind /\ status = "pending"
        /\ e = MakeHistoryEntry(i, kind, status) /\ o = [result |-> "transferred", tx |-> NoTx]
  OBVIOUS
<1>6. m \in Members /\ i \in net.bridged /\ kind \in Routes \ {"fast"} /\ told[i].result = "none"
  BY <1>2, <1>4, <1>5 DEF IsCommand, CommandRight, StagesRight, Silent
<1>7. CASE /\ history' = [history EXCEPT ![m] = InsertHistoryEntry(@, e)]
           /\ Finish(a, "transferred", NoTx, FALSE)
  <2>1. PICK rows, new : rows = history[m] /\ new = InsertHistoryEntry(rows, e)
    OBVIOUS
  <2>2. history' = [k \in Members |-> IF k = m THEN new ELSE history[k]]
    BY <1>4, <1>7, <2>1 DEF Shapes
  <2>3. (\A r \in rows : r = MakeHistoryEntry(r.hash, r.kind, r.status) /\ RowRight(r))
    BY <1>4, <1>6, <2>1 DEF Shapes, HistoryRight
  <2>4. /\ RowsKept(rows, new, i, status)
        /\ (\A r \in new : \/ r \in rows \/ r = e
                           \/ \E q \in rows : q.hash = i /\ r = MakeHistoryEntry(i, q.kind, status))
        /\ (e \in new \/ \E q \in rows : q.hash = i /\ MakeHistoryEntry(i, q.kind, status) \in new)
    <3>1. AllEntries(rows)
      BY <2>3 DEF AllEntries
    <3>2. Puts(rows, InsertHistoryEntry(rows, e), e, i, status)
      BY <1>5, <3>1, Inserted
    <3>. QED  BY <2>1, <3>2 DEF Puts
  <2>5. RowRight(e)
    BY <1>5, <1>6, RowFields DEF RowRight
  <2>6. ASSUME NEW q \in rows, q.hash = i PROVE RowRight(MakeHistoryEntry(i, q.kind, status))
    <3>1. RowRight(q)
      BY <2>3
    <3>. QED  BY <1>5, <1>6, <2>6, <3>1, RowFields DEF RowRight
  <2>7. \A r \in new : RowRight(r)
    BY <2>3, <2>4, <2>5, <2>6
  <2>8. \A k \in Members : RowsKept(history[k], history'[k], i, status) /\ \A r \in history'[k] : RowRight(r)
    BY <1>4, <2>1, <2>2, <2>4, <2>7 DEF RowsKept, Shapes, HistoryRight
  <2>9. \E r \in history'[m] : r.hash = i
    <3>1. e.hash = i /\ \A k : MakeHistoryEntry(i, k, status).hash = i
      BY <1>5, RowFields
    <3>. QED  BY <1>6, <2>2, <2>4, <3>1
  <2>10. \A j : j = i => Recorded(j, o)'
    BY <1>5, <1>6, <2>9 DEF Recorded
  <2>11. at' = [at EXCEPT ![a] = Idle] /\ ops' = ops /\ faults' = faults /\ told' = [told EXCEPT ![i] = o]
    BY <1>5, <1>7 DEF Finish, Outcome, Move
  <2>12. net.txs \cup net.waiting \cup Held \subseteq AllTx
    BY DEF AllTx
  <2>13. NetGrows(i, NoTx)
    BY <1>4, <2>12 DEF NetGrows, Shapes
  <2>14. o = [result |-> o.result, tx |-> o.tx] /\ \A j : j = i => Truthful(j, o)'
    BY <1>5 DEF Truthful
  <2>15. CommandStep(a, Idle, NoTx, o)
    BY <1>2, <1>4, <1>5, <2>11, <2>13, <2>14 DEF CommandStep
  <2>16. history' = [k \in Members |-> history'[k]]
    BY <2>2
  <2>. QED  BY <1>4, <1>5, <1>6, <2>8, <2>10, <2>14, <2>15, <2>16, RecordKeeps
<1>8. RecordedStatus(kind) = status
  BY <1>5, <1>6 DEF RecordedStatus
<1>. QED  BY <1>3, <1>5, <1>7, <1>8 DEF RecordTransfer

(* A transfer that has arrived is marked.                                   *)
LEMMA RefreshStatusKeeps ==
  ASSUME FastRight, NEW a \in Actors, RefreshStatus(a)
  PROVE  FastRight'
<1>1. In(a, "fast", "update") /\ UNCHANGED net
  BY DEF RefreshStatus
<1>2. /\ a \in Fast /\ at[a].pc = "update" /\ IsCommand(at[a]) /\ CommandRight(at[a]) /\ StagesRight(at[a]) /\ NoTx \in AllTx
      /\ at[a].seen \subseteq AllTx /\ at[a].tx \in AllTx
  BY <1>1, InFast
<1>3. CASE UNCHANGED history /\ Refuse(a, TRUE)
  <2>1. PICK fault : fault = TRUE
    OBVIOUS
  <2>2. Refuse(a, fault)
    BY <1>3, <2>1
  <2>. QED  BY <1>1, <1>2, <1>3, <2>2, Refused
<1>4. Shapes /\ Numbers /\ Silent /\ HistoryRight /\ Held' = Held /\ net' = net
  BY <1>1, HeldKept, HistoryForm DEF FastRight
<1>5. PICK i, m, h, status, o, s :
        /\ i = at[a].id /\ m = at[a].m /\ h = at[a].update /\ status = "confirmed" /\ o = told[i]
        /\ s = [at[a] EXCEPT !.pc = "portal", !.approved = @ \ {h}]
  OBVIOUS
<1>6. m \in Members /\ h \in net.arrived /\ o.result = "none" /\ at[a].command = "history"
  BY <1>2, <1>4, <1>5 DEF IsCommand, CommandRight, StagesRight, Silent
<1>7. i \in 1..MaxOps
  <2>1. i \in 1..ops /\ ops \in Nat /\ ops <= MaxOps /\ MaxOps \in Nat
    BY <1>2, <1>4, <1>5, ActivityBounds DEF Shapes, Numbers, ActivityBounds
  <2>. QED  BY <2>1
<1>8. CASE /\ history' = [history EXCEPT ![m] = UpdateStatus(@, h, status)]
           /\ Move(a, s, FALSE) /\ UNCHANGED told
  <2>1. PICK rows, new : rows = history[m] /\ new = UpdateStatus(rows, h, status)
    OBVIOUS
  <2>2. history' = [k \in Members |-> IF k = m THEN new ELSE history[k]]
    BY <1>4, <1>8, <2>1 DEF Shapes
  <2>3. (\A r \in rows : r = MakeHistoryEntry(r.hash, r.kind, r.status) /\ RowRight(r))
    BY <1>4, <1>6, <2>1 DEF Shapes, HistoryRight
  <2>4. /\ RowsKept(rows, new, h, status)
        /\ \A r \in new : r \in rows \/ \E q \in rows : q.hash = h /\ r = MakeHistoryEntry(h, q.kind, status)
    <3>1. AllEntries(rows)
      BY <2>3 DEF AllEntries
    <3>. QED  BY <2>1, <3>1, Updated DEF Marks
  <2>5. ASSUME NEW q \in rows, q.hash = h PROVE RowRight(MakeHistoryEntry(h, q.kind, status))
    <3>1. RowRight(q)
      BY <2>3
    <3>. QED  BY <1>6, <2>5, <3>1, RowFields DEF RowRight
  <2>6. \A r \in new : RowRight(r)
    BY <2>3, <2>4, <2>5
  <2>7. \A k \in Members : RowsKept(history[k], history'[k], h, status) /\ \A r \in history'[k] : RowRight(r)
    BY <1>4, <2>1, <2>2, <2>4, <2>6 DEF RowsKept, Shapes, HistoryRight
  <2>8. o = [result |-> o.result, tx |-> o.tx] /\ told' = [told EXCEPT ![i] = o] /\ told' = told
    BY <1>4, <1>5, <1>7, <1>8 DEF Shapes
  <2>9. (\A j : j = i => Recorded(j, o)') /\ (\A j : j = i => Truthful(j, o)')
    BY <1>6 DEF Recorded, Truthful
  <2>10. /\ IsCommand(s) /\ s.id = i /\ s.pc = "portal" /\ s.command = "history"
         /\ s.seen = at[a].seen /\ s.tx = at[a].tx /\ s.kind = at[a].kind
    BY <1>2, <1>5, <1>6 DEF IsCommand, CommandFields
  <2>11. ~Spends(s) /\ ~Builds(s)
    BY <2>10 DEF Spends, Builds
  <2>12. SilentOf(at[a])
    BY <1>2, <1>4 DEF Silent, SilentOf
  <2>13. CommandRight(s)' /\ SilentOf(s)'
    BY <1>2, <1>4, <1>5, <1>6, <2>8, <2>10, <2>11, <2>12 DEF CommandRight, SilentOf, StagesRight, Builds
  <2>14. net.txs \cup net.waiting \cup Held \subseteq AllTx
    BY DEF AllTx
  <2>15. NetGrows(i, NoTx)
    BY <1>4, <2>14 DEF NetGrows, Shapes
  <2>16. at' = [at EXCEPT ![a] = s] /\ ops' = ops /\ faults' = faults
    BY <1>8 DEF Move
  <2>17. CommandStep(a, s, NoTx, o)
    BY <1>2, <1>4, <1>5, <2>8, <2>9, <2>10, <2>11, <2>13, <2>15, <2>16 DEF CommandStep
  <2>18. history' = [k \in Members |-> history'[k]]
    BY <2>2
  <2>. QED  BY <1>4, <1>5, <2>7, <2>8, <2>9, <2>17, <2>18, RecordKeeps
<1>. QED  BY <1>3, <1>5, <1>8 DEF RefreshStatus

-----------------------------------------------------------------------------
(* A step of a process that runs none of these commands.                    *)
LEMMA OthersKeep ==
  ASSUME FastRight, NEW a \in Actors, a \notin Fast, NEW s, s = Idle \/ IsWait(s),
         at' = [at EXCEPT ![a] = s], ops' \in {ops, ops + 1}, ops' <= MaxOps, faults' \in {faults, faults + 1},
         UNCHANGED <<net, told, history>>
  PROVE  FastRight'
<1>1. Shapes /\ Numbers /\ Silent /\ TxsRight /\ CommandsRight /\ OutcomeTruthful /\ HistoryRight
  BY HistoryForm DEF FastRight
<1>2. net' = net /\ told' = told /\ history' = history /\ s.in # "fast" /\ Held' = Held
  BY HeldKept DEF Idle, IsWait
<1>3. /\ \A b \in Actors : at'[b] = IF b = a THEN s ELSE at[b]
      /\ at' = [b \in Actors |-> at'[b]]
  BY <1>1 DEF Shapes
<1>4. Fast' = Fast /\ \A b \in Fast : at'[b] = at[b]
  BY <1>2, <1>3 DEF Fast
<1>5. ops \in Nat /\ ops' \in Nat /\ ops <= ops' /\ faults' \in Nat /\ (faults' = 0 => faults = 0)
  BY <1>1 DEF Shapes
<1>6. Shapes'
  <2>1. \A b \in Actors : at'[b] = Idle \/ IsWait(at'[b]) \/ IsCommand(at'[b])
    BY <1>1, <1>3 DEF Shapes
  <2>. QED  BY <1>1, <1>2, <1>3, <1>5, <2>1 DEF Shapes, IsCommand, IsWait, MakeHistoryEntry, Idle
<1>7. Numbers'
  <2>1. \A b \in Fast : at[b].id \in 1..ops => at[b].id \in 1..ops'
    BY <1>5
  <2>2. \A op \in 1..MaxOps : op > ops' => op > ops
    BY <1>5, ActivityBounds DEF ActivityBounds
  <2>3. \A i \in Nat : i <= ops => i <= ops'
    BY <1>5
  <2>. QED  BY <1>1, <1>2, <1>4, <2>1, <2>2, <2>3 DEF Numbers
<1>8. Silent'
  BY <1>1, <1>2, <1>4 DEF Silent
<1>9. AllTx' = AllTx
  BY <1>2, <1>4 DEF AllTx
<1>10. TxsRight'
  <2>1. \A i \in Nat : i <= ops => i <= ops'
    BY <1>5
  <2>2. \A x \in AllTx : x.id \in Nat /\ x.id <= ops /\ x.kind \notin Routes /\ x.id \notin net.bridged
    BY <1>1 DEF TxsRight
  <2>3. \A x \in AllTx' : x.id \in Nat /\ x.id <= ops' /\ x.kind \notin Routes /\ x.id \notin net'.bridged
    BY <1>2, <1>9, <2>1, <2>2
  <2>4. \A b \in Fast' : Spends(at'[b]) => \A x \in AllTx' : x.id # at'[b].id
    BY <1>1, <1>4, <1>9 DEF TxsRight
  <2>5. \A b \in Fast' : Builds(at'[b]) => at'[b].id \notin net'.bridged
    BY <1>1, <1>2, <1>4 DEF TxsRight
  <2>6. \A x, y \in AllTx' : x.id = y.id => x = y
    BY <1>1, <1>9 DEF TxsRight
  <2>. QED  BY <2>3, <2>4, <2>5, <2>6 DEF TxsRight, Spends, Builds
<1>11. CommandsRight'
  <2>1. \A b \in Fast : \A c : c = at[b] => CommandRight(c)'
    BY <1>1, <1>2 DEF CommandsRight, CommandRight, StagesRight, Builds
  <2>. QED  BY <1>4, <2>1 DEF CommandsRight
<1>12. OutcomeTruthful'
  BY <1>1, <1>2 DEF OutcomeTruthful
<1>13. HistoryRight'
  BY <1>1, <1>2, <1>5 DEF HistoryRight, RowRight, Recorded
<1>14. HistoryTruthful'
  BY <1>13, HistoryForm, PTL
<1>. QED  BY <1>6, <1>7, <1>8, <1>10, <1>11, <1>12, <1>14 DEF FastRight

(* Nothing these commands work on changes.                                  *)
LEMMA StandsStill ==
  ASSUME FastRight, UNCHANGED <<at, ops, faults, net, told, history>>
  PROVE  FastRight'
<1>1. Held' = Held /\ Shapes /\ net' = net
  BY HeldKept DEF FastRight
<1>2. net.txs \cup net.waiting \cup Held \subseteq AllTx
  BY DEF AllTx
<1>. QED  BY <1>1, <1>2, NetworkKeeps DEF Shapes

(* A step of a wait for a payment is not one of these commands.             *)
LEMMA WaitKeeps ==
  ASSUME FastRight, NEW a \in Actors, Wait(a), UNCHANGED local
  PROVE  FastRight'
<1>1. Shapes /\ UNCHANGED <<net, told, history>>
  BY DEF FastRight, local
<1>2. CASE UNCHANGED activity
  BY <1>1, <1>2, StandsStill DEF activity
<1>3. ASSUME at[a] = Idle \/ at[a].in = "wait",
             NEW s, s = Idle \/ IsWait(s), at' = [at EXCEPT ![a] = s],
             ops' \in {ops, ops + 1}, ops' <= MaxOps, faults' \in {faults, faults + 1}
      PROVE  FastRight'
  <2>1. a \notin Fast
    BY <1>3 DEF Fast, Idle
  <2>. QED  BY <1>1, <1>3, <2>1, OthersKeep
<1>4. CASE StartWait(a)
  <2>1. PICK s : IsWait(s) /\ Begin(a, "wait", s)
    <3>1. PICK sinceNs, deadline, s :
            /\ s = [in |-> "wait", pc |-> "sleep", sinceNs |-> sinceNs, deadline |-> deadline, wake |-> feed.now,
                    floor |-> NsToMs(sinceNs), lastFull |-> -FullEvery, err |-> "none",
                    began |-> -1, full |-> FALSE, present |-> {}, bound |-> -1, cursor |-> -1,
                    newest |-> -1, first |-> NoRow, best |-> NoRow]
            /\ Begin(a, "wait", s)
      BY <1>4 DEF StartWait
    <3>2. IsWait(s)
      BY <3>1 DEF IsWait, WaitFields
    <3>. QED  BY <3>1, <3>2
  <2>2. ops' <= MaxOps
    BY <1>1, <2>1, ActivityBounds DEF Begin, Shapes, ActivityBounds
  <2>. QED  BY <1>3, <2>1, <2>2 DEF Begin
<1>5. ASSUME at[a].in = "wait", NEW s, s = Idle \/ IsWait(s), Go(a, s)
      PROVE  FastRight'
  BY <1>1, <1>3, <1>5 DEF Go, Shapes
<1>6. at[a].in = "wait" => IsWait(at[a])
  BY <1>1 DEF Shapes, IsCommand, Idle
<1>7. CASE Poll(a)
  <2>1. PICK s : Go(a, s) /\ IsWait(s)
    <3>1. IsWait(at[a])
      BY <1>6, <1>7 DEF Poll, In
    <3>2. PICK bound, full : Go(a, [ScanFrom(at[a], bound) EXCEPT !.pc = "scan", !.began = feed.now, !.full = full,
                                      !.err = "in flight", !.newest = -1, !.first = NoRow])
      BY <1>7 DEF Poll
    <3>3. IsWait(ScanFrom(at[a], bound))
      BY <3>1 DEF ScanFrom, IsWait, WaitFields
    <3>4. PICK c, s : /\ c = ScanFrom(at[a], bound)
                      /\ s = [c EXCEPT !.pc = "scan", !.began = feed.now, !.full = full,
                                      !.err = "in flight", !.newest = -1, !.first = NoRow]
      OBVIOUS
    <3>5. c = [f \in WaitFields |-> c[f]] /\ c.in = "wait" /\ "in" \in WaitFields /\ "pc" \in WaitFields
      BY <3>3, <3>4 DEF IsWait, WaitFields
    <3>6. DOMAIN s = WaitFields /\ s = [f \in WaitFields |-> s[f]] /\ s.in = "wait" /\ s.pc = "scan"
      BY <3>4, <3>5
    <3>7. IsWait(s)
      BY <3>6 DEF IsWait
    <3>. QED  BY <3>2, <3>4, <3>7
  <2>. QED  BY <1>5, <1>7, <2>1 DEF Poll, In
<1>8. CASE ReadPage(a)
  <2>1. at[a].in = "wait" /\ IsWait(at[a])
    BY <1>6, <1>8 DEF ReadPage, In
  <2>2. PICK read, cursor :
          /\ IsWait(read) /\ (Scanned(a, read) \/ Go(a, [read EXCEPT !.cursor = cursor]))
    <3>1. PICK best, newest, read, cursor :
            /\ read = [at[a] EXCEPT !.best = best, !.newest = newest]
            /\ (Scanned(a, read) \/ Go(a, [read EXCEPT !.cursor = cursor]))
      BY <1>8 DEF ReadPage
    <3>2. IsWait(read)
      BY <2>1, <3>1 DEF IsWait, WaitFields
    <3>. QED  BY <3>1, <3>2
  <2>3. IsWait([read EXCEPT !.cursor = cursor])
    BY <2>2 DEF IsWait, WaitFields
  <2>4. CASE Scanned(a, read)
    <3>1. \A bound : IsWait([ScanFrom(read, bound) EXCEPT !.pc = "confirm", !.first = read.best])
      BY <2>2, ZenonT(40) DEF IsWait, WaitFields, ScanFrom
    <3>2. \A confirmed : IsWait(Completed(read, confirmed))
      BY <2>2, ZenonT(40) DEF IsWait, WaitFields, Completed
    <3>3. \E s : (s = Idle \/ IsWait(s)) /\ Go(a, s)
      BY <2>4, <3>1, <3>2 DEF Scanned, PollDone, Exit
    <3>. QED  BY <1>5, <2>1, <3>3
  <2>. QED  BY <1>5, <2>1, <2>2, <2>3, <2>4
<1>9. CASE PollFails(a)
  <2>1. at[a].in = "wait" /\ IsWait(at[a])
    BY <1>6, <1>9 DEF PollFails, In
  <2>2. PICK s : IsWait(s) /\ at' = [at EXCEPT ![a] = s] /\ ops' = ops /\ faults' = faults + 1
    BY <1>9, <2>1 DEF PollFails, IsWait, WaitFields
  <2>. QED  BY <1>1, <1>3, <2>1, <2>2 DEF Shapes
<1>10. CASE TimeOut(a)
  BY <1>5, <1>10 DEF TimeOut, Exit
<1>11. CASE Tick(a) \/ Publish(a)
  BY <1>2, <1>11 DEF Tick, Publish
<1>. QED  BY <1>4, <1>7, <1>8, <1>9, <1>10, <1>11 DEF Wait

(* Every step of the commands, of the network and of a wait.                *)
LEMMA FastNext ==
  ASSUME FastRight, [Next]_vars
  PROVE  FastRight'
<1>1. CASE UNCHANGED vars
  BY <1>1, StandsStill DEF vars, activity, local
<1>2. CASE \E m \in Members : SetUp(m) /\ UNCHANGED history
  BY <1>2, StandsStill DEF SetUp, MultisigInit, ImportFile, ImportSigners, activity
<1>3. ASSUME NEW a \in Actors, Start(a) PROVE FastRight'
  BY <1>3, StartSteps, StartKeeps DEF FastRight
<1>4. ASSUME NEW a \in Actors, Command(a) PROVE FastRight'
  BY <1>4, GetTokenInfoKeeps, GetAccountInfoKeeps, GetPendingMultisigKeeps, SubmitOperationKeeps,
     RecordOperationKeeps, BridgeCallKeeps, RecordTransferKeeps DEF Command
<1>5. ASSUME NEW a \in Actors, Vote(a) PROVE FastRight'
  BY <1>5, ReadPendingKeeps, ShowPendingKeeps, GetVoteAccountKeeps, SubmitVoteKeeps, RecordVoteKeeps
     DEF Vote, MultisigPending, GetVotePending
<1>6. ASSUME NEW a \in Actors, Call(a) PROVE FastRight'
  BY <1>6, FetchFirstKeeps, FetchSecondKeeps, SubmitKeeps DEF Call
<1>7. ASSUME NEW a \in Actors, View(a) PROVE FastRight'
  BY <1>7, QueryHistoryKeeps, QueryActivityKeeps, RefreshStatusKeeps DEF View
<1>8. ASSUME NEW a \in Actors, Dies(a) PROVE FastRight'
  <2>1. at[a] # Idle /\ ~IsWait(at[a])
    BY <1>8 DEF Dies, Idle, IsWait
  <2>2. a \in Fast
    BY <2>1 DEF FastRight, Shapes, IsCommand, Fast
  <2>. QED  BY <1>8, <2>2, DiesKeeps
<1>9. CASE Confirm /\ UNCHANGED <<wallets, history>>
  BY <1>9, ConfirmKeeps
<1>10. CASE Arrive /\ UNCHANGED <<wallets, history>>
  BY <1>10, ArriveKeeps
<1>11. ASSUME NEW a \in Actors, Wait(a), UNCHANGED local PROVE FastRight'
  BY <1>11, WaitKeeps
<1>. QED  BY <1>1, <1>2, <1>3, <1>4, <1>5, <1>6, <1>7, <1>8, <1>9, <1>10, <1>11 DEF Next

(* Before anything has started.                                             *)
LEMMA FastInit == Init => FastRight /\ WalletsRight
<1>. SUFFICES ASSUME Init PROVE FastRight /\ WalletsRight
  OBVIOUS
<1>1. /\ at = [a \in Actors |-> Idle] /\ ops = 0 /\ faults = 0
      /\ net = [next |-> [s \in Senders |-> 0], proposals |-> {}, waiting |-> {}, txs |-> {},
                taken |-> {}, update |-> 0, minters |-> {Shared}, bridged |-> {}, arrived |-> {}]
      /\ told = [op \in 1..MaxOps |-> NoOutcome] /\ history = [m \in Members |-> {}]
      /\ wallets = [m \in Members |-> NoWallet]
  BY DEF Init, ActivityInit, NetInit, HistoryInit, WalletsInit
<1>2. Fast = {} /\ Held = {} /\ net = [f \in NetFields |-> net[f]]
  BY <1>1 DEF Fast, Idle, Held, PendingMultisigTransactions, NetFields
<1>3. /\ net.txs = {} /\ net.waiting = {} /\ net.taken = {} /\ net.bridged = {}
      /\ \A op \in 1..MaxOps : told[op] = NoOutcome
  BY <1>1
<1>4. AllTx = {NoTx}
  BY <1>2, <1>3 DEF AllTx
<1>5. NoOutcome.result = "none" /\ NoOutcome = [result |-> NoOutcome.result, tx |-> NoOutcome.tx]
  BY DEF NoOutcome
<1>6. "none" \notin Routes /\ NoTx.id = 0 /\ NoTx.kind = "none"
  BY RoutesAre DEF NoTx
<1>7. Shapes
  <2>1. at = [a \in Actors |-> at[a]] /\ (\A a \in Actors : at[a] = Idle) /\ history = [m \in Members |-> history[m]]
        /\ (\A m \in Members : history[m] = {}) /\ told = [op \in 1..MaxOps |-> told[op]]
    BY <1>1
  <2>2. ops \in Nat /\ ops <= MaxOps /\ faults \in Nat
    BY <1>1, ActivityBounds DEF ActivityBounds
  <2>. QED  BY <1>2, <1>3, <1>5, <2>1, <2>2 DEF Shapes
<1>8. Numbers /\ Silent /\ TxsRight /\ CommandsRight
  BY <1>1, <1>2, <1>3, <1>4, <1>5, <1>6 DEF Numbers, Silent, TxsRight, CommandsRight
<1>9. OutcomeTruthful
  BY <1>3, <1>5 DEF OutcomeTruthful
<1>10. HistoryRight
  BY <1>1, <1>3, <1>5 DEF HistoryRight, Recorded
<1>11. WalletsRight
  <2>1. wallets = [m \in Members |-> wallets[m]] /\ \A m \in Members : wallets[m] = NoWallet
    BY <1>1
  <2>2. Sorted(<<>>)
    <3>1. <<>> \in Seq(Members) /\ Len(<<>>) = 0
      OBVIOUS
    <3>. QED  BY <3>1 DEF Sorted
  <2>3. WalletRight(NoWallet)
    BY <2>2 DEF WalletRight, NoWallet, NoConfig, Wallet, Config
  <2>. QED  BY <2>1, <2>3 DEF WalletsRight
<1>. QED  BY <1>7, <1>8, <1>9, <1>10, <1>11, HistoryForm DEF FastRight

(* Only setting up changes the wallets.                                     *)
LEMMA WalletsNext ==
  ASSUME WalletsRight, [Next]_vars
  PROVE  WalletsRight'
<1>1. CASE \E m \in Members : SetUp(m)
  BY <1>1, SetUpRight DEF SetUp
<1>2. CASE UNCHANGED wallets
  BY <1>2 DEF WalletsRight
<1>3. ASSUME NEW a \in Actors, Start(a) PROVE UNCHANGED wallets
  BY <1>3 DEF Start, StartCommand, StartSend, StartToken, StartTransfer, StartVote, StartHistory, StartCall
<1>4. ASSUME NEW a \in Actors, Command(a) PROVE UNCHANGED wallets
  BY <1>4 DEF Command, GetTokenInfo, GetAccountInfo, GetPendingMultisig, SubmitOperation, RecordOperation, BridgeCall,
     RecordTransfer
<1>5. ASSUME NEW a \in Actors, Vote(a) PROVE UNCHANGED wallets
  BY <1>5 DEF Vote, MultisigPending, GetVotePending, ReadPending, ShowPending, GetVoteAccount, SubmitVote, RecordVote
<1>6. ASSUME NEW a \in Actors, Call(a) PROVE UNCHANGED wallets
  BY <1>6 DEF Call, FetchFirst, FetchSecond, Submit
<1>7. ASSUME NEW a \in Actors, View(a) PROVE UNCHANGED wallets
  BY <1>7 DEF View, QueryHistory, QueryActivity, RefreshStatus
<1>. QED  BY <1>1, <1>2, <1>3, <1>4, <1>5, <1>6, <1>7 DEF Next, Dies, local, vars

(* What holds of the commands, the network, the tables and the wallets in   *)
(* every state.                                                             *)
THEOREM FastAlwaysRight == Spec => [](FastRight /\ WalletsRight)
<1>1. FastRight /\ WalletsRight /\ [Next]_vars => (FastRight /\ WalletsRight)'
  BY FastNext, WalletsNext
<1>. QED  BY <1>1, FastInit, PTL DEF Spec

(* A command tells the truth about its transaction: a success was accepted,  *)
(* an incomplete one was taken, and a failure left nothing behind            *)
(* (tx-pipeline.ts, multisig/index.ts, commands/multisig/vote.ts).           *)
THEOREM OutcomeTruthfulAlways == Spec => []OutcomeTruthful
<1>1. FastRight => OutcomeTruthful
  BY DEF FastRight
<1>. QED  BY <1>1, FastAlwaysRight, PTL

(* A machine's table of transactions shows what happened: no confirmed row   *)
(* without a transaction that was accepted or a transfer that arrived        *)
(* (services/storage/history.ts, commands/info/history.ts).                  *)
THEOREM HistoryTruthfulAlways == Spec => []HistoryTruthful
<1>1. FastRight => HistoryTruthful
  BY DEF FastRight
<1>. QED  BY <1>1, FastAlwaysRight, PTL

(* Members who set up a wallet of the same signers and quorum have the same  *)
(* account, in whatever order they named them (interface/multisig-signer.ts, *)
(* commands/multisig/import.ts).                                             *)
THEOREM WalletsAgreeAlways == Spec => []WalletsAgree
<1>1. WalletsRight => WalletsAgree
  BY RightWalletsAgree
<1>. QED  BY <1>1, FastAlwaysRight, PTL

-----------------------------------------------------------------------------
(* A submission only drops a proposal by holding another transaction of the  *)
(* shared account at its nonce, one the proxy did not know.                  *)
LEMMA Dropped ==
  ASSUME IsNet(net), NEW op, NEW x, NEW m, NEW reply, Receive(op, x, m, reply),
         NEW tx, tx \in Held, tx \notin Held', tx \notin net'.txs
  PROVE  x.sender = Shared /\ x \notin Held /\ tx # x /\ tx.nonce = x.nonce
<1>1. Held = {p.tx : p \in net.proposals} /\ Held' = {p.tx : p \in net'.proposals}
  BY DEF Held, PendingMultisigTransactions
<1>2. \A n : IsNet(n) => LET t == [n EXCEPT !.taken = @ \cup {op}] IN t.txs = n.txs /\ t.proposals = n.proposals
  BY DEF IsNet, NetFields
<1>3. PICK p \in net.proposals : p.tx = tx
  BY <1>1
<1>4. p \notin net'.proposals
  BY <1>1, <1>3
<1>5. CASE \E n : n = Accept(net, x) /\ net' = [n EXCEPT !.taken = @ \cup {op}]
  <2>1. PICK n : n = Accept(net, x) /\ net' = [n EXCEPT !.taken = @ \cup {op}]
    BY <1>5
  <2>2. IsNet(n) /\ n.txs = net.txs \cup {x} /\ n.proposals = {q \in net.proposals : q.tx # x}
    BY <2>1, Accepts
  <2>3. net'.txs = net.txs \cup {x} /\ net'.proposals = {q \in net.proposals : q.tx # x}
    BY <1>2, <2>1, <2>2
  <2>. QED  BY <1>3, <1>4, <2>3
<1>6. CASE net' = [[net EXCEPT !.waiting = @ \cup {x}] EXCEPT !.taken = @ \cup {op}]
  <2>1. net'.proposals = net.proposals
    BY <1>6 DEF IsNet, NetFields
  <2>. QED  BY <1>3, <1>4, <2>1
<1>7. CASE (\E n \in Collect(net, x, m) : net' = [n EXCEPT !.taken = @ \cup {op}]) /\ ~Enough(x, m)
  <2>1. PICK n \in Collect(net, x, m) : net' = [n EXCEPT !.taken = @ \cup {op}]
    BY <1>7
  <2>2. /\ IsNet(n)
        /\ \/ \A q \in net.proposals : q.tx # x => q \in n.proposals
           \/ \A q \in net.proposals : q.tx # x /\ (q.tx.nonce # x.nonce => q \in n.proposals)
        /\ \E q \in n.proposals : q.tx = x
    BY <2>1, Collects
  <2>3. net'.proposals = n.proposals
    BY <1>2, <2>1, <2>2
  <2>4. tx # x
    BY <1>1, <2>2, <2>3
  <2>5. \A q \in net.proposals : q.tx # x /\ (q.tx.nonce # x.nonce => q \in n.proposals)
    BY <1>3, <1>4, <2>2, <2>3, <2>4
  <2>6. x.sender = Shared
    BY <1>7 DEF Enough
  <2>. QED  BY <1>1, <1>3, <1>4, <2>3, <2>4, <2>5, <2>6
<1>8. CASE UNCHANGED net
  BY <1>3, <1>4, <1>8
<1>. QED  BY <1>5, <1>6, <1>7, <1>8 DEF Receive

(* Where a command goes after its submission.                               *)
LEMMA LeavesSubmit ==
  ASSUME FastRight, NEW a \in Actors, In(a, "fast", "submit"), NEW s, at' = [at EXCEPT ![a] = s],
         s = Idle \/ (\E x : s = [at[a] EXCEPT !.pc = "record", !.tx = x])
           \/ (\E n, e : s = [at[a] EXCEPT !.pc = "fetch", !.nonce = n, !.seen = e])
  PROVE  at'[a] # at[a]
<1>1. IsCommand(at[a]) /\ at[a].pc = "submit"
  BY InFast
<1>2. at'[a] = s
  BY DEF FastRight, Shapes
<1>3. Idle.pc = "idle"
  BY DEF Idle
<1>4. s.pc # "submit"
  BY <1>1, <1>3 DEF IsCommand, CommandFields
<1>. QED  BY <1>1, <1>2, <1>4

(* The submission of an operation replaces what the command had not seen, or *)
(* was told to replace.                                                      *)
LEMMA OperationReplaces ==
  ASSUME FastRight, NEW a \in Actors, SubmitOperation(a), NEW tx \in Held, Displaced(tx)
  PROVE  In(a, "fast", "submit") /\ at'[a] # at[a] /\ MayReplace(at[a], tx)
<1>1. In(a, "fast", "submit") /\ at[a].command = "operation"
  BY DEF SubmitOperation
<1>2. IsCommand(at[a]) /\ at[a].pc = "submit" /\ CommandRight(at[a])
  BY <1>1, InFast
<1>3. PICK x : x = Built(at[a])
  OBVIOUS
<1>4. PICK reply \in Replies :
        /\ Receive(at[a].id, x, at[a].m, reply)
        /\ After(a, x, Classify(reply, at[a].sender = Shared), ReplyFault(x, reply))
  BY <1>3 DEF SubmitOperation
<1>5. tx \notin Held' /\ tx \notin net'.txs /\ IsNet(net)
  BY DEF Displaced, FastRight, Shapes, IsNet
<1>6. x.sender = Shared /\ tx # x /\ tx.nonce = x.nonce
  BY <1>4, <1>5, Dropped
<1>7. at[a].sender = Shared /\ x.nonce = at[a].nonce
  BY <1>2, <1>3, <1>6, QuorumAssumption DEF Built, BuildTransaction, SignSingle, IsCommand, QuorumAssumption
<1>8. MayReplace(at[a], tx)
  BY <1>1, <1>2, <1>6, <1>7 DEF MayReplace, CommandRight
<1>9. at'[a] # at[a]
  <2>1. PICK s : /\ at' = [at EXCEPT ![a] = s]
                 /\ s = Idle \/ s = [at[a] EXCEPT !.pc = "record", !.tx = x]
    BY <1>4 DEF After, Move, Finish
  <2>. QED  BY <1>1, <2>1, LeavesSubmit
<1>. QED  BY <1>1, <1>8, <1>9

(* A vote drops a proposal only if the one it signs was dropped.            *)
LEMMA VoteReplaces ==
  ASSUME FastRight, NEW a \in Actors, SubmitVote(a), NEW tx \in Held, Displaced(tx)
  PROVE  In(a, "fast", "submit") /\ at'[a] # at[a] /\ MayReplace(at[a], tx)
<1>1. In(a, "fast", "submit") /\ at[a].command = "vote"
  BY DEF SubmitVote
<1>2. PICK x : x = at[a].tx
  OBVIOUS
<1>3. PICK reply \in Replies :
        /\ Receive(at[a].id, x, at[a].m, reply)
        /\ After(a, x, VoteReachedQuorum(reply), ReplyFault(x, reply))
  BY <1>2 DEF SubmitVote
<1>4. tx \notin Held' /\ tx \notin net'.txs /\ IsNet(net)
  BY DEF Displaced, FastRight, Shapes, IsNet
<1>5. x \notin Held
  BY <1>3, <1>4, Dropped
<1>6. MayReplace(at[a], tx)
  BY <1>1, <1>2, <1>5 DEF MayReplace
<1>7. at'[a] # at[a]
  <2>1. PICK s : /\ at' = [at EXCEPT ![a] = s]
                 /\ s = Idle \/ s = [at[a] EXCEPT !.pc = "record", !.tx = x]
    BY <1>3 DEF After, Move, Finish
  <2>. QED  BY <1>1, <2>1, LeavesSubmit
<1>. QED  BY <1>1, <1>6, <1>7

(* So do the submissions of a page.                                         *)
LEMMA CallReplaces ==
  ASSUME FastRight, NEW a \in Actors, Submit(a), NEW tx \in Held, Displaced(tx)
  PROVE  In(a, "fast", "submit") /\ at'[a] # at[a] /\ MayReplace(at[a], tx)
<1>1. In(a, "fast", "submit") /\ at[a].command \in {"submitPrepared", "sdkVote"}
  BY DEF Submit
<1>2. at[a].pc = "submit" /\ CommandRight(at[a])
  BY <1>1, InFast
<1>3. PICK x, again : x = at[a].tx /\ again = [at[a] EXCEPT !.pc = "fetch", !.nonce = -1, !.seen = {}]
  OBVIOUS
<1>4. PICK reply, s :
        /\ Receive(at[a].id, x, at[a].m, reply)
        /\ at' = [at EXCEPT ![a] = s] /\ (s = Idle \/ s = again)
  BY <1>3 DEF Submit, Move
<1>5. tx \notin Held' /\ tx \notin net'.txs /\ IsNet(net)
  BY DEF Displaced, FastRight, Shapes, IsNet
<1>6. x \notin Held /\ tx # x /\ tx.nonce = x.nonce
  BY <1>4, <1>5, Dropped
<1>7. MayReplace(at[a], tx)
  BY <1>1, <1>2, <1>3, <1>6 DEF MayReplace, CommandRight
<1>8. at'[a] # at[a]
  BY <1>1, <1>3, <1>4, LeavesSubmit
<1>. QED  BY <1>1, <1>7, <1>8

(* No other step drops a proposal.                                          *)
LEMMA ReplacesOnPurpose ==
  ASSUME FastRight, Next, NEW tx \in Held, Displaced(tx)
  PROVE  \E a \in Actors : In(a, "fast", "submit") /\ at'[a] # at[a] /\ MayReplace(at[a], tx)
<1>1. tx \in Held /\ tx \notin Held' /\ tx \notin net'.txs /\ IsNet(net)
  BY DEF Displaced, FastRight, Shapes, IsNet
<1>2. net'.proposals # net.proposals
  BY <1>1 DEF Held, PendingMultisigTransactions
<1>3. net' # net
  BY <1>2
<1>4. ASSUME NEW a \in Actors, Start(a) PROVE FALSE
  BY <1>3, <1>4 DEF Start, StartCommand, StartSend, StartToken, StartTransfer, StartVote, StartHistory, StartCall
<1>5. CASE \E a \in Actors : Command(a)
  <2>1. PICK a \in Actors : Command(a)
    BY <1>5
  <2>2. ~BridgeCall(a)
    <3>1. SUFFICES ASSUME BridgeCall(a) PROVE net'.proposals = net.proposals
      BY <1>2
    <3>2. net' \in {net, [net EXCEPT !.bridged = @ \cup {at[a].id}]}
      BY <3>1 DEF BridgeCall
    <3>. QED  BY <1>1, <3>2 DEF IsNet, NetFields
  <2>3. ~GetTokenInfo(a) /\ ~GetAccountInfo(a) /\ ~GetPendingMultisig(a) /\ ~RecordOperation(a) /\ ~RecordTransfer(a)
    BY <1>3 DEF GetTokenInfo, GetAccountInfo, GetPendingMultisig, RecordOperation, RecordTransfer
  <2>4. SubmitOperation(a)
    BY <2>1, <2>2, <2>3 DEF Command
  <2>. QED  BY <2>4, OperationReplaces
<1>6. CASE \E a \in Actors : Vote(a)
  <2>1. PICK a \in Actors : Vote(a)
    BY <1>6
  <2>2. SubmitVote(a)
    BY <1>3, <2>1 DEF Vote, MultisigPending, GetVotePending, ReadPending, ShowPending, GetVoteAccount, RecordVote
  <2>. QED  BY <2>2, VoteReplaces
<1>7. CASE \E a \in Actors : Call(a)
  <2>1. PICK a \in Actors : Call(a)
    BY <1>7
  <2>2. Submit(a)
    BY <1>3, <2>1 DEF Call, FetchFirst, FetchSecond
  <2>. QED  BY <2>2, CallReplaces
<1>8. ASSUME NEW a \in Actors, View(a) \/ Dies(a) PROVE FALSE
  BY <1>3, <1>8 DEF View, QueryHistory, QueryActivity, RefreshStatus, Dies, local
<1>9. CASE Confirm
  <2>1. PICK w : net' = Accept(net, w)
    BY <1>9 DEF Confirm
  <2>2. PICK n : n = Accept(net, w) /\ n = net'
    BY <2>1
  <2>3. n.txs = net.txs \cup {w} /\ n.proposals = {p \in net.proposals : p.tx # w}
    BY <1>1, <2>2, Accepts, ZenonT(40)
  <2>. QED  BY <1>1, <2>2, <2>3 DEF Held, PendingMultisigTransactions
<1>10. CASE Arrive
  <2>1. PICK i : net' = [net EXCEPT !.arrived = @ \cup {i}]
    BY <1>10 DEF Arrive
  <2>. QED  BY <1>1, <1>2, <2>1 DEF IsNet, NetFields
<1>. QED  BY <1>3, <1>4, <1>5, <1>6, <1>7, <1>8, <1>9, <1>10 DEF Next, SetUp, local

(* A proposal that could still be executed is replaced only by one who had   *)
(* not seen it or was told to replace it (multisig/index.ts prepare and      *)
(* submitPrepared, tx-pipeline.ts, commands/multisig/vote.ts).               *)
THEOREM ReplacedOnPurposeAlways == Spec => ReplacedOnPurpose
<1>1. ASSUME FastRight, Next
      PROVE  \A tx \in Held : Displaced(tx) =>
               \E a \in Actors : In(a, "fast", "submit") /\ at'[a] # at[a] /\ MayReplace(at[a], tx)
  BY <1>1, ReplacesOnPurpose
<1>2. FastRight /\ [Next]_vars =>
        [\A tx \in Held : Displaced(tx) =>
           \E a \in Actors : In(a, "fast", "submit") /\ at'[a] # at[a] /\ MayReplace(at[a], tx)]_vars
  BY <1>1
<1>. QED  BY <1>2, FastAlwaysRight, PTL DEF Spec, ReplacedOnPurpose

-----------------------------------------------------------------------------
(* A wait for a payment. A row that matches and is older than the floor was  *)
(* published later than the overlap allows for, and so is every one that a   *)
(* scan has gone past without finding the payment.                          *)
Wanted(r, c) == MatchesIncomingPayment(r, c.sinceNs)
FloorRight(c) ==
  /\ c.sinceNs \in Nat /\ c.deadline \in Int /\ c.floor \in Int
  /\ c.floor = NsToMs(c.sinceNs) \/ c.floor + Overlap <= feed.now
  /\ \A r \in feed.rows : Wanted(r, c) /\ NsToMs(r.t) < c.floor => r.late
PollRight(c) ==
  c.err = "none" => \A r \in c.present : Wanted(r, c) => c.began < c.deadline - FullEvery /\ r.late
PagesRight(c) ==
  /\ c.newest \in Int /\ c.newest <= feed.now /\ c.present \subseteq feed.rows
  /\ c.best = NoRow \/ (c.best \in feed.rows /\ Wanted(c.best, c))
  /\ c.cursor # -1 =>
       /\ c.cursor \in Nat /\ c.newest # -1
       /\ \A r \in c.present : Wanted(r, c) /\ r.t >= c.cursor => c.best # NoRow /\ c.best.t <= r.t
       /\ c.best = NoRow =>
            \A r \in feed.rows : Wanted(r, c) /\ r.t >= c.cursor /\ NsToMs(r.t) + Overlap < c.newest => r.late
BoundRight(c) ==
  /\ c.err # "none" /\ c.bound \in Int
  /\ c.bound = NsToMs(c.sinceNs) \/ (c.pc = "scan" /\ ~c.full /\ c.bound = c.floor)
  /\ c.pc = "scan" => c.first = NoRow
  /\ c.pc = "confirm" => c.first \in c.present /\ Wanted(c.first, c)
  /\ ~c.full => c.began < c.deadline - FullEvery
WaitRight(c) ==
  /\ FloorRight(c)
  /\ c.pc = "sleep" => PollRight(c)
  /\ c.pc \in {"scan", "confirm"} => PagesRight(c) /\ BoundRight(c)
FeedRight ==
  /\ feed = [now |-> feed.now, rows |-> feed.rows] /\ feed.now \in Nat
  /\ \A r \in feed.rows : r.t \in Nat /\ NsToMs(r.t) <= feed.now
WaitsRight ==
  /\ FeedRight
  /\ ops = 0 => waited = NotWaited /\ \A a \in Actors : at[a].in # "wait"
  /\ \A a \in Actors : at[a].in = "wait" => WaitRight(at[a])
  /\ WaitTruthful

(* Time stamps are finer than the clock, and in the same order.             *)
LEMMA ClockOrder ==
  /\ \A n \in Nat : NsToMs(n) \in Nat /\ n <= NsToMs(n) + NsToMs(n) + 1
  /\ \A m, n \in Nat : m <= n => NsToMs(m) <= NsToMs(n)
BY DEF NsToMs, Fraction

(* Of rows of the past one is the latest, and of any rows one the earliest.  *)
LEMMA LatestExists ==
  ASSUME NEW R, NEW b \in Nat, \A r \in R : r.t \in Nat /\ NsToMs(r.t) <= b, R # {}
  PROVE  \E r \in R : \A q \in R : q.t <= r.t
<1>1. ASSUME NEW r \in R PROVE r.t \in Nat /\ r.t <= b + b + 1
  <2>1. PICK k \in Nat, t \in Nat : t = r.t /\ k = NsToMs(t) /\ t <= k + k + 1
    BY ClockOrder
  <2>2. k <= b
    BY <2>1
  <2>. QED  BY <2>1, <2>2
<1>2. PICK T : T = {(b + b + 1) - r.t : r \in R}
  OBVIOUS
<1>3. T \subseteq Nat /\ T # {}
  BY <1>1, <1>2
<1>4. PICK n \in T : \A k \in T : n <= k
  BY <1>3, LeastExists
<1>5. PICK r \in R : n = (b + b + 1) - r.t
  BY <1>2
<1>6. ASSUME NEW q \in R PROVE q.t <= r.t
  <2>1. (b + b + 1) - r.t <= (b + b + 1) - q.t
    BY <1>2, <1>4, <1>5
  <2>. QED  BY <1>1, <2>1
<1>. QED  BY <1>6

(* The earliest of the rows found, if any is.                               *)
LEMMA EarliestFound ==
  ASSUME NEW R, \A r \in R : r.t \in Nat, NEW best, best = Earliest(R)
  PROVE  IF R = {} THEN best = NoRow ELSE best \in R /\ best # NoRow /\ \A r \in R : best.t <= r.t
<1>1. NoRow.t = -1
  BY DEF NoRow, Row, Transaction
<1>2. CASE R # {}
  <2>1. PICK T : T = {r.t : r \in R}
    OBVIOUS
  <2>2. PICK n \in T : \A k \in T : n <= k
    BY <1>2, <2>1, LeastExists
  <2>3. \E r \in R : \A q \in R : r.t <= q.t
    BY <2>1, <2>2
  <2>4. best \in R /\ \A q \in R : best.t <= q.t
    BY <1>2, <2>3 DEF Earliest
  <2>. QED  BY <1>1, <1>2, <2>4
<1>. QED  BY <1>2 DEF Earliest

(* A page holds the newest rows before the cursor.                          *)
LEMMA Paged ==
  ASSUME FeedRight, NEW cursor, NEW page, page = ListTransfers(cursor)
  PROVE  /\ page \subseteq feed.rows
         /\ (\A p \in page : p.t \in Nat /\ NsToMs(p.t) <= feed.now)
         /\ (\A r \in feed.rows : cursor = -1 \/ r.t < cursor => \E p \in page : r.t <= p.t)
         /\ (\A p, q \in page : p.t = q.t)
<1>1. PICK older : older = {r \in feed.rows : cursor = -1 \/ r.t < cursor}
  OBVIOUS
<1>2. page = {r \in older : \A q \in older : q.t <= r.t}
  BY <1>1 DEF ListTransfers
<1>3. \A r \in older : r.t \in Nat /\ NsToMs(r.t) <= feed.now
  BY <1>1 DEF FeedRight
<1>4. older # {} => \E r \in older : \A q \in older : q.t <= r.t
  BY <1>3, LatestExists DEF FeedRight
<1>5. \A p, q \in page : p.t = q.t
  BY <1>2, <1>3
<1>. QED  BY <1>1, <1>2, <1>3, <1>4, <1>5

(* The choice of one number, and of one of two.                             *)
LEMMA MaxMin ==
  /\ \A n \in Int : Max({n}) = n /\ Min({n}) = n
  /\ \A m, n \in Int : Max({m, n}) \in {m, n}
<1>1. \A m, n \in Int : \E x \in {m, n} : \A y \in {m, n} : x >= y
  OBVIOUS
<1>2. \A n \in Int : Max({n}) \in {n} /\ Min({n}) \in {n}
  BY DEF Max, Min
<1>3. \A m, n \in Int : Max({m, n}) \in {m, n}
  BY <1>1 DEF Max
<1>. QED  BY <1>2, <1>3

(* What a wait has found once it has read the page: the earliest payment on  *)
(* it or on the pages before.                                               *)
FoundSoFar(c, page) == Earliest({r \in page : Wanted(r, c)} \cup ({c.best} \ {NoRow}))
(* The time of the newest row seen.                                         *)
NewestSeen(c, page) ==
  IF c.newest = -1 /\ {NsToMs(r.t) : r \in page} # {} THEN Max({NsToMs(r.t) : r \in page}) ELSE c.newest
(* A page has been read: what was found and the newest row are right for     *)
(* the pages so far.                                                        *)
LEMMA PageRead ==
  ASSUME FeedRight, WaitAssumption, NEW c, FloorRight(c), PagesRight(c), BoundRight(c),
         NEW page, page = ListTransfers(c.cursor),
         NEW best, best = FoundSoFar(c, page), NEW newest, newest = NewestSeen(c, page)
  PROVE  /\ best = NoRow \/ (best \in feed.rows /\ Wanted(best, c))
         /\ newest \in Int /\ newest <= feed.now /\ (page # {} => newest # -1)
         /\ (\A r \in c.present : Wanted(r, c) /\ (r \in page \/ (c.cursor # -1 /\ r.t >= c.cursor)) =>
               best # NoRow /\ best.t <= r.t)
         /\ (best = NoRow =>
               \A r \in feed.rows : Wanted(r, c) /\ (r \in page \/ (c.cursor # -1 /\ r.t >= c.cursor))
                                      /\ NsToMs(r.t) + Overlap < newest => r.late)
<1>1. PICK found : found = {r \in page : Wanted(r, c)} \cup ({c.best} \ {NoRow}) /\ best = Earliest(found)
  BY DEF FoundSoFar
<1>2. /\ page \subseteq feed.rows
      /\ \A p \in page : p.t \in Nat /\ NsToMs(p.t) <= feed.now
      /\ \A p, q \in page : p.t = q.t
  BY Paged
<1>3. found \subseteq feed.rows /\ (\A r \in found : Wanted(r, c)) /\ \A r \in found : r.t \in Nat
  BY <1>1, <1>2 DEF PagesRight, FeedRight
<1>4. IF found = {} THEN best = NoRow ELSE best \in found /\ best # NoRow /\ \A r \in found : best.t <= r.t
  BY <1>1, <1>3, EarliestFound
<1>5. newest \in Int /\ newest <= feed.now /\ (page # {} => newest # -1) /\ (c.newest # -1 => newest = c.newest)
  <2>1. CASE c.newest = -1 /\ page # {}
    <3>1. PICK p \in page : TRUE
      BY <2>1
    <3>2. PICK times, time : times = {NsToMs(r.t) : r \in page} /\ time = NsToMs(p.t)
      OBVIOUS
    <3>3. times = {time}
      BY <1>2, <3>1, <3>2
    <3>4. time \in Nat /\ time <= feed.now
      BY <1>2, <3>1, <3>2, ClockOrder
    <3>5. newest = Max(times)
      BY <2>1, <3>2, <3>3 DEF NewestSeen
    <3>6. newest = time
      BY <3>3, <3>4, <3>5, MaxMin
    <3>. QED  BY <2>1, <3>4, <3>6
  <2>2. CASE ~(c.newest = -1 /\ page # {})
    <3>1. newest = c.newest
      BY <2>2 DEF NewestSeen
    <3>. QED  BY <2>2, <3>1 DEF PagesRight
  <2>. QED  BY <2>1, <2>2
<1>6. ASSUME NEW r \in c.present, Wanted(r, c), r \in page \/ (c.cursor # -1 /\ r.t >= c.cursor)
      PROVE  best # NoRow /\ best.t <= r.t
  <2>1. CASE r \in page
    BY <1>1, <1>4, <1>6, <2>1
  <2>2. CASE c.cursor # -1 /\ r.t >= c.cursor
    <3>1. c.best # NoRow /\ c.best.t <= r.t
      BY <1>6, <2>2 DEF PagesRight
    <3>2. c.best \in found
      BY <1>1, <3>1
    <3>3. best # NoRow /\ best.t <= c.best.t
      BY <1>4, <3>2
    <3>4. r.t \in Nat /\ c.best.t \in Nat /\ best.t \in Nat
      BY <1>3, <1>4, <1>6, <3>2 DEF PagesRight, FeedRight
    <3>. QED  BY <3>1, <3>3, <3>4
  <2>. QED  BY <1>6, <2>1, <2>2
<1>7. ASSUME best = NoRow, NEW r \in feed.rows, Wanted(r, c), r \in page \/ (c.cursor # -1 /\ r.t >= c.cursor),
             NsToMs(r.t) + Overlap < newest
      PROVE  r.late
  <2>1. r \notin found
    BY <1>4, <1>7
  <2>2. r \notin page
    BY <1>1, <1>7, <2>1
  <2>3. c.best = NoRow
    BY <1>1, <1>4, <1>7
  <2>4. c.cursor # -1 /\ r.t >= c.cursor /\ newest = c.newest
    BY <1>5, <1>7, <2>2 DEF PagesRight
  <2>. QED  BY <1>7, <2>3, <2>4 DEF PagesRight
<1>8. best = NoRow \/ (best \in feed.rows /\ Wanted(best, c))
  BY <1>3, <1>4
<1>. QED  BY <1>5, <1>6, <1>7, <1>8

(* The last page of a scan: every row from the bound on has been seen.      *)
LEMMA ScanEnds ==
  ASSUME FeedRight, NEW c, PagesRight(c), BoundRight(c), NEW page, page = ListTransfers(c.cursor),
         (\E p \in page : NsToMs(p.t) < c.bound) \/ ~HasMore(page),
         NEW r \in feed.rows, NsToMs(r.t) >= c.bound
  PROVE  r \in page \/ (c.cursor # -1 /\ r.t >= c.cursor)
<1>1. /\ page \subseteq feed.rows
      /\ (\A p \in page : p.t \in Nat)
      /\ (c.cursor = -1 \/ r.t < c.cursor => \E p \in page : r.t <= p.t)
      /\ (\A p, q \in page : p.t = q.t)
      /\ r.t \in Nat
  BY Paged DEF FeedRight
<1>2. SUFFICES ASSUME c.cursor = -1 \/ ~(r.t >= c.cursor) PROVE r \in page
  OBVIOUS
<1>3. c.cursor = -1 \/ r.t < c.cursor
  BY <1>1, <1>2 DEF PagesRight
<1>4. PICK p \in page : r.t <= p.t
  BY <1>1, <1>3
<1>5. CASE r.t < p.t
  <2>1. HasMore(page)
    BY <1>5 DEF HasMore
  <2>2. PICK q \in page : NsToMs(q.t) < c.bound
    BY <2>1
  <2>3. NsToMs(r.t) <= NsToMs(q.t) /\ NsToMs(r.t) \in Nat /\ NsToMs(q.t) \in Nat
    <3>1. r.t <= q.t /\ q.t \in Nat
      BY <1>1, <1>4
    <3>. QED  BY <1>1, <3>1, ClockOrder
  <2>. QED  BY <2>2, <2>3 DEF BoundRight
<1>6. CASE r.t = p.t
  <2>1. \A q \in feed.rows : (c.cursor = -1 \/ q.t < c.cursor) => q.t <= p.t
    <3>1. ASSUME NEW q \in feed.rows, c.cursor = -1 \/ q.t < c.cursor PROVE q.t <= p.t
      <4>1. PICK s \in page : q.t <= s.t
        BY <3>1, Paged
      <4>. QED  BY <1>1, <4>1
    <3>. QED  BY <3>1
  <2>. QED  BY <1>3, <1>6, <2>1 DEF ListTransfers
<1>. QED  BY <1>1, <1>4, <1>5, <1>6

(* A wait has had its time stamps and its rows from the feed.               *)
LEMMA ShapeOfWait ==
  ASSUME Shapes, NEW a \in Actors, at[a].in = "wait"
  PROVE  IsWait(at[a])
BY DEF Shapes, IsCommand, Idle

(* A step of a wait that leaves it right, or ends it.                       *)
LEMMA WaitStep ==
  ASSUME WaitsRight, Shapes, NEW a \in Actors, at[a].in = "wait", UNCHANGED feed,
         NEW s, at' = [at EXCEPT ![a] = s], ops' = ops, s = Idle \/ WaitRight(s), WaitTruthful'
  PROVE  WaitsRight'
<1>1. FeedRight' /\ ops # 0
  BY DEF WaitsRight, FeedRight
<1>2. \A b \in Actors : at'[b] = IF b = a THEN s ELSE at[b]
  BY DEF Shapes
<1>3. Idle.in = "none"
  BY DEF Idle
<1>4. \A b \in Actors : at'[b].in = "wait" => WaitRight(at'[b])
  BY <1>2, <1>3 DEF WaitsRight
<1>5. \A c : WaitRight(c) => WaitRight(c)'
  BY DEF WaitRight, FloorRight, PollRight, PagesRight, BoundRight, Wanted
<1>6. \A b \in Actors : at'[b].in = "wait" => \A c : c = at'[b] => WaitRight(c)'
  BY <1>4, <1>5
<1>7. \A b \in Actors : at'[b].in = "wait" => WaitRight(at[b])'
  BY <1>6
<1>. QED  BY <1>1, <1>7 DEF WaitsRight

(* A wait that has told nothing yet still has not.                          *)
LEMMA NothingTold ==
  ASSUME WaitTruthful, UNCHANGED waited, feed.rows \subseteq feed'.rows
  PROVE  WaitTruthful'
BY DEF WaitTruthful

(* The wait starts, and what has happened before is in the feed.            *)
LEMMA StartWaitRight ==
  ASSUME WaitsRight, Shapes, NEW a \in Actors, StartWait(a)
  PROVE  WaitsRight'
<1>1. ops = 0 /\ waited' = NotWaited /\ (\A b \in Actors : at[b].in # "wait") /\ FeedRight
  BY DEF StartWait, WaitsRight
<1>2. PICK sinceNs \in {feed.now * Fraction, Since}, timeout \in Timeouts, old \in SUBSET Transactions :
        /\ \A x \in old : NsToMs(x.t) <= feed.now
        /\ feed' = [feed EXCEPT !.rows = {Row(x, NsToMs(x.t)) : x \in old}]
        /\ Begin(a, "wait", [in |-> "wait", pc |-> "sleep", sinceNs |-> sinceNs, deadline |-> feed.now + timeout, wake |-> feed.now,
            floor |-> NsToMs(sinceNs), lastFull |-> -FullEvery, err |-> "none",
            began |-> -1, full |-> FALSE, present |-> {}, bound |-> -1, cursor |-> -1,
            newest |-> -1, first |-> NoRow, best |-> NoRow])
  BY DEF StartWait
<1>3. PICK s : /\ s.sinceNs = sinceNs /\ s.deadline = feed.now + timeout /\ s.floor = NsToMs(sinceNs) /\ s.pc = "sleep" /\ s.present = {}
               /\ at' = [at EXCEPT ![a] = s] /\ ops' = ops + 1
  BY <1>2 DEF Begin
<1>4. sinceNs \in Nat /\ timeout \in Nat /\ feed.now \in Nat
  BY <1>1, <1>2, WaitAssumption DEF WaitAssumption, FeedRight, Fraction
<1>5. feed' = [now |-> feed'.now, rows |-> feed'.rows] /\ feed'.now = feed.now /\ feed'.rows = {Row(x, NsToMs(x.t)) : x \in old}
  BY <1>1, <1>2 DEF FeedRight
<1>6. \A x \in old : x.t \in Nat /\ Row(x, NsToMs(x.t)).t = x.t
  BY <1>2, WaitAssumption DEF WaitAssumption, Row
<1>7. FeedRight'
  BY <1>2, <1>4, <1>5, <1>6 DEF FeedRight
<1>8. ASSUME NEW r \in feed'.rows, MatchesIncomingPayment(r, sinceNs)
      PROVE  NsToMs(sinceNs) <= NsToMs(r.t) /\ NsToMs(r.t) \in Nat
  <2>1. r.t \in Nat /\ r.t >= sinceNs
    BY <1>7, <1>8 DEF FeedRight, MatchesIncomingPayment
  <2>. QED  BY <1>4, <2>1, ClockOrder
<1>9. NsToMs(sinceNs) \in Nat
  BY <1>4, ClockOrder
<1>10. WaitRight(s)'
  BY <1>3, <1>4, <1>8, <1>9 DEF WaitRight, FloorRight, PollRight, Wanted
<1>11. \A b \in Actors : at'[b] = IF b = a THEN s ELSE at[b]
  BY <1>3 DEF Shapes
<1>12. \A b \in Actors : at'[b].in = "wait" => \A c : c = at'[b] => WaitRight(c)'
  BY <1>1, <1>10, <1>11
<1>13. \A b \in Actors : at'[b].in = "wait" => WaitRight(at[b])'
  BY <1>12
<1>14. WaitTruthful'
  BY <1>1 DEF WaitTruthful, NotWaited
<1>15. ops' # 0
  BY <1>1, <1>3
<1>. QED  BY <1>7, <1>13, <1>14, <1>15 DEF WaitsRight

(* A poll begins at the newest row.                                         *)
LEMMA PollRightly ==
  ASSUME WaitsRight, Shapes, WaitAssumption, NEW a \in Actors, Poll(a)
  PROVE  WaitsRight'
<1>1. at[a].in = "wait" /\ IsWait(at[a]) /\ WaitRight(at[a]) /\ UNCHANGED <<feed, waited>> /\ FeedRight
  BY ShapeOfWait DEF Poll, In, WaitsRight
<1>2. PICK c, full, bound, s :
        /\ c = at[a] /\ full = IsFull(c) /\ bound = (IF full THEN NsToMs(c.sinceNs) ELSE c.floor)
        /\ s = [ScanFrom(c, bound) EXCEPT !.pc = "scan", !.began = feed.now, !.full = full, !.err = "in flight",
                                          !.newest = -1, !.first = NoRow]
  OBVIOUS
<1>3. at' = [at EXCEPT ![a] = s] /\ ops' = ops
  BY <1>2 DEF Poll, Go
<1>4. PICK d : d = ScanFrom(c, bound)
  OBVIOUS
<1>5. /\ d = [f \in WaitFields |-> d[f]]
      /\ d.sinceNs = c.sinceNs /\ d.deadline = c.deadline /\ d.floor = c.floor
      /\ d.bound = bound /\ d.cursor = -1 /\ d.best = NoRow /\ d.present = feed.rows
  BY <1>1, <1>2, <1>4 DEF IsWait, WaitFields, ScanFrom
<1>6. /\ s.sinceNs = c.sinceNs /\ s.deadline = c.deadline /\ s.floor = c.floor
      /\ s.bound = bound /\ s.cursor = -1 /\ s.best = NoRow /\ s.present = feed.rows
      /\ s.pc = "scan" /\ s.began = feed.now /\ s.full = full /\ s.err = "in flight" /\ s.newest = -1 /\ s.first = NoRow
  BY <1>2, <1>4, <1>5 DEF WaitFields
<1>7. FloorRight(s)
  BY <1>1, <1>2, <1>6 DEF WaitRight, FloorRight, Wanted
<1>8. feed.now \in Nat /\ c.deadline \in Int /\ FullEvery \in Nat /\ c.floor \in Int /\ NsToMs(c.sinceNs) \in Nat
  BY <1>1, <1>2, WaitAssumption, ClockOrder DEF WaitAssumption, FeedRight, WaitRight, FloorRight
<1>9. PagesRight(s)
  <2>1. -1 \in Int /\ -1 <= feed.now
    BY <1>8
  <2>. QED  BY <1>6, <2>1 DEF PagesRight
<1>10. ~full => feed.now < c.deadline - FullEvery
  <2>1. ~full => ~(c.deadline - feed.now <= FullEvery)
    BY <1>2, Zenon DEF IsFull
  <2>. QED  BY <1>8, <2>1
<1>11. full \in BOOLEAN
  BY <1>2 DEF IsFull
<1>12. BoundRight(s)
  BY <1>2, <1>6, <1>8, <1>10, <1>11 DEF BoundRight
<1>13. WaitRight(s)
  BY <1>6, <1>7, <1>9, <1>12 DEF WaitRight
<1>14. WaitTruthful'
  BY <1>1, NothingTold DEF WaitsRight
<1>. QED  BY <1>1, <1>3, <1>13, <1>14, WaitStep

(* A row as new as the page is on it or on an earlier one.                  *)
LEMMA SeenSoFar ==
  ASSUME FeedRight, NEW cursor, cursor = -1 \/ cursor \in Nat, NEW page, page = ListTransfers(cursor),
         NEW p \in page, NEW r \in feed.rows, r.t >= p.t
  PROVE  r \in page \/ (cursor # -1 /\ r.t >= cursor)
<1>1. SUFFICES ASSUME cursor = -1 \/ ~(r.t >= cursor) PROVE r \in page
  OBVIOUS
<1>2. r.t \in Nat /\ (cursor = -1 \/ r.t < cursor)
  BY <1>1 DEF FeedRight
<1>3. /\ \A q \in page : q.t \in Nat /\ q.t = p.t
      /\ \A q \in feed.rows : (cursor = -1 \/ q.t < cursor) => \E n \in page : q.t <= n.t
  BY Paged
<1>4. \A q \in feed.rows : (cursor = -1 \/ q.t < cursor) => q.t <= p.t
  BY <1>3
<1>5. r.t <= p.t
  BY <1>2, <1>4
<1>6. r.t = p.t
  BY <1>2, <1>3, <1>5
<1>. QED  BY <1>2, <1>4, <1>6 DEF ListTransfers

(* The first scan of a poll found the payment: the whole window is looked   *)
(* through again.                                                           *)
LEMMA ConfirmRight ==
  ASSUME FeedRight, NEW c, IsWait(c), FloorRight(c), BoundRight(c), c.pc = "scan", ~c.full, c.newest \in Int, c.newest <= feed.now,
         c.best \in feed.rows, Wanted(c.best, c),
         NEW s, s = [ScanFrom(c, NsToMs(c.sinceNs)) EXCEPT !.pc = "confirm", !.first = c.best]
  PROVE  WaitRight(s)
<1>1. PICK d, bound : d = ScanFrom(c, bound) /\ bound = NsToMs(c.sinceNs)
  OBVIOUS
<1>2. /\ d = [f \in WaitFields |-> d[f]]
      /\ d.sinceNs = c.sinceNs /\ d.deadline = c.deadline /\ d.floor = c.floor /\ d.err = c.err /\ d.full = c.full
      /\ d.began = c.began /\ d.newest = c.newest
      /\ d.bound = bound /\ d.cursor = -1 /\ d.best = NoRow /\ d.present = feed.rows
  BY <1>1 DEF IsWait, WaitFields, ScanFrom
<1>3. /\ s.sinceNs = c.sinceNs /\ s.deadline = c.deadline /\ s.floor = c.floor /\ s.err = c.err /\ s.full = c.full
      /\ s.began = c.began /\ s.newest = c.newest
      /\ s.bound = bound /\ s.cursor = -1 /\ s.best = NoRow /\ s.present = feed.rows
      /\ s.pc = "confirm" /\ s.first = c.best
  BY <1>1, <1>2 DEF WaitFields
<1>4. FloorRight(s)
  BY <1>3 DEF FloorRight, Wanted
<1>5. PagesRight(s)
  BY <1>3 DEF PagesRight
<1>6. bound \in Nat
  BY <1>1, ClockOrder DEF FloorRight
<1>7. BoundRight(s)
  BY <1>1, <1>3, <1>6 DEF BoundRight, Wanted
<1>. QED  BY <1>3, <1>4, <1>5, <1>7 DEF WaitRight

(* A poll that found nothing ends: what it went past, or raises the floor   *)
(* over, was published later than the overlap allows for.                   *)
LEMMA CompletedRight ==
  ASSUME FeedRight, WaitAssumption, NEW c, IsWait(c), FloorRight(c), BoundRight(c), c.pc = "scan", c.present \subseteq feed.rows,
         c.newest \in Int, c.newest <= feed.now,
         \A r \in c.present : Wanted(r, c) => NsToMs(r.t) < c.bound,
         \A r \in feed.rows : Wanted(r, c) /\ NsToMs(r.t) + Overlap < c.newest => r.late \/ NsToMs(r.t) < c.bound,
         NEW confirmed, NEW s, s = Completed(c, confirmed)
  PROVE  WaitRight(s)
<1>1. PICK first, floor : /\ first = NsToMs(c.sinceNs)
                          /\ floor = IF c.newest = -1 THEN c.floor ELSE Max({first, c.newest - Overlap})
  OBVIOUS
<1>2. /\ s.sinceNs = c.sinceNs /\ s.deadline = c.deadline /\ s.floor = floor /\ s.err = "none"
      /\ s.began = c.began /\ s.present = c.present /\ s.pc = "sleep"
  BY <1>1 DEF IsWait, WaitFields, Completed
<1>3. first \in Nat /\ feed.now \in Nat /\ Overlap \in Nat /\ c.floor \in Int
  BY <1>1, ClockOrder, WaitAssumption DEF WaitAssumption, FeedRight, FloorRight
<1>4. ASSUME NEW r \in feed.rows, Wanted(r, c) PROVE first <= NsToMs(r.t) /\ NsToMs(r.t) \in Nat
  <2>1. r.t \in Nat /\ r.t >= c.sinceNs /\ c.sinceNs \in Nat
    BY <1>4 DEF FeedRight, FloorRight, Wanted, MatchesIncomingPayment
  <2>. QED  BY <1>1, <2>1, ClockOrder
<1>5. ASSUME NEW r \in feed.rows, Wanted(r, c), NsToMs(r.t) < c.bound PROVE r.late /\ ~c.full
  <2>1. c.bound # first
    BY <1>3, <1>4, <1>5
  <2>2. ~c.full /\ c.bound = c.floor
    BY <1>1, <2>1 DEF BoundRight
  <2>. QED  BY <1>5, <2>2 DEF FloorRight
<1>6. floor \in Int /\ (floor = c.floor \/ floor = first \/ (c.newest # -1 /\ floor = c.newest - Overlap))
  <2>1. c.newest - Overlap \in Int
    BY <1>3
  <2>2. Max({first, c.newest - Overlap}) \in {first, c.newest - Overlap}
    BY <1>3, <2>1, MaxMin
  <2>. QED  BY <1>1, <1>3, <2>1, <2>2
<1>7. floor = first \/ floor + Overlap <= feed.now
  <2>1. c.floor = first \/ c.floor + Overlap <= feed.now
    BY <1>1 DEF FloorRight
  <2>. QED  BY <1>3, <1>6, <2>1
<1>8. ASSUME NEW r \in feed.rows, Wanted(r, c), NsToMs(r.t) < floor PROVE r.late
  <2>1. CASE floor = c.floor
    BY <1>8, <2>1 DEF FloorRight
  <2>2. CASE floor = first
    BY <1>3, <1>4, <1>8, <2>2
  <2>3. CASE floor = c.newest - Overlap
    <3>1. NsToMs(r.t) + Overlap < c.newest
      BY <1>3, <1>4, <1>8, <2>3
    <3>. QED  BY <1>5, <1>8, <3>1
  <2>. QED  BY <1>6, <2>1, <2>2, <2>3
<1>9. FloorRight(s)
  BY <1>1, <1>2, <1>6, <1>7, <1>8 DEF FloorRight, Wanted
<1>10. ASSUME NEW r \in c.present, Wanted(r, c) PROVE c.began < c.deadline - FullEvery /\ r.late
  <2>1. r.late /\ ~c.full
    BY <1>5, <1>10
  <2>. QED  BY <2>1 DEF BoundRight
<1>11. PollRight(s)
  BY <1>2, <1>10 DEF PollRight, Wanted
<1>. QED  BY <1>2, <1>9, <1>11 DEF WaitRight

(* A page is read: the scan goes on to the next one, is confirmed by a scan  *)
(* of the whole window, or ends the poll, perhaps with the payment.         *)
LEMMA ReadPageRight ==
  ASSUME WaitsRight, Shapes, WaitAssumption, NEW a \in Actors, ReadPage(a)
  PROVE  WaitsRight'
<1>1. PICK c : c = at[a]
  OBVIOUS
<1>2. /\ at[a].in = "wait" /\ c.pc \in {"scan", "confirm"} /\ IsWait(c) /\ UNCHANGED feed /\ FeedRight /\ WaitTruthful
      /\ FloorRight(c) /\ PagesRight(c) /\ BoundRight(c)
  BY <1>1, ShapeOfWait DEF ReadPage, In, WaitsRight, WaitRight
<1>3. PICK page : page = ListTransfers(c.cursor)
  OBVIOUS
<1>4. PICK best, newest :
        best = FoundSoFar(c, page) /\ newest = NewestSeen(c, page)
  OBVIOUS
<1>5. /\ best = NoRow \/ (best \in feed.rows /\ Wanted(best, c))
      /\ newest \in Int /\ newest <= feed.now /\ (page # {} => newest # -1)
      /\ (\A r \in c.present : Wanted(r, c) /\ (r \in page \/ (c.cursor # -1 /\ r.t >= c.cursor)) =>
            best # NoRow /\ best.t <= r.t)
      /\ (best = NoRow =>
            \A r \in feed.rows : Wanted(r, c) /\ (r \in page \/ (c.cursor # -1 /\ r.t >= c.cursor))
                                   /\ NsToMs(r.t) + Overlap < newest => r.late)
  BY <1>2, <1>3, <1>4, PageRead
<1>6. PICK read : read = [c EXCEPT !.best = best, !.newest = newest]
  OBVIOUS
<1>7. \/ ((\E p \in page : NsToMs(p.t) < c.bound) \/ ~HasMore(page)) /\ Scanned(a, read)
      \/ HasMore(page) /\ Go(a, [read EXCEPT !.cursor = Min({r.t : r \in page})]) /\ UNCHANGED waited
  <2>1. PICK times : times = {NsToMs(r.t) : r \in page}
    OBVIOUS
  <2>2. (\E t \in times : t < c.bound) <=> \E p \in page : NsToMs(p.t) < c.bound
    BY <2>1
  <2>3. read = [c EXCEPT !.best = Earliest({r \in page : MatchesIncomingPayment(r, c.sinceNs)} \cup ({@} \ {NoRow})),
                         !.newest = IF @ = -1 /\ times # {} THEN Max(times) ELSE @]
    BY <1>2, <1>4, <1>6, <2>1 DEF Wanted, IsWait, WaitFields, FoundSoFar, NewestSeen
  <2>. QED  BY <1>1, <1>3, <2>1, <2>2, <2>3 DEF ReadPage
<1>8. /\ IsWait(read) /\ read.best = best /\ read.newest = newest /\ read.sinceNs = c.sinceNs /\ read.deadline = c.deadline
      /\ read.floor = c.floor /\ read.err = c.err /\ read.full = c.full /\ read.bound = c.bound /\ read.first = c.first
      /\ read.began = c.began /\ read.present = c.present /\ read.pc = c.pc
  BY <1>2, <1>6 DEF IsWait, WaitFields
<1>9. FloorRight(read) /\ BoundRight(read) /\ (\A r : Wanted(r, read) <=> Wanted(r, c))
  BY <1>2, <1>8 DEF FloorRight, BoundRight, Wanted
<1>10. CASE HasMore(page) /\ Go(a, [read EXCEPT !.cursor = Min({r.t : r \in page})]) /\ UNCHANGED waited
  <2>1. PICK p \in page : TRUE
    BY <1>10 DEF HasMore
  <2>2. p.t \in Nat /\ (\A q \in page : q.t = p.t) /\ page \subseteq feed.rows
    BY <1>2, <1>3, Paged
  <2>3. PICK times, s, t : times = {r.t : r \in page} /\ t = p.t /\ s = [read EXCEPT !.cursor = Min(times)]
    OBVIOUS
  <2>4. times = {t} /\ t \in Nat
    BY <2>2, <2>3
  <2>5. Min(times) = t
    BY <2>4, MaxMin
  <2>6. /\ s.cursor = t /\ s.best = best /\ s.newest = newest /\ s.sinceNs = c.sinceNs /\ s.deadline = c.deadline
        /\ s.floor = c.floor /\ s.err = c.err /\ s.full = c.full /\ s.bound = c.bound /\ s.first = c.first
        /\ s.began = c.began /\ s.present = c.present /\ s.pc = c.pc
    BY <1>8, <2>3, <2>5 DEF IsWait, WaitFields
  <2>7. c.cursor = -1 \/ c.cursor \in Nat
    BY <1>2 DEF PagesRight
  <2>8. \A r \in feed.rows : r.t >= t => r \in page \/ (c.cursor # -1 /\ r.t >= c.cursor)
    BY <1>2, <1>3, <2>1, <2>3, <2>7, SeenSoFar
  <2>9. newest # -1
    BY <1>5, <2>1
  <2>10. \A r \in c.present : Wanted(r, c) /\ r.t >= t => best # NoRow /\ best.t <= r.t
    BY <1>2, <1>5, <2>8 DEF PagesRight
  <2>11. best = NoRow => \A r \in feed.rows : Wanted(r, c) /\ r.t >= t /\ NsToMs(r.t) + Overlap < newest => r.late
    BY <1>5, <2>8
  <2>12. PagesRight(s)
    BY <1>2, <1>5, <2>4, <2>6, <2>9, <2>10, <2>11 DEF PagesRight, Wanted
  <2>13. FloorRight(s) /\ BoundRight(s)
    BY <1>2, <2>6 DEF FloorRight, BoundRight, Wanted
  <2>14. WaitRight(s)
    BY <1>2, <2>6, <2>12, <2>13 DEF WaitRight
  <2>15. at' = [at EXCEPT ![a] = s] /\ ops' = ops
    BY <1>10, <2>3 DEF Go
  <2>16. WaitTruthful'
    BY <1>2, <1>10, NothingTold
  <2>. QED  BY <1>2, <2>14, <2>15, <2>16, WaitStep
<1>11. CASE ((\E p \in page : NsToMs(p.t) < c.bound) \/ ~HasMore(page)) /\ Scanned(a, read)
  <2>1. \A r \in feed.rows : NsToMs(r.t) >= c.bound => r \in page \/ (c.cursor # -1 /\ r.t >= c.cursor)
    BY <1>2, <1>3, <1>11, ScanEnds
  <2>2. c.present \subseteq feed.rows /\ c.bound \in Int
    BY <1>2 DEF PagesRight, BoundRight
  <2>3. \A r \in feed.rows : NsToMs(r.t) \in Nat
    BY <1>2, ClockOrder DEF FeedRight
  <2>4. \A r \in c.present : Wanted(r, c) => NsToMs(r.t) < c.bound \/ (best # NoRow /\ best.t <= r.t)
    BY <1>5, <2>1, <2>2, <2>3
  <2>5. best = NoRow => \A r \in feed.rows : Wanted(r, c) /\ NsToMs(r.t) + Overlap < newest => r.late \/ NsToMs(r.t) < c.bound
    BY <1>5, <2>1, <2>2, <2>3
  <2>6. \A r \in feed.rows : Wanted(r, c) => ~(NsToMs(r.t) < NsToMs(c.sinceNs))
    <3>1. ASSUME NEW r \in feed.rows, Wanted(r, c) PROVE ~(NsToMs(r.t) < NsToMs(c.sinceNs))
      <4>1. r.t \in Nat /\ c.sinceNs \in Nat /\ c.sinceNs <= r.t
        BY <1>2, <3>1 DEF FeedRight, FloorRight, Wanted, MatchesIncomingPayment
      <4>2. NsToMs(c.sinceNs) <= NsToMs(r.t) /\ NsToMs(c.sinceNs) \in Nat /\ NsToMs(r.t) \in Nat
        BY <4>1, ClockOrder
      <4>. QED  BY <4>2
    <3>. QED  BY <3>1
  <2>7. c.bound = NsToMs(c.sinceNs) => \A r \in c.present : Wanted(r, c) => best # NoRow /\ best.t <= r.t
    BY <2>2, <2>4, <2>6
  <2>8. c.pc = "confirm" => c.bound = NsToMs(c.sinceNs) /\ best # NoRow
    BY <1>2, <2>7 DEF BoundRight
  <2>9. CASE Confirms(read)
    <3>1. PICK s : s = [ScanFrom(read, NsToMs(read.sinceNs)) EXCEPT !.pc = "confirm", !.first = read.best]
      OBVIOUS
    <3>2. at' = [at EXCEPT ![a] = s] /\ ops' = ops /\ UNCHANGED waited
      BY <1>11, <2>9, <3>1 DEF Scanned, Go
    <3>3. read.pc = "scan" /\ ~read.full /\ read.best \in feed.rows /\ Wanted(read.best, read)
      BY <1>5, <1>8, <1>9, <2>9 DEF Confirms
    <3>4. WaitRight(s)
      BY <1>2, <1>5, <1>8, <1>9, <3>1, <3>3, ConfirmRight
    <3>5. WaitTruthful'
      BY <1>2, <3>2, NothingTold
    <3>. QED  BY <1>2, <3>2, <3>4, <3>5, WaitStep
  <2>10. CASE ~Confirms(read)
    <3>1. PICK found : found = IF best # NoRow THEN best ELSE c.first
      OBVIOUS
    <3>2. IF found # NoRow THEN Tell(a, "paid", found) /\ Exit(a)
          ELSE Go(a, Completed(read, read.pc = "confirm")) /\ UNCHANGED waited
      BY <1>8, <1>11, <2>10, <3>1 DEF Scanned, PollDone
    <3>3. CASE found # NoRow
      <4>1. best # NoRow /\ found = best /\ c.bound = NsToMs(c.sinceNs)
        <5>1. CASE c.pc = "confirm"
          BY <2>8, <3>1, <5>1
        <5>2. CASE c.pc = "scan"
          <6>1. best # NoRow
            BY <1>2, <3>1, <3>3, <5>2 DEF BoundRight
          <6>2. c.full
            BY <1>8, <2>10, <5>2, <6>1 DEF Confirms
          <6>. QED  BY <1>2, <3>1, <6>1, <6>2 DEF BoundRight
        <5>. QED  BY <1>2, <5>1, <5>2
      <4>2. /\ waited' = [result |-> "paid", err |-> c.err, row |-> best, present |-> c.present, began |-> c.began,
                         sinceNs |-> c.sinceNs, deadline |-> c.deadline]
            /\ at' = [at EXCEPT ![a] = Idle] /\ ops' = ops
        BY <1>1, <3>2, <3>3, <4>1 DEF Tell, Exit, Go
      <4>3. WaitTruthful'
        BY <1>2, <1>5, <2>7, <4>1, <4>2 DEF WaitTruthful, Wanted
      <4>. QED  BY <1>2, <4>2, <4>3, WaitStep
    <3>4. CASE found = NoRow
      <4>1. best = NoRow /\ c.pc = "scan"
        BY <1>2, <2>8, <3>1, <3>4
      <4>2. PICK s, confirmed : confirmed = (read.pc = "confirm") /\ s = Completed(read, confirmed)
        OBVIOUS
      <4>3. at' = [at EXCEPT ![a] = s] /\ ops' = ops /\ UNCHANGED waited
        BY <3>2, <3>4, <4>2 DEF Go
      <4>4. \A r \in read.present : Wanted(r, read) => NsToMs(r.t) < read.bound
        BY <1>8, <1>9, <2>4, <4>1
      <4>5. \A r \in feed.rows : Wanted(r, read) /\ NsToMs(r.t) + Overlap < read.newest => r.late \/ NsToMs(r.t) < read.bound
        BY <1>8, <1>9, <2>5, <4>1
      <4>6. read.pc = "scan" /\ read.present \subseteq feed.rows /\ read.newest \in Int /\ read.newest <= feed.now
        BY <1>5, <1>8, <2>2, <4>1
      <4>7. WaitRight(s)
        BY <1>2, <1>8, <1>9, <4>2, <4>4, <4>5, <4>6, CompletedRight
      <4>8. WaitTruthful'
        BY <1>2, <4>3, NothingTold
      <4>. QED  BY <1>2, <4>3, <4>7, <4>8, WaitStep
    <3>. QED  BY <3>3, <3>4
  <2>. QED  BY <2>9, <2>10
<1>. QED  BY <1>7, <1>10, <1>11

(* A failed poll is tried again, and a wait whose time is up tells of the    *)
(* last poll.                                                               *)
LEMMA PollFailsRight ==
  ASSUME WaitsRight, Shapes, NEW a \in Actors, PollFails(a) \/ TimeOut(a)
  PROVE  WaitsRight'
<1>1. PICK c : c = at[a]
  OBVIOUS
<1>2. at[a].in = "wait" /\ IsWait(c) /\ WaitRight(c) /\ WaitTruthful /\ UNCHANGED feed
  BY <1>1, ShapeOfWait DEF PollFails, TimeOut, In, WaitsRight
<1>3. CASE PollFails(a)
  <2>1. PICK wake, s : s = [c EXCEPT !.pc = "sleep", !.wake = wake, !.err = "unavailable"]
                       /\ at' = [at EXCEPT ![a] = s] /\ ops' = ops /\ UNCHANGED waited
    BY <1>1, <1>3 DEF PollFails
  <2>2. s.pc = "sleep" /\ s.err = "unavailable" /\ s.sinceNs = c.sinceNs /\ s.deadline = c.deadline /\ s.floor = c.floor
    BY <1>2, <2>1 DEF IsWait, WaitFields
  <2>3. WaitRight(s)
    BY <1>2, <2>2 DEF WaitRight, FloorRight, PollRight, Wanted
  <2>4. WaitTruthful'
    BY <1>2, <2>1, NothingTold
  <2>. QED  BY <1>2, <2>1, <2>3, <2>4, WaitStep
<1>4. CASE TimeOut(a)
  <2>1. /\ waited' = [result |-> "timeout", err |-> c.err, row |-> NoRow, present |-> c.present, began |-> c.began,
                      sinceNs |-> c.sinceNs, deadline |-> c.deadline]
        /\ at' = [at EXCEPT ![a] = Idle] /\ ops' = ops
    BY <1>1, <1>4 DEF TimeOut, Tell, Exit, Go
  <2>2. c.err = "none" => PollRight(c)
    BY <1>2 DEF WaitRight, BoundRight, IsWait
  <2>3. WaitTruthful'
    BY <2>1, <2>2 DEF WaitTruthful, PollRight, Wanted
  <2>. QED  BY <1>2, <2>1, <2>3, WaitStep
<1>. QED  BY <1>3, <1>4

(* A row that the indexer has just published.                               *)
Published(r) == r.t \in Nat /\ NsToMs(r.t) <= feed.now /\ (r.late <=> feed.now > NsToMs(r.t) + Overlap)
(* Time passes, and a row that is published after the overlap is late.      *)
LEMMA FeedMoves ==
  ASSUME WaitsRight, Shapes, WaitAssumption, UNCHANGED <<activity, waited>>, ops # 0,
         feed' = [now |-> feed'.now, rows |-> feed'.rows], feed'.now \in Nat, feed.now <= feed'.now,
         feed.rows \subseteq feed'.rows,
         \A r \in feed'.rows : r \in feed.rows \/ Published(r)
  PROVE  WaitsRight'
<1>1. FeedRight /\ feed.now \in Nat /\ Overlap \in Nat /\ at' = at /\ ops' = ops
  BY WaitAssumption DEF WaitsRight, FeedRight, WaitAssumption, activity
<1>2. ASSUME NEW r \in feed'.rows PROVE r.t \in Nat /\ NsToMs(r.t) \in Nat /\ NsToMs(r.t) <= feed'.now
  <2>1. r.t \in Nat /\ NsToMs(r.t) <= feed.now
    BY <1>1, <1>2 DEF FeedRight, Published
  <2>. QED  BY <1>1, <2>1, ClockOrder
<1>3. FeedRight'
  BY <1>2 DEF FeedRight
<1>4. ASSUME NEW c, WaitRight(c), IsWait(c) PROVE WaitRight(c)'
  <2>1. PICK first : first = NsToMs(c.sinceNs)
    OBVIOUS
  <2>2. first \in Nat /\ c.sinceNs \in Nat /\ c.floor \in Int /\ (c.floor = first \/ c.floor + Overlap <= feed.now)
    BY <1>4, <2>1, ClockOrder DEF WaitRight, FloorRight
  <2>3. ASSUME NEW r \in feed'.rows, Wanted(r, c) PROVE first <= NsToMs(r.t)
    <3>1. r.t \in Nat /\ r.t >= c.sinceNs
      BY <1>2, <2>3 DEF Wanted, MatchesIncomingPayment
    <3>. QED  BY <2>1, <2>2, <3>1, ClockOrder
  <2>4. ASSUME NEW r \in feed'.rows, Wanted(r, c), NsToMs(r.t) < c.floor PROVE r.late
    <3>1. CASE r \in feed.rows
      BY <1>4, <2>4, <3>1 DEF WaitRight, FloorRight
    <3>2. CASE r \notin feed.rows
      <4>1. c.floor # first
        BY <1>2, <2>2, <2>3, <2>4
      <4>2. feed.now > NsToMs(r.t) + Overlap
        BY <1>1, <1>2, <2>2, <2>4, <4>1
      <4>. QED  BY <2>4, <3>2, <4>2 DEF Published
    <3>. QED  BY <3>1, <3>2
  <2>5. FloorRight(c)'
    <3>1. c.floor = first \/ c.floor + Overlap <= feed'.now
      BY <1>1, <2>2
    <3>. QED  BY <1>4, <2>1, <2>4, <3>1 DEF WaitRight, FloorRight, Wanted
  <2>6. PagesRight(c) => PagesRight(c)'
    <3>1. SUFFICES ASSUME PagesRight(c) PROVE PagesRight(c)'
      OBVIOUS
    <3>2. c.newest \in Int /\ c.newest <= feed.now /\ c.newest <= feed'.now
      BY <1>1, <3>1 DEF PagesRight
    <3>3. ASSUME c.best = NoRow, c.cursor # -1, NEW r \in feed'.rows, Wanted(r, c), r.t >= c.cursor,
                 NsToMs(r.t) + Overlap < c.newest
          PROVE  r.late
      <4>1. CASE r \in feed.rows
        BY <3>1, <3>3, <4>1 DEF PagesRight
      <4>2. CASE r \notin feed.rows
        <5>1. feed.now > NsToMs(r.t) + Overlap
          BY <1>1, <1>2, <3>2, <3>3
        <5>. QED  BY <3>3, <4>2, <5>1 DEF Published
      <4>. QED  BY <4>1, <4>2
    <3>. QED  BY <3>1, <3>2, <3>3 DEF PagesRight, Wanted
  <2>. QED  BY <1>4, <2>5, <2>6 DEF WaitRight, PollRight, BoundRight, Wanted
<1>5. \A b \in Actors : at[b].in = "wait" => \A c : c = at[b] => WaitRight(c)'
  BY <1>4, ShapeOfWait DEF WaitsRight
<1>6. \A b \in Actors : at'[b].in = "wait" => WaitRight(at[b])'
  BY <1>1, <1>5
<1>7. WaitTruthful'
  BY NothingTold DEF WaitsRight
<1>. QED  BY <1>1, <1>3, <1>6, <1>7 DEF WaitsRight

(* The clock ticks, or the indexer publishes a row.                         *)
LEMMA TickRight ==
  ASSUME WaitsRight, Shapes, WaitAssumption, NEW a \in Actors, Tick(a) \/ Publish(a)
  PROVE  WaitsRight'
<1>1. FeedRight /\ feed.now \in Nat /\ UNCHANGED <<activity, waited>> /\ ops # 0
  BY DEF WaitsRight, FeedRight, Tick, Publish
<1>2. CASE Tick(a)
  <2>1. feed' = [now |-> feed.now + 1, rows |-> feed.rows]
    BY <1>1, <1>2 DEF Tick, FeedRight
  <2>2. feed' = [now |-> feed'.now, rows |-> feed'.rows] /\ feed'.now \in Nat /\ feed.now <= feed'.now /\ feed'.rows = feed.rows
    BY <1>1, <2>1
  <2>. QED  BY <1>1, <2>2, FeedMoves
<1>3. CASE Publish(a)
  <2>1. PICK x \in Transactions : NsToMs(x.t) <= feed.now /\ feed' = [feed EXCEPT !.rows = @ \cup {Row(x, feed.now)}]
    BY <1>3 DEF Publish
  <2>2. PICK row : row = Row(x, feed.now)
    OBVIOUS
  <2>3. row.t = x.t /\ x.t \in Nat /\ (row.late <=> feed.now > NsToMs(x.t) + Overlap)
    BY <2>1, <2>2, WaitAssumption DEF Row, WaitAssumption
  <2>4. feed' = [now |-> feed.now, rows |-> feed.rows \cup {row}]
    BY <1>1, <2>1, <2>2 DEF FeedRight
  <2>5. feed' = [now |-> feed'.now, rows |-> feed'.rows] /\ feed'.now = feed.now /\ feed'.rows = feed.rows \cup {row}
    BY <2>4
  <2>6. feed'.now \in Nat /\ feed.now <= feed'.now /\ feed.rows \subseteq feed'.rows
    BY <1>1, <2>5
  <2>7. \A r \in feed'.rows : r \in feed.rows \/ Published(r)
    BY <2>1, <2>3, <2>5 DEF Published
  <2>. QED  BY <1>1, <2>5, <2>6, <2>7, FeedMoves
<1>. QED  BY <1>2, <1>3

-----------------------------------------------------------------------------
(* The other commands leave a wait as it is.                                *)
Elsewhere(s) == s = Idle \/ s.in = "fast"
Steps(a) == ops' = ops /\ \E s : at' = [at EXCEPT ![a] = s] /\ Elsewhere(s)
(* A step of another command is not a step of the wait.                     *)
LEMMA OthersMove ==
  ASSUME WaitsRight, Shapes, NEW a, NEW s, at' = [at EXCEPT ![a] = s], Elsewhere(s),
         ops' \in {ops, ops + 1}, UNCHANGED <<feed, waited>>
  PROVE  WaitsRight'
<1>1. s.in # "wait"
  BY DEF Elsewhere, Idle
<1>2. \A b \in Actors : at'[b].in = "wait" => at'[b] = at[b]
  BY <1>1 DEF Shapes
<1>3. \A c : WaitRight(c) => WaitRight(c)'
  BY DEF WaitRight, FloorRight, PollRight, PagesRight, BoundRight, Wanted
<1>4. \A b \in Actors : at'[b].in = "wait" => \A c : c = at'[b] => WaitRight(c)'
  BY <1>2, <1>3 DEF WaitsRight
<1>5. \A b \in Actors : at'[b].in = "wait" => WaitRight(at[b])'
  BY <1>4
<1>6. ops' = 0 => ops = 0
  BY DEF Shapes
<1>7. ops' = 0 => waited' = NotWaited /\ \A b \in Actors : at'[b].in # "wait"
  BY <1>2, <1>6 DEF WaitsRight
<1>8. FeedRight' /\ WaitTruthful'
  BY NothingTold DEF WaitsRight, FeedRight
<1>. QED  BY <1>5, <1>7, <1>8 DEF WaitsRight

(* A step to a record of the same command, or to none.                      *)
LEMMA MoveSteps ==
  ASSUME NEW a, NEW s, NEW fault, Move(a, s, fault) \/ Go(a, s), Elsewhere(s)
  PROVE  Steps(a)
BY DEF Move, Go, Steps

(* A command ends.                                                          *)
LEMMA FinishSteps ==
  ASSUME NEW a, NEW result, NEW x, NEW fault, Finish(a, result, x, fault)
  PROVE  Steps(a)
BY DEF Finish, Move, Steps, Elsewhere

(* The commands that send stay out of a wait.                               *)
LEMMA CommandSteps ==
  ASSUME FastRight, NEW a \in Actors, Command(a)
  PROVE  Steps(a)
<1>1. at[a].in = "fast" /\ IsCommand(at[a])
  <2>1. PICK pc : In(a, "fast", pc)
    BY DEF Command, GetTokenInfo, GetAccountInfo, GetPendingMultisig, SubmitOperation, RecordOperation, BridgeCall, RecordTransfer
  <2>. QED  BY <2>1, InFast DEF In
<1>2. \A pc, update : Elsewhere([at[a] EXCEPT !.pc = pc, !.update = update])
  BY <1>1 DEF Elsewhere, IsCommand, CommandFields
<1>3. \A pc, nonce : Elsewhere([at[a] EXCEPT !.pc = pc, !.nonce = nonce])
  BY <1>1 DEF Elsewhere, IsCommand, CommandFields
<1>4. \A pc, seen : Elsewhere([at[a] EXCEPT !.pc = pc, !.seen = seen])
  BY <1>1 DEF Elsewhere, IsCommand, CommandFields
<1>5. \A pc, tx : Elsewhere([at[a] EXCEPT !.pc = pc, !.tx = tx]) /\ Elsewhere([at[a] EXCEPT !.pc = pc])
  BY <1>1 DEF Elsewhere, IsCommand, CommandFields
<1>6. CASE GetTokenInfo(a)
  BY <1>2, <1>6, MoveSteps, FinishSteps DEF GetTokenInfo, Refuse
<1>7. CASE GetAccountInfo(a)
  BY <1>3, <1>7, MoveSteps, FinishSteps DEF GetAccountInfo, ReadFails, Refuse
<1>8. CASE GetPendingMultisig(a)
  BY <1>4, <1>8, MoveSteps, FinishSteps DEF GetPendingMultisig, ReadFails, Refuse
<1>9. CASE SubmitOperation(a)
  BY <1>5, <1>9, MoveSteps, FinishSteps DEF SubmitOperation, After
<1>10. CASE RecordOperation(a) \/ RecordTransfer(a)
  BY <1>10, FinishSteps DEF RecordOperation, RecordTransfer, RecordConfirmedHistory, Refuse
<1>11. CASE BridgeCall(a)
  BY <1>5, <1>11, MoveSteps, FinishSteps DEF BridgeCall, Goto, Refuse
<1>. QED  BY <1>6, <1>7, <1>8, <1>9, <1>10, <1>11 DEF Command

(* So do the votes.                                                         *)
LEMMA VoteSteps ==
  ASSUME FastRight, NEW a \in Actors, Vote(a)
  PROVE  Steps(a)
<1>1. at[a].in = "fast" /\ IsCommand(at[a])
  <2>1. PICK pc : In(a, "fast", pc)
    BY DEF Vote, MultisigPending, GetVotePending, ReadPending, ShowPending, GetVoteAccount, SubmitVote, RecordVote
  <2>. QED  BY <2>1, InFast DEF In
<1>2. \A pc, tx : Elsewhere([at[a] EXCEPT !.pc = pc, !.tx = tx])
  BY <1>1 DEF Elsewhere, IsCommand, CommandFields
<1>3. \A pc, seen : Elsewhere([at[a] EXCEPT !.pc = pc, !.seen = seen]) /\ Elsewhere([at[a] EXCEPT !.pc = pc, !.approved = seen])
  BY <1>1 DEF Elsewhere, IsCommand, CommandFields
<1>4. CASE MultisigPending(a) \/ GetVotePending(a) \/ ShowPending(a)
  BY <1>3, <1>4, MoveSteps, FinishSteps DEF MultisigPending, GetVotePending, ReadPending, ShowPending, ReadFails, Refuse
<1>5. CASE GetVoteAccount(a)
  BY <1>2, <1>5, MoveSteps, FinishSteps DEF GetVoteAccount, ReadFails, Refuse
<1>6. CASE SubmitVote(a)
  BY <1>2, <1>6, MoveSteps, FinishSteps DEF SubmitVote, After
<1>7. CASE RecordVote(a)
  BY <1>7, FinishSteps DEF RecordVote, RecordConfirmedHistory
<1>. QED  BY <1>4, <1>5, <1>6, <1>7 DEF Vote

(* So do the views of the history.                                          *)
LEMMA ViewSteps ==
  ASSUME FastRight, NEW a \in Actors, View(a)
  PROVE  Steps(a)
<1>1. at[a].in = "fast" /\ IsCommand(at[a])
  <2>1. PICK pc : In(a, "fast", pc)
    BY DEF View, QueryHistory, QueryActivity, RefreshStatus
  <2>. QED  BY <2>1, InFast DEF In
<1>2. \A pc, asked : Elsewhere([at[a] EXCEPT !.pc = pc, !.approved = asked]) /\ Elsewhere([at[a] EXCEPT !.approved = asked])
                     /\ Elsewhere([at[a] EXCEPT !.pc = pc, !.update = asked])
  BY <1>1 DEF Elsewhere, IsCommand, CommandFields
<1>. QED  BY <1>2, MoveSteps, FinishSteps DEF View, QueryHistory, QueryActivity, RefreshStatus, Refuse

(* So do the calls of the page.                                             *)
LEMMA CallSteps ==
  ASSUME FastRight, NEW a \in Actors, Call(a)
  PROVE  Steps(a)
<1>1. at[a].in = "fast" /\ IsCommand(at[a])
  <2>1. PICK pc : In(a, "fast", pc)
    BY DEF Call, FetchFirst, FetchSecond, Submit
  <2>. QED  BY <2>1, InFast DEF In
<1>2. DOMAIN at[a] = CommandFields /\ "in" \in CommandFields
  BY <1>1 DEF IsCommand, CommandFields
<1>3. PICK c : /\ c \in {FetchPending(at[a]), FetchAccount(at[a])}
                /\ (FetchSecond(a) => c = IF at[a].pc = "fetchPending" THEN FetchPending(at[a]) ELSE FetchAccount(at[a]))
  OBVIOUS
<1>4. \A d \in {FetchPending(at[a]), FetchAccount(at[a])} : DOMAIN d = CommandFields /\ d.in = "fast"
  BY <1>1, <1>2 DEF FetchPending, FetchAccount
<1>5. CASE FetchFirst(a)
  <2>1. Elsewhere([FetchAccount(at[a]) EXCEPT !.pc = "fetchPending"]) /\ Elsewhere([FetchPending(at[a]) EXCEPT !.pc = "fetchAccount"])
    BY <1>2, <1>4 DEF Elsewhere
  <2>. QED  BY <1>5, <2>1, MoveSteps, FinishSteps DEF FetchFirst
<1>6. CASE Submit(a)
  <2>1. Elsewhere([at[a] EXCEPT !.pc = "fetch", !.nonce = -1, !.seen = {}]) /\ Elsewhere(Idle)
    BY <1>1, <1>2 DEF Elsewhere
  <2>2. PICK s, fault : Move(a, s, fault) /\ s \in {Idle, [at[a] EXCEPT !.pc = "fetch", !.nonce = -1, !.seen = {}]}
    BY <1>6 DEF Submit
  <2>. QED  BY <2>1, <2>2, MoveSteps
<1>7. CASE FetchSecond(a)
  <2>1. PICK d : d = [c EXCEPT !.pc = "submit"]
    OBVIOUS
  <2>2. DOMAIN d = CommandFields /\ d.in = "fast"
    BY <1>2, <1>3, <1>4, <2>1
  <2>3. \A pending, tx : Elsewhere(d) /\ Elsewhere(Prepare(d, pending)) /\ Elsewhere([d EXCEPT !.tx = tx])
    BY <1>2, <2>2 DEF Elsewhere, Prepare
  <2>4. PICK pending : pending = AtNonce(d.seen, d.nonce)
    OBVIOUS
  <2>5. d = [IF at[a].pc = "fetchPending" THEN FetchPending(at[a]) ELSE FetchAccount(at[a]) EXCEPT !.pc = "submit"]
    BY <1>3, <1>7, <2>1
  <2>6. PICK next :
         /\ next = CASE d.command = "prepare" -> IF PrepareOK(d, pending) THEN {Prepare(d, pending)} ELSE {}
                     [] d.command = "submitPrepared" -> IF SubmitPreparedOK(d, pending) THEN {d} ELSE {}
                     [] d.command = "sdkVote" -> {[d EXCEPT !.tx = tx] : tx \in VoteTarget(d, pending)}
         /\ \/ \E n \in next : Move(a, n, FALSE)
            \/ Refuse(a, FALSE)
            \/ ReadFails(a)
    BY <1>7, <2>4, <2>5 DEF FetchSecond
  <2>7. at[a].command \in {"prepare", "submitPrepared", "sdkVote"} /\ d.command = at[a].command
    <3>1. a \in Fast /\ at[a].pc \in {"fetchPending", "fetchAccount"} /\ StagesRight(at[a])
      BY <1>7, InFast DEF FetchSecond
    <3>. QED  BY <1>1, <1>2, <1>3, <2>1, <3>1 DEF StagesRight, FetchPending, FetchAccount, CommandFields
  <2>8. \A n \in next : Elsewhere(n)
    BY <2>3, <2>6, <2>7
  <2>9. (\E fault : Refuse(a, fault)) \/ \E s, fault : Move(a, s, fault) /\ Elsewhere(s)
    BY <2>6, <2>8 DEF ReadFails
  <2>. QED  BY <2>9, MoveSteps, FinishSteps DEF Refuse
<1>. QED  BY <1>5, <1>6, <1>7 DEF Call

(* A wait is not disturbed by anything that happens on this machine.        *)
LEMMA WaitsNext ==
  ASSUME FastRight, WaitsRight, [Next]_vars
  PROVE  WaitsRight'
<1>1. Shapes
  BY DEF FastRight
<1>2. ASSUME UNCHANGED <<activity, feed, waited>> PROVE WaitsRight'
  <2>1. \A c : WaitRight(c) => WaitRight(c)'
    BY <1>2 DEF WaitRight, FloorRight, PollRight, PagesRight, BoundRight, Wanted
  <2>2. \A a \in Actors : at[a].in = "wait" => \A c : c = at[a] => WaitRight(c)'
    BY <2>1 DEF WaitsRight
  <2>3. at' = at /\ ops' = ops
    BY <1>2 DEF activity
  <2>4. \A a \in Actors : at'[a].in = "wait" => WaitRight(at[a])'
    BY <2>2, <2>3
  <2>5. FeedRight' /\ WaitTruthful'
    BY <1>2, NothingTold DEF WaitsRight, FeedRight
  <2>. QED  BY <1>2, <2>3, <2>4, <2>5 DEF WaitsRight
<1>3. ASSUME NEW a \in Actors, Steps(a), UNCHANGED <<feed, waited>> PROVE WaitsRight'
  BY <1>1, <1>3, OthersMove DEF Steps
<1>4. CASE UNCHANGED vars
  BY <1>2, <1>4 DEF vars
<1>5. CASE /\ \/ \E m \in Members : SetUp(m)
              \/ Confirm
              \/ Arrive
           /\ UNCHANGED <<feed, waited>>
  BY <1>2, <1>5 DEF SetUp, Confirm, Arrive
<1>6. ASSUME NEW a \in Actors, Start(a), UNCHANGED <<feed, waited>> PROVE WaitsRight'
  <2>1. PICK s : at' = [at EXCEPT ![a] = s] /\ ops' = ops + 1 /\ s.in = "fast"
    BY <1>1, <1>6, StartSteps DEF Starts, IsCommand
  <2>. QED  BY <1>1, <1>6, <2>1, OthersMove DEF Elsewhere
<1>7. ASSUME NEW a \in Actors, Command(a) \/ Vote(a) \/ Call(a) \/ View(a), UNCHANGED <<feed, waited>> PROVE WaitsRight'
  BY <1>3, <1>7, CommandSteps, VoteSteps, CallSteps, ViewSteps
<1>8. ASSUME NEW a \in Actors, Dies(a), UNCHANGED <<feed, waited>> PROVE WaitsRight'
  <2>1. Steps(a)
    BY <1>8 DEF Dies, Fault, Steps, Elsewhere
  <2>. QED  BY <1>3, <1>8, <2>1
<1>9. ASSUME NEW a \in Actors, Wait(a) PROVE WaitsRight'
  BY <1>1, <1>9, WaitAssumption, StartWaitRight, PollRightly, ReadPageRight, PollFailsRight, TickRight DEF Wait
<1>. QED  BY <1>4, <1>5, <1>6, <1>7, <1>8, <1>9 DEF Next

(* A wait tells the truth: the payment it tells of is the earliest that the  *)
(* explorer showed, and one that ends for lack of time had not been shown    *)
(* the payment, or only so late that the overlap does not allow for it       *)
(* (services/incoming-payments.ts waitForIncoming).                          *)
THEOREM WaitTruthfulAlways == Spec => []WaitTruthful
<1>1. Init => WaitsRight
  <2>. SUFFICES ASSUME Init PROVE WaitsRight
    OBVIOUS
  <2>1. /\ at = [a \in Actors |-> Idle] /\ waited = NotWaited
        /\ feed = [now |-> StartedAt, rows |-> {}] /\ StartedAt \in Nat
    BY WaitAssumption DEF Init, ActivityInit, WaitInit, WaitAssumption
  <2>2. \A a \in Actors : at[a].in # "wait"
    BY <2>1 DEF Idle
  <2>3. FeedRight
    BY <2>1 DEF FeedRight
  <2>. QED  BY <2>1, <2>2, <2>3 DEF WaitsRight, WaitTruthful, NotWaited
<1>2. FastRight /\ WaitsRight /\ [Next]_vars => WaitsRight'
  BY WaitsNext
<1>3. WaitsRight => WaitTruthful
  BY DEF WaitsRight
<1>. QED  BY <1>1, <1>2, <1>3, FastAlwaysRight, PTL DEF Spec
=============================================================================
