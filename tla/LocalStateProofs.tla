-------------------------- MODULE LocalStateProofs --------------------------
(***************************************************************************)
(* Safety of one user's machine, for any number of processes, commands,    *)
(* names, networks, failures and deaths.                                   *)
(***************************************************************************)
EXTENDS LocalState, TLAPS, FiniteSetTheorems, WellFoundedInduction

-----------------------------------------------------------------------------
(* What each part's activities look like.                                   *)
AccountSteps ==
  {s \in [in : {"accounts"}, name : Names \cup {0}, first : BOOLEAN,
          pc : {"readKey", "check", "count", "insert", "transact", "clear", "set", "delete", "total"}] :
     s.pc # "readKey" => s.name \in Names}
NetworkSteps ==
  {s \in [in : {"networks"}, pc : {"add", "default", "used", "remove"},
          name : Networks \cup {Bundled}] :
     s.pc # "default" => s.name \in Networks}
AgentSteps == [in : {"agent"}, pc : {"keys", "hpkeOpen"}, req : 0..MaxOps, code : 0..MaxOps]
FileSteps ==
  [in : {"pending"}, req : 0..MaxOps, fails : 0..MaxFailures - 1, fd : {"none", "tmp", "file"},
   did : {"none", "try", "print"},
   pc : {"generate", "replace", "message", "open", "fill", "rename", "print", "unlink"}]
PopupSteps == [in : {"popup"}, pc : {"waiting", "settled"}, kind : {"sign", "connect"}, ok : BOOLEAN]
(* The words of the fastid-sdk: steps, kinds and properties, results.      *)
Words ==
  {"already", "applied", "availability", "challenge", "claimed", "commit", "committed",
   "failed", "fee", "found", "github", "held", "identity", "intent", "issue", "join",
   "legacy", "links", "name", "nonce", "none", "pending", "profile", "proof", "read",
   "refused", "register", "registered", "report", "retry", "revoke", "send", "session",
   "startX", "stored", "submit", "terminal", "unknown", "unpaid", "unverified",
   "verified", "verify", "verifyPost", "website", "work", "x"}
Txs == [id : Int, prop : Words, of : Int]
FastIdSteps ==
  {s \in [in : {"fastid"}, pc : Words, kind : Words, id : 1..MaxOps, by : 0..MaxOps, tx : Txs, nonce : Int] :
     s.kind \in Proven \/ s.pc \in {"join", "links"} => s.by # 0}
Steps ==
  {Idle} \cup AccountSteps \cup NetworkSteps \cup AgentSteps \cup FileSteps \cup PopupSteps
    \cup FastIdSteps

(* An activity that may yet make a key or issue a request, of which it      *)
(* makes one at most: what bounds both by the activities ever started.      *)
Owes(s) ==
  \/ s.in = "accounts"
  \/ s.in = "agent" /\ s.pc = "keys"
  \/ s.in = "pending" /\ s.pc \in {"generate", "replace"}
Owing == {a \in Actors : Owes(at[a])}
Counted == IsFiniteSet(Owing) /\ keys + issued + Cardinality(Owing) <= ops

ActivityTyped ==
  /\ at \in [Actors -> Steps]
  /\ ops \in 0..MaxOps
  /\ faults \in 0..MaxFaults
SoleTyped == soleTries \in [1..MaxOps -> Nat] /\ solePrints \in [1..MaxOps -> Nat]
CountsTyped ==
  /\ SoleTyped
  /\ begun \in [1..MaxOps -> Nat] /\ released \in [1..MaxOps -> Nat]
  /\ tries \in [1..MaxOps -> Nat] /\ printed \in [1..MaxOps -> Nat]
Outcomes == [result : Words, tx : Txs]
FastIdTyped ==
  /\ account \in [nonce : Nat, txs : SUBSET Txs]
  /\ service \in [rows : SUBSET Txs, revoked : SUBSET Int, verified : SUBSET Int, x : Words,
                  stored : SUBSET Int]
  /\ client \in [calls : Applications, slot : [Proven -> 0..MaxOps], verified : Int,
                 session : Words, verification : Words, revocations : SUBSET Txs,
                 forgot : 0..MaxOps]
  /\ promises \in [1..MaxOps -> Outcomes]
  /\ said \in [1..MaxOps -> Outcomes]

(* The invariant that types the whole machine.                              *)
Typed == ActivityTyped /\ Counted /\ TypeOK /\ CountsTyped /\ FastIdTyped

-----------------------------------------------------------------------------

\* The part of an activity tells which of the forms it has.
LEMMA StepForms ==
  ASSUME NEW s \in Steps
  PROVE  /\ s.in = "accounts" => s \in AccountSteps
         /\ s.in = "networks" => s \in NetworkSteps
         /\ s.in = "agent" => s \in AgentSteps
         /\ s.in = "pending" => s \in FileSteps
         /\ s.in = "popup" => s \in PopupSteps
         /\ s.in = "fastid" => s \in FastIdSteps
         /\ s.in = "none" <=> s = Idle
         /\ s.in \in {"none", "accounts", "networks", "agent", "pending", "popup", "fastid"}
BY DEF Steps, AccountSteps, NetworkSteps, AgentSteps, FileSteps, PopupSteps, FastIdSteps, Idle

\* The count of what is owed, when nothing new is owed.
LEMMA NothingMade ==
  ASSUME Counted, ops \in Nat, keys \in Nat, issued \in Nat,
         keys' = keys, issued' = issued, ops' \in Nat, ops' >= ops, Owing' \subseteq Owing
  PROVE  Counted'
<1>1. IsFiniteSet(Owing') /\ Cardinality(Owing') <= Cardinality(Owing)
  BY FS_Subset DEF Counted
<1>2. Cardinality(Owing) \in Nat /\ Cardinality(Owing') \in Nat
  BY <1>1, FS_CardinalityType DEF Counted
<1>. QED  BY <1>1, <1>2 DEF Counted

\* When an activity that may owe starts.
LEMMA OneMoreOwes ==
  ASSUME Counted, ops \in Nat, keys \in Nat, issued \in Nat, NEW a,
         keys' = keys, issued' = issued, ops' = ops + 1, Owing' \subseteq Owing \cup {a}
  PROVE  Counted'
<1>0. Cardinality(Owing) \in Nat /\ IsFiniteSet(Owing)
  BY FS_CardinalityType DEF Counted
<1>1. IsFiniteSet(Owing \cup {a}) /\ Cardinality(Owing \cup {a}) <= Cardinality(Owing) + 1
  <2>1. /\ IsFiniteSet(Owing \cup {a})
        /\ Cardinality(Owing \cup {a}) = IF a \in Owing THEN Cardinality(Owing) ELSE Cardinality(Owing) + 1
    BY <1>0, FS_AddElement
  <2>. QED  BY <1>0, <2>1
<1>2. IsFiniteSet(Owing') /\ Cardinality(Owing') <= Cardinality(Owing \cup {a})
  BY <1>1, FS_Subset
<1>3. Cardinality(Owing) \in Nat /\ Cardinality(Owing \cup {a}) \in Nat /\ Cardinality(Owing') \in Nat
  BY <1>1, <1>2, FS_CardinalityType DEF Counted
<1>. QED  BY <1>1, <1>2, <1>3 DEF Counted

\* When what is owed is made: there was room for it.
LEMMA OnePays ==
  ASSUME Counted, ops \in 0..MaxOps, keys \in Nat, issued \in Nat, NEW a \in Owing,
         ops' = ops, Owing' \subseteq Owing \ {a},
         \/ keys' = keys + 1 /\ issued' = issued
         \/ keys' = keys /\ issued' = issued + 1
  PROVE  Counted' /\ keys' + issued' <= MaxOps
<1>1. IsFiniteSet(Owing \ {a}) /\ Cardinality(Owing \ {a}) = Cardinality(Owing) - 1
  BY FS_RemoveElement DEF Counted
<1>2. IsFiniteSet(Owing') /\ Cardinality(Owing') <= Cardinality(Owing \ {a})
  BY <1>1, FS_Subset
<1>3. Cardinality(Owing) \in Nat /\ Cardinality(Owing') \in Nat
  BY <1>2, FS_CardinalityType DEF Counted
<1>4. keys' + issued' + Cardinality(Owing') <= ops
  BY <1>1, <1>2, <1>3, ActivityBounds DEF Counted
<1>5. Counted'
  BY <1>2, <1>4 DEF Counted
<1>. QED  BY <1>3, <1>4, <1>5, ActivityBounds

\* An activity takes another step, and owes no more than it did.
LEMMA GoesOn ==
  ASSUME Typed, NEW a \in Actors, NEW s \in Steps, at' = [at EXCEPT ![a] = s],
         Owes(s) => Owes(at[a]), ops' = ops, faults' \in 0..MaxFaults, UNCHANGED <<keys, issued>>
  PROVE  ActivityTyped' /\ Counted'
<1>1. ActivityTyped'
  BY DEF Typed, ActivityTyped
<1>2. Owing' \subseteq Owing
  BY DEF Typed, ActivityTyped, Owing
<1>. QED
  BY <1>1, <1>2, NothingMade, ActivityBounds DEF Typed, ActivityTyped, TypeOK, StoresTypeOK, AgentTypeOK

\* An activity starts.
LEMMA Begins ==
  ASSUME Typed, NEW a \in Actors, NEW s \in Steps, NEW part, Begin(a, part, s),
         UNCHANGED <<keys, issued>>
  PROVE  ActivityTyped' /\ Counted'
<1>1. ActivityTyped'
  BY ActivityBounds DEF Typed, ActivityTyped, Begin
<1>2. Owing' \subseteq Owing \cup {a}
  BY DEF Typed, ActivityTyped, Owing, Begin
<1>. QED
  BY <1>1, <1>2, OneMoreOwes, ActivityBounds
     DEF Typed, ActivityTyped, TypeOK, StoresTypeOK, AgentTypeOK, Begin

\* An activity makes the key or the request that it owed.
LEMMA Makes ==
  ASSUME Typed, NEW a \in Actors, NEW s \in Steps, at' = [at EXCEPT ![a] = s],
         Owes(at[a]), ~Owes(s), ops' = ops, faults' = faults,
         \/ keys' = keys + 1 /\ issued' = issued
         \/ keys' = keys /\ issued' = issued + 1
  PROVE  ActivityTyped' /\ Counted' /\ keys' + issued' <= MaxOps
<1>1. ActivityTyped'
  BY DEF Typed, ActivityTyped
<1>2. a \in Owing /\ Owing' \subseteq Owing \ {a}
  BY DEF Typed, ActivityTyped, Owing
<1>. QED
  BY <1>1, <1>2, OnePays, ActivityBounds DEF Typed, ActivityTyped, TypeOK, StoresTypeOK, AgentTypeOK

-----------------------------------------------------------------------------
\* The first free name that the commands choose is a name.
LEMMA AutoNameFree == Free # {} => NextAutoName \in Free
<1>. SUFFICES ASSUME Free # {} PROVE \E n \in Free : \A k \in Free : n <= k
  BY DEF NextAutoName
<1>1. Free \subseteq Nat
  BY NamesAssumption DEF Free
<1>2. PICK n \in Free : \A k \in Free : ~(<<k, n>> \in OpToRel(<, Nat))
  BY <1>1, NatLessThanWellFounded, WFMin
<1>3. \A k \in Nat : k < n => <<k, n>> \in OpToRel(<, Nat)
  BY <1>1 DEF OpToRel
<1>4. \A k \in Free : ~(k < n)
  BY <1>1, <1>2, <1>3, Zenon
<1>. QED  BY <1>1, <1>4

\* A step of the account and network commands leaves everything else typed.
LEMMA StoresFrame ==
  ASSUME Typed, ActivityTyped', Counted', StoresTypeOK', UNCHANGED <<agent, files, page, fastid>>
  PROVE  Typed'
BY DEF Typed, TypeOK, AgentTypeOK, FilesTypeOK, PopupTypeOK, CountsTyped, SoleTyped, sole, FastIdTyped,
       agent, files, page, fastid

\* The rows of the accounts table, and what writing to one makes of it.
AccountRows == {NoRow} \cup [kind : {"single", "multisig"}, key : 1..MaxOps, isDefault : BOOLEAN]
LEMMA RowForms ==
  /\ NoRow \in AccountRows
  /\ \A k \in 1..MaxOps, b \in BOOLEAN :
       \A r \in {Single(k, b), Multisig(k, b)} :
         r \in AccountRows /\ r # NoRow /\ r.key = k /\ r.isDefault = b
  /\ \A r \in AccountRows : r # NoRow =>
       /\ r.isDefault \in BOOLEAN
       /\ \A b \in BOOLEAN :
            LET w == [r EXCEPT !.isDefault = b] IN
            w \in AccountRows /\ w # NoRow /\ w.key = r.key /\ w.isDefault = b
BY DEF AccountRows, NoRow, Single, Multisig, Row

\* The tables are typed row by row.
LEMMA StoresByRow ==
  /\ StoresTypeOK <=>
       /\ accounts = [n \in Names |-> accounts[n]] /\ \A n \in Names : accounts[n] \in AccountRows
       /\ custom \subseteq Networks /\ defaultNetwork \in Networks \cup {Bundled}
       /\ keys \in 0..MaxOps /\ reported \in [Names -> 0..MaxOps]
  /\ StoresTypeOK' <=>
       /\ accounts' = [n \in Names |-> accounts'[n]] /\ \A n \in Names : accounts'[n] \in AccountRows
       /\ custom' \subseteq Networks /\ defaultNetwork' \in Networks \cup {Bundled}
       /\ keys' \in 0..MaxOps /\ reported' \in [Names -> 0..MaxOps]
BY DEF StoresTypeOK, AccountRows

\* Commands that start.
LEMMA StoresBegin ==
  ASSUME Typed, NEW a \in Actors, UNCHANGED <<agent, files, page, fastid>>,
         \/ CreateAccount(a) \/ ImportAccount(a) \/ CreateMultiSig(a) \/ SetDefault(a)
         \/ DeleteConfirmed(a) \/ AddNetwork(a) \/ SetDefaultNetwork(a) \/ RemoveNetwork(a)
  PROVE  Typed' /\ \E s \in AccountSteps \cup NetworkSteps : Begin(a, s.in, s) /\ UNCHANGED stores
<1>1. PICK s \in AccountSteps \cup NetworkSteps : Begin(a, s.in, s) /\ UNCHANGED stores
  <2>1. CASE CreateAccount(a) \/ ImportAccount(a) \/ CreateMultiSig(a)
    BY <2>1, AutoNameFree DEF CreateAccount, ImportAccount, CreateMultiSig, Cmd, AccountSteps, Free
  <2>2. CASE SetDefault(a) \/ DeleteConfirmed(a)
    BY <2>2 DEF SetDefault, DeleteConfirmed, CheckDelete, Cmd, AccountSteps, Rows
  <2>3. CASE AddNetwork(a) \/ SetDefaultNetwork(a) \/ RemoveNetwork(a)
    BY <2>3 DEF AddNetwork, SetDefaultNetwork, RemoveNetwork, Net, NetworkSteps, Typed, TypeOK, StoresTypeOK
  <2>. QED  BY <2>1, <2>2, <2>3
<1>2. s \in Steps
  BY DEF Steps
<1>3. ActivityTyped' /\ Counted'
  BY <1>1, <1>2, Begins DEF stores, agent
<1>4. StoresTypeOK'
  BY <1>1 DEF Typed, TypeOK, StoresTypeOK, stores
<1>. QED  BY <1>1, <1>3, <1>4, StoresFrame

\* Steps of a command that read the tables, and deaths.
LEMMA StoresRead ==
  ASSUME Typed, NEW a \in Actors, UNCHANGED <<agent, files, page, fastid>>,
         \/ KeyRead(a) \/ CheckExisting(a) \/ CountAccounts(a)
         \/ CheckTotal(a) \/ CheckNetworkUsed(a) \/ StoresDie(a)
  PROVE  Typed'
<1>1. /\ at[a] \in Steps
      /\ at[a].in = "accounts" => at[a] \in AccountSteps
      /\ at[a].in = "networks" => at[a] \in NetworkSteps
  BY StepForms DEF Typed, ActivityTyped
<1>2. PICK s \in AccountSteps \cup NetworkSteps \cup {Idle} :
        /\ at' = [at EXCEPT ![a] = s]
        /\ s # Idle => s.in = at[a].in
        /\ ops' = ops /\ UNCHANGED stores /\ faults' \in 0..MaxFaults
  <2>1. CASE KeyRead(a)
    BY <1>1, <2>1, AutoNameFree
       DEF KeyRead, Exit, Go, In, Cmd, AccountSteps, Free, Typed, ActivityTyped
  <2>2. CASE CheckExisting(a) \/ CheckTotal(a) \/ CountAccounts(a)
    BY <1>1, <2>2 DEF CheckExisting, CheckTotal, CountAccounts, Exit, Goto, Go, In, AccountSteps, Typed, ActivityTyped
  <2>3. CASE CheckNetworkUsed(a)
    BY <1>1, <2>3 DEF CheckNetworkUsed, Exit, Goto, Go, In, NetworkSteps, Typed, ActivityTyped
  <2>4. CASE StoresDie(a)
    <3>1. faults' \in 0..MaxFaults
      BY <2>4, ActivityBounds DEF StoresDie, Fault, Typed, ActivityTyped
    <3>. QED  BY <2>4, <3>1 DEF StoresDie, Fault
  <2>. QED  BY <2>1, <2>2, <2>3, <2>4
<1>3. s \in Steps /\ (Owes(s) => Owes(at[a]))
  BY <1>2 DEF Steps, Owes, Idle, AccountSteps, NetworkSteps
<1>4. ActivityTyped' /\ Counted'
  BY <1>2, <1>3, GoesOn DEF stores, agent
<1>5. StoresTypeOK'
  BY <1>2 DEF Typed, TypeOK, StoresTypeOK, stores
<1>. QED  BY <1>4, <1>5, StoresFrame

\* A command adds an account, with a fresh key, or finds its name taken.
LEMMA StoresAdd ==
  ASSUME Typed, NEW a \in Actors, UNCHANGED <<agent, files, page, fastid>>,
         Insert(a) \/ MultiSigTransaction(a)
  PROVE  Typed'
<1>1. at[a] \in AccountSteps /\ at[a].name \in Names
  BY StepForms DEF Typed, ActivityTyped, Insert, MultiSigTransaction, In, AccountSteps
<1>2. Idle \in Steps /\ ~Owes(Idle) /\ Owes(at[a])
  BY <1>1 DEF Steps, Owes, Idle, AccountSteps
<1>3. at' = [at EXCEPT ![a] = Idle] /\ ops' = ops /\ faults' = faults
  BY DEF Insert, MultiSigTransaction, Exit, Go
<1>4. CASE UNCHANGED stores
  <2>1. ActivityTyped' /\ Counted'
    BY <1>2, <1>3, <1>4, GoesOn DEF stores, agent, Typed, ActivityTyped
  <2>. QED  BY <1>4, <2>1, StoresFrame DEF Typed, TypeOK, StoresTypeOK, stores
<1>5. CASE keys' = keys + 1 /\ ~UNCHANGED stores
  <2>1. ActivityTyped' /\ Counted' /\ keys' + issued' <= MaxOps
    BY <1>2, <1>3, <1>5, Makes DEF agent
  <2>2. keys' \in 1..MaxOps
    BY <1>5, <2>1, ActivityBounds DEF Typed, TypeOK, StoresTypeOK, AgentTypeOK, agent
  <2>3. custom' = custom /\ defaultNetwork' = defaultNetwork
    BY <1>5 DEF Insert, MultiSigTransaction, stores
  <2>4. reported' = [reported EXCEPT ![at[a].name] = keys']
    BY <1>5 DEF Insert, MultiSigTransaction, stores
  <2>5. Typed => StoresTypeOK
    BY DEF Typed, TypeOK
  <2>6. accounts' = [n \in Names |-> accounts'[n]] /\ \A n \in Names : accounts'[n] \in AccountRows
    <3>1. CASE Insert(a)
      <4>1. accounts' = [accounts EXCEPT ![at[a].name] = Single(keys', at[a].first)]
        BY <1>5, <3>1 DEF Insert, stores
      <4>2. Single(keys', at[a].first) \in AccountRows
        BY <1>1, <2>2, RowForms DEF AccountSteps
      <4>. QED  BY <2>5, <4>1, <4>2, StoresByRow
    <3>2. CASE MultiSigTransaction(a)
      <4>1. PICK b \in BOOLEAN : accounts' =
              [m \in Names |->
                 IF m = at[a].name THEN Multisig(keys', Rows = {} \/ b)
                 ELSE IF m \in Rows /\ b THEN [accounts[m] EXCEPT !.isDefault = FALSE]
                 ELSE accounts[m]]
        BY <1>5, <3>2 DEF MultiSigTransaction, stores
      <4>2. Multisig(keys', Rows = {} \/ b) \in AccountRows
        BY <2>2, RowForms
      <4>3. \A m \in Rows : [accounts[m] EXCEPT !.isDefault = FALSE] \in AccountRows
        BY <2>5, StoresByRow, RowForms DEF Rows
      <4>. QED  BY <2>5, <4>1, <4>2, <4>3, StoresByRow
    <3>. QED  BY <3>1, <3>2
  <2>7. StoresTypeOK'
    <3>1. keys' \in 0..MaxOps
      BY <2>2, ActivityBounds
    <3>2. reported' \in [Names -> 0..MaxOps]
      BY <2>4, <2>5, <3>1 DEF StoresTypeOK
    <3>. QED  BY <2>3, <2>5, <2>6, <3>1, <3>2, StoresByRow
  <2>. QED  BY <2>1, <2>7, StoresFrame
<1>. QED  BY <1>4, <1>5 DEF Insert, MultiSigTransaction

\* A command writes to a row that exists, or to the networks.
LEMMA StoresWrite ==
  ASSUME Typed, NEW a \in Actors, UNCHANGED <<agent, files, page, fastid>>,
         ClearDefault(a) \/ WriteDefault(a) \/ Delete(a) \/ WriteNetwork(a)
  PROVE  Typed'
<1>1. /\ at[a] \in Steps
      /\ at[a].in = "accounts" => at[a] \in AccountSteps
      /\ at[a].in = "networks" => at[a] \in NetworkSteps
  BY StepForms DEF Typed, ActivityTyped
<1>2. PICK s \in AccountSteps \cup {Idle} :
        /\ at' = [at EXCEPT ![a] = s]
        /\ s # Idle => at[a].in = "accounts"
        /\ ops' = ops /\ faults' = faults /\ keys' = keys
  <2>1. CASE ClearDefault(a)
    BY <1>1, <2>1 DEF ClearDefault, Goto, Go, In, AccountSteps
  <2>2. CASE WriteDefault(a) \/ Delete(a) \/ WriteNetwork(a)
    BY <2>2 DEF WriteDefault, Delete, WriteNetwork, Exit, Go
  <2>. QED  BY <2>1, <2>2
<1>3. s \in Steps /\ (Owes(s) => Owes(at[a]))
  BY <1>2 DEF Steps, Owes, Idle, AccountSteps
<1>4. ActivityTyped' /\ Counted'
  BY <1>2, <1>3, GoesOn DEF stores, agent, Typed, ActivityTyped
<1>5. StoresTypeOK'
  <2>. StoresTypeOK
    BY DEF Typed, TypeOK
  <2>1. CASE ClearDefault(a) \/ WriteDefault(a)
    <3>1. \A m \in Rows, b \in BOOLEAN : [accounts[m] EXCEPT !.isDefault = b] \in AccountRows
      BY StoresByRow, RowForms DEF Rows
    <3>2. CASE ClearDefault(a)
      BY <3>1, <3>2, StoresByRow, RowForms DEF ClearDefault
    <3>3. CASE WriteDefault(a)
      <4>1. CASE at[a].name \in Rows
        <5>1. PICK r \in AccountRows : accounts' = [accounts EXCEPT ![at[a].name] = r]
          BY <3>1, <3>3, <4>1 DEF WriteDefault
        <5>. QED  BY <3>3, <5>1, StoresByRow DEF WriteDefault
      <4>2. CASE at[a].name \notin Rows
        BY <3>3, <4>2, StoresByRow DEF WriteDefault
      <4>. QED  BY <4>1, <4>2
    <3>. QED  BY <2>1, <3>2, <3>3
  <2>2. CASE Delete(a)
    <3>1. 0 \in 0..MaxOps
      BY ActivityBounds
    <3>2. reported' \in [Names -> 0..MaxOps]
      BY <2>2, <3>1, StoresByRow DEF Delete
    <3>. QED  BY <2>2, <3>2, StoresByRow, RowForms DEF Delete
  <2>3. CASE WriteNetwork(a)
    BY <1>1, <2>3 DEF WriteNetwork, Typed, TypeOK, StoresTypeOK, NetworkSteps
  <2>. QED  BY <2>1, <2>2, <2>3
<1>. QED  BY <1>4, <1>5, StoresFrame

-----------------------------------------------------------------------------
\* A count of what was done with each request, after one more.
LEMMA CountsUp ==
  ASSUME NEW f \in [1..MaxOps -> Nat], NEW r \in 0..MaxOps
  PROVE  [f EXCEPT ![r] = @ + 1] \in [1..MaxOps -> Nat]
<1>1. \A x \in 1..MaxOps : f[x] + 1 \in Nat
  OBVIOUS
<1>2. \A x \in 1..MaxOps : [f EXCEPT ![r] = @ + 1][x] = IF x = r THEN f[x] + 1 ELSE f[x]
  OBVIOUS
<1>. QED  BY <1>1, <1>2

\* A step of the agent leaves everything else typed.
LEMMA AgentFrame ==
  ASSUME Typed, ActivityTyped', Counted', AgentTypeOK',
         begun' \in [1..MaxOps -> Nat], released' \in [1..MaxOps -> Nat],
         UNCHANGED <<stores, files, page, fastid>>
  PROVE  Typed'
BY DEF Typed, TypeOK, StoresTypeOK, FilesTypeOK, PopupTypeOK, CountsTyped, SoleTyped, FastIdTyped,
       stores, files, sole, page, fastid

\* What a failed decryption makes of a record fits its type again.
LEMMA FailureForms ==
  ASSUME NEW rec \in [req : 0..MaxOps, state : {"none", "pending", "consuming"}, fails : 0..MaxFailures - 1]
  PROVE  RecordFailure(rec) \in
           [req : 0..MaxOps, state : {"none", "pending", "consuming"}, fails : 0..MaxFailures - 1]
<1>1. NoPending \in [req : 0..MaxOps, state : {"none", "pending", "consuming"}, fails : 0..MaxFailures - 1]
  BY FailuresAssumption, ActivityBounds DEF NoPending
<1>2. CASE rec.state = "none" \/ TooMany(rec)
  BY <1>1, <1>2 DEF RecordFailure
<1>3. CASE ~(rec.state = "none" \/ TooMany(rec))
  <2>1. RecordFailure(rec) = [req |-> rec.req, state |-> "pending", fails |-> rec.fails + 1]
    BY <1>3 DEF RecordFailure
  <2>2. rec.fails + 1 \in 0..MaxFailures - 1
    BY <1>3, FailuresAssumption DEF TooMany
  <2>. QED  BY <2>1, <2>2
<1>. QED  BY <1>2, <1>3

\* Every step of a key handover agent.
LEMMA AgentTyped ==
  ASSUME Typed, NEW a \in Actors, UNCHANGED <<stores, files, page, fastid>>, AgentNext(a)
  PROVE  Typed'
<1>1. AgentTypeOK /\ CountsTyped /\ issued \in Nat /\ ActivityTyped
  BY ActivityBounds DEF Typed, TypeOK, AgentTypeOK
<1>2. at[a].in = "agent" => at[a] \in AgentSteps
  BY <1>1, StepForms DEF ActivityTyped
<1>3. /\ NoPending \in [req : 0..MaxOps, state : {"none", "pending", "consuming"}, fails : 0..MaxFailures - 1]
      /\ 0 \in 0..MaxOps
  BY FailuresAssumption, ActivityBounds DEF NoPending
<1>4. CASE GenerateAuthRequest(a)
  <2>1. Call("keys", 0, 0) \in Steps
    BY <1>3 DEF Call, Steps, AgentSteps
  <2>2. ActivityTyped' /\ Counted'
    BY <1>4, <2>1, Begins DEF GenerateAuthRequest, stores
  <2>3. AgentTypeOK'
    BY <1>1, <1>3, <1>4 DEF GenerateAuthRequest, AgentTypeOK
  <2>. QED  BY <1>1, <1>4, <2>2, <2>3, AgentFrame DEF GenerateAuthRequest, CountsTyped
<1>5. CASE SetPending(a)
  <2>1. Idle \in Steps /\ ~Owes(Idle) /\ Owes(at[a])
    BY <1>5 DEF Steps, Owes, Idle, SetPending, In
  <2>2. ActivityTyped' /\ Counted' /\ keys' + issued' <= MaxOps
    BY <1>5, <2>1, Makes DEF SetPending, Exit, Go, stores
  <2>3. keys' \in Nat /\ issued' \in Nat /\ issued' = issued + 1
    BY <1>1, <1>5, ActivityBounds DEF SetPending, Typed, TypeOK, StoresTypeOK, stores
  <2>4. issued' \in 0..MaxOps
    BY <2>2, <2>3, ActivityBounds
  <2>5. record' \in [req : 0..MaxOps, state : {"none", "pending", "consuming"}, fails : 0..MaxFailures - 1]
    BY <1>5, <2>4, FailuresAssumption DEF SetPending, Pending
  <2>6. AgentTypeOK'
    BY <1>1, <1>5, <2>3, <2>4, <2>5 DEF SetPending, AgentTypeOK
  <2>. QED  BY <1>1, <1>5, <2>2, <2>6, AgentFrame DEF SetPending, CountsTyped
<1>6. CASE DecryptAuthPayload(a)
  <2>1. PICK c \in Codes : Begin(a, "agent", Call("hpkeOpen", record.req, c))
    BY <1>6 DEF DecryptAuthPayload
  <2>2. c \in 0..MaxOps
    BY <1>1, <2>1, ActivityBounds DEF Codes, AgentTypeOK
  <2>3. Call("hpkeOpen", record.req, c) \in Steps
    BY <1>1, <2>2 DEF Call, Steps, AgentSteps, AgentTypeOK
  <2>4. ActivityTyped' /\ Counted'
    BY <1>6, <2>1, <2>3, Begins DEF DecryptAuthPayload, stores
  <2>5. AgentTypeOK'
    BY <1>1, <1>6 DEF DecryptAuthPayload, AgentTypeOK
  <2>6. begun' \in [1..MaxOps -> Nat] /\ released' \in [1..MaxOps -> Nat]
    <3>1. record.req \in 0..MaxOps /\ begun' = [begun EXCEPT ![record.req] = @ + 1]
      BY <1>1, <1>6 DEF DecryptAuthPayload, AgentTypeOK
    <3>. QED  BY <1>1, <1>6, <3>1, CountsUp DEF DecryptAuthPayload, CountsTyped
  <2>. QED  BY <2>4, <2>5, <2>6, AgentFrame
<1>7. CASE DropExpired(a)
  <2>1. ActivityTyped' /\ Counted'
    BY <1>7 DEF DropExpired, activity, stores, Typed, ActivityTyped, Counted, Owing
  <2>2. AgentTypeOK'
    BY <1>1, <1>3, <1>7 DEF DropExpired, AgentTypeOK
  <2>. QED  BY <1>1, <1>7, <2>1, <2>2, AgentFrame DEF DropExpired, CountsTyped
<1>8. CASE Opened(a)
  <2>1. Idle \in Steps /\ ~Owes(Idle)
    BY DEF Steps, Owes, Idle
  <2>2. ActivityTyped' /\ Counted'
    BY <1>1, <1>8, <2>1, GoesOn DEF Opened, Exit, Go, stores, ActivityTyped
  <2>3. record' \in [req : 0..MaxOps, state : {"none", "pending", "consuming"}, fails : 0..MaxFailures - 1]
    BY <1>1, <1>3, <1>8, FailureForms DEF Opened, AgentTypeOK
  <2>4. begun' \in [1..MaxOps -> Nat] /\ released' \in [1..MaxOps -> Nat]
    BY <1>1, <1>8 DEF Opened, CountsTyped
  <2>5. AgentTypeOK'
    BY <1>1, <1>8, <2>3 DEF Opened, AgentTypeOK
  <2>. QED  BY <2>2, <2>4, <2>5, AgentFrame
<1>. QED  BY <1>4, <1>5, <1>6, <1>7, <1>8 DEF AgentNext

\* A request expires.
LEMMA ExpireTyped ==
  ASSUME Typed, Expire, UNCHANGED <<stores, files, page, fastid>>
  PROVE  Typed'
<1>1. ActivityTyped' /\ Counted'
  BY DEF Expire, activity, stores, Typed, ActivityTyped, Counted, Owing
<1>2. AgentTypeOK'
  BY ActivityBounds DEF Expire, Typed, TypeOK, AgentTypeOK
<1>. QED  BY <1>1, <1>2, AgentFrame DEF Expire, Typed, CountsTyped

-----------------------------------------------------------------------------
\* A step of a page leaves everything else typed.
LEMMA PageFrame ==
  ASSUME Typed, ActivityTyped', Counted', PopupTypeOK', UNCHANGED <<stores, agent, files, fastid>>
  PROVE  Typed'
BY DEF Typed, TypeOK, StoresTypeOK, AgentTypeOK, FilesTypeOK, CountsTyped, SoleTyped, sole, FastIdTyped,
       stores, agent, files, fastid

\* A call that starts settles another at most, and only one of a page.
LEMMA StartForms ==
  ASSUME ActivityTyped, NEW a \in Actors, NEW kind \in {"sign", "connect"}, NEW opened \in BOOLEAN,
         Start(a, kind, opened)
  PROVE  /\ at' \in [Actors -> Steps]
         /\ at[a] = Idle
         /\ at'[a] = IF opened THEN PopupCall(kind) ELSE [PopupCall(kind) EXCEPT !.pc = "settled"]
         /\ \A b \in Actors \ {a} :
              at'[b] = IF b = inFlight /\ b \in Waiting THEN [at[b] EXCEPT !.pc = "settled"] ELSE at[b]
<1>1. \A b \in Waiting : at[b] \in PopupSteps
  BY StepForms DEF ActivityTyped, Waiting, In
<1>2. \A b \in Waiting : [at[b] EXCEPT !.pc = "settled"] \in Steps
  BY <1>1 DEF PopupSteps, Steps
<1>3. at[a] = Idle /\ a \notin Waiting
  BY DEF Start, Waiting, In, Idle
<1>4. \A s \in {PopupCall(kind), [PopupCall(kind) EXCEPT !.pc = "settled"]} : s \in Steps
  <2>1. PopupCall(kind) \in PopupSteps
    BY DEF PopupCall, PopupSteps
  <2>2. [PopupCall(kind) EXCEPT !.pc = "settled"] \in PopupSteps
    BY <2>1 DEF PopupSteps
  <2>. QED  BY <2>1, <2>2 DEF Steps
<1>5. PICK s : s = IF opened THEN PopupCall(kind) ELSE [PopupCall(kind) EXCEPT !.pc = "settled"]
  OBVIOUS
<1>6. at' = Superseded([at EXCEPT ![a] = s])
  BY <1>5 DEF Start
<1>. QED  BY <1>2, <1>3, <1>4, <1>5, <1>6 DEF Superseded, ActivityTyped

\* Every step of a wallet popup client, but a disconnect.
LEMMA PopupTyped ==
  ASSUME Typed, NEW a \in Actors, UNCHANGED <<stores, agent, files, fastid>>, PopupNext(a)
  PROVE  Typed'
<1>1. PopupTypeOK /\ ActivityTyped
  BY DEF Typed, TypeOK
<1>2. at[a].in = "popup" => at[a] \in PopupSteps
  BY <1>1, StepForms DEF ActivityTyped
<1>3. CASE Sign(a) \/ Connect(a)
  <2>1. PICK kind \in {"sign", "connect"}, opened \in BOOLEAN : Start(a, kind, opened)
    BY <1>3 DEF Sign, Connect
  <2>2. ActivityTyped'
    <3>1. at' \in [Actors -> Steps]
      BY <1>1, <2>1, StartForms
    <3>2. ops' \in 0..MaxOps /\ faults' = faults
      BY <1>1, <2>1, ActivityBounds DEF Start, ActivityTyped
    <3>. QED  BY <1>1, <3>1, <3>2 DEF ActivityTyped
  <2>3. \A b \in Waiting : at[b] \in PopupSteps
    BY <1>1, StepForms DEF ActivityTyped, Waiting, In
  <2>4. Owing' \subseteq Owing \cup {a}
    <3>1. ASSUME NEW b \in Actors \ {a}, Owes(at'[b])  PROVE Owes(at[b])
      <4>1. CASE b = inFlight /\ b \in Waiting
        <5>1. at[b] \in PopupSteps /\ at'[b] = [at[b] EXCEPT !.pc = "settled"]
          BY <1>1, <2>1, <2>3, <4>1, StartForms
        <5>. QED  BY <3>1, <5>1 DEF Owes, PopupSteps
      <4>2. CASE ~(b = inFlight /\ b \in Waiting)
        BY <1>1, <2>1, <3>1, <4>2, StartForms
      <4>. QED  BY <4>1, <4>2
    <3>. QED  BY <3>1 DEF Owing
  <2>5. Counted'
    BY <2>1, <2>4, OneMoreOwes, ActivityBounds
       DEF Start, Typed, TypeOK, StoresTypeOK, AgentTypeOK, ActivityTyped, stores, agent
  <2>6. PopupTypeOK'
    BY <1>1, <2>1 DEF PopupTypeOK, Start
  <2>. QED  BY <2>2, <2>5, <2>6, PageFrame
<1>4. CASE Message(a) \/ ClosedPoll(a) \/ Timeout(a)
  <2>1. PICK ok \in BOOLEAN : Finish(a, ok) /\ at[a].in = "popup" /\ popups' \subseteq popups
    BY <1>4 DEF Message, ClosedPoll, Timeout, Waiting, In
  <2>2. PICK s \in PopupSteps : at' = [at EXCEPT ![a] = s]
    BY <1>1, <1>2, <2>1 DEF Finish, PopupSteps, ActivityTyped
  <2>3. s \in Steps /\ ~Owes(s)
    BY DEF Steps, PopupSteps, Owes
  <2>4. ActivityTyped' /\ Counted'
    BY <1>1, <2>1, <2>2, <2>3, GoesOn DEF Finish, stores, agent, ActivityTyped
  <2>5. PopupTypeOK'
    BY <1>1, <2>1 DEF PopupTypeOK, Finish
  <2>. QED  BY <2>4, <2>5, PageFrame
<1>5. CASE Continue(a)
  <2>1. Idle \in Steps /\ ~Owes(Idle)
    BY DEF Steps, Owes, Idle
  <2>2. ActivityTyped' /\ Counted'
    BY <1>1, <1>5, <2>1, GoesOn DEF Continue, Exit, Go, stores, agent, ActivityTyped
  <2>3. PopupTypeOK'
    BY <1>1, <1>2, <1>5 DEF PopupTypeOK, Continue, In, PopupSteps
  <2>. QED  BY <2>2, <2>3, PageFrame
<1>6. CASE UserCloses(a)
  <2>1. ActivityTyped' /\ Counted'
    BY <1>6 DEF UserCloses, activity, stores, agent, Typed, ActivityTyped, Counted, Owing
  <2>2. PopupTypeOK'
    BY <1>1, <1>6 DEF PopupTypeOK, UserCloses
  <2>. QED  BY <2>1, <2>2, PageFrame
<1>. QED  BY <1>3, <1>4, <1>5, <1>6 DEF PopupNext

\* The page disconnects.
LEMMA DisconnectTyped ==
  ASSUME Typed, Disconnect, UNCHANGED <<stores, agent, files, fastid>>
  PROVE  Typed'
<1>1. ActivityTyped' /\ Counted'
  BY DEF Disconnect, activity, stores, agent, Typed, ActivityTyped, Counted, Owing
<1>2. PopupTypeOK'
  BY DEF Disconnect, Typed, TypeOK, PopupTypeOK
<1>. QED  BY <1>1, <1>2, PageFrame

-----------------------------------------------------------------------------
\* A step of the authorize commands leaves everything else typed.
LEMMA FilesFrame ==
  ASSUME Typed, ActivityTyped', Counted', FilesTypeOK', issued' \in 0..MaxOps, issued' >= issued,
         tries' \in [1..MaxOps -> Nat], printed' \in [1..MaxOps -> Nat], SoleTyped',
         UNCHANGED <<stores, page, fastid, expired, record, begun, released, crossed>>
  PROVE  Typed'
<1>1. expired' \in 0..issued'
  BY ActivityBounds DEF Typed, TypeOK, AgentTypeOK
<1>. QED
  BY <1>1 DEF Typed, TypeOK, StoresTypeOK, AgentTypeOK, PopupTypeOK, CountsTyped, FastIdTyped,
              stores, page, fastid

\* What a process in the file section holds is a request with its failures.
LEMMA FileForms ==
  ASSUME Typed, NEW a \in Actors, at[a].in = "pending"
  PROVE  /\ at[a] \in FileSteps
         /\ Mine(a) \in [req : 0..MaxOps, fails : 0..MaxFailures - 1]
         /\ \A pc \in {"generate", "replace", "message", "open", "fill", "rename", "print", "unlink"} :
              [at[a] EXCEPT !.pc = pc] \in FileSteps /\ [at[a] EXCEPT !.pc = pc].pc = pc
         /\ \A fd \in {"none", "tmp", "file"} :
              /\ [at[a] EXCEPT !.fd = fd] \in FileSteps /\ [at[a] EXCEPT !.fd = fd].pc = at[a].pc
              /\ [at[a] EXCEPT !.pc = "fill", !.fd = fd] \in FileSteps
              /\ [at[a] EXCEPT !.pc = "fill", !.fd = fd].pc = "fill"
<1>1. at[a] \in FileSteps
  BY StepForms DEF Typed, ActivityTyped
<1>. QED  BY <1>1 DEF FileSteps, Mine

\* A process unlinks the file, or renames over it: a descriptor that was
\* open on it may be of another file by then.
LEMMA OthersKeepForm ==
  ASSUME Typed, NEW a \in Actors, NEW s \in Steps, Owes(s) => Owes(at[a]), NEW fd \in {"tmp", "file"},
         at' = [b \in Actors |->
                 IF b = a THEN s
                 ELSE IF In(b, "pending", "fill")
                   THEN [at[b] EXCEPT !.fd = IF @ = fd THEN (IF fd = "file" THEN "none" ELSE "file")
                                             ELSE IF fd = "file" THEN @ ELSE "none"]
                 ELSE at[b]],
         UNCHANGED <<ops, faults, keys, issued>>
  PROVE  ActivityTyped' /\ Counted'
<1>1. ASSUME NEW b \in Actors, In(b, "pending", "fill"), NEW x \in {"none", "tmp", "file"}
      PROVE  [at[b] EXCEPT !.fd = x] \in FileSteps /\ [at[b] EXCEPT !.fd = x].pc = "fill"
  <2>1. at[b].in = "pending" /\ at[b].pc = "fill"
    BY <1>1 DEF In
  <2>2. at[b] \in FileSteps
    BY <2>1, FileForms
  <2>. QED  BY <2>1, <2>2 DEF FileSteps
<1>2. \A b \in Actors : at'[b] \in Steps /\ (Owes(at'[b]) => Owes(at[b]))
  <2>1. ASSUME NEW b \in Actors  PROVE at'[b] \in Steps /\ (Owes(at'[b]) => Owes(at[b]))
    <3>1. CASE b = a
      BY <3>1
    <3>2. CASE b # a /\ In(b, "pending", "fill")
      <4>1. PICK x \in {"none", "tmp", "file"} : at'[b] = [at[b] EXCEPT !.fd = x]
        <5>1. at[b] \in FileSteps
          BY <3>2, FileForms DEF In
        <5>2. at[b].fd \in {"none", "tmp", "file"}
          BY <5>1 DEF FileSteps
        <5>. QED  BY <3>2, <5>2
      <4>2. at'[b] \in FileSteps /\ at'[b].pc = "fill" /\ at'[b].in = "pending"
        <5>1. at[b] \in FileSteps /\ at[b].pc = "fill"
          BY <3>2, FileForms DEF In
        <5>. QED  BY <4>1, <5>1 DEF FileSteps
      <4>. QED  BY <4>2 DEF Steps, Owes
    <3>3. CASE b # a /\ ~In(b, "pending", "fill")
      BY <3>3 DEF Typed, ActivityTyped
    <3>. QED  BY <3>1, <3>2, <3>3
  <2>. QED  BY <2>1
<1>3. ActivityTyped'
  BY <1>2 DEF Typed, ActivityTyped
<1>4. Owing' \subseteq Owing
  BY <1>2 DEF Owing
<1>. QED
  BY <1>3, <1>4, NothingMade, ActivityBounds DEF Typed, ActivityTyped, TypeOK, StoresTypeOK, AgentTypeOK

\* What is counted of completes that met no other stays a count.
LEMMA SolesCounted ==
  ASSUME Typed, NEW a \in Actors, AuthorizeNext(a)
  PROVE  SoleTyped'
<1>1. soleTries \in [1..MaxOps -> Nat] /\ solePrints \in [1..MaxOps -> Nat]
  BY DEF Typed, CountsTyped, SoleTyped
<1>2. ASSUME NEW did, Done(a, did), at[a].in = "pending" PROVE SoleTyped'
  <2>1. at[a].req \in 0..MaxOps
    <3>1. at[a] \in FileSteps
      BY <1>2, FileForms
    <3>. QED  BY <3>1 DEF FileSteps
  <2>2. /\ soleTries' \in {soleTries, [soleTries EXCEPT ![at[a].req] = @ + 1]}
        /\ solePrints' \in {solePrints, [solePrints EXCEPT ![at[a].req] = @ + 1]}
    BY <1>2 DEF Done
  <2>3. /\ [soleTries EXCEPT ![at[a].req] = @ + 1] \in [1..MaxOps -> Nat]
        /\ [solePrints EXCEPT ![at[a].req] = @ + 1] \in [1..MaxOps -> Nat]
    BY <1>1, <2>1, CountsUp
  <2>. QED  BY <1>1, <2>2, <2>3 DEF SoleTyped
<1>3. ASSUME UNCHANGED sole PROVE SoleTyped'
  BY <1>1, <1>3 DEF sole, SoleTyped
<1>4. CASE Replace(a) \/ Unlink(a)
  BY <1>2, <1>4 DEF Replace, Unlink, Unlinked, In
<1>5. CASE RenameTmp(a)
  BY <1>2, <1>3, <1>5 DEF RenameTmp, In, files
<1>6. CASE ~(Replace(a) \/ Unlink(a) \/ RenameTmp(a))
  BY <1>3, <1>6 DEF AuthorizeNext, ReadExisting, Generate, ReadPending, Malformed, Decrypt, PrintKey,
     OpenTmp, FillTmp, AuthorizeDies, files
<1>. QED  BY <1>4, <1>5, <1>6

\* Every step of the authorize commands.
LEMMA AuthorizeTyped ==
  ASSUME Typed, NEW a \in Actors, UNCHANGED <<stores, page, fastid>>, AuthorizeNext(a)
  PROVE  Typed'
<1>1. /\ FilesTypeOK /\ CountsTyped /\ AgentTypeOK /\ ActivityTyped /\ issued \in 0..MaxOps
      /\ NoFile \in [req : 0..MaxOps, fails : 0..MaxFailures - 1]
      /\ Idle \in Steps /\ ~Owes(Idle) /\ SoleTyped'
  BY SolesCounted, FailuresAssumption, ActivityBounds DEF Typed, TypeOK, AgentTypeOK, NoFile, Steps, Idle, Owes
<1>2. at[a].in = "pending" => at[a] \in FileSteps
  BY FileForms
<1>3. CASE ReadExisting(a) \/ ReadPending(a)
  <2>1. PICK s \in FileSteps : Begin(a, "pending", s)
    <3>1. \A pc \in {"generate", "replace"} : Cli(pc, 0, 0, "none") \in FileSteps
      BY FailuresAssumption, ActivityBounds DEF Cli, FileSteps
    <3>2. file.req # 0 => Cli("message", file.req, file.fails, "none") \in FileSteps
      BY <1>1 DEF Cli, FileSteps, FilesTypeOK, Torn
    <3>. QED  BY <1>3, <3>1, <3>2 DEF ReadExisting, ReadPending
  <2>2. ActivityTyped' /\ Counted'
    BY <1>3, <2>1, Begins DEF ReadExisting, ReadPending, agent, stores, Steps
  <2>3. UNCHANGED <<stores, page, fastid, agent, file, tmp, tries, printed>>
    BY <1>1, <1>3 DEF ReadExisting, ReadPending, files
  <2>4. FilesTypeOK' /\ tries' \in [1..MaxOps -> Nat] /\ printed' \in [1..MaxOps -> Nat]
    BY <1>1, <2>3 DEF FilesTypeOK, CountsTyped
  <2>5. issued' \in 0..MaxOps /\ issued' >= issued
    BY <1>1, <2>3 DEF agent
  <2>6. UNCHANGED <<expired, record, begun, released, crossed>>
    BY <2>3 DEF agent
  <2>. QED  BY <1>1, <2>2, <2>3, <2>4, <2>5, <2>6, FilesFrame
<1>4. CASE Replace(a) \/ Unlink(a)
  <2>1. PICK s \in Steps : Unlinked(a, s) /\ (Owes(s) => Owes(at[a]))
    <3>1. CASE Replace(a)
      BY <1>2, <3>1, FileForms DEF Replace, In, Steps, Owes
    <3>2. CASE Unlink(a)
      BY <1>1, <3>2 DEF Unlink
    <3>. QED  BY <1>4, <3>1, <3>2
  <2>2. ActivityTyped' /\ Counted'
    BY <2>1, OthersKeepForm DEF Unlinked, agent, stores
  <2>. QED
    BY <1>1, <2>1, <2>2, FilesFrame, ActivityBounds DEF Unlinked, agent, FilesTypeOK, CountsTyped
<1>5. CASE Generate(a)
  <2>1. Owes(at[a])
    BY <1>5 DEF Generate, In, Owes
  <2>2. issued' = issued + 1 /\ keys' = keys /\ issued' \in Nat /\ keys' \in Nat
    BY <1>1, <1>5, ActivityBounds DEF Generate, stores, Typed, TypeOK, StoresTypeOK
  <2>3. issued' <= MaxOps
    <3>1. a \in Owing
      BY <2>1 DEF Owing
    <3>2. Cardinality(Owing) \in Nat /\ Cardinality(Owing) # 0
      BY <3>1, FS_CardinalityType, FS_EmptySet DEF Typed, Counted
    <3>. QED  BY <1>1, <2>2, <3>2, ActivityBounds DEF Typed, Counted, ActivityTyped
  <2>4. PICK s \in FileSteps : at' = [at EXCEPT ![a] = s] /\ s.pc = "open"
    <3>1. issued' \in 0..MaxOps /\ 0 \in 0..MaxFailures - 1
      BY <2>2, <2>3, FailuresAssumption, ActivityBounds
    <3>2. Cli("open", issued', 0, "none") \in FileSteps /\ Cli("open", issued', 0, "none").pc = "open"
      BY <3>1 DEF Cli, FileSteps
    <3>. QED  BY <1>5, <3>2 DEF Generate, Go
  <2>5. s \in Steps /\ ~Owes(s)
    BY <2>4 DEF Steps, FileSteps, Owes
  <2>6. ActivityTyped' /\ Counted'
    BY <1>5, <2>1, <2>2, <2>4, <2>5, Makes DEF Generate, Go
  <2>. QED
    <3>1. issued' \in 0..MaxOps /\ issued' >= issued
      BY <1>1, <2>2, <2>3, ActivityBounds
    <3>. QED  BY <1>1, <1>5, <2>6, <3>1, FilesFrame DEF Generate, files, FilesTypeOK, CountsTyped, SoleTyped, sole
<1>6. CASE Malformed(a) \/ AuthorizeDies(a)
  <2>1. at' = [at EXCEPT ![a] = Idle] /\ ops' = ops /\ faults' \in 0..MaxFaults
    BY <1>1, <1>6, ActivityBounds DEF Malformed, AuthorizeDies, Exit, Go, Fault, ActivityTyped
  <2>2. ActivityTyped' /\ Counted'
    BY <1>1, <1>6, <2>1, GoesOn DEF Malformed, AuthorizeDies, agent, stores
  <2>. QED
    BY <1>1, <1>6, <2>2, FilesFrame, ActivityBounds
       DEF Malformed, AuthorizeDies, agent, files, FilesTypeOK, CountsTyped, SoleTyped, sole
<1>7. CASE Decrypt(a)
  <2>1. PICK s \in FileSteps : at' = [at EXCEPT ![a] = s] /\ s.pc \in {"unlink", "print", "open"}
    <3>1. PICK rec : rec = [req |-> at[a].req, state |-> "pending", fails |-> at[a].fails]
      OBVIOUS
    <3>2. at[a] \in FileSteps /\ rec.fails = at[a].fails /\ rec.state = "pending"
      BY <1>2, <1>7, <3>1 DEF Decrypt, In
    <3>3. ~TooMany(rec) => RecordFailure(rec).fails \in 0..MaxFailures - 1
      <4>1. rec \in [req : 0..MaxOps, state : {"none", "pending", "consuming"}, fails : 0..MaxFailures - 1]
        BY <3>1, <3>2 DEF FileSteps
      <4>. QED  BY <4>1, FailureForms
    <3>4. /\ ~TooMany(rec) => Cli("open", at[a].req, RecordFailure(rec).fails, "try") \in FileSteps
          /\ Cli("unlink", at[a].req, at[a].fails, "try") \in FileSteps
      BY <3>2, <3>3 DEF Cli, FileSteps
    <3>5. \/ \E pc \in {"unlink", "print"} : at' = [at EXCEPT ![a] = [at[a] EXCEPT !.pc = pc]]
          \/ at' = [at EXCEPT ![a] = Cli("unlink", at[a].req, at[a].fails, "try")]
          \/ ~TooMany(rec) /\ at' = [at EXCEPT ![a] = Cli("open", at[a].req, RecordFailure(rec).fails, "try")]
      BY <1>7, <3>1 DEF Decrypt, Goto, Go
    <3>6. \A pc \in {"unlink", "print"} :
            [at[a] EXCEPT !.pc = pc] \in FileSteps /\ [at[a] EXCEPT !.pc = pc].pc = pc
      BY <3>2 DEF FileSteps
    <3>. QED  BY <3>4, <3>5, <3>6 DEF Cli
  <2>2. s \in Steps /\ ~Owes(s)
    BY <2>1 DEF Steps, FileSteps, Owes
  <2>3. ops' = ops /\ faults' = faults /\ issued' = issued
    BY <1>7 DEF Decrypt, Goto, Go, agent
  <2>4. ActivityTyped' /\ Counted'
    BY <1>1, <2>1, <2>2, <2>3, GoesOn DEF stores, ActivityTyped
  <2>5. tries' \in [1..MaxOps -> Nat]
    BY <1>1, <1>7 DEF Decrypt, CountsTyped
  <2>6. UNCHANGED <<stores, page, fastid, agent, file, tmp, printed>>
    BY <1>1, <1>7 DEF Decrypt
  <2>7. FilesTypeOK' /\ printed' \in [1..MaxOps -> Nat]
    BY <1>1, <2>6 DEF FilesTypeOK, CountsTyped
  <2>8. issued' \in 0..MaxOps /\ issued' >= issued
    BY <1>1, <2>6 DEF agent
  <2>9. UNCHANGED <<expired, record, begun, released, crossed>>
    BY <2>6 DEF agent
  <2>. QED  BY <1>1, <2>4, <2>5, <2>6, <2>7, <2>8, <2>9, FilesFrame
<1>8. CASE PrintKey(a) \/ OpenTmp(a) \/ FillTmp(a)
  <2>1. PICK s \in FileSteps : at' = [at EXCEPT ![a] = s] /\ s.pc \in {"unlink", "fill", "rename"}
    <3>1. CASE OpenTmp(a)
      BY <3>1, FileForms DEF OpenTmp, Go, In
    <3>2. CASE FillTmp(a)
      BY <3>2, FileForms DEF FillTmp, Goto, Go, In
    <3>3. CASE PrintKey(a)
      <4>1. at[a] \in FileSteps
        BY <1>2, <3>3 DEF PrintKey, In
      <4>2. Cli("unlink", at[a].req, at[a].fails, "print") \in FileSteps
        BY <4>1 DEF Cli, FileSteps
      <4>. QED  BY <3>3, <4>2 DEF PrintKey, Go, Cli
    <3>. QED  BY <1>8, <3>1, <3>2, <3>3
  <2>2. s \in Steps /\ ~Owes(s)
    BY <2>1 DEF Steps, FileSteps, Owes
  <2>3. ops' = ops /\ faults' = faults /\ issued' = issued
    BY <1>8 DEF PrintKey, OpenTmp, FillTmp, Goto, Go, agent
  <2>4. ActivityTyped' /\ Counted'
    BY <1>1, <2>1, <2>2, <2>3, GoesOn DEF stores, ActivityTyped
  <2>5. FilesTypeOK' /\ tries' \in [1..MaxOps -> Nat] /\ printed' \in [1..MaxOps -> Nat]
    <3>1. CASE PrintKey(a)
      <4>1. printed' \in [1..MaxOps -> Nat]
        <5>1. printed \in [1..MaxOps -> Nat]
          BY <1>1 DEF CountsTyped
        <5>2. PICK r \in 0..MaxOps : printed' = [printed EXCEPT ![r] = @ + 1]
          BY <1>2, <3>1 DEF PrintKey, In, FileSteps
        <5>. QED  BY <5>1, <5>2, CountsUp
      <4>. QED  BY <1>1, <3>1, <4>1 DEF PrintKey, FilesTypeOK, CountsTyped
    <3>2. CASE OpenTmp(a)
      BY <1>1, <3>2 DEF OpenTmp, FilesTypeOK, CountsTyped
    <3>3. CASE FillTmp(a)
      <4>1. Mine(a) \in [req : 0..MaxOps, fails : 0..MaxFailures - 1]
        BY <3>3, FileForms DEF FillTmp, In
      <4>2. /\ tmp' \in {tmp, Mine(a)} /\ file' \in {file, Mine(a)}
            /\ tries' = tries /\ printed' = printed
        BY <3>3 DEF FillTmp
      <4>. QED  BY <1>1, <4>1, <4>2 DEF FilesTypeOK, CountsTyped
    <3>. QED  BY <1>8, <3>1, <3>2, <3>3
  <2>. QED
    BY <1>1, <1>8, <2>4, <2>5, FilesFrame, ActivityBounds DEF PrintKey, OpenTmp, FillTmp, agent
<1>9. CASE RenameTmp(a)
  <2>1. CASE tmp = NoFile
    <3>1. ActivityTyped' /\ Counted'
      BY <1>1, <1>9, <2>1, GoesOn DEF RenameTmp, Exit, Go, agent, stores, ActivityTyped
    <3>. QED
      BY <1>1, <1>9, <2>1, <3>1, FilesFrame, ActivityBounds DEF RenameTmp, agent, files, FilesTypeOK, CountsTyped, SoleTyped, sole
  <2>2. CASE tmp # NoFile
    <3>1. ActivityTyped' /\ Counted'
      BY <1>1, <1>9, <2>2, OthersKeepForm DEF RenameTmp, agent, stores
    <3>. QED
      BY <1>1, <1>9, <2>2, <3>1, FilesFrame, ActivityBounds DEF RenameTmp, agent, FilesTypeOK, CountsTyped
  <2>. QED  BY <2>1, <2>2
<1>. QED  BY <1>3, <1>4, <1>5, <1>6, <1>7, <1>8, <1>9 DEF AuthorizeNext

-----------------------------------------------------------------------------
\* The values of the client and of the service.
Clients ==
  [calls : Applications, slot : [Proven -> 0..MaxOps], verified : Int, session : Words,
   verification : Words, revocations : SUBSET Txs, forgot : 0..MaxOps]
Services ==
  [rows : SUBSET Txs, revoked : SUBSET Int, verified : SUBSET Int, x : Words, stored : SUBSET Int]

(* The actor a takes up s, which is nothing or something of the fastid-sdk. *)
MovesTo(a, s) ==
  /\ at' = [at EXCEPT ![a] = s]
  /\ at[a].in \in {"none", "fastid"}
  /\ \/ ops' = ops /\ faults' \in 0..MaxFaults
     \/ Begin(a, "fastid", s)
Moves(a) == \E s \in FastIdSteps \cup {Idle} : MovesTo(a, s)

\* A step of one call leaves everything else typed.
LEMMA FastIdFrame ==
  ASSUME Typed, NEW a \in Actors, Moves(a), UNCHANGED machine,
         account' \in [nonce : Nat, txs : SUBSET Txs], service' \in Services, client' \in Clients,
         promises' \in [1..MaxOps -> Outcomes], said' \in [1..MaxOps -> Outcomes]
  PROVE  Typed'
<1>1. PICK s \in FastIdSteps \cup {Idle} : MovesTo(a, s)
  BY DEF Moves
<1>2. s \in Steps /\ ~Owes(s)
  BY DEF Steps, FastIdSteps, Idle, Owes
<1>3. UNCHANGED <<keys, issued>>
  BY DEF machine, stores, agent
<1>4. ActivityTyped' /\ Counted'
  <2>1. CASE Begin(a, "fastid", s)
    BY <1>2, <1>3, <2>1, Begins
  <2>2. CASE ops' = ops /\ faults' \in 0..MaxFaults
    BY <1>1, <1>2, <1>3, <2>2, GoesOn DEF MovesTo
  <2>. QED  BY <1>1, <2>1, <2>2 DEF MovesTo
<1>. QED
  BY <1>4 DEF Typed, TypeOK, StoresTypeOK, AgentTypeOK, FilesTypeOK, PopupTypeOK, CountsTyped, SoleTyped, sole, FastIdTyped,
              machine, stores, agent, files, page, Clients, Services

\* Taking a step, with a fault or without.
LEMMA TakeMoves ==
  ASSUME Typed, NEW a \in Actors, NEW s \in FastIdSteps \cup {Idle}, NEW fault \in BOOLEAN,
         Take(a, s, fault), at[a].in = "fastid"
  PROVE  Moves(a)
<1>1. faults' \in 0..MaxFaults
  BY ActivityBounds DEF Take, Typed, ActivityTyped
<1>. QED  BY <1>1 DEF Take, Moves, MovesTo

\* What a call is may change only in its step, its transaction and its nonce.
LEMMA CallForms ==
  ASSUME Typed, NEW a \in Actors, at[a].in = "fastid"
  PROVE  /\ at[a] \in FastIdSteps
         /\ at[a].id \in 1..MaxOps /\ at[a].by \in 0..MaxOps /\ at[a].tx \in Txs
         /\ at[a].kind \in Words /\ at[a].nonce \in Int
         /\ at[a].kind \in Proven \/ at[a].pc \in {"join", "links"} =>
              at[a].by # 0 /\ [at[a] EXCEPT !.pc = "links"] \in FastIdSteps
         /\ \A pc \in Words \ {"join", "links"} :
              /\ [at[a] EXCEPT !.pc = pc] \in FastIdSteps
              /\ \A tx \in Txs : [at[a] EXCEPT !.pc = pc, !.tx = tx] \in FastIdSteps
              /\ \A n \in Int : [at[a] EXCEPT !.pc = pc, !.nonce = n] \in FastIdSteps
              /\ \A k \in Words \ Proven : [at[a] EXCEPT !.pc = pc, !.kind = k] \in FastIdSteps
<1>1. at[a] \in FastIdSteps
  BY StepForms DEF Typed, ActivityTyped
<1>2. "links" \in Words
  BY DEF Words
<1>. QED  BY <1>1, <1>2 DEF FastIdSteps

\* Outcomes of every kind.
LEMMA OutcomeForms ==
  /\ NoTx \in Txs
  /\ \A i \in Int : [NoTx EXCEPT !.id = i] \in Txs /\ [NoTx EXCEPT !.id = i].id = i
  /\ \A tx \in Txs : tx.id \in Int /\ tx.of \in Int
  /\ \A r \in Words, tx \in Txs : Told(r, tx) \in Outcomes
  /\ \A i \in Int : NotPaid(i) \in Outcomes
  /\ \A o \in Outcomes : o.tx \in Txs /\ o.result \in Words
  /\ \A k \in Words, i \in Int : Claim(i, k) \in Txs
  /\ \A i \in Int, c \in Txs : Revocation(i, c) \in Txs
<1>1. NoTx \in Txs /\ \A i \in Int : [NoTx EXCEPT !.id = i] \in Txs /\ [NoTx EXCEPT !.id = i].id = i
  <2>1. NoTx \in Txs
    BY DEF Words, NoTx, Claim, Txs
  <2>. QED  BY <2>1 DEF Txs
<1>2. /\ \A tx \in Txs : tx.id \in Int /\ tx.of \in Int
      /\ \A r \in Words, tx \in Txs : Told(r, tx) \in Outcomes
      /\ \A o \in Outcomes : o.tx \in Txs /\ o.result \in Words
  BY DEF Txs, Told, Outcomes
<1>3. \A i \in Int : NotPaid(i) \in Outcomes
  BY <1>1, <1>2 DEF Words, NotPaid
<1>4. /\ \A k \in Words, i \in Int : Claim(i, k) \in Txs
      /\ \A i \in Int, c \in Txs : Revocation(i, c) \in Txs
  BY DEF Words, Claim, Revocation, Txs
<1>. QED  BY <1>1, <1>2, <1>3, <1>4

\* What the client's memory may become.
LEMMA ClientForms ==
  ASSUME NEW c \in Clients
  PROVE  /\ \A k \in Words, i \in 0..MaxOps : [c EXCEPT !.slot[k] = i] \in Clients
         /\ \A i \in Int : [c EXCEPT !.verified = i] \in Clients
         /\ \A v \in Words : [c EXCEPT !.verification = v] \in Clients
         /\ \A r \in SUBSET Txs : [c EXCEPT !.revocations = r] \in Clients
         /\ \A r \in SUBSET Txs, f \in 0..MaxOps :
              [c EXCEPT !.slot["github"] = 0, !.revocations = r, !.forgot = f] \in Clients
         /\ \A s \in Words : [c EXCEPT !.session = s] \in Clients
<1>1. ASSUME NEW k \in Words, NEW i \in 0..MaxOps  PROVE [c.slot EXCEPT ![k] = i] \in [Proven -> 0..MaxOps]
  BY DEF Clients
<1>2. 0 \in 0..MaxOps
  BY ActivityBounds
<1>3. /\ \A k \in Words, i \in 0..MaxOps : [c EXCEPT !.slot[k] = i] \in Clients
      /\ \A i \in Int : [c EXCEPT !.verified = i] \in Clients
      /\ \A v \in Words : [c EXCEPT !.verification = v] \in Clients
      /\ \A r \in SUBSET Txs : [c EXCEPT !.revocations = r] \in Clients
      /\ \A s \in Words : [c EXCEPT !.session = s] \in Clients
  BY <1>1 DEF Clients
<1>4. \A r \in SUBSET Txs, f \in 0..MaxOps :
        [c EXCEPT !.slot["github"] = 0, !.revocations = r, !.forgot = f] \in Clients
  BY <1>1, <1>2 DEF Clients
<1>. QED  BY <1>3, <1>4

\* What the service may become.
LEMMA ServiceForms ==
  ASSUME NEW s \in Services
  PROVE  /\ \A r \in SUBSET Txs, v \in SUBSET Int, w \in SUBSET Int :
              [s EXCEPT !.rows = r, !.revoked = v, !.verified = w] \in Services
         /\ \A v \in SUBSET Int : [s EXCEPT !.verified = v] \in Services
         /\ \A v \in SUBSET Int : [s EXCEPT !.stored = v] \in Services
         /\ \A x \in Words : [s EXCEPT !.x = x] \in Services
BY DEF Services

\* The typing of the fastid-sdk, in the words of these lemmas.
LEMMA FastIdTypes ==
  Typed => /\ account \in [nonce : Nat, txs : SUBSET Txs] /\ service \in Services /\ client \in Clients
           /\ promises \in [1..MaxOps -> Outcomes] /\ said \in [1..MaxOps -> Outcomes]
           /\ ops \in 0..MaxOps /\ faults \in 0..MaxFaults
BY DEF Typed, ActivityTyped, FastIdTyped, Clients, Services

\* A call tells its caller what came of it.
LEMMA TellForms ==
  ASSUME Typed, NEW a \in Actors, at[a].in = "fastid", NEW outcome \in Outcomes, NEW fault \in BOOLEAN,
         Tell(a, outcome, fault)
  PROVE  Moves(a) /\ said' \in [1..MaxOps -> Outcomes]
<1>1. Moves(a)
  BY TakeMoves DEF Tell
<1>2. said' \in [1..MaxOps -> Outcomes]
  BY FastIdTypes, CallForms DEF Tell
<1>. QED  BY <1>1, <1>2

\* A call ends, and its settlement with it.
LEMMA EndsForms ==
  ASSUME Typed, NEW a \in Actors, at[a].in = "fastid", NEW outcome \in Outcomes, NEW fault \in BOOLEAN,
         Ends(a, outcome, fault)
  PROVE  /\ Moves(a) /\ client' \in Clients
         /\ promises' \in [1..MaxOps -> Outcomes] /\ said' \in [1..MaxOps -> Outcomes]
<1>1. CASE at[a].kind \notin Proven
  BY <1>1, FastIdTypes, TellForms DEF Ends
<1>2. CASE at[a].kind \in Proven
  <2>1. Settled(at[a], outcome)
    BY <1>2 DEF Ends
  <2>2. promises' \in [1..MaxOps -> Outcomes]
    BY <2>1, FastIdTypes, CallForms DEF Settled
  <2>3. client' \in Clients
    <3>1. outcome.tx \in Txs
      BY OutcomeForms
    <3>3. outcome.tx.id \in Int
      BY <3>1, OutcomeForms
    <3>4. at[a].kind \in Words
      BY CallForms
    <3>5. /\ [client EXCEPT !.slot[at[a].kind] = 0] \in Clients
          /\ [client EXCEPT !.verified = outcome.tx.id] \in Clients
      <4>1. 0 \in 0..MaxOps
        BY ActivityBounds
      <4>. QED  BY <3>3, <3>4, <4>1, FastIdTypes, ClientForms
    <3>2. \/ client' = [client EXCEPT !.slot[at[a].kind] = 0]
          \/ client' = [client EXCEPT !.verified = outcome.tx.id]
          \/ client' = client
      BY <2>1 DEF Settled
    <3>. QED  BY <3>2, <3>5, FastIdTypes
  <2>4. Moves(a) /\ said' \in [1..MaxOps -> Outcomes]
    <3>1. CASE Tell(a, outcome, fault)
      BY <3>1, TellForms
    <3>2. CASE TakeTo(a, "links", fault) /\ UNCHANGED said
      <4>1. [at[a] EXCEPT !.pc = "links"] \in FastIdSteps
        BY <1>2, CallForms
      <4>2. Moves(a)
        BY <3>2, <4>1, TakeMoves DEF TakeTo
      <4>. QED  BY <3>2, <4>2, FastIdTypes
    <3>. QED  BY <1>2, <3>1, <3>2 DEF Ends
  <2>. QED  BY <2>2, <2>3, <2>4
<1>. QED  BY <1>1, <1>2

\* A call begins.
LEMMA IdCallForms ==
  ASSUME Typed, ops < MaxOps, NEW pc \in Words, NEW kind \in Words, NEW by \in 0..MaxOps,
         kind \in Proven \/ pc \in {"join", "links"} => by # 0
  PROVE  /\ IdCall(pc, kind, by) \in FastIdSteps
         /\ \A tx \in Txs : [IdCall(pc, kind, by) EXCEPT !.tx = tx] \in FastIdSteps
<1>1. ops + 1 \in 1..MaxOps
  BY FastIdTypes, ActivityBounds
<1>2. NoTx \in Txs /\ -1 \in Int
  BY OutcomeForms
<1>3. IdCall(pc, kind, by) \in FastIdSteps
  BY <1>1, <1>2 DEF IdCall, FastIdSteps
<1>. QED  BY <1>3 DEF FastIdSteps

\* Beginning any call.
LEMMA BeginMoves ==
  ASSUME Typed, NEW a \in Actors, NEW s \in FastIdSteps, Begin(a, "fastid", s)
  PROVE  Moves(a)
<1>1. at[a].in = "none"
  BY DEF Begin, Idle
<1>2. MovesTo(a, s)
  BY <1>1 DEF Begin, MovesTo
<1>. QED  BY <1>2 DEF Moves

\* A call that starts keeps the machine typed.
LEMMA CallStartsTyped ==
  ASSUME Typed, NEW a \in Actors, CallStarts(a), UNCHANGED machine
  PROVE  Typed'
<1>0. 0 \in 0..MaxOps
  BY ActivityBounds
<1>1. ASSUME NEW kind \in Proven, Settle(a, kind)  PROVE Typed'
  <2>0. kind \in Words /\ client.slot[kind] \in 0..MaxOps /\ "join" \in Words
    BY FastIdTypes DEF Words, Clients, Proven
  <2>1. CASE /\ client.slot[kind] # 0
             /\ Begin(a, "fastid", IdCall("join", kind, client.slot[kind])) /\ UNCHANGED fastid
    <3>1. Moves(a)
      BY <2>0, <2>1, IdCallForms, BeginMoves DEF Begin
    <3>. QED  BY <2>1, <3>1, FastIdTypes, FastIdFrame DEF fastid
  <2>2. CASE /\ Begin(a, "fastid", IdCall(FirstStep[kind], kind, ops + 1))
             /\ client' = [client EXCEPT !.slot[kind] = ops + 1]
             /\ UNCHANGED <<account, service, promises, said>>
    <3>1. FirstStep[kind] \in Words \ {"join", "links"}
      BY DEF FirstStep, Words, Proven
    <3>2. ops + 1 \in 0..MaxOps /\ ops + 1 # 0
      BY <2>2, FastIdTypes, ActivityBounds DEF Begin
    <3>3. Moves(a)
      BY <2>0, <2>2, <3>1, <3>2, IdCallForms, BeginMoves DEF Begin
    <3>4. client' \in Clients
      BY <2>0, <2>2, <3>2, FastIdTypes, ClientForms
    <3>. QED  BY <2>2, <3>3, <3>4, FastIdTypes, FastIdFrame
  <2>. QED  BY <1>1, <2>1, <2>2 DEF Settle
<1>2. ASSUME NEW kind \in Proven, SettleAtOnce(a, kind)  PROVE Typed'
  <2>1. PICK o : Answer(o) /\ o \in Outcomes
    <3>1. Told("already", NoTx) \in Outcomes
      BY OutcomeForms DEF Words
    <3>2. client.verified \in Int
      BY FastIdTypes DEF Clients
    <3>3. Told("verified", [NoTx EXCEPT !.id = client.verified]) \in Outcomes
      BY <3>2, OutcomeForms DEF Words
    <3>. QED  BY <1>2, <3>1, <3>3 DEF SettleAtOnce
  <2>2. said' \in [1..MaxOps -> Outcomes]
    BY <2>1, FastIdTypes DEF Answer
  <2>3. ops < MaxOps /\ ops' = ops + 1 /\ at' = at /\ faults' = faults
        /\ UNCHANGED <<account, service, client, promises>>
    BY <1>2 DEF SettleAtOnce
  <2>4. ActivityTyped'
    BY <2>3, ActivityBounds DEF Typed, ActivityTyped
  <2>5. Counted'
    BY <2>3, OneMoreOwes, ActivityBounds
       DEF Owing, Typed, TypeOK, StoresTypeOK, AgentTypeOK, ActivityTyped, machine, stores, agent
  <2>. QED
    BY <2>2, <2>3, <2>4, <2>5
       DEF Typed, TypeOK, StoresTypeOK, AgentTypeOK, FilesTypeOK, PopupTypeOK, CountsTyped, SoleTyped, sole, FastIdTyped,
           machine, stores, agent, files, page
<1>3. CASE \E kind \in {"name", "work"} : StartClaim(a, kind)
  <2>1. PICK pc \in Words \ {"join", "links"}, kind \in Words \ Proven : Begin(a, "fastid", IdCall(pc, kind, 0))
    BY <1>3 DEF StartClaim, Words, Proven
  <2>2. Moves(a)
    BY <1>0, <2>1, IdCallForms, BeginMoves DEF Begin
  <2>. QED  BY <1>3, <2>2, FastIdTypes, FastIdFrame DEF StartClaim, fastid
<1>4. CASE StartRevoke(a) \/ StartXClaim(a) \/ VerifyPost(a)
  <2>1. PICK pc \in Words \ {"join", "links"}, kind \in Words \ Proven : Begin(a, "fastid", IdCall(pc, kind, 0))
    BY <1>4 DEF StartRevoke, StartXClaim, VerifyPost, Words, Proven
  <2>2. Moves(a)
    BY <1>0, <2>1, IdCallForms, BeginMoves DEF Begin
  <2>. QED  BY <1>4, <2>2, FastIdTypes, FastIdFrame DEF StartRevoke, StartXClaim, VerifyPost, fastid
<1>5. CASE \E kind \in {"profile", "report"} : StartDocument(a, kind)
  <2>1. PICK kind \in Words \ Proven : Begin(a, "fastid", IdCall("read", kind, 0)) /\ "read" \in Words
    BY <1>5 DEF StartDocument, Words, Proven
  <2>2. Moves(a)
    BY <1>0, <2>1, IdCallForms, BeginMoves DEF Begin
  <2>. QED  BY <1>5, <2>2, FastIdTypes, FastIdFrame DEF StartDocument, fastid
<1>6. CASE RetryRegistration(a)
  <2>1. PICK i \in 1..MaxOps : Begin(a, "fastid", [IdCall("register", "retry", 0) EXCEPT !.tx = said[i].tx])
    <3>1. PICK i \in 1..ops : Begin(a, "fastid", [IdCall("register", "retry", 0) EXCEPT !.tx = said[i].tx])
      BY <1>6 DEF RetryRegistration
    <3>2. i \in 1..MaxOps
      BY <3>1, FastIdTypes, ActivityBounds
    <3>. QED  BY <3>1, <3>2
  <2>2. said[i].tx \in Txs
    BY FastIdTypes, OutcomeForms
  <2>3. "register" \in Words /\ "retry" \in Words \ Proven
    BY DEF Words, Proven
  <2>4. Moves(a)
    BY <1>0, <2>1, <2>2, <2>3, IdCallForms, BeginMoves DEF Begin
  <2>. QED  BY <1>6, <2>4, FastIdTypes, FastIdFrame DEF RetryRegistration, fastid
<1>. QED  BY <1>1, <1>2, <1>3, <1>4, <1>5, <1>6 DEF CallStarts

(* The ways in which a call goes on: a step, a word to its caller, its end. *)
StepsOn(a, s, fault) == Take(a, s, fault) /\ UNCHANGED <<client, promises, said>>
Tells(a, outcome, fault) == Tell(a, outcome, fault) /\ UNCHANGED promises

\* Each of them keeps the machine typed.
LEMMA GoesOnTyped ==
  ASSUME Typed, NEW a \in Actors, at[a].in = "fastid", UNCHANGED machine, NEW fault \in BOOLEAN,
         account' \in [nonce : Nat, txs : SUBSET Txs], service' \in Services,
         \/ \E s \in FastIdSteps : StepsOn(a, s, fault)
         \/ \E outcome \in Outcomes : Tells(a, outcome, fault) /\ client' \in Clients
         \/ \E outcome \in Outcomes : Ends(a, outcome, fault)
  PROVE  Typed'
<1>1. CASE \E s \in FastIdSteps : StepsOn(a, s, fault)
  BY <1>1, FastIdTypes, TakeMoves, FastIdFrame DEF StepsOn
<1>2. CASE \E outcome \in Outcomes : Tells(a, outcome, fault) /\ client' \in Clients
  BY <1>2, FastIdTypes, TellForms, FastIdFrame DEF Tells
<1>3. CASE \E outcome \in Outcomes : Ends(a, outcome, fault)
  BY <1>3, EndsForms, FastIdFrame
<1>. QED  BY <1>1, <1>2, <1>3

\* A step to another label, or a failure before any payment.
LEMMA ReadsTyped ==
  ASSUME Typed, NEW a \in Actors, at[a].in = "fastid", UNCHANGED machine, NEW fault \in BOOLEAN,
         UNCHANGED account, service' \in Services,
         \/ \E pc \in Words \ {"join", "links"} : TakeTo(a, pc, fault) /\ UNCHANGED <<client, promises, said>>
         \/ Unpaid(a, fault)
  PROVE  Typed'
<1>1. CASE \E pc \in Words \ {"join", "links"} : TakeTo(a, pc, fault) /\ UNCHANGED <<client, promises, said>>
  <2>1. PICK pc \in Words \ {"join", "links"} : TakeTo(a, pc, fault) /\ UNCHANGED <<client, promises, said>>
    BY <1>1
  <2>2. PICK s : s = [at[a] EXCEPT !.pc = pc]
    OBVIOUS
  <2>3. s \in FastIdSteps
    BY <2>2, CallForms
  <2>. QED  BY <2>1, <2>2, <2>3, FastIdTypes, GoesOnTyped DEF TakeTo, StepsOn
<1>2. CASE Unpaid(a, fault)
  <2>1. NotPaid(at[a].id) \in Outcomes
    <3>1. at[a].id \in 1..MaxOps
      BY CallForms
    <3>. QED  BY <3>1, OutcomeForms
  <2>. QED  BY <1>2, <2>1, FastIdTypes, GoesOnTyped DEF Unpaid
<1>. QED  BY <1>1, <1>2

\* The reads, the commitment and the documents' reads.
LEMMA ReadStepsTyped ==
  ASSUME Typed, NEW a \in Actors, UNCHANGED machine,
         \/ OAuthProof(a) \/ CommitLegacy(a) \/ Identity(a) \/ Availability(a) \/ PropertyClaimed(a)
         \/ ResolveClaimFee(a) \/ ReadFirst(a)
  PROVE  Typed'
<1>1. at[a].in = "fastid" /\ account' = account
  BY DEF OAuthProof, CommitLegacy, Identity, Availability, PropertyClaimed, ResolveClaimFee, ReadFirst, In
<1>2. service' \in Services
  <2>1. Committed \in Services
    BY FastIdTypes, ServiceForms DEF Committed, Words
  <2>. QED
    BY <2>1, FastIdTypes
       DEF OAuthProof, CommitLegacy, Identity, Availability, PropertyClaimed, ResolveClaimFee, ReadFirst
<1>3. PICK fault \in BOOLEAN :
        \/ \E pc \in Words \ {"join", "links"} : TakeTo(a, pc, fault) /\ UNCHANGED <<client, promises, said>>
        \/ Unpaid(a, fault)
  <2>1. {"claimed", "fee", "availability", "nonce", "challenge", "send"} \subseteq Words \ {"join", "links"}
    BY DEF Words
  <2>2. CASE OAuthProof(a) \/ CommitLegacy(a) \/ ResolveClaimFee(a)
    BY <2>1, <2>2 DEF OAuthProof, CommitLegacy, ResolveClaimFee
  <2>3. CASE Identity(a) \/ Availability(a) \/ PropertyClaimed(a)
    BY <2>1, <2>3 DEF Identity, Availability, PropertyClaimed
  <2>4. CASE ReadFirst(a)
    BY <2>1, <2>4 DEF ReadFirst
  <2>. QED  BY <2>2, <2>3, <2>4
<1>. QED  BY <1>1, <1>2, <1>3, ReadsTyped

\* Joining a settlement, and waiting for a website.
LEMMA JoinStepsTyped ==
  ASSUME Typed, NEW a \in Actors, UNCHANGED machine, Join(a) \/ WaitForWebsite(a)
  PROVE  Typed'
<1>1. at[a].in = "fastid" /\ account' = account /\ service' = service
  BY DEF Join, WaitForWebsite, In
<1>2. PICK o : o = promises[at[a].by]
  OBVIOUS
<1>3. at[a].by \in 1..MaxOps
  <2>1. at[a].by \in 0..MaxOps /\ at[a].by # 0
    BY <1>1, CallForms DEF Join, WaitForWebsite, In
  <2>. QED  BY <2>1, ActivityBounds
<1>4. Typed'
  <2>1. o \in Outcomes /\ o.tx \in Txs
    BY <1>2, <1>3, FastIdTypes, OutcomeForms
  <2>2. CASE Join(a)
    <3>1. CASE TakeTo(a, "links", FALSE) /\ UNCHANGED said
      <4>1. PICK s : s = [at[a] EXCEPT !.pc = "links"]
        OBVIOUS
      <4>2. s \in FastIdSteps
        BY <2>2, <4>1, CallForms DEF Join, In
      <4>. QED  BY <1>1, <2>2, <3>1, <4>1, <4>2, FastIdTypes, GoesOnTyped DEF Join, TakeTo, StepsOn
    <3>2. CASE Tell(a, o, FALSE)
      BY <1>1, <2>1, <2>2, <3>2, FastIdTypes, GoesOnTyped DEF Join, Tells
    <3>. QED  BY <1>2, <2>2, <3>1, <3>2 DEF Join
  <2>3. CASE WaitForWebsite(a)
    <3>1. \A r \in {"verified", "unverified"} : Told(r, o.tx) \in Outcomes
      BY <2>1, OutcomeForms DEF Words
    <3>2. PICK x \in Outcomes : Tell(a, x, FALSE)
      BY <1>2, <2>1, <2>3, <3>1 DEF WaitForWebsite
    <3>3. client' \in Clients
      <4>1. o.tx.id \in Int
        BY <2>1, OutcomeForms
      <4>. QED  BY <1>2, <2>3, <4>1, FastIdTypes, ClientForms DEF WaitForWebsite
    <3>. QED  BY <1>1, <2>3, <3>2, <3>3, FastIdTypes, GoesOnTyped DEF WaitForWebsite, Tells
  <2>. QED  BY <2>2, <2>3
<1>. QED  BY <1>4

\* Revoking, the nonce, the submission.
LEMMA PaymentStepsTyped ==
  ASSUME Typed, NEW a \in Actors, UNCHANGED machine,
         ClaimTransactionForRevoke(a) \/ GetNextNonce(a) \/ SubmitSignedClaim(a)
  PROVE  Typed'
<1>1. at[a].in = "fastid" /\ service' = service
  BY DEF ClaimTransactionForRevoke, GetNextNonce, SubmitSignedClaim, In
<1>2. at[a] \in FastIdSteps /\ at[a].id \in 1..MaxOps /\ at[a].kind \in Words /\ at[a].tx \in Txs
  BY <1>1, CallForms
<1>3. {"fee", "submit", "register"} \subseteq Words \ {"join", "links"} /\ "unknown" \in Words
  BY DEF Words
<1>4. CASE ClaimTransactionForRevoke(a)
  <2>1. CASE \E fault \in BOOLEAN : Unpaid(a, fault)
    BY <1>1, <1>4, <2>1, FastIdTypes, ReadsTyped DEF ClaimTransactionForRevoke
  <2>2. CASE /\ \E r \in service.rows, fault \in BOOLEAN : Take(a, [at[a] EXCEPT !.pc = "fee", !.tx = r], fault)
             /\ UNCHANGED <<client, promises, said>>
    <3>1. PICK r \in Txs, fault \in BOOLEAN : Take(a, [at[a] EXCEPT !.pc = "fee", !.tx = r], fault)
      BY <2>2, FastIdTypes DEF Services
    <3>2. PICK s : s = [at[a] EXCEPT !.pc = "fee", !.tx = r]
      OBVIOUS
    <3>3. s \in FastIdSteps
      BY <1>1, <1>3, <3>2, CallForms
    <3>. QED
      BY <1>1, <1>4, <2>2, <3>1, <3>2, <3>3, FastIdTypes, GoesOnTyped DEF ClaimTransactionForRevoke, StepsOn
  <2>. QED  BY <1>4, <2>1, <2>2 DEF ClaimTransactionForRevoke
<1>5. CASE GetNextNonce(a)
  <2>1. CASE \E fault \in BOOLEAN : Unpaid(a, fault)
    BY <1>1, <1>5, <2>1, FastIdTypes, ReadsTyped DEF GetNextNonce
  <2>2. CASE /\ Take(a, [at[a] EXCEPT !.pc = "submit", !.nonce = account.nonce], FALSE)
             /\ UNCHANGED <<client, promises, said>>
    <3>1. PICK s : s = [at[a] EXCEPT !.pc = "submit", !.nonce = account.nonce]
      OBVIOUS
    <3>2. account.nonce \in Int
      BY FastIdTypes
    <3>3. s \in FastIdSteps
      BY <1>1, <1>3, <3>1, <3>2, CallForms
    <3>. QED
      BY <1>1, <1>5, <2>2, <3>1, <3>3, FastIdTypes, GoesOnTyped DEF GetNextNonce, StepsOn
  <2>. QED  BY <1>5, <2>1, <2>2 DEF GetNextNonce
<1>6. CASE SubmitSignedClaim(a)
  <2>1. PICK tx : tx = BuiltClaim(at[a])
    OBVIOUS
  <2>2. tx \in Txs
    BY <1>2, <2>1, OutcomeForms DEF BuiltClaim
  <2>3. IndeterminateSubmission(tx) \in Outcomes
    BY <1>3, <2>2, OutcomeForms DEF IndeterminateSubmission
  <2>4. account' \in [nonce : Nat, txs : SUBSET Txs]
    <3>1. account.nonce + 1 \in Nat /\ account.txs \cup {tx} \in SUBSET Txs
      BY <2>2, FastIdTypes
    <3>2. [nonce |-> account.nonce + 1, txs |-> account.txs \cup {tx}] \in [nonce : Nat, txs : SUBSET Txs]
      BY <3>1
    <3>3. Accept(tx) \/ UNCHANGED account
      BY <1>6, <2>1 DEF SubmitSignedClaim
    <3>. QED  BY <3>2, <3>3, FastIdTypes DEF Accept
  <2>5. CASE /\ Take(a, [at[a] EXCEPT !.pc = "register", !.tx = tx], FALSE)
             /\ UNCHANGED <<client, promises, said>>
    <3>1. PICK s : s = [at[a] EXCEPT !.pc = "register", !.tx = tx]
      OBVIOUS
    <3>2. s \in FastIdSteps
      BY <1>1, <1>3, <2>2, <3>1, CallForms
    <3>. QED  BY <1>1, <2>4, <2>5, <3>1, <3>2, FastIdTypes, GoesOnTyped DEF StepsOn
  <2>6. CASE Ends(a, IndeterminateSubmission(tx), TRUE)
    BY <1>1, <2>3, <2>4, <2>6, FastIdTypes, GoesOnTyped
  <2>7. CASE \E fault \in BOOLEAN : Unpaid(a, fault) /\ UNCHANGED account
    BY <1>1, <2>7, FastIdTypes, ReadsTyped
  <2>. QED  BY <1>6, <2>1, <2>5, <2>6, <2>7 DEF SubmitSignedClaim
<1>. QED  BY <1>4, <1>5, <1>6

\* A registration, whatever comes of it.
LEMMA RegisterTyped ==
  ASSUME Typed, NEW a \in Actors, UNCHANGED machine, Register(a)
  PROVE  Typed'
<1>1. at[a].in = "fastid" /\ account' = account
  BY DEF Register, In
<1>2. at[a].tx \in Txs /\ at[a].tx.id \in Int /\ at[a].tx.of \in Int
  <2>1. at[a].tx \in Txs
    BY <1>1, CallForms
  <2>. QED  BY <2>1, OutcomeForms
<1>3. service' \in Services
  <2>1. ASSUME NEW verified \in BOOLEAN, Apply(at[a].tx, verified)  PROVE service' \in Services
    BY <1>2, <2>1, FastIdTypes DEF Apply, Services
  <2>. QED  BY <2>1, FastIdTypes DEF Register
<1>4. PICK r \in {"registered", "verified", "pending", "terminal"}, fault \in BOOLEAN :
        Registered(a, Told(r, at[a].tx), fault)
  BY DEF Register
<1>5. PICK outcome \in Outcomes : outcome = Told(r, at[a].tx)
  <2>1. r \in Words
    BY DEF Words
  <2>. QED  BY <1>2, <2>1, OutcomeForms
<1>6. ops \in 0..MaxOps /\ client.revocations \subseteq Txs
  BY FastIdTypes DEF Clients
<1>7. CASE Ends(a, outcome, fault)
  BY <1>1, <1>3, <1>7, FastIdTypes, GoesOnTyped
<1>8. CASE Tell(a, outcome, fault) /\ UNCHANGED promises /\ client' \in Clients
  BY <1>1, <1>3, <1>8, FastIdTypes, GoesOnTyped DEF Tells
<1>9. \A R \in SUBSET Txs : Forgotten(R) => client' \in Clients
  <2>1. \A R \in SUBSET Txs :
          [client EXCEPT !.slot["github"] = 0, !.revocations = R, !.forgot = ops] \in Clients
    BY <1>6, FastIdTypes, ClientForms
  <2>. QED  BY <2>1 DEF Forgotten
<1>10. CASE at[a].kind = "revoke"
  <2>1. Tell(a, outcome, fault) /\ UNCHANGED promises
    BY <1>4, <1>5, <1>10 DEF Registered
  <2>2. client' \in Clients
    <3>1. CASE Forgotten(client.revocations)
      BY <1>6, <1>9, <3>1
    <3>2. CASE client' = [client EXCEPT !.revocations =
                              IF outcome.result = "pending" THEN @ \cup {at[a].tx} ELSE @]
      BY <1>2, <1>6, <3>2, FastIdTypes, ClientForms
    <3>. QED  BY <1>4, <1>5, <1>10, <3>1, <3>2 DEF Registered
  <2>. QED  BY <1>8, <2>1, <2>2
<1>11. CASE at[a].kind # "revoke"
  <2>1. \/ Ends(a, outcome, fault)
        \/ /\ Forgotten(client.revocations \ {at[a].tx})
           /\ Tell(a, outcome, fault) /\ UNCHANGED promises
    BY <1>4, <1>5, <1>11 DEF Registered
  <2>2. client.revocations \ {at[a].tx} \in SUBSET Txs
    BY <1>6
  <2>. QED  BY <1>7, <1>8, <1>9, <2>1, <2>2
<1>. QED  BY <1>10, <1>11

\* Sessions, verifications and documents.
LEMMA ServiceStepsTyped ==
  ASSUME Typed, NEW a \in Actors, UNCHANGED machine,
         IssueSession(a) \/ Found(a) \/ RecordVerification(a) \/ Send(a)
  PROVE  Typed'
<1>1. at[a].in = "fastid" /\ account' = account
  BY DEF IssueSession, Found, RecordVerification, Send, In
<1>2. at[a].id \in 1..MaxOps /\ at[a].kind \in Words
  BY <1>1, CallForms
<1>3. CASE IssueSession(a)
  <2>1. Told("session", NoTx) \in Outcomes /\ Told("already", NoTx) \in Outcomes /\ NotPaid(at[a].id) \in Outcomes
    BY <1>2, OutcomeForms DEF Words
  <2>2. PICK o \in Outcomes, fault \in BOOLEAN : Tell(a, o, fault)
    BY <1>3, <2>1 DEF IssueSession
  <2>3. client' \in Clients
    <3>1. {"legacy", "intent"} \subseteq Words
      BY DEF Words
    <3>2. \A protocol \in {"legacy", "intent"} : [client EXCEPT !.session = protocol] \in Clients
      BY <3>1, FastIdTypes, ClientForms
    <3>. QED  BY <1>3, <3>2, FastIdTypes DEF IssueSession
  <2>. QED  BY <1>1, <1>3, <2>2, <2>3, FastIdTypes, GoesOnTyped DEF IssueSession, Tells
<1>4. CASE Found(a)
  <2>1. Finding \subseteq Words \ Proven /\ "failed" \in Words \ Proven /\ "found" \in Words \ {"join", "links"}
    BY DEF Finding, Words, Proven
  <2>2. PICK k \in Words \ Proven, fault \in BOOLEAN : Take(a, [at[a] EXCEPT !.pc = "found", !.kind = k], fault)
    BY <1>4, <2>1 DEF Found
  <2>3. PICK s : s = [at[a] EXCEPT !.pc = "found", !.kind = k]
    OBVIOUS
  <2>4. s \in FastIdSteps
    BY <1>1, <2>1, <2>3, CallForms
  <2>5. service' \in Services
    <3>1. Committed \in Services
      BY FastIdTypes, ServiceForms DEF Committed, Words
    <3>. QED  BY <1>4, <3>1, FastIdTypes DEF Found
  <2>. QED  BY <1>1, <1>4, <2>2, <2>3, <2>4, <2>5, FastIdTypes, GoesOnTyped DEF Found, StepsOn
<1>5. CASE RecordVerification(a)
  <2>1. Told("found", NoTx) \in Outcomes
    BY OutcomeForms DEF Words
  <2>2. client' \in Clients
    BY <1>2, <1>5, FastIdTypes, ClientForms DEF RecordVerification
  <2>. QED  BY <1>1, <1>5, <2>1, <2>2, FastIdTypes, GoesOnTyped DEF RecordVerification, Tells
<1>6. CASE Send(a)
  <2>1. \A r \in {"stored", "refused"} \cup Doubtful(at[a].kind) : Told(r, [NoTx EXCEPT !.id = at[a].id]) \in Outcomes
    <3>1. {"stored", "refused"} \cup Doubtful(at[a].kind) \subseteq Words
      BY DEF Doubtful, Words
    <3>2. at[a].id \in Int
      BY <1>2
    <3>. QED  BY <3>1, <3>2, OutcomeForms
  <2>2. PICK o \in Outcomes, fault \in BOOLEAN : Tell(a, o, fault)
    BY <1>6, <2>1 DEF Send
  <2>3. service' \in Services
    <3>1. service.stored \cup {at[a].id} \in SUBSET Int
      BY <1>2, FastIdTypes DEF Services
    <3>2. [service EXCEPT !.stored = service.stored \cup {at[a].id}] \in Services
      BY <3>1, FastIdTypes, ServiceForms
    <3>. QED  BY <1>6, <3>2, FastIdTypes DEF Send
  <2>. QED  BY <1>1, <1>6, <2>2, <2>3, FastIdTypes, GoesOnTyped DEF Send, Tells
<1>. QED  BY <1>3, <1>4, <1>5, <1>6

\* What the service does by itself.
LEMMA ServiceAloneTyped ==
  ASSUME Typed, UNCHANGED machine, VerifyWebsite \/ ApplyIntent
  PROVE  Typed'
<1>1. service' \in Services
  <2>1. CASE VerifyWebsite
    <3>1. PICK r \in service.rows : service' = [service EXCEPT !.verified = @ \cup {r.id}]
      BY <2>1 DEF VerifyWebsite, Held
    <3>2. service.verified \cup {r.id} \in SUBSET Int
      BY FastIdTypes, OutcomeForms DEF Services
    <3>. QED  BY <3>1, <3>2, FastIdTypes, ServiceForms
  <2>2. CASE ApplyIntent
    BY <2>2, FastIdTypes, ServiceForms DEF ApplyIntent, Words
  <2>. QED  BY <2>1, <2>2
<1>2. UNCHANGED <<activity, account, client, promises, said>>
  BY DEF VerifyWebsite, ApplyIntent
<1>. QED
  BY <1>1, <1>2 DEF Typed, ActivityTyped, Counted, Owing, TypeOK, StoresTypeOK, AgentTypeOK, FilesTypeOK,
       PopupTypeOK, CountsTyped, SoleTyped, sole, FastIdTyped, activity, machine, stores, agent, files, page, Services

-----------------------------------------------------------------------------
\* The machine starts typed.
LEMMA TypedInitially == Init => Typed
<1>. SUFFICES ASSUME Init PROVE Typed
  OBVIOUS
<1>1. ActivityTyped
  BY ActivityBounds DEF Init, ActivityInit, ActivityTyped, Steps
<1>2. Counted
  <2>1. Owing = {}
    BY DEF Init, ActivityInit, Owing, Owes, Idle
  <2>. QED  BY <2>1, FS_EmptySet DEF Counted, Init, ActivityInit, StoresInit, AgentInit
<1>3. TypeOK
  <2>1. StoresTypeOK
    BY ActivityBounds DEF Init, StoresInit, StoresTypeOK
  <2>2. AgentTypeOK
    <3>1. 0 \in 0..MaxOps /\ 0 \in 0..0 /\ 0 \in 0..MaxFailures - 1
      BY ActivityBounds, FailuresAssumption
    <3>2. record = [req |-> 0, state |-> "none", fails |-> 0] /\ issued = 0 /\ expired = 0 /\ crossed = FALSE
      BY DEF Init, AgentInit, NoPending
    <3>3. record \in [req : 0..MaxOps, state : {"none", "pending", "consuming"}, fails : 0..MaxFailures - 1]
      BY <3>1, <3>2
    <3>. QED  BY <3>1, <3>2, <3>3 DEF AgentTypeOK
  <2>3. FilesTypeOK
    BY ActivityBounds, FailuresAssumption DEF Init, FilesInit, FilesTypeOK, NoFile
  <2>4. PopupTypeOK
    BY DEF Init, PageInit, PopupTypeOK
  <2>. QED  BY <2>1, <2>2, <2>3, <2>4 DEF TypeOK
<1>4. CountsTyped
  BY DEF Init, AgentInit, FilesInit, CountsTyped, SoleTyped
<1>5. FastIdTyped
  <2>1. Untold \in Outcomes /\ Before \in Txs
    BY OutcomeForms DEF Untold, Before, Words
  <2>2. client \in Clients
    BY ActivityBounds DEF Init, FastIdInit, Clients, Words
  <2>3. service \in Services /\ service.rows \subseteq {Before}
    BY <2>1 DEF Init, FastIdInit, Services, Words
  <2>4. account \in [nonce : Nat, txs : SUBSET Txs]
    BY <2>1, <2>3 DEF Init, FastIdInit
  <2>5. promises \in [1..MaxOps -> Outcomes] /\ said \in [1..MaxOps -> Outcomes]
    BY <2>1 DEF Init, FastIdInit
  <2>. QED  BY <2>2, <2>3, <2>4, <2>5 DEF FastIdTyped, Clients, Services
<1>. QED  BY <1>1, <1>2, <1>3, <1>4, <1>5 DEF Typed

\* It stays so.
LEMMA TypedStep == Typed /\ [Next]_vars => Typed'
<1>. SUFFICES ASSUME Typed, [Next]_vars PROVE Typed'
  OBVIOUS
<1>1. CASE UNCHANGED vars
  BY <1>1 DEF vars, Typed, ActivityTyped, Counted, Owing, TypeOK, StoresTypeOK, AgentTypeOK, FilesTypeOK,
       PopupTypeOK, CountsTyped, SoleTyped, sole, FastIdTyped, activity, machine, stores, agent, files, page, fastid
<1>2. CASE Machine /\ UNCHANGED fastid
  <2>1. ASSUME NEW a \in Actors, StoresNext(a), UNCHANGED <<agent, files, page>>  PROVE Typed'
    BY <1>2, <2>1, StoresBegin, StoresRead, StoresAdd, StoresWrite DEF StoresNext
  <2>2. ASSUME NEW a \in Actors, AgentNext(a), UNCHANGED <<stores, files, page>>  PROVE Typed'
    BY <1>2, <2>2, AgentTyped
  <2>3. ASSUME NEW a \in Actors, AuthorizeNext(a), UNCHANGED <<stores, page>>  PROVE Typed'
    BY <1>2, <2>3, AuthorizeTyped
  <2>4. ASSUME NEW a \in Actors, PopupNext(a), UNCHANGED <<stores, agent, files>>  PROVE Typed'
    BY <1>2, <2>4, PopupTyped
  <2>. QED  BY <1>2, <2>1, <2>2, <2>3, <2>4, ExpireTyped, DisconnectTyped DEF Machine
<1>3. CASE FastIdNext /\ UNCHANGED machine
  <2>1. ASSUME NEW a \in Actors, CallGoesOn(a)  PROVE Typed'
    BY <1>3, <2>1, ReadStepsTyped, JoinStepsTyped, PaymentStepsTyped, RegisterTyped, ServiceStepsTyped
       DEF CallGoesOn
  <2>. QED  BY <1>3, <2>1, CallStartsTyped, ServiceAloneTyped DEF FastIdNext
<1>. QED  BY <1>1, <1>2, <1>3 DEF Next

\* Every process and every call is where its code can be, and the tables,
\* the file, the agent's record, the page and the client hold what it writes.
THEOREM AlwaysTyped == Spec => []Typed
BY TypedInitially, TypedStep, PTL DEF Spec

\* The tables, the file, the agent's record and the page's slot hold what
\* their code can write there, however many processes run and die.
THEOREM TypesAlwaysOK == Spec => []TypeOK
<1>1. Typed => TypeOK
  BY DEF Typed
<1>. QED  BY <1>1, AlwaysTyped, PTL
-----------------------------------------------------------------------------
(* Two activities that are in progress in one of these parts are both among  *)
(* those that met another one.                                               *)
Shared == {"accounts", "networks", "pending"}
Apart ==
  \A part \in Shared :
    \A a, b \in Actors : a # b /\ at[a].in = part /\ at[b].in = part => a \in overlapped

(* A step of some parts leaves the activities of the others as they are, and *)
(* one that met another keeps having met it while it is in progress.         *)
Stays(parts) ==
  /\ \A b \in Actors : at'[b] = at[b] \/ {at[b].in, at'[b].in} \subseteq parts \cup {"none"}
  /\ faults' \in {faults, faults + 1}
  /\ \A b \in Actors : b \in overlapped /\ at[b].in # "none" => b \in overlapped'
  /\ Apart => Apart'
MovesIn(a, parts) ==
  /\ at[a].in \in parts \cup {"none"}
  /\ \E s : /\ at' = [at EXCEPT ![a] = s] /\ s.in \in parts \cup {"none"}
            /\ (s.in \in {at[a].in, "none"} /\ overlapped' = overlapped) \/ Begin(a, s.in, s)
  /\ faults' \in {faults, faults + 1}

LEMMA IdleForm == Idle.in = "none"
BY DEF Idle

\* One actor's step within some parts.
LEMMA MovingStays ==
  ASSUME Typed, NEW a \in Actors, NEW parts, MovesIn(a, parts)
  PROVE  Stays(parts)
<1>1. PICK s : /\ at' = [at EXCEPT ![a] = s] /\ s.in \in parts \cup {"none"}
               /\ (s.in \in {at[a].in, "none"} /\ overlapped' = overlapped) \/ Begin(a, s.in, s)
  BY DEF MovesIn
<1>2. \A b \in Actors : at'[b] = IF b = a THEN s ELSE at[b]
  BY <1>1 DEF Typed, ActivityTyped
<1>3. \A b \in Actors : b \in overlapped /\ at[b].in # "none" => b \in overlapped'
  BY <1>1, IdleForm DEF Begin
<1>4. ASSUME Apart, NEW part \in Shared, NEW b \in Actors, NEW c \in Actors \ {b},
             at'[b].in = part, at'[c].in = part
      PROVE  b \in overlapped'
  <2>1. part # "none"
    BY DEF Shared
  <2>2. CASE s.in \in {at[a].in, "none"} /\ overlapped' = overlapped
    BY <1>2, <1>4, <2>1, <2>2 DEF Apart
  <2>3. CASE Begin(a, s.in, s)
    <3>1. CASE b # a /\ c # a
      <4>1. b \in overlapped /\ at[b].in # "none"
        BY <1>2, <1>4, <2>1, <3>1 DEF Apart
      <4>. QED  BY <1>3, <4>1
    <3>2. CASE b = a \/ c = a
      <4>1. {d \in Actors : at[d].in = s.in} # {} /\ (b # a => at[b].in = s.in)
        BY <1>2, <1>4, <3>2
      <4>. QED  BY <2>3, <3>2, <4>1 DEF Begin
    <3>. QED  BY <3>1, <3>2
  <2>. QED  BY <1>1, <2>2, <2>3
<1>5. Apart => Apart'
  BY <1>4 DEF Apart
<1>. QED  BY <1>1, <1>2, <1>3, <1>5 DEF MovesIn, Stays

\* Taking another step or a word of it leaves an activity in its part.
LEMMA SamePart ==
  ASSUME Typed, NEW a \in Actors
  PROVE  /\ Idle.in = "none"
         /\ \A pc : [at[a] EXCEPT !.pc = pc].in = at[a].in
         /\ at[a].in = "accounts" =>
              \A pc, first : [at[a] EXCEPT !.pc = pc, !.first = first].in = "accounts"
         /\ at[a].in = "pending" => \A pc, fd : [at[a] EXCEPT !.pc = pc, !.fd = fd].in = "pending"
         /\ at[a].in = "fastid" =>
              /\ \A pc, tx : [at[a] EXCEPT !.pc = pc, !.tx = tx].in = "fastid"
              /\ \A pc, nonce : [at[a] EXCEPT !.pc = pc, !.nonce = nonce].in = "fastid"
              /\ \A pc, kind : [at[a] EXCEPT !.pc = pc, !.kind = kind].in = "fastid"
<1>1. at[a] \in Steps
  BY DEF Typed, ActivityTyped
<1>2. \A pc : [at[a] EXCEPT !.pc = pc].in = at[a].in
  BY <1>1 DEF Steps, Idle, AccountSteps, NetworkSteps, AgentSteps, FileSteps, PopupSteps, FastIdSteps
<1>. QED
  BY <1>1, <1>2, StepForms DEF Idle, AccountSteps, FileSteps, FastIdSteps

\* The commands on the database.
LEMMA StoresStay ==
  ASSUME Typed, NEW a \in Actors, StoresNext(a)
  PROVE  MovesIn(a, {"accounts", "networks"})
<1>1. /\ \A pc, name : Cmd(pc, name).in = "accounts" /\ Net(pc, name).in = "networks"
      /\ Idle.in = "none"
  BY DEF Cmd, Net, Idle
<1>2. CASE \/ CreateAccount(a) \/ ImportAccount(a) \/ CreateMultiSig(a) \/ SetDefault(a)
           \/ DeleteConfirmed(a) \/ AddNetwork(a) \/ SetDefaultNetwork(a) \/ RemoveNetwork(a)
  <2>1. PICK s, part : Begin(a, part, s) /\ s.in = part /\ part \in {"accounts", "networks"}
    BY <1>1, <1>2 DEF CreateAccount, ImportAccount, CreateMultiSig, SetDefault, DeleteConfirmed, CheckDelete,
                      AddNetwork, SetDefaultNetwork, RemoveNetwork
  <2>. QED  BY <1>1, <2>1 DEF Begin, MovesIn
<1>3. CASE \/ KeyRead(a) \/ CheckExisting(a) \/ CountAccounts(a) \/ Insert(a) \/ MultiSigTransaction(a)
           \/ ClearDefault(a) \/ WriteDefault(a) \/ CheckTotal(a) \/ Delete(a)
           \/ CheckNetworkUsed(a) \/ WriteNetwork(a) \/ StoresDie(a)
  <2>1. at[a].in \in {"accounts", "networks"} /\ overlapped' = overlapped /\ faults' \in {faults, faults + 1}
    BY <1>3 DEF KeyRead, CheckExisting, CountAccounts, Insert, MultiSigTransaction, ClearDefault, WriteDefault,
                CheckTotal, Delete, CheckNetworkUsed, WriteNetwork, StoresDie, Fault, In, Exit, Goto, Go
  <2>2. PICK s : at' = [at EXCEPT ![a] = s] /\ s.in \in {at[a].in, "none"}
    <3>0. at[a] \in AccountSteps \cup NetworkSteps
      BY <2>1, StepForms DEF Typed, ActivityTyped
    <3>1. CASE CheckExisting(a) \/ ClearDefault(a) \/ CheckTotal(a) \/ CheckNetworkUsed(a)
      <4>1. at' = [at EXCEPT ![a] = Idle] \/ \E pc : at' = [at EXCEPT ![a] = [at[a] EXCEPT !.pc = pc]]
        BY <3>1 DEF CheckExisting, ClearDefault, CheckTotal, CheckNetworkUsed, Exit, Goto, Go
      <4>. QED  BY <1>1, <3>0, <4>1 DEF AccountSteps, NetworkSteps
    <3>2. CASE CountAccounts(a)
      <4>1. PICK s : s = [at[a] EXCEPT !.pc = "insert", !.first = (Rows = {})]
        OBVIOUS
      <4>2. at[a] \in AccountSteps
        BY <3>2, StepForms DEF CountAccounts, In, Typed, ActivityTyped
      <4>3. s.in = "accounts"
        BY <4>1, <4>2 DEF AccountSteps
      <4>. QED  BY <3>2, <4>1, <4>3 DEF CountAccounts, In, Go
    <3>3. CASE KeyRead(a)
      BY <1>1, <3>3 DEF KeyRead, Exit, Go, In
    <3>4. CASE \/ Insert(a) \/ MultiSigTransaction(a) \/ WriteDefault(a) \/ Delete(a) \/ WriteNetwork(a)
               \/ StoresDie(a)
      BY <1>1, <3>4 DEF Insert, MultiSigTransaction, WriteDefault, Delete, WriteNetwork, StoresDie, Fault, Exit, Go
    <3>. QED  BY <1>3, <3>1, <3>2, <3>3, <3>4
  <2>. QED  BY <2>1, <2>2 DEF MovesIn
<1>. QED  BY <1>2, <1>3 DEF StoresNext

\* The agent.
LEMMA AgentStays ==
  ASSUME Typed, NEW a \in Actors, AgentNext(a)
  PROVE  Stays({"agent"})
<1>1. \A pc, req, code : Call(pc, req, code).in = "agent"
  BY DEF Call
<1>2. CASE DropExpired(a)
  BY <1>2 DEF DropExpired, activity, Stays, Apart, Shared
<1>3. CASE ~DropExpired(a)
  <2>1. MovesIn(a, {"agent"})
    BY <1>1, <1>3 DEF AgentNext, GenerateAuthRequest, SetPending, DecryptAuthPayload, Opened, Begin, Exit, Go, In,
                      Idle, MovesIn
  <2>. QED  BY <2>1, MovingStays
<1>. QED  BY <1>2, <1>3

\* The commands on the pending request.
LEMMA AuthorizeStays ==
  ASSUME Typed, NEW a \in Actors, AuthorizeNext(a)
  PROVE  Stays({"pending"})
<1>1. \A pc, req, fails, did : Cli(pc, req, fails, did).in = "pending"
  BY DEF Cli
<1>2. CASE ReadExisting(a) \/ ReadPending(a)
  <2>1. PICK s : Begin(a, "pending", s) /\ s.in = "pending"
    BY <1>1, <1>2 DEF ReadExisting, ReadPending
  <2>2. MovesIn(a, {"pending"})
    BY <2>1, IdleForm DEF Begin, MovesIn
  <2>. QED  BY <2>2, MovingStays
<1>3. CASE \/ Generate(a) \/ Malformed(a) \/ Decrypt(a) \/ PrintKey(a) \/ OpenTmp(a) \/ FillTmp(a)
           \/ AuthorizeDies(a)
  <2>1. at[a].in = "pending" /\ overlapped' = overlapped /\ faults' \in {faults, faults + 1}
    BY <1>3 DEF Generate, Malformed, Decrypt, PrintKey, OpenTmp, FillTmp, AuthorizeDies, Fault, Exit, Goto, Go, In
  <2>2. PICK s : at' = [at EXCEPT ![a] = s] /\ s.in \in {"pending", "none"}
    <3>0. at[a] \in FileSteps
      BY <2>1, StepForms DEF Typed, ActivityTyped
    <3>1. CASE Generate(a) \/ Malformed(a) \/ PrintKey(a) \/ AuthorizeDies(a)
      BY <1>1, <3>1, SamePart DEF Generate, Malformed, PrintKey, AuthorizeDies, Fault, Exit, Go
    <3>2. CASE FillTmp(a)
      <4>1. PICK s : s = [at[a] EXCEPT !.pc = "rename"]
        OBVIOUS
      <4>2. s.in = "pending"
        BY <3>0, <4>1 DEF FileSteps
      <4>. QED  BY <3>2, <4>1, <4>2 DEF FillTmp, Goto, Go
    <3>3. CASE OpenTmp(a)
      <4>1. PICK s : s = [at[a] EXCEPT !.pc = "fill", !.fd = "tmp"]
        OBVIOUS
      <4>2. s.in = "pending"
        BY <3>0, <4>1 DEF FileSteps
      <4>. QED  BY <3>3, <4>1, <4>2 DEF OpenTmp, Go
    <3>4. CASE Decrypt(a)
      <4>1. \/ \E pc : Goto(a, pc)
            \/ \E pc, r, fails : Go(a, Cli(pc, r, fails, "try"))
        BY <3>4 DEF Decrypt
      <4>. QED  BY <1>1, <3>0, <4>1 DEF Goto, Go, FileSteps
    <3>. QED  BY <1>3, <3>1, <3>2, <3>3, <3>4
  <2>3. MovesIn(a, {"pending"})
    BY <2>1, <2>2 DEF MovesIn
  <2>. QED  BY <2>3, MovingStays
<1>4. CASE Replace(a) \/ Unlink(a) \/ RenameTmp(a)
  <2>1. at[a].in = "pending" /\ overlapped' = overlapped /\ faults' \in {faults, faults + 1}
    BY <1>4 DEF Replace, Unlink, Unlinked, RenameTmp, Exit, Go, In
  <2>2. at'[a].in \in {"pending", "none"}
    <3>1. at[a] \in FileSteps
      BY <2>1, StepForms DEF Typed, ActivityTyped
    <3>2. CASE Replace(a)
      BY <3>1, <3>2 DEF Replace, Unlinked, FileSteps
    <3>3. CASE Unlink(a) \/ RenameTmp(a)
      BY <3>3 DEF Unlink, Unlinked, RenameTmp, Exit, Go, Idle, Typed, ActivityTyped
    <3>. QED  BY <1>4, <3>2, <3>3
  <2>3. \A b \in Actors : b # a => at'[b] = at[b] \/ (at[b].in = "pending" /\ at'[b].in = "pending")
    <3>. SUFFICES ASSUME NEW b \in Actors, b # a
                  PROVE  at'[b] = at[b] \/ (at[b].in = "pending" /\ at'[b].in = "pending")
      OBVIOUS
    <3>1. \/ at'[b] = at[b]
          \/ at[b].in = "pending" /\ \E fd : at'[b] = [at[b] EXCEPT !.fd = fd]
      <4>1. CASE \E next : Unlinked(a, next)
        BY <4>1 DEF Unlinked, In
      <4>2. CASE RenameTmp(a)
        <5>1. at' = [at EXCEPT ![a] = Idle] => at'[b] = at[b]
          BY DEF Typed, ActivityTyped
        <5>2. \/ at' = [at EXCEPT ![a] = Idle]
              \/ at'[b] = IF In(b, "pending", "fill") THEN [at[b] EXCEPT !.fd = IF @ = "tmp" THEN "file" ELSE "none"]
                          ELSE at[b]
          BY <4>2 DEF RenameTmp, Exit, Go
        <5>. QED  BY <5>1, <5>2 DEF In
      <4>. QED  BY <1>4, <4>1, <4>2 DEF Replace, Unlink
    <3>2. at[b].in = "pending" => at[b] \in FileSteps
      BY StepForms DEF Typed, ActivityTyped
    <3>3. CASE at'[b] # at[b]
      <4>1. PICK fd : at'[b] = [at[b] EXCEPT !.fd = fd]
        BY <3>1, <3>3
      <4>2. at[b] \in FileSteps
        BY <3>1, <3>2, <3>3
      <4>. QED  BY <4>1, <4>2 DEF FileSteps
    <3>. QED  BY <3>3
  <2>. QED  BY <2>1, <2>2, <2>3 DEF Stays, Apart, Shared
<1>. QED  BY <1>2, <1>3, <1>4 DEF AuthorizeNext

\* The page.
LEMMA PopupStays ==
  ASSUME Typed, NEW a \in Actors, PopupNext(a)
  PROVE  Stays({"popup"})
<1>1. \A kind : PopupCall(kind).in = "popup" /\ [PopupCall(kind) EXCEPT !.pc = "settled"].in = "popup"
  BY DEF PopupCall
<1>2. \A b \in Waiting : at[b].in = "popup" /\ [at[b] EXCEPT !.pc = "settled"].in = "popup"
  BY SamePart DEF Waiting, In
<1>3. CASE Sign(a) \/ Connect(a)
  <2>1. PICK s : at' = Superseded([at EXCEPT ![a] = s]) /\ s.in = "popup" /\ at[a] = Idle
    BY <1>1, <1>3 DEF Sign, Connect, Start
  <2>2. overlapped' = overlapped /\ faults' = faults
    BY <1>3 DEF Sign, Connect, Start
  <2>. QED  BY <1>2, <2>1, <2>2 DEF Superseded, Stays, Apart, Shared, Idle, Typed, ActivityTyped
<1>4. CASE Message(a) \/ ClosedPoll(a) \/ Timeout(a)
  <2>1. a \in Waiting /\ \E ok \in BOOLEAN : Finish(a, ok)
    BY <1>4 DEF Message, ClosedPoll, Timeout
  <2>2. \A ok : [at[a] EXCEPT !.pc = "settled", !.ok = ok].in = "popup"
    BY <2>1, StepForms DEF Waiting, In, Typed, ActivityTyped, PopupSteps
  <2>. QED  BY <1>2, <2>1, <2>2 DEF Finish, Stays, Apart, Shared, Typed, ActivityTyped
<1>5. CASE Continue(a)
  BY <1>5, SamePart DEF Continue, In, Exit, Go, Stays, Apart, Shared, Typed, ActivityTyped
<1>6. CASE UserCloses(a)
  BY <1>6 DEF UserCloses, activity, Stays, Apart, Shared
<1>. QED  BY <1>3, <1>4, <1>5, <1>6 DEF PopupNext

\* The calls on the fastid-sdk.
LEMMA FastIdStays ==
  ASSUME Typed, FastIdNext
  PROVE  Stays({"fastid"})
<1>1. ASSUME NEW a \in Actors, CallStarts(a)  PROVE Stays({"fastid"})
  <2>1. \A pc, kind, by : IdCall(pc, kind, by).in = "fastid"
    BY DEF IdCall
  <2>2. CASE \E kind \in Proven : SettleAtOnce(a, kind)
    BY <2>2 DEF SettleAtOnce, Stays, Apart, Shared
  <2>3. CASE ~\E kind \in Proven : SettleAtOnce(a, kind)
    <3>1. PICK s : Begin(a, "fastid", s) /\ s.in = "fastid"
      <4>1. CASE RetryRegistration(a)
        <5>1. PICK tx, s : s = [IdCall("register", "retry", 0) EXCEPT !.tx = tx] /\ Begin(a, "fastid", s)
          BY <4>1 DEF RetryRegistration
        <5>2. s.in = "fastid"
          BY <5>1 DEF IdCall
        <5>. QED  BY <5>1, <5>2
      <4>2. CASE ~RetryRegistration(a)
        BY <1>1, <2>1, <2>3, <4>2
           DEF CallStarts, Settle, StartClaim, StartRevoke, StartXClaim, VerifyPost, StartDocument
      <4>. QED  BY <4>1, <4>2
    <3>2. Begin(a, s.in, s)
      BY <3>1
    <3>3. at' = [at EXCEPT ![a] = s] /\ at[a].in = "none" /\ faults' = faults
      BY <3>1, SamePart DEF Begin
    <3>4. MovesIn(a, {"fastid"})
      BY <3>1, <3>2, <3>3 DEF MovesIn
    <3>. QED  BY <3>4, MovingStays
  <2>. QED  BY <2>2, <2>3
<1>2. ASSUME NEW a \in Actors, CallGoesOn(a)  PROVE Stays({"fastid"})
  <2>. DEFINE T == /\ \E s : at' = [at EXCEPT ![a] = s] /\ s.in \in {"fastid", "none"}
                  /\ overlapped' = overlapped /\ faults' \in {faults, faults + 1}
  <2>1. at[a].in = "fastid"
    BY <1>2 DEF CallGoesOn, Join, OAuthProof, CommitLegacy, Identity, Availability, PropertyClaimed,
                ClaimTransactionForRevoke, ResolveClaimFee, GetNextNonce, SubmitSignedClaim, Register,
                WaitForWebsite, IssueSession, Found, RecordVerification, ReadFirst, Send, In
  <2>2. at[a] \in FastIdSteps
    BY <2>1, CallForms
  <2>3. ASSUME NEW pc, NEW fault \in BOOLEAN, TakeTo(a, pc, fault)  PROVE T
    <3>1. PICK s : s = [at[a] EXCEPT !.pc = pc]
      OBVIOUS
    <3>2. s.in = "fastid"
      BY <2>2, <3>1 DEF FastIdSteps
    <3>. QED  BY <2>3, <3>1, <3>2 DEF Take, TakeTo
  <2>4. ASSUME NEW outcome, NEW fault \in BOOLEAN, Tell(a, outcome, fault)  PROVE T
    BY <2>4, SamePart DEF Tell, Take
  <2>5. ASSUME NEW outcome, NEW fault \in BOOLEAN, Ends(a, outcome, fault)  PROVE T
    BY <2>3, <2>4, <2>5 DEF Ends
  <2>6. ASSUME NEW outcome, NEW fault \in BOOLEAN, Registered(a, outcome, fault)  PROVE T
    BY <2>4, <2>5, <2>6 DEF Registered
  <2>. SUFFICES T
    <3>1. T => MovesIn(a, {"fastid"})
      BY <2>1 DEF MovesIn
    <3>. QED  BY <3>1, MovingStays
  <2>. HIDE DEF T
  <2>7. CASE \/ Join(a) \/ WaitForWebsite(a) \/ IssueSession(a) \/ RecordVerification(a) \/ Send(a) \/ Register(a)
    BY <2>3, <2>4, <2>6, <2>7 DEF Join, WaitForWebsite, IssueSession, RecordVerification, Send, Register
  <2>8. CASE \/ OAuthProof(a) \/ CommitLegacy(a) \/ Identity(a) \/ Availability(a) \/ PropertyClaimed(a)
             \/ ResolveClaimFee(a) \/ ReadFirst(a)
    BY <2>3, <2>5, <2>8 DEF OAuthProof, CommitLegacy, Identity, Availability, PropertyClaimed,
                            ResolveClaimFee, ReadFirst, Unpaid
  <2>9. CASE ClaimTransactionForRevoke(a)
    <3>1. CASE \E fault \in BOOLEAN : Unpaid(a, fault)
      BY <2>5, <3>1 DEF Unpaid
    <3>2. CASE \E r, s : \E fault \in BOOLEAN : s = [at[a] EXCEPT !.pc = "fee", !.tx = r] /\ Take(a, s, fault)
      <4>1. PICK r, s : \E fault \in BOOLEAN : s = [at[a] EXCEPT !.pc = "fee", !.tx = r] /\ Take(a, s, fault)
        BY <3>2
      <4>2. s.in = "fastid"
        BY <2>2, <4>1 DEF FastIdSteps
      <4>. QED  BY <4>1, <4>2 DEF T, Take
    <3>. QED  BY <2>9, <3>1, <3>2 DEF ClaimTransactionForRevoke
  <2>10. CASE GetNextNonce(a)
    <3>1. CASE Unpaid(a, TRUE)
      BY <2>5, <3>1 DEF Unpaid
    <3>2. CASE Take(a, [at[a] EXCEPT !.pc = "submit", !.nonce = account.nonce], FALSE)
      <4>1. PICK s : s = [at[a] EXCEPT !.pc = "submit", !.nonce = account.nonce]
        OBVIOUS
      <4>2. s.in = "fastid"
        BY <2>2, <4>1 DEF FastIdSteps
      <4>. QED  BY <3>2, <4>1, <4>2 DEF T, Take
    <3>. QED  BY <2>10, <3>1, <3>2 DEF GetNextNonce
  <2>11. CASE SubmitSignedClaim(a)
    <3>1. PICK tx : tx = BuiltClaim(at[a])
      OBVIOUS
    <3>2. CASE \/ \E outcome : Ends(a, outcome, TRUE)
               \/ \E fault \in BOOLEAN : Unpaid(a, fault)
      BY <2>5, <3>2 DEF Unpaid
    <3>3. CASE Take(a, [at[a] EXCEPT !.pc = "register", !.tx = tx], FALSE)
      <4>1. PICK s : s = [at[a] EXCEPT !.pc = "register", !.tx = tx]
        OBVIOUS
      <4>2. s.in = "fastid"
        BY <2>2, <4>1 DEF FastIdSteps
      <4>. QED  BY <3>3, <4>1, <4>2 DEF T, Take
    <3>. QED  BY <2>11, <3>1, <3>2, <3>3 DEF SubmitSignedClaim
  <2>12. CASE Found(a)
    <3>1. PICK k, s : \E fault \in BOOLEAN : s = [at[a] EXCEPT !.pc = "found", !.kind = k] /\ Take(a, s, fault)
      BY <2>12 DEF Found
    <3>2. s.in = "fastid"
      BY <2>2, <3>1 DEF FastIdSteps
    <3>. QED  BY <3>1, <3>2 DEF T, Take
  <2>. QED  BY <1>2, <2>7, <2>8, <2>9, <2>10, <2>11, <2>12 DEF CallGoesOn
<1>3. CASE VerifyWebsite \/ ApplyIntent
  BY <1>3 DEF VerifyWebsite, ApplyIntent, activity, Stays, Apart, Shared
<1>. QED  BY <1>1, <1>2, <1>3 DEF FastIdNext

\* Every step is one of a part that leaves the others alone.
LEMMA NextByPart ==
  ASSUME Typed, [Next]_vars
  PROVE  \/ Stays({"fastid"}) /\ UNCHANGED machine
         \/ /\ \E a \in Actors : StoresNext(a)
            /\ Stays({"accounts", "networks"}) /\ UNCHANGED <<agent, files, page>>
         \/ (\E a \in Actors : AgentNext(a)) /\ Stays({"agent"}) /\ UNCHANGED <<stores, files, page>>
         \/ (\E a \in Actors : AuthorizeNext(a)) /\ Stays({"pending"}) /\ UNCHANGED <<stores, page>>
         \/ (\E a \in Actors : PopupNext(a)) /\ Stays({"popup"}) /\ UNCHANGED <<stores, agent, files>>
         \/ Expire /\ Stays({"agent"}) /\ UNCHANGED <<stores, files, page>>
         \/ Disconnect /\ Stays({"popup"}) /\ UNCHANGED <<stores, agent, files>>
<1>1. CASE UNCHANGED vars
  BY <1>1 DEF vars, activity, Stays, Apart, Shared
<1>2. CASE FastIdNext /\ UNCHANGED machine
  BY <1>2, FastIdStays
<1>3. CASE \E a \in Actors : StoresNext(a) /\ UNCHANGED <<agent, files, page>>
  BY <1>3, StoresStay, MovingStays
<1>4. CASE \E a \in Actors : AgentNext(a) /\ UNCHANGED <<stores, files, page>>
  BY <1>4, AgentStays
<1>5. CASE \E a \in Actors : AuthorizeNext(a) /\ UNCHANGED <<stores, page>>
  BY <1>5, AuthorizeStays
<1>6. CASE \E a \in Actors : PopupNext(a) /\ UNCHANGED <<stores, agent, files>>
  BY <1>6, PopupStays
<1>7. CASE Expire /\ UNCHANGED <<stores, files, page>>
  BY <1>7 DEF Expire, activity, Stays, Apart, Shared
<1>8. CASE Disconnect /\ UNCHANGED <<stores, agent, files>>
  BY <1>8 DEF Disconnect, activity, Stays, Apart, Shared
<1>. QED  BY <1>1, <1>2, <1>3, <1>4, <1>5, <1>6, <1>7, <1>8 DEF Next, Machine
-----------------------------------------------------------------------------
\* A step that leaves the page's calls alone leaves those that wait the same.
LEMMA WaitingStays ==
  ASSUME Typed, NEW parts, Stays(parts), "popup" \notin parts
  PROVE  Waiting' = Waiting
BY DEF Stays, Waiting, In

\* Starting a call makes it the one in flight, or none.
LEMMA StartKeepsOne ==
  ASSUME Typed, NoOrphanCall, NEW a \in Actors, NEW kind, NEW opened \in BOOLEAN, Start(a, kind, opened)
  PROVE  NoOrphanCall'
<1>1. Waiting \subseteq {inFlight} /\ a \notin Waiting
  BY DEF NoOrphanCall, Start, Waiting, In, Idle
<1>2. \A b \in Actors \ {a} : ~In(b, "popup", "waiting")'
  <2>. SUFFICES ASSUME NEW b \in Actors, b # a  PROVE ~In(b, "popup", "waiting")'
    OBVIOUS
  <2>1. CASE b \in Waiting
    <3>1. PICK s : s = [at[b] EXCEPT !.pc = "settled"]
      OBVIOUS
    <3>2. at[b] \in PopupSteps
      BY <2>1, StepForms DEF Waiting, In, Typed, ActivityTyped
    <3>3. at'[b] = s /\ s.pc = "settled"
      BY <1>1, <2>1, <3>1, <3>2 DEF Start, Superseded, PopupSteps
    <3>. QED  BY <3>3 DEF In
  <2>2. CASE b \notin Waiting
    <3>1. at'[b] = at[b]
      BY <2>2 DEF Start, Superseded, Typed, ActivityTyped
    <3>. QED  BY <2>2, <3>1 DEF Waiting, In
  <2>. QED  BY <2>1, <2>2
<1>3. at'[a] = IF opened THEN PopupCall(kind) ELSE [PopupCall(kind) EXCEPT !.pc = "settled"]
  BY <1>1 DEF Start, Superseded, Typed, ActivityTyped
<1>4. In(a, "popup", "waiting")' <=> opened
  BY <1>3 DEF In, PopupCall
<1>5. inFlight' = IF opened THEN a ELSE NoCall
  BY DEF Start
<1>. QED  BY <1>2, <1>4, <1>5, NoCallAssumption DEF NoOrphanCall, Waiting

\* Each step of the page.
LEMMA PopupKeepsOne ==
  ASSUME Typed, NoOrphanCall, NEW a \in Actors, PopupNext(a)
  PROVE  NoOrphanCall'
<1>1. CASE Sign(a) \/ Connect(a)
  BY <1>1, StartKeepsOne DEF Sign, Connect
<1>2. CASE Message(a) \/ ClosedPoll(a) \/ Timeout(a)
  <2>1. PICK ok \in BOOLEAN : a \in Waiting /\ Finish(a, ok)
    BY <1>2 DEF Message, ClosedPoll, Timeout
  <2>2. inFlight = a /\ Waiting = {a} /\ inFlight' = NoCall
    BY <2>1 DEF NoOrphanCall, Finish
  <2>3. PICK s : s = [[at[a] EXCEPT !.pc = "settled"] EXCEPT !.ok = ok]
    OBVIOUS
  <2>4. at' = [at EXCEPT ![a] = s]
    BY <2>1, <2>3 DEF Finish, Typed, ActivityTyped
  <2>5. s.pc = "settled"
    <3>1. at[a] \in PopupSteps
      BY <2>1, StepForms DEF Waiting, In, Typed, ActivityTyped
    <3>. QED  BY <2>3, <3>1 DEF PopupSteps
  <2>6. Waiting' = {}
    BY <2>2, <2>4, <2>5 DEF Waiting, In, Typed, ActivityTyped
  <2>. QED  BY <2>2, <2>6 DEF NoOrphanCall
<1>3. CASE Continue(a)
  <2>1. at' = [at EXCEPT ![a] = Idle] /\ inFlight' = inFlight /\ In(a, "popup", "settled")
    BY <1>3 DEF Continue, Exit, Go
  <2>2. Waiting' = Waiting
    BY <2>1 DEF Waiting, In, Idle, Typed, ActivityTyped
  <2>. QED  BY <2>1, <2>2 DEF NoOrphanCall
<1>4. CASE UserCloses(a)
  BY <1>4 DEF UserCloses, activity, NoOrphanCall, Waiting, In
<1>. QED  BY <1>1, <1>2, <1>3, <1>4 DEF PopupNext

\* However the calls of a page supersede each other, fail to open and settle,
\* the one in flight is the one that has not settled.
THEOREM NoOrphanCallAlways == Spec => []NoOrphanCall
<1>1. Init => NoOrphanCall
  BY DEF Init, ActivityInit, PageInit, NoOrphanCall, Waiting, In, Idle
<1>2. Typed /\ NoOrphanCall /\ [Next]_vars => NoOrphanCall'
  <2>. SUFFICES ASSUME Typed, NoOrphanCall, [Next]_vars PROVE NoOrphanCall'
    OBVIOUS
  <2>1. CASE (\E a \in Actors : PopupNext(a))
    BY <2>1, PopupKeepsOne
  <2>2. CASE Disconnect
    BY <2>2 DEF Disconnect, activity, NoOrphanCall, Waiting, In
  <2>3. CASE \E parts : Stays(parts) /\ "popup" \notin parts /\ inFlight' = inFlight
    BY <2>3, WaitingStays DEF NoOrphanCall
  <2>. QED
    BY <2>1, <2>2, <2>3, NextByPart DEF machine, page
<1>. QED  BY <1>1, <1>2, AlwaysTyped, PTL DEF Spec

-----------------------------------------------------------------------------
\* A step of the account and network commands does one of these to the tables.
LEMMA RowsWritten ==
  ASSUME Typed, Typed', NEW a \in Actors, StoresNext(a)
  PROVE  \/ UNCHANGED <<accounts, reported>>
         \/ /\ at[a].name \in Names /\ (Insert(a) \/ MultiSigTransaction(a))
            /\ accounts[at[a].name] = NoRow /\ keys' = keys + 1 /\ keys' \in 1..MaxOps
            /\ reported' = [reported EXCEPT ![at[a].name] = keys']
            /\ accounts'[at[a].name] \in AccountRows /\ accounts'[at[a].name] # NoRow
            /\ accounts'[at[a].name].key = keys'
            /\ \A m \in Names \ {at[a].name} :
                 \/ accounts'[m] = accounts[m]
                 \/ accounts[m] # NoRow /\ accounts'[m] = [accounts[m] EXCEPT !.isDefault = FALSE]
         \/ /\ ClearDefault(a) \/ WriteDefault(a)
            /\ reported' = reported
            /\ \A m \in Names :
                 \/ accounts'[m] = accounts[m]
                 \/ accounts[m] # NoRow /\ \E b \in BOOLEAN : accounts'[m] = [accounts[m] EXCEPT !.isDefault = b]
         \/ /\ Delete(a) /\ at[a].name \in Names
            /\ accounts' = [accounts EXCEPT ![at[a].name] = NoRow]
            /\ reported' = [reported EXCEPT ![at[a].name] = 0]
<1>0. /\ accounts = [n \in Names |-> accounts[n]] /\ \A n \in Names : accounts[n] \in AccountRows
      /\ keys \in 0..MaxOps /\ keys' \in 0..MaxOps
  BY StoresByRow DEF Typed, TypeOK
<1>1. at[a].in = "accounts" => at[a] \in AccountSteps
  BY StepForms DEF Typed, ActivityTyped
<1>2. CASE Insert(a) \/ MultiSigTransaction(a)
  <2>1. at[a].name \in Names
    BY <1>1, <1>2 DEF Insert, MultiSigTransaction, In, AccountSteps
  <2>2. CASE UNCHANGED stores
    BY <2>2 DEF stores
  <2>3. CASE accounts[at[a].name] = NoRow /\ ~UNCHANGED stores
    <3>1. keys' = keys + 1 /\ reported' = [reported EXCEPT ![at[a].name] = keys']
      BY <1>2, <2>3 DEF Insert, MultiSigTransaction
    <3>2. keys' \in 1..MaxOps
      BY <1>0, <3>1, ActivityBounds
    <3>3. CASE Insert(a)
      <4>1. accounts' = [accounts EXCEPT ![at[a].name] = Single(keys', at[a].first)]
        BY <2>3, <3>3 DEF Insert
      <4>2. at[a].first \in BOOLEAN
        BY <1>1, <3>3 DEF Insert, In, AccountSteps
      <4>3. /\ accounts'[at[a].name] = Single(keys', at[a].first)
            /\ \A m \in Names \ {at[a].name} : accounts'[m] = accounts[m]
        BY <1>0, <2>1, <4>1
      <4>. QED  BY <2>1, <2>3, <3>1, <3>2, <3>3, <4>2, <4>3, RowForms
    <3>4. CASE MultiSigTransaction(a)
      <4>1. PICK b \in BOOLEAN : accounts' =
              [m \in Names |->
                 IF m = at[a].name THEN Multisig(keys', Rows = {} \/ b)
                 ELSE IF m \in Rows /\ b THEN [accounts[m] EXCEPT !.isDefault = FALSE]
                 ELSE accounts[m]]
        BY <2>3, <3>4 DEF MultiSigTransaction
      <4>2. /\ accounts'[at[a].name] = Multisig(keys', Rows = {} \/ b)
            /\ \A m \in Names \ {at[a].name} :
                 \/ accounts'[m] = accounts[m]
                 \/ accounts[m] # NoRow /\ accounts'[m] = [accounts[m] EXCEPT !.isDefault = FALSE]
        BY <2>1, <4>1 DEF Rows
      <4>3. PICK c \in BOOLEAN : Multisig(keys', Rows = {} \/ b) = Multisig(keys', c)
        OBVIOUS
      <4>4. /\ accounts'[at[a].name] \in AccountRows /\ accounts'[at[a].name] # NoRow
            /\ accounts'[at[a].name].key = keys'
        BY <3>2, <4>2, <4>3, RowForms
      <4>. QED  BY <2>1, <2>3, <3>1, <3>2, <3>4, <4>2, <4>4
    <3>. QED  BY <1>2, <3>3, <3>4
  <2>. QED  BY <1>2, <2>2, <2>3 DEF Insert, MultiSigTransaction
<1>3. CASE ClearDefault(a)
  BY <1>0, <1>3 DEF ClearDefault, Rows
<1>4. CASE WriteDefault(a)
  <2>1. CASE at[a].name \in Rows
    <3>1. PICK r : r = [accounts[at[a].name] EXCEPT !.isDefault = TRUE]
      OBVIOUS
    <3>2. accounts' = [accounts EXCEPT ![at[a].name] = r]
      BY <1>0, <1>4, <2>1, <3>1 DEF WriteDefault, Rows
    <3>. QED  BY <1>0, <1>4, <2>1, <3>1, <3>2 DEF WriteDefault, Rows
  <2>2. CASE at[a].name \notin Rows
    BY <1>4, <2>2 DEF WriteDefault
  <2>. QED  BY <2>1, <2>2
<1>5. CASE Delete(a)
  BY <1>1, <1>5 DEF Delete, In, AccountSteps
<1>6. CASE \/ CreateAccount(a) \/ ImportAccount(a) \/ KeyRead(a) \/ CheckExisting(a) \/ CountAccounts(a)
           \/ CreateMultiSig(a) \/ SetDefault(a) \/ DeleteConfirmed(a) \/ CheckTotal(a)
           \/ AddNetwork(a) \/ SetDefaultNetwork(a) \/ RemoveNetwork(a) \/ CheckNetworkUsed(a) \/ WriteNetwork(a)
           \/ StoresDie(a)
  BY <1>6 DEF CreateAccount, ImportAccount, KeyRead, CheckExisting, CountAccounts, CreateMultiSig, SetDefault,
              DeleteConfirmed, CheckTotal, AddNetwork, SetDefaultNetwork, RemoveNetwork, CheckNetworkUsed,
              WriteNetwork, StoresDie, stores
<1>. QED  BY <1>2, <1>3, <1>4, <1>5, <1>6 DEF StoresNext

\* Whatever other processes took the same automatic name meanwhile, an account
\* that was reported is in the store with its key until a command deletes it.
THEOREM ReportedStoredAlways == Spec => []ReportedStored
<1>1. Init => ReportedStored
  BY DEF Init, StoresInit, ReportedStored
<1>2. Typed /\ Typed' /\ ReportedStored /\ [Next]_vars => ReportedStored'
  <2>. SUFFICES ASSUME Typed, Typed', ReportedStored, [Next]_vars PROVE ReportedStored'
    OBVIOUS
  <2>1. CASE UNCHANGED <<accounts, reported>>
    BY <2>1 DEF ReportedStored
  <2>2. CASE \E a \in Actors : StoresNext(a)
    <3>1. PICK a \in Actors : StoresNext(a)
      BY <2>2
    <3>2. /\ reported \in [Names -> 0..MaxOps] /\ accounts = [n \in Names |-> accounts[n]]
          /\ \A n \in Names : accounts[n] \in AccountRows
      BY StoresByRow DEF Typed, TypeOK
    <3>3. SUFFICES ASSUME NEW n \in Names, reported'[n] # 0
                   PROVE  accounts'[n] # NoRow /\ accounts'[n].key = reported'[n]
      BY DEF ReportedStored
    <3>4. reported'[n] = reported[n] => accounts[n] # NoRow /\ accounts[n].key = reported[n]
      BY <3>3 DEF ReportedStored
    <3>5. \A b \in BOOLEAN : accounts[n] # NoRow /\ accounts'[n] = [accounts[n] EXCEPT !.isDefault = b] =>
                     accounts'[n] # NoRow /\ accounts'[n].key = accounts[n].key
      BY <3>2, RowForms
    <3>. QED  BY <3>1, <3>2, <3>3, <3>4, <3>5, RowsWritten
  <2>. QED  BY <2>1, <2>2, NextByPart DEF machine, stores
<1>. QED  BY <1>1, <1>2, AlwaysTyped, PTL DEF Spec

-----------------------------------------------------------------------------
(* What an account command that has met no other relies on from its checks   *)
(* to its write.                                                             *)
AccountPlan(s) ==
  /\ s.pc = "insert" => (s.first <=> Rows = {})
  /\ s.pc \in {"clear", "set", "total", "delete"} => s.name \in Rows
  /\ s.pc = "set" => Defaults = {}
  /\ s.pc = "delete" => s.name \notin Defaults \/ Rows \subseteq {s.name}

(* The same of a network command.                                            *)
NetworkPlan(s) ==
  /\ s.pc = "default" => s.name \in custom \cup {Bundled}
  /\ s.pc = "remove" => s.name # defaultNetwork

PlansRight ==
  \A a \in Actors \ overlapped :
    /\ at[a].in = "accounts" => AccountPlan(at[a])
    /\ at[a].in = "networks" => NetworkPlan(at[a])

\* What the commands that start plan.
LEMMA StartsPlanned ==
  ASSUME Typed, NEW a \in Actors,
         CreateAccount(a) \/ ImportAccount(a) \/ CreateMultiSig(a) \/ SetDefault(a) \/ DeleteConfirmed(a)
  PROVE  \E s : Begin(a, "accounts", s) /\ AccountPlan(s) /\ accounts' = accounts
<1>1. \A pc, n : Cmd(pc, n).pc = pc /\ Cmd(pc, n).name = n
  BY DEF Cmd
<1>2. CASE CreateAccount(a) \/ ImportAccount(a) \/ CreateMultiSig(a)
  <2>1. PICK pc, n : /\ pc \in {"check", "readKey", "transact"}
                     /\ Begin(a, "accounts", Cmd(pc, n)) /\ UNCHANGED stores
    BY <1>2 DEF CreateAccount, ImportAccount, CreateMultiSig
  <2>. QED  BY <1>1, <2>1 DEF AccountPlan, stores
<1>3. CASE SetDefault(a)
  BY <1>1, <1>3 DEF SetDefault, AccountPlan, stores
<1>4. CASE DeleteConfirmed(a)
  <2>1. PICK n \in Rows : CheckDelete(a, n) /\ UNCHANGED stores
    BY <1>4 DEF DeleteConfirmed
  <2>2. PICK pc \in {"total", "delete"} : Begin(a, "accounts", Cmd(pc, n)) /\ (pc = "delete" => n \notin Defaults)
    BY <2>1 DEF CheckDelete, Defaults
  <2>. QED  BY <1>1, <2>1, <2>2 DEF AccountPlan, stores
<1>. QED  BY <1>2, <1>3, <1>4

(* A command takes a step to s, for which it has what it relies on.          *)
Planned(a, s) ==
  /\ at' = [at EXCEPT ![a] = s] /\ accounts' = accounts
  /\ s.in = "accounts" => AccountPlan(s)

\* What the commands that read plan next.
LEMMA ReadsPlanned ==
  ASSUME Typed, IsFiniteSet(Rows), NEW a \in Actors, at[a].in = "accounts", AccountPlan(at[a]),
         KeyRead(a) \/ CheckExisting(a) \/ CountAccounts(a) \/ CheckTotal(a)
  PROVE  \E s : Planned(a, s)
<1>0. at[a] \in AccountSteps /\ Idle.in # "accounts"
  BY StepForms, SamePart DEF Typed, ActivityTyped
<1>1. CASE KeyRead(a)
  <2>1. PICK n, s : /\ at' = [at EXCEPT ![a] = s] /\ s \in {Idle, Cmd("check", n)}
                    /\ UNCHANGED stores
    BY <1>1 DEF KeyRead, Exit, Go
  <2>2. at[a].pc = "readKey" /\ Cmd("check", n).pc = "check"
    BY <1>1 DEF KeyRead, In, Cmd
  <2>3. Planned(a, s)
    BY <1>0, <2>1, <2>2 DEF Planned, AccountPlan, stores
  <2>. QED  BY <2>3
<1>2. CASE CheckExisting(a)
  <2>1. PICK s : s = [at[a] EXCEPT !.pc = "count"]
    OBVIOUS
  <2>2. s.pc = "count"
    BY <1>0, <2>1 DEF AccountSteps
  <2>3. Planned(a, s) \/ Planned(a, Idle)
    BY <1>0, <1>2, <2>1, <2>2 DEF Planned, CheckExisting, Exit, Goto, Go, In, AccountPlan, stores
  <2>. QED  BY <2>3
<1>3. CASE CountAccounts(a)
  <2>1. PICK b \in BOOLEAN : b = (Rows = {})
    OBVIOUS
  <2>2. PICK s : s = [[at[a] EXCEPT !.pc = "insert"] EXCEPT !.first = b]
    OBVIOUS
  <2>3. s.pc = "insert" /\ s.first = b
    BY <1>0, <2>2 DEF AccountSteps
  <2>4. at' = [at EXCEPT ![a] = s] /\ accounts' = accounts /\ at[a].pc = "count"
    BY <1>3, <2>1, <2>2 DEF CountAccounts, Go, In, stores
  <2>5. Planned(a, s)
    BY <2>1, <2>3, <2>4 DEF Planned, AccountPlan
  <2>. QED  BY <2>5
<1>4. CASE CheckTotal(a)
  <2>1. PICK s : s = [at[a] EXCEPT !.pc = "delete"]
    OBVIOUS
  <2>2. s.pc = "delete" /\ s.name = at[a].name
    BY <1>0, <2>1 DEF AccountSteps
  <2>3. at[a].name \in Rows /\ at[a].pc = "total"
    BY <1>4 DEF CheckTotal, In, AccountPlan
  <2>4. Cardinality(Rows) <= 1 => Rows \subseteq {at[a].name}
    BY <2>3, FS_Singleton, FS_CardinalityType, FS_EmptySet
  <2>5. Cardinality(Rows) \in Nat
    BY FS_CardinalityType
  <2>6. Cardinality(Rows) <= 1 => Planned(a, s)
    <3>1. Cardinality(Rows) <= 1 => at' = [at EXCEPT ![a] = s]
      BY <1>4, <2>1, <2>5 DEF CheckTotal, Goto, Go
    <3>2. Cardinality(Rows) <= 1 => AccountPlan(s)
      BY <2>2, <2>3, <2>4 DEF AccountPlan
    <3>. QED  BY <1>4, <2>2, <2>3, <3>1, <3>2 DEF Planned, CheckTotal, stores
  <2>7. Cardinality(Rows) > 1 => Planned(a, Idle)
    BY <1>0, <1>4, <2>3 DEF Planned, CheckTotal, Exit, Go, stores
  <2>. QED  BY <2>5, <2>6, <2>7
<1>. QED  BY <1>1, <1>2, <1>3, <1>4

\* What a command that has met no other does to the default accounts.
LEMMA DefaultAdded ==
  ASSUME Typed, Typed', NEW a \in Actors, at[a].in = "accounts", AccountPlan(at[a]),
         Insert(a) \/ MultiSigTransaction(a)
  PROVE  \/ accounts' = accounts
         \/ Defaults' = {at[a].name}
         \/ Defaults' = Defaults /\ Rows # {}
<1>0. at[a] \in AccountSteps /\ at[a].name \in Names /\ at[a].pc \in {"insert", "transact"}
  BY StepForms DEF Typed, ActivityTyped, AccountSteps, Insert, MultiSigTransaction, In
<1>1. CASE UNCHANGED stores
  BY <1>1 DEF stores
<1>2. CASE ~UNCHANGED stores
  <2>. DEFINE n == at[a].name
  <2>1. accounts[n] = NoRow /\ keys' \in 1..MaxOps
    <3>1. keys \in 0..MaxOps /\ keys' \in 0..MaxOps
      BY DEF Typed, TypeOK, StoresTypeOK
    <3>2. accounts[n] = NoRow /\ keys' = keys + 1
      BY <1>2 DEF Insert, MultiSigTransaction
    <3>. QED  BY <3>1, <3>2, ActivityBounds
  <2>2. PICK d \in BOOLEAN :
          /\ Rows = {} => d
          /\ accounts'[n] # NoRow /\ accounts'[n].isDefault = d
          /\ \A m \in Names \ {n} :
               \/ d /\ accounts[m] # NoRow /\ accounts'[m] # NoRow /\ accounts'[m].isDefault = FALSE
               \/ d /\ accounts[m] = NoRow /\ accounts'[m] = NoRow
               \/ ~d /\ accounts'[m] = accounts[m]
    <3>0. accounts = [m \in Names |-> accounts[m]] /\ \A m \in Names : accounts[m] \in AccountRows
      BY StoresByRow DEF Typed, TypeOK
    <3>1. CASE Insert(a)
      <4>1. accounts' = [accounts EXCEPT ![n] = Single(keys', at[a].first)]
        BY <1>2, <3>1 DEF Insert
      <4>2. at[a].first \in BOOLEAN /\ (at[a].first <=> Rows = {})
        BY <1>0, <3>1 DEF Insert, In, AccountSteps, AccountPlan
      <4>3. accounts'[n] = Single(keys', at[a].first) /\ \A m \in Names \ {n} : accounts'[m] = accounts[m]
        BY <1>0, <3>0, <4>1
      <4>4. accounts'[n] # NoRow /\ accounts'[n].isDefault = at[a].first
        BY <2>1, <4>2, <4>3, RowForms
      <4>. QED  BY <4>2, <4>3, <4>4 DEF Rows
    <3>2. CASE MultiSigTransaction(a)
      <4>1. PICK b \in BOOLEAN : accounts' =
              [m \in Names |->
                 IF m = n THEN Multisig(keys', Rows = {} \/ b)
                 ELSE IF m \in Rows /\ b THEN [accounts[m] EXCEPT !.isDefault = FALSE]
                 ELSE accounts[m]]
        BY <1>2, <3>2 DEF MultiSigTransaction
      <4>2. PICK d \in BOOLEAN : (d <=> Rows = {} \/ b) /\ Multisig(keys', Rows = {} \/ b) = Multisig(keys', d)
        OBVIOUS
      <4>3. accounts'[n] # NoRow /\ accounts'[n].isDefault = d
        BY <1>0, <2>1, <4>1, <4>2, RowForms
      <4>4. ASSUME NEW m \in Names \ {n}
            PROVE  \/ b /\ accounts[m] # NoRow /\ accounts'[m] # NoRow /\ accounts'[m].isDefault = FALSE
                   \/ accounts[m] = NoRow /\ accounts'[m] = NoRow
                   \/ ~b /\ accounts'[m] = accounts[m]
        BY <3>0, <4>1, RowForms DEF Rows
      <4>. QED  BY <4>2, <4>3, <4>4 DEF Rows
    <3>. QED  BY <3>1, <3>2
  <2>3. CASE d
    BY <1>0, <2>2, <2>3 DEF Defaults, Rows
  <2>4. CASE ~d
    <3>1. Defaults' = Defaults
      BY <1>0, <2>1, <2>2, <2>4 DEF Defaults, Rows
    <3>. QED  BY <2>2, <2>4, <3>1
  <2>. QED  BY <2>3, <2>4
<1>. QED  BY <1>1, <1>2

\* The first update of setDefault leaves no default account.
LEMMA DefaultCleared ==
  ASSUME Typed, NEW a \in Actors, ClearDefault(a)
  PROVE  Rows' = Rows /\ Defaults' = {}
<1>1. accounts = [m \in Names |-> accounts[m]] /\ \A m \in Names : accounts[m] \in AccountRows
  BY StoresByRow DEF Typed, TypeOK
<1>2. \A m \in Names : \/ accounts[m] = NoRow /\ accounts'[m] = NoRow
                       \/ accounts[m] # NoRow /\ accounts'[m] # NoRow /\ accounts'[m].isDefault = FALSE
  BY <1>1, RowForms DEF ClearDefault, Rows
<1>. QED  BY <1>2 DEF Rows, Defaults

\* The second one makes the account the only one.
LEMMA DefaultWritten ==
  ASSUME Typed, NEW a \in Actors, at[a].in = "accounts", AccountPlan(at[a]), WriteDefault(a)
  PROVE  Defaults' = {at[a].name}
<1>0. at[a] \in AccountSteps /\ at[a].name \in Names
  BY StepForms DEF Typed, ActivityTyped, AccountSteps, WriteDefault, In
<1>1. accounts = [m \in Names |-> accounts[m]] /\ \A m \in Names : accounts[m] \in AccountRows
  BY StoresByRow DEF Typed, TypeOK
<1>2. at[a].name \in Rows /\ Defaults = {}
  BY DEF AccountPlan, WriteDefault, In
<1>3. PICK r : r = [accounts[at[a].name] EXCEPT !.isDefault = TRUE]
  OBVIOUS
<1>4. r # NoRow /\ r.isDefault = TRUE
  BY <1>1, <1>2, <1>3, RowForms DEF Rows
<1>5. accounts' = [accounts EXCEPT ![at[a].name] = r]
  BY <1>1, <1>2, <1>3 DEF WriteDefault, Rows
<1>. QED  BY <1>0, <1>1, <1>2, <1>4, <1>5 DEF Rows, Defaults

\* A deletion takes a default account away only with the last row.
LEMMA DefaultDeleted ==
  ASSUME Typed, NEW a \in Actors, at[a].in = "accounts", AccountPlan(at[a]), Delete(a)
  PROVE  Rows # {} /\ (Defaults' = Defaults \/ (Rows' = {} /\ Defaults' = {}))
<1>0. /\ at[a].name \in Rows /\ (at[a].name \notin Defaults \/ Rows \subseteq {at[a].name})
      /\ accounts' = [accounts EXCEPT ![at[a].name] = NoRow]
  BY DEF Delete, In, AccountPlan
<1>1. accounts = [m \in Names |-> accounts[m]]
  BY StoresByRow DEF Typed, TypeOK
<1>2. Rows' = Rows \ {at[a].name} /\ Defaults' = Defaults \ {at[a].name}
  BY <1>0, <1>1 DEF Rows, Defaults
<1>. QED  BY <1>0, <1>2 DEF Defaults

\* The store stays finite.
LEMMA RowsStayFinite ==
  ASSUME Typed, Typed', IsFiniteSet(Rows), [Next]_vars
  PROVE  IsFiniteSet(Rows)'
<1>1. PICK n : Rows' \subseteq Rows \cup {n}
  <2>1. CASE accounts' = accounts
    BY <2>1 DEF Rows
  <2>2. CASE \E a \in Actors : StoresNext(a)
    <3>1. PICK a \in Actors : StoresNext(a)
      BY <2>2
    <3>2. accounts = [m \in Names |-> accounts[m]]
      BY StoresByRow DEF Typed, TypeOK
    <3>3. Rows' \subseteq Rows \cup {at[a].name}
      BY <3>1, <3>2, RowsWritten DEF Rows
    <3>. QED  BY <3>3
  <2>. QED  BY <2>1, <2>2, NextByPart DEF machine, stores
<1>2. IsFiniteSet(Rows \cup {n})
  BY FS_AddElement
<1>. QED  BY <1>1, <1>2, FS_Subset

\* A command that writes the accounts is then somewhere else.
LEMMA WriterMoves ==
  ASSUME Typed, NEW a \in Actors, StoresNext(a), accounts' # accounts
  PROVE  at'[a] # at[a]
<1>1. \A s : at' = [at EXCEPT ![a] = s] => at'[a] = s
  BY DEF Typed, ActivityTyped
<1>2. CASE Insert(a) \/ MultiSigTransaction(a) \/ WriteDefault(a) \/ Delete(a)
  BY <1>1, <1>2, IdleForm DEF Insert, MultiSigTransaction, WriteDefault, Delete, In, Exit, Go
<1>3. CASE ClearDefault(a)
  <2>1. at[a] \in AccountSteps /\ at[a].pc = "clear"
    BY <1>3, StepForms DEF ClearDefault, In, Typed, ActivityTyped
  <2>2. PICK s : s = [at[a] EXCEPT !.pc = "set"]
    OBVIOUS
  <2>3. s.pc = "set"
    BY <2>1, <2>2 DEF AccountSteps
  <2>. QED  BY <1>1, <1>3, <2>1, <2>2, <2>3 DEF ClearDefault, Goto, Go
<1>. QED
  BY <1>2, <1>3
     DEF StoresNext, CreateAccount, ImportAccount, KeyRead, CheckExisting, CountAccounts, CreateMultiSig, SetDefault,
         DeleteConfirmed, CheckTotal, AddNetwork, SetDefaultNetwork, RemoveNetwork, CheckNetworkUsed, WriteNetwork,
         StoresDie, stores

\* The step an account command takes to its next state of the plan.
LEMMA AccountGoesOn ==
  ASSUME Typed, IsFiniteSet(Rows), NEW a \in Actors, StoresNext(a), at'[a].in = "accounts",
         at[a].in = "accounts" => AccountPlan(at[a])
  PROVE  AccountPlan(at[a])'
<1>0. \A s : at' = [at EXCEPT ![a] = s] => at'[a] = s
  BY DEF Typed, ActivityTyped
<1>1. ASSUME NEW s, Planned(a, s)  PROVE AccountPlan(at[a])'
  <2>1. Rows' = Rows /\ Defaults' = Defaults /\ at'[a] = s
    BY <1>0, <1>1 DEF Planned, Rows, Defaults
  <2>. QED  BY <1>1, <2>1 DEF Planned, AccountPlan
<1>2. CASE CreateAccount(a) \/ ImportAccount(a) \/ CreateMultiSig(a) \/ SetDefault(a) \/ DeleteConfirmed(a)
  BY <1>1, <1>2, StartsPlanned DEF Planned, Begin
<1>3. CASE KeyRead(a) \/ CheckExisting(a) \/ CountAccounts(a) \/ CheckTotal(a)
  BY <1>1, <1>3, ReadsPlanned DEF KeyRead, CheckExisting, CountAccounts, CheckTotal, In
<1>4. CASE ClearDefault(a)
  <2>1. at[a] \in AccountSteps /\ at[a].name \in Rows /\ at[a].in = "accounts"
    BY <1>4, StepForms DEF ClearDefault, In, AccountPlan, Typed, ActivityTyped
  <2>2. PICK s : s = [at[a] EXCEPT !.pc = "set"]
    OBVIOUS
  <2>3. s.pc = "set" /\ s.name = at[a].name
    BY <2>1, <2>2 DEF AccountSteps
  <2>4. at'[a] = s
    BY <1>0, <1>4, <2>2 DEF ClearDefault, Goto, Go
  <2>. QED  BY <1>4, <2>1, <2>3, <2>4, DefaultCleared DEF AccountPlan
<1>5. CASE \/ Insert(a) \/ MultiSigTransaction(a) \/ WriteDefault(a) \/ Delete(a) \/ WriteNetwork(a) \/ StoresDie(a)
  BY <1>0, <1>5, IdleForm DEF Insert, MultiSigTransaction, WriteDefault, Delete, WriteNetwork, StoresDie, Fault, Exit, Go
<1>6. CASE AddNetwork(a) \/ SetDefaultNetwork(a) \/ RemoveNetwork(a)
  <2>1. \A pc, n : Net(pc, n).in = "networks"
    BY DEF Net
  <2>. QED  BY <1>0, <1>6, <2>1 DEF AddNetwork, SetDefaultNetwork, RemoveNetwork, Begin
<1>7. CASE CheckNetworkUsed(a)
  <2>1. PICK s : s = [at[a] EXCEPT !.pc = "remove"]
    OBVIOUS
  <2>2. s.in = "networks"
    BY <1>7, <2>1, SamePart DEF CheckNetworkUsed, In
  <2>3. at'[a] \in {Idle, s}
    BY <1>0, <1>7, <2>1 DEF CheckNetworkUsed, Exit, Goto, Go
  <2>. QED  BY <2>2, <2>3, IdleForm
<1>. QED  BY <1>2, <1>3, <1>4, <1>5, <1>6, <1>7 DEF StoresNext

\* The same of a network command.
LEMMA NetworkGoesOn ==
  ASSUME Typed, NEW a \in Actors, StoresNext(a), at'[a].in = "networks",
         at[a].in = "networks" => NetworkPlan(at[a])
  PROVE  NetworkPlan(at[a])'
<1>0. \A s : at' = [at EXCEPT ![a] = s] => at'[a] = s
  BY DEF Typed, ActivityTyped
<1>1. CASE AddNetwork(a) \/ SetDefaultNetwork(a) \/ RemoveNetwork(a)
  <2>1. PICK pc, n :
          /\ pc \in {"add", "default", "used"}
          /\ Begin(a, "networks", Net(pc, n)) /\ UNCHANGED stores
          /\ pc = "default" => n \in custom \cup {Bundled}
    BY <1>1 DEF AddNetwork, SetDefaultNetwork, RemoveNetwork
  <2>2. at'[a] = Net(pc, n) /\ Net(pc, n).pc = pc /\ Net(pc, n).name = n
    BY <1>0, <2>1 DEF Begin, Net
  <2>. QED  BY <2>1, <2>2 DEF NetworkPlan, stores
<1>2. CASE CheckNetworkUsed(a)
  <2>1. at[a] \in NetworkSteps
    BY <1>2, StepForms DEF CheckNetworkUsed, In, Typed, ActivityTyped
  <2>2. PICK s : s = [at[a] EXCEPT !.pc = "remove"]
    OBVIOUS
  <2>3. s.pc = "remove" /\ s.name = at[a].name
    BY <2>1, <2>2 DEF NetworkSteps
  <2>4. at'[a] = s /\ defaultNetwork # at[a].name /\ UNCHANGED stores
    BY <1>0, <1>2, <2>2, IdleForm DEF CheckNetworkUsed, Exit, Goto, Go
  <2>. QED  BY <2>3, <2>4 DEF NetworkPlan, stores
<1>3. CASE ~(AddNetwork(a) \/ SetDefaultNetwork(a) \/ RemoveNetwork(a) \/ CheckNetworkUsed(a))
  <2>1. \A pc, n : Cmd(pc, n).in = "accounts"
    BY DEF Cmd
  <2>2. /\ at[a].in = "accounts" => \A pc : [at[a] EXCEPT !.pc = pc].in = "accounts"
        /\ at[a].in = "accounts" => \A pc, first : [at[a] EXCEPT !.pc = pc, !.first = first].in = "accounts"
    BY SamePart
  <2>3. CASE CreateAccount(a) \/ ImportAccount(a) \/ CreateMultiSig(a) \/ SetDefault(a) \/ DeleteConfirmed(a)
    BY <1>0, <2>1, <2>3
       DEF CreateAccount, ImportAccount, CreateMultiSig, SetDefault, DeleteConfirmed, CheckDelete, Begin
  <2>4. CASE KeyRead(a) \/ CheckExisting(a) \/ CountAccounts(a) \/ CheckTotal(a) \/ ClearDefault(a)
    <3>1. CASE CountAccounts(a)
      <4>1. PICK first : at' = [at EXCEPT ![a] = [at[a] EXCEPT !.pc = "insert", !.first = first]]
        BY <3>1 DEF CountAccounts, Go
      <4>. QED  BY <1>0, <2>2, <3>1, <4>1 DEF CountAccounts, In
    <3>2. CASE KeyRead(a)
      BY <1>0, <2>1, <3>2, IdleForm DEF KeyRead, Exit, Go
    <3>3. CASE CheckExisting(a) \/ CheckTotal(a) \/ ClearDefault(a)
      <4>1. PICK pc, s : s = [at[a] EXCEPT !.pc = pc] /\ at'[a] \in {Idle, s}
        BY <1>0, <3>3 DEF CheckExisting, CheckTotal, ClearDefault, Exit, Goto, Go
      <4>2. s.in = "accounts"
        BY <2>2, <3>3, <4>1 DEF CheckExisting, CheckTotal, ClearDefault, In
      <4>. QED  BY <4>1, <4>2, IdleForm
    <3>. QED  BY <2>4, <3>1, <3>2, <3>3
  <2>5. CASE \/ Insert(a) \/ MultiSigTransaction(a) \/ WriteDefault(a) \/ Delete(a) \/ WriteNetwork(a) \/ StoresDie(a)
    BY <1>0, <2>5, IdleForm
       DEF Insert, MultiSigTransaction, WriteDefault, Delete, WriteNetwork, StoresDie, Fault, Exit, Go
  <2>. QED  BY <1>3, <2>3, <2>4, <2>5 DEF StoresNext
<1>. QED  BY <1>1, <1>2, <1>3

\* Only a command of its part writes a table.
LEMMA WritesOwnPart ==
  ASSUME NEW a \in Actors, StoresNext(a)
  PROVE  /\ at[a].in # "accounts" => accounts' = accounts
         /\ at[a].in # "networks" => UNCHANGED <<custom, defaultNetwork>>
<1>1. CASE \/ CreateAccount(a) \/ ImportAccount(a) \/ KeyRead(a) \/ CheckExisting(a) \/ CountAccounts(a)
           \/ CreateMultiSig(a) \/ SetDefault(a) \/ DeleteConfirmed(a) \/ CheckTotal(a)
           \/ AddNetwork(a) \/ SetDefaultNetwork(a) \/ RemoveNetwork(a) \/ CheckNetworkUsed(a) \/ StoresDie(a)
  BY <1>1 DEF CreateAccount, ImportAccount, KeyRead, CheckExisting, CountAccounts, CreateMultiSig, SetDefault,
              DeleteConfirmed, CheckTotal, AddNetwork, SetDefaultNetwork, RemoveNetwork, CheckNetworkUsed,
              StoresDie, stores
<1>2. CASE Insert(a) \/ MultiSigTransaction(a) \/ ClearDefault(a) \/ WriteDefault(a) \/ Delete(a) \/ WriteNetwork(a)
  BY <1>2 DEF Insert, MultiSigTransaction, ClearDefault, WriteDefault, Delete, WriteNetwork, stores, In
<1>. QED  BY <1>1, <1>2 DEF StoresNext

\* A command that has met no other keeps what it relies on, whoever moves.
LEMMA PlansRightStep ==
  ASSUME Typed, Typed', Apart, IsFiniteSet(Rows), PlansRight, [Next]_vars
  PROVE  PlansRight'
<1>. SUFFICES ASSUME NEW b \in Actors, b \notin overlapped', at'[b].in \in {"accounts", "networks"}
              PROVE  /\ at'[b].in = "accounts" => AccountPlan(at[b])'
                     /\ at'[b].in = "networks" => NetworkPlan(at[b])'
  BY DEF PlansRight
<1>1. ASSUME UNCHANGED stores, at'[b] = at[b], b \notin overlapped
      PROVE  /\ at'[b].in = "accounts" => AccountPlan(at[b])'
             /\ at'[b].in = "networks" => NetworkPlan(at[b])'
  BY <1>1 DEF PlansRight, AccountPlan, NetworkPlan, stores, Rows, Defaults
<1>2. ASSUME NEW parts, Stays(parts), at'[b] = at[b]  PROVE b \notin overlapped
  BY <1>2 DEF Stays
<1>3. CASE \E parts : Stays(parts) /\ {"accounts", "networks"} \cap parts = {} /\ UNCHANGED stores
  <2>1. at'[b] = at[b]
    BY <1>3 DEF Stays
  <2>. QED  BY <1>1, <1>2, <1>3, <2>1
<1>4. ASSUME NEW a \in Actors, StoresNext(a)
      PROVE  /\ at'[b].in = "accounts" => AccountPlan(at[b])'
             /\ at'[b].in = "networks" => NetworkPlan(at[b])'
  <2>0. MovesIn(a, {"accounts", "networks"}) /\ Stays({"accounts", "networks"})
    BY <1>4, StoresStay, MovingStays
  <2>1. CASE b = a
    <3>1. at[a].in # "none" => a \notin overlapped
      BY <2>0, <2>1 DEF Stays
    <3>2. /\ at[a].in = "accounts" => AccountPlan(at[a])
          /\ at[a].in = "networks" => NetworkPlan(at[a])
      BY <3>1 DEF PlansRight
    <3>. QED  BY <1>4, <2>1, <3>2, AccountGoesOn, NetworkGoesOn
  <2>2. CASE b # a
    <3>1. at'[b] = at[b]
      BY <2>0, <2>2 DEF MovesIn, Typed, ActivityTyped
    <3>2. b \notin overlapped
      BY <1>2, <2>0, <3>1
    <3>3. at[a].in # at[b].in
      BY <2>2, <3>1, <3>2 DEF Apart, Shared
    <3>4. /\ at[b].in = "accounts" => accounts' = accounts
          /\ at[b].in = "networks" => UNCHANGED <<custom, defaultNetwork>>
      BY <1>4, <3>3, WritesOwnPart
    <3>. QED  BY <3>1, <3>2, <3>4 DEF PlansRight, AccountPlan, NetworkPlan, Rows, Defaults
  <2>. QED  BY <2>1, <2>2
<1>. QED  BY <1>3, <1>4, NextByPart DEF machine

\* The step of a command that has met no other leaves the defaults right.
LEMMA DefaultsMoved ==
  ASSUME Typed, Typed', NEW a \in Actors, StoresNext(a), at[a].in = "accounts", AccountPlan(at[a])
  PROVE  \/ accounts' = accounts
         \/ Defaults' = {at[a].name}
         \/ Defaults' = Defaults /\ Rows # {}
         \/ Defaults' = {} /\ (Rows' = {} \/ In(a, "accounts", "clear"))
<1>1. CASE Insert(a) \/ MultiSigTransaction(a)
  BY <1>1, DefaultAdded
<1>2. CASE ClearDefault(a)
  BY <1>2, DefaultCleared DEF ClearDefault
<1>3. CASE WriteDefault(a)
  BY <1>3, DefaultWritten
<1>4. CASE Delete(a)
  BY <1>4, DefaultDeleted
<1>. QED  BY <1>1, <1>2, <1>3, <1>4, RowsWritten

\* There come to be two default accounts, none though there are accounts, or a
\* default network that does not exist, only by a command that another one of
\* its kind had met, or, for none, between the two updates of set-default; and
\* a set-default that has met none leaves its account as the only default.
THEOREM DefaultsAlwaysResolve == Spec => DefaultsResolve
<1>. DEFINE Inv == Apart /\ IsFiniteSet(Rows) /\ PlansRight
<1>1. Init => Inv
  <2>. SUFFICES ASSUME Init PROVE Inv
    OBVIOUS
  <2>1. Rows = {} /\ \A a \in Actors : at[a].in = "none"
    BY DEF Init, ActivityInit, StoresInit, Rows, Idle
  <2>. QED  BY <2>1, FS_EmptySet DEF Apart, Shared, PlansRight
<1>2. Typed /\ Typed' /\ Inv /\ [Next]_vars => Inv'
  <2>1. Typed /\ Apart /\ [Next]_vars => Apart'
    BY NextByPart DEF Stays
  <2>. QED  BY <2>1, RowsStayFinite, PlansRightStep
<1>. DEFINE
  One == Cardinality(Defaults) <= 1 /\ Cardinality(Defaults') > 1 => Meddles("accounts")
  Some == (Rows = {} \/ Defaults # {}) /\ Rows' # {} /\ Defaults' = {}
            => Meddles("accounts") \/ \E a \in Actors : In(a, "accounts", "clear") /\ at'[a] # at[a]
  Set == \A a \in Actors \ overlapped :
           In(a, "accounts", "set") /\ at'[a] # at[a] /\ faults' = faults => Defaults' = {at[a].name}
  Network == defaultNetwork \in custom \cup {Bundled} /\ defaultNetwork' \notin custom' \cup {Bundled}
               => Meddles("networks")
<1>3. ASSUME Typed, Typed', Inv, [Next]_vars  PROVE One /\ Some /\ Set /\ Network
  <2>0. Cardinality(Defaults) \in Nat
    BY <1>3, FS_Subset, FS_CardinalityType DEF Defaults
  <2>1. ASSUME UNCHANGED accounts  PROVE One /\ Some
    <3>1. Rows' = Rows /\ Defaults' = Defaults
      BY <2>1 DEF Rows, Defaults
    <3>. QED  BY <2>0, <3>1
  <2>2. CASE \E parts : Stays(parts) /\ {"accounts", "networks"} \cap parts = {} /\ UNCHANGED stores
    <3>1. Set
      BY <2>2 DEF Stays, In
    <3>. QED  BY <2>1, <2>2, <3>1 DEF stores
  <2>3. ASSUME NEW a \in Actors, StoresNext(a)  PROVE One /\ Some /\ Set /\ Network
    <3>0. MovesIn(a, {"accounts", "networks"})
      BY <1>3, <2>3, StoresStay
    <3>1. ASSUME at[a].in = "accounts", accounts' # accounts, a \in overlapped  PROVE Meddles("accounts")
      <4>1. at'[a] # at[a]
        BY <1>3, <2>3, <3>1, WriterMoves
      <4>. QED  BY <3>1, <4>1 DEF Meddles
    <3>2. ASSUME at[a].in = "accounts", accounts' # accounts, a \notin overlapped  PROVE One /\ Some
      <4>1. \/ Defaults' = {at[a].name}
            \/ Defaults' = Defaults /\ Rows # {}
            \/ Defaults' = {} /\ (Rows' = {} \/ In(a, "accounts", "clear"))
        BY <1>3, <2>3, <3>2, DefaultsMoved DEF PlansRight
      <4>2. Cardinality({at[a].name}) = 1 /\ Cardinality({}) = 0
        BY FS_Singleton, FS_EmptySet
      <4>3. One
        BY <2>0, <4>1, <4>2
      <4>4. at'[a] # at[a]
        BY <1>3, <2>3, <3>2, WriterMoves
      <4>. QED  BY <4>1, <4>3, <4>4
    <3>3. One /\ Some
      <4>1. CASE accounts' = accounts
        BY <2>1, <4>1
      <4>2. CASE accounts' # accounts
        BY <2>3, <3>1, <3>2, <4>2, WritesOwnPart
      <4>. QED  BY <4>1, <4>2
    <3>4. Set
      <4>. SUFFICES ASSUME NEW b \in Actors \ overlapped, In(b, "accounts", "set"), at'[b] # at[b], faults' = faults
                    PROVE  Defaults' = {at[b].name}
        OBVIOUS
      <4>1. b = a
        BY <1>3, <3>0 DEF MovesIn, Typed, ActivityTyped
      <4>2. WriteDefault(a) \/ StoresDie(a)
        BY <2>3, <4>1, IdleForm
           DEF StoresNext, CreateAccount, ImportAccount, KeyRead, CheckExisting, CountAccounts, Insert, CreateMultiSig,
               MultiSigTransaction, SetDefault, ClearDefault, DeleteConfirmed, CheckDelete, CheckTotal, Delete,
               AddNetwork, SetDefaultNetwork, RemoveNetwork, CheckNetworkUsed, WriteNetwork, Begin, In
      <4>3. ~StoresDie(a)
        BY <1>3 DEF StoresDie, Fault, Typed, ActivityTyped
      <4>4. at[a].in = "accounts" /\ AccountPlan(at[a])
        BY <1>3, <4>1 DEF PlansRight, In
      <4>. QED  BY <1>3, <4>1, <4>2, <4>3, <4>4, DefaultWritten
    <3>5. Network
      <4>. SUFFICES ASSUME defaultNetwork \in custom \cup {Bundled}, defaultNetwork' \notin custom' \cup {Bundled}
                    PROVE  Meddles("networks")
        OBVIOUS
      <4>1. WriteNetwork(a) /\ at[a].in = "networks"
        BY <2>3, WritesOwnPart
           DEF StoresNext, CreateAccount, ImportAccount, KeyRead, CheckExisting, CountAccounts, Insert, CreateMultiSig,
               MultiSigTransaction, SetDefault, ClearDefault, WriteDefault, DeleteConfirmed, CheckTotal, Delete,
               AddNetwork, SetDefaultNetwork, RemoveNetwork, CheckNetworkUsed, StoresDie, stores
      <4>2. ~NetworkPlan(at[a])
        BY <4>1 DEF WriteNetwork, NetworkPlan
      <4>3. a \in overlapped
        BY <1>3, <4>1, <4>2 DEF PlansRight
      <4>4. at'[a] # at[a]
        BY <1>3, <4>1, IdleForm DEF WriteNetwork, Exit, Go, Typed, ActivityTyped
      <4>. QED  BY <4>1, <4>3, <4>4 DEF Meddles
    <3>. QED  BY <3>3, <3>4, <3>5
  <2>. QED  BY <1>3, <2>2, <2>3, NextByPart DEF machine
<1>4. Typed /\ Typed' /\ Inv /\ [Next]_vars => [One /\ Some /\ Set /\ Network]_<<activity, stores>>
  BY <1>3
<1>. QED  BY <1>1, <1>2, <1>4, AlwaysTyped, PTL DEF Spec, DefaultsResolve

-----------------------------------------------------------------------------
(* What the agent knows of its requests: a decryption is begun only while the *)
(* record has failures left, and the record counts it, now or later.         *)
Consuming == IF record.state = "consuming" THEN 1 ELSE 0
RequestRight(r) == begun[r] <= MaxFailures /\ (r > issued => begun[r] = 0 /\ released[r] = 0)
RecordRight ==
  /\ record.state = "none" => record.req = 0
  /\ record.state # "none" => record.req \in 1..issued /\ begun[record.req] <= record.fails + Consuming
  /\ \A r \in 1..MaxOps : RequestRight(r)
  /\ \A a \in Opening : at[a].req \in 1..issued

(* As long as none was generated while a decryption was in progress.         *)
OpeningRight(a) ==
  LET r == at[a].req IN
  /\ released[r] = 0
  /\ record = NoPending \/ (record.req = r /\ record.state = "consuming")
OneOpening ==
  ~crossed =>
    /\ \A a, b \in Opening : a = b
    /\ \A a \in Opening : OpeningRight(a)
    /\ \A r \in 1..MaxOps : released[r] <= 1
    /\ record.state # "none" => released[record.req] = 0 /\ begun[record.req] = record.fails + Consuming
AgentRight == RecordRight /\ OneOpening

\* The values that the agent works with.
LEMMA AgentValues ==
  ASSUME Typed
  PROVE  /\ issued \in 0..MaxOps /\ MaxOps \in Nat /\ MaxFailures \in Nat \ {0}
         /\ begun \in [1..MaxOps -> Nat] /\ released \in [1..MaxOps -> Nat]
         /\ record \in [req : 0..MaxOps, state : {"none", "pending", "consuming"}, fails : 0..MaxFailures - 1]
BY ActivityBounds, FailuresAssumption DEF Typed, TypeOK, AgentTypeOK, CountsTyped

\* A request is generated: the pending one is forgotten, then set.
LEMMA RequestsRight ==
  ASSUME Typed, Typed', AgentRight, NEW a \in Actors, GenerateAuthRequest(a) \/ SetPending(a)
  PROVE  AgentRight'
<1>1. UNCHANGED <<begun, released>> /\ (~crossed' => ~crossed /\ Opening = {})
  BY DEF GenerateAuthRequest, SetPending
<1>2. \E s : at' = [at EXCEPT ![a] = s] /\ ~(s.in = "agent" /\ s.pc = "hpkeOpen")
  <2>1. Call("keys", 0, 0).pc = "keys"
    BY DEF Call
  <2>. QED  BY <2>1, IdleForm DEF GenerateAuthRequest, SetPending, Begin, Exit, Go
<1>3. /\ Opening' \subseteq Opening /\ \A b \in Opening' : at'[b] = at[b]
      /\ ~crossed' => Opening' = {}
  BY <1>1, <1>2 DEF Opening, In, Typed, ActivityTyped
<1>4. CASE GenerateAuthRequest(a)
  <2>1. record' = NoPending /\ issued' = issued
    BY <1>4 DEF GenerateAuthRequest
  <2>2. record'.state = "none" /\ record'.req = 0
    BY <2>1 DEF NoPending
  <2>3. RecordRight'
    BY <1>1, <1>3, <2>1, <2>2 DEF AgentRight, RecordRight, RequestRight
  <2>. QED  BY <1>1, <1>3, <2>2, <2>3 DEF AgentRight, OneOpening
<1>5. CASE SetPending(a)
  <2>1. issued' = issued + 1 /\ issued + 1 \in 1..MaxOps /\ issued + 1 > issued /\ issued + 1 \in 1..issued'
    BY <1>5, AgentValues DEF SetPending, Typed, TypeOK, AgentTypeOK
  <2>2. record'.req = issued + 1 /\ record'.state = "pending" /\ record'.fails = 0
    BY <1>5, <2>1 DEF SetPending, Pending
  <2>3. released[issued + 1] = 0 /\ begun[issued + 1] = 0
    BY <2>1 DEF AgentRight, RecordRight, RequestRight
  <2>4. ASSUME NEW r \in 1..MaxOps  PROVE RequestRight(r)'
    <3>1. RequestRight(r)
      BY DEF AgentRight, RecordRight
    <3>2. r > issued' => r > issued
      BY <2>1, AgentValues
    <3>. QED  BY <1>1, <3>1, <3>2 DEF RequestRight
  <2>5. RecordRight'
    <3>1. \A b \in Opening' : at'[b].req \in 1..issued'
      BY <1>3, <2>1, AgentValues DEF AgentRight, RecordRight
    <3>. QED  BY <1>1, <2>1, <2>2, <2>3, <2>4, <3>1 DEF RecordRight, Consuming
  <2>. QED  BY <1>1, <1>3, <2>2, <2>3, <2>5 DEF AgentRight, OneOpening, Consuming
<1>. QED  BY <1>4, <1>5

\* A decryption is begun: the record has failures left.
LEMMA BegunRight ==
  ASSUME Typed, AgentRight, NEW a \in Actors, DecryptAuthPayload(a)
  PROVE  AgentRight'
<1>. DEFINE r == record.req
<1>1. /\ record.state = "pending" /\ UNCHANGED <<issued, released, crossed>>
      /\ record' = [record EXCEPT !.state = "consuming"] /\ begun' = [begun EXCEPT ![r] = @ + 1]
  BY DEF DecryptAuthPayload, Consumable
<1>2. /\ r \in 1..MaxOps /\ r \in 1..issued /\ begun[r] <= record.fails
      /\ record.fails \in 0..MaxFailures - 1 /\ begun[r] \in Nat
  BY <1>1, AgentValues DEF AgentRight, RecordRight, Consuming
<1>3. \A q \in 1..MaxOps : begun'[q] = IF q = r THEN begun[r] + 1 ELSE begun[q]
  BY <1>1, AgentValues
<1>4. record'.req = r /\ record'.state = "consuming" /\ record'.fails = record.fails /\ Consuming' = 1
  BY <1>1, AgentValues DEF Consuming
<1>5. ASSUME NEW q \in 1..MaxOps  PROVE RequestRight(q)'
  BY <1>1, <1>2, <1>3, AgentValues DEF AgentRight, RecordRight, RequestRight
<1>6. PICK s : at' = [at EXCEPT ![a] = s] /\ s.req = r
  <2>1. PICK c : at' = [at EXCEPT ![a] = Call("hpkeOpen", r, c)]
    BY DEF DecryptAuthPayload, Begin
  <2>2. Call("hpkeOpen", r, c).req = r
    BY DEF Call
  <2>. QED  BY <2>1, <2>2
<1>7. at'[a] = s /\ \A b \in Actors \ {a} : at'[b] = at[b]
  BY <1>6 DEF Typed, ActivityTyped
<1>8. RecordRight'
  <2>1. \A b \in Opening' : at'[b].req \in 1..issued'
    BY <1>1, <1>2, <1>6, <1>7 DEF AgentRight, RecordRight, Opening, In
  <2>. QED  BY <1>1, <1>2, <1>3, <1>4, <1>5, <2>1 DEF RecordRight
<1>9. ASSUME ~crossed'  PROVE OneOpening'
  <2>1. /\ Opening = {} /\ released[r] = 0 /\ begun[r] = record.fails
        /\ \A q \in 1..MaxOps : released[q] <= 1
    <3>1. record # NoPending
      BY <1>1 DEF NoPending
    <3>. QED  BY <1>1, <1>2, <1>9, <3>1 DEF AgentRight, OneOpening, OpeningRight, Consuming
  <2>2. Opening' \subseteq {a}
    BY <1>7, <2>1 DEF Opening, In
  <2>3. OpeningRight(a)'
    BY <1>1, <1>2, <1>4, <1>6, <1>7, <2>1 DEF OpeningRight
  <2>. QED  BY <1>1, <1>2, <1>3, <1>4, <2>1, <2>2, <2>3 DEF OneOpening
<1>. QED  BY <1>8, <1>9 DEF AgentRight, OneOpening

\* What a decryption found is applied to the record, whichever it is by then.
LEMMA OpenedRight ==
  ASSUME Typed, AgentRight, NEW a \in Actors, Opened(a)
  PROVE  AgentRight'
<1>0. a \in Opening /\ UNCHANGED <<issued, begun, crossed>>
  BY DEF Opened, Opening
<1>1. PICK r \in 1..MaxOps : r = at[a].req /\ r \in 1..issued
  BY <1>0, AgentValues DEF AgentRight, RecordRight
<1>2. \/ record' = NoPending /\ released' = [released EXCEPT ![r] = @ + 1]
      \/ record' = RecordFailure(record) /\ released' = released
  BY <1>1 DEF Opened
<1>3. \A b \in Actors : at'[b] = IF b = a THEN Idle ELSE at[b]
  BY DEF Opened, Exit, Go, Typed, ActivityTyped
<1>4. Opening' = Opening \ {a} /\ \A b \in Opening' : at'[b] = at[b]
  BY <1>3, IdleForm DEF Opening, In
<1>5. ASSUME NEW q \in 1..MaxOps
      PROVE  RequestRight(q)' /\ released'[q] = IF q = r /\ released' # released THEN released[q] + 1 ELSE released[q]
  <2>1. released'[q] = IF q = r /\ released' # released THEN released[q] + 1 ELSE released[q]
    BY <1>2, AgentValues
  <2>2. RequestRight(q)
    BY DEF AgentRight, RecordRight
  <2>. QED  BY <1>0, <1>1, <2>1, <2>2, AgentValues DEF RequestRight
<1>6. \/ record' = NoPending /\ record'.state = "none" /\ record'.req = 0
      \/ /\ record.state # "none" /\ released' = released
         /\ record'.req = record.req /\ record'.fails = record.fails + 1 /\ record'.state = "pending"
  <2>1. CASE record' = NoPending
    BY <2>1 DEF NoPending
  <2>2. CASE record' # NoPending
    <3>1. /\ record.state # "none" /\ released' = released
          /\ record' = [[record EXCEPT !.fails = @ + 1] EXCEPT !.state = "pending"]
      BY <1>2, <2>2 DEF RecordFailure
    <3>. QED  BY <3>1, AgentValues
  <2>. QED  BY <2>1, <2>2
<1>7. record.state # "none" => record.req \in 1..MaxOps /\ record.req \in 1..issued /\ begun[record.req] <= record.fails + 1
  BY AgentValues DEF AgentRight, RecordRight, Consuming
<1>8. RecordRight'
  <2>1. \A b \in Opening' : at'[b].req \in 1..issued'
    BY <1>0, <1>4 DEF AgentRight, RecordRight
  <2>. QED  BY <1>0, <1>5, <1>6, <1>7, <2>1, AgentValues DEF RecordRight, Consuming
<1>9. ASSUME ~crossed'  PROVE OneOpening'
  <2>1. /\ Opening = {a} /\ released[r] = 0 /\ \A q \in 1..MaxOps : released[q] <= 1
        /\ record = NoPending \/ (record.req = r /\ record.state = "consuming" /\ begun[r] = record.fails + 1)
    <3>1. NoPending.state = "none"
      BY DEF NoPending
    <3>. QED  BY <1>0, <1>1, <1>9, <3>1 DEF AgentRight, OneOpening, OpeningRight, Consuming
  <2>2. Opening' = {}
    BY <1>4, <2>1
  <2>3. \A q \in 1..MaxOps : released'[q] <= 1
    BY <1>5, <2>1
  <2>4. record'.state # "none" => released'[record'.req] = 0 /\ begun'[record'.req] = record'.fails + Consuming'
    <3>1. NoPending.state = "none"
      BY DEF NoPending
    <3>. QED  BY <1>0, <1>1, <1>6, <2>1, <3>1, AgentValues DEF Consuming
  <2>. QED  BY <2>2, <2>3, <2>4 DEF OneOpening
<1>. QED  BY <1>8, <1>9 DEF AgentRight, OneOpening

\* Steps that leave the agent's calls and its record alone, or drop the record.
LEMMA AgentLeftRight ==
  ASSUME Typed, Typed', AgentRight, UNCHANGED <<begun, released, crossed>>,
         record' \in {record, NoPending}, issued' \in {issued, issued + 1},
         Opening' = Opening, \A b \in Opening : at'[b] = at[b]
  PROVE  AgentRight'
<1>1. issued \in Nat /\ issued' \in Nat /\ issued' >= issued /\ \A q \in 1..issued : q \in 1..issued'
  BY AgentValues DEF Typed, TypeOK, AgentTypeOK
<1>2. record' = record \/ (record'.state = "none" /\ record'.req = 0)
  BY DEF NoPending
<1>3. ASSUME NEW q \in 1..MaxOps  PROVE RequestRight(q)'
  BY <1>1 DEF AgentRight, RecordRight, RequestRight
<1>4. RecordRight'
  BY <1>1, <1>2, <1>3 DEF AgentRight, RecordRight, Consuming
<1>5. OneOpening'
  BY <1>2 DEF AgentRight, OneOpening, OpeningRight, Consuming, NoPending
<1>. QED  BY <1>4, <1>5 DEF AgentRight

\* However the calls interleave, a request's key serves no more decryptions than
\* it has failures left, also when a late failure is counted on the request that
\* replaced its own; as long as none is generated during a decryption, one runs
\* at a time, every one is counted, and a request releases its seed once.
THEOREM SeedReleasedOnceAlways == Spec => []SeedReleasedOnce
<1>1. Init => AgentRight
  <2>. SUFFICES ASSUME Init PROVE AgentRight
    OBVIOUS
  <2>1. Opening = {} /\ record.state = "none" /\ record.req = 0
    BY IdleForm DEF Init, ActivityInit, AgentInit, NoPending, Opening, In
  <2>2. \A r \in 1..MaxOps : RequestRight(r) /\ released[r] <= 1
    BY FailuresAssumption DEF Init, AgentInit, RequestRight
  <2>. QED  BY <2>1, <2>2 DEF AgentRight, RecordRight, OneOpening
<1>2. Typed /\ Typed' /\ AgentRight /\ [Next]_vars => AgentRight'
  <2>. SUFFICES ASSUME Typed, Typed', AgentRight, [Next]_vars  PROVE AgentRight'
    OBVIOUS
  <2>1. ASSUME NEW a \in Actors, AgentNext(a)  PROVE AgentRight'
    <3>1. DropExpired(a) => AgentRight'
      BY AgentLeftRight DEF DropExpired, activity, Opening, In
    <3>. QED  BY <2>1, <3>1, RequestsRight, BegunRight, OpenedRight DEF AgentNext
  <2>2. CASE \E parts : /\ Stays(parts) /\ "agent" \notin parts
                        /\ UNCHANGED <<record, begun, released, crossed>> /\ issued' \in {issued, issued + 1}
    <3>1. \A b \in Actors : In(b, "agent", "hpkeOpen") \/ In(b, "agent", "hpkeOpen")' => at'[b] = at[b]
      BY <2>2 DEF Stays, In
    <3>2. Opening' = Opening /\ \A b \in Opening : at'[b] = at[b]
      BY <3>1 DEF Opening, In
    <3>. QED  BY <2>2, <3>2, AgentLeftRight
  <2>3. CASE Expire
    BY <2>3, AgentLeftRight DEF Expire, activity, Opening, In
  <2>4. ASSUME NEW a \in Actors, AuthorizeNext(a)
        PROVE  UNCHANGED <<record, begun, released, crossed>> /\ issued' \in {issued, issued + 1}
    BY <2>4 DEF AuthorizeNext, ReadExisting, Replace, Generate, ReadPending, Malformed, Decrypt, PrintKey,
                Unlink, Unlinked, OpenTmp, FillTmp, RenameTmp, AuthorizeDies, agent
  <2>. QED  BY <2>1, <2>2, <2>3, <2>4, NextByPart DEF machine, agent
<1>3. Typed /\ AgentRight => SeedReleasedOnce
  <2>. SUFFICES ASSUME Typed, AgentRight  PROVE SeedReleasedOnce
    OBVIOUS
  <2>1. \A r \in 1..issued : r \in 1..MaxOps /\ begun[r] <= MaxFailures
    BY AgentValues DEF AgentRight, RecordRight, RequestRight
  <2>2. ASSUME ~crossed  PROVE Cardinality(Opening) <= 1
    <3>1. ASSUME NEW a \in Opening  PROVE Opening = {a}
      BY <2>2 DEF AgentRight, OneOpening
    <3>2. (\A a : Cardinality({a}) = 1) /\ Cardinality({}) = 0
      BY FS_Singleton, FS_EmptySet
    <3>3. CASE Opening # {}
      <4>1. PICK a \in Opening : Opening = {a}
        BY <3>1, <3>3
      <4>2. Cardinality({a}) = 1
        BY FS_Singleton
      <4>. QED  BY <4>1, <4>2
    <3>. QED  BY <3>2, <3>3
  <2>3. ASSUME ~crossed, NEW r \in 1..issued  PROVE released[r] <= 1 /\ (released[r] = 1 => record.req # r)
    BY <2>1, <2>3, AgentValues DEF AgentRight, RecordRight, OneOpening
  <2>. QED  BY <2>1, <2>2, <2>3 DEF SeedReleasedOnce, AgentRight, OneOpening, Consuming
<1>. QED  BY <1>1, <1>2, <1>3, AlwaysTyped, PTL DEF Spec

-----------------------------------------------------------------------------
(* A request and a number of failures of it that a file or a process may     *)
(* hold: it has been tried at least that often, no more often by completes   *)
(* that met no other, and none of these has printed its key.                 *)
Fits(req, fails) ==
  /\ req \in 1..issued
  /\ soleTries[req] <= fails /\ fails <= tries[req] /\ solePrints[req] = 0

(* What every command on the pending request holds.                          *)
Writing(s) == s.pc \in {"open", "fill", "rename"}
Holds(s) ==
  /\ s.req # 0 => Fits(s.req, s.fails)
  /\ s.pc \notin {"replace", "generate"} => s.req # 0
  /\ s.pc \in {"replace", "generate", "message", "print"} => s.did = "none"
  /\ Writing(s) => s.did # "print"

(* What one that has met no other relies on: a request command, that the file *)
(* is free for its fresh key; a complete, that the file has its request and,  *)
(* where it deletes it, why; each, that the temporary file is its own.        *)
FilePlan(s) ==
  /\ s.did = "none" /\ (Writing(s) \/ s.pc \in {"replace", "generate"}) => ~Live(file)
  /\ s.did = "none" /\ Writing(s) => tries[s.req] = 0 /\ printed[s.req] = 0
  /\ s.did = "try" \/ s.pc \in {"message", "print", "unlink"} => file.req = s.req
  /\ s.did = "try" /\ Writing(s) => soleTries[s.req] < s.fails
  /\ s.pc = "unlink" => \/ s.did = "none" /\ s.req <= expired
                        \/ s.did = "print" /\ printed[s.req] > 0
                        \/ s.did = "try" /\ tries[s.req] >= MaxFailures
  /\ s.pc = "fill" => s.fd = "tmp"
  /\ s.pc = "rename" => tmp = [req |-> s.req, fails |-> s.fails]

CountsRight(r) ==
  /\ soleTries[r] <= MaxFailures /\ solePrints[r] <= 1
  /\ r > issued => tries[r] = 0 /\ printed[r] = 0 /\ soleTries[r] = 0 /\ solePrints[r] = 0

AtTmp(a) == at[a].in = "pending" /\ at[a].pc \in {"fill", "rename"}
FileRight ==
  /\ \A r \in 1..MaxOps : CountsRight(r)
  /\ file.req # 0 => Fits(file.req, file.fails)
  /\ \A a \in Actors : AtTmp(a) /\ tmp.req # 0 => Fits(tmp.req, tmp.fails)
  /\ \A a \in Actors : at[a].in = "pending" => Holds(at[a]) /\ (a \notin overlapped => FilePlan(at[a]))

\* The values that the commands on the pending request work with.
LEMMA FileValues ==
  ASSUME Typed
  PROVE  /\ tries \in [1..MaxOps -> Nat] /\ printed \in [1..MaxOps -> Nat]
         /\ soleTries \in [1..MaxOps -> Nat] /\ solePrints \in [1..MaxOps -> Nat]
         /\ issued \in 0..MaxOps /\ expired \in 0..issued /\ MaxOps \in Nat /\ MaxFailures \in Nat \ {0}
         /\ {file.req, tmp.req} \subseteq 0..MaxOps /\ {file.fails, tmp.fails} \subseteq Nat
         /\ file.req # 0 => file.fails <= MaxFailures - 1
         /\ NoFile.req = 0 /\ Torn.req = 0
<1>1. ASSUME NEW f \in {Torn} \cup [req : 0..MaxOps, fails : 0..MaxFailures - 1]
      PROVE  f.req \in 0..MaxOps /\ f.fails \in Nat /\ (f.req # 0 => f.fails <= MaxFailures - 1)
  BY ActivityBounds, FailuresAssumption DEF Torn
<1>2. {file, tmp} \subseteq {Torn} \cup [req : 0..MaxOps, fails : 0..MaxFailures - 1]
  BY DEF Typed, TypeOK, FilesTypeOK
<1>3. issued \in 0..MaxOps /\ expired \in 0..issued
  BY DEF Typed, TypeOK, AgentTypeOK
<1>4. /\ tries \in [1..MaxOps -> Nat] /\ printed \in [1..MaxOps -> Nat]
      /\ soleTries \in [1..MaxOps -> Nat] /\ solePrints \in [1..MaxOps -> Nat]
  BY DEF Typed, CountsTyped, SoleTyped
<1>5. NoFile.req = 0 /\ Torn.req = 0
  BY DEF NoFile, Torn
<1>. QED  BY <1>1, <1>2, <1>3, <1>4, <1>5, ActivityBounds, FailuresAssumption

\* What fits a request keeps fitting it while it is tried and nothing is counted
\* for the completes that met no other.
LEMMA FitsKept ==
  ASSUME Typed, Typed', NEW q, NEW n \in Nat, Fits(q, n), UNCHANGED sole, issued' >= issued,
         \A r \in 1..MaxOps : tries'[r] >= tries[r]
  PROVE  Fits(q, n)'
<1>1. q \in 1..MaxOps /\ q \in 1..issued /\ soleTries[q] <= n /\ n <= tries[q] /\ solePrints[q] = 0
  BY FileValues DEF Fits
<1>2. tries[q] \in Nat /\ tries'[q] \in Nat /\ tries'[q] >= tries[q]
  BY <1>1 DEF Typed, CountsTyped
<1>3. q \in 1..issued'
  BY <1>1, FileValues DEF Typed, TypeOK, AgentTypeOK
<1>. QED  BY <1>1, <1>2, <1>3 DEF Fits, sole

\* What a step of a command on the pending request may count and start.
LEMMA AuthorizeCounts ==
  ASSUME Typed, NEW a \in Actors, AuthorizeNext(a)
  PROVE  /\ \A r \in 1..MaxOps : tries'[r] >= tries[r]
         /\ issued' \in {issued, issued + 1} /\ issued' >= issued /\ expired' = expired
         /\ UNCHANGED <<record, begun, released, crossed>>
<1>1. CASE Decrypt(a)
  <2>1. UNCHANGED agent /\ (tries' = tries \/ \E q : tries' = [tries EXCEPT ![q] = @ + 1])
    BY <1>1 DEF Decrypt
  <2>2. ASSUME NEW r \in 1..MaxOps  PROVE tries'[r] >= tries[r]
    <3>1. tries[r] \in Nat /\ tries'[r] \in {tries[r], tries[r] + 1}
      BY <2>1, FileValues
    <3>. QED  BY <3>1
  <2>. QED  BY <2>1, <2>2, FileValues DEF agent
<1>2. CASE ~Decrypt(a)
  <2>1. tries' = tries
    BY <1>2 DEF AuthorizeNext, ReadExisting, Replace, Generate, ReadPending, Malformed, PrintKey, Unlink, Unlinked,
                OpenTmp, FillTmp, RenameTmp, AuthorizeDies, files
  <2>2. UNCHANGED agent \/ (issued' = issued + 1 /\ UNCHANGED <<expired, record, begun, released, crossed>>)
    BY <1>2 DEF AuthorizeNext, ReadExisting, Replace, Generate, ReadPending, Malformed, PrintKey, Unlink, Unlinked,
                OpenTmp, FillTmp, RenameTmp, AuthorizeDies
  <2>3. ASSUME NEW r \in 1..MaxOps  PROVE tries'[r] >= tries[r]
    <3>1. tries[r] \in Nat
      BY FileValues
    <3>. QED  BY <2>1, <3>1
  <2>. QED  BY <2>2, <2>3, FileValues DEF agent
<1>. QED  BY <1>1, <1>2

\* A step of one command leaves of the others' all but an open file.
LEMMA OthersSteps ==
  ASSUME Typed, NEW a \in Actors, AuthorizeNext(a), NEW b \in Actors, b # a
  PROVE  \/ at'[b] = at[b]
         \/ /\ at[b].in = "pending" /\ at[b].pc = "fill" /\ at'[b].in = "pending"
            /\ at'[b].pc = "fill" /\ at'[b].req = at[b].req /\ at'[b].fails = at[b].fails /\ at'[b].did = at[b].did
<1>1. \/ at'[b] = at[b]
      \/ In(b, "pending", "fill") /\ \E fd : at'[b] = [at[b] EXCEPT !.fd = fd]
  <2>1. CASE \E next : Unlinked(a, next)
    BY <2>1 DEF Unlinked
  <2>2. CASE RenameTmp(a)
    <3>1. at' = [at EXCEPT ![a] = Idle] => at'[b] = at[b]
      BY DEF Typed, ActivityTyped
    <3>2. \/ at' = [at EXCEPT ![a] = Idle]
          \/ at'[b] = IF In(b, "pending", "fill") THEN [at[b] EXCEPT !.fd = IF @ = "tmp" THEN "file" ELSE "none"]
                      ELSE at[b]
      BY <2>2 DEF RenameTmp, Exit, Go
    <3>. QED  BY <3>1, <3>2
  <2>3. CASE ~(Replace(a) \/ Unlink(a) \/ RenameTmp(a))
    <3>1. \E s : at' = [at EXCEPT ![a] = s]
      BY <2>3 DEF AuthorizeNext, ReadExisting, ReadPending, Generate, Malformed, Decrypt, PrintKey, OpenTmp, FillTmp,
                  AuthorizeDies, Begin, Fault, Exit, Goto, Go
    <3>. QED  BY <3>1 DEF Typed, ActivityTyped
  <2>. QED  BY <2>1, <2>2, <2>3 DEF Replace, Unlink
<1>2. at[b].in = "pending" => at[b] \in FileSteps
  BY StepForms DEF Typed, ActivityTyped
<1>. QED  BY <1>1, <1>2 DEF FileSteps, In

\* A command on the pending request is in its part before its step or after it.
LEMMA AuthorizeIn ==
  ASSUME Typed, NEW a \in Actors, AuthorizeNext(a)
  PROVE  at[a].in = "pending" \/ (at[a] = Idle /\ at'[a].in = "pending")
<1>1. CASE ReadExisting(a) \/ ReadPending(a)
  <2>1. PICK pc, r, n : Begin(a, "pending", Cli(pc, r, n, "none"))
    BY <1>1 DEF ReadExisting, ReadPending
  <2>. QED  BY <2>1 DEF Begin, Cli, Typed, ActivityTyped
<1>. QED
  BY <1>1 DEF AuthorizeNext, Replace, Generate, Malformed, Decrypt, PrintKey, Unlink, OpenTmp, FillTmp, RenameTmp,
              AuthorizeDies, In

\* It is enough to look at the file, the temporary file and the actor that moves.
LEMMA FileRightNext ==
  ASSUME Typed, Typed', Apart, FileRight, NEW a \in Actors, AuthorizeNext(a), UNCHANGED sole,
         \A r \in 1..MaxOps : CountsRight(r)',
         file' = file \/ (file'.req # 0 => Fits(file.req, file.fails)'),
         tmp'.req # 0 => Fits(tmp.req, tmp.fails)' \/ (tmp' = tmp /\ ~AtTmp(a)'),
         at'[a].in = "pending" => Holds(at[a])' /\ (a \notin overlapped' => FilePlan(at[a])')
  PROVE  FileRight'
<1>0. Stays({"pending"}) /\ issued' >= issued /\ \A r \in 1..MaxOps : tries'[r] >= tries[r]
  BY AuthorizeStays, AuthorizeCounts
<1>1. file'.req # 0 => Fits(file.req, file.fails)'
  BY <1>0, FitsKept, FileValues DEF FileRight
<1>2. ASSUME NEW b \in Actors, b # a, at'[b].in = "pending"
      PROVE  Holds(at[b])' /\ b \in overlapped' /\ (AtTmp(b)' => AtTmp(b))
  <2>1. /\ at[b].in = "pending" /\ at'[b].pc = at[b].pc /\ at'[b].req = at[b].req /\ at'[b].fails = at[b].fails
        /\ at'[b].did = at[b].did
    BY <1>2, OthersSteps
  <2>2. Holds(at[b]) /\ at[b].fails \in Nat
    BY <2>1, StepForms DEF FileRight, FileSteps, Typed, ActivityTyped
  <2>3. at[b].req # 0 => Fits(at[b].req, at[b].fails)'
    <3>. DEFINE q == at[b].req
                n == at[b].fails
    <3>1. PICK r : \E m \in Nat : r = q /\ m = n
      BY <2>2
    <3>2. PICK m \in Nat : r = q /\ m = n
      BY <3>1
    <3>3. q # 0 => Fits(r, m)'
      BY <1>0, <2>2, <3>2, FitsKept DEF Holds
    <3>. QED  BY <2>1, <3>2, <3>3 DEF Fits
  <2>4. b \in overlapped'
    <3>1. CASE at[a].in = "pending"
      BY <1>0, <1>2, <2>1, <3>1 DEF Apart, Shared, Stays
    <3>2. CASE at[a].in # "pending"
      <4>1. Apart' /\ at'[a].in = "pending"
        BY <1>0, <3>2, AuthorizeIn DEF Stays
      <4>. QED  BY <1>2, <4>1 DEF Apart, Shared
    <3>. QED  BY <3>1, <3>2
  <2>. QED  BY <2>1, <2>2, <2>3, <2>4 DEF Holds, Writing, AtTmp
<1>3. ASSUME NEW b \in Actors, AtTmp(b)', tmp'.req # 0  PROVE Fits(tmp.req, tmp.fails)'
  <2>1. CASE ~Fits(tmp.req, tmp.fails)'
    <3>1. tmp' = tmp /\ b # a
      BY <1>3, <2>1
    <3>2. AtTmp(b)
      BY <1>2, <1>3, <3>1 DEF AtTmp
    <3>3. Fits(tmp.req, tmp.fails) /\ tmp.fails \in Nat
      BY <1>3, <3>1, <3>2, FileValues DEF FileRight
    <3>. QED  BY <1>0, <3>1, <3>3, FitsKept
  <2>. QED  BY <2>1
<1>4. \A b \in Actors : at'[b].in = "pending" => Holds(at[b])' /\ (b \notin overlapped' => FilePlan(at[b])')
  BY <1>2
<1>. QED  BY <1>1, <1>3, <1>4 DEF FileRight

\* The commands that only read, start or end.
LEMMA FileStarts ==
  ASSUME Typed, Typed', Apart, FileRight, NEW a \in Actors,
         ReadExisting(a) \/ ReadPending(a) \/ Malformed(a) \/ AuthorizeDies(a)
  PROVE  FileRight'
<1>0. UNCHANGED <<file, tmp, tries, printed, sole, soleTries, solePrints, issued, expired>> /\ AuthorizeNext(a)
  BY DEF ReadExisting, ReadPending, Malformed, AuthorizeDies, files, sole, agent, AuthorizeNext
<1>1. \A r \in 1..MaxOps : CountsRight(r)'
  BY <1>0 DEF FileRight, CountsRight
<1>2. \A s : at' = [at EXCEPT ![a] = s] => at'[a] = s
  BY DEF Typed, ActivityTyped
<1>3. CASE Malformed(a) \/ AuthorizeDies(a)
  <2>1. at'[a].in # "pending"
    BY <1>2, <1>3, IdleForm DEF Malformed, AuthorizeDies, Exit, Go, Fault
  <2>. QED  BY <1>0, <1>1, <2>1, FileRightNext DEF AtTmp
<1>4. CASE ReadExisting(a)
  <2>1. PICK pc \in {"generate", "replace"} : at'[a] = Cli(pc, 0, 0, "none") /\ ~Live(file)
    BY <1>2, <1>4 DEF ReadExisting, Begin
  <2>2. at'[a].pc = pc /\ at'[a].req = 0 /\ at'[a].did = "none"
    BY <2>1 DEF Cli
  <2>3. Holds(at[a])' /\ FilePlan(at[a])' /\ ~AtTmp(a)'
    BY <1>0, <2>1, <2>2 DEF Holds, FilePlan, Writing, AtTmp, Live
  <2>. QED  BY <1>0, <1>1, <2>3, FileRightNext
<1>5. CASE ReadPending(a)
  <2>1. at'[a] = Cli("message", file.req, file.fails, "none") /\ file.req # 0
    BY <1>2, <1>5 DEF ReadPending, Begin
  <2>2. /\ at'[a].pc = "message" /\ at'[a].req = file.req /\ at'[a].fails = file.fails /\ at'[a].did = "none"
    BY <2>1 DEF Cli
  <2>3. Fits(file.req, file.fails)
    BY <2>1 DEF FileRight
  <2>4. Holds(at[a])' /\ FilePlan(at[a])' /\ ~AtTmp(a)'
    BY <1>0, <2>1, <2>2, <2>3 DEF Holds, FilePlan, Writing, AtTmp, Fits
  <2>. QED  BY <1>0, <1>1, <2>4, FileRightNext
<1>. QED  BY <1>3, <1>4, <1>5

\* An expired request is deleted, and a key generated for the new one.
LEMMA GenerateRight ==
  ASSUME Typed, Typed', Apart, FileRight, NEW a \in Actors, Replace(a) \/ Generate(a)
  PROVE  FileRight'
<1>0. /\ at[a] \in FileSteps /\ at[a].in = "pending" /\ at[a].did = "none" /\ AuthorizeNext(a)
      /\ Holds(at[a]) /\ (a \notin overlapped => FilePlan(at[a])) /\ overlapped' = overlapped
  BY StepForms DEF Replace, Generate, Unlinked, Go, In, Typed, ActivityTyped, FileRight, Holds, AuthorizeNext
<1>1. CASE Replace(a)
  <2>1. PICK s : s = [at[a] EXCEPT !.pc = "generate"]
    OBVIOUS
  <2>2. s.in = "pending" /\ s.pc = "generate" /\ s.req = at[a].req /\ s.fails = at[a].fails /\ s.did = "none"
    BY <1>0, <2>1 DEF FileSteps
  <2>3. at'[a] = s /\ file' = NoFile /\ UNCHANGED <<tmp, tries, printed, issued, expired>>
    BY <1>1, <2>1 DEF Replace, Unlinked, agent
  <2>4. UNCHANGED <<sole, soleTries, solePrints>>
    BY <1>0, <1>1, <2>1, <2>2 DEF Replace, Unlinked, Done, sole
  <2>5. \A r \in 1..MaxOps : CountsRight(r)'
    BY <2>3, <2>4 DEF FileRight, CountsRight
  <2>6. file'.req = 0 /\ ~Live(file)'
    BY <2>3, FileValues DEF Live
  <2>7. Holds(at[a])' /\ FilePlan(at[a])' /\ ~AtTmp(a)'
    BY <1>0, <2>2, <2>3, <2>4, <2>6 DEF Holds, FilePlan, Writing, AtTmp, Fits
  <2>. QED  BY <1>0, <2>3, <2>4, <2>5, <2>6, <2>7, FileRightNext
<1>2. CASE Generate(a)
  <2>0. PICK q : q = issued + 1
    OBVIOUS
  <2>1. /\ at'[a] = Cli("open", q, 0, "none") /\ issued' = q /\ q = issued + 1 /\ at[a].pc = "generate"
        /\ UNCHANGED <<file, tmp, tries, printed, sole, soleTries, solePrints, expired>>
    BY <1>2, <2>0 DEF Generate, Go, files, sole, In, Typed, ActivityTyped
  <2>2. at'[a].pc = "open" /\ at'[a].req = q /\ at'[a].fails = 0 /\ at'[a].did = "none"
    BY <2>1 DEF Cli
  <2>3. q \in 1..MaxOps /\ q > issued /\ q \in 1..issued'
    BY <2>1, FileValues DEF Typed, TypeOK, AgentTypeOK
  <2>4. tries[q] = 0 /\ printed[q] = 0 /\ soleTries[q] = 0 /\ solePrints[q] = 0
    BY <2>3 DEF FileRight, CountsRight
  <2>5. ASSUME NEW r \in 1..MaxOps  PROVE CountsRight(r)'
    <3>1. r > issued' => r > issued
      BY <2>1, FileValues
    <3>. QED  BY <2>1, <3>1 DEF FileRight, CountsRight
  <2>6. Fits(q, 0)'
    BY <2>1, <2>3, <2>4 DEF Fits
  <2>7. Holds(at[a])' /\ ~AtTmp(a)'
    BY <2>2, <2>6 DEF Holds, Writing, AtTmp, Fits
  <2>8. a \notin overlapped' => FilePlan(at[a])'
    BY <1>0, <2>1, <2>2, <2>4 DEF FilePlan, Writing, Live
  <2>. QED  BY <1>0, <2>1, <2>5, <2>7, <2>8, FileRightNext
<1>. QED  BY <1>1, <1>2

\* A complete decrypts, with the request and the failures it read.
LEMMA DecryptRight ==
  ASSUME Typed, Typed', Apart, FileRight, NEW a \in Actors, Decrypt(a)
  PROVE  FileRight'
<1>. PICK r, n : r = at[a].req /\ n = at[a].fails
  OBVIOUS
<1>0. /\ r = at[a].req /\ n = at[a].fails /\ at[a] \in FileSteps /\ at[a].in = "pending" /\ at[a].pc = "message" /\ at[a].did = "none" /\ AuthorizeNext(a)
      /\ Fits(r, n) /\ (a \notin overlapped => file.req = r) /\ overlapped' = overlapped
      /\ UNCHANGED <<file, tmp, printed, sole, soleTries, solePrints, issued, expired>>
  <2>1. In(a, "pending", "message") /\ overlapped' = overlapped /\ AuthorizeNext(a)
    BY DEF Decrypt, Goto, Go, AuthorizeNext
  <2>2. at[a] \in FileSteps /\ Holds(at[a]) /\ (a \notin overlapped => FilePlan(at[a]))
    BY <2>1, StepForms DEF In, Typed, ActivityTyped, FileRight
  <2>. QED  BY <2>1, <2>2 DEF Decrypt, agent, sole, In, Holds, FilePlan
<1>1. /\ r \in 1..MaxOps /\ r \in 1..issued /\ n \in Nat /\ n <= tries[r] /\ tries[r] \in Nat
      /\ soleTries[r] <= n /\ soleTries[r] \in Nat /\ solePrints[r] = 0
  BY <1>0, FileValues DEF Fits, FileSteps
<1>2. PICK rec : rec = [req |-> r, state |-> "pending", fails |-> n]
  OBVIOUS
<1>3. rec.req = r /\ rec.fails = n /\ rec.state = "pending"
  BY <1>2
<1>4. \/ ~Consumable(rec) /\ Goto(a, "unlink") /\ UNCHANGED tries
      \/ Goto(a, "print") /\ UNCHANGED tries
      \/ /\ tries' = [tries EXCEPT ![r] = @ + 1]
         /\ \/ TooMany(rec) /\ Go(a, Cli("unlink", r, n, "try"))
            \/ ~TooMany(rec) /\ Go(a, Cli("open", r, RecordFailure(rec).fails, "try"))
  BY <1>2 DEF Decrypt
<1>5. ASSUME NEW pc \in {"unlink", "print"}, Goto(a, pc)
      PROVE  at'[a].pc = pc /\ at'[a].req = r /\ at'[a].fails = n /\ at'[a].did = "none"
  <2>1. PICK s : s = [at[a] EXCEPT !.pc = pc]
    OBVIOUS
  <2>2. s.pc = pc /\ s.req = r /\ s.fails = n /\ s.did = "none"
    BY <1>0, <2>1 DEF FileSteps
  <2>. QED  BY <1>5, <2>1, <2>2 DEF Goto, Go, Typed, ActivityTyped
<1>6. CASE UNCHANGED tries
  <2>1. PICK pc \in {"unlink", "print"} : Goto(a, pc) /\ (pc = "unlink" => ~Consumable(rec))
    <3>1. tries' # [tries EXCEPT ![r] = @ + 1]
      BY <1>1, <1>6, FileValues
    <3>. QED  BY <1>4, <3>1
  <2>2. \A q \in 1..MaxOps : CountsRight(q)'
    BY <1>0, <1>6 DEF FileRight, CountsRight
  <2>3. Fits(r, n)'
    BY <1>0, <1>6 DEF Fits
  <2>4. Holds(at[a])' /\ ~AtTmp(a)'
    BY <1>1, <1>5, <2>1, <2>3 DEF Holds, Writing, AtTmp, Fits
  <2>5. a \notin overlapped' => FilePlan(at[a])'
    <3>1. pc = "unlink" => r <= expired
      BY <1>1, <1>3, <2>1, FileValues DEF Consumable
    <3>. QED  BY <1>0, <1>5, <2>1, <3>1 DEF FilePlan, Writing
  <2>. QED  BY <1>0, <2>2, <2>4, <2>5, FileRightNext
<1>7. CASE tries' = [tries EXCEPT ![r] = @ + 1]
  <2>1. \A q \in 1..MaxOps : tries'[q] = IF q = r THEN tries[r] + 1 ELSE tries[q]
    BY <1>7, FileValues
  <2>2. ASSUME NEW q \in 1..MaxOps  PROVE CountsRight(q)'
    <3>1. CountsRight(q) /\ (q > issued => q # r)
      BY <1>1, FileValues DEF FileRight
    <3>. QED  BY <1>0, <2>1, <3>1 DEF CountsRight
  <2>3. tries' # tries
    BY <1>1, <2>1
  <2>4. CASE TooMany(rec) /\ Go(a, Cli("unlink", r, n, "try"))
    <3>1. at'[a].pc = "unlink" /\ at'[a].req = r /\ at'[a].fails = n /\ at'[a].did = "try"
      BY <2>4 DEF Go, Cli, Typed, ActivityTyped
    <3>2. Fits(r, n)'
      BY <1>0, <1>1, <2>1 DEF Fits
    <3>3. Holds(at[a])' /\ ~AtTmp(a)'
      BY <1>1, <3>1, <3>2 DEF Holds, Writing, AtTmp, Fits
    <3>4. a \notin overlapped' => FilePlan(at[a])'
      <4>1. tries'[r] >= MaxFailures
        BY <1>1, <1>3, <2>1, <2>4, FileValues DEF TooMany
      <4>. QED  BY <1>0, <3>1, <4>1 DEF FilePlan, Writing
    <3>. QED  BY <1>0, <2>2, <3>3, <3>4, FileRightNext
  <2>5. CASE ~TooMany(rec) /\ Go(a, Cli("open", r, RecordFailure(rec).fails, "try"))
    <3>1. RecordFailure(rec).fails = n + 1
      <4>1. RecordFailure(rec) = [[rec EXCEPT !.fails = @ + 1] EXCEPT !.state = "pending"]
        BY <1>3, <2>5 DEF RecordFailure
      <4>2. RecordFailure(rec) = [req |-> r, state |-> "pending", fails |-> n + 1]
        BY <1>2, <4>1
      <4>. QED  BY <4>2
    <3>2. at'[a].pc = "open" /\ at'[a].req = r /\ at'[a].fails = n + 1 /\ at'[a].did = "try"
      BY <2>5, <3>1 DEF Go, Cli, Typed, ActivityTyped
    <3>3. Fits(r, n + 1)'
      BY <1>0, <1>1, <2>1 DEF Fits
    <3>4. Holds(at[a])' /\ ~AtTmp(a)'
      BY <1>1, <3>2, <3>3 DEF Holds, Writing, AtTmp, Fits
    <3>5. a \notin overlapped' => FilePlan(at[a])'
      BY <1>0, <1>1, <3>2 DEF FilePlan, Writing
    <3>. QED  BY <1>0, <2>2, <3>4, <3>5, FileRightNext
  <2>. QED  BY <1>4, <2>3, <2>4, <2>5
<1>. QED  BY <1>4, <1>6, <1>7

\* A key is printed, or the temporary file opened or written.
LEMMA WritesRight ==
  ASSUME Typed, Typed', Apart, FileRight, NEW a \in Actors, PrintKey(a) \/ OpenTmp(a) \/ FillTmp(a)
  PROVE  FileRight'
<1>. PICK r, n : r = at[a].req /\ n = at[a].fails
  OBVIOUS
<1>0. /\ r = at[a].req /\ n = at[a].fails /\ at[a] \in FileSteps /\ at[a].in = "pending" /\ AuthorizeNext(a)
      /\ Fits(r, n) /\ Holds(at[a]) /\ (a \notin overlapped => FilePlan(at[a])) /\ overlapped' = overlapped
      /\ UNCHANGED <<tries, sole, soleTries, solePrints, issued, expired>>
  <2>1. at[a].in = "pending" /\ at[a].pc \in {"print", "open", "fill"} /\ overlapped' = overlapped
    BY DEF PrintKey, OpenTmp, FillTmp, In, Goto, Go
  <2>2. at[a] \in FileSteps /\ Holds(at[a]) /\ (a \notin overlapped => FilePlan(at[a]))
    BY <2>1, StepForms DEF Typed, ActivityTyped, FileRight
  <2>. QED  BY <2>1, <2>2 DEF PrintKey, OpenTmp, FillTmp, agent, sole, Holds, AuthorizeNext
<1>1. r \in 1..MaxOps /\ r \in 1..issued
  BY <1>0, FileValues DEF Fits
<1>2. Fits(r, n)'
  BY <1>0 DEF Fits
<1>3. CASE PrintKey(a)
  <2>1. /\ at'[a].pc = "unlink" /\ at'[a].req = r /\ at'[a].fails = n /\ at'[a].did = "print"
        /\ printed' = [printed EXCEPT ![r] = @ + 1] /\ UNCHANGED <<file, tmp>> /\ at[a].pc = "print"
    BY <1>0, <1>3 DEF PrintKey, Go, Cli, In, Typed, ActivityTyped
  <2>2. \A q \in 1..MaxOps : printed'[q] = IF q = r THEN printed[r] + 1 ELSE printed[q]
    BY <2>1, FileValues
  <2>3. ASSUME NEW q \in 1..MaxOps  PROVE CountsRight(q)'
    <3>1. CountsRight(q) /\ (q > issued => q # r)
      BY <1>1, FileValues DEF FileRight
    <3>. QED  BY <1>0, <2>2, <3>1 DEF CountsRight
  <2>4. Holds(at[a])' /\ ~AtTmp(a)'
    BY <1>1, <1>2, <2>1 DEF Holds, Writing, AtTmp
  <2>5. a \notin overlapped' => FilePlan(at[a])'
    <3>1. printed[r] \in Nat
      BY <1>1, FileValues
    <3>2. printed'[r] > 0
      BY <1>1, <2>2, <3>1
    <3>. QED  BY <1>0, <2>1, <3>2 DEF FilePlan, Writing
  <2>. QED  BY <1>0, <2>1, <2>3, <2>4, <2>5, FileRightNext
<1>4. CASE OpenTmp(a)
  <2>1. PICK s : s = [[at[a] EXCEPT !.pc = "fill"] EXCEPT !.fd = "tmp"]
    OBVIOUS
  <2>2. s.pc = "fill" /\ s.fd = "tmp" /\ s.req = r /\ s.fails = n /\ s.did = at[a].did
    BY <1>0, <2>1 DEF FileSteps
  <2>3. at'[a] = s /\ tmp'.req = 0 /\ UNCHANGED <<file, printed>> /\ at[a].pc = "open"
    BY <1>4, <2>1, FileValues DEF OpenTmp, Go, In, Typed, ActivityTyped
  <2>4. \A q \in 1..MaxOps : CountsRight(q)'
    BY <1>0, <2>3 DEF FileRight, CountsRight
  <2>5. Holds(at[a])'
    BY <1>0, <1>2, <2>2, <2>3 DEF Holds, Writing
  <2>6. a \notin overlapped' => FilePlan(at[a])'
    BY <1>0, <2>2, <2>3 DEF FilePlan, Writing, Live
  <2>. QED  BY <1>0, <2>3, <2>4, <2>5, <2>6, FileRightNext
<1>5. CASE FillTmp(a)
  <2>1. PICK s : s = [at[a] EXCEPT !.pc = "rename"]
    OBVIOUS
  <2>2. s.pc = "rename" /\ s.req = r /\ s.fails = n /\ s.did = at[a].did
    BY <1>0, <2>1 DEF FileSteps
  <2>3. /\ at'[a] = s /\ printed' = printed /\ at[a].pc = "fill"
        /\ tmp' = (IF at[a].fd = "tmp" THEN [req |-> r, fails |-> n] ELSE tmp)
        /\ file' = (IF at[a].fd = "file" THEN [req |-> r, fails |-> n] ELSE file)
    BY <1>0, <1>5, <2>1 DEF FillTmp, Mine, Goto, Go, In, Typed, ActivityTyped
  <2>4. \A q \in 1..MaxOps : CountsRight(q)'
    BY <1>0, <2>3 DEF FileRight, CountsRight
  <2>5. file' = file \/ (file'.req # 0 => Fits(file.req, file.fails)')
    BY <1>2, <2>3
  <2>6. tmp'.req # 0 => Fits(tmp.req, tmp.fails)'
    <3>1. CASE at[a].fd = "tmp"
      BY <1>2, <2>3, <3>1
    <3>2. CASE at[a].fd # "tmp"
      BY <1>0, <2>3, <3>2 DEF FileRight, AtTmp, Fits
    <3>. QED  BY <3>1, <3>2
  <2>7. Holds(at[a])'
    BY <1>0, <1>2, <2>2, <2>3 DEF Holds, Writing
  <2>8. a \notin overlapped' => FilePlan(at[a])'
    BY <1>0, <2>2, <2>3 DEF FilePlan, Writing, Live
  <2>. QED  BY <1>0, <2>4, <2>5, <2>6, <2>7, <2>8, FileRightNext
<1>. QED  BY <1>3, <1>4, <1>5

\* A command ends: what one that has met no other did is counted, and no other
\* command holds its request.
LEMMA FinishesRight ==
  ASSUME Typed, Typed', Apart, FileRight, NEW a \in Actors, Unlink(a) \/ (RenameTmp(a) /\ tmp # NoFile)
  PROVE  FileRight'
<1>. PICK r, n : r = at[a].req /\ n = at[a].fails
  OBVIOUS
<1>0. /\ r = at[a].req /\ n = at[a].fails /\ at[a] \in FileSteps /\ at[a].in = "pending" /\ AuthorizeNext(a)
      /\ at[a].pc \in {"unlink", "rename"} /\ Fits(r, n)
      /\ Holds(at[a]) /\ (a \notin overlapped => FilePlan(at[a]))
  <2>1. at[a].in = "pending" /\ at[a].pc \in {"unlink", "rename"}
    BY DEF Unlink, RenameTmp, In
  <2>2. at[a] \in FileSteps /\ Holds(at[a]) /\ (a \notin overlapped => FilePlan(at[a]))
    BY <2>1, StepForms DEF Typed, ActivityTyped, FileRight
  <2>. QED  BY <2>1, <2>2 DEF Holds, AuthorizeNext
<1>1. /\ r \in 1..MaxOps /\ r \in 1..issued /\ n \in Nat /\ n <= MaxFailures - 1
      /\ soleTries[r] \in Nat /\ soleTries[r] <= n /\ solePrints[r] = 0
  BY <1>0, FileValues DEF Fits, FileSteps
<1>2. /\ UNCHANGED <<tries, printed, issued, expired, overlapped>> /\ Done(a, at[a].did) /\ at'[a] = Idle
      /\ tmp'.req = 0 \/ tmp' = tmp
      /\ \/ at[a].pc = "unlink" /\ file'.req = 0
         \/ at[a].pc = "rename" /\ file' = tmp /\ (tmp.req # 0 => Fits(tmp.req, tmp.fails))
  BY <1>0, FileValues DEF Unlink, Unlinked, RenameTmp, agent, In, FileRight, AtTmp
<1>3. at'[a].in # "pending" /\ ~AtTmp(a)'
  BY <1>2, IdleForm DEF AtTmp
<1>4. CASE UNCHANGED <<soleTries, solePrints>>
  <2>1. \A q \in 1..MaxOps : CountsRight(q)'
    BY <1>2, <1>4 DEF FileRight, CountsRight
  <2>2. file'.req # 0 => Fits(file.req, file.fails)'
    BY <1>2, <1>4 DEF Fits
  <2>. QED  BY <1>0, <1>2, <1>3, <1>4, <2>1, <2>2, FileRightNext DEF sole
<1>5. CASE ~UNCHANGED <<soleTries, solePrints>>
  <2>1. /\ a \notin overlapped
        /\ \/ /\ at[a].did = "try" /\ solePrints' = solePrints
              /\ \A q \in 1..MaxOps : soleTries'[q] = IF q = r THEN soleTries[r] + 1 ELSE soleTries[q]
           \/ /\ at[a].did = "print" /\ soleTries' = soleTries
              /\ \A q \in 1..MaxOps : solePrints'[q] = IF q = r THEN solePrints[r] + 1 ELSE solePrints[q]
    BY <1>0, <1>2, <1>5, FileValues DEF Done
  <2>2. \A b \in Actors : at'[b].in # "pending"
    <3>1. \A b \in Actors \ {a} : at[b].in # "pending"
      BY <1>0, <2>1 DEF Apart, Shared
    <3>. QED  BY <1>0, <1>3, <3>1, OthersSteps
  <2>3. ASSUME NEW q \in 1..MaxOps  PROVE CountsRight(q)'
    <3>1. CountsRight(q) /\ (q > issued => q # r)
      BY <1>1, FileValues DEF FileRight
    <3>2. CASE q = r
      <4>1. MaxFailures \in Nat
        BY FileValues
      <4>2. soleTries'[r] <= MaxFailures /\ solePrints'[r] <= 1 /\ ~(r > issued)
        <5>1. issued \in Nat
          BY FileValues
        <5>2. soleTries[r] + 1 <= MaxFailures /\ soleTries[r] <= MaxFailures /\ ~(r > issued)
          BY <1>1, <4>1, <5>1
        <5>. QED  BY <1>1, <2>1, <5>2
      <4>. QED  BY <1>2, <3>2, <4>2 DEF CountsRight
    <3>3. CASE q # r
      <4>1. soleTries'[q] = soleTries[q] /\ solePrints'[q] = solePrints[q]
        BY <2>1, <3>3
      <4>. QED  BY <1>2, <3>1, <4>1 DEF CountsRight
    <3>. QED  BY <3>2, <3>3
  <2>4. file'.req # 0 => Fits(file.req, file.fails)'
    <3>. SUFFICES ASSUME file'.req # 0  PROVE Fits(file.req, file.fails)'
      OBVIOUS
    <3>1. at[a].pc = "rename" /\ file' = tmp /\ at[a].did = "try" /\ tmp = [req |-> r, fails |-> n] /\ soleTries[r] < n
      BY <1>0, <1>2, <2>1 DEF Holds, FilePlan, Writing
    <3>2. file'.req = r /\ file'.fails = n /\ solePrints' = solePrints /\ soleTries'[r] = soleTries[r] + 1
      BY <1>1, <2>1, <3>1
    <3>. QED  BY <1>0, <1>1, <1>2, <3>1, <3>2 DEF Fits
  <2>. QED  BY <2>2, <2>3, <2>4 DEF FileRight, AtTmp
<1>. QED  BY <1>4, <1>5

\* The temporary file was renamed by another command: this one fails.
LEMMA RenameFails ==
  ASSUME Typed, Typed', Apart, FileRight, NEW a \in Actors, RenameTmp(a), tmp = NoFile
  PROVE  FileRight'
<1>1. UNCHANGED <<file, tmp, tries, printed, sole, soleTries, solePrints, issued, expired>> /\ AuthorizeNext(a)
  BY DEF RenameTmp, files, sole, agent, AuthorizeNext
<1>2. at'[a].in # "pending"
  BY IdleForm DEF RenameTmp, Exit, Go, Typed, ActivityTyped
<1>3. \A r \in 1..MaxOps : CountsRight(r)'
  BY <1>1 DEF FileRight, CountsRight
<1>. QED  BY <1>1, <1>2, <1>3, FileRightNext DEF AtTmp

\* What the rest of the machine does leaves the file and its counts right.
LEMMA OthersKeepFile ==
  ASSUME Typed, Typed', FileRight, NEW parts, Stays(parts), "pending" \notin parts, UNCHANGED files,
         issued' \in {issued, issued + 1}, expired' \in {expired, expired + 1}
  PROVE  FileRight'
<1>0. /\ UNCHANGED <<file, tmp, tries, printed, sole, soleTries, solePrints>>
      /\ issued' >= issued /\ expired' >= expired /\ issued \in Nat /\ issued' \in Nat /\ expired \in Nat /\ expired' \in Nat
  BY FileValues DEF files, sole
<1>1. \A b \in Actors : at[b].in = "pending" \/ at'[b].in = "pending" => at'[b] = at[b]
  BY DEF Stays
<1>2. \A r \in 1..MaxOps : CountsRight(r)'
  BY <1>0 DEF FileRight, CountsRight
<1>3. ASSUME NEW q, NEW m, Fits(q, m)  PROVE Fits(q, m)'
  BY <1>0, <1>3 DEF Fits
<1>4. file'.req # 0 => Fits(file.req, file.fails)'
  BY <1>0, <1>3 DEF FileRight, Fits
<1>5. \A b \in Actors : AtTmp(b)' /\ tmp'.req # 0 => Fits(tmp.req, tmp.fails)'
  BY <1>0, <1>1, <1>3 DEF FileRight, AtTmp, Fits
<1>6. ASSUME NEW b \in Actors, at'[b].in = "pending"
      PROVE  Holds(at[b])' /\ (b \notin overlapped' => FilePlan(at[b])')
  <2>1. at'[b] = at[b] /\ Holds(at[b]) /\ (b \notin overlapped' => b \notin overlapped) /\ at[b] \in FileSteps
    BY <1>1, <1>6, StepForms DEF FileRight, Stays, Typed, ActivityTyped
  <2>2. Holds(at[b])'
    BY <1>0, <1>3, <2>1 DEF Holds, Fits, Writing
  <2>3. /\ ~Live(file) => ~Live(file)'
        /\ at[b].req <= expired => at[b].req <= expired'
    BY <1>0, <2>1, FileValues DEF Live, FileSteps
  <2>4. b \notin overlapped => FilePlan(at[b])
    BY <1>1, <1>6 DEF FileRight
  <2>5. b \notin overlapped' => FilePlan(at[b])'
    BY <1>0, <2>1, <2>3, <2>4 DEF FilePlan, Writing
  <2>. QED  BY <2>2, <2>5
<1>. QED  BY <1>2, <1>4, <1>5, <1>6 DEF FileRight

\* Every step leaves the file and its counts right.
LEMMA FileRightStep ==
  ASSUME Typed, Typed', Apart, FileRight, [Next]_vars
  PROVE  FileRight'
<1>1. CASE \E a \in Actors : AuthorizeNext(a)
  BY <1>1, FileStarts, GenerateRight, DecryptRight, WritesRight, FinishesRight, RenameFails DEF AuthorizeNext
<1>2. CASE \E parts : /\ Stays(parts) /\ "pending" \notin parts /\ UNCHANGED files
                      /\ issued' \in {issued, issued + 1} /\ expired' \in {expired, expired + 1}
  BY <1>2, OthersKeepFile
<1>3. ASSUME NEW a \in Actors, AgentNext(a)
      PROVE  issued' \in {issued, issued + 1} /\ expired' \in {expired, expired + 1}
  BY <1>3 DEF AgentNext, GenerateAuthRequest, SetPending, DecryptAuthPayload, DropExpired, Opened
<1>4. Expire => issued' \in {issued, issued + 1} /\ expired' \in {expired, expired + 1}
  BY DEF Expire
<1>. QED  BY <1>1, <1>2, <1>3, <1>4, NextByPart DEF machine, agent

\* Whatever meets and whatever dies, the file and every command hold a request
\* with at least the failures that completes that met no other have counted.
THEOREM AuthorizationsAlwaysRight == Spec => [](Apart /\ FileRight)
<1>1. Init => Apart /\ FileRight
  <2>. SUFFICES ASSUME Init PROVE Apart /\ FileRight
    OBVIOUS
  <2>1. \A a \in Actors : at[a].in = "none"
    BY IdleForm DEF Init, ActivityInit
  <2>2. \A r \in 1..MaxOps : CountsRight(r)
    BY FailuresAssumption DEF Init, FilesInit, CountsRight
  <2>3. file.req = 0
    BY DEF Init, FilesInit, NoFile
  <2>. QED  BY <2>1, <2>2, <2>3 DEF Apart, Shared, FileRight, AtTmp
<1>2. Typed /\ Typed' /\ Apart /\ FileRight /\ [Next]_vars => Apart' /\ FileRight'
  <2>1. Typed /\ Apart /\ [Next]_vars => Apart'
    BY NextByPart DEF Stays
  <2>. QED  BY <2>1, FileRightStep
<1>. QED  BY <1>1, <1>2, AlwaysTyped, PTL DEF Spec

\* Over all the processes that restore a request, whatever others met or died,
\* the completes that met none and ran to their end tried its key no more often
\* than allowed and printed it once; then it is not in the file again.
THEOREM RequestSpentAlways == Spec => []RequestSpent
<1>1. Typed /\ FileRight => RequestSpent
  <2>. SUFFICES ASSUME Typed, FileRight, NEW r \in 1..issued
                PROVE  /\ soleTries[r] <= MaxFailures /\ solePrints[r] <= 1
                       /\ soleTries[r] = MaxFailures \/ solePrints[r] = 1 => file.req # r
    BY DEF RequestSpent
  <2>1. r \in 1..MaxOps /\ r # 0
    BY FileValues
  <2>2. CASE file.req = r
    <3>1. soleTries[r] <= file.fails /\ solePrints[r] = 0 /\ file.fails <= MaxFailures - 1
      BY <2>1, <2>2, FileValues DEF FileRight, Fits
    <3>2. soleTries[r] \in Nat /\ file.fails \in Nat /\ MaxFailures \in Nat
      BY <2>1, FileValues
    <3>. QED  BY <3>1, <3>2
  <2>3. CASE file.req # r
    BY <2>1, <2>3 DEF FileRight, CountsRight
  <2>. QED  BY <2>2, <2>3
<1>. QED  BY <1>1, AlwaysTyped, AuthorizationsAlwaysRight, PTL

\* Whatever dies at whichever step, a pending request that has not expired leaves
\* the file only because its key was printed or its attempts are used up, and one
\* that was tried or printed does not come back, but by a command that has met
\* another one.
THEOREM PendingKeptAlways == Spec => PendingKept
<1>. DEFINE
  Left == Live(file) /\ file'.req # file.req
            => printed[file.req] > 0 \/ tries[file.req] >= MaxFailures \/ Meddles("pending")
  Back == file'.req \notin {0, file.req}
            => (printed[file'.req] = 0 /\ tries[file'.req] = 0) \/ Meddles("pending")
<1>1. ASSUME Typed, Typed', Apart, FileRight, [Next]_vars  PROVE Left /\ Back
  <2>1. CASE file' = file
    BY <2>1
  <2>2. CASE file' # file
    <3>1. PICK a \in Actors : AuthorizeNext(a)
      BY <1>1, <2>2, NextByPart DEF machine, files
    <3>2. \/ Replace(a) \/ Unlink(a) \/ FillTmp(a)
          \/ RenameTmp(a) /\ tmp # NoFile
      BY <2>2, <3>1 DEF AuthorizeNext, ReadExisting, Generate, ReadPending, Malformed, Decrypt, PrintKey, OpenTmp,
                        RenameTmp, AuthorizeDies, files
    <3>3. at[a].in = "pending" /\ at[a] \in FileSteps /\ Holds(at[a]) /\ (a \notin overlapped => FilePlan(at[a]))
      BY <1>1, <3>2, StepForms DEF Replace, Unlink, FillTmp, RenameTmp, In, FileRight, Typed, ActivityTyped
    <3>4. at'[a] # at[a]
      <4>1. CASE Unlink(a) \/ (RenameTmp(a) /\ tmp # NoFile)
        BY <3>3, <4>1, IdleForm DEF Unlink, Unlinked, RenameTmp
      <4>2. CASE Replace(a)
        <5>1. PICK s : s = [at[a] EXCEPT !.pc = "generate"]
          OBVIOUS
        <5>2. s.pc = "generate" /\ at[a].pc = "replace" /\ at'[a] = s
          BY <3>3, <4>2, <5>1 DEF FileSteps, Replace, Unlinked, In
        <5>. QED  BY <5>2
      <4>3. CASE FillTmp(a)
        <5>1. PICK s : s = [at[a] EXCEPT !.pc = "rename"]
          OBVIOUS
        <5>2. s.pc = "rename" /\ at[a].pc = "fill" /\ at'[a] = s
          BY <1>1, <3>3, <4>3, <5>1 DEF FileSteps, FillTmp, Goto, Go, In, Typed, ActivityTyped
        <5>. QED  BY <5>2
      <4>. QED  BY <3>2, <4>1, <4>2, <4>3
    <3>5. CASE a \in overlapped
      BY <3>3, <3>4, <3>5 DEF Meddles
    <3>6. CASE a \notin overlapped /\ Replace(a)
      <4>1. ~Live(file) /\ file'.req = 0
        BY <1>1, <3>3, <3>6, FileValues DEF Replace, Unlinked, In, Holds, FilePlan
      <4>. QED  BY <4>1
    <3>7. CASE a \notin overlapped /\ Unlink(a)
      <4>1. file'.req = 0 /\ at[a].pc = "unlink" /\ FilePlan(at[a])
        BY <1>1, <3>3, <3>7, FileValues DEF Unlink, Unlinked, In
      <4>2. file.req = at[a].req
        BY <4>1 DEF FilePlan
      <4>3. file.req <= expired => ~Live(file)
        BY <1>1, FileValues DEF Live
      <4>. QED  BY <4>1, <4>2, <4>3 DEF FilePlan
    <3>8. CASE a \notin overlapped /\ FillTmp(a)
      <4>1. file' = file
        BY <3>3, <3>8 DEF FillTmp, In, FilePlan
      <4>. QED  BY <4>1
    <3>9. CASE a \notin overlapped /\ RenameTmp(a) /\ tmp # NoFile
      <4>1. at[a].pc = "rename" /\ file' = tmp /\ tmp = [req |-> at[a].req, fails |-> at[a].fails] /\ FilePlan(at[a])
        BY <3>3, <3>9 DEF RenameTmp, In, FilePlan
      <4>2. file'.req = at[a].req
        BY <4>1
      <4>3. CASE at[a].did = "try"
        BY <4>1, <4>2, <4>3 DEF FilePlan
      <4>4. CASE at[a].did = "none"
        BY <4>1, <4>2, <4>4 DEF FilePlan, Writing
      <4>. QED  BY <3>3, <4>1, <4>3, <4>4 DEF Holds, Writing, FileSteps
    <3>. QED  BY <3>2, <3>5, <3>6, <3>7, <3>8, <3>9
  <2>. QED  BY <2>1, <2>2
<1>2. Typed /\ Typed' /\ Apart /\ FileRight /\ [Next]_vars => [Left /\ Back]_<<activity, agent, files>>
  BY <1>1
<1>. QED  BY <1>2, AlwaysTyped, AuthorizationsAlwaysRight, PTL DEF Spec, PendingKept
=============================================================================
