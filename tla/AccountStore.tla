---------------------------- MODULE AccountStore ----------------------------
(* The accounts and custom networks in ~/.fast/fast.db and the commands that *)
(* change them. A query is one atomic step; a command is several of them,    *)
(* outside any transaction but createMultiSig's, with key derivation and     *)
(* prompts in between. Prompts refuse by exiting; network names bundled with *)
(* the program are refused at once and are not enumerated.                   *)
EXTENDS Activity

CONSTANTS
  Names,     \* the numbers n of the account names account-n, from 1
  Networks,  \* names of custom networks
  Bundled    \* stands for the networks bundled with the program

ASSUME NamesAssumption == Names \subseteq Nat \ {0} /\ \A n \in Names : 1..n \subseteq Names
ASSUME BundledAssumption == Bundled \notin Networks

VARIABLES
  accounts,  \* the accounts table: one row for each name, or NoRow
  custom,    \* the custom_networks table
  defaultNetwork, \* the default_network row of the metadata table
  keys,      \* keys made so far, each a fresh number
  reported   \* what create and import last reported for a name, until its deletion

stores == <<accounts, custom, defaultNetwork, keys, reported>>

NoRow == [kind |-> "none"]
Row(kind, key, default) == [kind |-> kind, key |-> key, isDefault |-> default]
Single(key, default) == Row("single", key, default)
Multisig(key, default) == Row("multisig", key, default)
Rows == {n \in Names : accounts[n] # NoRow}
Defaults == {n \in Rows : accounts[n].isDefault}
Free == Names \ Rows

StoresInit ==
  /\ accounts = [n \in Names |-> NoRow]
  /\ custom = {}
  /\ defaultNetwork = Bundled
  /\ keys = 0
  /\ reported = [n \in Names |-> 0]

Cmd(pc, name) == [in |-> "accounts", pc |-> pc, name |-> name, first |-> FALSE]
Net(pc, name) == [in |-> "networks", pc |-> pc, name |-> name]

(* account create: the name is given, or the first free account-n when the  *)
(* command looked; the password prompt follows. account import reads a key  *)
(* first, from an argument, a file or a legacy keystore that is decrypted   *)
(* and checked against its address, and exits when it cannot.               *)
NextAutoName == CHOOSE n \in Free : \A k \in Free : n <= k
CreateAccount(a) ==
  /\ \/ \E n \in Names : Begin(a, "accounts", Cmd("check", n))
     \/ Free # {} /\ Begin(a, "accounts", Cmd("check", NextAutoName))
  /\ UNCHANGED stores
ImportAccount(a) ==
  /\ Begin(a, "accounts", Cmd("readKey", 0))
  /\ UNCHANGED stores
KeyRead(a) ==
  /\ In(a, "accounts", "readKey")
  /\ \/ Exit(a)
     \/ \E n \in Names : Go(a, Cmd("check", n))
     \/ Free # {} /\ Go(a, Cmd("check", NextAutoName))
  /\ UNCHANGED stores

(* storeAccount: an existing name is refused; the addresses are derived and *)
(* the seed encrypted before the rows are counted.                          *)
CheckExisting(a) ==
  /\ In(a, "accounts", "check")
  /\ IF accounts[at[a].name] # NoRow THEN Exit(a) ELSE Goto(a, "count")
  /\ UNCHANGED stores
CountAccounts(a) ==
  /\ In(a, "accounts", "count")
  /\ Go(a, [at[a] EXCEPT !.pc = "insert", !.first = (Rows = {})])
  /\ UNCHANGED stores

(* The insert fails on the primary key when the name was taken meanwhile.   *)
InsertUpsert(a) ==
  /\ In(a, "accounts", "insert")
  /\ keys' = keys + 1
  /\ accounts' = [accounts EXCEPT ![at[a].name] = Single(keys', at[a].first)]
  /\ reported' = IF reported[at[a].name] = 0
                   THEN [reported EXCEPT ![at[a].name] = keys'] ELSE reported
  /\ Exit(a)
  /\ UNCHANGED <<custom, defaultNetwork>>
Insert(a) ==
  /\ In(a, "accounts", "insert")
  /\ LET n == at[a].name IN
       IF accounts[n] # NoRow
         THEN UNCHANGED stores
         ELSE /\ keys' = keys + 1
              /\ accounts' = [accounts EXCEPT ![n] = Single(keys', at[a].first)]
              /\ reported' = [reported EXCEPT ![n] = keys']
              /\ UNCHANGED <<custom, defaultNetwork>>
  /\ Exit(a)

(* createMultiSig: the check is a query of its own, the rest one            *)
(* transaction that may move the default to the new wallet.                 *)
CreateMultiSig(a) ==
  /\ \E n \in Names : accounts[n] = NoRow /\ Begin(a, "accounts", Cmd("transact", n))
  /\ UNCHANGED stores
MultiSigTransaction(a) ==
  /\ In(a, "accounts", "transact")
  /\ LET n == at[a].name IN
       IF accounts[n] # NoRow
         THEN UNCHANGED stores
         ELSE \E setDefault \in BOOLEAN :
              /\ keys' = keys + 1
              /\ accounts' =
                   [m \in Names |->
                      IF m = n THEN Multisig(keys', Rows = {} \/ setDefault)
                      ELSE IF m \in Rows /\ setDefault
                             THEN [accounts[m] EXCEPT !.isDefault = FALSE]
                      ELSE accounts[m]]
              /\ reported' = [reported EXCEPT ![n] = keys']
              /\ UNCHANGED <<custom, defaultNetwork>>
  /\ Exit(a)

(* setDefault: the row is looked up, then two updates, each of them a       *)
(* statement that commits by itself; the second finds no row when the       *)
(* account was deleted meanwhile.                                           *)
SetDefault(a) ==
  /\ \E n \in Rows : Begin(a, "accounts", Cmd("clear", n))
  /\ UNCHANGED stores
ClearDefault(a) ==
  /\ In(a, "accounts", "clear")
  /\ accounts' = [m \in Names |-> IF m \in Rows
                    THEN [accounts[m] EXCEPT !.isDefault = FALSE] ELSE NoRow]
  /\ Goto(a, "set")
  /\ UNCHANGED <<custom, defaultNetwork, keys, reported>>
WriteDefault(a) ==
  /\ In(a, "accounts", "set")
  /\ accounts' = IF at[a].name \in Rows
                   THEN [accounts EXCEPT ![at[a].name].isDefault = TRUE]
                   ELSE accounts
  /\ Exit(a)
  /\ UNCHANGED <<custom, defaultNetwork, keys, reported>>

(* account delete, after its confirmation: the default account is deleted   *)
(* only when it is the last one.                                            *)
CheckDeleteAny(a, n) == Begin(a, "accounts", Cmd("delete", n))
CheckDelete(a, n) ==
  Begin(a, "accounts", Cmd(IF accounts[n].isDefault THEN "total" ELSE "delete", n))
DeleteConfirmed(a) ==
  /\ \E n \in Rows : CheckDelete(a, n)
  /\ UNCHANGED stores
CheckTotal(a) ==
  /\ In(a, "accounts", "total")
  /\ IF Cardinality(Rows) > 1 THEN Exit(a) ELSE Goto(a, "delete")
  /\ UNCHANGED stores
Delete(a) ==
  /\ In(a, "accounts", "delete")
  /\ accounts' = [accounts EXCEPT ![at[a].name] = NoRow]
  /\ reported' = [reported EXCEPT ![at[a].name] = 0]
  /\ Exit(a)
  /\ UNCHANGED <<custom, defaultNetwork, keys>>

(* network add, set-default and remove: each checks with queries of its own *)
(* before the one that writes.                                              *)
AddNetwork(a) ==
  /\ \E n \in Networks \ custom : Begin(a, "networks", Net("add", n))
  /\ UNCHANGED stores
SetDefaultNetwork(a) ==
  /\ \E n \in custom \cup {Bundled} : Begin(a, "networks", Net("default", n))
  /\ UNCHANGED stores
RemoveNetwork(a) ==
  /\ \E n \in custom : Begin(a, "networks", Net("used", n))
  /\ UNCHANGED stores
CheckNetworkUsed(a) ==
  /\ In(a, "networks", "used")
  /\ IF defaultNetwork = at[a].name THEN Exit(a) ELSE Goto(a, "remove")
  /\ UNCHANGED stores
WriteNetwork(a) ==
  /\ at[a].in = "networks"
  /\ \/ at[a].pc = "add" /\ custom' = custom \cup {at[a].name} /\ UNCHANGED defaultNetwork
     \/ at[a].pc = "default" /\ defaultNetwork' = at[a].name /\ UNCHANGED custom
     \/ at[a].pc = "remove" /\ custom' = custom \ {at[a].name} /\ UNCHANGED defaultNetwork
  /\ Exit(a)
  /\ UNCHANGED <<accounts, keys, reported>>

StoresDie(a) ==
  /\ at[a].in \in {"accounts", "networks"}
  /\ Fault(a)
  /\ UNCHANGED stores

StoresNext(a) ==
  \/ CreateAccount(a) \/ ImportAccount(a) \/ KeyRead(a) \/ CheckExisting(a) \/ CountAccounts(a) \/ Insert(a)
  \/ CreateMultiSig(a) \/ MultiSigTransaction(a)
  \/ SetDefault(a) \/ ClearDefault(a) \/ WriteDefault(a)
  \/ DeleteConfirmed(a) \/ CheckTotal(a) \/ Delete(a)
  \/ AddNetwork(a) \/ SetDefaultNetwork(a) \/ RemoveNetwork(a)
  \/ CheckNetworkUsed(a) \/ WriteNetwork(a)
  \/ StoresDie(a)
-----------------------------------------------------------------------------
StoresTypeOK ==
  /\ accounts \in [Names -> {NoRow} \cup [kind : {"single", "multisig"}, key : 1..MaxOps, isDefault : BOOLEAN]]
  /\ custom \subseteq Networks
  /\ defaultNetwork \in Networks \cup {Bundled}
  /\ keys \in 0..MaxOps
  /\ reported \in [Names -> 0..MaxOps]

(* An account that a create, an import or a multisig init reported is in    *)
(* the store with that key until a command deletes it, whatever other       *)
(* processes took the same automatic name meanwhile: services/storage/      *)
(* account.ts storeAccount, whose check and insert are apart.               *)
ReportedStored ==
  \A n \in Names : reported[n] # 0 => accounts[n] # NoRow /\ accounts[n].key = reported[n]

(* There come to be two default accounts, none though there are accounts, or *)
(* a default network that does not exist, only by a command that another one *)
(* of its kind had met, or, for none, between the two updates of setDefault  *)
(* (services/storage/account.ts), where a death leaves it so: no other step  *)
(* of any sequence of commands does it, whatever dies. And whatever they     *)
(* left, a set-default that meets no other command leaves one default, its   *)
(* account.                                                                  *)
DefaultsResolve ==
  [][/\ Cardinality(Defaults) <= 1 /\ Cardinality(Defaults') > 1 => Meddles("accounts")
     /\ (Rows = {} \/ Defaults # {}) /\ Rows' # {} /\ Defaults' = {}
          => Meddles("accounts") \/ \E a \in Actors : In(a, "accounts", "clear") /\ at'[a] # at[a]
     /\ \A a \in Actors \ overlapped :
          In(a, "accounts", "set") /\ at'[a] # at[a] /\ faults' = faults => Defaults' = {at[a].name}
     /\ defaultNetwork \in custom \cup {Bundled} /\ defaultNetwork' \notin custom' \cup {Bundled}
          => Meddles("networks")
    ]_<<activity, stores>>
=============================================================================
