----------------------------- MODULE CliCommands -----------------------------
(* The commands that make a transaction: `fast send` (commands/send.ts), the *)
(* token commands (commands/token/) and `fast fund usdc crypto`, with what   *)
(* they check before they ask the network anything. A refused command does   *)
(* nothing, so only those that pass are followed.                            *)
EXTENDS TxPipeline

CONSTANTS
  Requests, \* the commands users give: member, sender, kind, --replace-pending
  Transfers  \* the bridge transfers they ask for: member and route

ASSUME CommandsAssumption == \A c \in Requests \cup Transfers : c.m \in Members

-----------------------------------------------------------------------------
(* services/token-resolver.ts. A symbol is a word in the spelling of the     *)
(* configuration or in another; the network has a default token and one      *)
(* chain with tokens of its own.                                             *)
Symbol(word, spelling) == [word |-> word, spelling |-> spelling]
Default == Symbol("fastusd", "config")
OnChain == {Symbol("usdc", "config"), Symbol("fastusd", "upper")}
NoToken == Symbol("none", "none")

SameWord(name, keys) == {k \in keys : k.word = name.word}
FindTokenKey(keys, name) ==
  CASE name \in keys -> name
    [] name \notin keys /\ SameWord(name, keys) # {} -> CHOOSE k \in keys : k.word = name.word
    [] OTHER -> NoToken
ResolveToken(name, chain) ==
  IF chain THEN FindTokenKey(OnChain, name)
  ELSE CASE name \in OnChain \cup {Default} -> name
         [] name \notin OnChain /\ name.word = Default.word -> Default
         [] OTHER -> FindTokenKey(OnChain, name)

\* findRequestedTokenMetadata: exactly one row for the token.
TokenRows == {<<>>, <<TokenInfo>>, <<TokenInfo, TokenInfo>>}
FindRequestedTokenMetadata(rows) == IF Len(rows) = 1 THEN ToSet(rows) ELSE {}

(* What is typed for an amount: a number, zero, a fraction the token can or  *)
(* cannot hold, a number with something after it, or no number.              *)
Amounts == {"number", "zero", "fraction", "finer", "number+", "junk"}
ParseAmount(amount) == amount \in {"number", "zero", "fraction"}
SendAmountOK(amount) == amount \in {"number", "fraction", "number+"}

-----------------------------------------------------------------------------
(* fast send. A recipient is a Fast address, one that only starts like it,   *)
(* an EVM address, a Fast ID that is or is not bound, or none of these.      *)
Recipients == {"fast", "fast1?", "evm", "name", "unbound", "bad"}
FastIdRecipient(to) == to \in {"name", "unbound"}
\* The Fast ID registry gives the address the name is bound to, or fails.
Resolve(to, registry) == IF registry /\ to = "name" THEN "fast" ELSE "bad"

Route(args) == CASE args.fromChain -> "evm-to-fast"
                 [] ~args.fromChain /\ args.toChain -> "fast-to-evm"
                 [] OTHER -> "fast"
SendRoute(args) ==
  LET address == IF FastIdRecipient(args.to) THEN Resolve(args.to, args.registry) ELSE args.to
      ok == /\ FastIdRecipient(args.to) => ~args.toChain
            /\ address \in {"fast", "fast1?", "evm"}
            /\ args.fromChain => address # "evm"
            /\ args.toChain <=> address = "evm"
            /\ args.memo # "none" => Route(args) = "fast"
            /\ Route(args) = "fast" => address = "fast" /\ args.memo # "long"
            /\ SendAmountOK(args.amount)
            /\ ResolveToken(args.token, args.fromChain \/ args.toChain) # NoToken
  IN IF ok THEN Route(args) ELSE "refused"

SendArgs ==
  [to : Recipients, registry : BOOLEAN, fromChain : BOOLEAN, toChain : BOOLEAN,
   memo : {"none", "short", "long"}, amount : Amounts,
   token : {Default, NoToken, Symbol("usdc", "upper"), Symbol("fastusd", "lower")}]
Routes == {SendRoute(args) : args \in SendArgs} \ {"refused"}

\* Only a single-signer account bridges in; a multisig one bridges out with a
\* withdrawal journal (MultisigWithdrawal), a single-signer one without.
SendAccountOK(route, multisig) == route # "fast" => ~multisig

StartSend(a, c) ==
  /\ c.kind = "send" /\ ResolveSigner(c.m, c.sender)
  /\ "fast" \in Routes /\ SendAccountOK("fast", c.sender = Shared)
  /\ Begin(a, "fast", Step("account", "operation", c.m, c.sender, c.kind, c.replace))
  /\ UNCHANGED <<net, told, wallets, history>>

-----------------------------------------------------------------------------
(* The token commands. Mint and manage first read the token's metadata, at   *)
(* pc "metadata"; burn and create need no more than what is typed.           *)
SupplyOK(args) == args.decimals \in 0..18 /\ ParseAmount(args.initialSupply)
TokenCreate(c) ==
  /\ c.kind = "create"
  /\ \E args \in [decimals : {-1, 6, 18, 19}, initialSupply : Amounts] : SupplyOK(args)
TokenBurn(c) == c.kind = "burn" /\ \E amount \in Amounts : ParseAmount(amount)
TokenMint(c) == c.kind = "mint" /\ \E amount \in Amounts : ParseAmount(amount)
\* At least one change, and no address in both lists.
TokenManage(c) ==
  /\ c.kind \in Manages
  /\ LET addMinters == IF c.kind = "addMinter" THEN {c.sender} ELSE {}
         removeMinters == IF c.kind = "removeMinter" THEN {c.sender} ELSE {}
     IN addMinters \cup removeMinters # {} /\ addMinters \cap removeMinters = {}

StartToken(a, c) ==
  /\ ResolveSigner(c.m, c.sender)
  /\ TokenCreate(c) \/ TokenBurn(c) \/ TokenMint(c) \/ TokenManage(c)
  /\ LET pc == IF c.kind \in Manages \cup {"mint"} THEN "metadata" ELSE "account" IN
     Begin(a, "fast", Step(pc, "operation", c.m, c.sender, c.kind, c.replace))
  /\ UNCHANGED <<net, told, wallets, history>>

\* Only a minter mints, and only the admin manages.
Allowed(c, metadata) == IF c.kind = "mint" THEN c.sender \in metadata.mints ELSE c.sender = metadata.admin
GetTokenInfo(a) ==
  LET c == at[a] IN
  /\ In(a, "fast", "metadata")
  /\ \/ \E rows \in TokenRows :
          LET metadata == {d \in FindRequestedTokenMetadata(rows) : Allowed(c, d)} IN
          \/ metadata = {} /\ Refuse(a, Len(rows) # 1)
          \/ \E d \in metadata :
               /\ Move(a, [c EXCEPT !.pc = "account", !.update = IF c.kind = "mint" THEN -1 ELSE d.updateId], FALSE)
               /\ UNCHANGED told
     \/ Refuse(a, TRUE)
  /\ UNCHANGED <<net, wallets, history>>

-----------------------------------------------------------------------------
(* The bridge. `fast fund usdc crypto` checks the EVM balances first.        *)
Purses == [balance : 0..3, native : 0..1, gasToken : BOOLEAN, eip7702 : BOOLEAN]
GasReserve(p) == IF p.gasToken /\ ~p.eip7702 THEN 1 ELSE 0
FundUsdcCrypto(amount, p) ==
  /\ p.balance >= amount + GasReserve(p)
  /\ ~p.eip7702 /\ ~p.gasToken => p.native > 0

StartTransfer(a, c) ==
  /\ c.route \in Routes \ {"fast"} /\ SendAccountOK(c.route, FALSE)
  /\ c.route = "evm-to-fast" => \E p \in Purses : FundUsdcCrypto(2, p)
  /\ Begin(a, "fast", Step("bridge", "transfer", c.m, c.m, c.route, FALSE))
  /\ UNCHANGED <<net, told, wallets, history>>

\* bridge.deposit, smartDeposit and bridge.withdraw are in AllSetBridge.
BridgeCall(a) ==
  LET c == at[a]  bridged == [net EXCEPT !.bridged = @ \cup {c.id}] IN
  /\ In(a, "fast", "bridge")
  /\ \/ net' = bridged /\ Goto(a, "bridged") /\ UNCHANGED told
     \/ net' \in {net, bridged} /\ Refuse(a, TRUE)
  /\ UNCHANGED <<wallets, history>>

AlwaysConfirmed(route) == "confirmed"
RecordedStatus(route) == IF route = "fast" THEN "confirmed" ELSE "pending"
\* Unlike a confirmed transaction, a transfer that cannot be recorded fails
\* the command, though the transfer was made.
RecordTransfer(a) ==
  LET c == at[a]  entry == MakeHistoryEntry(c.id, c.kind, RecordedStatus(c.kind)) IN
  /\ In(a, "fast", "bridged")
  /\ \/ /\ history' = [history EXCEPT ![c.m] = InsertHistoryEntry(@, entry)]
        /\ Finish(a, "transferred", NoTx, FALSE)
     \/ UNCHANGED history /\ Refuse(a, TRUE)
  /\ UNCHANGED <<net, wallets>>

StartCommand(a) ==
  \/ \E c \in Requests : StartSend(a, c) \/ StartToken(a, c)
  \/ \E c \in Transfers : StartTransfer(a, c)
Command(a) ==
  GetTokenInfo(a) \/ GetAccountInfo(a) \/ GetPendingMultisig(a) \/ SubmitOperation(a)
  \/ RecordOperation(a) \/ BridgeCall(a) \/ RecordTransfer(a)
=============================================================================
