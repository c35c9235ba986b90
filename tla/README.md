# Formal models of the Fast SDK monorepo

TLA+ models of the parts of this repository that keep state across awaits,
processes, crashes and networks; TLC configurations that check them on small
instances; and TLAPS proofs of the properties that matter most, for every value
of the constants.  Everything is translated from the source; `PROJECT.json`
maps each definition to the lines it stands for.

## 1. Inventory of the system

The repository is a TypeScript monorepo: a CLI (`app/cli`) over a set of SDKs
(`packages/*`).  Much of it is request/response mapping and byte codecs.  What is
hard to get right is of three kinds: files and tables shared by processes,
in-memory records shared by calls and callbacks, and remote accounts whose
answers are late, lost or about something else.

| Component | State | Operations | Correct when |
|---|---|---|---|
| sign-sdk settlement (`sign-client.ts`, `recovery.ts`) | per operation a journal record; per account nonce a reservation record; in memory the frozen transaction | `signDigest`, `recoverSettlement`, `registerReceipt` | one transaction per nonce and per operation; evidence is durable before submission; settlement is reported only when certified; a certified submission can always be recovered |
| sign-sdk file journal, records (`file-journal.ts` `load`, `save`) | one file per record, temporary file, directory entry | load; save = write, sync, rename, sync directory | a power loss brings back only versions the callers are prepared for |
| sign-sdk file journal, locks (`withLock`) | one lock file per key, with its owner's token and process id | acquire, wait, time out, refuse a dead owner, release | one holder; only the own lock is released; every call returns |
| sign-sdk registration (`record-client.ts`, `internal/index-http.ts`) | the registration half of the journal record; the index's row | `retryRegistration`, `checkRegistration` | "registered" only when the index has our row; verdicts are not forgotten; a stored row is found |
| fast CLI multisig withdrawal (`multisig-withdrawal.ts`, `withdrawal-journal.ts`) | journal file and `FILE.lock`; account chain; relayer; EVM chain | `runMultisigWithdrawal`, rerun until done | paid once, relayed once, completed only when paid out, every paid-out withdrawal gets recorded |
| fast-sdk key handover (`wallet/key-handover`) and CLI `authorize` | one pending request in memory; one unlocked file `~/.fast/handover-pending.json` | generate, export, restore, decrypt; `authorize request`, `authorize complete` | a key is released once, to the request that asked; three failures are three; a new request is not destroyed by an old one |
| fast-sdk wallet popup (`wallet/client.ts`) | the in-flight popup, its listeners and timer | open, supersede, answer, close, time out | every call settles exactly once; a late event of an old popup does not touch the new one |
| fast-sdk multisig (`multisig/index.ts`) and CLI pipeline (`tx-pipeline.ts`, `commands/multisig`) | proposals at the proxy per nonce | prepare, submit, vote | a signer signs only what was approved; no proposal is replaced unseen |
| CLI stores (`storage/account.ts`, `network.ts`, `history.ts`) | SQLite tables | create, import, set default, delete; add, set and remove a network; record, refresh | a reported account is stored; one default account while accounts exist; a default network that exists |
| CLI commands (`send.ts`, `token/*`, `fund/usdc/crypto.ts`, `multisig/*`, `info/history.ts`) | the wallet files of members; the history | send by every route, token commands, init, export, import, vote, history | what a command tells and records is so; two wallets have one address exactly if their members, quorum and config nonce are the same |
| CLI incoming payments (`incoming-payments.ts`, `request.ts`, `wait-for-payment.ts`) | the scan's floor, the last full scan | poll, page, confirm, time out | the earliest matching payment the explorer showed is told, and none it showed is missed |
| x402 client, server, facilitator | request, payment payload, paid requests in hand | pay, verify, settle, retry | content is served only for a payment that was made and is worth its price; one authorization buys once; one call pays once |
| allset-sdk bridge (`bridge.ts`, `relay.ts`, `claims.ts`, `intent-v1.ts`, `eip7702.ts`) | none of its own: one transfer, one claim, one relay per call | executeIntent, executeWithdraw, executeDeposit, smartDeposit | a transfer is never lost sight of; the relayer is asked for what the caller asked |
| fastid-sdk (`client.ts`, `claims.ts`, `proofs.ts`, `profile.ts`, `report.ts`) | settlements in progress or known, per proven property; the X session; pending revocations | claim, settle a proof, revoke, retry a registration, update a profile, report | a proven property is paid for once; what a call tells of its payment is so |
| fast-schema, sign-sdk wire formats, CLI parsing and output | none | encode, decode, print | left to tests: pure functions of bytes |

Interactions.  The CLI calls the SDKs; `signDigest` runs under two journal locks
(`operation:<id>` then `account:<network>:<sender>`), calls the provider and
saves between every two external effects; the record client takes over the same
journal record once it is settled.  The withdrawal command uses the multisig
signer, the cross-sign service, the relayer and an EVM node, with its journal
file between them.  `fast send` and the token commands run on one pipeline, which
reads the account and the proposals at its nonce, signs, submits once and reads
the answer; `fast pay` calls the x402 client, which calls the bridge when the EVM
balance is short; the middleware calls the facilitator twice.  Processes interact
only through files, locks, tables and the remote services.  What is hard is
therefore: two processes between two awaits, a death between a write and an
effect, a rename whose directory sync never happened, a late or lost answer, a
stale replica, an answer about another request, and a user or operator who must
be able to finish what a dead process began.  `PROJECT.json` lists each such
hazard at its line with the properties that would catch it, or says why none does.

## 2. Modules

| Module | Models |
|---|---|
| `SignSettlement` | `signDigest`, `recoverSettlement`, the import half of `registerReceipt`; the journal's load and save; both locks; network, crashes, power loss, operator |
| `NonceLedger` | abstract: nonces are spent once, for one operation, and only a spent one becomes final |
| `RecordRegistration` | `retryRegistration` and `checkRegistration` from "settled" onwards, with the index |
| `JournalLock` | `withLock` file by file and poll by poll |
| `LockPromise` | abstract: the lock the other modules assume |
| `MultisigWithdrawal` | `runMultisigWithdrawal` with its journal and lock, the account's chain, the relayer and the EVM settlement |
| `Activity` | what the actors are doing: one activity each, begun, continued, ended or killed; the base of the modules below |
| `AccountStore` | the account and network tables and the commands that change them, statement by statement |
| `KeyHandover`, `AuthorizeCommands` | the handover agent with its pending request, and the two CLI commands that share one unlocked file |
| `WalletPopup` | the wallet client's one popup in flight |
| `FastIdClient` | one `IdClient`: payments, registrations, shared settlements, revocations, profile updates and reports, with the network and the ID service |
| `LocalState` | composes the five: one user's machine |
| `Ledgers` | the Fast account, the EVM chain and the bridge between them, as payments see them |
| `IntentClaims` | pure: the two encodings of a bridge claim, their validation, and what cross-sign reads from them |
| `AllSetBridge` | `executeIntent`, `executeWithdraw`, `executeDeposit`, `smartDeposit` |
| `X402Terms` | pure: prices, terms and payloads of both protocol versions, and the verification of a payload |
| `X402Service` | the seller's middleware and the facilitator's verify and settle |
| `X402Client` | `x402Pay` on both networks, the manual flow, and `fast pay` with its history row |
| `Payments` | composes them: one user's payments, a seller and its facilitator |
| `FastNetwork` | proxy and validators: nonces, proposals that wait for a quorum, answers and their faults |
| `MultisigWallets` | the configuration of a shared account on each member's machine: init, export, import, address |
| `TxPipeline` | `submitOperation` and the history table |
| `CliCommands` | `send`, the token commands, `fund usdc crypto` |
| `MultisigVote` | `multisig pending` and `multisig vote` |
| `MultisigWorkflow` | the SDK's prepare, submitPrepared and vote |
| `HistoryView` | `info history` with its refresh of pending transfers |
| `IncomingPayments` | `request` and `wait-for-payment` against an explorer that publishes late |
| `FastTransactions` | composes them: the processes of the members of a shared account |
| `*Proofs` | theorems about the module of that name |
| `MC*` | what TLC needs of it: symmetry sets, values of the constants in the `.cfg` |

`SignSettlement` and `RecordRegistration` treat a lock as one variable with the
values free, a process, or dead.  `JournalLock` shows that the files, waiters and
deadlines of `withLock` implement exactly that (`LockPromise`), so the atomic
acquire and release of the other modules are justified by a proof.
`RecordRegistration` starts where `SignSettlement` ends: the five settled states
of the journal are one state, "settled", in the latter.

### Conventions

A *process* runs one call at a time; a call is a record with a program counter
whose labels are the awaits of the function, so between two labels the event
loop runs without interruption.  A save has three outcomes: done, failed before
its rename ("lost"), failed after its rename and before the directory sync
("torn").  A torn save is visible to `load` and may be undone by a power loss:
the variable `survivors` holds, per file, the versions that may come back.  A
death (`Crash`) clears a process's call and leaves its lock files; `PowerLoss`
does so for all processes and picks one surviving version of every file.
Byte strings are abstracted to what tells them apart: a transaction is
(operation, nonce, identity), a certificate is the transaction it certifies, an
index row is none, ours or another's.

### SignSettlement

State and code: `journal` and `survivors` are the record files; `opLock`,
`accountLock` the lock files; `call` the running SDK calls; `submitted`,
`inflight`, `certified`, `nextNonce` the network as this journal's host affects
it.  Actions follow `signDigest` in order: `LoadExisting`, `AcquireAccountLock`,
`LoadCurrent` (with `Resumable`), `ReadNonce` (from a replica that lags),
`Bind` (reservation check, prepared record), `Sign`, `Reserve`,
`ReleaseReservation`, `SaveUnknown`, `SaveRetryMarker`, `Submit`, `SubmitReply`,
`SaveSettled`, `Exit`.  `Observe` is `recoverSettlement`, `Import` the end of
`registerReceipt`.  `Throw` stands for every failing check or read at a label
where nothing has been written by that step.

Details worth knowing when reading it:

* A transaction carries a fresh request id, so a transaction of another host is
  never equal to one of ours; foreign transactions have identity 0.
* A nonce read may lag but never runs ahead of the network.
* After a definitive rejection by the network the operation stays
  `submission_unknown` and its nonce stays reserved.  That is what the code does
  (and what its tests expect): it fails closed and waits for a human.
* A reservation tombstone may itself fail to be saved; the reservation then
  blocks the nonce for other operations, again failing closed.

### RecordRegistration

`withSnapshot` is `Start`, `AcquireLock`, `Load`, `Save`, `Exit`; the two bodies
are `Post`, `PostAnswered`, `Reconcile` and `Fetch`.  The index is assumed to
answer 200 only for a row it stored and never to remove a row; a POST may be
stored at any time after it was sent (`PostArrives`), and an exact read may come
from a replica that has not seen the row.

### JournalLock and LockPromise

One lock key.  A call draws a token and writes its owner record (`Start`), links
it (`Link`) or finds the name taken (`Taken`), reads the owner (`ReadOwner`),
judges it (`DeadOwner`, `TimedOut`, `Wait`), and after the section reads the
file back (`Verify`) and unlinks the name (`Unlink`).  Reading and judging, and
verifying and unlinking, are separate steps because they are separate awaits.
`Die`, `Spawn` and `Recover` are the process table and the operator, who
removes a lock file only when its owner's process is gone.  A release that fails
leaves the lock file under a live process; later calls then time out.  Process
ids are reused, which can only make a dead owner look alive, hence a time-out.
When the lock file disappears between `link` and the read, the code tries again
without looking at its deadline; the bounded number of calls makes that loop
finite here, and in general it can only repeat as long as other calls succeed.

### MultisigWithdrawal

`file` and `survivors` are the journal, `lock` is `FILE.lock`; `submitted`,
`chain` the account on the Fast network, `relays` the relayer's requests,
`settled` the EVM side, `now` the clock that expires intents.  A run is `Start`,
`OpenLock`, `Read`, `GetEvmBlock`, `Begin`, then `SettlementFound` /
`NoSettlement`, `TransferCertified`, `Propose`, `Record`, `Submit`,
`IntentCertified`, `Prove`, `Attempt`, `Relay`, `Answered`, `Note`, `Complete`,
`Exit`.  Whatever ends a run early without changing the journal is `Abort`.
The code fails closed in two places the model shows: a run that dies between the
journal write and the submission leaves a transfer that is never submitted
again, and an envelope signed for a stale nonce never settles; both need manual
recovery (`ManualRecovery`).  Running the command with another journal file for
the same withdrawal is outside the model; the CLI's README forbids it.  The lock
file of a running command is assumed not to be removed.

### The parts that take no lock: Activity

The commands of the CLI, the pages that use the SDKs and the payments have no
lock among them, so their modules share one base.  `at` holds, for each actor,
the part it is in and its program counter, whose labels are the awaits and
statements of the code; `ops` numbers what was ever started (`MaxOps` caps it);
`faults` counts deaths, failed writes and failed or lost answers (`MaxFaults`
caps it).  A process that died is idle: the next activity is a new one.

Where the code does not keep two overlapping commands apart, a property cannot
promise that they do no harm, and one about "commands that run one after the
other" would say nothing of a machine on which two once met.  So the history
`overlapped` holds the actors whose last activity met another one of its part;
it changes only when an activity begins, and an actor leaves it when it begins one
alone.  `Meddles(part)` is a step of such an actor.  The properties of these parts
then say that a step that breaks something is a step of an activity that met
another: whatever overlapped or died before, a command that runs alone does no
such harm.

### LocalState

`AccountStore` has one step per SQL statement, with the reads before them as
steps of their own: `CheckExisting`, `CountAccounts`, `Insert`; `ClearDefault`,
`WriteDefault`; `CheckDelete`, `CheckTotal`, `Delete`.  `createMultiSig` alone
uses a transaction, and is one step (`MultiSigTransaction`).  `KeyHandover` has the
agent's calls, split at key generation and at `hpkeOpen`, so that a request may
be generated while a decryption is on its way; a code opens under the request it
was made for and no other.  `AuthorizeCommands` has each command's reads, prompt,
decryption, and the three steps of an atomic write (`OpenTmp`, `FillTmp`,
`RenameTmp`) through the one temporary name both commands use; the file may be
torn only by a second writer.  The histories `soleTries` and `solePrints` count what
completes that met no other command, and ran to their end, did with a request.  `WalletPopup` has a call in flight, messages, the
poll for a closed window, the timeout, and `connect`'s second step.

`FastIdClient` shares no state with these and is followed alone, for one of the
applications the configuration lists.  A transaction is known by the call that
made it, and so is a settlement; `client.slot` is the map or field that remembers
a settlement in progress or ended, `promises` what it came to, `said` what each
call told.  The network accepts a transaction at the account's nonce; the service
applies what was paid for, once, and may verify a website or settle an X intent
at any time.  Assumed of the service: it does not answer "refused" to what it
stored.  A profile update that fails with another status may have been stored.

### Payments

`Ledgers` is one user's account on Fast and on one EVM chain, where fees may be
paid in the token itself: the balance is kept in native units, `Scale` of them to
a unit of the token, and a fee need not be a whole number of token units.  Every
request has the answers of its service and the faults: refused, lost after the
work was done, or about something else (`Step`, `Submit`, `SubmitFault`).  `AllSetBridge` follows `executeIntent` await by await:
`AccountInfo`, `SubmitTransfer`, `CrossSignTransfer`, `BuildClaim`,
`SubmitIntent`, `CrossSignIntent`, `Relay`; `Tell` says which of the three errors
the caller gets.  A claim is the record its bytes carry, in the ABI form or the
JSON form; limits on numbers, documents and chains are small constants
(`MaxUint`, `MaxBytes`, `MaxChain`).  `X402Service` runs one job per paid request,
which goes on when its client has gone; `X402Terms` verifies a payload as
`verify.ts` does, with a committee of four keys and signatures that may repeat or
come from strangers.  `Lapse` is an authorization that expires.

### FastTransactions

The validators execute a transaction of a member at the account's nonce, and one
of the shared account when a quorum signed it, at once or after a while
(`Confirm`); until the quorum is there it is a proposal at its nonce.  A new
proposal at that nonce may displace the others or be held beside them: the code
here allows for both.  `Replies` and `ReplyFault` are the answers to a submission:
success, one of two kinds of incomplete, rejected, busy, lost, or about another
transaction.  `Classify` is
the pipeline's reading of them, `SubmissionResult` the workflow's.  The provider
treats a proxy that is busy or unavailable as a definitive refusal, because the
proxy answers so before it takes anything; the model gives that answer only then.
`MultisigWallets` runs first, until every member has a wallet (`UsualSetUp`): each
way of setting one up chooses its own signers, quorum and `--config-nonce`, and the
address is derived from the three.  The commands are then followed for wallets of
one account.

`IncomingPayments` is followed alone, before any wallet is set up.  A page of the
explorer holds one row; a sleep ends on time while an answer takes any time;
time stamps are finer than the clock.  The code reads at most 50 rows a page and
waits with real numbers of milliseconds; what matters is that a payment may be
published after its time, between two polls or between two pages of one poll.

Simplifications: the portal is asked about one transfer after another, where the
code asks about three at once; an amount is what it buys, so the arithmetic of
`send`, which takes amounts through floating point, is left out (section 9).

## 3. Properties

| Module | Property | Says |
|---|---|---|
| SignSettlement | `OneTxPerNonce`, `OneTxPerOperation` | never two transactions for one account nonce, nor for one operation |
| | `EvidenceDurable` | what was submitted is on file, with its reservation, in every version a power loss may leave |
| | `SettlementTruthful` | recorded and reported settlements are certified, and of the frozen transaction |
| | `SubmitOnceUnderLocks` | no transaction is handed over twice, none without both locks (action property) |
| | `ImplementsLedger` | refinement of `NonceLedger` |
| | `CallsReturn`, `SettlementRecovered` | liveness: calls return; a certified submission becomes settled by recovery alone |
| RecordRegistration | `RegisteredTruthful` | "registered" only with our row in the index |
| | `VerdictKept` | durable verdicts do not turn back (action property) |
| | `RowFound` | liveness: a stored row is found by checking |
| JournalLock | `Exclusion` | one holder, whose own record stays at the lock's name |
| | `OwnRelease` | only the own lock, or a dead owner's, is removed (action property) |
| | `KeepsPromise` | refinement of `LockPromise` |
| | `CallsReturn` | liveness: every call returns |
| MultisigWithdrawal | `PaidOnce`, `RelayedOnce` | one transfer, one intent, one relay, all consistent with the durable journal |
| | `CompletedIsFinal` | completed only when paid out, and then nothing more is submitted or relayed, whatever runs follow (action property) |
| | `JournalMonotone` | what is durably known stays known (action property) |
| | `SettlementRecorded` | liveness: a paid-out withdrawal gets recorded by rerunning |

| LocalState (AccountStore) | `ReportedStored` | a reported account is stored with its key until a command deletes it |
| | `DefaultsResolve` | two defaults, none, or a default network that is gone come only from a command that met another, or, for none, from a death inside set-default; a set-default that met none leaves one default, its own, whatever it found (action property) |
| (KeyHandover) | `SeedReleasedOnce` | a key serves no more than the allowed decryptions however calls interleave; until a request is first generated during a decryption, also one decryption at a time, one seed per request, every failure counted |
| (AuthorizeCommands) | `RequestSpent` | whatever overlaps and dies in between, completes that met no other use a request's failures up once and print it once; then it is not in the file again |
| | `PendingKept` | a live request leaves the file only printed or used up, and one tried or printed does not come back, but by a step of a command that met another (action property) |
| (WalletPopup) | `NoOrphanCall` | the calls that have not settled are the one in flight |
| (FastIdClient) | `ClaimedOnce` | a proven property is paid for once, however calls overlap, fail and repeat |
| | `ClaimAccounted` | "unpaid" left nothing on the network, "pending" has paid, "registered" was applied, "stored" is stored |
| Payments | `TransferAccounted` | a plain error only when nothing was taken, success only when the relayer has the claim, never a paid claim that cannot be written |
| | `PaidAsAsked` | what the relayer is asked to do is what the caller asked for, paid by the caller's transfer |
| | `EachCallPaysOnce` | one transfer, one claim, one payment, one deposit per call |
| | `DepositNotStarved` | a deposit that passed the gas reserve check does not run out between approval and deposit |
| | `ServedWasPaid` | content only for an accepted or mined payment to the seller worth its price |
| | `AuthorizationServesOnce` | one EIP-3009 authorization buys content once |
| | `PaymentRecorded` | what `pay.ts` says of its history; violated, section 7 |
| FastTransactions | `OutcomeTruthful` | a command's "success", "incomplete", "waiting" and "failed" are so |
| | `ReplacedOnPurpose` | a proposal that could be executed is displaced only unseen or on request (action property) |
| | `HistoryTruthful` | rows are of what happened, and what was told as done, with no error and no warning that it is not recorded, has its row, whatever writes failed |
| | `WalletsAgree` | an address is its configuration's, and two addresses are equal exactly if members, quorum and config nonce are |
| (IncomingPayments) | `WaitTruthful` | the payment told is the earliest shown, and no payment shown before the last poll is missed |

`TypeOK` of `LocalState` is checked as well.  The inductive invariants stand with
the proofs: TLC checked them on these runs before they were proved, and they are
no longer run.

## 4. Runs

| Run | Configuration | Question and bounds |
|---|---|---|
| `sign_settlement` | `MCSignSettlement.cfg` | Truth, nonces, locks and the ledger with two processes, two operations, two nonces, one fault and one foreign settlement. 734 347 states. |
| `sign_liveness` | `MCSignLiveness.cfg` | Calls return; a certified submission is recovered. Two processes, one operation, two faults. 23 461 states. |
| `sign_durability` | `MCSignDurability.cfg` | Expected violation; see section 7. |
| `registration` | `MCRegistration.cfg` | All of registration, two processes, three faults, late posts and foreign rows. 18 175 states. |
| `lock` | `MCLock.cfg` | All of the lock: two slots, three calls, two process ids that die and are reused. 26 560 states. |
| `lock_dead_owner` | `MCLockDeadOwner.cfg` | Expected violation; see section 7. |
| `withdrawal` | `MCWithdrawal.cfg` | Two runs at a time, three signatures, three nonces, a clock to 2 with intents that live 1, two faults. 190 602 states. |
| `withdrawal_liveness` | `MCWithdrawalLiveness.cfg` | The settlement is recorded. Two signatures, one fault. The clock stands still: an expired intent only makes runs fail before relaying. 7 332 states. |
| `local_state` | `MCLocal.cfg` | Two actors, four activities, one fault, two account names, one network, two failures per request; or one of five applications of the fastid-sdk. 664 002 states. |
| `payments` | `MCPayments.cfg` | Two actors, two calls of any kind, one fault, fees in the token, a committee of four. 192 242 states. |
| `pay_recorded` | `MCPayRecorded.cfg` | Expected violation; see section 7. |
| `fast_transactions` | `MCFastTransactions.cfg` | Two members, quorum 2, three commands or calls of two processes, one fault; two config nonces; or one wait of 2 or 4 ticks with four transactions in the feed. 770 319 states. |

Why these bounds.  Every interaction in the code is between a holder of a lock
and one contender, so two processes show it; two operations compete for one
nonce, and a second nonce lets the loser go on.  A counterexample of crash
recovery needs a fault, a recovery and one more fault that spoils the recovery:
hence two in `sign_liveness`, `registration` and `withdrawal`.  Three tokens in two slots give a lock call that outlives its first
rival and meets a second, perhaps under a reused process id.  All safety
properties are also proved without any of the bounds (section 6).  `MaxNow`, `MaxNonce`,
`MaxMint`, `MaxFaults`, `MaxForeign` and `MaxTokens` are guards that cap
counters and have no counterpart in the code.

`local_state` needs four activities because the cases are made of them: a request,
a failed completion, a second completion, and a third beside it; a claim, its
retry, a revocation and a claim again.  Two account names are two processes that
take one automatic name.  `payments` needs two, because a call is many steps and
every race is between two: two settlements of one authorization, a deposit beside
another spender.  `fast_transactions` needs three: one member proposes, the other
votes, and a third command comes between the list and the vote.  One fault is the
lost answer, death or failed write that the properties are about; a second one
adds nothing to calls that keep no state on disk, and `FastIdClient` alone was also
checked with two.

Deadlock is checked in the runs of settlement, registration, locks and
withdrawal: a process can always start another call, or a bound is reached with
a step left.  It is not checked in
`local_state`, `payments`, `pay_recorded` and `fast_transactions`, where a machine
may rest: activities are bounded, and nothing need be running.

Each property of a passing run has a mutant in `PROJECT.json`: a changed
definition, kept in the module before the real one and used by no action, under
which TLC finds the property violated.

## 5. Fairness

* `WF(Step(p))` / `WF(Run(p))` for each process: the event loop goes on with a
  running call, and every await ends, because locks, fetches and RPC calls have
  deadlines.  For `JournalLock` also `WF(Deadline(c))`: the clock goes on.
  `CallsReturn` needs no more.
* The conditional properties (`SettlementRecovered`, `RowFound`,
  `SettlementRecorded`) have their assumptions as an antecedent, named in the
  module: a user who keeps calling, also when no other call holds the lock; an
  operator who clears the locks of the dead; a reader, index or EVM node that
  answers truthfully often enough; a contender that is not beaten to the lock
  for ever.  None of these is provided by the code; without them the properties
  are false, and the code's documents ask the user and operator for exactly this.
* No fairness is assumed of the network, of faults or of foreign transactions.
* The other runs check safety only.  Their calls end because each await has a
  timeout or is a user's, which the labels already say, one by one; there is no
  state left behind whose recovery needs a further step.

## 6. Proofs

Checked by TLAPS 1.4.5 with Z3, Zenon and LS4, for every number of processes,
operations, nonces, calls, process ids, members, amounts, fees and faults.  Every
safety property that a run checks, invariant or action property, is a theorem.

| Module | Theorems |
|---|---|
| `SignSettlementProofs` | `Invariance`, `TypeCorrect`, `EvidenceIsDurable`, `NonceSpentOnce`, `OperationSubmittedOnce`, `SettlementIsTruthful`, `SubmissionIsSerialised`; refinement `JournalImplementsLedger` |
| `RecordRegistrationProofs` | `Invariance`, `RegistrationIsTruthful`, `VerdictIsKept` |
| `JournalLockProofs` | `Invariance`, `MutualExclusion`, `ReleasesAreOwn`; refinement `LockKeepsPromise` |
| `MultisigWithdrawalProofs` | `Invariance`, `WithdrawalPaidOnce`, `WithdrawalRelayedOnce`, `CompletionIsFinal`, `JournalIsMonotone` |
| `LocalStateProofs` | `AlwaysTyped`, `TypesAlwaysOK`, `NoOrphanCallAlways`, `ReportedStoredAlways`, `DefaultsAlwaysResolve`, `SeedReleasedOnceAlways`, `AuthorizationsAlwaysRight`, `RequestSpentAlways`, `PendingKeptAlways` |
| `FastIdClientProofs` | `ClaimsAlwaysRight`, `ClaimAccountedAlways`, `ClaimedOnceAlways` |
| `PaymentsProofs` | `PaymentsAlwaysRight`, `TransferAccountedAlways`, `PaidAsAskedAlways`, `EachCallPaysOnceAlways`, `DepositNotStarvedAlways`, `ServedWasPaidAlways`, `AuthorizationServesOnceAlways` |
| `FastTransactionsProofs` | `FastAlwaysRight`, `OutcomeTruthfulAlways`, `HistoryTruthfulAlways`, `WalletsAgreeAlways`, `ReplacedOnPurposeAlways`, `WaitTruthfulAlways` |

### Journals and locks

The argument is the same in the first four.  The safety property speaks of effects
(submitted transactions, index rows, relays) and is not inductive: it does not
say what a call in the middle of its work relies on.  The invariant adds (1) a
call inside the section holds the lock files that say so; (2) what such a call
has read is still what the files hold, because nobody else may write; (3) every
version that could come back after a power loss already contains the evidence of
every effect, because each effect is preceded by a save that succeeded, and a
successful save leaves one version.  (1) and (2) are `HoldsLocks`/`Justified`,
`Justified` and `Knows`; (3) is `EvidenceDurable`, `Evidence`.  In `JournalLock`
the strengthening is `TokensDistinct`: tokens tell calls apart, and a contender's
own record is not at the lock's name.  `OneTxPerNonce` then follows from (3): two
transactions with one nonce would need one reservation with two owners.

### One user's machine

Nothing protects this state, so what an activity has read may be stale, and the
invariants say exactly what it may still rely on.

* `Typed` is the set of steps an activity can be at, with what it carries, and a
  count: a step that will still make a key or a request (`Owes`) was paid for by
  the activity's number.  The count bounds the keys and requests by `MaxOps`.
  `NextByPart` is the frame: every step is one of one part, and the other parts
  stay.  The parts' invariants are then proved one by one.
* `NoOrphanCall` and `ReportedStored` are inductive on top of `Typed`.
* `Apart`, the base of the next ones: of two actors in one part, both are in
  `overlapped`.  So while a command that met no other is at work, only its own steps
  write its table or file, and what it has read still holds, whatever others left
  there before.
* `DefaultsResolve` needs `PlansRight`: what such a command has read (`AccountPlan`:
  whether there were accounts, whether the one it deletes is the default;
  `NetworkPlan`: that the network it sets is there, that the one it removes is not
  the default) still holds.
* `SeedReleasedOnce` needs `AgentRight`: the decryptions begun with a key are no more
  than the failures its record will have counted (`RecordRight`), in every
  interleaving; and `OneOpening`: until something crossed a decryption, there is at
  most one, of the request that is pending.
* `RequestSpent` and `PendingKept` need `FileRight`: the file, the temporary file while
  it is written, and every command hold a request with at least the failures that
  completes which met no other have counted, and never one these have printed
  (`Fits`, `Holds`); and such a command finds the file as it read it (`FilePlan`).
  The bound survives overlaps because no complete that counts can end while another
  command holds what it has read.
* `FastIdClient`: `ClaimsRight` says that a settlement in progress, one that has
  paid, or whose outcome is not known, is the one the client remembers, unless a
  revocation made it forget; two that pay would both be the remembered one.

### Payments

`PaymentsRight` joins the shape of every call's record with what its program
counter promises: which of its transactions were made, what the bytes of its claim
say, what was checked of the balance, what the relayer was handed.  The steps of a
call change its own record and add its own transactions; the lemma `CallStepKeeps`
proves once that such a step keeps the rest, and `EnvironmentKeeps` does so for the
chain, the relayer, the clock and the seller.  Each action then shows that it is
one of the two, with the promise of the counter it reaches.  `ClaimWritten` proves
that what cross-sign reads from the bytes of a claim is what the caller asked for,
in both encodings; `ReserveCovers` is the arithmetic of the gas reserve.

### Transactions of a shared account

`FastRight` holds of the commands, pages, network and histories together: ids of
activities are not shared, a command that goes on has told nothing, two
transactions of one activity are one, a command that has spent its transaction
does not build another, and what a command was answered is on the network.  Every
step of a command is a `CommandStep`; the lemmas `StepNumbers`, `StepTxsRight`,
`StepCommands` and `StepOutcomes` prove the invariant for it, and each action shows
that it is one.  `ReplacedOnPurpose` follows from `Dropped`: a submission drops a
proposal only by holding another transaction of the shared account at its nonce.

`WalletsRight` says that the signers of every wallet are sorted, each once.  That a
sorted sequence is determined by its members (`SortedOnce`) is proved without
induction on sequences, from the least position at which two of them differ
(`LeastExists`, from the well-foundedness of the naturals).

`WaitsRight` is the invariant of a wait for a payment.  The floor is the start of
the window or at least the overlap behind the clock, so a matching row below it
was published late; a scan in progress has found the earliest payment of what it
has read, and what it went past without one was late as well; only a poll that
began before the last stretch has a bound above the start of the window.

### Assumptions

All are named `ASSUME`s, evaluated by TLC in the runs.  `PidsAssumption` and the
like keep names apart and make bounds natural numbers.  `NamesAssumption`:
automatic names are numbered from one, without gaps.  `NoCallAssumption`,
`RefusalAssumption`: a value that stands for nothing is none of the others.
`CommitteeAssumption`: a committee has two members at least, and no stranger.
`CommandsAssumption`, `PagesAssumption`: the commands and calls that the members are
given have members of the account, kinds and routes there are.  `WaitAssumption`:
times and periods are natural numbers, and the periods are positive.
`ConfigNonceAssumption`: `MaxConfigNonce` is a natural number; it stands for the
largest u64, and what a user types may exceed it and is then refused.

### What the proofs found

* The bound on a pending request's failures was one too high for a limit of one
  attempt; `FilesTypeOK` states the bound the code keeps.
* `DepositNotStarved` failed in the model for fees that are no whole number of token
  units, because the model rounded every fee up.  The chain charges in native
  units; `Ledgers` now does too, and the token's `BalanceOf` shows whole units.
* `ClaimedOnce` failed for more calls than the run explores when a second X session
  took the place of the first in the model.  A session has a settlement of its
  own in the code, so the model follows the first only (section 9).

### Only model-checked

Liveness (`CallsReturn`, `SettlementRecovered`, `RowFound`, `SettlementRecorded`):
liveness under fairness is beyond this prover.  The three expected violations.
What a recursive definition over data computes; none of the modules proved about
has one.  `CanonicalizeMultiSigSigners` sorts by a definition of its own, by rank,
because TLC's `SortSeq` has no definition the prover could use.

## 7. Findings

* `sign_durability`: the design document promises that a journal write failure is
  never represented as durable recovery.  A save that fails after its rename is
  reported honestly by its own call, but the next call reads the record and
  reports it as persisted although its directory was never synced.
* `lock_dead_owner`: a waiter that has read the owner of a lock asks whether the
  owner's process is alive without looking at the file again.  If the owner
  released the lock and exited in between, the waiter throws "journal lock ...
  has a dead owner; manual inspection and explicit recovery are required" where
  no such lock exists.

* `pay_recorded`: `fast pay` says it records in history if payment was made.  The
  x402 client reports the amount of an EVM payment in whole tokens, `fast pay`
  takes it for units: a whole number is recorded a million times too small, and a
  fraction makes `BigInt` throw after the payment, with nothing recorded.

Seen while modelling, without a document that denies it:

* A payment certificate of the Fast network may be presented again; neither the
  middleware nor the facilitator remembers the certificates that bought content.
* An `IdClient` whose revocation ends while the same OAuth identity is being
  claimed again forgets that settlement too (`client.ts:195`), so one more call
  starts a second one; `ClaimedOnce` counts what was started since the last
  forgetting.
* Two X sessions for one handle, or two website instructions for one host, remember
  a settlement each (`proofs.ts:560`, `proofs.ts:787`): settling both pays twice.
* The pending file and the tables have no lock, and commands that overlap can lose a
  live request (`complete.ts:240`, `request.ts:150`), count two failures as one or
  bring a spent request back (`complete.ts:230`), or make two default accounts
  (`account.ts:135`); a death between the two updates of `setDefault` leaves none
  (`account.ts:268`).  A request generated during a decryption has the other's
  failure counted on it (`agent.ts:179`).  `PendingKept`, `DefaultsResolve` and the
  second half of `SeedReleasedOnce` say that these are the only ways, and
  `RequestSpent` and `DefaultsResolve` what holds again afterwards; they do not say
  that the overlapping commands themselves do no harm, because they do.

## 8. Plan

Done, in this order: settlement, registration, withdrawal, locks, with their
proofs; local state, payments, transactions of a shared account, the fastid-sdk
client; then the proofs of all their safety properties.  What is left:

1. Refinements for the parts without a lock: an abstract wallet page (one call in
   flight) for `WalletPopup`, an abstract account of a payment (asked, paid, served)
   for `Payments`, and one for the proposals of a shared account.
2. Operator lemmas worth having by themselves: the quorum of `X402Terms`, the
   round trip of both claim encodings for every intent.
3. The floating-point amounts of `send`, as far as integers can tell (section 9).

## 9. Not modelled

* Codecs and wire formats (sign-sdk, fast-schema, fastid-sdk messages, report
  sealing, BCS, ABI and JSON bytes), attestation bytes, certificate parsing: pure
  functions whose results are values the models tell apart.
* Amounts as numbers, except where a property compares them (prices, balances,
  reserves, fees).  `fast send` takes amounts through floating point; doubles
  are beyond the tools used here.
* Path, mode and symlink checks of the journals: they only refuse.
* CLI grammar, prompts, output, and commands that only show something (the checks of
  `CliCommands` on arguments are there because they decide which commands reach the
  pipeline at all; no property is about their messages); the plain
  reads of fastid-sdk and their validation, `waitForOAuthProof`, share links.
* In `FastIdClient`: more than one property of a kind, more than one X session
  or website instruction, the death of the client (it keeps nothing on disk).
* The unlink of a lock file before a power loss may come back as a dead lock;
  that fails closed, like any dead lock, and is left out.
* Clock values other than the deadlines and time stamps a property needs.
* Withdrawal: one journal per withdrawal, as the CLI's README requires.
