# MetaPayroll: models, checks and proofs

MetaPayroll pays salaries in ERC-20 tokens.  An employer creates a vault contract through a
factory, fills it with tokens, lists employees with a salary, a token, a first pay date and a
period, and registers the vault with Chainlink Keepers, whose nodes then call the vault whenever a
salary is due.  The employer works through a React client; the keepers are paid in LINK.

Paths are relative to the root of the repository (`src/EthVault.sol` is the contract,
`client/src/...` the client, `lib/chainlink/...` the vendored Chainlink code the vault and the
client call).

- [The system](#the-system)
- [Which module models what](#which-module-models-what)
- [What the runs check](#what-the-runs-check)
- [Bounds](#bounds)
- [Fairness](#fairness)
- [What is proved](#what-is-proved)
- [Where the code departs from what it says](#where-the-code-departs-from-what-it-says)
- [What is left out](#what-is-left-out)
- [Plan](#plan)

## The system

| component | state | operations | talks to |
|---|---|---|---|
| Vault: payroll (`src/EthVault.sol`, `src/BscVault.sol`, `Ownable.sol`) | `owner`, `employees[]`, `totalEmployees`, `employeeDetails`, token balances | `addEmployees`, `editEmployees`, `removeEmployees`, `withdrawToken`, `checkUpkeep`, `performUpkeep`, `transferOwnership`, `renounceOwnership` | tokens (calls), registry (is called), client (events, reads) |
| Vault: upkeep (`src/EthVault.sol:57-100, 178-185`) | `upkeepId` | `registerAndPredictID`, `checkIfLinkIsWithdrawable` | LINK, registrar, registry |
| Factory (`src/EthMaster.sol`, `src/BscMaster.sol`) | `allVaults` | `createVault` | vault (constructor), client (`VaultCreated`) |
| Keeper registry and registrar (`KeeperRegistry1_2.sol`, `KeeperRegistrar.sol`, `LinkToken.sol`) | upkeeps, `s_upkeepIDs`, nonce, keepers' balances, owner's fees, `s_expectedLinkBalance`, pause flag; pending requests, approval count | register, approve, cancel, addFunds, performUpkeep, cancelUpkeep, withdrawFunds, withdrawOwnerFunds, recoverFunds, withdrawPayment, pause, unpause, setKeepers | vault (`performUpkeep`), LINK |
| Keeper node: upkeep executer (`core/services/keeper/upkeep_executer.go`, `orm.go`) | a job per upkeep and head, the last run it knows of | whose turn, check, simulate, send | registry (calls), transaction manager (queue), synchronizer (table) |
| Keeper node: transaction manager (`core/chains/evm/txmgr`) | `eth_txes`, `eth_tx_attempts`, `eth_receipts`, `next_nonce` | `CreateEthTransaction`, broadcaster, `ProcessHead` of the confirmer, resender, reaper, nonce syncer | eth node, database, head tracker |
| Keeper node: log broadcaster (`core/chains/evm/log`) | `log_broadcasts`, `log_broadcasts_pending`, the log pool, channels of logs and heads | subscribe, backfill, `onNewLog`, `onNewHeads`, `MarkConsumed` | eth node, database, listeners (mailboxes) |
| Keeper node: registry synchronizer (`core/services/keeper/registry_synchronizer_*.go`) | `keeper_registries`, `upkeep_registrations`, a mailbox | `fullSync`, `processLogs` and its handlers | log broadcaster, registry (calls), executer (table) |
| Home page (`client/src/Home.js`) | `address`, `vaultContract`, `isExists`, `vaultLoading`, the listeners | `checkIfVaultExistsForThisAddress`, `loadVaultContract`, `createVault`, `VaultCreated` listener | factory |
| Dashboard (`components/Dashboard.js`) | `employeeAddresses`, `allEmployees`, `loadingEmployees`, balances, alerts | `getAllEmployees`, `getLinkBalance`, `addFunds`, `withdrawFunds`, event listeners | vault, registry, tokens |
| Employee forms (`AddEmployeeForm.js`, `EditEmployeeForm.js`, `Employee.js`) | fields of a form, its spinner | add, edit, remove | vault |
| Account page (`client/src/Account.js`) | LINK balance, `isWithdrawable` | cancel the upkeep, withdraw its LINK | registry, vault |

What is hard in it, and what each part has to get right:

- **Payments are pulled by strangers.**  `performUpkeep` has no access control.  Keepers come
  late, several at a time and twice, with data from a check made on an older block.  The dates must
  stay on the schedule the owner set; nobody may be paid ahead; nothing but a salary that is due
  may leave the vault.
- **The employee list only grows.**  Removing marks a record, adding again appends the address
  again, editing accepts anybody.  `checkUpkeep` scans the list and reports one index.  It must
  find somebody exactly when somebody listed is due.
- **The registry's nonce is shared.**  The vault computes the id of its upkeep from a nonce that
  other contracts' registrations move, and checks afterwards that it moved by one.  `upkeepId` must
  name the vault's own upkeep, and no LINK may go elsewhere.
- **The registry's books** are one number kept up to date by seven functions; it decides what may
  be handed out as surplus.  Cancellation has two stages, a delay and a block.
- **Keepers work in three steps** (check, simulate, transact) and the chain moves in between.  The
  registry charges for a perform that does nothing.
- **A transaction must be carried out once, whatever happens to the node.**  The transaction manager
  gives out a nonce before it sends, may never see the answer, may be restarted between any two
  steps, bids again when a transaction lingers and sends again what a reorganisation dropped.  No
  nonce may be lost or used for two transactions, and none forgotten that a node still has.
- **A keeper acts on a table it keeps from logs.**  Logs arrive twice, late, from blocks that a
  reorganisation removes, and not at all while the node is down or its connection broken; they are
  backfilled, held until confirmed, handed over through a bounded mailbox and consumed once.
- **The pages are asynchronous.**  Home asks two questions whose answers decide independently what
  is shown; the Dashboard starts a load for every event and every listener, the loads overlap, and
  the row an edit form stands in may change its employee.

`PROJECT.json` lists the hazards line by line with the properties aimed at them.

## Which module models what

```
ERC20 <--- Payroll            (abstract)
  ^           ^ implements
  +------- EthVault <--- Automation <--- KeeperNodes
              ^              | instance
              |              v
          Dashboard     KeeperRegistry (extends ERC20)
EthMaster <--- Home             LogBroadcaster <--- KeeperSync       TxManager
```

A call that reverts changes nothing, so it is no step; its `require`s are the guards of the action.

**ERC20** has the balances and `Transfer` as a caller sees it that ignores the Boolean result, as
`EthVault` does: most tokens revert a transfer they cannot make, those in `FalseTokens` answer
`false` and move nothing.  `Covers` tells whether the sender has the amount.

**EthVault** has one action per function of the contract.  `UpkeepNeeded` is the condition of
`performUpkeep`, `NextDate` the date it writes, `DueIndices` the test of `checkUpkeep`'s loop, and
`PerformReverts` the two ways a perform fails: the token's transfer, or the sum of date and period
exceeding `uint256`.  A call for somebody not due returns without effect and is therefore a
stutter.  `addFunds` is the client's ERC-20 transfer to the vault.  Three history variables are
added: `first` (the date last set by the owner), `paid` (performs since) and `enrolled` (addresses
once added).  Addresses outside `Users` are not needed: `Zero` may be a payee.

**Payroll** says what a payroll is without a stored next date: terms with a first date and a
period, and a number of instalments paid, of which the k-th is due at `first + k * period`.
`EthVault!P` is the refinement mapping.

**KeeperRegistry** has one action per function of the registry and the registrar that moves LINK
or changes who may.  What a perform costs is a member of `Payments` not above `MaxPayment`, which
stands for the registry's worst-case price.  `addFunds` and `onTokenTransfer` are one action, as
are the registrar's transfer and the registry's record in `_approve`.

**Automation** puts the vault and the registry on the same balances and the same clock: a block
moves the number and the timestamp together.  `PerformThroughRegistry` is the registry's perform
with the vault's `performUpkeep` inside it, or without an effect on the vault if the call does
nothing or fails, since the registry charges in both cases.

**KeeperNodes** splits the work of a keeper: `KeeperCheck` (`checkUpkeep` at a head),
`KeeperSimulate` (the pipeline's simulation of the perform) and `KeeperPerform` (the transaction is
executed, or reverts in the registry).  Everybody's transactions come in between.  A keeper acts
when it is `Eligible`: it has the turn and was not the last to run, or the grace period has passed
since, or the turn is its buddy's, who was the last.  "The last" is what its own database says
(`lastRun`), which differs from the registry's `lastKeeper`: a keeper records its run when the
transaction is queued (`KeeperSimulate`), whether it succeeds or not, and learns of the other's from
a log (`handleUpkeepPerformed`), later.  `NewHead` gives the turn to anybody, as a block's hash does.

**TxManager** is what `KeeperPerform` abstracts: how a keeper's transaction gets onto the chain.
Its state is the three tables and the nonce, where the confirmer is in `ProcessHead` (`phase`), and
the environment: the account's transactions on the longest chain, the mempool, the last abandoned
fork.  One action is one database transaction of the code together with the request it follows
from; that the answer of a request is lost, or the process stops before it is saved, is the
answer "unknown" and `Stop`.  The broadcaster (`saveInProgressTransaction`,
`handleInProgressEthTx`), the confirmer's phases, the resender and the reaper interleave, as their
goroutines do, with the node's answers (`Answer`), new heads and a reorganisation (`NewHead`).
Block numbers are kept as ages, relative to the newest head, so that the state space is finite
without an end of the chain; `lag` is how many heads the confirmer is behind, and a receipt knows
whether its block is on the longest chain, on the confirmer's head's, or gone.  A gas price is a
number up to the account's limit.  A *world* fixes prices, hopeless transactions and the kinds of
faults of one behaviour.

**LogBroadcaster** and **KeeperSync** are how the executer's table comes about.  The broadcaster's
channel of raw logs is `raw` (what is left of the last subscription, then the backfill) followed by
`live` (the current subscription); the event loop takes from it (`OnNewLog`), takes the latest head
(`OnNewHeads`: send what is confirmed and not consumed, then drop what is old) or notices a broken
connection, in any order.  `rows`, `consumed`, `pendingMin` and `savedHead` are the database and
survive `StopBroadcaster`.  A log is named by its block's number and fork and its position in the
*feed*, the logs the contract will emit; a world is a feed and the faults of a behaviour, each at
most once.  With `savedHead` 0 there is none saved or it is the first block; either way the backfill starts at
the first.  The synchronizer reads the registry (two steps of a full sync), takes its mailbox, and
handles and marks one log at a time, so that a stop may come between the two.

**EthMaster** and **Home**: the factory, and the page in front of it.  A question is asked (`Ask`),
read by a node (`Read`) and answered (`Return`) or fails (`Fail`) in separate steps.
`DashboardEffects` follows the mounted Dashboard: its effects run when it is mounted and never when
its contract changes.  With `InOrder` answers come in the order of the questions.

**Dashboard**: `getAllEmployees` as the chain of reads it is (`ReadTotal`, one `ReadRow` per index,
`FinishLoad`), any number of them up to a bound overlapping each other, the forms' transactions
and the keepers' payments.  The edit form keeps the data it was opened with; the address comes from
the row it stands in, because rows are keyed by their position (`Dashboard.js:365`).  A
record carries `of`, the address it was read for, as history: the code does not keep it.

Definitions marked "Faulty variant" are not part of the model: each is a plausible mistake in the
definition below it, used to show that the properties notice it.

## What the runs check

| run | module, cfg | distinct states | shows |
|---|---|---|---|
| `vault_pay` | MCEthVault, `_pay` | 176,112 | types; `ScheduleExact`, `NeverAhead`, `CheckUpkeepAgrees`, `OutflowJustified`, and the refinement `ImplementsPayroll` |
| `registry` | MCKeeperRegistry | 219,480 | `Accounting`, `Solvent`, `ActiveIDs`, `CancelIsFinal` |
| `automation` | MCAutomation | 414,960 | `UpkeepIdTracks`, `WithdrawableAgrees`, `LinkAccountedFor` |
| `keepers` | MCKeeperNodes | 129,918 | `Disbursed` (liveness), `StalePerformHarmless`, `WasteBounded` |
| `tx_manager` | MCTxManager | 240,804 | `RowsConsistent`, `SentIsSaved`, `NoNonceGap`, `OnceInOrder`, `ReapedIsMined`, `EventuallyConfirmed` (liveness) |
| `keeper_sync` | MCKeeperSync | 264,521 | `DeliveredHasRow`, `RepeatedOnlyAfterStop`, `EachConsumed` and `TableSettles` (liveness) |
| `home` | Home, MCHome | 581,068 | `Settled`, `NoEmployeesIsTrue`, `SpinnerEnds` (liveness), answers in order |
| `dashboard` | MCDashboard | 1,640,459 | `RowsPaired`, `LoadingEnds`, `FormFollowsRow`, `TableSettles`, with a token that answers false |
| `blocked_salary` | MCKeeperNodes, `_blocked` | violated | `EachDisbursed` |
| `paid_twice` | MCDashboard, `_twice` | violated | `NoDatePaidTwice` |
| `reorg_stuck` | MCTxManager, `_broke` | violated | `ReorgedIsRebroadcast` |
| `sync_unarmed` | MCKeeperSync, `_failing` | violated | `FullSyncRepairs` |

In words:

- `ScheduleExact` and `NeverAhead`: the stored date is the owner's date plus one period per
  payment, and the instalment paid last had been reached.  A retry, a late keeper or two keepers at
  once cannot pay an instalment early or twice *under one set of terms*; what an edit does to this
  is the subject of `paid_twice`.
- `CheckUpkeepAgrees`: the scan and the roster agree through any removals and re-additions.
- `OutflowJustified`: tokens leave the vault to the owner or as a full salary of somebody due.
- `WithdrawableAgrees` compares what `checkIfLinkIsWithdrawable` tells the Account page with
  whether the registry would accept the withdrawal, in every reachable state.
- `LinkAccountedFor`: LINK that leaves the vault is withdrawn by the owner, paid as a salary, or is
  found on the vault's own upkeep.  In particular `registerAndPredictID` never leaves LINK in a
  pending request: it reverts when the registrar does not approve at once.
- `WasteBounded`: LINK charged for performs that pay nobody is bounded by the salaries paid and
  the transactions other people sent.  Without the nodes' simulation it is not.
- `Disbursed` has the assumptions the code needs: the automation is in order from some point on and
  *everybody* owed can be paid.  It needs the grace period: if a keeper that ran last only waited
  for the others, one whose transaction had reverted would wait for a keeper the registry refuses.  `EachDisbursed` asks it of each employee alone and is violated.
- `OnceInOrder`, `SentIsSaved` and `NoNonceGap` are what the broadcaster's header promises
  (`eth_broadcaster.go:84-92`): the account's transactions are carried out once each and in order,
  nothing reaches a node that the database does not know, and no nonce is left that nobody sends.
  `ReapedIsMined`: what the reaper forgets was carried out.  `EventuallyConfirmed`: once faults and
  reorganisations end, every transaction is confirmed with a receipt of the longest chain, or
  rejected and not on it.
- `DeliveredHasRow` is what makes a restart safe: a log handed to a listener has a row until it is
  consumed, and the restart backfills from the rows.  `RepeatedOnlyAfterStop`: the duplicates of the
  channel, the heads and the backfill reach a handler a second time only around a restart.
  `EachConsumed` and `TableSettles`: all logs are consumed in the end and the table equals the
  registry's active upkeeps, with the exceptions they name.
- `FormFollowsRow`: an open edit form stands in the row of the employee whose data fill it, unless
  the vault changed under a load or a load failed.
- `Settled` and `NoEmployeesIsTrue` hold as long as no listener of another account is left on the
  page.  The proviso is needed: listeners are added with the address of their render and never
  removed (`Home.js:82`), and after a change of account the old address's answers overwrite the
  page's contract.
- `TableSettles` is conditional on no change to the vault while a load was reading it (`overlap`):
  without the condition it is violated, because a load that started before a change may finish
  after the one that was started for it and put back the older table (`Dashboard.js:136`).

Every property of a passing run is also violated by at least one mutation of the code's
definitions (a dropped guard, a swapped order, a forgotten reset); `PROJECT.json` lists them.

Deadlock is checked in `keepers`, `tx_manager` and `keeper_sync`, whose chains never stop.  It is not in the
others.  The vault and the registry have nothing they must do: once the bounded
clock has run out, an owner has renounced and nobody has tokens, nothing more can happen, and on
the pages nothing happens when nobody clicks.  That something *does* happen is stated by the
liveness properties.

## Bounds

The bounds are CONSTANTS of the modules (`MaxTime`, `MaxListed`, `MaxNonce`, ...), each a guard of
the action that counts.

- **Vault**: two payees of whom one is the owner, three list entries (an address can be there
  twice, next to another), a clock up to 3 with periods 1 and 2 (several instalments missed and
  caught up), `MaxUint = 3`, so that the sum of date and period overflows within the run, salaries
  and balances of one (a payment succeeds, and the next one lacks the money).  Period 0 is left out
  of the runs: it makes the number of payments unbounded while the date stands still.  The
  theorems include it.
- **Registry**: two upkeeps, two keepers, two users of whom one owns the registry, one
  auto-approval before requests have to wait, three blocks with a cancellation delay of one, so that
  a canceled upkeep is seen before, at and after its last block.
- **Automation**: two upkeeps issued to the vault or to another contract, two users of whom one
  owns the registry, two keepers, one LINK, two blocks.  No employees, so that of the ways LINK
  may leave the vault only the salary is missing; that one is proved for every token
  (`OutflowIsJustified`) and salaries paid through the registry are in `keepers`.
- **Keeper nodes**: two keepers, each the other's buddy, a grace period of one head, two employees,
  two transactions of other people at any point between the keepers' steps, LINK for four performs,
  two blocks with a cancellation delay of one and any number of heads.  Ages stop at one beyond the
  grace period; of two runs that old either may be the newer one.
- **Transaction manager**: two transactions, one in flight at a time and two queued, prices 1 to 3, a
  bump after one block and of the oldest transaction only, one fault and one reorganisation of one block, the confirmer at most one
  head behind, finality after three blocks.  `FinalityDepth` has to exceed the depth of
  reorganisations and the heads the confirmer misses or fails on (50 in the code's configuration);
  the run has the least value for which it does.  Four worlds: a reorganisation beside one fault of
  any kind (a lost answer, a restart, an eviction, a node on the old fork, a missing receipt), at one
  price; a reorganisation with dearer attempts; blocks dearer than the first price with an empty
  wallet or a transmit check that fails; a node with a higher least price and one transaction that
  every node rejects.  A fault together with bumping and a reorganisation was checked once (447,000
  states) and is left out of the run for its time.
- **Log broadcaster and synchronizer**: a chain of five blocks whose last head repeats, one log in
  each of the first two, two confirmations, finality after two blocks, a backfill margin of one, a
  reorganisation of one block.  The mailbox has room for seven logs and
  does not overflow (`EachConsumed` is not about what it drops).  Three worlds: a restart and a
  reorganisation; a broken connection and a reorganisation; a backfill that gives up and a failing
  call, with a registry whose configuration comes as a log.  The chain does not outrun the node: a
  log is read before the chain is `BackfillDepth` blocks further (`InTime`).
- **Home**: two accounts, two vaults, six questions under way, one reload, one change of account,
  one failure.
- **Dashboard**: two employees, two overlapping loads, four clicks, one failure, one unit of time.

Symmetry is used for keepers in `registry` and `automation` and for employees on the Dashboard, where nothing tells
them apart, and in no run with a liveness property.

## Fairness

`KeeperNodes!Fairness`: heads keep coming and each keeper gets the turn again and again, since the
turn follows from hashes of blocks (strong fairness of `NewHead(k)`); a node that is busy may miss a
head (`upkeep_executer.go:137`), but not each one at which it is eligible (strong fairness of
`KeeperCheck`); simulations run, logs are handled, and a transaction is rebroadcast until it is
mined (weak fairness).  People have none: nothing makes an owner fund the vault, and `Disbursed`
says "if from some point on".

`TxManager!Fairness`: the broadcaster's, the confirmer's and the resender's loops go on
(`eth_broadcaster.go:230-280`, `eth_confirmer.go:199-222`, `eth_resender.go:79-98`); blocks keep
coming (weak fairness of an empty head) and a transaction that is again and again in the mempool at
a price miners take is mined at some time (strong fairness of `Mine`).  The reaper and all faults
have none.

`KeeperSync!Fairness`: the process is started again; the event loop's `select` picks among ready
channels at random (`broadcaster.go:405-467`), so the raw logs, the heads and the subscription's
error each have weak fairness of their own; the synchronizer's goroutine and the resubscription run;
heads keep coming.  No fault has to happen.

`Home!HomeFairness` is weak fairness of the network (some question under way is read or
answered) and of the delivery of `VaultCreated`.  A question may fail; the spinner must end then
too.  Users have none.

## What is proved

TLAPS checks the theorems below for all values of the constants that satisfy the modules' named
assumptions (`LedgerAssumption`, `VaultAssumption`, `RegistryAssumption`, `AutomationAssumption`,
`NodesAssumption`, `TxManagerAssumption`, `DashboardAssumption`, `MasterAssumption`,
`HomeAssumption`, `LogBroadcasterAssumption`): any
sets of payees and tokens, any finite sets of users, contracts and keepers, any amounts, periods (0
included), delays and bounds, tokens that revert and tokens that answer false, any number of
transactions, prices and faults, of loads and clicks, of accounts, events
and reloads, any chain and feed.  The assumptions type the
constants, keep addresses of different parts apart, and say what the code's configuration must:
`FinalityDepth` is at least the depth of reorganisations, the weekly interval is not the bi-weekly
one.

| theorem | states | argument |
|---|---|---|
| `EthVault_proofs!TypeCorrect` | `Spec => []TypeOK` | inductive by itself; the ledger lemmas before it show that a transfer keeps balances natural, `NextDate \in Uint` that no stored date overflows |
| `EthVault_proofs!ScheduleIsExact`, `NobodyIsAhead` | `[]ScheduleExact`, `[]NeverAhead` | inductive together (`SchedulesKept`) |
| `EthVault_proofs!OutflowIsJustified` | `Spec => OutflowJustified` | each action either leaves the vault's balances, is the owner's withdrawal, or is a perform guarded by `UpkeepNeeded` |
| `EthVault_proofs!KeeperViewAgrees` | `[]CheckUpkeepAgrees` | strengthened by `Listed` |
| `EthVault_proofs!Implementation` | `FalseTokens = {} => (Spec => ImplementsPayroll)` | every step maps to a step of `Payroll` or a stutter, under `TypeOK` and `ScheduleExact` |
| `KeeperRegistry_proofs!ListIsExact` | `RegistrySpec => []ActiveIDs` | `UpkeepsInv`: strengthened by `IssuedInOrder` |
| `KeeperRegistry_proofs!CancellationIsFinal` | `RegistrySpec => CancelIsFinal` | from `UpkeepsInv`, action by action (`Preserved`) |
| `KeeperRegistry_proofs!RegistryTyped`, `BooksBalance`, `OwedIsHeld` | `[]RegistryTypeOK`, `[]Accounting`, `[]Solvent` | inductive together with `UpkeepsInv` (`BooksInv`) |
| `Automation_proofs!PredictionHolds` | `AutomationSpec => []UpkeepIdTracks` | `UpkeepsInv` and `Preserved` of the registry's proofs, with `OwnUpkeep` |
| `Automation_proofs!AutomationTyped`, `SharedBooks` | `[]AutomationTypeOK`; `Accounting` and `Solvent` in the composition | `SharedInv`: the vault's types and the registry's books on one ledger |
| `Automation_proofs!LinkIsAccountedFor` | `AutomationSpec => LinkAccountedFor` | from `SharedInv`, action by action (`Accounted`) |
| `Automation_proofs!TokensAreAccountedFor` | the same of every token | `AccountedStep`; `BystandersKeep` says which accounts a registry's step leaves alone |
| `Automation_proofs!AutomatedScheduleIsExact`, `AutomatedViewAgrees` | `ScheduleExact`, `NeverAhead` and `CheckUpkeepAgrees` in the composition | `PayrollInv`: a step of the composition is one of the vault or leaves its variables (`VaultActs`) |
| `Automation_proofs!WithdrawButtonWorks` | `WithdrawableAgrees` with the condition of `withdrawFunds` in place of ENABLED | `SharedInv` and `RefundHeld`: an upkeep's refund is part of what the registry owes and holds |
| `KeeperNodes_proofs!KeepersOnlyCall` | `NodesSpec => [][AutomationNext]_automationVars` | `NodesAct`, action by action |
| `KeeperNodes_proofs!KeptScheduleIsExact`, `KeptBooksBalance`, `KeepersTakeNothing` | the composition's dates, books and outflow with keepers at work | the lemmas of `Automation_proofs` through `NodesAct`; no LINK goes to an upkeep once there is one |
| `KeeperNodes_proofs!NodesTypeCorrect` | `NodesSpec => []NodesTypeOK` | a keeper's step is a step of `Automation`, so `SharedInv` is kept (`NodesInv`) |
| `KeeperNodes_proofs!LatePerformHarmless` | `NodesSpec => StalePerformHarmless` | from `NodesInv` and the perform's guard, for every step between check and execution |
| `KeeperNodes_proofs!WasteIsBounded` | `PaymentsCapped => (NodesSpec => []WasteBounded)` | `WasteInv` counts the jobs that have gone stale |
| `TxManager_proofs!TxManagerTyped`, `CarriedOutInOrder` | `[]TypeOK`, `[]OnceInOrder` | `Inv`: types, the rows' states (`RowsInv`), the order of the nonces (`NoncesInv`) |
| `TxManager_proofs!RowsStayConsistent` | `RowsConsistent` in every world without `"feecap"` | `Inv` and `Kept`: whoever was sent has an attempt |
| `TxManager_proofs!WhatWasSentIsSaved`, `NonceIsOnChainOrHeld`, `ForgottenIsMined` | `SentIsSaved`, `NoNonceGap`, `ReapedIsMined` in the worlds `Steady` | `Inv` and `CrashSafe` |
| `TxManager_proofs!ForkedWhatWasSentIsSaved`, `ForkedNonceIsOnChainOrHeld`, `ForkedForgottenIsMined` | the same three in the worlds `Forking`, if the constants leave the room of `Margins` | `Inv` and `ForkInv`: whoever is behind the chain has a reason, with an age |
| `TxManager_proofs!GivenUpOnlyWhenOld` | `RoundsEnd => GivenUpIsOld` (as `Spec /\ RoundsEnd => ...`) | `Inv` and `RoundInv`: attempts get their blocks in the same round |
| `Dashboard_proofs!PageTyped`, `RowsArePaired`, `TableIsShown` | `[]DashboardTypeOK`, `[]RowsPaired`, `[]LoadingEnds` | inductive together (`PageInv`) |
| `Dashboard_proofs!FormStaysOnRow`, `TableShowsRoster` | `[]FormFollowsRow`, `[]TableSettles` | `PageInv` and `Fresh` |
| `Home_proofs!HomeTyped` | `HomeSpec => []HomeTypeOK` | inductive with the listeners being finitely many (`TypedPage`) |
| `Home_proofs!SettlesOnTruth`, `NoEmployeesTold` | `InOrder => (HomeSpec => []Settled)`, likewise `[]NoEmployeesIsTrue` | `HomeInv`: `TypedPage`, owners of vaults, and what is right of a page with its own listener only (`Right`) |
| `KeeperSync_proofs!SyncTyped` | `Spec => []SyncTypeOK` | inductive with `Held`, part by part (`Typed`); `ListedTyped`, `ForkedTyped` and `DeliverFits` say what the operators that choose or recurse return |
| `KeeperSync_proofs!NothingForgotten` | `Spec => []DeliveredHasRow` | strengthened by `Held` |
| `KeeperSync_proofs!RepeatsBounded` | `Spec => []RepeatedOnlyAfterStop` | strengthened by `LostCounted` |

**The vault.**  `NeverAhead` is not inductive: it speaks of `first + (paid - 1) * period`, while the
guard of `performUpkeep` compares the *stored* date with the clock.  `ScheduleExact` ties the two
together, and the conjunction with `TypeOK` is inductive.  `CheckUpkeepAgrees` compares the scan of
a list with a set of addresses; `Listed` says that the list's entries are exactly the addresses ever
added and that `totalEmployees` is its length, which removals do not touch and additions keep.
`Implementation` assumes no false-answering token because with one the contract really is no
payroll: it counts an instalment as paid that was not.

**The registry.**  `ActiveIDs` alone does not survive a registration, which writes a record under a
new id: `IssuedInOrder` says that no id above the nonce has a record yet.  `Preserved` is what one
step of anybody leaves of every upkeep (an issued one keeps its target, a canceled one its end); both
theorems of the registry and the vault's use it.

`Accounting` equates one stored number with three sums.  A sum is a fold over a set, and nothing can
be proved of a fold by the library's induction theorems.  `SumIsCount` gets there
without them: a function that counts units (`Units`, a set whose cardinality is the sum) satisfies
the fold's recursive equation, and a smallest set at which two solutions differ cannot exist.
That a sum changes by what one summand changes by (`SumChanges`) is then a fact about
cardinalities of finite sets.  This is why `RegistryAssumption` takes users, contracts and keepers
to be finite, which addresses of 160 bits are.  Each operation changes one summand and
`s_expectedLinkBalance` by the same amount and moves that much LINK; that an upkeep issued starts
from an empty record needs `IssuedInOrder` again.  `RegistryTypeOK` is where the contracts' checked subtractions are: a
withdrawal that could make a field negative would be a type error of the model.

**The composition.**  `Automation` refers to the registry through an instance, and its proofs to an
instance of the registry's *proofs* with the same substitution, so that a step of the composition is
a step the registry's lemmas speak of (`SameAssumption` to `SameBlock`).  `OwnUpkeep` is then kept
because targets never change, and established by `registerAndPredictID`: a nonce that has moved means
a request approved at once, under the id predicted.  Types and books cannot be proved for each side
alone, since both write the one ledger: a salary may be paid in LINK, to anybody, and a perform pays
keepers inside the registry and an employee inside the vault in one step.  `SharedInv` holds them
together; a vault's step leaves the two accounts that the books speak of or adds to them, and a
registry's step leaves the ledger well typed.

`PayrollInv` carries the vault's own invariants into the composition: whatever a step of `Automation`
does to the registry, what it does to the vault's variables is an action of `EthVault` or nothing
(`VaultActs`), so that a perform which comes through the registry is guarded like one that does
not.  `Accounted` is the outflow of `LinkAccountedFor` for any token: no operation of the registry
takes from an account that is not its caller's, its own or the registrar's.  `WithdrawableAgrees`
asks whether an action is ENABLED; its action is a condition of the state and a
value for every variable (`WithdrawSplits`), and the theorem is about the condition.  The page does not look
at the registry's balance, so what has to be proved is that the transfer cannot fail: the refund is
one summand of what the registry owes, which it holds.

**The keepers.**  `NodesAct` is the refinement: a node's steps between check and execution change
nothing of the contracts, and its execution is the registry's `performUpkeep`.  What the contracts
promise under `AutomationNext` they therefore promise under any keepers, and `KeepersTakeNothing`
is stronger than what holds without them only because the upkeep is there.  `NodesInv` adds to `SharedInv` that the vault's upkeep is the first one issued.
`WasteBounded` compares money charged with steps counted and is not inductive: between check and
execution a job may become useless, which has cost nothing yet.  `Stale` is the set of jobs whose
employee is no longer due, or that have been sent and whose payment would now revert, and `WasteInv`
says that what was charged *and will be for them* is within the bound.  A job becomes stale only by a
salary paid or by somebody's transaction, and either makes at most one per keeper so; a perform that
pays nobody removes its own job from the set.  `PaymentsCapped` is the price the registry computes before it
performs: the charge of a perform never exceeds the worst case that it was checked against.  The
registry's module leaves `Payments` free because only this theorem needs it.

**The transaction manager.**  `OnceInOrder` follows from `NoncesInv`, with `RowsInv` beneath it: transactions
start in the order of their creation, and whatever claims a nonce for one (its row, a mempool's entry,
the chain) claims them in that order.  No fault and no reorganisation disturbs this, so the theorem
has no hypothesis.  `RowsConsistent` has one: when a node that caps fees refuses an attempt sent again
after a reorganisation, the confirmer deletes it, although it may be the transaction's last.

`CrashSafe` is what the other three need: an attempt in a mempool or on the chain is a row, a nonce
has one claimant, each nonce below `nextNonce` is on the chain or some row's, and receipts, reaped rows
and confirmed rows are of what was mined.  `Steady` names the worlds it holds in with *any number* of
faults: lost answers, stops between any two steps, evictions, nodes that answer from an older state.

`ForkSafe` is their counterpart for chains that reorganise.  The worlds `Forking` have
reorganisations, nodes that answer from an older state, and evictions.
What is at stake is that the node forgets: the reaper drops a transaction by its receipt, which may be
of a block the chain has left, and the confirmer gives up one it has not sent since the final blocks,
which may be one that a reorganisation has just brought back.  A transaction is *behind* when it waits
for its receipt and a later nonce has one, so that it is taken for mined.  `ForkInv` says why each
one that is behind is not forgotten yet: the event that put it there is so recent that the confirmer
has not finished a head since (`Just`); or the later receipts are of blocks the chain has left,
and this round puts them back (`Soon`); or they are not, and this round finds its own receipt
(`Now`).  With each reason goes a bound on how long ago its newest attempt was sent, which every event
moves by the heads that the confirmer can miss (`Slack`).  Hence the hypothesis `Margins`, which
relates constants only: `FinalityDepth` leaves room for a fork and the heads missed while the confirmer sees it, and
for two lags per event.  The constants of MCTxManager.cfg meet the second bound exactly; the code's
50 blocks allow 25 events at a lag of one head.  The condition is sufficient, not the least that would do: it
adds up all events as if nothing were confirmed between them.

`Forking` has no restarts: with one beside a reorganisation, two transactions in flight and two prices,
`SentIsSaved` and `NoNonceGap` are false, as TLC shows ("a transaction is given up" below).  With receipts that stay missing until
finality, a wallet found empty, a transmit check that fails after an answer that was lost, or a
reorganisation after one of these (`reorg_stuck` is a relative) they are false once faults repeat or coincide, as TLC shows
on small instances; there they are model-checked with the run's single fault.  A node that caps fees
(`"feecap"`) breaks `SentIsSaved` alone, when the attempt at the account's highest price is sent
again and refused, so no run has one; the theorems that do not exclude it cover it.

`GivenUpIsOld` says that the confirmer gives up a transaction without a receipt only when *every*
attempt of it was sent before the final blocks.  No run has it: in the constants of `tx_manager`
nothing is ever given up, and with those in which that happens (two transactions in flight and a
finality of two blocks) the other properties lack their margin.  TLC found it true there before it
was proved (703,005 states, with a reorganisation beside a lagging node, a missing receipt or a fee cap).
It needs `RoundInv`: only confirmed transactions have receipts, what is in progress is a
transaction's first sending or belongs to the round under way (`SentInRound`), and while transactions are judged the
attempts of one that waits have their blocks all or none (`AgesTogether`), so that the attempts
whose block is known, by which the SQL goes, are all of them.  `RoundsEnd` excludes
what ends a round early or leaves an attempt for later, and nothing else: a restart, an answer that
is not understood, and a wallet found empty.  Each exclusion is needed, as TLC shows;
forks, evictions, lagging nodes, missing receipts, fee caps and transmit checks are all in.

**The Dashboard.**  `PageInv` pairs the rows of the table and of every load under way and keeps an
open form inside the table.  `Fresh` is for a page nothing changed under: each load has read
correctly the list up to where it is, and what the last of them leaves is the roster.  `TableSettles`
speaks of a selection from a sequence; the library's `SelectSeq` is recursive, so the property says what it
selects by places (`Selects`): the n-th row is that of the employee at the n-th employed place
of the list, and the lemmas on `Place` say how that grows by one entry read and is kept when somebody is paid.

**Home.**  What the page shows while questions are under way is often wrong; what matters is the
*last* question of each kind.  `Right` says that when no event is on its way that one is unanswered or
answered with the truth, or, if there is none, that the page has the truth already; a creation by
the account itself makes old answers false, but puts an event on its way in the same step.  For
employees, `StaffedKnown`: a vault gets its first ones from a Dashboard that loads them, and after
a reload the vault's question, asked first, is answered before the one that mounts the Dashboard.
Both fail with answers out of order, as TLC shows with `InOrder = FALSE`, so the theorems have that
hypothesis.  The listeners' questions are a concatenation that the library defines by recursion;
`FlattenUnfolds` to `AsksFlattened` say what it is, a least place where it differs being impossible.

**The synchronizer.**  `SyncTypeOK` is inductive, but the logs of a backfill come in a list that is
*chosen*.  That there is one to choose (`CanBeListed`) is an induction on how many logs there are: the
first of them, by block and place, goes in front of a list of the rest.  `ForkedTyped` does
the like for the chains a reorganisation leaves, and `DeliverFits` is the mailbox's bound: it keeps
the newest that fit.
`Held` says where a delivered log can be: the mailbox and the batch hold rows
only, and are empty while the process is down.  A row goes when its log is consumed, which the batch's
head is, or at a restart, when mailbox and batch are empty; neither the mailbox's overflow nor a
reorganisation adds anything.  `LostCounted` gives the count an inductive form: a handler that has run
and whose log is not marked can be undone only by a stop, each of which loses at most the one log in
hand, and each repetition uses one up.

Only model-checked:

- liveness, which is out of the prover's reach: `Disbursed`, `EventuallyConfirmed`, `EachConsumed`,
  the synchronizer's `TableSettles`, `SpinnerEnds`;
- `WithdrawableAgrees` as it is stated, with ENABLED; its condition is proved (`WithdrawButtonWorks`);
- `SentIsSaved`, `NoNonceGap` and `ReapedIsMined` in the worlds of `tx_manager` that neither `Steady`
  nor `Forking` describes: with one fault, and with one of some kinds beside a reorganisation.

## Where the code departs from what it says

Each of the first four is a run whose counterexample is the sequence described.

1. **An instalment is paid a second time** (`paid_twice`).  The edit form is filled when it is opened
   and sends the date back with every edit (`EditEmployeeForm.js:50`).  If keepers pay that date
   before the edit is mined, changing the salary alone puts the date back.
2. **One unpayable employee blocks those listed later** (`blocked_salary`).  `checkUpkeep` reports
   the first one due; if that payment reverts, keepers never send anything.
3. **A transaction lost in a reorganisation** (`reorg_stuck`).  An attempt at a higher price is
   refused because the wallet is empty, the first attempt is mined, and a reorganisation drops it.
   `markForRebroadcast` insists that the *dearest* attempt was broadcast (`eth_confirmer.go:1555`),
   fails, and fails again at every head.
4. **The periodic full sync never runs** (`sync_unarmed`).  `run` waits for the ticks of a timer
   that is started only after a tick (`registry_synchronizer_core.go:110-128`), so an upkeep that a
   failed call left out of the table is not checked until the node is restarted.

Further ones met while modelling, without a run of their own:

- **A transaction is given up while it is in the mempool**: a restart comes after a reorganised
  transaction was marked for rebroadcast, its dearest attempt in progress and without a block, and
  before the next one was.  At the next head a later nonce still counts as confirmed, by a receipt of
  the abandoned block, so this one is taken for mined; and `max(broadcast_before_block_num)`
  (`eth_confirmer.go:776`) ignores the attempt without a block.  The cheaper attempt decides, which
  is old, and the transaction is marked as failed although the chain may yet carry it out: "Any
  'confirmed_missing_receipt' eth_tx with all attempts older than this block height will be marked as
  errored" (`753`).  TLC finds it as a violation of `GivenUpIsOld` with two transactions in flight, two prices,
  one restart and one reorganisation.
- **A lost salary**: `performUpkeep` ignores the token's answer (`EthVault.sol:170`), so with a
  token that answers `false` the date moves and nothing is paid (`test/Eth.t.sol:101` expects a
  perform to raise the employee's balance).
- **One employee's terms sent to another**: rows are keyed by position (`Dashboard.js:365`); a load
  that finishes under an open form, after the vault changed, leaves the form in another's row
  (`FormFollowsRow` without its exceptions).
- **A Dashboard without its employees**: if the answer "there is a vault" arrives before the answer
  which, the Dashboard is mounted without a contract and says "No Employees Added." (`Home` with
  `InOrder = FALSE`).
- **Logs lost to two restarts**: a restart deletes the unconsumed rows and relies on the pending
  minimum (`log/orm.go:166-194`), which the first head after it clears while the pool is still
  empty (`broadcaster.go:594`), and on the last head saved, which has moved on by then.  A second
  restart before the backfilled logs have been read does not go back for them.
- **A canceled upkeep that returns**: its cancellation is handled before its registration when
  leftovers of a broken subscription precede the backfill (`broadcaster.go:358-363`), when both are in
  one block (`pool.go:194`), or when the mailbox overflows (`registry_synchronizer_log_listener.go:27`);
  syncing an upkeep does not ask whether it is still active.
- "only if the new block height is greater than the previous" (`keeper/orm.go:221`): the query also
  takes an equal one (`229`), so that of a keeper's own run and the log of another's in the same block
  the one that is recorded later stays.
- A handler's failure is logged and its log consumed (`process_logs.go:83-90`); if the first full
  sync failed, there is no registry row and every registration fails until a configuration log.
- A backfill that gives up after its retries forgets where it was to start (`broadcaster.go:356`).
- "a transaction with an attached receipt is guaranteed to be confirmed" (`eth_confirmer.go:1644`) does not hold after an
  attempt in progress is answered with "nonce too low" beside a receipt (`1357-1368`).
- The confirmer deletes an attempt that the node's fee cap refuses (`1258-1275`), to "discard this
  bumped version"; but at the account's highest price it is the attempt sent before that is sent
  again (`1107-1113`), which a node may have, as one whose answer was lost may be.  The broadcaster keeps it
  (`eth_broadcaster.go:553-556`).  A transmit check that fails on a retry forgets an attempt as well.
- `upkeepId` is never reset, so a vault whose upkeep was canceled can neither register a new one
  nor have the old one funded, while the Dashboard asks to fund it (`Dashboard.js:230`).
- "To receive all your LINK tokens back, you have to cancel your service" (`Account.js:169`): the
  registry keeps a cancellation fee of up to `minUpkeepSpend - amountSpent`.
- `allVaults` maps the creator to the vault (`EthMaster.sol:15`): after a transfer of ownership the
  old owner's page still opens it, and the new owner's finds none.
- An employee recorded with the token `address(0)` counts as unregistered (`EthVault.sol:109`) and
  can be added again.
- The edit form shows dates in GMT and reads them back as local time, so an edit moves the date by
  the browser's offset; `LocalOffset` is in the model for this, and 0 in the runs so that they do not
  depend on it.
- `IntervalFilledIn`: an employee paid bi-weekly opens in the form with a word where the contract
  needs a number, so the edit cannot be sent without choosing an interval.
- After a change of account an account without a vault may be shown the Dashboard of the account
  before it, and one vault's employees over another vault's buttons (see `Settled` above).

## What is left out

- Registry: gas prices and limits (a perform costs a member of `Payments`), `setConfig`, migration
  of upkeeps, payees and their transfer, the registrar's allow-list of senders.
- Upkeep executer: how a hash chooses the turn (anybody may have it), its execution queue, several
  upkeeps of one job.  A keeper has one job at a time for an upkeep.
- Transaction manager: several addresses (nothing is shared between them but the database), dynamic
  fees and L2 chains, forwarders, queueing strategies, `Reset` and abandoning, `ForceRebroadcast`,
  resuming pipelines, and an attempt that the confirmer finds terminally underpriced, which needs a
  node that changes its configuration.  An empty wallet is not combined with reorganisations in the
  passing run: `reorg_stuck` is what happens then.
- Log broadcaster: replay requests, listeners that come and go and the resubscription they cause,
  topic filters, listeners of zero confirmations, `BlockBackfillSkip`, a disconnection during a
  backfill.  Synchronizer: the contents of rows but for the
  last run, which is in `KeeperNodes`.
- The composition of TxManager, KeeperSync and KeeperNodes: the three meet in tables that one
  writes and another reads (`upkeep_registrations`, `eth_txes`), and each is modelled with all that
  the others may put there.
- Tokens: fees on transfer, allowances, callbacks, minting.
- Client: configuration of the wallet libraries, routing, choice of addresses by chain, a change of
  chain, wording and layout.  On Home, identical listeners are one listener, because they ask the
  same thing, and the click that creates a vault and its mining are one step.  On the Dashboard a transaction and the return of its promise are one step, one form
  of each kind is in use at a time, the number of loads an event starts is any number up to
  `MaxCopies` (it depends on how often the page was rendered), and the unit of time is the minute
  that the date field has.
- Vendored code the program does not run, tests and build files.  By lines this is nearly everything
  in the repository: the Go bindings generated from contracts (`core/gethwrappers`), and the parts of
  the Chainlink node that have nothing to do with keepers (OCR, VRF, flux monitor, the web server,
  its command line).  The bindings hold no state and take no decisions, so there is nothing to
  check about them; the rest is another program.

## Plan

Done: the payroll, the registry, their composition and the keepers' executer and turns, with proofs of
every safety property their runs check (of `WithdrawableAgrees`, its condition); the transaction manager, log
broadcaster and synchronizer, with proofs of what their faults and restarts lose and repeat; the
Dashboard's table and forms and the home page, with proofs.
Next, in this order:

1. `Funding` on top of `Automation`: the Dashboard's and the Account page's flows of several
   awaited transactions.  `upkeepId` is read before them (`Dashboard.js:176-224`) and the button
   stays enabled, so two clicks can both transfer LINK and only one can register.
2. Performs that a reorganisation undoes, in `KeeperNodes`: their logs have moved the last run already.
