# A TLA+ model of Polymath Core

Polymath Core is a set of Solidity contracts that issue and run security tokens,
and a command line program with which issuers administer them. This directory
holds TLA+ specifications of both, the TLC configurations that check the
specifications on small instances, and proofs, checked by TLAPS, that the
properties of the core hold for every number of accounts, tokens, checkpoints
and modules. Every definition is translated from the source; `PROJECT.json`
("map") gives the lines each one stands for.

The two halves have different execution models.

* **Contracts.** A transaction is one atomic step. A call that reverts leaves no
  trace, so it is not a step. There are no threads. What makes the code hard to
  test are long *sequences* of legal calls by many parties, calls *between*
  contracts in the middle of a transaction, *time* that passes between calls, and
  arithmetic with truncation at every boundary.
* **The command line** (`src/CLI`). Every operator runs a program of his own. It
  reads the chain, asks, reads again, and sends transactions one after the other.
  Between any two of these, other programs run, transactions are mined, time passes,
  or the program is stopped. What it was shown is stale when it is used, a command
  of several transactions can end after any of them, and it is then begun again.

## 1. Inventory

Paths are below `src/contracts/`, those of the command line below `src/CLI/`.

### The token
| Component | State | Operations | Interacts with |
|---|---|---|---|
| **Ledger** `tokens/SecurityToken.sol`, `libraries/TokenLib.sol` | balances, total supply, `holderCount`, allowances, partition approvals | transfer, transferFrom, operator and controller transfers, issue, issueMulti, redeem, redeemFrom, operator and controller redeem | asks every attached transfer manager before a movement; writes new holders to the data store |
| **Checkpoints** `TokenLib.adjustCheckpoints`, `getValueAt`, `tokens/STGetter.sol` | `currentCheckpointId`, one series of entries per account, the supply at each checkpoint | createCheckpoint, balanceOfAt, totalSupplyAt | dividends and votes read it; scheduled checkpoints create one in the middle of a transfer |
| **Issuer switches** | `transfersFrozen`, `issuance`, `controller`, `controllerDisabled`, `granularity`, `dataStore` | freeze and unfreeze transfers, freeze issuance, set and disable the controller, change granularity and data store | guards of all movements |
| **Module registry of a token** `SecurityToken.sol` 186-332, `TokenLib.sol` 131-252 | `modules[type]`, `names[name]`, `modulesToData`, with indexes | add, archive, unarchive, upgrade, remove, budget | transfer managers are called in array order; MINT, BURN and CHECKPOINT modules gain rights |
| **Documents** `TokenLib.sol` 362-404 | `_docNames`, `_docIndexes`, `_documents` | set, remove | none |
| **DataStore** `datastore/DataStore.sol` | typed values and arrays by key | set, insert, delete, one or many | investors and their flags, shared by the token and its modules |

### Modules attached to a token (`modules/`)
| Component | State | Hard behaviours |
|---|---|---|
| **Dividends** `Checkpoint/Dividend/` | dividends with amount, claimed, withheld, excluded, withdrawn; withholding rates | pools of several dividends in one balance; push in batches with failing payments; reclaim after expiry; dates and rates that move while claims run |
| **Voting** `Checkpoint/Voting/` | ballots, commitments, weights at a checkpoint | commit and reveal by time, cancelling |
| **Scheduled checkpoints** `Experimental/Mixed/` | schedules with period and next time | created inside a transfer; skipped periods |
| **General transfer manager** `TransferManager/GTM/` | KYC times and flags in the data store | meta-transactions with nonces, expiry |
| **Other transfer managers** (count, percentage, lockup, blacklist, manual approval, volume) | limits, lockups, approvals, rolling volumes | state updated during a transfer; a verdict on state that the transfer already changed |
| **Offerings** `STO/` | caps, tiers, funds raised, tokens sold | rounding at tier borders and at the cap, refunds |
| **Vesting wallet** `Wallet/` | templates and schedules per beneficiary | swap-and-delete, release over time |
| **Permissions** `PermissionManager/`, `Module.sol`, `Pausable.sol` | delegates, permissions, paused | guard of module operations |

### The platform
| Component | State | Hard behaviours |
|---|---|---|
| **Security token registry** `SecurityTokenRegistry.sol` | tickers with owner and expiry, tokens, user lists, all in one key-value storage | expiry while a launch is under way; swap-and-delete in lists of two owners |
| **Module registry** and factories | modules, verified, used by | version bounds |
| **Token factory, proxies** | logic versions, upgrades | order of upgrades |
| **Oracles, libraries** | | external feeds and conversions |

### The command line (`src/CLI/`)
| Component | What it does | Hard behaviours |
|---|---|---|
| **Sessions** `polymath-cli.js`, `commands/common/common_functions.js` | `sendTransaction`: estimate, send with the nonce of the mined transactions, wait for the receipt; `splitIntoBatches`, `transposeBatches` | a call that passes the estimate reverts when it is mined; a call outlives its program; a batch fails in the middle of a file |
| **transfer_manager** `commands/transfer_manager.js` | the menus of seven transfer managers | lists read before they are used; deleting all members of a list before the list |
| **token_manager** | modules with their POLY, issuing, freezing, refreshing | payment and use in two transactions; fees that move; files begun again |
| **wallet_manager** | deposits, templates, schedules of the vesting wallet | schedules chosen by index from a filtered list |
| **Registry commands** `ST20Generator.js`, `faucet.js`, `strMigrator.js`, `contract_manager.js`, `transfer_ownership.js` | from the reservation of a ticker to its token | approve, then use; reservations that run out between two questions |
| **permission_manager** | delegates and their permissions | delegates deleted and added again |
| **sto_manager, dividends_manager, investor_portal, transfer** | calls on offerings, dividends and tokens | single calls |

### What makes each component correct
* Ledger: the supply is the sum of the balances; `holderCount` is the number of
  accounts with a balance; only a party with the right to do so lowers a balance.
* Checkpoints: what was true at a checkpoint stays true; the balances of a
  checkpoint add up to its supply; every answer is what a full copy would say.
* Switches: each one stops every path it is said to stop; the final ones are final.
* Module registry and documents: arrays, indexes and records describe the same set.
* Dividends: nobody is paid twice, the shares fit in the dividend, the contract
  can always pay what it owes, nothing is paid after it was reclaimed.
* Voting: one vote per holder, of the weight at the checkpoint, in the right period.
* Transfer managers: a limit that held keeps holding over any sequence of transfers;
  what a simulated transfer is told is what the real one does.
* Offerings: caps are not exceeded; no payment without the tokens it buys.
* Vesting: what is released never exceeds what was locked; the wallet can pay.
* Registry: a ticker has one owner, a token one ticker, and the lists agree; a
  reservation lasts as long as it was made for.
* Command line: whatever programs run side by side and wherever they stop, the books
  of the contract agree with themselves, a command changes what its operator chose,
  and one that is begun again can be brought to its end.

`PROJECT.json` lists the hazards behind these, each at its line.

## 2. Modules

| Module | What it is |
|---|---|
| `Checkpoints` | The series of checkpoints of one account: reading and adjusting it. |
| `CheckpointSearch` | The binary search of `getValueAt`, one loop iteration per step. |
| `TokenLedger` | The bookkeeping functions of the token as operators on a ledger record. |
| `SecurityToken` | The state machine of the token: one action per external call. |
| `SecurityTokenCalls` | The same with `msg.sender` visible, to say who may take tokens from whom. |
| `SnapshotLedger` | The abstract specification: a ledger that copies all balances at each checkpoint. |
| `Dividends` | `DividendCheckpoint` with its ERC20 and Ether contracts, composed with `SnapshotLedger`. |
| `ModuleRegistry` | `ModuleRegistry.sol` and the logic contracts of `UpgradableModuleFactory`. |
| `TokenModules` | The modules of one token, composed with `ModuleRegistry`: attach, archive, upgrade, remove; versions of token, factory and module. |
| `CappedSTO`, `USDTieredSTO` | The capped offering, and the one in tiers priced in dollars. |
| `EscrowWallet` | The vesting wallet: its operations on a wallet record. |
| `VestingEscrowWallet` | The state machine of the wallet: its callers and time. |
| `Batches` | Files of records as calls: batches, columns, and a ...Multi function over them. |
| `ClientSession` | A run of the command line program: reading, asking, estimating, sending, waiting, throwing, being stopped. |
| `NamedLists`, `NamedListsClient` | Blacklist and lockup transfer managers; their menus. |
| `ManualApprovals`, `ApprovalsClient` | Manual approvals, with the transfers that use them up; their menu. |
| `Restrictions`, `RestrictionsClient` | Volume restrictions and exemptions; their menu. |
| `GeneralClient` | Investors with data and flags in the data store, settings of the general transfer manager, and their menu. |
| `HolderLimits`, `LimitsClient` | Count and percentage transfer managers on a token with holders; their menus. |
| `Registry`, `RegistryClient` | The security token registry; the five commands that work on it. |
| `PermissionClient` | Delegates and permissions, and the command that manages them. |
| `WalletClient` | The menu of the vesting wallet, over `EscrowWallet`. |
| `ModulesClient` | Modules of a token with the POLY that pays for them, and their menu. |
| `IssuanceClient` | Issuing, freezing and refreshing a token, and their menu. |
| `PolymathCLI` | All programs above side by side: one `current` contract, several operators. |
| `MC...` | Instances for TLC. |
| `SharedLemmas` | Lemmas on sums, loops, divisions and series of checkpoints, which several proofs use. |
| `SecurityTokenProofs` (also on the search, on the refinement of `SnapshotLedger` and on `TokenModules`), `CappedSTOProofs`, `USDTieredSTOProofs`, `DividendsProofs`, `VestingProofs` | Theorems on the modules of these names, and the lemmas of each. |
| `PolymathCLIProofs`, `TokenCommandsProofs` | Theorems on `PolymathCLI`: the books of each contract with any number of programs at work on it. The second has the commands on a token: modules, tickers, the vesting wallet. |

### The token

* `ledger` is one record: `balances` and `totalSupply` of the ERC20 base,
  `holderCount`, `currentCheckpointId`, `checkpointTotalSupply`,
  `checkpointBalances`, the current `dataStore` and, per store, the array of
  investors and the set whose `added` flag is set. One data store per token is
  what `changeDataStore` selects; the array of each one survives the change.
* `UpdateTransfer` composes, in the order of `_updateTransfer` (SecurityToken.sol
  639): holder count and investor list, then the transfer managers, then the
  balance checkpoints of sender and receiver; `AfterTransfer`, `AfterIssue` and
  `AfterRedeem` add the movement that follows.
* What transfer managers answer is any set of results (`Verdict`). What they may
  do to the token while they run is to create checkpoints (`due` of them), as
  `ScheduledCheckpoint` does. With transfers frozen none of them runs.
* Overloads that differ in ignored data, events or partitions other than
  `UNLOCKED` are one action. Names of partitions, data and signatures are left out.
* The zero address may be the sender of a controller transfer of no tokens: the
  code allows it, and the model does.

### Dividends
* The token is the abstract one of `SnapshotLedger`: by the theorem
  `TokenImplementsSnapshots` what dividends read (`balanceOfAt`,
  `totalSupplyAt`) is what that ledger answers. Any of its steps may come
  between two calls of the dividend module.
* `PayAll` is the loop of a push, one payee after the other on the state the one
  before left. A payee may refuse a payment: with Ether the account then stays
  unpaid and the loop goes on, with ERC20 the whole call reverts.
* The list of accounts excluded by default is any set; treasury and wallets are
  set; the product of balance and amount does not overflow. `received` and
  `drained` are auxiliary: what each account got, and which currencies the owner
  emptied (after which a purse may owe more than it has).

### Modules and factories
* Versions are numbers, 1 and up. 0.0.0, which the code stores as "not set", is
  in no instance. A token starts without modules.
* `removeModule` takes a module out of the array of each of its types, one after
  the other. The registry refuses factories with a type twice, so these arrays are
  different ones and the model does all of it at once (`ArraysWithout`,
  `IndexesWithout`).
* Tags and the registry's reputation lists, which nothing modelled reads back, are
  left out; what a module costs and its budget are in `ModulesClient`. `reviewed` is auxiliary: the logic
  contracts of a factory when it was last verified.

### Offerings
* `Unit` stands for 10**18. Divisions round as `DecimalMath` does, half up, and
  the code's plain divisions round down. An oracle answers any price of a set.
* A minimum number of tokens demanded by the buyer, and transfers that the
  token refuses, only turn calls into reverts, which are no steps.
* Granularity is constant. `issued` (and `purchases` in `CappedSTO`) are
  auxiliary: what investors got for what.

### Vesting wallet
* `EscrowWallet` has the operations as sets of results, so that the state machine of
  the contract and the programs of the command line share them.
* Times and amounts of schedules as in the code, indexes with the array they
  point into. A ...Multi call is its single calls in a row, but
  `pushAvailableTokensMulti` is modelled whole. `reclaimERC20` of
  `Module.sol` is an action: it takes tokens that are promised, too. Tokens sent to the
  wallet by a plain transfer are left out.
  `received` and `reclaimed` are auxiliary.

### The command line
* `session[c]` is where the program of account `c` is: at the menu, at a question
  (`about` is what it had read and shown), sending a call or waiting for a receipt.
  `mempool[c]` is the call of the account that is not mined yet. `contract` is the
  state of the one contract the programs are at work on, `current` its kind. A
  contract operation is a function from a state to the *set* of states it may lead
  to, empty when it reverts.
* `Send` is the estimate: when the operation would revert now, the program throws.
  It also throws when the last call of the account still waits, because the nonce it
  uses, the number of mined transactions, is taken. `Mine` applies the operation to
  the state of that moment, which need not be the one of the estimate; a revert
  throws as well. A call is mined even when its program is gone. `Kill` stops a
  program anywhere: nothing is kept, and the next run begins at the menu.
* A menu is two actions at least: what is read and shown (`Show`), and what is made
  of the answer (`Begin`). Where the code reads a second time, the model does.
* A file is a sequence of records, cut by `CallsOf` as `splitIntoBatches` and
  `transposeBatches` do. The contract's loop over the columns is `InTurn`: all the
  records of a call, or none.
* Prompts, formats, gas, fees in ether and addresses are left out. The programs of
  `token_manager` are those of the token's owner: the calls of others revert.
* `used`, `patched` and the like in a contract's record are history, and
  say so where they are defined.

Operators named as a variant of another one (`LeavesToSelf`,
`ExecuteTransferThawed`, ...) are not part of the specification: each is a
plausible mistake in the definition below it, used to see that a property
notices it.

## 3. Runs

| Run | Shows | Bounds |
|---|---|---|
| `checkpoint_search` | the search is right and ends | all ordered series of up to 5 entries, ids up to 6, two values |
| `token_ledger` | holder count, supply, sums at checkpoints, immutable history; the token implements `SnapshotLedger` | 2 accounts, 3 tokens, 2 checkpoints, 1 of them inside a transfer |
| `token_calls` | with every call enabled and its caller known: who may take tokens from whom, what freezing and disabling guarantee, that no holder is lost while stores are exchanged | 2 accounts (holder and delegate, which may be BURN module and controller), 3 tokens, granularities 1 and 2, 2 stores; no checkpoints, which `token_ledger` has |
| `dividends` | everybody gets the share once, only dust remains, one purse covers what it owes, expired dividends are final | 2 accounts, 3 tokens, 3 instants; one Ether dividend of 2 while tokens move, payments fail and the owner empties the purse, or two ERC20 dividends of 2 in one currency, batches of 2 |
| `token_modules` | arrays, lists and indexes agree; active modules with a type below 10 fit the token's version; modules run reviewed logic | 3 modules of 2 factories with a shared type and changing names; or 1 factory (of types 1 and 10, or of type 10 only) with up to 2 logic contracts, 1 module, 3 token versions, all switches |
| `capped_sto` | tokens, cap and payments agree, nobody pays above the price | 2 investors, prices above and below a unit, grains of 2 that divide neither cap nor amounts |
| `usd_sto_sale` | books of six variables agree, tiers are shared exactly | 2 investors, 2 tiers with discounts, grains of 2, 3 currencies, one setting away from the start at a time |
| `vesting` | the wallet is backed, arrays agree, what is released stays released | 2 beneficiaries, 2 templates, schedules of one and two grains, 5 instants, 2 schedules at a time |
| `command_line` | fourteen properties of eleven kinds of contract under the programs of two operators | 2 operators, 3 commands in all, 2 of everything they administer, files that do not fit in a batch, 2 instants |
| `usd_sto_order_comment`, `blacklist_comment`, `wallet_selection` | violated: see findings | the sale without changes of settings; the blacklist alone; a wallet with one schedule that starts first and two that start later |

What `command_line` says of each kind:

| `current` | Properties |
|---|---|
| `blacklist`, `lockup` | `MembershipAgrees`: for both, the types are listed once each; for lockups, also both directions of a membership agree with each other and their indexes (of a blacklist they need not: see findings). `OnlyShownAreRemoved`: deleting a lockup type removes the investors that were shown, and not one added since; then the type stays. |
| `manual` | `ApprovalsAgree`: array and index describe the same approvals. `UsedIsShown`: the two numbers an operator is shown tell what was transferred, however often they were changed. |
| `volume` | `RestrictionsShown`: the list that is shown has every restriction, whichever of the two of a holder was removed. |
| `general` | `InvestorsListed`: every investor with data or a flag is listed once, and no batch gives him another one's data. |
| `limits` | `VerifyAgrees`: the simulated transfer answers what the real one will, although the token has counted its holders by then. `LimitsKept`: no transfer passes a limit. |
| `registry` | `TickersAgree`: tickers, arrays and indexes of several owners. `ReservationKept`: nobody but the owner, or the registry's, takes a ticker before it expires. |
| `permission` | `WhoMayIsShown`: nobody may do anything who is not in the list that is shown. It does not say that the delegate deleted is the one that was chosen. |
| `wallet` | `OnlySelectedIsRevoked`: a revocation takes the schedule that was chosen, although arrays were moved about since. |
| `modules` | `LeftoverIsUsed`: POLY left in the token by programs that stopped between payment and use does not add up. |
| `issuance` | `IssuedInOrder`: a file of issues that stopped half way, any number of times, can be taken up behind the last investor who has his tokens. It is about files whose investors leave a mark (`OnlyHere`): each is in the file once, with an amount, and but for the first gets tokens in no other way. |

Why the bounds are enough. Two accounts give sender and receiver, each of which
is also holder, delegate, module or controller in turn; the transfer of one
leaves the other's balance alone except where it is a party, and the theorems of
section 4, which hold for any number of accounts, cover the bystander. With two
or three tokens a balance can be partly or wholly moved and the cap of `uint256`
(`UintMax`) is reached, so overflow checks matter. With two checkpoints an
account can have an entry for none, either or both, and a checkpoint can fall
before, in or after a change. A search over five entries takes up to three
halvings, with odd and even middles. Dividends of 2 or 3 for 3 or 2 tokens never
divide evenly, so that dust and rounding show; three instants are before, in and
after a dividend. Swap-and-delete goes wrong first with two entries, one of which
moves. A race of two programs needs two operators, and each of them one command; a third
command is what comes after the race, or the run that is begun again. Files have a
record for each of the two investors and one that repeats the first, so that
whatever the batch size the two orders of a pair, an invalid record in the middle,
and a batch that fails after one that went through all occur. Tiers, discounts and caps are no multiples of the grains, amounts buy less
than a tier, cross one, and exhaust all. A schedule of two periods can be unpaid,
half paid and paid.

Some instances narrow `Next` or `Init`, each described in its MC module:
`LedgerSpec` of `token_ledger` (calls that touch no ledger only multiply states;
`token_calls` has all calls), the two families of `dividends` (`FamiliesSpec`: the
token moves with one Ether dividend, and stands still after its checkpoint with two
ERC20 ones) and of `token_modules` (modules come and go with versions that stand
still, or versions move with one module of one factory, which an upgrade of the token
asks or not), `ChangesSpec` of `usd_sto_sale` (at most
one setting, flag or switch differs from the start at a time), `SaleSpec` of
`usd_sto_order_comment` (no changes). The theorems of section 4 are about the whole
specifications. `command_line` starts with any of its eleven contracts, empty.

Deadlock is checked in every run but the search, which stops when it has
answered, and `usd_sto_order_comment`, whose sale is over after a while. In
`PolymathCLI` a state where every program is at its menu and no call waits is a rest
(`AllAtRest`), and any other one that could not go on would be reported.

Fairness. Only `CheckpointSearch` states any (`WF_vars(Next)`): a Solidity loop,
once entered, runs to its end. Nothing obliges anybody to call a contract, to answer
a question or to start a program again, and a miner may leave a call for good, so
the other specifications state none and have no liveness property.

### Findings
* USDTieredSTO.sol 529 says that what is left of an investment after the
  discounted tokens of a tier buys at the full rate. When the discounted tokens
  are no multiple of the granularity, which nothing checks, their last part is
  never sold, the purchase stops there, and `_buyTokens` (451-466) moves
  `currentTier` on for good: the rest of the tier is left behind and the next
  tier, at its higher price, is open (`TiersSoldInOrder`).

* BlacklistTransferManager.sol 263 refuses an investor who is already in a blacklist
  ("Blacklist already added to investor"), but takes index 0 for "not in it", which
  is the index of his first one: there he can be added again, and one removal then
  leaves him listed (`AddedOnce`). The lockup manager, with the same book, tests the
  place and has `MembershipAgrees`.
* wallet_manager.js 371-375 offers the schedules that have not started and returns the
  one with the chosen index of *all* schedules: when one before it has started,
  another one is modified than the operator chose (`SelectedIsModified`).

Met while modelling, and in the models as the code has it, without a run of
their own. Contracts:
* `getInvestors` returns the list of the *current* data store; the comment at
  STGetter.sol 42 says it contains all investors that ever held tokens. What does
  hold is `HoldersListed`: some store has them.
* `isControllable` (SecurityToken.sol 1013) returns `!controllerDisabled`; its
  comment says that it returns whether the controller is non-zero.
* `updateLogicContract` (UpgradableModuleFactory.sol 84) compares a new version
  with the previous one only, so that it can equal the next one.
* A POLY purchase of the tiered offering rounds half up twice and can take a
  rounding more than the amount offered (USDTieredSTO.sol 475).
* Tiers can be entered anew when a tiered offering was finalized before its
  start; `TiersAgree` says nothing of the returned amount then.
* The list of beneficiaries of the vesting wallet keeps those whose schedules
  were all revoked (VestingEscrowWalletStorage.sol 33 says otherwise).
* At the very moment a reservation expires, the registry's getter calls it expired
  and its registration does not.
* `upgradeToken` asks the modules of the types 1 to 9 only: it passes 10
  (SecurityToken.sol 278), and the loop of STFactory.sol 193 stops below. Seven types
  are in use, and the comment at 274 calls the bound a known limit, met by "more than
  3" new types; the third one, 10, already is not asked. `ActiveAreCompatible` is about
  modules that have a type below 10, and an instance has modules that do not.
* A delegate who is deleted keeps his permissions, and has them again when he is
  added again.

Command line:
* `sendTransaction` assigns to an undeclared variable, and throws, when the node's
  count of transactions lags behind the one it asks for.
* `multiIssue` keeps the records whose `canTransfer` answer is true, and the answer
  is a tuple: it filters none. `polymath-cli.js` calls `multiMint`, which
  token_manager does not export.
* Refreshing a token is offered whatever its version (two arrays are compared), and
  goes on when the operator declines to freeze transfers first. A program that was
  shown the old token goes on to use it.
* `addModule` reads fee and balance before it asks for the module's parameters; with
  a payment still on its way the next run pays again, so that up to twice the fee is
  left in the token (`LeftoverIsUsed`).
* `getManualApproval` compares seconds with milliseconds and never finds an approval.
* Operator and controller transfers of transfer_manager.js throw on an undeclared name
  after their transaction, as does the change of the treasury wallet.
* The wallet menu offers templates that were removed; a file of schedules sends no
  approval for its tokens.
* `st20generator` with a ticker of somebody else as its argument asks for ever.
* The migration writes tickers over registrations that are there already; the
  tokens' half of it asks for a method that is not in the interface and throws.
* `TickerRollForward.js` uses `web3` before it is initialised.

## 4. Proofs

The theorems hold for any number of accounts, modules, factories, investors,
beneficiaries and tiers, for any amounts, prices, dates and bounds; those on the
command line for any number of programs and operators, any files and any batch size.
What they assume are the named assumptions of the modules they are about: a finite
`Account` without `Zero`, a positive `UintMax`, grains, rates and units that are
positive, that operators are accounts, that the records of files have the fields
their commands read, and the like.

* On `CheckpointSearch`, in `SecurityTokenProofs`: `SearchIsCorrect`, `SearchStaysInside`, `SearchShrinks`.
  The invariant is that of the code's loop: everything below `min` is too early,
  the entry at `max` is not, and `min <= max < length`. `SearchShrinks` is the part of
  termination that is a matter of safety: every step leaves fewer that can follow.
* `SharedLemmas`. `AdjustKeepsValues`: adjusting a series keeps it in order and changes
  no value at any checkpoint; the history rests on this one lemma. For sums there are
  the lemmas that the books need (`SumChange`, `SumPlus`, `SumAtMost`, `SumSplit`, ...),
  and for loops `LoopKeeps` and `LoopExists`.
* `SecurityTokenProofs`: the inductive invariant `IInv` and the theorems
  `TypeCorrect`, `HolderCountIsExact`, `SupplyIsAlwaysBacked`,
  `CheckpointsStayInOrder`, `SnapshotsAlwaysAddUp`, `InvestorsAreListedOnce`,
  `HoldersAreListed`, `HistoryIsImmutable`, `IssuanceStaysClosed`,
  `ControllerStaysGone`, `FreezeHaltsAll`. Here sums of balances are cardinalities:
  `TokenUnits(balances)` has one element per unit held, so that moving, minting and
  burning add elements to a finite set or remove some.
  `TokenImplementsSnapshots`: every initial state of the token maps to an initial
  state of `SnapshotLedger` and every step to a step of it or to a stutter. A batch of
  two issues, each with its checkpoints, maps to `MintTwice`.
  `BalancesFallByConsent` and `AllowancesAreSpent` are about the larger machine that
  knows its callers: every path is followed to the one place where it lowers a
  balance, and what its guards say of `msg.sender` there.
* Also in `SecurityTokenProofs`: for the module registry `FactoryListsAlwaysAgree` and
  `VerifiedLogicWasReviewed`. Both are inductive with the types alone; the work is in
  the swap-and-delete of `removeModule` (`RemoveKeepsLists`: the removed factory, the
  last one that takes its place, and everybody else) and in that a factory which is
  registered anew is not verified, because only what is registered is. For the token
  `ModuleArraysAlwaysAgree`, `ActiveStayCompatible`, `OnlyReviewedLogicRuns`. An array
  and the index of each of its members are one notion, `Indexed`, with one lemma for
  a push and one for swap-and-delete; the arrays by type and those by name are two
  uses of it. `MInv` joins it with the registry's invariant, because a module has
  distinct types only if its factory was registered, and what `useModule` lets pass is
  registered only because the recorded owner of a factory is cleared with its
  registration. That `upgradeToken` asks every active module of these types needs the arrays: it
  walks them, not the modules, and only those of the types 1 to 9, so that the theorem
  is about modules with such a type. `ActiveStayCompatible` assumes that nobody uses
  version 0.0.0, which a bound takes for "not set".
* `CappedSTOProofs`: `PriceIsKept` and `SaleAlwaysAdds`. The divisions enter by one
  lemma each: the cost times the rate is the price less than one unit of currency, so
  that sums of purchases lose less than one unit each. Tokens sold are what investors
  got, and never more than the cap, for the part refunded is what did not fit.
* `USDTieredSTOProofs`: `BooksAlwaysAgree` and `TiersAlwaysAgree`. A purchase walks
  through the tiers in a loop; `TurnKeeps` is about one turn, and `TiersAreKept`
  carries it to the end of the loop. What stays true in a turn is that each open tier
  is within its bounds, what was minted by kind of currency adds up to what the tier
  sold (`TierIsKept`, `SoldAdds`), and the tiers below the current one are left alone.
  The invariant has, besides types and the two properties, that nothing is sold before
  the start: only then are tiers modified.
* `DividendsProofs`: `EveryoneIsPaidExactly`, `PurseAlwaysCovers`,
  `OnlyDustEverRemains`, `ExpiryIsFinal`. The book of the token is sound at every
  checkpoint (`SoundBook`), so the balances that share a dividend add up to the supply
  it is divided by, and the rounded shares to the amount less one unit of dust per
  holder (`SharesAreNumbers`, `RestIsDust`). `WellKept` says of one dividend that what
  was claimed is the sum of the shares of those who claimed, and withheld amounts
  likewise; with `PaidExactly` and `PurseCoversAll` it is inductive. `PaidKeeps` is one
  payment, `PayAllKeeps` a push of any number of them, some of which fail.
* `VestingProofs`: `WalletAlwaysBacked`, `ArraysAlwaysAgree`, `ReleasedAlwaysKept`.
  `WInv` has the arrays with their indexes, and `Backed`: balance, what was taken out
  and unassigned tokens against the sum of all that is unclaimed. `ReleasedGrows` is
  the arithmetic of a schedule: with time the number of periods that have passed
  grows, and what is released with it, up to the whole. Every operation
  `KeepsPromises`; a push over all beneficiaries and a revocation of all schedules of
  one are loops, and are proved turn by turn (`PushKeeps`, `DeleteUsersKeeps`).

* `PolymathCLIProofs`, and `TokenCommandsProofs` that goes on from it, have three layers.
  *Calls*: a call applies the records of a batch one after the other and reverts as a
  whole if one of them fails. `TurnsExist` and `InTurn` are the recursion behind
  that: a set of books that every record keeps is kept by a call of any length.
  `CallsOfFile` says that what a command cuts from a file are its slices, in order and
  whatever the batch size, and `CallsHoldRecords` that they hold records of the file.
  *Programs*: `Sessions` lists what a program may be doing, and which calls it may
  hold in its hands while others run; `StepsOf` reduces a step of `PolymathCLI` to a
  step of one program, or of the world, on the contract at hand, and `ModuleStays`
  says that the other contracts have nothing to keep. No invariant assumes that a
  contract is as the program saw it: between reading and sending anything may happen.
  *Contracts*: for each of them a set of good books, which every function keeps for
  every argument a session may hold. `WhoMayIsAlwaysShown` (delegates),
  `ApprovalsAlwaysAgree` (approvals and their index, by swap-and-delete) with
  `UsedIsAlwaysShown` (what an approval has left and what was used of it),
  `RestrictionsAlwaysShown` (restrictions by holder and exemptions),
  `InvestorsAlwaysListed`, `MembershipAlwaysAgrees` (lockups of users and users of
  lockups: two families of arrays with their indexes, which one call changes
  together) and `TickersAlwaysAgree` are about arrays and indexes. For the last one
  the books also say who owns a ticker that has a token. `LeftoverIsAlwaysUsed` needs
  `Funds`: what a program pays is the first of its calls, and the POLY of the token,
  with the payment that waits to be mined and the one still to be sent, is at most
  twice the highest fee. `LimitsAlwaysKept`, `ReservationAlwaysKept` and
  `OnlyShownAlwaysRemoved` are about steps. For the last
  one `OnlyShownIsAsked` is the invariant of the program: the calls in its hands are
  one removal for each user that it showed, and then the removal of the type; the
  contract lets the type go only when it has no users (`TookShown`), so that whoever
  joined in between makes that call revert. `VerifyAlwaysAgrees` needs no invariant:
  the two functions of the count manager answer alike in any state.
  `IssuedAlwaysInOrder` follows a file from the command to the tokens. What an investor
  was issued, divided by what the file has for him, is how often he had his turn. The
  turns never grow along the file (`OrderedBooks`), and a call that begins with record
  `p` needs that everybody before `p` is one turn ahead (`AheadBooks`): its records then
  have their turns one after the other (`SliceCall`). `CallsOfFile` and `FileIsSlices`
  give that the calls of a command are slices of the file, each going on where the one
  before ended. `IssuerRuns` is the invariant of the owner's program: a call that waits
  to be mined is harmless to the file or the slice whose turn it is, and a program that
  has yet to send while a call of an earlier run still waits is at the beginning of the
  file, for which no one has to be ahead. It holds whatever batches revert, and however
  often the program is stopped. `IssuanceAssumption` says that files are sequences of
  investors and amounts and that a batch holds a record.
  `OnlySelectedAlwaysRevoked` follows a schedule from what an operator was shown to the
  call that is mined. `WalletSessions` says that a revocation in the hands of a program
  is one call, by the beneficiary and the name that were selected, and that what a
  program waits for is the first of its calls. On the contract a revocation by name may
  pay out, and moves the last schedule and the last name into the free places, so each
  of these steps is shown to lose no other schedule (`OnlyLost`); `WalletBook` is what
  they need of the arrays and the index.

The properties of the token are not inductive alone. That the balances of a checkpoint add up
needs that the series are in order (or a new entry could hide an old one), that
each past value survives the step, and that the current balances add up, because
the next checkpoint records them. That holders are listed needs that the list and
the `added` flags agree, because the code asks the flag and not the list. That
the holder count can be decremented without reverting needs that it is exact.
`IInv` is the conjunction of these parts, with the types of the rights and
switches and with "a disabled controller is zero". Each action is reduced to one
of six kinds of step on the ledger (transfer, issue, issue twice, redeem, list an
investor, change the store), and the invariant is proved once for each kind.

Sums and loops. A sum over a set is a fold, which is defined by a choice, and a fact
about every sum needs an induction. The induction theorems of the library take an
operator as a parameter, which the provers cannot instantiate. The lemmas of
`SharedLemmas` use least counterexamples instead: the numbers (or the sizes of the
sets) for which a fact fails are a set with a least element, by
`NatLessThanWellFounded` and `WFMin`, and the step from the number before it
contradicts that. Loops of the code whose state is a record are recursive functions
on `0 .. n`, and proved in the same way.

Proved without a run of its own: `SearchStaysInside`, `SearchShrinks`, `AdjustKeepsValues`,
`CheckpointsStayInOrder`, `InvestorsAreListedOnce`, `IssuanceStaysClosed`,
`ControllerStaysGone`, `FactoryListsAlwaysAgree`, `VerifiedLogicWasReviewed`.

Model-checked only: `SearchEnds`, which is a liveness property and so out of the
prover's reach (that the search cannot go on for ever is `SearchShrinks`; that it does
go on takes fairness), and the disagreements of section 3, which runs show. Every other
property of the passing runs is also a theorem.

## 5. Not modelled
* **Voting, scheduled checkpoints, pre-sale offering, experimental modules,
  documents**: no other part of the system reads what they keep, except that a
  scheduled checkpoint is taken inside a transfer, which `SecurityToken` has. The
  pre-sale has the counters of `CappedSTO`, documents the swap-and-delete of
  `TokenModules`.
* **Verdicts of transfer managers** other than count, percentage and manual
  approvals: volumes of rolling periods are sums over days, lockups and blacklists
  windows of dates; the token is checked under any verdict instead. Signed data and
  nonces of the general transfer manager are left out with it.
* **Token factory, proxies, feature registry, oracles, libraries, deployment
  scripts**: addresses, external feeds, conversions, and a fixed sequence run once.
* **Of the token**: names, details, treasury wallet, events and gas, on which no
  property of the ledger depends.
* **Of the command line**: menus that only read (verifying a transfer, exploring an
  account), single calls on the contracts that `SecurityToken`, `Dividends`,
  `CappedSTO` and `USDTieredSTO` model with any caller in any order
  (dividends_manager, investor_portal, transfer, most of sto_manager, the rest of
  token_manager), and parts that throw before they send anything.

## 6. Plan
Done: the token with its refinement, dividends, modules and their registry, offerings
and vesting wallet, registry of tickers, the books of the transfer managers, permissions,
and the command line over all of these; proofs for all of them.

Left, most important first:
1. **Voting** and **ScheduledCheckpoint**: time-driven modules over `SnapshotLedger`.
2. **Volume restriction**: the rolling sums and the verdict.
3. **Lockups and blacklists**: their verdicts on transfers of the abstract ledger.
4. The remaining menus of `dividends_manager` and `investor_portal`, as clients of
   `Dividends` and the offerings.
