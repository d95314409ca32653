# Verification of Metacrafters

The repository collects the projects of a blockchain course. Its largest
program is **tokenvm** (`tokenvm/`, Go): a blockchain on the hypersdk whose
transactions create, mint, move and burn assets, trade them through orders that
lock funds, and send them to other chains by warp messages. Around it stand a
dozen Solidity contracts (an insurance scheme, a cooperative loan system, ERC20
tokens with and without extras, a vesting token) and their web pages.

This directory holds TLA+ models of the programs' own logic, TLC configurations
that check them on small instances, and proofs that TLAPS checks for every
instance. Paths below are relative to the repository.

## 1. Inventory

### tokenvm

| Component | State | Operations |
|---|---|---|
| Storage (`storage/storage.go`) | balances, assets, orders, loans, results of transactions, each under a prefixed key | Get/Add/Sub/SetBalance, Get/Set/DeleteAsset, Get/Set/DeleteOrder, Get/Add/SubLoan, StoreTransaction |
| Actions (`actions/*.go`) | none of their own | Execute and StateKeys of Transfer, CreateAsset, MintAsset, BurnAsset, ModifyAsset, CreateOrder, FillOrder, CloseOrder, ExportAsset, ImportAsset; Unmarshal checks the inputs |
| Signers (`auth/`) | the native balance of the signer | CanDeduct, Deduct, Refund, StateKeys |
| Genesis (`genesis/`) | initial balances and the native asset | Load |
| Controller (`controller/`) | metadata database, metrics, the order book | Initialize, Accepted (once per accepted block) |
| Order book (`orderbook/`) | in memory, per tracked pair a heap of orders, an index from order to pair, a lock | Add, Remove, UpdateRemaining, Orders |
| RPC (`rpc/`) | none | reads of state and order book; the client's wait-for loops |
| Spam (`cmd/token-cli/cmd/spam.go`) | shared counters, a map of funds, per-account balances, all in memory | distribute funds, a broadcaster per account, a listener and a closer per client, return what is left |
| Wallet (the other commands of `cmd/token-cli/`) | keys and chains on disk | one transaction per command, after prompts with conditions of their own |

How they interact. The hypersdk executes the transactions of a block, each by
calling the signer's CanDeduct and Deduct, the action's Execute, and Refund, on
a state that can be rolled back; it runs transactions in parallel when the
state keys they declare do not conflict. It hands accepted blocks to the
controller, which records the results and moves the order book. The RPC server
reads the state and the book while blocks are accepted. Two chains meet in warp
messages only: ExportAsset produces one, somebody relays it, ImportAsset on the
other chain consumes it. The wallet reads the state through the RPC server,
decides what it lets the user submit, and submits; `spam` does so from many
goroutines, which share counters that are only in part updated together.

What is hard here:

- an order is filled by anyone, in parts, while it may be closed; what it locks
  must stay a whole number of blocks or the integer divisions go wrong;
- handlers fail halfway and rely on a rollback; the fee must survive it;
- a balance can refuse a credit (uint64), which would strand other funds;
- an asset on another chain is an IOU: lending, burning, returning and
  importing happen on two chains in any order, with messages late, repeated or
  delivered to the wrong place;
- a message can ask for a swap with an expiry, decided by the block timestamp;
- the declared keys are written by hand, apart from the code that uses them;
- the order book is a second copy of the orders, kept in memory only;
- the wallet repeats some of the conditions of the chain and leaves out others;
- `spam` registers a transaction before it counts it, and keeps balances of its
  own, unsigned, from which it later decides what to give back.

What makes it correct:

- Storage and Actions: nothing is created from nothing (the supply of an asset
  is what balances, orders and loans hold); nobody but the signer pays; an
  order trades at its price and can be closed; revoked ownership is final;
  declared keys suffice; no empty records.
- Bridge: units abroad and on their way are backed by the loan at home; no
  message is stuck for ever; a message counts once.
- Order book: it shows the open orders, with their remainders, best rate first.
- Wallet: what its prompts let through the chain does not refuse.
- Spam: the counter a closer waits for is the number of answers still missing,
  but for what is between two statements; the backlog is bounded; the local
  balances are covered; after a signal the command ends.

### Solidity

| Component | State | What makes it correct |
|---|---|---|
| ERC20 with ERC20Burnable and Ownable (`EVM-Subnet/DegenToken/`, inherited by the next four) | balances, allowances, supply; owner | the supply is the sum of the balances, spending uses an allowance up, a renounced ownership is final |
| Degen token (`DegenToken/`) | as inherited, and the prices of a store | paying for an item leaves no allowance behind that the holder did not give |
| Insurance (`DeFiInsurance/`), in two versions, and its factory | subscriptions with type, stop time and flag; registered types | a running subscription was not ended; a compensation is the fee of the subscription that runs |
| Vesting token (`AdvancedSol_EthersJS-Spo/mydapptoken.sol`) | stakeholder types, members, vesting times, two copies of the whitelist | nobody is registered twice, vesting is settled at registration, the copies agree, only the whitelisted withdraw |
| Loan contracts (`loan-system/`, `FunctionsandErrors/`, `FallBackFunction.sol`) | balances, debts, the cooperative account | cash is explained by deposits, debts and loans; nobody in debt is lent more |
| Small tokens (`SpoToken/`, `MyERC20Token/`, `EVM-Subnet/ERC20.sol`) | balances, allowances, supply | as ERC20 |
| Assessment (`SCM-Starter/`) | the owner's balance and two results | each result is paid for once |

A call that reverts changes nothing, and calls run one after the other: what is
hard is unchecked arithmetic, functions that call one another's internals
(approve and spend in the caller's name), two pieces of state that say the same,
values that change between a payment and a claim, and long mixtures of legal
calls. Front ends, deploy scripts and one-function exercises keep no state worth
a model. `PROJECT.json` lists every part with its status.

## 2. Plan

Written:

1. `Totals`, `Storage`, `Books`, `Actions`, `Genesis`: the state, what it adds
   up to, and the handlers, as operators on runs. `TokenVM`: chains, signers,
   fees, warp messages. Their proofs.
2. `Market`: the abstract specification of orders, which `TokenVM` implements
   (`Trading`). `OrderBook` and `Node`: the controller, the book, requests and
   restarts, on top of `Market`.
3. `Wallet`, checked beside the chain; `Spam`, with liveness.
4. `Token`, the abstract token, and `ERC20`, which implements it; `Degen`,
   `Insurance`, `InsuranceFactory`, `Vesting` over `ERC20`; `SmallTokens`, which
   implements `Token` by other code; `LoanSystem`, `Assessment`; `Contracts`,
   which joins them.
5. Proofs: every safety property that a run checks, of the network, the bridge,
   the wallet, the node, the spam command and the contracts, and the refinements
   of `Market` and of `Token`.

Left for whoever goes on: an abstract bridge, one account book for all chains in
which an export and its import move value once, which `TokenVM` implements under a
mapping that adds up balances, orders, loans and messages under way.

## 3. The models

### Modules

| Module | Models | How |
|---|---|---|
| `Totals` | sums | `Total(f)` counts coins, a cardinality and not a recursion, so that theorems can use it |
| `Storage` | `storage/storage.go`, the asset ids of `warp_transfer.go` | `DB` is four functions from keys to a record or `Missing`; every Go function that returns an error is an operator on a *run* |
| `Books` | | what the state of a chain adds up to, per asset: supply, held, locked in orders, lent; read by the properties only |
| `Genesis` | `genesis.go` Load | the allocations, zeros included, are written one after the other; the last one of an address stays |
| `Actions` | the ten Execute methods, StateKeys, the checks of Unmarshal | one operator per handler, a chain of Storage operators in the order of the code |
| `TokenVM` | a network of chains | one action per kind of transaction, and the clock |
| `Market` | orders only, abstractly | created once, sold in whole blocks, gone when nothing is left or when closed |
| `Trading` | | the refinement: the orders of any one chain of `TokenVM` follow `Market` |
| `OrderBook` | `orderbook.go` | one operator per method, from books to the books that may result |
| `Node` | `controller.go` Initialize and Accepted, StoreTransaction, the RPC method Orders | blocks of results run through a controller beside requests and restarts |
| `Wallet` | `cmd/action.go`, `cmd/utils.go` | which inputs each command lets through, as predicates on the state it reads |
| `Spam` | `cmd/spam.go` | one action per statement or block of statements between which another goroutine can run |
| `Token` | | the abstract token: mint to one account, burn of one, move between two |
| `ERC20`, `Ownable` | `ERC20.sol`, `ERC20Burnable.sol`, `Ownable.sol` | the internal functions as operators on a ledger, the public ones as actions |
| `Degen`, `Insurance`, `InsuranceFactory`, `Vesting` | the contracts of these names | `ERC20` extended by the state and functions of each |
| `SmallTokens`, `LoanSystem`, `Assessment` | the contracts written from scratch | one next-state relation per contract over shared actions |
| `Contracts` | every contract | one instance of each contract's module; a behaviour deploys one of them |
| `MCTokenVM`, `MCTrading`, `MCNode`, `MCSpam`, `MCContracts` | | values for the configurations |
| `*_proofs` | | theorems and lemmas of the modules they are named after |

A **run** is `[ok, db, keys]`. `Require` is an early return, every operation on
a failed run is the identity, and what was written before the error is still in
`db`. The chain, not the handler, decides what becomes of it: `Include` takes
the db of a run that succeeded and otherwise the db after the fee and its
refund. `keys` collects every state key a run touches and is compared with the
declared ones.

Transaction ids are the ids of what they create. Hashes are taken to be free of
collisions: the id of an imported asset *is* the pair (its id at home, its
chain), which is also what its metadata says. Public keys are model values; the
empty key signs nothing. Amounts are `0 .. MaxUint64`: additions are checked in
the code, so the model checks them at the same places; the multiplication in
FillOrder is checked, too, and the one subtraction that is not checked there is
shown in `FillAmounts` not to wrap. Metadata and memo sizes are left out:
Unmarshal bounds them and nothing reads them.

The handlers of an export take from the balance and from the supply (`Retire`) or
put into the loan (`Lend`) first, and marshal the message last, which can fail:
`WarpTransferSize` is counted from the fields and leaves no room for the set of
optional fields that is written with them. An optional field that is zero is not
written, and any one of them leaves enough room, so only an export that sets all
five is refused (`Marshals`). A swap's expiry is signed; the model has one time,
-1, for all that lie before 1970.

**The node.** `Node` takes the orders from `Market` and not from `TokenVM`,
whose balances and keys the book never sees; `OrdersFollowMarket` is what
licenses that. A transaction is executed into `block`; an accepted block becomes
`walk`, and `Process` handles one result, as one call into the book under its
lock. Requests and executions of the next block come in between. A request takes
pointers under the lock and reads the records later, one at a time, from
`items`, which `UpdateRemaining` changes in place: this is the data race of the
code, with the outcomes a 64-bit build has (the old or the new remainder).
Results of other transactions have no effect on the book and are left out; of
the stored results only those of created orders are told apart.

The heap is the hypersdk's. The model allows every array in which no child comes
before its parent, so nothing depends on how ties are broken or where
Remove puts the last entry. Whether high or low rates come first is the constant
`MaxHeap`: `orderbook.go` calls it a max heap, but what the flag means that it
passes to `heap.New` is for the library to say. The runs use either value (`book`
and `lost` a min heap, `restart` and `rates` a max heap), and the theorems hold for
both. Rates are compared exactly; the code divides
floating-point numbers, which can make rates equal that differ in the last bits.

**The wallet.** A command reads the chain, asks, tests and submits, and is gone:
it has no state of its own. `Wallet` is a predicate per command, `PromptsSuffice`
says that what passes it is executed without an error on the state that was
read. The prompts test a balance where the handler also needs a supply, a loan,
or the credit of somebody else to fit; the invariants of the books are what makes
the difference. Some tests are missing, and there the property assumes that the
user answers sensibly: amounts of zero, an order that buys what it sells,
`outTick` zero (by which the command divides), a product of ticks that wraps
around, a swap that offers or asks for nothing or that ended before 1970
(`promptTime` takes any integer), an importer who has not got what
a swap asks for, and the fee. These are
left to the chain, which refuses them. One refusal is left that no sensible answer
avoids: an export whose message does not fit. `PromptsSuffice` says that an export
that came through the prompts fails exactly then.

**Spam.** A transaction takes effect when it is registered; its answer comes
later, in any order, and a transaction that is dropped is answered only when it
expires, in a block accepted afterwards. While the command waits for its issuers
it keeps sending transactions of its own, so there are such blocks.
`outstandingTxs` and `inflight` are counted in statements of their own, so an
answer may be counted before its transaction. The local balance of a
broadcaster is unsigned and is only ever lowered: by the fee and the value of what it
sends, also when that is dropped; what it receives is not added. The funds
returned at the end are decided from it. The largest fee of a transaction is
taken to be the fee it is charged.

**The contracts.** An action is a call that was not reverted; everything that
makes it revert is its guard. Additions in an `unchecked` block wrap around, all
others revert. `address(0)` is an address that sends nothing. `feePaid` and
`claim` in `Insurance`, `funds` and `lent` in `LoanSystem`, `paidIn`, `charged`
and `results` in `Assessment` are history variables: they record what the
properties are about, and no guard of the code reads them (`charged` bounds the
calls of `Assessment`). The contracts do not call each other, except the factory
its insurance (one module, one deployed contract for the list of them), so
`Contracts` runs one of them per behaviour and keeps the other variables at a
fixed value. Two contracts that have a constant in common have values of their
own for it, which `Contracts` keeps by the name of the instance
(`MaxUint["degen"]`, named `DegenMaxUint` in the two largest). The inheriting
contracts extend `ERC20_proofs`, which is `ERC20` and lemmas about it, and
`Contracts` instantiates `Insurance_proofs`: the lemmas then hold of each
instance by the same name.

### What is assumed of the hypersdk

It is outside the repository. From how it calls this code:

- a transaction is included only if CanDeduct holds; the largest fee is
  deducted first, outside what is rolled back;
- a failed action's writes are rolled back, its fee is not; Refund is called
  only for a positive amount. Only FillOrder has a fee that depends on success;
- fees are burned: nobody receives them;
- a signature cannot be forged, and each transaction id is used at most once;
- a warp message is verified when it was accepted on its source chain, is
  addressed to this chain and was not imported here before. The last is checked
  through a key that is written only when an import succeeds, so a failed
  import can be tried again;
- a block is given to Accepted after it was executed, one block at a time, in
  order; a block that was being processed when the node stopped is given to it
  again, or not: the models allow both;
- a batch of the metadata database is written as a whole;
- a writer refuses what goes beyond the size it was made with, and the
  set that tells which optional fields were written takes no more bytes than the
  smallest of them;
- transactions behave as if executed one after the other. This is what declared
  keys are for, which is why `OnlyDeclaredKeys` is checked.

Messages may be delivered late, more than once, to the wrong chain, or not at
all: `sent` is a set from which ImportAsset takes any message at any time.

### Properties

Each is stated and explained in its module; here is where to find them.

- `TokenVM`: invariants `TypeOK`, `OrdersWellFormed`, `WarpAssetsIdentified`,
  `Conservation`, `NoEmptyRecords`, `OrdersCanBeClosed`, `OnlyDeclaredKeys`,
  `LoansBackImports`, `NoMessageStuck`; action properties `OrdersTradeFairly`,
  `OnlySignerPays`, `RevocationIsFinal`, `ExpiredSwapsAreNotFilled`. Two of them
  say that a step is possible, by running the handler in an invariant:
  `OrdersCanBeClosed` and `NoMessageStuck` need no fairness and are stronger
  than "can eventually". `Wallet`'s `PromptsSuffice` is of the same kind.
- `Trading`: `OrdersFollowMarket`, the refinement.
- `Node`: `TypeOK`, `IndexMatchesHeaps`, `BookAgrees`, `FoundOrdersAreListed`,
  `RepliesLagOnly`, the liveness property `OrdersAreFound`, and two that
  comments claim and the code does not keep, `BookTracksAllOpenOrders` and
  `RatesInOrder`. `BookAgrees` and `FoundOrdersAreListed` except the orders of
  before the last restart (`missed`), which is all that is wrong with the book
  after one.
- `Spam`: `TypeOK`, `OutstandingIsUnanswered`, `BacklogBounded`,
  `BalancesAreCovered`, `RefusedReturnsAreExplained`, and the liveness property
  `SignalEndsCommand`, which names the one exception: a connection that failed.
- `Contracts` joins the properties of the contracts under one name each:
  `TypeOK`, `ValidMeansSubscribed`, `CompensationIsTheFee`, `MembersAreRecorded`,
  `CashIsExplained`, and the action properties `TokenBooks` (the refinement of
  `Token`), `AllowancesAreRespected`, `SettledStaysSettled`,
  and one that comments claim and the code does not keep, `OnlyWhitelistedWithdraw`.

`Conservation` has one term for a property of the genesis that is easily
missed: an address listed twice keeps its last allocation, but the supply adds
both, so the native supply exceeds what anybody holds by `GenesisLost`.
`NoEmptyRecords` excepts what the genesis can leave: an allocation of zero is a
record of zero, of the native asset, until the address is credited something.

### Runs

| Run | Configuration | Question |
|---|---|---|
| `orders` | one chain, two accounts, two transaction ids, prices 1 and 2, amounts up to 3, `MaxUint64` 4 | do orders trade at their price and give back the rest, filled in part, exactly, and beyond what they hold; can they always be closed; do they follow the abstract market; does the chain take what the wallet lets through? |
| `assets` | one chain with fees, a duplicate allocation and one of zero that has no owner, supplies up to 8, seven actions | is every asset conserved, are keys declared, records not left empty, revoked owners gone? |
| `bridge` | two chains (and exports of a chain to itself), three ids, rewards 0 and 1, `MaxUint64` 3 | does the loan cover what is abroad, in any order of messages, with burning abroad, and is no message stuck? |
| `swap` | two chains with a native asset each, swaps for it or for the imported one that expire at time 1, one that expired before 1970, rewards 0 and 1 | does a swap take only what was offered, declare its keys, and stay deliverable; do the wallet's prompts suffice for it? |
| `expiry` | as `swap` | is a swap void once its expiry is reached, as the comment says? (no) |
| `book` | two orders of two pairs, one tracked; blocks of two; requests for two orders | does the book follow the chain, and what can a reply show? |
| `restart` | two orders, every pair tracked, one restart at any point | what does a node know after a restart, and is every result found in the end? |
| `lost` | one order, one restart | are all open orders tracked, as the comment says? (no) |
| `rates` | three orders at three rates | are the best rates returned in order, as the comment says? (no) |
| `spam` | two accounts, one client, one key outside, one transfer a round, a backlog of 0, seven units of `MaxUint64`, one failing connection, one signal | do the counters agree, is what is given back there, and does a signal end the command? |
| `contracts` | each of eleven contracts with two or three accounts, amounts up to 3, `MaxUint` 2 to 6, two block times beyond a period | are the books, allowances, subscriptions, memberships and loans of each contract right? |
| `whitelist` | as `contracts`, the vesting token | does only a whitelisted member withdraw, as the comment says? (no) |

The bounds reach the interesting cases: a fill that is cut, an order filled
exactly, a fill by the order's owner, an addition that overflows (`MaxUint64`
is below the sum of two supplies), an asset deleted abroad and imported again,
a failed import repeated, a message imported by its recipient and by somebody
else, before and after the expiry. The number of transaction ids bounds how
many orders, assets and exports a behaviour creates; fills, transfers and burns
are not bounded. `TxIDs` are interchangeable, hence the symmetry. Deadlock is
not checked: a network in which nobody submits a transaction may stop, the spam
command ends, and a contract does nothing unless it is called.

`expiry` is expected to fail: `warp_transfer.go:38` calls SwapExpiry the time
"at which the swap becomes invalid (and the message can be processed without a
swap", and `import_asset.go:176-184` looks at the expiry only when the importer
does not fill. An importer may fill the swap at any later time.

`lost` and `rates` are expected to fail, too. `controller.go:168` says that the
book is "used to track all open orders", but Initialize never fills it from the
state: after a restart the orders that are open are missing until they are
gone. `orderbook.go:53` says that the heap is there "so we return the best rates
in order", but Orders returns the front of the heap's array, of which only the
first element is known to be the best. Of three orders that were pushed at a
middle, the worst and the best rate the array has the best first, then the worst,
also with the usual binary heap. The property takes for the best whatever the heap
does; it is violated with `MaxHeap` true and false.

`whitelist` is the fourth. `mydapptoken.sol:260` says "Ensure the member is
whitelisted", and the condition under it assigns `false` to the status instead
of comparing: it refuses nobody, and a whitelisted member loses the status with
the first withdrawal.

In `spam` the account gets two units and every transfer costs two, so that the
unsigned balance wraps around when the account goes on; two broadcasters pass
the test of the backlog at the same time; a transaction is dropped before and
after the signal; the fee is never learnt when nothing was sent. One account and
one client more add interleavings of the same kinds, not new ones: the
broadcasters meet in the counters of a client, which is shared here. In
`contracts` sums reach `MaxUint`, so that each addition the code leaves
unchecked meets the limit, each store item is bought, a subscription is claimed
before, at and after its stop time and renewed, a type is removed and registered
again between payment and claim, and an account lends to itself.

In the runs of the node two blocks can be under way, one being processed and one
executed, with a creation, a sale and a close of the same order in either, and a
request open meanwhile. Symmetry is not used where a liveness property is
checked.

There is no fairness in `TokenVM` and no liveness property of it: nothing in
the code makes anybody submit a transaction. In `Node`, Accepted runs in the
hypersdk's processing of accepted blocks and each request in a goroutine of its
own: every step of the two is weakly fair, for both are loops over a finite
slice that nothing but the lock of the book can hold up, and that lock is
released in every method. Acceptance of an executed block is fair on the
assumption that consensus makes progress. Submitting, asking and restarting are
not fair. `OrdersAreFound` excepts the orders that a restart made the node miss:
a result that was not written when the node stops may be lost.

In `Spam` each goroutine is weakly fair, step by step. `Exit` is strongly fair: a
broadcaster reaches its `select` again and again, where the signal and the timer
are both ready, and Go chooses among ready cases at random, so that the signal is
not passed over for ever. Two things are fair for reasons outside the code: a
node answers what it was sent, and a dropped transaction expires in some block,
assumed only while the command sends transactions of its own (`DummyExpires`).
A signal, a failing connection and a dropped transaction are not fair. There is
no fairness in the contracts.

### Where code and expectation differ

Besides the four findings, reading the code for the models turned up these. They
are modelled as the code has them; no line of the repository claims otherwise, so
none is a run:

- an export with a reward and a swap, with an expiry and for an asset that is not
  the native one, is refused with its fee taken, because its message does not fit
  (`warp_transfer.go:15-17`, `export_asset.go:124-127` and 181-184): the wallet and
  Unmarshal let it through, and `PromptsSuffice` names it as the exception;
- a swap expiry before 1970 passes the prompt (`utils.go:193-208`) and is refused by
  the chain (`warp_transfer.go:116`);
- a running subscription can be claimed any number of times, each time for the
  fee that was paid once; at the stop time, when isSubscriptionValid says no already
  (`Insurance.sol:138` has `<`, line 165 `>`), it can be claimed and ended in either
  order, and once ended pays nothing (`CompensationIsTheFee`);
- in `Insurance.sol` a name for which no fee was set is a subscription for
  nothing; in `Copy_Insurance.sol` a claim is paid the fee its type has by then,
  not the one that was taken, so that `CompensationIsTheFee` is checked of the
  fixed fees only;
- payCompensation approves the caller and then moves the tokens without using
  the approval, which remains;
- the factory's calls arrive from the factory, so that all its users share one
  subscription, and tokens minted through it are the factory's own;
- `mydapptoken.sol` looks for a type through names of the same length only: one
  of another length before it in the list makes the search revert;
- `MyERC20Token.sol`'s transferFrom looks at no allowance, and adds before it
  subtracts, so that it can revert where the sum would have fitted;
- in `FunctionsandErrors.sol` everybody may call for everybody and change the
  cooperative account; repayments go to the account of the day, which may never
  have lent; `CashIsExplained` counts that as less lent than nothing;
- `spam` ends with an error, after others were given back their funds, when an
  account has exactly the fee left, when none was ever learnt, when the fee has
  risen since, or when a balance wrapped around; and it waits for ever when a connection failed.

## 4. Proofs

Checked by TLAPS, for all accounts, chains, transaction ids, assets, amounts,
fees and clocks that satisfy the named assumptions: `StorageAssumption`,
`MissingAssumption`, `GenesisAssumption`, `TokenVMAssumption` (finite sets, a
`Missing` that is no record, ids that do not collide, inputs of the right kind),
for the refinement also `MarketAssumption` (what is offered is a positive number
of whole blocks), for the node `OrderBookAssumption` and `NodeAssumption` (the
pairs of the configuration are pairs of assets, `"*"` stands alone, the bounds are
numbers, and `Missing` is no pair, array or Boolean either), for the command `SpamAssumption` (finitely many accounts and clients, at
least one of each, enough recipients for a round, amounts that are numbers), for
the contracts `ContractsAssumption`, which joins those of their modules (finitely
many addresses, of which `address(0)` is one, amounts and prices in the range of
uint256 whatever that is, a positive last block time, named accounts among the
addresses).

| Module | Proves about |
|---|---|
| `Totals_proofs` | sums |
| `TokenVM_proofs` | the operations of `Storage` and the books they keep; each handler: soundness, books, declared keys, and exactly what a success writes; the network: the inductive invariant `IInv` and what follows from it |
| `Network_proofs` | transactions seen from outside, the refinement of `Market`, the bridge, the wallet |
| `Node_proofs` | the controller, the order book, requests and restarts |
| `Spam_proofs` | the spam command |
| `ERC20_proofs` | the ledger that four contracts inherit: its internal functions and its calls |
| `Insurance_proofs` | both versions of the insurance, and the factory |
| `Contracts_proofs` | the Degen and the vesting token, the loan contracts, the tokens written from scratch and the assessment contract, and all of them together |

### Sums and books

`Totals_proofs`: a sum changes by as much as one of its values, is monotonic,
and bounds each of them. Sums count coins, so these are facts about
cardinalities and need no induction.

`TokenVM_proofs` first says what each operation of `Storage` changes, that it keeps
the state well typed, and which key it touches; then what it does to the books.
`Gone(d, a)` is the supply of `a` that is nowhere on the chain; `Moves(d, e, a, n)`
says that going from `d` to `e` moves `n` units of `a` out of sight (or back, when
`n` is negative) and nothing of any other asset. Moves add up, so a handler is
a sequence of moves that must cancel.

### Handlers

Then come the handlers, in two parts. The first: a state is `Sound` when it is well
typed, its orders are well formed, its warp assets identified and its records not
empty; each handler turns a good run into a good run, stays within its declared
keys, and has the `Effect` that a success conserves every asset and creates
records under its own id only. `FillAmounts` is the arithmetic of a fill: both
sides get something, the buyer never pays more than was asked, and the rest is
whole blocks.

The second part states, for each handler, the exact effect of a success: which
records it writes and the signed entries it makes in the balances and the loans
(`Transferred`, `Minted`, `Filled`, `SentHome`, `SentAway`, `Arrived`, `CameHome`,
`Swapped` and the others). `At(q, b, p, a, n)` is `n` at the account `p` and asset
`a` and 0 elsewhere, so that two entries that fall on one account, as when
somebody fills his own order, add up without a case for it.

### The network

The genesis can store balances of zero. `Zeros(c)` are the places of a chain where
it did, all of the native asset; no handler adds a zero anywhere else, and the books
do not see the difference. This is carried through every handler as a parameter, so
that `NoRecordIsEmpty` holds for any allocations.

The parts of `Sound` depend on each other, so none is inductive alone: a fill
credits the buyer something (no empty record) only because an order holds a
positive number of whole blocks; a returned asset names an asset of its home
chain (a well-typed message) only because the metadata of warp assets are their
ids. Across chains the invariant adds that messages have consistent swap
parameters: an import with a swap of nothing would leave an empty record. And
`FreshIds` says that an id nobody used has no record: were it not so, a new
order could replace an open one and what that one locks would be gone, so that
`Conservation` is not inductive without it.

`Conservation` is proved for failures as well as for successes: the handler's
writes are rolled back, the fee is gone, and the refund cannot fail
(`RefundFlow`), because it gives back a part of what the same balance just paid
and so cannot overflow.

`OrdersStayClosable` is proved from that invariant and one more argument. Closing
an order credits its owner with the remainder, which could overflow a uint64. It
does not: the owner's balance and the remainder are coins of one asset at two
places, so their sum is at most what is held and locked of it (`TotalEmbeds`
maps the coins of the one into those of the other, `TotalBound` bounds one value
by its sum; both are facts about injections between finite sets), and that is at
most the supply, by `Conservation`, because what is lent, paid as fees and lost by the
genesis is not negative.

From `Invariance` follow `TypeCorrect`, `OrdersStayWellFormed`,
`WarpAssetsStayIdentified`, `NoRecordIsEmpty`, `NothingIsLost`, `KeysAreDeclared`
and `OrdersStayClosable`.

### Transactions seen from outside

`Network_proofs` puts the effect of the handler together with the fee and its
refund: every step of the network is the clock, or one chain changes (`Step`) from
the state after the fee (`Paid`) either by nothing (the transaction failed and was
rolled back) or by exactly the effect of its handler (`Outcome`). From these, and
`IInv`, follow:

- `SignerPaysAlone`: the negative entries of every effect fall on the signer,
  but for the two entries of an exchange that are the other side's: the recipient
  of a message whose swap is filled, and there the same import credited him
  with what he sells.
- `RevokedForGood`: the handlers that write an asset's owner or metadata or raise
  its supply require the owner to be the signer, who is never the revoked key, or
  an id that has no record yet; an import writes warp assets only, whose ids are
  no local ones.
- `OrdersTradeAtTheirPrice` and, from the same effects, `OrdersImplementMarket`,
  the refinement: on the observed chain a creation uses an id nobody used (by
  `FreshIds` it replaces nothing), a fill is a sale of whole blocks (`FillBlocks`:
  the buyer gets a whole number of blocks although he names what he pays), a
  close is a close, and everything else is a stutter or `Other`.

### The bridge

`LoansBackImports` (what is imported or under way is covered by the loan at home)
is not inductive. `BridgeInv` adds that a message bears the id of a used
transaction, so that a new one is not yet under way; that it carries something;
and that only what was sent has been received, so that a message is taken off
the way once. Then each export moves its amount and reward from a supply onto the
way or adds it to the loan and the way together, and an import does the
opposite. `BridgeInvariance` proves it together with `IInv`, `ImportsStayBacked`
reads it off.

`MessagesArrive` is the bridge's other promise, that nothing that was sent is
stuck. An import of a returned asset must find the loan large enough, which is
`LoansBackImports` with the message itself on the way; its credit must not
overflow, and does not, because what is lent, held and locked of an asset adds up
to its supply; an import of a foreign asset must not overflow the supply, which
the loan at home bounds, and the loan is at most the supply there.

### The wallet

`PromptsAreEnough` is proved the same way, handler by handler (`TransferAllowed`,
`MintAllowed`, `OrderAllowed`, `FillAllowed`, `LendAllowed`, `RetireAllowed`,
`SwapAllowed`): what is held, locked and lent of an asset is not more than exists
(`Reserves`, `HeldAndLent`), so that what is taken of a balance leaves room for it
in every other balance (`Recoverable`) and in a loan, and an asset of which
somebody holds a part has a supply to take it from. An import is the bridge's
argument (`PendingArrives`) and then an exchange, for which it just credited the
recipient (`ImportPays`).

Of an export both directions are proved: what came through the prompts and is
answered sensibly has valid swap parameters, and it succeeds exactly when its
message fits.

Proving it corrected the property. It assumed of an export only that a swap which
offers something asks for something, too; but a command that was asked for a swap
of 0 for 0 submits its expiry as well, and that the chain refuses. No instance
had such a swap. The property now assumes that a swap offers and asks for
something, or that none was wanted (`NoSwap`).

### The node

None of the node's properties is inductive: each speaks of a moment at which
nothing is under way, or of one result that was found, and says nothing of the
results that still wait. `NodeInv` says what these tell. There is a *history*
(`History`): the orders of the chain at each step from before the block that is
being processed to now, such that each result, of that block and of the one that is
being executed, is the step between two of them. The book shows the place of that
history to which the processing has come (`Shows`).

- A transaction that is executed makes the history longer by a step, which is one
  step of the abstract market or none (`Follows`).
- A result that is processed takes the book one step along it. This is the heart
  of the proof (`ApplyShows`): Add, UpdateRemaining and Remove, each under its
  condition, do to the book what the transaction did to the chain, and rest when
  the order is of no tracked pair or was missed.
- The end of a block and a restart leave a shorter history (`HistoryShrinks`,
  `RestOfHistory`); a restart empties the book, and what was open then is missed.

The parts of `History` beside the steps are what the others need to be inductive:
what is open was created by a used id and holds whole blocks (`PastWhole`), so that
no remainder is shown as zero; an order only falls while it is there
(`PastFalls`), so that a record read late is at worst too high (`RepliesLagOnly`);
an order appears by a result that creates it, and no id is created twice
(`PastBorn`, `PastFresh`), so that the book never meets an order it has already.
`StoredOnce` relates the stored results to those that still wait, from which
`FoundOrdersAreListed` follows, and `RecordsLag` says that the records in memory,
those of orders that left the book included, are of the past of the chain: it is
what makes the data race of a request harmless to whole blocks.

That the array of a heap holds exactly the orders that were put in, whatever way
the heap arranges them, is a fact about finite sets (`ArrayOfSet`): an
arrangement is a bijection. From `NodeInvariance` follow `NodeTypeCorrect`,
`IndexStaysInStep`, `BookStaysTrue`, `FoundOrdersStayListed` and
`RepliesStayBehind`.

### The spam command

The counters of the command are off from what they count by the goroutines that
stand between two statements, so each invariant is stated with them. `SpamInv` is

- `TypeOK`, and `Solvent`: the chain makes no money;
- `Queues`: `inflight` and the transactions that are registered and not counted
  are what the nodes owe (`InflightLags`); `inflight` and all that the
  broadcasters which passed the test of the backlog may still add is bounded
  (`InflightBounded`); a round ends in time (`Rounds`); and
  `OutstandingIsUnanswered`;
- `Funds`: which stage of the command the broadcasters are in (`Stages`), and
  `BalancesAreCovered` and `RefusedReturnsAreExplained`.

`BacklogBounded` speaks of the unanswered transactions; it is not inductive, since
nothing in it stops all broadcasters from going on. `InflightBounded` is: before a
round each of them finds `inflight` below the limit, and each adds at most a round
until it looks again. From `SpamInvariance` follow `SpamTypes`,
`OutstandingCounts`, `BacklogStaysBounded`, `BalancesStayCovered` and
`RefusalsAreExplained`.

Proving the last one showed a reason why the command fails that the checked
instance cannot reach. A return costs what the fee is by then; where it has
risen since the account last learnt it, the chain may refuse the return of an
account that has neither wrapped around nor exactly the fee left. The instance of
`MCSpam.cfg` has one fee for the returns, so TLC never met it;
`RefusedReturnsAreExplained` now names it. The proof also needs that clients and
accounts are finite, which `SpamAssumption` now says: a sum over infinitely many
counters means nothing.

### The contracts

**The inherited ledger.** A ledger that is well typed and whose supply is the sum
of its balances (`LedgerOK`) stays so under each internal function (`MovedOK`,
`MintedOK`, `BurnedOK`, `ApprovedOK`, `SpentOK`), because a balance is at most the
sum, so that the unchecked additions do not wrap around: this is why typing alone
is not inductive. Every call of the inherited functions is then an own or a
delegated call (`CallOK`) or a mint (`MintingOK`), which says what it does to the
books and to the allowances; `InheritedOK`, `BurningOK`, `MintOK` and `PayOK` show
it of the calls, and `CallBooks`, `LedgerBooks`, `CallSupply` and `CallAllowances`
are what every inheriting contract then gets: its steps are steps of the abstract
token, only a mint raises the supply, and nobody spends what he was not allowed.

**The insurance.** `InsuranceInv` is the ledger, the types and
`ValidMeansSubscribed`, and the three specifications keep it; the one delicate call
is payCompensation, which approves and moves the insurer's tokens
(`CompensationOK`). `CompensationIsTheFee` is not inductive: it speaks of the claim
that was just paid. `FeesInv` says of every account, at any time, that what was
paid is the fee of the type that is recorded for it, and that an ended
subscription has the type without a name, which costs nothing. It holds while
fees are fixed, which is the point of the property, and is what
`Copy_Insurance.sol` lacks.

**The vesting token.** `VestingInv` adds to the ledger that the members are distinct
and that who is whitelisted by the mapping is so by his record and has a type that
the admin defined. A registration (`RegisterKept`) adds a member behind the others
and clears his status, so that an earlier status cannot be taken over; a
whitelisting (`WhitelistKept`) changes both copies, and a withdrawal
(`WithdrawalKept`) only takes a status away, which is why the property is stated in
one direction. What the one-directional property leaves open, who may lose a status,
is `StatusIsTheMembersToLose`, a part of `SettledStaysSettled` (`StatusKept`): a
registration clears a status only of somebody who is not registered, and he has none
because a status is on record.

**The loan contracts.** Types, explained cash and `DebtsAreLent` are inductive
together: checked arithmetic keeps the types, and each call changes balance, debt
and history of an account by amounts that cancel, also where lender and borrower
are one account. What an account has lent may be negative, after repayments to an
account that never lent; `SumOver` adds up what is above zero and what is below, and
`SumChange` says that a change of one value is a change of the sum.

**The tokens written from scratch** implement the abstract token without the
inherited ledger: `MoveValues` shows that subtracting first and adding first, as
`MyERC20Token.sol` does, come to the same, also for a transfer to oneself. The
proof found `SmallTokens` written with two changes in one `EXCEPT`, whose second
`@` the provers and TLC read differently; there is one change per `EXCEPT` now.

**Together.** `ContractsInv` is the invariant of whichever contract is deployed;
`OneConstructor` and `OneContract` say that only its constructor has run and only
its functions are called. From `ContractsInvariance` follow `ContractsStayTyped`,
`ValidIsSubscribed`, `CompensationIsFair`, `MembersStayRecorded`,
`CashStaysExplained` and `SuppliesStaySums`, and with what each step does
`BooksStayInStep`, `AllowancesHold` and `WhatIsSettledStays`. `TokensAreTokens` is
the refinement: each of the eight tokens implements `Token`, from its constructor
on, with the balances and the supply of its own for the abstract ones.

The proofs hold for any number of accounts and any width of the integers;
`Price` may be any three prices, `Deployer` and `Store` any accounts, the same
one included, fees, periods and lengths of names any numbers.

### Only model-checked

Every safety property that a run expects to hold is a theorem. Out of the
prover's reach and left to TLC are the two liveness properties, `OrdersAreFound`
(which results a node finds in the end) and `SignalEndsCommand` (that the spam
command ends), since fairness needs ENABLED; ENABLED itself; and induction over
data: what `Factorial` computes is not proved, only that its result is paid for.

## 5. Not modelled

- The commands of the CLI that store keys and chains, the prompts' parsing, what
  is printed, and the chain the CLI watches (`chain.go`): formatting around one
  read or write of a local database. Of `action.go` the choice of keys and
  assets is any; creating an asset and closing an order test nothing that the
  chain does not test again.
- An error that Accepted returns (`controller.go` lines 197, 219 and 238) while the
  node goes on. If the node stops it is `Restart` at that place, which is modelled;
  what else the hypersdk makes of it is not in the repository.
- The methods of the RPC server other than Orders, which format one read of the
  state, and the client's loops that poll until a read is as expected.
- Metrics, configuration values, registration tables: nothing reads them back.
- In the contracts: flags that are always false between two transactions,
  `addressSubscribed` where it repeats `userSubscribed`, the inherited owner of
  `MyDappToken`, which gates nothing, events, and reads.
- In `spam`: the goroutine that prints, and the content of the transactions the
  command sends while it waits, of which only their blocks matter.
- Web pages and deploy scripts (input and output only), and the one-function
  language exercises.
