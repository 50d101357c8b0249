# A TLA+ model of DefiShares Core

DefiShares Core is a BitShares/Graphene node with a chain-owned GOLD reserve.
This directory holds a model of the parts of it where a mistake is both costly
and hard to reach with a test: how the node keeps, undoes, switches, restores and
fetches its state, what it does with transactions on their way into a block, how
the chain lends to itself, and the contracts and markets it runs for accounts. `PROJECT.json` lists components,
runs, mutants, the map from definitions to source lines, findings, hazards and
theorems; this file explains them.

    tlc -workers 2 -config MCChainForks.cfg MCChainForks      # a run
    tlapm UndoDatabaseProofs.tla                              # a proof module

## 1. Inventory

The node is one process. All changes of the chain's state happen on one thread:
blocks and transactions arrive from the network, from API clients and from the
local witness, and each is handled to its end before the next. What makes this
code hard is therefore not data races but *failure in the middle of a handler*
(C++ exceptions, process death), *the order of arrival* of blocks, *operations
nested in operations* (a fill that places an order, a proposal that executes
another), and *several bookkeeping structures with different life times* that must
agree. The network code runs in cooperative fibers of a second thread: there a
handler may find that the world has changed while it, or the chain, was busy.

| Component (libraries/...) | State | Operations | Talks to | What makes it correct |
|---|---|---|---|---|
| `db` undo_database | stack of undo_states, live sessions, max_size, disabled | sessions, hooks on create/modify/remove, undo, merge, commit, pop_commit | called by every write of the object database | undoing restores exactly, never throws, never touches another session |
| `db` object_database, indexes | objects by id, next ids, files | create, modify, remove, flush, open, wipe | undo_database, plugins (observers) | what is on disk is one consistent version |
| `chain` block processing: db_block, fork_database, db_with | head state, fork index and head, pending and popped transactions | push_block, pop_block, push_transaction, generate_block | undo database, block log, network, witness plugin | longest chain wins; a failed push changes nothing; no transaction lost |
| `chain` block_database, db_management | block log, object database on disk | store, remove, open, reindex, close, wipe | block processing at start and stop | after any crash the node starts, on the branch it held irreversible |
| `chain` db_update | irreversible number, head properties, expirations | one function per kind of expiring object, each block | block processing | irreversible blocks stay |
| `chain` gold_reserve_vault, defishares_feed | vault object, GOLD feed | initialize, rebalance, spend; feed refresh | block processing, budget, borrowing | twice collateralized, conserved, daily limit |
| `chain` db_maint, worker/witness/committee evaluators | votes, budgets, elected witnesses | maintenance every interval | vault, vesting balances | budgets conserved, elections well defined |
| `chain` db_market, market_evaluator, asset_evaluator | orders, debt positions, feeds, prediction markets | order matching, take-profit actions, borrowing, redemption | balances, feeds | assets conserved, order of matching, feed of the moment, positions made riskier only when covered |
| `chain` db_witness_schedule, witness plugin | slots, shuffled witnesses | schedule, produce | block processing, clock | one producer per slot |
| `chain` proposals, HTLC, vesting, liquidity pools, credit offers, SameT funds, tickets, withdraw permissions, custom authorities, accounts, balances, confidential transfers | one object type each | one evaluator per operation, expirations | balances | funds conserved, time limits respected |
| `net` node, peer_connection | peers, sync state, inventory | sync, fetch, broadcast | chain through a delegate | every peer's branch is eventually offered |
| `app`, `plugins`, `wallet`, `protocol` | none that feeds back into the chain | APIs, observers, clients, types | chain | - |

Which of these are modelled, partly or not at all, and why, is in
`PROJECT.json` under `components`.

Hard behaviours met here: exceptions between two steps of a fork switch;
pruning of old state by a structure that does not know who still needs it;
a block log overwritten in place; a crash between two writes or two renames; a
limit fixed lazily by the first use of a day; a collateral check hours apart from
the changes it checks; a hardfork that changes who pays from which pot; iterators
into a book that a nested match changes; roundings that someone has to bear; totals
kept by differences; expirations that race the operation they would forbid; answers
of peers to questions that have been replaced since. The most important are
listed under `hazards`, each at the line where it bites.

## 2. Modules

    VersionStack  <--- implements ---  UndoDatabase  <--- UndoDatabaseProofs
         ^
         | sessions as saved versions
    ChainDatabase   <--- ChainDatabaseProofs  (MCChainForks, MCChainInvalid, ...)

    GoldReserveVault                                   (MCGoldReserveVault)
    Smartcoin                              <--- GoldReserveVaultProofs

    CreditOffer  LiquidityPool
    PredictionMarket                       <--- CreditMarketProofs
    SametFund  Ticket  Vesting             <--- LockupProofs
    Proposals  Htlc  WithdrawPermission    <--- AgreementProofs
    all nine: MCContracts                  <--- ContractsProofs

    LimitMarket  Smartcoin                             (MCMarkets)
    WitnessSchedule  TransactionPool       <--- ChainDatabaseProofs
    and PeerSync                                       (MCNode)

    Sums: sums over a finite set;  DataLemmas: what the proofs know of them

The evaluators of the second group share nothing but balances, and an operation
is evaluated to its end before the next. Each therefore has a module of its own
with the accounts it needs, and the MC modules `MCContracts`, `MCMarkets` and
`MCNode` run several of them side by side: a variable `part` says which instance a
behaviour is of, the others stand still. A module is instantiated twice where one
instance cannot be both wide and deep.

### VersionStack, UndoDatabase

`UndoDatabase` models `undo_database.cpp` with the hooks of `index.hpp`. An
undo_state is a record of the four maps of `undo_state`, a partial map being a
total function with a "no entry" value. `Create`, `Modify` and `Remove` record in
the state on top of the stack exactly as `on_create`, `on_modify` and `on_remove`
do; `Restored` is the effect of `undo()` and `pop_commit()`; `Merged` goes through
the loops of `merge()` in their order. `StartSession` stands for block, pending
and temporary sessions, `StartForcedSession` for those of `push_proposal` and
`try_push_virtual_operation`, which first grow `max_size`. `versions` is a history
variable: the whole database at the time each state was pushed.

`VersionStack` is what the rest of the node believes: a session is a saved copy.
`UndoDatabase` is shown to implement it, by TLC and by proof, under the mapping
`db <- Database, saved <- versions, active <- Len(sessions)`.

### ChainDatabase

The state a node has after its head block is represented by the chain of blocks
itself (`chain`) and its irreversible number; `undo` is a stack of such versions,
which is what `VersionStack` promises. `forkIndex`, `forkHead`, `linked` and
`forkMax` are the fork database; `linked` says which items have a `prev` pointer,
and `Locks` whether that weak pointer can still be locked (its item is in the
index or held by the local branches of a running switch).

`push_block` is a sequence of steps, `pc` naming the next one:

    idle -> extend -> restore -> idle
    idle -> pop .. pop -> switch .. switch -> restore -> idle
                                 switch (throws) -> unwind .. -> reapply .. -> restore

Each step is one place where an exception can leave the handler or the process
can die; nothing else runs in between, as in the code. `Applies` is what makes
`apply_block` throw. A block's effect on sizes comes *before* the irreversible
number is updated, as in `_apply_block`, and sessions drop old versions when they
start, also the sessions of transactions pushed between blocks. `Restore` is the
destructor of `pending_transactions_restorer`.

`Close` with its rewinding, `Crash`, `Open` and the steps of `reindex` model stop
and start. After a crash the latest store to the block log may be missing, or be
an index entry without a block; a `flush` under way leaves the old object
database, the new one or none.

Decisions: blocks are recent (less than a day old), so `push_block` always asks
for a known parent; the first block pushed into an empty fork database is a child
of the head (sync is in order); witnesses are fixed; the check of the scheduled
witness before the fork database is touched, checkpoints, proposals and
`generate_block` are left out; the read-ahead of `reindex` is abstracted to the
moment at which it notices a gap; only the latest store can be lost in a crash.

### GoldReserveVault

One block is a sequence of phases: transactions, `UpdateGlobalDynamicData` (feed,
initialization and rebalance of the vault), `UpdateSigningWitness`, and at
maintenance the budget, worker by worker. The functions of
`gold_reserve_vault.cpp` are operators on the vault record; integer division is
kept where the code rounds. Balances of all accounts are one number per asset.
`LegacyBudget` is the DFS budget before the hardfork with every total it can come
to. GOLD, as every managed asset, knows no margin calls and no settlement (see
`Smartcoin`), so `RepayGold` is the only way its debt of accounts falls. When maintenance is due is left open, workers
do not change during a run and cover all kinds.

`GrowthAssumption` says the GOLD feed never falls from one epoch to the next. The
code computes the feed from 10^(2 sqrt(years)), which grows; the rounding in
`make_price_from_rational` is far smaller than the growth of one epoch. If
somebody changes that curve, `NeverEmergency` is the property that is lost.

`Smartcoin` below takes the feed and the positions from where this module leaves
them: the vault's own debt is here, everybody else's there.

### Contracts: Htlc, WithdrawPermission, Ticket, Vesting, CreditOffer, SametFund

One action per evaluator, named after the operation, and one for the step of the
block that works against it (`NewBlock`: the functions of `db_update.cpp`, or the
payments of maintenance). Guards are the `FC_ASSERT`s in the order that matters,
and a failing operation is one that is not enabled, except where the code goes on
after a failure.

- `Htlc`: options may be changed or withdrawn by the committee and an issuer may
  bar an account between creation, extension, redemption and refund.
- `WithdrawPermission`: `available_this_period` and the claim as the code computes
  them, in unsigned integers of width `W`; two clocks, that of the chain and that
  of the periods, drift apart between claims.
- `Ticket`: types, targets, the automatic charging and downgrading, and the loop of
  `process_tickets`, which modifies the index it walks along; account statistics
  and totals are updated by differences as in the code and compared with sums.
- `Vesting`: three policies with their rounding and coin-seconds, genesis balances,
  and the way of a fee from the payer through `process_fees` to lazily created and
  reused cashback balances. When the maintenance comes that puts a decided vesting period
  into force is left open.
- `CreditOffer`: rates and collateral with the code's rounding, partial and
  automatic repayment, and the one step of the block that may fail in the middle:
  an automatic repayment the borrower cannot afford falls back to a smaller one.
- `SametFund`: the vector of unpaid amounts of a transaction, and nested sessions
  of proposals which start with a vector of their own; every session may throw.

### Proposals

The execution is a stack of frames, one per undo session, each with the state
that it would restore: `push_proposal` inside a transaction, inside another
proposal, and at expiration. An operation of a proposal may act, approve, or
delete an older proposal; every operation may throw, and what catches it is the
nearest `try` of the code. `using_owner_authority` of a `proposal_delete` is
any that lets it be applied. The secondary index of required approvals is updated
by its observers, apart from the object it indexes.

### Markets: LimitMarket, Smartcoin, PredictionMarket, LiquidityPool

- `LimitMarket`: `apply_order` and the functions it calls are operators from a
  record `db` to such a record, because a fill may apply a take-profit operation,
  which matches again, inside the match loop; a nested failure returns the `db`
  before it, as `try_push_virtual_operation` does. Deferred fees in both assets,
  market fees with their sharing, culling of small orders, links between an order
  and its take-profit order.
- `Smartcoin`: feeds with their times, the median, the conversion from
  TARGET/GOLD, expiry, the scheduled refresh of the anchor price and maintenance;
  and the borrowers, judged by the effective feed. Either witnesses or committee members
  feed a coin (`Fed`), and maintenance erases expired feeds, or the issuer chooses
  the producers; users cannot borrow GOLD between two hardforks (`NoBorrowing`). `manages_margin_positions()` is
  true of every market-issued asset that is not a prediction market, so margin
  calls, force settlement, global settlement, individual settlement, collateral
  bids and revival cannot happen to any such asset. They are about 1500 lines of
  unreachable code and are not modelled.
- `PredictionMarket`: the market-issued assets that can be settled: borrowing one
  for one, the one global settlement, and redemption from the fund.
- `LiquidityPool`: exchange, deposit and withdrawal with the rounding of the code,
  the two fees of a pool and the market fees, deletion, and the burning of shares
  by `asset_reserve`, which is not an operation of pools.

### Node: WitnessSchedule, TransactionPool, PeerSync

- `WitnessSchedule`: times in seconds; `get_slot_time`, `get_slot_at_time` and
  `update_witness_missed_blocks` as in the code; a maintenance may change the
  interval, the skipped slots and the witnesses; the plugin's loop wakes with a
  clock of its own and has all its refusals as results.
- `TransactionPool`: the pending list, the session that holds its effects, block
  generation with its size limit, the duplicate index, TaPoS by reference, and the
  restorer that replays popped and pending transactions after any push. It
  refines the view of `ChainDatabase`, where a transaction either conflicts or
  does not, by times and dependencies.
- `PeerSync`: handlers of `node.cpp` as actions of one thread. Where a handler waits
  it is divided if what happens meanwhile matters: pushing a block, requested or
  announced, is an action of the chain's thread between two of the network's, and
  `process_backlog_of_sync_blocks` is `ProcessBacklog` and then one `AskNextBatch` for
  each peer it asks for ids. In between it holds the lock on the connections
  (`Unlocked`), and a block that arrives does not schedule it again
  (`node.cpp:3283`). A peer whose announced block is being handled
  (`is_currently_handling_message`) is neither read from nor found to be stalled.
  Other waits (`has_item`, a synopsis) do not divide a handler, and disconnecting and
  closing are one step. Connections are cut by the node's own timeouts, by a stall that
  it sees and by a peer's failure, and are made anew. Peers may fall silent, grow, have
  blocks the chain refuses, or offer more blocks than can exist (`Possible`).

Decisions: the shuffle of witnesses is any permutation (its seed is the head's
time); operations are abstracted in `TransactionPool` to what they need and clash
with; one peer's messages are in order (TCP), and a peer's answer is computed when
it arrives; authorities are taken as satisfied; all hardforks before the genesis
time are passed, as they are on this chain.


## 3. Runs

| Run | Instance | Shows |
|---|---|---|
| undo | 1 index, 2 ids, 2 values, max_size 1..2, one forced session on top of two, stack up to 3 | exact undo at every depth; undo never throws; merge's N/A cases never occur; live sessions keep their states; VersionStack is implemented |
| forks | 9 blocks on 3 branches, 3 witnesses, 3 transactions, two of them in conflict | the undo history suffices for switches and for close; the log follows the chain; irreversible blocks stay; no transaction is lost |
| invalid | 12 blocks, 4 of them invalid: the first ever, one on the head, one inside and one at the end of longer branches; with fairness | a failed push leaves the chain as it was; the fork head is the chain's head; the node ends on a longest valid chain |
| restart | 8 blocks, a fork of one block, 2 crashes, 1 shutdown, undo history 3 | every start succeeds and agrees with what was irreversible |
| vault | 5 blocks, days of 3 seconds, feed every 2 blocks, both hardforks inside, 5 workers of 4 kinds | conservation of GOLD and DFS, collateral, no emergency, daily limit, agreement of the three spending computations |
| contracts | twelve instances of nine modules, 2 or 3 accounts, 2 contracts each, a handful of seconds | below |
| markets | six instances of two modules | below |
| node | seven instances of three modules, with fairness for two | below |
| deep_switch, orphans, crash_in_switch, first_block | the smallest trees that show them | the four findings below |

A property of the three large runs puts together what its part promises; the
modules define and comment each conjunct under a name of its own.

| Property | Conjuncts |
|---|---|
| `Conserved` (contracts, markets) | `Conserved` and `TypeOK` (no balance below zero) of each part |
| `TimeLocksHold` | `Htlc`: `LocksBounded`, `NoEarlyRefund` |
| `WithinLimits` | `WithdrawPermission`: `LimitPerPeriod`, `TotalBounded`, `AvailableExact` |
| `TicketsKept` | `Ticket`: `StatsExact`, `OthersUntouched`, `LockHonoured`, `ForeverStays`, `LoopAdvances` |
| `VestingSound` | `Vesting`: `AllowedSound`, `CoinSecondsPaid`, `VestedAtOnce` |
| `CreditSound` | `CreditOffer`: `OfferExact`, `SummaryExact`, `CollateralKept`, `NoOverdueDeals`, `PartialAffordable` |
| `FundsRepaid` | `SametFund`: `NoUnpaidBetween`, `OwnerNeverLoses` |
| `ProposalsGuarded` | `Proposals`: `FramesAlive`, `NestingDescends`, `ReviewHonoured`, `ReviewFrozen`, `IndexSound` |
| `ProposalsResolve` | `Proposals`: `ExecutedOnce`, `NoneExpired`, `KeptUntilResolved` |
| `MatchingFair` | `LimitMarket`: `FillsWithinLimit`, `BookUncrossed`, `NoInternalError`, `PriorityKept` |
| `LinksMutual` | `LimitMarket`: `LinksMutual`, `BookUncrossed`, `CoreInOrdersExact` with take-profit orders |
| `FeedOfTheMoment` | `Smartcoin`: `FeedOfTheMoment` of a coin fed by producers of the issuer's choice, of one fed by witnesses, and of GOLD |
| `DebtSound` | `Smartcoin`: `Backed`, `RepairNeverRefused`, `RiskyStep` |
| `RedemptionFair` | `PredictionMarket`: `FundCoversTokens`, `NothingLeftBehind`, `NeverOverpays` |
| `PoolFair` | `LiquidityPool`: `EmptyTogether`, `NoDilution` |
| `SlotsAgree` | `WitnessSchedule`: `SlotInverse`, `NextMaintAhead`, `ChargeStep` |
| `NoStall` | `WitnessSchedule`: `NoStall`, `AslotTime` |
| `TransactionsKept` | `TransactionPool`: `PoolSound`, `AppliedOnce`, `TaposHonoured`, `NothingLost` |
| `SyncSound` | `PeerSync`: `RequestsTracked`, `InOrder`, `SynopsisEndsWithLast`, `HonestNeverCut` |
| `CatchesUp` | `PeerSync`: eventually always `CaughtUp`, or `LeftBehind` |

Bounds. In the undo run every case of `merge()`'s table needs at most two states
and one object that existed before; two ids, a second value and a third state
below give it a different history. In the chain runs three branches are needed for
an abandoned branch to come back, depth three for a switch of more than one block
after an irreversible one, and in `restart` the log must be longer than
`MaxUndoHistory` so that replay goes through both of its modes and its flush. In
the vault run days, feed epochs and hardforks fall on different blocks, and
the supply is small enough for the headroom to bind.

In `contracts` two contracts of one kind are what it takes for one to be confused
with, or paid from, the other; amounts of 1 to 3 with rates like 1/4, 20 % and
30 % make every division round; durations are chosen so that a deadline, a
period's end and a block fall together in some behaviours and apart in others.
Proposals nest up to the guard's depth (2) and one more try, in one instance with
six bodies and in one with a chain of three proposals. The pool has its owner and
one other account, with fees on every way in and out and a maximal supply that binds;
the prediction market has three accounts and outcomes that pay nothing, everything
and fractions that round. In `markets` three orders
are the fewest with a maker, a taker and someone bypassed, or with an order, its
take-profit order and one that fills both; prices 5:3 and 3:5 leave remainders, and
the market fees reach their cap. Three producers are the fewest whose median is not
one's own feed; the anchor price, a feed's lifetime and the maintenance have
periods 2, 2 or 3, and 3 blocks. In `node` intervals of 2 and 4 seconds with a
genesis time off the slot grid and maintenance every 6 or 8 seconds put a change
of interval on and off a slot. Synchronization has four instances. `S`, for liveness:
two peers with the same two blocks, one of which may fall silent, and one connection,
of either, that breaks, so that requests are handed over in both directions; the chain
handles one block at a time and fetching is suspended as soon as one more waits. `G`,
for liveness: one peer that grows from three blocks to four, in the middle of the
synchronization or after it, when it announces the block. `F`, for safety: two peers, one
with blocks that the chain refuses, lists of two ids out of three, two blocks handled
at a time, and only one block that can exist. `A`, for safety: two peers we are in sync
with, one of which announces blocks that do not link or are refused. In all of them the stall check may run
whenever the code lets it, also while the chain is handling a peer's last block.

All bounds are constants of the modules; an MC module gives them their values.
Deadlock is not checked where a bound of the model ends the run (`undo`, `vault`,
`contracts`, `markets`, `node`); the chain runs check it: a node can always take
another block. The two traders of the `orders` part are symmetric; its properties
are safety properties.

`restart` uses forks of one block on purpose: deeper ones are the finding
`crash_in_switch`. `IrreversibleStays` is stated for witnesses of whom not
all sign both branches; if they did, no chain could keep it. `SyncSound`, `Conserved`,
`MatchingFair`, `TimeLocksHold`, `WithinLimits` and `VestingSound` hold in instances
that keep clear of the disagreements of section 4: peers with valid chains do not grow
in the parts `faults` and `announced`, order fees above zero and no take-profit action in the part
`orders`, options that are changed but not withdrawn, times that do not wrap, and
vesting periods of at least a second.

`CatchesUp` says that the chain becomes as long as that of every peer that answers, or
that received blocks are left behind (`LeftBehind`). The second is a disagreement of
section 4 (`node.cpp:3259`), and without it the property is violated in both `S` and
`G`. What is left to show is that it is the only way to fail: requests of a lost or
silent peer are given to another, fetching that has been suspended is resumed, an
answer, a wake-up or a reconnection is not lost, and a trigger that is dropped while
the backlog asks for ids costs nothing else.

Fairness of `ChainDatabase!LiveSpec`. Weak fairness of the steps of push, start and
stop: they are straight-line code of the one chain thread. Strong fairness of every
`PushBlock(b)`: the network offers a block again after other pushes came between,
as sync does with every block a peer has and this node lacks. Nothing is assumed
of the order of arrival. `Converges` is violated if the fork database refuses
blocks that are not above its head, for then no other branch is ever stored.

Fairness of `MCNode!Spec`, for the parts `sync` and `growth`. Weak fairness of the
node's own tasks (fetching, working off the backlog, asking for ids, pushing, reporting
back): each is a loop woken by a promise or a timer, or goes on after a wait. Weak
fairness of the answers and the requests of the peer that is not silent; of a
silent peer only that a request it does not answer ends the connection. Weak fairness
of reconnecting and of the loop that notices stalled connections, which runs every
second. No fairness of a connection that breaks, of the growth of a peer's
chain, nor in the parts `faults` and `announced`.

Each property of a passing run has mutants, plausible mistakes in one definition
each (a dropped reset, an off-by-one, a swapped order), which break it; a property
with several conjuncts has one for each conjunct that can be broken by itself.

## 4. Findings

1. *deep_switch.* A switch applies a long branch from below. Each block resizes
   the fork database to its own small distance from the irreversible block, but
   measured from the fork head, the tip of the branch, so blocks just applied are
   erased. If a later block is invalid, `pop_block` cannot find them and throws
   outside any `try`: "every partial change is unwound" (`db_block.cpp:113`) does
   not hold. The wrong branch needs to be invalid at least two blocks up and
   several blocks long.
2. *orphans.* After a failed switch a sibling branch above the removed invalid
   block stays in the index; a later block on it becomes head of the fork
   database, contrary to `db_block.cpp:151`. Pushes of good blocks still work;
   the heads differ until the good chain is longer.
3. *crash_in_switch.* A process that dies between two blocks of a switch leaves a
   block log of two branches; the "force a replay" that `application.cpp:592`
   recommends throws as well. Only removing the block log helps.
4. *first_block.* `close()` does not rewind the first block pushed since a start,
   although its undo state is there (`db_management.cpp:237`): a reversible block
   is written to disk.

### Other disagreements

These were met while modelling, by TLC, in instances other than those of the runs.
The property is in the module, and the constants that show it are given.

| Where | Module, property, instance | What |
|---|---|---|
| `db_market.cpp:699` | `LimitMarket`, `FillsWithinLimit`, the instance `R` of `MCMarkets` | `apply_order` fixes the end of its loop before the first match; a take-profit order created by that match is inserted before the end, and the taker, after a second maker, is matched with its own take-profit order at a price worse than its limit. The assertion at line 1761 ("the take profit order should not match the current order") compares prices only and does not see it |
| `market_evaluator.cpp:277` | `LimitMarket`, `Conserved`, all order fees 0 | a fee paid in another asset under a schedule that asks for nothing is deferred; updating the order overwrites it without a refund |
| `db_market.cpp:1837` | `LimitMarket`, `NoInternalError`, all order fees 0 | an order with such a fee cannot be filled: the order that should fill it is refused with "Internal error" |
| `htlc_evaluator.cpp:82` | `Htlc`, `LocksBounded`, `Options` with 0 (unset) | `htlc_extend` dereferences options that are not set, which the creation asserts ("HTLC Committee options are not set.") |
| `withdraw_permission_object.hpp:83` | `WithdrawPermission`, `LimitPerPeriod`, `W` = 8 with a period of 7 | the end of a period wraps in 32 bits, and the whole limit is available at every claim of the first period |
| `withdraw_permission_evaluator.cpp:137` | `WithdrawPermission`, `AvailableAccurate`, one update after a claim | an update keeps `claimed_this_period`, and the first period of the new terms is short by it |
| `db_balance.cpp:199` | `Vesting`, `VestedAtOnce`, `VestingPeriods` with 0 | with a vesting period of zero the first cashback, "immediately available" (`account_object.hpp`), is not |
| `proposal_evaluator.cpp:485` | `Proposals`, `ReviewFrozenKeys` | key approvals are accepted in the review period ("No new approvals may be added.") |
| `proposal_object.cpp:103` | `Proposals`, `IndexComplete` | withdrawing an approval takes a proposal out of the index of those that require the account |
| `db_update.cpp:67` | `WitnessSchedule`, `RateExact` | the bits of filled slots are shifted in the wrong order, and by more than their width after long gaps, so participation is not that of the past 128 slots |
| `db_update.cpp:173` | `TransactionPool`, `RememberedLonger` | "Transactions must have expired by at least two forking windows in order to be removed." They are removed at once; `AppliedOnce` shows that this is enough |
| `db_block.cpp:487` | `TransactionPool`, `FailedNotReapplied` | "transaction will not be re-applied": it stays pending and may be |
| `db_update.cpp:224` | `Smartcoin`, `FeedOfTheMoment`, the instance `G` of `MCMarkets` with `SqueezeRatio` = 21 | GOLD with `no_settlement` and a squeeze ratio above the fixed collateral ratio of 2.0 (`asset_ops.cpp:258` limits it only to 32.0): one borrower just above 2.0 raises GOLD's effective feed above the anchor price, contrary to `Gold-Feed-Policy.md:97` ("Its settlement price is calculated internally") |
| `db_update.cpp:328` | `Smartcoin`, `EffectiveInCore`, `Methods` with `no_settlement` for a coin other than GOLD | for two settlement methods the effective feed is overwritten by the unconverted TARGET/GOLD price, contrary to `README.md:47` |
| `node.cpp:982` | `PeerSync`, `NeverStalled` | "a state we should never get into in the first place" is the normal state while the chain works on the last block of a list |
| `node.cpp:3259` | `PeerSync`, eventually always `CaughtUp`, and `StallEnds`; the instances `S` and `G` of `MCNode`, with fairness | the loop over received blocks ends early at one that has been accepted in the meantime, and what comes after is neither pushed nor requested again (`node.cpp:573`), contrary to "start iterating _received_sync_items from the beginning". Two peers with the same chain suffice; so does one, whose connection the stall check ends while its last block is being handled and that is connected again |
| `node.cpp:2577` | `PeerSync`, the same, the instance `S` of `MCNode` with the loop of `Backlog` continued after such a block | blocks are received from a connection that breaks; the list of the next connection begins with one of them, and its arrival starts the requests but not the backlog |
| `node.cpp:2417` | `PeerSync`, `HonestNeverCut`, peers whose chains grow, `MinIds` = 1 | the answer to the first is compared with the second synopsis, and the honest peer disconnected |
| `node.cpp:2524` | `PeerSync`, `ReplacedFromKnown` | an assertion demands a block to be on the chain that may still be waiting to be pushed |


## 5. Proofs

Theorems hold for every value of the constants that meets the assumptions named
below. A module's assumption is either an `ASSUME`, or an operator of the module
(`CreditAssumption`, ...) that is a hypothesis of its theorems and that
`MCContracts`, `MCMarkets` or `MCNode` assumes of its instances; TLC evaluates both kinds.

| Module | About | Theorems |
|---|---|---|
| `UndoDatabaseProofs` | `UndoDatabase`, `VersionStack` | `UndoRestores`, `UndoNeverThrows`, `MergesAreCausal`, `SessionsKeepStates`, `TypeCorrect`, `ImplementsVersionStack` |
| `ChainDatabaseProofs` | `ChainDatabase`, `WitnessSchedule`, `TransactionPool` | `ChainInvariant`, `ChainTypeCorrect`, `ChainLogKept`, `ChainKeepsTransactions`, `ChainFailuresUnwind`; `SlotsAlwaysAgree`, `SlotsTellTime`, `SoleProducerNeverStalls`; `PoolKeepsTransactions` |
| `GoldReserveVaultProofs` | `GoldReserveVault`, `Smartcoin` | `Conservation`, `Collateralized`, `NoEmergency`, `FeedCurrent`, `SpendingAgrees`, `LimitHolds`, `TypeCorrect`; `CoinIsBacked`, `FeedIsOfTheMoment`, `DebtIsSound` |
| `CreditMarketProofs` | `CreditOffer`, `LiquidityPool`, `PredictionMarket` | `CreditTypeCorrect`, `CreditConserves`, `CreditIsSound`, `PoolConserves`, `PoolIsFair`, `PredictionConserves`, `RedemptionIsFair` |
| `LockupProofs` | `SametFund`, `Ticket`, `Vesting` | `SametTypeCorrect`, `SametConserves`, `SametFundsRepaid`, `TicketInvariant`, `TicketsConserve`, `TicketsAreKept`, `VestingInvariant`, `VestingConserves`, `OnlyVestedWithdrawn`, `VestingIsSound` |
| `AgreementProofs` | `Proposals`, `Htlc`, `WithdrawPermission` | `ProposalsInvariant`, `ProposalsAreGuarded`, `ProposalsAllResolve`, `HtlcConserves`, `HtlcNeverEarly`, `HtlcTimeLocks`, `WithdrawWithinLimits` |
| `ContractsProofs` | `MCContracts` | `FundsAlwaysRepaid`, `CreditAlwaysSound`, `ProposalsAlwaysGuarded`, `ProposalsAlwaysResolve`, `TimeLocksAlwaysHold`, `AlwaysWithinLimits`, `TicketsAlwaysKept`, `VestingAlwaysSound`, `PoolAlwaysFair`, `RedemptionAlwaysFair`, `ContractsConserve` |
| `DataLemmas` | sums, folds, finite maps | lemmas only |

**DataLemmas.** What conservation needs of a sum (`SumOver`, of `Sums`): one more
member, one value changed, two changed, a set split in two, a sum of nonnegative
terms that is zero. The library's induction theorems cannot be used (they take a
predicate as a parameter), so each induction is written out: the set of
counterexamples, were it not empty, would have a least number (`LeastNumber`) or a
smallest subset (`SmallestSubset`), from which a smaller one is found. The same
argument shows what the folds over sequences keep.

**UndoDatabaseProofs.** Assumptions: `None` is not a value; the bounds are
natural numbers. The invariant `LayersRestore` is not inductive: whether a merge
of two states still restores depends on more than that each restores. The
inductive invariant `IndInv` therefore says, for every undo_state `st` pushed on
version `v` and followed by version `w`, how each of its maps relates to `v` and
`w` (`Layer`): an id in `new_ids` did not exist in `v` and exists in `w`, a removed
object existed with that value and exists no longer, an old value is the one of
`v`, everything unrecorded is unchanged, and next ids only grow; ids at or above
the next id are unused. `Layer` is preserved by each hook (on the top state), and
two `Layer`s compose under `Merged`; these are the two groups of lemmas. The
remaining parts say that live sessions have their states, that forced flags are
only on the lowest live session, and that nothing is on the stack while recording
is off. The theorems follow from it, and `ImplementsVersionStack` action by action.

**ChainDatabaseProofs.** Assumptions: blocks are finitely many and no set of them
links only to itself (a block names its parent by a hash); witnesses are finitely
many; sizes are natural numbers. The inductive invariant `IInv` says that the chain
is a path of the tree (`ChainOK`), what a running push remembers (`PushOK`), that a
switch stays on two branches with a common beginning (`ForkOK`: the popped blocks
are those of the old branch, the chain is a beginning of one of the two), where the
transactions known before a push are (`KnownOK`), that nothing is popped below the
object database on disk (`StartOK`), and, as long as nothing has crashed, that the
log has no gaps, holds the chain and is what `reindex` replays (`LogOK`). `Lineage`
is a recursive function on blocks; that it is the path to its block, and the only
one, is proved by the well-foundedness of `Parent`. `LogHoldsChain` is proved for
behaviours without a crash: after one the log may be behind, which is what
`restart` is about. `ChainKeepsTransactions` unfolds the two folds of the restorer.
`ChainFailuresUnwind` has the hypothesis `[]PopNeverThrows`: where popping throws, a
failed push is *not* unwound, which is finding 1. Its extra invariant (`Unwound`)
says that while a push is under way the chain before it is still the one to return to.

The same module proves what `MCNode` checks of `WitnessSchedule` and
`TransactionPool`, for constants and variables of their own.

- *Schedule.* Assumptions: elected sets are finite and not empty, an interval is
  positive and shorter than the time between maintenances. The invariant (`WInv`)
  adds to `TypeOK` and `NextMaintAhead` that the shuffled witnesses are an order of
  some elected set without repetition, and that before the first block maintenance
  is due and nothing is skipped. That a block charges a witness at most once, and
  never its producer, then follows from remainders: slots less than a round apart
  have different witnesses (`RoundDistinct`). `SlotsTellTime` needs that the
  interval stays the same and genesis is on a slot (`Steady`): a change of the
  interval moves the slots, and the absolute slot number is only counted up.
  `SoleProducerNeverStalls` needs what makes every other refusal of the production
  loop impossible (`SoleProducer`: all keys, no required participation, stale
  production allowed); it does not assume that the loop wakes in time, which is why
  "lag" is among the results it allows.
- *Pool.* Assumptions: expirations, sizes and bounds are natural numbers; needs and
  clashes are arbitrary, also circular. The invariant (`PoolInv`) says that the chain
  was built block by block, each block applied to what is below it (`Good`), that the
  session can be applied to the head and is pending, and that whatever a pending
  transaction needs is in the chain or pending before it (`Ordered`). `Good` alone
  gives `AppliedOnce`: a transaction in the chain is in the duplicate index until
  a block later than its expiration, and from then on it is refused as expired.
  It gives `TaposHonoured` as well: a summary is a beginning of the chain it is of.
  `NothingLost` rests on `Ordered`. The restorer tries every transaction once, so
  what fails must not become possible by what is applied after it: being known,
  expired, on a wrong branch or in a clash is permanent, and a missing need is too,
  because everything needed comes earlier in the list and was refused itself
  (`NeverLater`). A fork switch keeps `Ordered` because the popped transactions, in
  the order of their blocks, go before the pending ones. The four folds of the
  module are unfolded once, as traces (`PoolTraces`).

**GoldReserveVaultProofs.** Assumptions: supplies, rates and bounds are natural
numbers, workers are records of the four kinds, prices are positive and do not
fall (`GrowthAssumption`). The inductive invariant is the conjunction of the
safety invariants with side facts: the supply is at most the maximal one (else the
headroom is negative), the vault exists only after the hardfork and with GOLD
created, what was spent is at most the limit, and the last budget is not in the
future. Non-linear arithmetic is isolated in a few lemmas on integer division;
`CoverGrows` carries the collateral from one epoch to the next. `TypeCorrect` of
both modules and `FeedCurrent` are not repeated by a run: what they say is part of
what makes the others inductive.

`Smartcoin`: `SmartcoinAssumption` says only what kind of value each constant has, and
suffices for `CoinIsBacked`, whatever the options and the feeds: `FInv` is `FTypes` and
`FAdds` (a position has debt and collateral or neither; coins are debt, CORE is
conserved). That a repair is never refused is arithmetic: less debt or more collateral
raises the ratio, which `do_apply` accepts without looking at the feed. The two other
theorems also assume `Undistorted`: section 4 shows why the methods and the squeeze
ratio must be restricted; that GOLD per CORE never falls is what
`gold_feed_growth_factor_scaled`, an increasing function of the blocks elapsed, provides.
`FeedInv` adds `FFeeds`. Of a coin it says that the median is in the middle of the feeds
alive *at this block* or null when they are too few, that `pub` is not after any of them,
and that the effective feed is the median at the anchor price of this block. The part
about `pub` is what makes it inductive: from one block to the next feeds may die, and
unless the coin is found expired, and recomputed, none of those in the median did; no
other feed was alive. That a median exists at all (the `CHOOSE` of `Median` finds
something) is `PlaceExists`, a counting argument over a finite set of prices. Of GOLD
`FFeeds` says that both feeds are the anchor price and, because of `no_settlement`, which
looks at the least collateralized position, that every position is covered twice at that
price; this stays true because GOLD per CORE never falls. `DebtIsSound` adds the step
property: whoever borrows or takes collateral out leaves a position that is closed or
covered twice at the prices of at least half of the feeds alive now.

**CreditMarketProofs.** `CreditOffer`: the assumption is that accounts are finitely
many, amounts and the collateral's price positive, the lender is nobody's borrower. `IInv` adds to
`CreditSound` that each deal's offer and summary exist, that ids are below their
counters and that both assets add up over accounts, offers and deals; the state
inside the block's loop over expiring deals is described by the same `Sound`, so
the loop keeps it turn by turn. The rounding is in the lemmas on the collateral
released: rounded down, it never lowers collateral per debt. `LiquidityPool`:
amounts are positive and fees at most the whole. `LInv` is `LTypes`, `LShape` (the
virtual value is the product of the balances; a pool without shares is empty, one
with shares has something of each asset) and `LAdds` (both assets and the shares add
up). `NoDilution` is about two states, and rests on one rounding lemma per
operation: a deposit is rounded up (`PaysEnough`), a withdrawal down (`PaysShare`),
and an exchange leaves the product of the balances no smaller (`ExchangeIs`).
`PredictionMarket`: `MInv` adds to types and sums that the settlement fund covers the
tokens at the settlement price and is empty together with them (`MCovers`); that a
redemption, which rounds down and changes the price for those who come later, keeps
this is `RedeemIs`.

**LockupProofs.** `SametFund`: besides the current state the invariant speaks of
every *saved* state of the nested sessions, since an undo makes it the current one.
A fund's balance and its unpaid amount are the total of what owners put in, and the
vector of a session accounts for what is unpaid since the session started; when the
outermost one ends, nothing is. `Ticket`: `LockHonoured` (no ticket is paid out
before its types allow) is not inductive. The missing part is `TicketOK`: a ticket
that charges although its downgrade was started began to charge before the end of
that downgrade, and the time until which its types keep it locked is less than a
charging step after the time at which it can be paid out. This needs
`CancelTime < ChargingStep`, as `ticket_object.hpp:80` has it (7 and 15 days).
Statistics are compared with `TotalOf`, a sum over tickets per account and kind.
`Vesting`: `VInv` is `VTypes` (each balance is one its policy can be in) and `VAdds`
(accounts, balances, shares still pending, what is accumulated, burned and left of
genesis add up). That a policy never allows more than there is needs, for coin-seconds,
that what has been earned is at most the balance times the larger of the vesting period
and a second, and at least what came in vested is worth; each deposit, accrual and
withdrawal is a lemma with its rounding, and the loop that pays out fees is followed
share by share. `VestingIsSound` excludes the vesting period of zero, for which section 4
shows that `deposit_vested` does not do what it says; the other theorems include it.

**AgreementProofs.** `Proposals`: `PInv` describes the open sessions as a stack
(`Nested`): each session was opened from the saved state below it, executes a
proposal that is there in every state above it, and goes to an older proposal than
the session around it; every saved state is again sound. `Htlc`: contracts and
accounts add up; `HtlcTimeLocks` assumes that the committee does not unset its
options (section 4), `HtlcNeverEarly` and `HtlcConserves` do not.
`WithdrawPermission`: `WInv` says in which period of its permission a claim was
counted; `NoWrap` (no end of a permission reaches 2^32 seconds) is necessary, as
section 4 shows.

**ContractsProofs.** The properties of the run `contracts`, for the run's own
specification. Each proof module is instantiated with the constants of a part; that
the actions of `MCContracts`' instance and of the proof module's are the same
(lemmas `Same...`), and that a part that is not run stands still, carries the
general theorem over. `ContractsConserve` is about all parts at once: `ContractsInv`
says that the part that is run is one of `Parts` and is in its invariant, from which the
types and the conservation of that part follow (lemmas `...Conserved`).

**Only model-checked**, and why:

- `Converges`, `CatchesUp`: liveness under fairness and ENABLED are outside the
  proof system.
- `UndoSuffices`, `PopNeverThrows`, `ForkHeadIsHead`, `StartSucceeds`,
  `RestartAgrees` and `IrreversibleStays` of `ChainDatabase`: they are not true for
  every value of the constants (section 4; and witnesses that sign two branches),
  and what distinguishes the trees on which they hold is the instance itself.
- The properties of `MCMarkets` and `MCNode`: `LimitMarket` and `PeerSync` declare
  RECURSIVE operators (nested matching; the loop over received blocks), which the
  proof system cannot take, neither directly nor through these compositions. What
  `FeedOfTheMoment` and `DebtSound` of `MCMarkets` say of its instances of `Smartcoin`
  is nevertheless proved: they are instances of `FeedIsOfTheMoment` and `DebtIsSound`,
  whose assumptions `MCMarkets` makes. In the same way `SlotsAgree`, `NoStall` and
  `TransactionsKept` of `MCNode` are instances of `SlotsAlwaysAgree`, of
  `SlotsTellTime` with `SoleProducerNeverStalls`, and of `PoolKeepsTransactions`.

## 6. Not modelled

- *Unreachable*: margin calls, force settlement, individual settlement, collateral
  bids, revival and the black swan, as explained under `Smartcoin`.
- *Sequential bookkeeping*: creating and updating accounts, witnesses, committee
  members and workers; issuing, claiming and administration of assets; elections
  and the update of chain parameters, of which `WitnessSchedule` and
  `GoldReserveVault` take the results; genesis.
- *Authorities*: every operation is taken to be authorized; the search through
  nested authorities and custom authorities (from 2030 on this chain) is not
  modelled.
- *Network*: encryption, the handshake and the exchange of addresses, bandwidth,
  the inventory of transactions, the closing handshake.
- *No state that feeds back into the chain*: serialization, signatures, stateless
  validation (`protocol`), APIs, plugins that only observe, the wallet, the debug
  helpers. These are the bulk of the repository: the word list of
  `utilities/words.cpp` alone is 49783 of its 131274 lines, APIs, wallet and their
  headers are another 15000, so the share of lines that a model of this chain's
  behaviour can stand for is small.
- The long double arithmetic of the growth factor is out of TLC's reach and enters
  as `GrowthAssumption`; commitments of confidential transfers are cryptography.

## 7. Plan

In order:

1. `ChainDatabase` as an implementation of an abstract "the node holds one chain"
   specification.
2. `Maintenance`: votes, elections, workers, committee parameters; composed with
   `WitnessSchedule` and `GoldReserveVault`.
3. `Authority`: the search of `transaction.cpp` with its depth limit, rejected
   custom authorities and proposals.
4. The handshake and the closing of connections in `PeerSync`.
