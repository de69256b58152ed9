# A TLA+ verification of the Korsh node

Korsh is a full node descended from Dash and Bitcoin Core, with shielded
transactions ported from PIVX (Sapling). This directory holds TLA+ models of its
state-keeping core, TLC configurations that check them on small instances, and
TLAPS proofs of the facts that matter most. Paths below are relative to the
node's source directory `src/src/`.

## The system

A node keeps one consistent state: the unspent coins, the shielded nullifiers
and note-commitment roots ("anchors"), the active chain, and the masternode data
in EvoDB. Blocks move it forward and, in a reorganisation, backward. Most of
the rest of the node reads that state or decides what may be done to it.

| Part | Code | State it owns |
|---|---|---|
| Coins caches | `coins.cpp`, `coins.h` | per level: coins with DIRTY/FRESH flags, nullifiers, anchors, the current root |
| Coins database | `txdb.cpp`, `sapling/sapling_txdb.cpp` | the same without flags, best block, head blocks of an unfinished flush |
| Chainstate | `validation.cpp`, `node/chainstate.cpp`, `consensus/tx_verify.cpp` | active chain, order of connecting, disconnecting, flushing and replaying |
| Block storage | `node/blockstorage.cpp` | blocks, undo data, block index |
| EvoDB | `evo/evodb.cpp`, `evo/evodb.h`, `dbwrapper.h` | masternode data with its own best block; block and root transactions |
| Mempool | `txmempool.cpp` | unconfirmed transactions, spent outpoints, nullifiers |
| Masternode list, special transactions, credit pool, MnEHF | `evo/` | lists, snapshots and diffs in EvoDB |
| LLMQ signing, DKG, commitments | `llmq/`, `active/` | votes, shares, recovered signatures, session phases |
| ChainLocks, InstantSend | `chainlock/`, `instantsend/` | best lock; pending, stored and archived locks |
| CoinJoin, governance, sporks, masternode sync | `coinjoin/`, `governance/`, `spork.cpp`, `masternode/` | session, objects and votes, flags, sync stage |
| Concurrency helpers | `checkqueue.h`, `scheduler.cpp`, `validationinterface.cpp` | queues and condition variables |
| Indexes, orphan transactions | `index/base.cpp`, `txorphanage.cpp` | best indexed block; orphan maps |
| Network, mining, wallet, RPC, GUI | the rest | I/O and user interfaces |

On the network at launch quorums, InstantSend, ChainLocks and governance are
switched off, while their code is retained. The coins, shielded, EvoDB, mempool
and concurrency parts run from the start.

How the modelled parts meet: blocks are connected under `cs_main` in a view over
`CoinsTip()` (`CoinsViews`, `Chainstate`), with an EvoDB transaction around each
block (`EvoDB`) and the scripts checked by the check queue (`CheckQueue`). The
mempool follows the tip in the same critical section (`Mempool`). What happened
is reported through the scheduler's client (`Scheduler`), whose thread is one of
those that sign the tip (`ChainLockSigner`). ChainLocks and InstantSend decide
which blocks may stay active (`ChainLocks`).

## Modules

**`CoinsViewOps`** defines the operations of one cache level as operators on
functions: `cacheCoins` is a function from outpoints to an entry (coin, dirty,
fresh) or `NoEntry`. `FetchCoin`, `AddCoin`, `SpendCoin`, `Uncache` and
`BatchWriteCoins` are the methods of `CCoinsViewCache` of the same names. A coin
is an opaque value or `Spent`. The nullifier map is treated the same way.

**`CoinsViews`** stacks three levels: the database, `CoinsTip()`, and the view that
a block is connected or disconnected in. The actions are what the callers do:
look up, add, restore from undo data, spend, set a nullifier, flush or drop the
view, uncache a coin of the tip (mempool acceptance does), flush or sync the
tip. A lookup that passes through the tip also fills the tip's cache. The
database is written in one step here; `Chainstate` splits it.

**`UtxoLedger`** is what the caches promise: three ledgers (pending, committed,
durable) without any cache or flag.

**`BlockTree`** defines a tree of blocks and what a chain of it means: the coins,
nullifiers and roots after a block, computed from its blocks alone.
`Chainstate` and `Mempool` extend it.

**`Chainstate`** models connecting and disconnecting blocks, flushing, crashing and
starting. By the refinement above, a cache is represented by its contents
rather than its flags. The exception is the current Sapling root, whose caching
is visible: each level has a `hash` that may be null (`NoAnchor`).

| Action | Code |
|---|---|
| `ConnectTip` | `CChainState::ConnectTip` with `ConnectBlock`: EvoDB check, BIP30, inputs and maturity, shielded requirements, coins, nullifiers, anchors, undo data |
| `DisconnectTip` | `DisconnectTip` with `DisconnectBlock`, clean or aborting |
| `WriteBlockIndex` | the first half of a full flush: undo data and block index |
| `WritePartialBatch`, `WriteFinalBatch` | `CCoinsViewDB::BatchWrite` |
| `CommitRootTransaction` | the EvoDB commit after the coins |
| `Crash`, `Start` | loss of memory; `LoadChainstate` with `ReplayBlocks` |

A note-commitment tree is the sequence of its commitments, so that its root is
the sequence itself. A block that fails a check the model leaves out
(scripts, payees, special transactions) is in the constant `Refused`; it is
refused after its transactions were applied. The next block is any
child of the tip: chain selection by work only picks among these behaviours
(`ChainLocks` models the selection). Undo data carries the flag
`BLOCK_HAVE_UNDO`. A clean shutdown is a full flush followed by a crash that
loses nothing.

**`CheckQueue`** models `CCheckQueue` and `CCheckQueueControl`. The mutex is held by
a thread at `pc = "loop"`; a critical section that does not wait is one step.
The notifications of `Add` and of `StopWorkerThreads` are steps of their own, since
the code calls them after it released the mutex. Waiting threads may wake up
unnotified. A check is a value; those in `Bad` fail.

| Action | Code |
|---|---|
| `OpenControl`, `Add`, `NotifyOne`, `NotifyAll`, `Wait`, `CloseControl` | `CCheckQueueControl` and `Add` |
| `Account`, `Sleep`, `Wakeup`, `Return`, `Leave`, `Take`, `Execute` | one iteration of `Loop`, in its order |
| `StartWorkerThreads`, `RequestStop`, `NotifyStop`, `JoinWorkers` | the pool |

**`Scheduler`** models `CScheduler::serviceQueue` on several threads, a task that
`scheduleEvery` repeats, and `SingleThreadedSchedulerClient`. Times are relative
and `Tick` lets one unit pass. The main thread stops the scheduler, joins its
threads and empties the client's queue, as `PrepareShutdown` does.
**`SerialExecutor`** is what the client promises: callbacks wait in a queue and
are executed one at a time, in order.

**`CDBTransaction`** defines a layer (writes, deletes, memory usage) with its
methods as operators, and the iterator that merges a layer with its parent.
**`EvoDB`** stacks the current transaction on the root one on the database, with
the scoped committer, the root commit at a flush and a restart. `AddToCache` is
the snapshot that the credit pool, or the manager of the MnEHF signals, writes
outside of a block's transaction. **`TransactionalStore`** is the promise: a map in three states, on
disk, committed and current.

**`Mempool`** keeps `mapTx`, `mapNextTx`, `mapSaplingNullifiers` and the links
between parents and children. `Accept` is acceptance with eviction;
`ActivateBestChainStep` and `InvalidateBlock` disconnect and connect blocks, queue
the disconnected transactions, put them back, link them to children that never
left, and remove what is immature. Fees, sizes and limits are abstracted to a
free choice of what is refused or evicted.

**`ChainLocks`** has threads that process CLSIGs (`ProcessNewChainLock`,
`LookupBlockIndex`, `FinishChainLock`, which hold the lock only within a step), the
arrival of headers and blocks, chain selection with the flags of the block
index, the scheduler thread that enforces the best lock (`Enforce`, `EnforceStep`,
`EnforceActivate`, `EnforceDone`), InstantSend's conflict resolution in its three
steps, and spork 19. Blocks may be stored before their parents. The handler starts
with `isEnabled` false, as in the code. `CheckActiveState` writes `isEnabled` without
the lock and takes it for the reset alone: a thread that saw ChainLocks activated
(`SeeActivation`) is in `resetting` and may reset the lock any time later, when other
threads have recorded a new one. An InstantSend lock whose transaction is unknown is
"pending": it invalidates a block that InstantSend has noted as mined, which is
reset at once, and does not make `ConnectBlock` refuse one until it is received
again with its transaction. `mined` are the blocks that `nonLockedTxs` may name, also
after they were disconnected. `InvalidateBlock` is one step here; the code releases
`cs_main` between the blocks it disconnects, which `Mempool` has as rounds.

**`ChainLockSigner`** follows `TrySignChainTip` and `AsyncSignIfMember` test by test
on each thread that runs them. The tip and the best lock change freely. A
restart keeps the database of votes.

The modules `MC...` give trees and values for TLC. Operators commented "Faulty
variant" are deliberate errors that stand in for plausible mistakes in the code;
substituting one for the definition after it makes a property fail. No
specification uses them.

## Runs

| Run | Result | States | Question |
|---|---|---|---|
| `coins_views` | holds | 203,768 | do flags, lookups, uncaching and flushes in any order keep the coins right? |
| `chainstate_reorg` | holds | 50,503 | do reorganisations leave exactly the coins, nullifiers and anchors of the active chain? |
| `chainstate_crash` | holds | 5,103 | do crashes at any point of a flush or replay leave a recoverable node? |
| `check_queue` | holds | 98,594 | does every `Wait` return, with the right verdict? |
| `scheduler` | holds | 303,651 | do callbacks run in order, one at a time, and all of them? |
| `evodb` | holds | 114,624 | do the transaction layers behave as one store? |
| `mempool` | holds | 1,524 | do the pool's indexes stay exact and its entries fit the chain? |
| `chainlocks` | holds | 525,143 | do locks stay, and is the locked chain made active? |
| `anchor_assert` | violated | | does the anchor assertion of `UpdateCoins` hold on any chain? |
| `replay_nullifiers` | violated | | does a replay restore the nullifiers? |
| `mempool_anchor` | violated | | does every pool transaction pass `CheckTxInputs`? |
| `double_vote` | violated | | does a masternode sign at most one block of a height? |

*Coins and chainstate.* `CoinsMatchChain`, `NullifiersMatchChain` and
`AnchorsMatchChain` compare the state with a definition that computes it from the
chain alone. `DisconnectsClean` says that a disconnect finds what it expects.
`CrashRecoverable` says that the database always names a transition whose blocks
are on disk. `FlushResumesTransition` is the assertion in `BatchWrite`.
`EvoFollowsCoins` and `AbortsOnlyWhenTorn` say that EvoDB lags behind the coins
only after a crash between the two commits, and that the node gives up on EvoDB
for no other reason. `FlushCompletes` is liveness.

*Concurrency.* `VerdictExact`, `ControlLeavesClean` and `CountersExact` relate what a
control is told, what it leaves behind and the three counters to the checks
themselves; `CallsReturn` says that no wake-up is lost. `NoneForgotten` says that
a pending callback always has someone on the way to it. `ImplementsExecutor` is the
refinement, `CallbacksRun` the same with the executor's fairness, and
`StopReturns` the end of a shutdown.

*EvoDB.* `ImplementsStore` is the refinement, `MemoryUsageExact` and
`IterationExact` compare the accounting and the merged iterator with their
definitions. `AbortsOnlyOnSnapshots` is about `assert(curDBTransaction.IsClean())`
in `CommitRootTransaction`: block processing never leaves changes behind, but the
raw transaction RPCs call `GetCreditPool` outside of a transaction, and every 576
blocks that writes a snapshot into the current layer. Where the credit pool is
active a flush that follows finds it and stops the node.

*Mempool.* `IndexesExact` is what `CTxMemPool::check` asserts of the maps;
`FitsChain` says that inputs are available and mature and nullifiers unrevealed
after any reorganisation.

*ChainLocks.* `LocksStay` is an action property: a block loses its ChainLock only
when spork 19 is switched off, or when a thread in `resetting` carries out its
reset. The second happens also while spork 19 is on, when that thread was held up
in `CheckActiveState` since the activation, or since the node started. The CLSIG is
then in `seenChainLocks` and is not processed again for a day. `LockedChainUnmarked` matters since
`BLOCK_CONFLICT_CHAINLOCK` is not taken back by the code modelled here, and the
enforcing thread may work on a lock that is no longer the best. `LockEnforced` is
liveness: a locked chain that the node has becomes active, also when InstantSend
invalidates it in between. A header that arrives between `LookupBlockIndex` and
`FinishChainLock` leaves the lock without a block until the next CLSIG; the
property is therefore about the lock whose block is known.

### Four disagreements

* **`anchor_assert`** (`coins.cpp:326`). A block view that never asked for the
  current root has a null `hashSaplingAnchor`, and flushing the view copies the
  null over the tip's value. The tip then falls back to the root last written to
  disk. Connect a shielded block, flush, disconnect it, connect a block
  without shielded outputs, then one with: the root on disk has been popped, and
  the assertion at `validation.cpp:1912` fails. `chainstate_reorg` uses a tree
  in which every block has shielded outputs, where this does not happen.
* **`replay_nullifiers`** (`validation.cpp:4971`). The Sapling records are in the
  final batch of a flush. After a crash in an earlier batch, `RollforwardBlock`
  replays coins but neither nullifiers nor anchors. `chainstate_crash` therefore
  checks coins only, on a tree whose transactions are transparent, and
  `chainstate_reorg` has crashes only outside batch writes.
* **`mempool_anchor`** (`validation.cpp:438`). After a reorganisation the pool is
  filtered for finality and maturity. A shielded transaction whose anchor was
  pushed by a disconnected block stays, although `CheckTxInputs` now refuses it;
  `txmempool.cpp:1238` says that it "should always pass". `FitsChain` leaves the
  anchors out for that reason.
* **`double_vote`** (`llmq/signing_shares.cpp:963`). The test for a vote and the
  write of one are not under one lock, and `TrySignChainTip` runs on two threads.
  When the tip changes between two blocks of one height, which InstantSend's
  invalidation can cause, the two threads may sign different blocks, against
  `llmq/signing.cpp:497`. It gets no worse than one block per thread, which is
  proved.

### Bounds

`coins_views` has two outpoints, two coins and one nullifier. Entries of
different outpoints interact only through whole-cache flushes, which two show;
two coin values tell a restored coin from another.
The trees of `Chainstate` have two to four branches of up to three blocks: enough
for a reorganisation of depth two, a transaction mined at two heights, a coinbase
spent at maturity, a nullifier revealed on two branches, and blocks with
several shielded transactions. `MaxCrashes = 2` allows a crash during the
recovery from a crash. `COINBASE_MATURITY` is 1 or 2 instead of 100. A partial batch
writes any subset of the changed outpoints, so that the batch size does not matter.
`check_queue` has one caller that opens controls one after the other, two workers,
four checks and `nBatchSize` 2, so that
batches of one and of two checks occur and the pool is used while running and
while stopped; that callers exclude each other is covered by the proof. `scheduler` has two service threads, two callers, at most
`MaxPending = 2` callbacks and callers wait while `MaxTasks = 2` tasks are queued.
`evodb` has three keys, two values of different sizes and one snapshot key.
`mempool` has nine transactions with a chain of three, conflicts by input and by
nullifier, a coinbase spend, three branches and a disconnectpool of three entries,
so that it overflows. `chainlocks` has a locked branch of two blocks, a rival
block that the node has at first, two handler threads and one InstantSend conflict,
with the lower block of the locked branch, so that its descendant has to become
usable again as well. `MaxEvents = 2` bounds the changes of spork 19 and the
receipts of the InstantSend lock together: the spork goes off and on again, a
pending lock is received again, or one of each happens. The proofs remove the bounds
for what they cover.

Deadlock is not checked for `Chainstate` (the node stops for good when it aborts),
`Scheduler` (shutdown ends), `Mempool` (no transaction or block may be left),
`ChainLocks` and `ChainLockSigner` (the environment may have nothing more to do).

### Fairness

* `chainstate_crash`: weak fairness of `WriteFinalBatch`, `CommitRootTransaction` and
  `Start`. The first two are straight-line code under `cs_main` once a flush has
  begun; the third says that the operator restarts a node that is down. Nothing
  is assumed about blocks arriving or about flushes being begun.
* `check_queue`: weak fairness of each thread's own steps, strong fairness of taking
  the mutex, which other threads may take in between. Nobody has to open or fill a
  control, start or stop the pool, and no spurious wake-up is assumed.
* `scheduler`: weak fairness of each thread, of callbacks returning, of time and of
  the shutdown; strong fairness of a timed wait that expires again and again.
* `chainlocks`: weak fairness of the handler's scheduler thread, which
  `scheduleEvery` runs every five seconds, and of the two steps with which
  InstantSend completes what it began (`ResolveStep`). No message, header or block has to arrive.

## Proofs

All are for arbitrary values of the constants under the named assumptions.

**`CoinsViewsProofs`**: `TypeCorrect`, `SanityCheckHolds`, `FlagsAreCoherent`,
`NeverThrows`, and `CachesImplementLedger` (`CoinsViews` implements `UtxoLedger`).
`SentinelAssumption` says that `Spent` and `NoEntry` are not coins or entries. The
inductive invariant is the conjunction of the four. `SanityCheck` is not
inductive alone: whether a spend may drop an entry, or a merge may keep FRESH,
depends on what the level below holds. `FlagsCoherent` says that: a clean entry
agrees with the level below, and a FRESH entry has no unspent coin below it.
Lemmas about `FetchCoin`, `AddCoin`, `SpendCoin`, `MergeEntry` and the writes state
what each does to the contents and to coherence, for one outpoint. The refinement
maps a level to its contents: lookups and uncaching become stutters, flushes
and syncs become `Commit` and `Persist`.

**`ChainstateProofs`**: `FlushesResumeTransitions`, `EvoDBFollowsCoins` and
`EvoDBAbortsOnlyWhenTorn`, for every tree and any number of crashes, from
`ParentAssumption` and `CrashAssumption`. The argument is the order of the three
stores and not what blocks do, so `ConnectBlock`, `DisconnectBlock` and
`ReplayBlocks` stay opaque. The invariant adds what a restart relies on: `DbInv`
(a best block or two heads), `UndoInv` (undo data on disk for every block of the
coins, closed under parents), `CacheInv` (which phases work on a database in
transition, and to which target) and `EvoInv` (EvoDB in memory is at the tip).

**`CheckQueueProofs`**: `TypeCorrect`, `VerdictIsExact`, `ControlsLeaveClean`,
`CountersAreExact`, for finite sets of threads and checks and any batch size
(`ThreadAssumption`, `CheckAssumption`). A verdict is exact because a failing check
is at every moment queued, in a batch that is running or failed, or already in
`fAllOk` (`FailureInv`), and because `m_control_mutex` keeps other controls out
(`ControlInv`); counting needs that no check is in two places (`BatchInv`).

**`SchedulerProofs`**: `TypeCorrect`, `CallbacksNotForgotten` and
`ClientImplementsExecutor`, from `ActorAssumption` and `BoundAssumption`. The
invariant adds that the flag is set exactly while one actor is inside a callback
(`RunningInv`).

**`EvoDBProofs`**: `EvoDBImplementsStore` and `FlushesFindOnlySnapshots`, from
`KeyAssumption`, `SizeAssumption` and `SnapshotAssumption`, with the corollary that
without snapshots the assertion never fails. The invariant is that a layer never
holds a key both as written and as deleted. Without it reading a layer after a
commit would depend on the order in which `Commit` erases and writes.

**`ChainLocksProofs`**: `TypeCorrect`, `LockedChainStaysUnmarked` and `ChainLocksStay`
on any tree (`TreeAssumption`, `ChainAssumption`, `StoredAssumption`), provided that
quorums never lock two branches (`ClSigAssumption`) and that InstantSend does not
exclude the genesis block (`ConflictedAssumption`). The invariant also says what
threads carry between their steps: a looked-up block is that of the CLSIG, and
the block being enforced has a CLSIG, perhaps an old one. That is why marking its
siblings never touches the chain of a newer lock. Which threads are about to reset
the lock does not matter to it: a reset forgets the best lock and its block
together.

**`ChainLockSignerProofs`**: `VotesBoundedByThreads`, the part of `OneVotePerHeight` that
the program keeps: for any finite set of signing threads, a masternode signs at most
as many blocks of a height as it has such threads, over restarts and any movement of
the tip. The invariant counts, for a height, the blocks signed and the threads
between the test for a vote and its write (`PaidFor`). A thread gets there only
while no vote is on disk, that is (`VotesKept`) while nothing of the height is
signed, and each vote takes one of them away.

Only model-checked: all liveness (TLAPS does not handle fairness); the contents of
coins, nullifiers and anchors in `Chainstate` and everything about `Mempool`, whose
definitions fold over sequences of blocks and transactions and would need
induction over data; and `MemoryUsageExact` and `IterationExact`, which sum and
iterate over sets.

## Not modelled

Within the modelled parts: `EmplaceCoinInternalDANGER` and snapshots of the
chainstate, memory accounting of the coins caches, the address, spent and timestamp
indexes, pruning, `VerifyDB`, the asset-unlock exception in `CheckTxInputs`, the
height range in which BIP30 checks are skipped, disk errors other than crashes;
`MockForward`, `StopWhenDrained` and `getQueueInfo` of the scheduler; writes to
EvoDB's database through `GetRawDB`; fees, sizes, package limits, time locks,
prioritisation and provider transactions in the mempool; signature shares and their
recovery, the clean-up of old votes; the queues of pending InstantSend locks and the
archive of old ones. A LevelDB batch is taken to be atomic. Cryptography (proofs, signatures,
hashes) is abstracted to values that are equal or not.

Other parts: the DKG needs several nodes with their contributions to say anything
of interest, which is beyond instances that TLC finishes. The masternode list,
special transactions and payments are pure functions of blocks over large
records; version bits and proof of work are arithmetic on long header histories
and 256-bit numbers. CoinJoin, governance, masternode sync, the background indexes
and the orphan transactions are independent of the modelled parts and have no
module. The network, wallet, RPC, GUI and mining parts are I/O or interfaces.
