# A verification of Axon

Axon is a blockchain node written in Rust: Overlord BFT consensus, an EVM executor, a
transaction pool, RocksDB storage, a gossip and request network, a JSON-RPC API and a client
that follows the CKB chain. This directory holds TLA+ models of its components translated from
the source, TLC configurations that check them on small instances, and TLAPS proofs of their
main invariants for every value of the constants. Paths below are relative to `src/`.

`PROJECT.json` lists the components, the runs, the source lines behind each definition, the
hazards, the findings and the theorems.

| modules | models | checked by | proved in |
|---|---|---|---|
| `PriorityPool`, `MCPriorityPool` | `core/mempool/src/pool.rs`, `tx_wrapper.rs` | 3 passing runs, 2 findings | `PriorityPoolControl`, `PriorityPoolQueues`, `PriorityPoolProofs` |
| `ChainNode` | commit, synchronization, storage rows, metadata cache, start | 2 passing runs, 3 findings | `ChainNodeTypes`, `ChainNodeSteps`, `ChainNodeProofs` |
| `ConsensusWal` | `ConsensusWal` of `core/consensus/src/wal.rs` | 1 passing run, 1 finding | `ConsensusWalProofs` |

## The system

### Parts, their state and their operations

- **Transaction pool** (`core/mempool/src/pool.rs`): a lock-free queue `co_queue`, a heap
  `real_queue`, the map `occupied_nonce` from (sender, nonce) to the pointer that holds it,
  `tx_map`, and buckets of system script transactions. `insert`, `insert_system_script_tx`,
  `package`, `flush`, and a background task that moves `co_queue` into the heap.
- **Mempool front** (`core/mempool/src/lib.rs`, `adapter/mod.rs`): checks nonce, size, signature
  and storage before an insertion, caches nonces per block, pulls missing transactions from
  peers, broadcasts new ones in batches.
- **Consensus engine** (`core/consensus/src/engine.rs`): Overlord's callbacks. `get_block`
  proposes, `check_block` verifies and logs a proposal's transactions, `commit` stores the proof,
  executes, stores the block row by row, swaps the status and flushes the pool.
- **Synchronization** (`synchronization.rs`): a peer announces a height; the node fetches,
  verifies, executes and stores up to `ONCE_SYNC_BLOCK_LIMIT` blocks, then swaps the status.
  It shares one `try_lock` with `commit`.
- **Logs** (`wal.rs`): `SignedTxsWAL`, the transactions of proposals by height and hash, and
  `ConsensusWal`, Overlord's own state.
- **Metadata** (`core/metadata/src/lib.rs`): a cache of epochs (validators, intervals) read from a
  built-in contract.
- **Storage** (`core/storage/src/lib.rs`): one table per kind of row, each written by its own
  call; the keys of the latest block and latest proof; LRU caches.
- **Start** (`core/run/src/lib.rs`): creates genesis, reads the latest block, proof, log and
  metadata back, starts every service.
- **Executor** (`core/executor`): EVM, precompiles, system scripts, and the trie database's cache.
- **Network** (`core/network`): sessions and dialing, peer store, table of outstanding requests,
  and the identify, discovery, ping, feeler and transmitter protocols.
- **API** (`core/api`): JSON-RPC methods, polled filters, WebSocket subscriptions.
- **Cross-chain client** (`core/cross-client`): follows CKB, mints, sends checkpoints.
- Stateless libraries: `protocol`, `common/*`, `core/interoperation`, `core/rpc-client`, `core/cli`.

### How they interact

Transactions enter the pool from the API, from gossip and from `ensure_order_txs`. Overlord asks the engine
for a proposal (`package`), has the other validators check it (`check_block`, which pulls and logs
what is missing), and calls `commit` with the decided block. A node that falls behind hears the
height from `polling_broadcast` of its peers and synchronizes. Both paths write the same tables,
replace the same `StatusAgent` and flush the same pool; the mutex between them is the only thing
that keeps them apart. A crash loses everything but the tables and the two logs.

### What makes it hard

Tasks on several threads that touch the pool under three kinds of locking; a commit and a
synchronization that race for a height; five or more separate durable writes per block with a
crash between any two; failures that are returned after part of the work is durable; caches that
are cleared on one path and not on the other; a log named by a wall clock. `PROJECT.json` lists each
under "hazards", at the line where it bites, with the property that covers it or the reason none
does yet.

## The transaction pool: `PriorityPool`

A worker is a task that calls the pool, the mover is the background task of `new`. Each has a
program counter and a step is one access to a shared structure. `flush_lock` (a read-write lock) and
the heap's mutex are not variables: who holds them is read off the counters
(`ReadPC`, `WritePC`, `HeapPC`).

| code | actions |
|---|---|
| `insert` | `InsertCheck` (limit, before the lock), `InsertPush`, `InsertOccupy`, `InsertMap` |
| `insert_system_script_tx` | `InsertSysHash`, `InsertSysBucket` |
| `package` | `PackageSys`, `PackageLock`, `PopOne`, `PackageScan`, `PackageTake`, `PackageReturn` |
| `flush` | `FlushResidual`, `FlushClear`, `FlushRequeue`, `FlushDone` |
| task of `new` | `MoverSees`, `MoverRead`, `MoverLock`, `PopOne`, `MoverDone` |

A `TxPtr` is `<<transaction, copy>>`: two insertions of one transaction make two pointers. `Copy`
bounds the pointers to one transaction that exist at once, and an insertion does not start when
there would be none left for it and for a flush. The iteration order of the heap (gas price, nonce)
is arbitrary, and so is the set of transactions that `nonce_check` keeps.

`Resubmit` says whether a transaction may be inserted while it is in the pool. The code does not
prevent it; runs with `FALSE` show what holds when callers do not do it.

Passing runs:

- `PoolResubmit` (two workers, two transactions for one nonce, two system script transactions with
  one payload, a queue of two): `TypeOK`; `PopNeverUnwrapsNone`, no `unwrap` of a pop fails although
  three operations drain the queue; `QueuedIsMapped`, a queued hash can be resolved;
  `OneLivePerSlot`, a queued live pointer is the occupant of its nonce; `SysPackagedIsFetchable`, the
  system script transactions a packager took can be fetched.
- `PoolDistinct` (four transactions, a queue of one, no resubmission): `PackageHasNoDuplicate`;
  `RetainedTxSurvivesFlush`; `PoolSizeBound`, the unlocked limit check overshoots by at most one
  transaction per worker; `UnpackageableOnlyBeyondLimit`, the ignored result of `push` loses a pointer
  only when the pool is over its limit.
- `PoolLiveness`: `CoQueueDrains`.

Two workers are enough for each race the code has (inserter with inserter, packager or flush), the
mover being a third party; the queue sizes of one and two make it overflow; workers and copies are
symmetric in the safety runs.

Fairness (`FairSpec`): strong for steps that take a lock, because `parking_lot` locks are eventually fair,
weak for the others, because tokio goes on polling a task; none for starting an operation.

Findings: `PoolResubmitFlush` (a transaction inserted twice is lost at the next flush) and
`PoolDuplicate` (a packager during a second insertion returns a hash twice).

## The node's chain: `ChainNode`

Blocks are heights, because the validators decide one block per height, and the state root after
block `h` is `h`. Durable: one set of heights per table (`db`), the heights whose state the trie
database has (`trie`), the two latest keys, `txs_wal`, and Overlord's own height. `Init` is what
`create_genesis` leaves: block 0 with its state, its proof and its transactions, but no receipts, which
that function never stores. Volatile: `status`, `current_root`, the metadata `cache`, `pool`, the locals of
the two actors. Each actor has a program counter; the commit lock is held where
`EngineHolds` or `SyncHolds`. One step is one database write or one access to shared memory.

| code | actions |
|---|---|
| `check_block`, `get_block` | `CheckBlock`, `CheckBlockFails` |
| `commit`, `update_status` | `CommitStart`, `CommitAgain`, `CommitSaveProof`, `CommitExec`, `CommitExecFails`, `SaveRow`, `SaveLatest`, `CommitMetadata`, `CommitMetadataFails`, `CommitStatus`, `CommitFails`, `CommitFinish`, `CommitFinishFails`, `CommitPanics`, `CommitFinishPanics` |
| `receive_remote_block` and what it calls | `NeedSync`, `NeedSyncPanics`, `SyncGivesUp`, `SyncStart`, `SyncFetch`, `SyncRejects`, `SyncFetchFails`, `SaveRow`, `SyncSaveProof`, `SyncSaveFails`, `SaveLatest`, `SyncFlush`, `SyncSwapStatus`, `SyncFinish`, `SyncFinishPanics` |
| `start` | `Restart` |
| outside the repository | `Decide` (the network decides a height), `HandleRichStatus` (Overlord), `Crash` |

Metadata is the set of cached epochs; `Appends` are the heights whose transaction appends the next
epoch, `CallsMetadata` those that call the contract at all. A lookup that unwraps `None` stops the process,
as a panic does in the code.

`verify_proof` takes the validators from `get_metadata` on the header it verifies (`Verifies`), and caches
them (`AfterProof`). An epoch that is not cached is read from the contract at the state root of that
header, which the trie has only when the block was executed or left the state of its executed parent as
it was (`StateStored`; `Changes` are the heights that change it). So `check_block` may cache the parent's
epoch or fail, and a synchronization refuses a block that starts an epoch the cache does not have, unless
the block changes nothing: its proof is verified before it is executed.

`CommitFails` and `SyncSaveFails` are the error exits after a failed call of the database, the trie, the
log or the pool, at any step; what was written before stays. `CommitMetadataFails` is the error of
`update_metadata` when the contract has no next epoch.

Passing runs:

- `NodeCatchUp` (three heights, two faults, batches of two): `TypeOK`; `StoredChainComplete`, every
  block up to the latest has its state and all its rows (receipts from block 1 on);
  `ProofAheadIsCommittable`, a stored proof ahead of the stored chain is the one of the next height, where
  Overlord still is with its block checked, so that it calls `commit` again; `CommitFindsTxs`, a commit finds its transactions in the
  pool, in storage or in the log; `OverlordFollowsChain`, Overlord and the messages to it are at most one
  height past the stored chain; `EngineCatchesUp` and `SyncCatchesUp`, the node ends at the tip.
- `NodeEpoch` (six heights, epochs of three, one fault, two appends, one call without an append, blocks that
  change nothing, restarts at genesis):
  `StoredChainComplete`, and `StatusNeverRegresses`, which no crash, panic, restart or race breaks.

Three heights let a synchronization of two blocks fail in the middle while Overlord commits one of
them; two faults allow a crash during the recovery from the first. Six heights reach the first blocks
of two new epochs, one that changes nothing and one that does, by either actor. Epochs longer than the
chain keep the metadata findings out of the other runs. `GenesisRestart = FALSE` keeps
out a restart before block 1, after which the node cannot go on (`NodeGenesis`). Deadlock is not
checked: with all heights decided, or stopped for good by a panic, the node may rest.

Fairness (`FairSpec`): an actor that has the lock runs on, the network goes on deciding and a stopped
node is started again. `EngineCatchesUp` assumes besides that Overlord goes on calling, `SyncCatchesUp`
that peers go on announcing (`polling_broadcast`, every two seconds): one of them is enough. Faults
are bounded by `MaxFault`.

Findings: `NodeAuthority` (the metadata cache loses the running epoch when the next is appended, and
the node stops), `NodeProof` (after a synchronization the stored latest proof is the one of the
parent) and `NodeGenesis` (a node
restarted before block 1 has the default state root).

## The consensus log: `ConsensusWal`

`update_overlord_wal` one system call at a time (`SaveBegin` to `SaveReturns`, `SaveFails` anywhere),
`load_overlord_wal` file by file (`LoadBegin` to `LoadNothing`), a crash anywhere, and a clock that ticks
and may be set back. A file is short (no whole checksum), torn (the checksum does not match) or whole.
States are numbered by the update that wrote them.

- `WalClock` (four updates, three faults, the clock set back once): `TypeOK`; `LastSaveOnDisk`, the last
  saved state stays readable; `LoadNeverStale`, a load returns an error or the latest readable state,
  except while `skewed`. After the clock was set back an older state may have the newer name, and a load
  returns that one. The history variable `skewed` marks this time: from the set-back to the next update
  that returns Ok under a name that is the latest on disk and not ahead of the clock (`LatestName`). Its
  clean-up has then deleted every other file, and the property holds again.

Finding: `WalLoadLoop` (a file shorter than a checksum makes the load spin; fairness: the loop keeps
running).
Three faults are enough for a crash that leaves a torn file, one in the following clean-up and one
in the load. Deadlock is not checked: when the updates and ticks are used up the log may rest.

## Proofs

Each proof module extends its component's module; the longer ones are in three parts. The only assumptions are the named `ASSUME`s on
the constants there (`PoolAssumption`, `NodeAssumption`, `WalAssumption`), which TLC evaluates in the
runs.

- `PriorityPoolProofs`: `PoolTypes`, `PopsSucceed`, `QueuedFetchable`, `SlotHasOneLive`, `SysFetchable`.
  None is inductive alone. `Control` (`PriorityPoolControl`) adds to the types what a task's locals are at each counter and
  that the locks exclude each other: only then does one drainer's count stay valid while another waits.
  `Queues` (`PriorityPoolQueues`) and `Buckets` add where a pointer between two steps of an insertion may be.
- `ChainNodeProofs`: `NodeTypesHold`, `ChainComplete`, `ProofAhead`, `CommitHasTxs`, `OverlordFollows`,
  `StatusGrows`. `ChainNodeTypes` has the invariant and the types, `ChainNodeSteps` what each action does
  and the parts about the two actors, `ChainNodeProofs` the other parts and the theorems.
  The inductive invariant `IInv` says that one actor at most has the lock (`Control`), which height each
  writes relative to the status (`EngineInv`, `SyncInv`), which rows it has written at each
  counter (`RowsInv`), that the status, Overlord and the log follow the chain (`ChainInv`) and whose proof
  is stored at each counter (`ProofInv`: without it a synchronization that fails between its proof and
  its block could leave a proof nobody commits). The
  latest block may move back, when a height is committed again after a failed synchronization:
  `StoredChainComplete` survives it because rows are never removed. One lemma per action states
  what the action does at the points the invariant reads; each part of the invariant is then one lemma.
- `ConsensusWalProofs`: `WalTypesHold`, `LastSaveStays`, `LoadIsCurrent`. `OwnFile`
  says that the clean-up starts only after the update's own file is whole; `Ordered` that names are in the
  order of the updates unless `skewed`; `CleanAhead` that the clean-up still has every older file in its
  listing, so that an update that returns under the latest name is alone on disk and restores the order;
  `LoadAhead` that a load has not passed a readable file.

Only model-checked: liveness (`CoQueueDrains`, `EngineCatchesUp`, `SyncCatchesUp`), which needs fairness and `ENABLED`; `PoolSizeBound`
and `UnpackageableOnlyBeyondLimit`, which count; and `PackageHasNoDuplicate` and `RetainedTxSurvivesFlush`, which hold
without resubmission only and are planned.

## Not modelled

Overlord itself, RocksDB, the EVM, tentacle and tokio are libraries. Signatures, roots, gas and timestamps of
a proposal are taken as valid; a peer's answer is valid or the request fails. Metrics, logging, codecs,
configuration and the command line keep no state that a property is about. The other parts are
listed in `PROJECT.json` with the reason, and most of them are in the plan.

## Plan

1. Mempool front: `insert_tx` against a commit, the nonce cache against `set_args`, the broadcaster,
   `get_full_txs` and `ensure_order_txs`, composed with the abstract pool.
2. `SignedTxsWAL` at file level: a save cut short, `load_by_number` at the start.
3. Storage: `get_transactions`, an abstract store it is to implement; genesis creation with a crash.
4. Network requests (`rpc_map`, reactor, timeout against a late response), then sessions, dialing and
   limits, peer store and bans, identify, discovery and ping.
5. API filters and subscriptions over a latest block that may move back.
6. Cross-chain client: fetch batches, timer, retry, restart from the dumped number.
7. System scripts, trie cache, Merkle root and proof weight as functions against reference definitions.
8. An abstract chain (a height that grows) that `ChainNode` implements, proved; the pool's remaining
   invariants proved without resubmission; theorems for the modules above.
