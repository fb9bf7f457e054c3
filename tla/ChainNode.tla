----------------------------- MODULE ChainNode ------------------------------
(***************************************************************************)
(* One node's chain: core/consensus/src/engine.rs (commit of a block that  *)
(* Overlord decided), core/consensus/src/synchronization.rs (catching up   *)
(* from a peer), the rows both write through core/storage/src/lib.rs, the  *)
(* metadata cache of core/metadata/src/lib.rs, and the start of            *)
(* core/run/src/lib.rs after a crash.                                      *)
(*                                                                         *)
(* Blocks are their heights: Overlord decides one block per height, and    *)
(* the state root after block h is written h (a block outside Changes has  *)
(* the root of its parent).  A step is one database write or one access to *)
(* shared memory; the commit lock and the syncing lock are read off the    *)
(* program counters of the two actors.                                     *)
(***************************************************************************)
EXTENDS Integers, FiniteSets

CONSTANTS
    MaxHeight,        \* bound: heights the network decides
    MaxFault,         \* bound: crashes, failed requests and failed database calls
    OnceSyncLimit,    \* ONCE_SYNC_BLOCK_LIMIT
    EpochLen,         \* config.epoch_len
    CacheDepth,       \* the 20 of update_metadata
    Changes,          \* heights whose transactions change the state
    CallsMetadata,    \* those with a transaction to the metadata contract
    Appends,          \* those whose transaction appends the next epoch
    GenesisRestart    \* may the node stop before it has stored block 1?

ASSUME NodeAssumption ==
    /\ MaxHeight \in Nat \ {0}
    /\ MaxFault \in Nat
    /\ OnceSyncLimit \in Nat \ {0}
    /\ EpochLen \in Nat \ {0}
    /\ CacheDepth \in Nat
    /\ Changes \in SUBSET (1 .. MaxHeight)
    /\ CallsMetadata \in SUBSET Changes
    /\ Appends \in SUBSET CallsMetadata
    /\ GenesisRestart \in BOOLEAN

Height == 0 .. MaxHeight
NoRoot == -1
Actor == {"engine", "sync"}
Table == {"tx", "tx_number", "receipt", "block", "header", "hash_number"}

VARIABLES
    db,            \* durable: the heights each table has rows for
    trie,          \* durable: the heights whose state the trie database has
    latest_block,  \* durable: LATEST_BLOCK_KEY
    latest_proof,  \* durable: LATEST_PROOF_KEY, the height it proves
    txs_wal,       \* durable: heights in SignedTxsWAL
    overlord,      \* durable: Overlord's height, and whether check_block accepted its block
    running,
    status,        \* StatusAgent: last_number, proof, root
    current_root,  \* CURRENT_STATE_ROOT
    crypto,        \* the epoch whose validators OverlordCrypto knows
    cache,         \* metadata_cache: epochs
    pool,          \* heights whose transactions the mempool holds
    pc,            \* where the engine's commit and the synchronization are
    num,           \* the height each of them writes
    work,          \* the synchronization's private StatusAgent
    target,        \* the height it was called for, then the one it stops at
    rich_status,   \* the RichStatus message Overlord has not handled (0: none)
    sync_status,   \* SYNC_STATUS is not False
    decided,       \* heights decided by the network
    faults

durable == <<db, trie, latest_block, latest_proof, txs_wal>>
syncVars == <<work, target>>
env == <<decided, faults>>
vars == <<db, trie, latest_block, latest_proof, txs_wal, overlord, running, status, current_root, crypto,
          cache, pool, pc, num, work, target, rich_status, sync_status, decided, faults>>

StatusOf(n, p, r) == [last_number |-> n, proof |-> p, root |-> r]
NoWork == StatusOf(0, 0, NoRoot)

\* AsyncMutex lock: held by commit from its first line to its return, and by the
\* synchronization from start_sync on
EngineHolds == pc["engine"] # "idle"
SyncHolds == pc["sync"] \notin {"idle", "lock"}

-----------------------------------------------------------------------------
(* Metadata: one epoch is appended by each height of Appends. *)
calc_epoch(n) == n \div EpochLen
Appended(n) == Cardinality({a \in Appends : a <= n})
need_change_metadata(n) == n % EpochLen = 0

update_metadata(n) ==
    LET epoch == calc_epoch(n) + 1 IN
        cache' = {k \in cache : k < epoch - CacheDepth} \cup {epoch}

\* query_evm_metadata on the state of block n finds the epoch
Queryable(epoch, n) == epoch <= Appended(n)

\* call_evm opens the trie at the state root in the header of block n: it is there when the block
\* has been executed, or when the root is the one of its executed parent.
StateStored(n) == n \in trie \/ (n \notin Changes /\ n - 1 \in trie)

\* get_metadata on block n, with the epochs of c cached, returns Ok.
Found(c, n) == calc_epoch(n) \in c \/ (StateStored(n) /\ Queryable(calc_epoch(n), n))

\* get_metadata_unchecked(n) does not unwrap None
Unchecked(n) == calc_epoch(n) \in cache

\* verify_proof of block n gets the validators from get_metadata, which caches them; the genesis
\* block has no proof.
Verifies(c, n) == n = 0 \/ Found(c, n)
AfterProof(c, n) == IF n # 0 /\ Found(c, n) THEN c \cup {calc_epoch(n)} ELSE c

\* create_genesis executes block 0 and stores its proof, its block and its transactions, but no
\* receipts.
Init ==
    /\ db = [t \in Table |-> IF t = "receipt" THEN {} ELSE {0}]
    /\ trie = {0}
    /\ latest_block = 0
    /\ latest_proof = 0
    /\ txs_wal = {}
    /\ overlord = [height |-> 0, checked |-> FALSE]
    /\ running = TRUE
    /\ status = StatusOf(0, 0, 0)
    /\ current_root = 0
    /\ crypto = 0
    /\ cache = {0}
    /\ pool = {}
    /\ pc = [a \in Actor |-> "idle"]
    /\ num = [a \in Actor |-> 0]
    /\ work = NoWork
    /\ target = 0
    /\ rich_status = 1
    /\ sync_status = FALSE
    /\ decided = 0
    /\ faults = 0

\* The process stops: what is not durable is gone.  status is kept to compare with the next start.
Stop ==
    /\ running' = FALSE
    /\ cache' = {}
    /\ pool' = {}
    /\ pc' = [a \in Actor |-> "idle"]
    /\ num' = [a \in Actor |-> 0]
    /\ work' = NoWork
    /\ target' = 0
    /\ rich_status' = 0
    /\ sync_status' = FALSE
    /\ UNCHANGED <<overlord, status, current_root, crypto>>

Return(a) ==
    /\ pc' = [pc EXCEPT ![a] = "idle"]
    /\ num' = [num EXCEPT ![a] = 0]

-----------------------------------------------------------------------------
(* The network decides the next height; Overlord handles RichStatus. *)
Decide ==
    /\ decided < MaxHeight
    /\ decided' = decided + 1
    /\ UNCHANGED <<durable, overlord, running, status, current_root, crypto, cache, pool, pc, num, syncVars,
                   rich_status, sync_status, faults>>

HandleRichStatus ==
    /\ running
    /\ rich_status # 0
    /\ overlord' = IF rich_status > overlord.height THEN [height |-> rich_status, checked |-> FALSE] ELSE overlord
    /\ rich_status' = 0
    /\ UNCHANGED <<durable, running, status, current_root, crypto, cache, pool, pc, num, syncVars, sync_status, env>>

\* inner_check_block reads the parent's header and block, and verifies the proof of it.
ParentStored(n) == n - 1 \in db["header"] \cap db["block"]

\* get_block builds the node's own proposal, which is exempt from those checks.
OwnProposal(n) == n = status.proof + 1

\* inner_check_block up to verify_proof
ParentVerified(n) ==
    /\ ParentStored(n)
    /\ Verifies(cache, n - 1)
    /\ cache' = AfterProof(cache, n - 1)

\* Variant: the transactions are not logged
CheckBlockNoWal ==
    /\ running
    /\ overlord.height \in 1 .. MaxHeight
    /\ ~overlord.checked
    /\ (OwnProposal(overlord.height) /\ UNCHANGED cache) \/ ParentVerified(overlord.height)
    /\ pool' = pool \cup {overlord.height}
    /\ overlord' = [overlord EXCEPT !.checked = TRUE]
    /\ UNCHANGED <<durable, running, status, current_root, crypto, pc, num, syncVars, rich_status, sync_status, env>>

\* check_block accepts the proposal at Overlord's height: its transactions are in the pool
\* (packaged there, or verify_txs pulls the missing ones) and are logged.
CheckBlock ==
    /\ running
    /\ overlord.height \in 1 .. MaxHeight
    /\ ~overlord.checked
    /\ (OwnProposal(overlord.height) /\ UNCHANGED cache) \/ ParentVerified(overlord.height)
    /\ pool' = pool \cup {overlord.height}
    /\ txs_wal' = txs_wal \cup {overlord.height}
    /\ overlord' = [overlord EXCEPT !.checked = TRUE]
    /\ UNCHANGED <<db, trie, latest_block, latest_proof, running, status, current_root, crypto, pc, num, syncVars,
                   rich_status, sync_status, env>>

\* A proposal refused after verify_proof (a transaction is missing or invalid, or the order is
\* wrong) leaves the parent's epoch in the cache.
CheckBlockFails ==
    /\ running
    /\ overlord.height \in 1 .. MaxHeight
    /\ ~overlord.checked
    /\ ParentVerified(overlord.height)
    /\ UNCHANGED <<durable, overlord, running, status, current_root, crypto, pool, pc, num, syncVars, rich_status,
                   sync_status, env>>

-----------------------------------------------------------------------------
(***************************************************************************)
(* commit.  Overlord calls it for its height once the block is decided.    *)
(***************************************************************************)
CommitCalled ==
    /\ running
    /\ ~EngineHolds
    /\ ~SyncHolds
    /\ overlord.height \in 1 .. decided
    /\ overlord.checked \/ overlord.height <= status.last_number

CommitPanics ==
    /\ CommitCalled
    /\ ~Unchecked(overlord.height + 1)
    /\ Stop
    /\ UNCHANGED <<durable, env>>

\* Variant: a height committed before is an outdated commit
CommitAgainOutdated ==
    /\ CommitCalled
    /\ overlord.height = status.last_number
    /\ UNCHANGED vars

\* The height is already committed: Overlord moves on.
CommitAgain ==
    /\ CommitCalled
    /\ Unchecked(overlord.height + 1)
    /\ overlord.height = status.last_number
    /\ overlord' = [height |-> overlord.height + 1, checked |-> FALSE]
    /\ UNCHANGED <<durable, running, status, current_root, crypto, cache, pool, pc, num, syncVars, rich_status, sync_status, env>>

CommitStart ==
    /\ CommitCalled
    /\ Unchecked(overlord.height + 1)
    /\ overlord.height = status.last_number + 1
    /\ pc' = [pc EXCEPT !["engine"] = "proof"]
    /\ num' = [num EXCEPT !["engine"] = overlord.height]
    /\ UNCHANGED <<durable, overlord, running, status, current_root, crypto, cache, pool, syncVars, rich_status, sync_status, env>>

CommitSaveProof ==
    /\ pc["engine"] = "proof"
    /\ latest_proof' = num["engine"]
    /\ pc' = [pc EXCEPT !["engine"] = "exec"]
    /\ UNCHANGED <<db, trie, latest_block, txs_wal, overlord, running, status, current_root, crypto, cache, pool, num, syncVars,
                   rich_status, sync_status, env>>

\* get_full_txs finds the transactions in the pool or in storage, else they come from the log.
TxsFound(n) == n \in pool \cup (db["tx"] \cap db["tx_number"]) \cup txs_wal

CommitExec ==
    /\ pc["engine"] = "exec"
    /\ TxsFound(num["engine"]) /\ status.root = num["engine"] - 1
    /\ trie' = trie \cup {num["engine"]}
    /\ pc' = [pc EXCEPT !["engine"] = "tx"]
    /\ UNCHANGED <<db, latest_block, latest_proof, txs_wal, overlord, running, status, current_root, crypto, cache, pool, num,
                   syncVars, rich_status, sync_status, env>>

CommitExecFails ==
    /\ pc["engine"] = "exec"
    /\ ~(TxsFound(num["engine"]) /\ status.root = num["engine"] - 1)
    /\ Return("engine")
    /\ UNCHANGED <<durable, overlord, running, status, current_root, crypto, cache, pool, syncVars, rich_status, sync_status, env>>

-----------------------------------------------------------------------------
(***************************************************************************)
(* The rows of a block, in the order the two actors write them.  "receipt" *)
(* stands for the two batches of batch_insert_receipts: the second one     *)
(* rewrites the index rows that "tx_number" wrote.                         *)
(***************************************************************************)
\* Variant: the engine stores the latest block before its rows
AfterLatestFirst(a, row) ==
    CASE row = "tx" -> "tx_number"
      [] row = "tx_number" -> "latest"
      [] row = "latest" -> "receipt"
      [] row = "receipt" -> IF a = "sync" THEN "proof" ELSE "block"
      [] row = "proof" -> "block"
      [] row = "block" -> "header"
      [] row = "header" -> "hash_number"
      [] row = "hash_number" -> IF a = "sync" THEN "flush" ELSE "metadata"

After(a, row) ==
    CASE row = "tx" -> "tx_number"
      [] row = "tx_number" -> "receipt"
      [] row = "receipt" -> IF a = "sync" THEN "proof" ELSE "block"
      [] row = "proof" -> "block"
      [] row = "block" -> "header"
      [] row = "header" -> "hash_number"
      [] row = "hash_number" -> "latest"
      [] row = "latest" -> IF a = "sync" THEN "flush" ELSE "metadata"

SaveRow(a) ==
    /\ pc[a] \in Table
    /\ db' = [db EXCEPT ![pc[a]] = @ \cup {num[a]}]
    /\ pc' = [pc EXCEPT ![a] = After(a, pc[a])]
    /\ UNCHANGED <<trie, latest_block, latest_proof, txs_wal, overlord, running, status, current_root, crypto, cache, pool,
                   num, syncVars, rich_status, sync_status, env>>

SaveLatest(a) ==
    /\ pc[a] = "latest"
    /\ latest_block' = num[a]
    /\ pc' = [pc EXCEPT ![a] = After(a, "latest")]
    /\ UNCHANGED <<db, trie, latest_proof, txs_wal, overlord, running, status, current_root, crypto, cache, pool, num,
                   syncVars, rich_status, sync_status, env>>

\* Variant: the synchronization stores the block's own proof, which it has from the peer
SyncSaveProofOwn ==
    /\ pc["sync"] = "proof"
    /\ latest_proof' = num["sync"]
    /\ pc' = [pc EXCEPT !["sync"] = After("sync", "proof")]
    /\ UNCHANGED <<db, trie, latest_block, txs_wal, overlord, running, status, current_root, crypto, cache, pool, num,
                   syncVars, rich_status, sync_status, env>>

\* The synchronization stores the proof in the block's header, that is the one of its parent.
SyncSaveProof ==
    /\ pc["sync"] = "proof"
    /\ latest_proof' = num["sync"] - 1
    /\ pc' = [pc EXCEPT !["sync"] = After("sync", "proof")]
    /\ UNCHANGED <<db, trie, latest_block, txs_wal, overlord, running, status, current_root, crypto, cache, pool, num,
                   syncVars, rich_status, sync_status, env>>

-----------------------------------------------------------------------------
MetadataErr(n) == n \in CallsMetadata /\ ~Queryable(calc_epoch(n) + 1, n)

\* After the rows: update_metadata when a transaction called the contract, and the validators of
\* the next epoch when this block ends one (their metadata is cached: commit has looked it up before
\* and update_metadata adds the same epoch).
CommitMetadata ==
    LET n == num["engine"] IN
    /\ pc["engine"] = "metadata"
    /\ ~MetadataErr(n)
    /\ IF n \in CallsMetadata THEN update_metadata(n) ELSE UNCHANGED cache
    /\ crypto' = IF need_change_metadata(n + 1) THEN calc_epoch(n + 1) ELSE crypto
    /\ pc' = [pc EXCEPT !["engine"] = "status"]
    /\ UNCHANGED <<durable, overlord, running, status, current_root, pool, num, syncVars, rich_status, sync_status, env>>

CommitMetadataFails ==
    /\ pc["engine"] = "metadata"
    /\ MetadataErr(num["engine"])
    /\ Return("engine")
    /\ UNCHANGED <<durable, overlord, running, status, current_root, crypto, cache, pool, syncVars, rich_status, sync_status, env>>

\* CURRENT_STATE_ROOT and the status
CommitStatus ==
    LET n == num["engine"] IN
    /\ pc["engine"] = "status"
    /\ status' = StatusOf(n, n, n)
    /\ current_root' = n
    /\ pc' = [pc EXCEPT !["engine"] = "flush"]
    /\ UNCHANGED <<durable, overlord, running, crypto, cache, pool, num, syncVars, rich_status, sync_status, env>>

\* A call of the database, of the trie, of the pool or of the log returns an error, and commit with
\* it; what it has written stays.
CommitFails ==
    /\ pc["engine"] \in {"proof", "exec", "latest", "metadata", "flush"} \cup Table
    /\ faults < MaxFault
    /\ faults' = faults + 1
    /\ Return("engine")
    /\ UNCHANGED <<durable, overlord, running, status, current_root, crypto, cache, pool, syncVars, rich_status, sync_status,
                   decided>>

\* flush_mempool, txs_wal.remove(n - 2), and the metadata of the next height for Overlord
Flushed(n) ==
    /\ pool' = pool \ {n}
    /\ txs_wal' = {h \in txs_wal : h > n - 2}

CommitFinish ==
    LET n == num["engine"] IN
    /\ pc["engine"] = "flush"
    /\ Unchecked(n + 1)
    /\ Flushed(n)
    /\ overlord' = [height |-> n + 1, checked |-> FALSE]
    /\ Return("engine")
    /\ UNCHANGED <<db, trie, latest_block, latest_proof, running, status, current_root, crypto, cache, syncVars, rich_status, sync_status, env>>

\* broadcast_number fails: commit returns an error although everything is stored
CommitFinishFails ==
    /\ pc["engine"] = "flush"
    /\ Unchecked(num["engine"] + 1)
    /\ faults < MaxFault
    /\ faults' = faults + 1
    /\ Flushed(num["engine"])
    /\ Return("engine")
    /\ UNCHANGED <<db, trie, latest_block, latest_proof, overlord, running, status, current_root, crypto, cache, syncVars, rich_status, sync_status, decided>>

CommitFinishPanics ==
    /\ pc["engine"] = "flush"
    /\ ~Unchecked(num["engine"] + 1)
    /\ txs_wal' = {h \in txs_wal : h > num["engine"] - 2}
    /\ Stop
    /\ UNCHANGED <<db, trie, latest_block, latest_proof, env>>

-----------------------------------------------------------------------------
(***************************************************************************)
(* receive_remote_block(r): a peer announces a height it has stored.       *)
(***************************************************************************)
Announced(r) ==
    /\ running
    /\ pc["sync"] = "idle"
    /\ r \in 1 .. decided
    /\ r > status.last_number

\* Variant: the block next to the status is left to Overlord
NeedSyncLate(r) ==
    /\ Announced(r)
    /\ r > status.last_number + 1
    /\ target' = r
    /\ pc' = [pc EXCEPT !["sync"] = "lock"]
    /\ UNCHANGED <<durable, overlord, running, status, current_root, crypto, cache, pool, num, work, rich_status, sync_status, env>>

\* need_sync waits one interval of the current metadata when it is one block behind.
NeedSyncPanics(r) ==
    /\ Announced(r)
    /\ r = status.last_number + 1 /\ ~Unchecked(status.last_number)
    /\ Stop
    /\ UNCHANGED <<durable, env>>

NeedSync(r) ==
    /\ Announced(r)
    /\ r = status.last_number + 1 => Unchecked(status.last_number)
    /\ target' = r
    /\ pc' = [pc EXCEPT !["sync"] = "lock"]
    /\ UNCHANGED <<durable, overlord, running, status, current_root, crypto, cache, pool, num, work, rich_status, sync_status, env>>

\* lock.try_lock() failed, or the engine has reached the height in the meantime
SyncGivesUp ==
    /\ pc["sync"] = "lock"
    /\ EngineHolds \/ target <= status.last_number
    /\ target' = 0
    /\ Return("sync")
    /\ UNCHANGED <<durable, overlord, running, status, current_root, crypto, cache, pool, work, rich_status, sync_status, env>>

\* Variant: a batch is always OnceSyncLimit blocks
SyncStartFullBatch ==
    /\ pc["sync"] = "lock"
    /\ ~EngineHolds
    /\ target > status.last_number
    /\ target' = status.last_number + OnceSyncLimit
    /\ work' = status
    /\ sync_status' = TRUE
    /\ pc' = [pc EXCEPT !["sync"] = "fetch"]
    /\ UNCHANGED <<durable, overlord, running, status, current_root, crypto, cache, pool, num, rich_status, env>>

\* Variant: the synchronization does not take the commit lock
SyncStartUnlocked ==
    /\ pc["sync"] = "lock"
    /\ target > status.last_number
    /\ target' = IF status.last_number + OnceSyncLimit > target THEN target ELSE status.last_number + OnceSyncLimit
    /\ work' = status
    /\ sync_status' = TRUE
    /\ pc' = [pc EXCEPT !["sync"] = "fetch"]
    /\ UNCHANGED <<durable, overlord, running, status, current_root, crypto, cache, pool, num, rich_status, env>>

SyncStart ==
    /\ pc["sync"] = "lock"
    /\ ~EngineHolds
    /\ target > status.last_number
    /\ target' = IF status.last_number + OnceSyncLimit > target THEN target ELSE status.last_number + OnceSyncLimit
    /\ work' = status
    /\ sync_status' = TRUE
    /\ pc' = [pc EXCEPT !["sync"] = "fetch"]
    /\ UNCHANGED <<durable, overlord, running, status, current_root, crypto, cache, pool, num, rich_status, env>>

\* verify_block verifies the proof of the block before the block is executed, and the one of its
\* parent, which must be stored; commit_block needs the parent's state.
Acceptable(n) ==
    /\ Verifies(cache, n)
    /\ ParentStored(n)
    /\ Verifies(AfterProof(cache, n), n - 1)
    /\ work.root = n - 1

\* The cache verify_block leaves, whether it accepts the block or not
VerifiedCache(n) ==
    IF Verifies(cache, n) /\ ParentStored(n) THEN AfterProof(AfterProof(cache, n), n - 1) ELSE AfterProof(cache, n)

\* get_rich_block_from_remote, verify_block, exec, get_metadata (cached by now) and the private status
SyncFetch ==
    LET n == work.last_number + 1 IN
    /\ pc["sync"] = "fetch"
    /\ work.last_number < target
    /\ Acceptable(n)
    /\ trie' = trie \cup {n}
    /\ cache' = VerifiedCache(n)
    /\ work' = StatusOf(n, n, n)
    /\ num' = [num EXCEPT !["sync"] = n]
    /\ pc' = [pc EXCEPT !["sync"] = "tx"]
    /\ UNCHANGED <<db, latest_block, latest_proof, txs_wal, overlord, running, status, current_root, crypto, pool, target,
                   rich_status, sync_status, env>>

\* receive_remote_block returns the error; SYNC_STATUS and the rows already written stay.
SyncAborts ==
    /\ target' = 0
    /\ work' = NoWork
    /\ Return("sync")
    /\ UNCHANGED <<durable, overlord, running, status, current_root, crypto, pool, rich_status, sync_status, decided>>

SyncRejects ==
    /\ pc["sync"] = "fetch"
    /\ work.last_number < target
    /\ ~Acceptable(work.last_number + 1)
    /\ cache' = VerifiedCache(work.last_number + 1)
    /\ SyncAborts
    /\ UNCHANGED faults

\* a request to the peer fails
SyncFetchFails ==
    /\ pc["sync"] = "fetch"
    /\ work.last_number < target
    /\ faults < MaxFault
    /\ faults' = faults + 1
    /\ SyncAborts
    /\ UNCHANGED cache

\* a write of save_chain_data or the flush of the pool fails
SyncSaveFails ==
    /\ pc["sync"] \in {"proof", "latest", "flush"} \cup Table
    /\ faults < MaxFault
    /\ faults' = faults + 1
    /\ SyncAborts
    /\ UNCHANGED cache

SyncFlush ==
    /\ pc["sync"] = "flush"
    /\ pool' = pool \ {num["sync"]}
    /\ pc' = [pc EXCEPT !["sync"] = "fetch"]
    /\ UNCHANGED <<durable, overlord, running, status, current_root, crypto, cache, num, syncVars, rich_status, sync_status, env>>

\* update_status: the status first, then the metadata of the next height
SyncSwapStatus ==
    /\ pc["sync"] = "fetch"
    /\ work.last_number = target
    /\ status' = work
    /\ pc' = [pc EXCEPT !["sync"] = "rich"]
    /\ UNCHANGED <<durable, overlord, running, current_root, crypto, cache, pool, num, syncVars, rich_status, sync_status, env>>

\* Variant: both update_status functions add one to the height
SyncFinishTwice ==
    /\ pc["sync"] = "rich"
    /\ Unchecked(target + 1)
    /\ rich_status' = target + 2
    /\ sync_status' = FALSE
    /\ target' = 0
    /\ work' = NoWork
    /\ Return("sync")
    /\ UNCHANGED <<durable, overlord, running, status, current_root, crypto, cache, pool, env>>

SyncFinish ==
    /\ pc["sync"] = "rich"
    /\ Unchecked(target + 1)
    /\ rich_status' = target + 1
    /\ sync_status' = FALSE
    /\ target' = 0
    /\ work' = NoWork
    /\ Return("sync")
    /\ UNCHANGED <<durable, overlord, running, status, current_root, crypto, cache, pool, env>>

SyncFinishPanics ==
    /\ pc["sync"] = "rich"
    /\ ~Unchecked(target + 1)
    /\ Stop
    /\ UNCHANGED <<durable, env>>

-----------------------------------------------------------------------------
Crash ==
    /\ running
    /\ faults < MaxFault
    /\ GenesisRestart \/ latest_block > 0
    /\ faults' = faults + 1
    /\ Stop
    /\ UNCHANGED <<durable, decided>>

\* At height 0 the state root is the one create_genesis computed, which it does once.
Restored == StatusOf(latest_block, latest_proof, IF latest_block = 0 THEN NoRoot ELSE latest_block)

\* The start reads the metadata of the latest block and unwraps the one of the next height.
Restart ==
    /\ ~running
    /\ Found({}, latest_block)
    /\ calc_epoch(latest_block + 1) = calc_epoch(latest_block)
    /\ running' = TRUE
    /\ cache' = {calc_epoch(latest_block)}
    /\ crypto' = calc_epoch(latest_block)
    /\ status' = Restored
    /\ current_root' = Restored.root
    /\ pool' = txs_wal \cap {latest_block + 1}
    /\ overlord' = IF overlord.height < latest_block THEN [height |-> latest_block, checked |-> FALSE] ELSE overlord
    /\ rich_status' = IF latest_block = 0 THEN 1 ELSE 0
    /\ UNCHANGED <<durable, pc, num, syncVars, sync_status, env>>

-----------------------------------------------------------------------------
Engine ==
    \/ HandleRichStatus
    \/ CheckBlock
    \/ CommitAgain
    \/ CommitStart
    \/ CommitSaveProof
    \/ CommitExec
    \/ CommitExecFails
    \/ SaveRow("engine")
    \/ SaveLatest("engine")
    \/ CommitMetadata
    \/ CommitMetadataFails
    \/ CommitStatus
    \/ CommitFinish

Sync ==
    \/ \E r \in 1 .. MaxHeight : NeedSync(r)
    \/ SyncGivesUp
    \/ SyncStart
    \/ SyncFetch
    \/ SyncRejects
    \/ SaveRow("sync")
    \/ SyncSaveProof
    \/ SaveLatest("sync")
    \/ SyncFlush
    \/ SyncSwapStatus
    \/ SyncFinish

Panic ==
    \/ CommitPanics
    \/ CommitFinishPanics
    \/ \E r \in 1 .. MaxHeight : NeedSyncPanics(r)
    \/ SyncFinishPanics

Fault ==
    \/ CheckBlockFails
    \/ CommitFails
    \/ CommitFinishFails
    \/ SyncFetchFails
    \/ SyncSaveFails
    \/ Crash

Next == Decide \/ Engine \/ Sync \/ Panic \/ Fault \/ Restart

Spec == Init /\ [][Next]_vars

(***************************************************************************)
(* Fairness.  A commit or synchronization that has the lock runs on (tokio *)
(* polls its task), the network goes on deciding and the node is restarted *)
(* when it stops.  That Overlord goes on calling check_block and commit,   *)
(* or that peers go on announcing heights (polling_broadcast, every two    *)
(* seconds), is a premise of the properties: one of them is enough.        *)
(***************************************************************************)
FairSpec ==
    /\ Spec
    /\ WF_vars(Decide) /\ WF_vars(Restart)
    /\ WF_vars(EngineHolds /\ Engine)
    /\ WF_vars(SyncHolds /\ Sync)

-----------------------------------------------------------------------------
EnginePC == {"idle", "proof", "exec", "latest", "metadata", "status", "flush"} \cup Table
SyncPC == {"idle", "lock", "fetch", "proof", "latest", "flush", "rich"} \cup Table
Status == [last_number : Height, proof : Height, root : Height \cup {NoRoot}]

\* Every variable has its type; in particular no height leaves 0 .. MaxHeight and Overlord is
\* never more than one height past it.
TypeOK ==
    /\ db \in [Table -> SUBSET Height]
    /\ trie \in SUBSET Height
    /\ latest_block \in Height
    /\ latest_proof \in Height
    /\ txs_wal \in SUBSET Height
    /\ overlord \in [height : 0 .. MaxHeight + 1, checked : BOOLEAN]
    /\ running \in BOOLEAN
    /\ status \in Status
    /\ current_root \in Height \cup {NoRoot}
    /\ crypto \in Nat
    /\ cache \in SUBSET Nat
    /\ pool \in SUBSET Height
    /\ pc \in [Actor -> EnginePC \cup SyncPC]
    /\ pc["engine"] \in EnginePC
    /\ pc["sync"] \in SyncPC
    /\ num \in [Actor -> Height]
    /\ work \in Status
    /\ target \in Height
    /\ rich_status \in 0 .. MaxHeight + 1
    /\ sync_status \in BOOLEAN
    /\ decided \in Height
    /\ faults \in 0 .. MaxFault

\* A reader of the latest block finds the state and every row of it and of each block below, the
\* receipts from block 1 on (create_genesis stores none): whoever wrote them, and wherever a crash,
\* a panic, a failed write or a failed synchronization cut the writes of engine.rs update_status,
\* synchronization.rs save_chain_data and storage set_block.
StoredChainComplete ==
    /\ \A h \in 0 .. latest_block : h \in trie /\ \A t \in Table \ {"receipt"} : h \in db[t]
    /\ \A h \in 1 .. latest_block : h \in db["receipt"]

\* engine.rs commit stores the proof before the block.  A proof that is ahead of the stored chain,
\* wherever the commit was cut short and whatever a synchronization wrote since, is the one of the
\* next height, decided by the network, at which Overlord still is with its block checked: Overlord
\* calls commit again.
ProofAheadIsCommittable ==
    latest_proof > latest_block =>
        /\ latest_proof = latest_block + 1
        /\ latest_proof <= decided
        /\ overlord = [height |-> latest_proof, checked |-> TRUE]

\* The node never forgets a block it reported as committed: the status grows, through the races of
\* commit with the synchronization and through every stop and start.
StatusNeverRegresses ==
    [][status'.last_number >= status.last_number]_vars

\* A block that Overlord committed can be executed: engine.rs commit finds its transactions in the
\* pool, in storage or in the log, whatever flushes and restarts came between check_block and commit.
CommitFindsTxs ==
    pc["engine"] = "exec" => TxsFound(num["engine"])

\* Overlord never runs ahead of the stored chain: a height is entered only when the one below it
\* is stored, also after a restart (consensus.rs new and run, adapter.rs update_status).
OverlordFollowsChain ==
    /\ overlord.height <= latest_block + 1
    /\ rich_status <= latest_block + 1
    /\ running => status.last_number <= latest_block

CatchesUp == <>[](running /\ status.last_number = MaxHeight)

\* Overlord alone brings the node to the tip and keeps it there, whatever crashes and failed
\* requests happen on the way and even if no peer announces a height (engine.rs commit, the start
\* of run/src/lib.rs).
EngineCatchesUp == WF_vars(Engine) => CatchesUp

\* Announcements of peers alone do the same, even if Overlord calls nothing
\* (synchronization.rs receive_remote_block).
SyncCatchesUp == WF_vars(Sync) => CatchesUp

-----------------------------------------------------------------------------
(* Statements of comments, tests and log messages that the code does not keep. *)

\* engine.rs:372-373, on the authority list of a height: "get the authority list from the RocksDB".
\* The metadata of the height after the last one is found whenever it is on chain.
NextAuthorityFound ==
    LET next == status.last_number + 1 IN
        running /\ Queryable(calc_epoch(next), status.last_number) => Unchecked(next)

\* engine.rs:229 "Storage save the latest proof.": when no block is being written, the proof under
\* LATEST_PROOF_KEY is the one of the latest block.
LatestProofIsOfLatestBlock ==
    running /\ ~EngineHolds /\ ~SyncHolds => latest_proof = latest_block

\* run/src/lib.rs:98 "The Genesis block has been initialized.": a node that runs has the state root
\* of its last block.
StatusRootIsLastRoot ==
    running => status.root = status.last_number
=============================================================================
