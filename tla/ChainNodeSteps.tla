--------------------------- MODULE ChainNodeSteps ---------------------------
(***************************************************************************)
(* What each action of ChainNode does to the variables the invariant is    *)
(* about, and the lemmas that every step keeps the parts about the two     *)
(* actors.                                                                 *)
(***************************************************************************)
EXTENDS ChainNodeTypes

\* The facts about types that the remaining lemmas need.
LEMMA Numbers ==
    ASSUME TypeOK
    PROVE  /\ pc \in [Actor -> EnginePC \cup SyncPC]
           /\ num \in [Actor -> Int]
           /\ num["engine"] \in Int
           /\ num["sync"] \in Int
           /\ db \in [Table -> SUBSET Height]
           /\ latest_block \in Int
           /\ latest_proof \in Int
           /\ decided \in Int
           /\ status.last_number \in Int
           /\ status.last_number >= 0
           /\ work.last_number \in Int
           /\ overlord.height \in Int
           /\ overlord = [height |-> overlord.height, checked |-> overlord.checked]
           /\ target \in Int
           /\ rich_status \in Int
           /\ OnceSyncLimit \in Int
           /\ OnceSyncLimit >= 1
<1>1. pc \in [Actor -> EnginePC \cup SyncPC] /\ db \in [Table -> SUBSET Height]
  BY DEF TypeOK
<1>2. num \in [Actor -> Int] /\ num["engine"] \in Int /\ num["sync"] \in Int
  BY DEF TypeOK, Actor, Height
<1>3. status \in Status /\ work \in Status
  BY DEF TypeOK
<1>4. status.last_number \in Int /\ status.last_number >= 0 /\ work.last_number \in Int
  BY <1>3 DEF Status, Height
<1>5. overlord \in [height : 0 .. MaxHeight + 1, checked : BOOLEAN]
  BY DEF TypeOK
<1>6. overlord.height \in Int /\ overlord = [height |-> overlord.height, checked |-> overlord.checked]
  BY <1>5
<1>7. latest_block \in Int /\ latest_proof \in Int /\ decided \in Int /\ target \in Int /\ rich_status \in Int
  BY DEF TypeOK, Height
<1> QED
  BY <1>1, <1>2, <1>4, <1>6, <1>7, NodeAssumption

\* A stopped process has idle actors and no messages.
LEMMA StopEffect ==
    ASSUME Stop
    PROVE  /\ ~running'
           /\ pc'["engine"] = "idle"
           /\ pc'["sync"] = "idle"
           /\ num'["engine"] = 0
           /\ num'["sync"] = 0
           /\ work'.last_number = 0
           /\ target' = 0
           /\ rich_status' = 0
           /\ UNCHANGED <<status, overlord>>
  BY DEF Stop, Actor, NoWork, StatusOf

-----------------------------------------------------------------------------
(* What each action does to the variables that the invariants are about. *)
\* The network's decision touches nothing of the node.
LEMMA DecideEffect ==
    ASSUME TypeOK, Decide
    PROVE  /\ pc'["engine"] = pc["engine"]
           /\ pc'["sync"] = pc["sync"]
           /\ num'["engine"] = num["engine"]
           /\ num'["sync"] = num["sync"]
           /\ decided' = decided + 1
           /\ UNCHANGED <<running, status, latest_block, overlord, txs_wal, work, target,
                          rich_status, db, trie, latest_proof>>
  BY Numbers DEF Decide, Actor, durable, syncVars, env

\* Overlord takes the height of the message, or drops an old one.
LEMMA HandleRichStatusEffect ==
    ASSUME TypeOK, HandleRichStatus
    PROVE  /\ running
           /\ pc'["engine"] = pc["engine"]
           /\ pc'["sync"] = pc["sync"]
           /\ num'["engine"] = num["engine"]
           /\ num'["sync"] = num["sync"]
           /\ \/ overlord' = overlord
              \/ overlord'.height = rich_status /\ overlord'.height > overlord.height /\ ~overlord'.checked
           /\ rich_status' = 0
           /\ UNCHANGED <<running, status, latest_block, txs_wal, work, target, db, trie,
                          latest_proof, decided>>
  BY Numbers DEF HandleRichStatus, Actor, durable, syncVars, env

\* check_block logs the transactions of the block it accepts.
LEMMA CheckBlockEffect ==
    ASSUME TypeOK, CheckBlock
    PROVE  /\ running
           /\ pc'["engine"] = pc["engine"]
           /\ pc'["sync"] = pc["sync"]
           /\ num'["engine"] = num["engine"]
           /\ num'["sync"] = num["sync"]
           /\ overlord'.height = overlord.height
           /\ overlord.height \in txs_wal'
           /\ txs_wal \subseteq txs_wal'
           /\ ~overlord.checked
           /\ UNCHANGED <<running, status, latest_block, work, target, rich_status, db, trie,
                          latest_proof, decided>>
  BY Numbers DEF CheckBlock, Actor, durable, syncVars, env

\* commit of the committed height moves Overlord on.
LEMMA CommitAgainEffect ==
    ASSUME TypeOK, CommitAgain
    PROVE  /\ running
           /\ pc["engine"] = "idle"
           /\ pc["sync"] \in {"idle", "lock"}
           /\ overlord.height = status.last_number
           /\ pc'["engine"] = pc["engine"]
           /\ pc'["sync"] = pc["sync"]
           /\ num'["engine"] = num["engine"]
           /\ num'["sync"] = num["sync"]
           /\ overlord'.height = overlord.height + 1
           /\ ~overlord'.checked
           /\ UNCHANGED <<running, status, latest_block, txs_wal, work, target, rich_status,
                          db, trie, latest_proof, decided>>
  BY Numbers DEF CommitAgain, CommitCalled, Actor, durable, syncVars, env, EngineHolds, SyncHolds

\* commit takes the lock for a checked block next to the status.
LEMMA CommitStartEffect ==
    ASSUME TypeOK, CommitStart
    PROVE  /\ running
           /\ pc["engine"] = "idle"
           /\ pc["sync"] \in {"idle", "lock"}
           /\ overlord.height = status.last_number + 1
           /\ overlord.checked
           /\ pc'["engine"] = "proof"
           /\ pc'["sync"] = pc["sync"]
           /\ num'["engine"] = overlord.height
           /\ num'["sync"] = num["sync"]
           /\ overlord.height <= decided
           /\ UNCHANGED <<running, status, latest_block, overlord, txs_wal, work, target,
                          rich_status, db, trie, latest_proof, decided>>
<1>1. overlord.checked \/ overlord.height <= status.last_number
  BY DEF CommitStart, CommitCalled
<1>2. overlord.height = status.last_number + 1
  BY DEF CommitStart
<1>3. overlord.checked
  BY <1>1, <1>2, Numbers
<1>4. overlord.height <= decided
  BY DEF CommitStart, CommitCalled
<1> QED
  BY <1>2, <1>3, <1>4, Numbers DEF CommitStart, CommitCalled, Actor, durable, syncVars, env, EngineHolds,
     SyncHolds

\* commit stores the proof.
LEMMA CommitSaveProofEffect ==
    ASSUME TypeOK, CommitSaveProof
    PROVE  /\ pc["engine"] = "proof"
           /\ pc'["engine"] = "exec"
           /\ pc'["sync"] = pc["sync"]
           /\ num'["engine"] = num["engine"]
           /\ num'["sync"] = num["sync"]
           /\ latest_proof' = num["engine"]
           /\ UNCHANGED <<running, status, latest_block, overlord, txs_wal, work, target,
                          rich_status, db, trie, decided>>
  BY Numbers DEF CommitSaveProof, Actor, durable, syncVars, env

\* commit has executed the block.
LEMMA CommitExecEffect ==
    ASSUME TypeOK, CommitExec
    PROVE  /\ pc["engine"] = "exec"
           /\ pc'["engine"] = "tx"
           /\ pc'["sync"] = pc["sync"]
           /\ num'["engine"] = num["engine"]
           /\ num'["sync"] = num["sync"]
           /\ trie' = trie \cup {num["engine"]}
           /\ UNCHANGED <<running, status, latest_block, overlord, txs_wal, work, target,
                          rich_status, db, latest_proof, decided>>
  BY Numbers DEF CommitExec, Actor, durable, syncVars, env

\* commit returns the error of the execution.
LEMMA CommitExecFailsEffect ==
    ASSUME TypeOK, CommitExecFails
    PROVE  /\ pc["engine"] = "exec"
           /\ pc'["engine"] = "idle"
           /\ pc'["sync"] = pc["sync"]
           /\ num'["engine"] = 0
           /\ num'["sync"] = num["sync"]
           /\ UNCHANGED <<running, status, latest_block, overlord, txs_wal, work, target,
                          rich_status, db, trie, latest_proof, decided>>
  BY Numbers DEF CommitExecFails, Return, Actor, durable, syncVars, env

\* commit writes one row of the block and goes to the next.
LEMMA SaveRowEngineEffect ==
    ASSUME TypeOK, SaveRow("engine")
    PROVE  /\ pc["engine"] \in Table
           /\ pc["engine"] = "tx" => pc'["engine"] = "tx_number"
           /\ pc["engine"] = "tx_number" => pc'["engine"] = "receipt"
           /\ pc["engine"] = "receipt" => pc'["engine"] = "block"
           /\ pc["engine"] = "block" => pc'["engine"] = "header"
           /\ pc["engine"] = "header" => pc'["engine"] = "hash_number"
           /\ pc["engine"] = "hash_number" => pc'["engine"] = "latest"
           /\ pc'["sync"] = pc["sync"]
           /\ num'["engine"] = num["engine"]
           /\ num'["sync"] = num["sync"]
           /\ \A t \in Table : db[t] \subseteq db'[t]
           /\ num["engine"] \in db'[pc["engine"]]
           /\ UNCHANGED <<running, status, latest_block, overlord, txs_wal, work, target,
                          rich_status, trie, latest_proof, decided>>
  BY Numbers, RowOrder DEF SaveRow, Actor, durable, syncVars, env, Table

\* commit makes the block the latest one.
LEMMA SaveLatestEngineEffect ==
    ASSUME TypeOK, SaveLatest("engine")
    PROVE  /\ pc["engine"] = "latest"
           /\ pc'["engine"] = "metadata"
           /\ pc'["sync"] = pc["sync"]
           /\ num'["engine"] = num["engine"]
           /\ num'["sync"] = num["sync"]
           /\ latest_block' = num["engine"]
           /\ UNCHANGED <<running, status, overlord, txs_wal, work, target, rich_status, db,
                          trie, latest_proof, decided>>
  BY Numbers, RowOrder DEF SaveLatest, Actor, durable, syncVars, env

\* commit moves the status to its block.
LEMMA CommitStatusEffect ==
    ASSUME TypeOK, CommitStatus
    PROVE  /\ pc["engine"] = "status"
           /\ pc'["engine"] = "flush"
           /\ pc'["sync"] = pc["sync"]
           /\ num'["engine"] = num["engine"]
           /\ num'["sync"] = num["sync"]
           /\ status'.last_number = num["engine"]
           /\ UNCHANGED <<running, latest_block, overlord, txs_wal, work, target, rich_status,
                          db, trie, latest_proof, decided>>
  BY Numbers DEF CommitStatus, StatusOf, Actor, durable, syncVars, env

\* commit has updated the metadata.
LEMMA CommitMetadataEffect ==
    ASSUME TypeOK, CommitMetadata
    PROVE  /\ pc["engine"] = "metadata"
           /\ pc'["engine"] = "status"
           /\ pc'["sync"] = pc["sync"]
           /\ num'["engine"] = num["engine"]
           /\ num'["sync"] = num["sync"]
           /\ UNCHANGED <<running, status, latest_block, overlord, txs_wal, work, target, rich_status, db,
                         trie, latest_proof, decided>>
  BY Numbers DEF CommitMetadata, Actor, durable, syncVars, env

\* commit returns the error of update_metadata.
LEMMA CommitMetadataFailsEffect ==
    ASSUME TypeOK, CommitMetadataFails
    PROVE  /\ pc["engine"] = "metadata"
           /\ pc'["engine"] = "idle"
           /\ pc'["sync"] = pc["sync"]
           /\ num'["engine"] = 0
           /\ num'["sync"] = num["sync"]
           /\ UNCHANGED <<running, status, latest_block, overlord, txs_wal, work, target,
                          rich_status, db, trie, latest_proof, decided>>
  BY Numbers DEF CommitMetadataFails, Return, Actor, durable, syncVars, env

\* commit returns and Overlord goes to the next height.
LEMMA CommitFinishEffect ==
    ASSUME TypeOK, CommitFinish
    PROVE  /\ pc["engine"] = "flush"
           /\ pc'["engine"] = "idle"
           /\ pc'["sync"] = pc["sync"]
           /\ num'["engine"] = 0
           /\ num'["sync"] = num["sync"]
           /\ overlord'.height = num["engine"] + 1
           /\ ~overlord'.checked
           /\ txs_wal' \subseteq txs_wal
           /\ UNCHANGED <<running, status, latest_block, work, target, rich_status, db, trie,
                          latest_proof, decided>>
  BY Numbers DEF CommitFinish, Return, Flushed, Actor, durable, syncVars, env

\* A peer's announcement starts a synchronization.
LEMMA NeedSyncEffect ==
    ASSUME TypeOK, NEW r \in Int, NeedSync(r)
    PROVE  /\ pc["sync"] = "idle"
           /\ running
           /\ pc'["engine"] = pc["engine"]
           /\ pc'["sync"] = "lock"
           /\ num'["engine"] = num["engine"]
           /\ num'["sync"] = num["sync"]
           /\ UNCHANGED <<running, status, latest_block, overlord, txs_wal, work, rich_status,
                          db, trie, latest_proof, decided>>
  BY Numbers DEF NeedSync, Actor, durable, syncVars, env, Announced

\* The synchronization finds the lock taken or nothing to do.
LEMMA SyncGivesUpEffect ==
    ASSUME TypeOK, SyncGivesUp
    PROVE  /\ pc["sync"] = "lock"
           /\ pc'["engine"] = pc["engine"]
           /\ pc'["sync"] = "idle"
           /\ num'["engine"] = num["engine"]
           /\ num'["sync"] = 0
           /\ target' = 0
           /\ UNCHANGED <<running, status, latest_block, overlord, txs_wal, work, rich_status,
                          db, trie, latest_proof, decided>>
  BY Numbers DEF SyncGivesUp, Return, Actor, durable, syncVars, env, EngineHolds, SyncHolds

\* The synchronization takes the lock and copies the status.
LEMMA SyncStartEffect ==
    ASSUME TypeOK, SyncStart
    PROVE  /\ pc["sync"] = "lock"
           /\ pc["engine"] = "idle"
           /\ pc'["engine"] = pc["engine"]
           /\ pc'["sync"] = "fetch"
           /\ num'["engine"] = num["engine"]
           /\ num'["sync"] = num["sync"]
           /\ work' = status
           /\ status.last_number <= target'
           /\ UNCHANGED <<running, status, latest_block, overlord, txs_wal, rich_status, db,
                          trie, latest_proof, decided>>
  BY Numbers DEF SyncStart, Actor, durable, syncVars, env, EngineHolds, SyncHolds

\* The synchronization has a verified block, the one next to its own status.
LEMMA SyncFetchEffect ==
    ASSUME TypeOK, SyncFetch
    PROVE  /\ pc["sync"] = "fetch"
           /\ work.last_number < target
           /\ pc'["engine"] = pc["engine"]
           /\ pc'["sync"] = "tx"
           /\ num'["engine"] = num["engine"]
           /\ num'["sync"] = work.last_number + 1
           /\ work'.last_number = work.last_number + 1
           /\ trie' = trie \cup {work.last_number + 1}
           /\ UNCHANGED <<running, status, latest_block, overlord, txs_wal, target,
                          rich_status, db, latest_proof, decided>>
  BY Numbers DEF SyncFetch, StatusOf, Actor, durable, syncVars, env

\* The synchronization refuses a block and returns.
LEMMA SyncRejectsEffect ==
    ASSUME TypeOK, SyncRejects
    PROVE  /\ pc["sync"] = "fetch"
           /\ pc'["engine"] = pc["engine"]
           /\ pc'["sync"] = "idle"
           /\ num'["engine"] = num["engine"]
           /\ num'["sync"] = 0
           /\ work'.last_number = 0
           /\ target' = 0
           /\ UNCHANGED <<running, status, latest_block, overlord, txs_wal, rich_status, db,
                          trie, latest_proof, decided>>
  BY Numbers DEF SyncRejects, SyncAborts, Return, NoWork, StatusOf, Actor, durable, syncVars, env

\* The synchronization writes one row of the block and goes to the next.
LEMMA SaveRowSyncEffect ==
    ASSUME TypeOK, SaveRow("sync")
    PROVE  /\ pc["sync"] \in Table
           /\ pc'["engine"] = pc["engine"]
           /\ pc["sync"] = "tx" => pc'["sync"] = "tx_number"
           /\ pc["sync"] = "tx_number" => pc'["sync"] = "receipt"
           /\ pc["sync"] = "receipt" => pc'["sync"] = "proof"
           /\ pc["sync"] = "block" => pc'["sync"] = "header"
           /\ pc["sync"] = "header" => pc'["sync"] = "hash_number"
           /\ pc["sync"] = "hash_number" => pc'["sync"] = "latest"
           /\ num'["engine"] = num["engine"]
           /\ num'["sync"] = num["sync"]
           /\ \A t \in Table : db[t] \subseteq db'[t]
           /\ num["sync"] \in db'[pc["sync"]]
           /\ UNCHANGED <<running, status, latest_block, overlord, txs_wal, work, target,
                          rich_status, trie, latest_proof, decided>>
  BY Numbers, RowOrder DEF SaveRow, Actor, durable, syncVars, env, Table

\* The synchronization stores a proof after the receipts.
LEMMA SyncSaveProofEffect ==
    ASSUME TypeOK, SyncSaveProof
    PROVE  /\ pc["sync"] = "proof"
           /\ pc'["engine"] = pc["engine"]
           /\ pc'["sync"] = "block"
           /\ num'["engine"] = num["engine"]
           /\ num'["sync"] = num["sync"]
           /\ latest_proof' = num["sync"] - 1
           /\ UNCHANGED <<running, status, latest_block, overlord, txs_wal, work, target,
                          rich_status, db, trie, decided>>
  BY Numbers, RowOrder DEF SyncSaveProof, Actor, durable, syncVars, env

\* The synchronization makes the block the latest one.
LEMMA SaveLatestSyncEffect ==
    ASSUME TypeOK, SaveLatest("sync")
    PROVE  /\ pc["sync"] = "latest"
           /\ pc'["engine"] = pc["engine"]
           /\ pc'["sync"] = "flush"
           /\ num'["engine"] = num["engine"]
           /\ num'["sync"] = num["sync"]
           /\ latest_block' = num["sync"]
           /\ UNCHANGED <<running, status, overlord, txs_wal, work, target, rich_status, db,
                          trie, latest_proof, decided>>
  BY Numbers, RowOrder DEF SaveLatest, Actor, durable, syncVars, env

\* The synchronization goes to the next block.
LEMMA SyncFlushEffect ==
    ASSUME TypeOK, SyncFlush
    PROVE  /\ pc["sync"] = "flush"
           /\ pc'["engine"] = pc["engine"]
           /\ pc'["sync"] = "fetch"
           /\ num'["engine"] = num["engine"]
           /\ num'["sync"] = num["sync"]
           /\ UNCHANGED <<running, status, latest_block, overlord, txs_wal, work, target,
                          rich_status, db, trie, latest_proof, decided>>
  BY Numbers DEF SyncFlush, Actor, durable, syncVars, env

\* The synchronization makes its own status the node's.
LEMMA SyncSwapStatusEffect ==
    ASSUME TypeOK, SyncSwapStatus
    PROVE  /\ pc["sync"] = "fetch"
           /\ work.last_number = target
           /\ pc'["engine"] = pc["engine"]
           /\ pc'["sync"] = "rich"
           /\ num'["engine"] = num["engine"]
           /\ num'["sync"] = num["sync"]
           /\ status'.last_number = work.last_number
           /\ UNCHANGED <<running, latest_block, overlord, txs_wal, work, target, rich_status,
                          db, trie, latest_proof, decided>>
  BY Numbers DEF SyncSwapStatus, Actor, durable, syncVars, env

\* The synchronization sends Overlord the next height and returns.
LEMMA SyncFinishEffect ==
    ASSUME TypeOK, SyncFinish
    PROVE  /\ pc["sync"] = "rich"
           /\ pc'["engine"] = pc["engine"]
           /\ pc'["sync"] = "idle"
           /\ num'["engine"] = num["engine"]
           /\ num'["sync"] = 0
           /\ work'.last_number = 0
           /\ target' = 0
           /\ rich_status' = target + 1
           /\ UNCHANGED <<running, status, latest_block, overlord, txs_wal, db, trie,
                          latest_proof, decided>>
  BY Numbers DEF SyncFinish, Return, NoWork, StatusOf, Actor, durable, syncVars, env

\* commit unwraps metadata that is not cached.
LEMMA CommitPanicsEffect ==
    ASSUME TypeOK, CommitPanics
    PROVE  /\ ~running'
           /\ pc'["engine"] = "idle"
           /\ pc'["sync"] = "idle"
           /\ num'["engine"] = 0
           /\ num'["sync"] = 0
           /\ work'.last_number = 0
           /\ target' = 0
           /\ rich_status' = 0
           /\ UNCHANGED <<status, latest_block, overlord, txs_wal, db, trie, latest_proof,
                          decided>>
  BY Numbers, StopEffect DEF CommitPanics, CommitCalled, durable, env

\* commit unwraps the next height's metadata after it has cleaned the log.
LEMMA CommitFinishPanicsEffect ==
    ASSUME TypeOK, CommitFinishPanics
    PROVE  /\ pc["engine"] = "flush"
           /\ ~running'
           /\ pc'["engine"] = "idle"
           /\ pc'["sync"] = "idle"
           /\ num'["engine"] = 0
           /\ num'["sync"] = 0
           /\ \A h \in txs_wal : h > num["engine"] - 2 => h \in txs_wal'
           /\ work'.last_number = 0
           /\ target' = 0
           /\ rich_status' = 0
           /\ UNCHANGED <<status, latest_block, overlord, db, trie, latest_proof, decided>>
  BY Numbers, StopEffect DEF CommitFinishPanics, durable, env

\* need_sync unwraps metadata that is not cached.
LEMMA NeedSyncPanicsEffect ==
    ASSUME TypeOK, NEW r \in Int, NeedSyncPanics(r)
    PROVE  /\ ~running'
           /\ pc'["engine"] = "idle"
           /\ pc'["sync"] = "idle"
           /\ num'["engine"] = 0
           /\ num'["sync"] = 0
           /\ work'.last_number = 0
           /\ target' = 0
           /\ rich_status' = 0
           /\ UNCHANGED <<status, latest_block, overlord, txs_wal, db, trie, latest_proof,
                          decided>>
  BY Numbers, StopEffect DEF NeedSyncPanics, durable, env

\* update_status unwraps metadata that is not cached.
LEMMA SyncFinishPanicsEffect ==
    ASSUME TypeOK, SyncFinishPanics
    PROVE  /\ ~running'
           /\ pc'["engine"] = "idle"
           /\ pc'["sync"] = "idle"
           /\ num'["engine"] = 0
           /\ num'["sync"] = 0
           /\ work'.last_number = 0
           /\ target' = 0
           /\ rich_status' = 0
           /\ UNCHANGED <<status, latest_block, overlord, txs_wal, db, trie, latest_proof,
                          decided>>
  BY Numbers, StopEffect DEF SyncFinishPanics, durable, env

\* commit returns the error of a database call.
LEMMA CommitFailsEffect ==
    ASSUME TypeOK, CommitFails
    PROVE  /\ pc["engine"] # "idle"
           /\ pc'["engine"] = "idle"
           /\ pc'["sync"] = pc["sync"]
           /\ num'["engine"] = 0
           /\ num'["sync"] = num["sync"]
           /\ UNCHANGED <<running, status, latest_block, overlord, txs_wal, work, target, rich_status, db,
                         trie, latest_proof, decided>>
  BY Numbers DEF CommitFails, Return, Actor, durable, syncVars, env, Table

\* commit returns the error of the broadcast after it has cleaned the log.
LEMMA CommitFinishFailsEffect ==
    ASSUME TypeOK, CommitFinishFails
    PROVE  /\ pc["engine"] = "flush"
           /\ pc'["engine"] = "idle"
           /\ pc'["sync"] = pc["sync"]
           /\ num'["engine"] = 0
           /\ num'["sync"] = num["sync"]
           /\ \A h \in txs_wal : h > num["engine"] - 2 => h \in txs_wal'
           /\ UNCHANGED <<running, status, latest_block, overlord, work, target, rich_status,
                          db, trie, latest_proof, decided>>
  BY Numbers DEF CommitFinishFails, Return, Flushed, Actor, durable, syncVars, env

\* A failed request ends the synchronization.
LEMMA SyncFetchFailsEffect ==
    ASSUME TypeOK, SyncFetchFails
    PROVE  /\ pc["sync"] = "fetch"
           /\ pc'["engine"] = pc["engine"]
           /\ pc'["sync"] = "idle"
           /\ num'["engine"] = num["engine"]
           /\ num'["sync"] = 0
           /\ work'.last_number = 0
           /\ target' = 0
           /\ UNCHANGED <<running, status, latest_block, overlord, txs_wal, rich_status, db,
                          trie, latest_proof, decided>>
  BY Numbers DEF SyncFetchFails, SyncAborts, Return, NoWork, StatusOf, Actor, durable, syncVars, env

\* A failed write ends the synchronization.
LEMMA SyncSaveFailsEffect ==
    ASSUME TypeOK, SyncSaveFails
    PROVE  /\ pc["sync"] \notin {"idle", "lock"}
           /\ pc'["engine"] = pc["engine"]
           /\ pc'["sync"] = "idle"
           /\ num'["engine"] = num["engine"]
           /\ num'["sync"] = 0
           /\ work'.last_number = 0
           /\ target' = 0
           /\ UNCHANGED <<running, status, latest_block, overlord, txs_wal, rich_status, db,
                          trie, latest_proof, decided>>
<1>1. pc["sync"] \notin {"idle", "lock"}
  BY DEF SyncSaveFails, Table
<1> QED
  BY <1>1, Numbers DEF SyncSaveFails, SyncAborts, Return, NoWork, StatusOf, Actor, durable

\* A crash keeps what is stored.
LEMMA CrashEffect ==
    ASSUME TypeOK, Crash
    PROVE  /\ ~running'
           /\ pc'["engine"] = "idle"
           /\ pc'["sync"] = "idle"
           /\ num'["engine"] = 0
           /\ num'["sync"] = 0
           /\ work'.last_number = 0
           /\ target' = 0
           /\ rich_status' = 0
           /\ UNCHANGED <<status, latest_block, overlord, txs_wal, db, trie, latest_proof,
                          decided>>
  BY Numbers, StopEffect DEF Crash, durable, env

\* The start takes the status from the latest block.
LEMMA RestartEffect ==
    ASSUME TypeOK, Restart
    PROVE  /\ ~running
           /\ running'
           /\ pc'["engine"] = pc["engine"]
           /\ pc'["sync"] = pc["sync"]
           /\ num'["engine"] = num["engine"]
           /\ num'["sync"] = num["sync"]
           /\ status'.last_number = latest_block
           /\ \/ overlord' = overlord /\ overlord.height >= latest_block
              \/ overlord'.height = latest_block /\ ~overlord'.checked
           /\ rich_status' \in {0, 1}
           /\ UNCHANGED <<latest_block, txs_wal, work, target, db, trie, latest_proof, decided>>
  BY Numbers DEF Restart, Restored, StatusOf, Actor, durable, syncVars, env

-----------------------------------------------------------------------------
\* The lock: neither actor starts while the other one has it, and a stop ends both.
LEMMA ControlNext ==
    TypeOK /\ Control /\ [Next]_vars => Control'
<1> SUFFICES ASSUME TypeOK, Control, [Next]_vars PROVE Control'
  OBVIOUS
<1>0. /\ pc \in [Actor -> EnginePC \cup SyncPC]
  BY Numbers
<1>1. CASE UNCHANGED <<running, pc>>
  BY <1>1 DEF Control, EngineHolds, SyncHolds, Table
<1>2. CASE Decide \/ HandleRichStatus \/ CheckBlock \/ CommitAgain \/ UNCHANGED vars
  BY <1>1, <1>2 DEF vars, durable, syncVars, env, Decide, HandleRichStatus, CheckBlock, CommitAgain
<1>3. CASE CommitStart
  BY <1>0, <1>3, CommitStartEffect DEF Control, EngineHolds, SyncHolds, Table
<1>4. CASE CommitSaveProof
  BY <1>0, <1>4, CommitSaveProofEffect DEF Control, EngineHolds, SyncHolds, Table
<1>5. CASE CommitExec
  BY <1>0, <1>5, CommitExecEffect DEF Control, EngineHolds, SyncHolds, Table
<1>6. CASE CommitExecFails
  BY <1>0, <1>6, CommitExecFailsEffect DEF Control, EngineHolds, SyncHolds, Table
<1>7. CASE SaveRow("engine")
  BY <1>0, <1>7, SaveRowEngineEffect DEF Control, EngineHolds, SyncHolds, Table
<1>8. CASE SaveLatest("engine")
  BY <1>0, <1>8, SaveLatestEngineEffect DEF Control, EngineHolds, SyncHolds, Table
<1>9. CASE CommitStatus
  BY <1>0, <1>9, CommitStatusEffect DEF Control, EngineHolds, SyncHolds, Table
<1>10. CASE CommitMetadataFails
  BY <1>0, <1>10, CommitMetadataFailsEffect DEF Control, EngineHolds, SyncHolds, Table
<1>11. CASE CommitFinish
  BY <1>0, <1>11, CommitFinishEffect DEF Control, EngineHolds, SyncHolds, Table
<1>12. CASE \E r \in 1 .. MaxHeight : NeedSync(r)
  BY <1>0, <1>12, NeedSyncEffect DEF Control, EngineHolds, SyncHolds, Table
<1>13. CASE SyncGivesUp
  BY <1>0, <1>13, SyncGivesUpEffect DEF Control, EngineHolds, SyncHolds, Table
<1>14. CASE SyncStart
  BY <1>0, <1>14, SyncStartEffect DEF Control, EngineHolds, SyncHolds, Table
<1>15. CASE SyncFetch
  BY <1>0, <1>15, SyncFetchEffect DEF Control, EngineHolds, SyncHolds, Table
<1>16. CASE SyncRejects
  BY <1>0, <1>16, SyncRejectsEffect DEF Control, EngineHolds, SyncHolds, Table
<1>17. CASE SaveRow("sync")
  BY <1>0, <1>17, SaveRowSyncEffect DEF Control, EngineHolds, SyncHolds, Table
<1>18. CASE SyncSaveProof
  BY <1>0, <1>18, SyncSaveProofEffect DEF Control, EngineHolds, SyncHolds, Table
<1>19. CASE SaveLatest("sync")
  BY <1>0, <1>19, SaveLatestSyncEffect DEF Control, EngineHolds, SyncHolds, Table
<1>20. CASE SyncFlush
  BY <1>0, <1>20, SyncFlushEffect DEF Control, EngineHolds, SyncHolds, Table
<1>21. CASE SyncSwapStatus
  BY <1>0, <1>21, SyncSwapStatusEffect DEF Control, EngineHolds, SyncHolds, Table
<1>22. CASE SyncFinish
  BY <1>0, <1>22, SyncFinishEffect DEF Control, EngineHolds, SyncHolds, Table
<1>23. CASE CommitPanics
  BY <1>0, <1>23, CommitPanicsEffect DEF Control, EngineHolds, SyncHolds, Table
<1>24. CASE CommitFinishPanics
  BY <1>0, <1>24, CommitFinishPanicsEffect DEF Control, EngineHolds, SyncHolds, Table
<1>25. CASE \E r \in 1 .. MaxHeight : NeedSyncPanics(r)
  BY <1>0, <1>25, NeedSyncPanicsEffect DEF Control, EngineHolds, SyncHolds, Table
<1>26. CASE SyncFinishPanics
  BY <1>0, <1>26, SyncFinishPanicsEffect DEF Control, EngineHolds, SyncHolds, Table
<1>27. CASE CommitFinishFails
  BY <1>0, <1>27, CommitFinishFailsEffect DEF Control, EngineHolds, SyncHolds, Table
<1>28. CASE SyncFetchFails
  BY <1>0, <1>28, SyncFetchFailsEffect DEF Control, EngineHolds, SyncHolds, Table
<1>29. CASE Crash
  BY <1>0, <1>29, CrashEffect DEF Control, EngineHolds, SyncHolds, Table
<1>30. CASE Restart
  BY <1>0, <1>30, RestartEffect DEF Control, EngineHolds, SyncHolds, Table
<1>31. CASE CommitMetadata
  BY <1>0, <1>31, CommitMetadataEffect DEF Control, EngineHolds, SyncHolds, Table
<1>32. CASE CommitFails
  BY <1>0, <1>32, CommitFailsEffect DEF Control, EngineHolds, SyncHolds, Table
<1>33. CASE SyncSaveFails
  BY <1>0, <1>33, SyncSaveFailsEffect DEF Control, EngineHolds, SyncHolds, Table
<1>34. CASE CheckBlockFails
  BY SMTT(60), <1>1, <1>34 DEF CheckBlockFails, durable, syncVars, env
<1> QED
  BY SMTT(60), <1>1, <1>2, <1>3, <1>4, <1>5, <1>6, <1>7, <1>8, <1>9, <1>10, <1>11, <1>12, <1>13, <1>14,
     <1>15, <1>16, <1>17, <1>18, <1>19, <1>20, <1>21, <1>22, <1>23, <1>24, <1>25, <1>26, <1>27,
     <1>28, <1>29, <1>30, <1>31, <1>32, <1>33, <1>34 DEF Next, Engine, Sync, Panic, Fault

\* The engine's height stays next to the status while it is written.
LEMMA EngineInvNext ==
    TypeOK /\ Control /\ EngineInv /\ ChainInv /\ [Next]_vars => EngineInv'
<1> SUFFICES ASSUME TypeOK, Control, EngineInv, ChainInv, [Next]_vars PROVE EngineInv'
  OBVIOUS
<1>0. /\ pc \in [Actor -> EnginePC \cup SyncPC]
      /\ num \in [Actor -> Int]
      /\ num["engine"] \in Int
      /\ latest_block \in Int
      /\ status.last_number \in Int
      /\ work.last_number \in Int
      /\ overlord.height \in Int
      /\ overlord = [height |-> overlord.height, checked |-> overlord.checked]
      /\ rich_status \in Int
  BY Numbers
<1>1. CASE UNCHANGED <<pc, num, status, latest_block, overlord, txs_wal>>
  BY <1>1 DEF EngineInv, Table, EngineHolds, SyncHolds
<1>2. CASE Decide \/ UNCHANGED vars
  BY <1>1, <1>2 DEF vars, durable, syncVars, env, Decide
<1>3. CASE HandleRichStatus
  BY <1>0, <1>3, HandleRichStatusEffect DEF EngineInv, Table, EngineHolds, SyncHolds, Control,
     ChainInv
<1>4. CASE CheckBlock
  BY <1>0, <1>4, CheckBlockEffect DEF EngineInv, Table, EngineHolds, SyncHolds, Control, ChainInv
<1>5. CASE CommitAgain
  BY <1>0, <1>5, CommitAgainEffect DEF EngineInv, Table, EngineHolds, SyncHolds, Control, ChainInv
<1>6. CASE CommitStart
  BY <1>0, <1>6, CommitStartEffect DEF EngineInv, Table, EngineHolds, SyncHolds, Control, ChainInv
<1>7. CASE CommitSaveProof
  BY <1>0, <1>7, CommitSaveProofEffect DEF EngineInv, Table, EngineHolds, SyncHolds, Control,
     ChainInv
<1>8. CASE CommitExec
  BY <1>0, <1>8, CommitExecEffect DEF EngineInv, Table, EngineHolds, SyncHolds, Control, ChainInv
<1>9. CASE CommitExecFails
  BY <1>0, <1>9, CommitExecFailsEffect DEF EngineInv, Table, EngineHolds, SyncHolds, Control,
     ChainInv
<1>10. CASE SaveRow("engine")
  BY <1>0, <1>10, SaveRowEngineEffect DEF EngineInv, Table, EngineHolds, SyncHolds, Control,
     ChainInv
<1>11. CASE SaveLatest("engine")
  BY <1>0, <1>11, SaveLatestEngineEffect DEF EngineInv, Table, EngineHolds, SyncHolds, Control,
     ChainInv
<1>12. CASE CommitStatus
  BY <1>0, <1>12, CommitStatusEffect DEF EngineInv, Table, EngineHolds, SyncHolds, Control, ChainInv
<1>13. CASE CommitMetadataFails
  BY <1>0, <1>13, CommitMetadataFailsEffect DEF EngineInv, Table, EngineHolds, SyncHolds, Control,
     ChainInv
<1>14. CASE CommitFinish
  BY <1>0, <1>14, CommitFinishEffect DEF EngineInv, Table, EngineHolds, SyncHolds, Control, ChainInv
<1>15. CASE \E r \in 1 .. MaxHeight : NeedSync(r)
  BY <1>0, <1>15, NeedSyncEffect DEF EngineInv, Table, EngineHolds, SyncHolds, Control, ChainInv
<1>16. CASE SyncGivesUp
  BY <1>0, <1>16, SyncGivesUpEffect DEF EngineInv, Table, EngineHolds, SyncHolds, Control, ChainInv
<1>17. CASE SyncStart
  BY <1>0, <1>17, SyncStartEffect DEF EngineInv, Table, EngineHolds, SyncHolds, Control, ChainInv
<1>18. CASE SyncFetch
  BY <1>0, <1>18, SyncFetchEffect DEF EngineInv, Table, EngineHolds, SyncHolds, Control, ChainInv
<1>19. CASE SyncRejects
  BY <1>0, <1>19, SyncRejectsEffect DEF EngineInv, Table, EngineHolds, SyncHolds, Control, ChainInv
<1>20. CASE SaveRow("sync")
  BY <1>0, <1>20, SaveRowSyncEffect DEF EngineInv, Table, EngineHolds, SyncHolds, Control, ChainInv
<1>21. CASE SyncSaveProof
  BY <1>0, <1>21, SyncSaveProofEffect DEF EngineInv, Table, EngineHolds, SyncHolds, Control,
     ChainInv
<1>22. CASE SaveLatest("sync")
  BY <1>0, <1>22, SaveLatestSyncEffect DEF EngineInv, Table, EngineHolds, SyncHolds, Control,
     ChainInv
<1>23. CASE SyncFlush
  BY <1>0, <1>23, SyncFlushEffect DEF EngineInv, Table, EngineHolds, SyncHolds, Control, ChainInv
<1>24. CASE SyncSwapStatus
  BY <1>0, <1>24, SyncSwapStatusEffect DEF EngineInv, Table, EngineHolds, SyncHolds, Control,
     ChainInv
<1>25. CASE SyncFinish
  BY <1>0, <1>25, SyncFinishEffect DEF EngineInv, Table, EngineHolds, SyncHolds, Control, ChainInv
<1>26. CASE CommitPanics
  BY <1>0, <1>26, CommitPanicsEffect DEF EngineInv, Table, EngineHolds, SyncHolds, Control, ChainInv
<1>27. CASE CommitFinishPanics
  BY <1>0, <1>27, CommitFinishPanicsEffect DEF EngineInv, Table, EngineHolds, SyncHolds, Control,
     ChainInv
<1>28. CASE \E r \in 1 .. MaxHeight : NeedSyncPanics(r)
  BY <1>0, <1>28, NeedSyncPanicsEffect DEF EngineInv, Table, EngineHolds, SyncHolds, Control,
     ChainInv
<1>29. CASE SyncFinishPanics
  BY <1>0, <1>29, SyncFinishPanicsEffect DEF EngineInv, Table, EngineHolds, SyncHolds, Control,
     ChainInv
<1>30. CASE CommitFinishFails
  BY <1>0, <1>30, CommitFinishFailsEffect DEF EngineInv, Table, EngineHolds, SyncHolds, Control,
     ChainInv
<1>31. CASE SyncFetchFails
  BY <1>0, <1>31, SyncFetchFailsEffect DEF EngineInv, Table, EngineHolds, SyncHolds, Control,
     ChainInv
<1>32. CASE Crash
  BY <1>0, <1>32, CrashEffect DEF EngineInv, Table, EngineHolds, SyncHolds, Control, ChainInv
<1>33. CASE Restart
  BY <1>0, <1>33, RestartEffect DEF EngineInv, Table, EngineHolds, SyncHolds, Control, ChainInv
<1>34. CASE CommitMetadata
  BY <1>0, <1>34, CommitMetadataEffect DEF EngineInv, Table, EngineHolds, SyncHolds, Control, ChainInv
<1>35. CASE CommitFails
  BY <1>0, <1>35, CommitFailsEffect DEF EngineInv, Table, EngineHolds, SyncHolds, Control, ChainInv
<1>36. CASE SyncSaveFails
  BY <1>0, <1>36, SyncSaveFailsEffect DEF EngineInv, Table, EngineHolds, SyncHolds, Control, ChainInv
<1>37. CASE CheckBlockFails
  BY <1>1, <1>37 DEF CheckBlockFails, durable, syncVars, env
<1> QED
  BY SMTT(60), <1>1, <1>2, <1>3, <1>4, <1>5, <1>6, <1>7, <1>8, <1>9, <1>10, <1>11, <1>12, <1>13, <1>14,
     <1>15, <1>16, <1>17, <1>18, <1>19, <1>20, <1>21, <1>22, <1>23, <1>24, <1>25, <1>26, <1>27,
     <1>28, <1>29, <1>30, <1>31, <1>32, <1>33, <1>34, <1>35, <1>36, <1>37 DEF Next, Engine, Sync,
     Panic, Fault

\* The synchronization's status stays between the node's and its target.
LEMMA SyncInvNext ==
    TypeOK /\ Control /\ SyncInv /\ ChainInv /\ [Next]_vars => SyncInv'
<1> SUFFICES ASSUME TypeOK, Control, SyncInv, ChainInv, [Next]_vars PROVE SyncInv'
  OBVIOUS
<1>0. /\ pc \in [Actor -> EnginePC \cup SyncPC]
      /\ num \in [Actor -> Int]
      /\ num["sync"] \in Int
      /\ num["engine"] \in Int
      /\ latest_block \in Int
      /\ status.last_number \in Int
      /\ status.last_number >= 0
      /\ work.last_number \in Int
      /\ target \in Int
      /\ OnceSyncLimit \in Int
      /\ OnceSyncLimit >= 1
  BY Numbers
<1>1. CASE UNCHANGED <<pc, num, status, latest_block, work, target>>
  BY <1>1 DEF SyncInv, Table, EngineHolds, SyncHolds
<1>2. CASE Decide \/ HandleRichStatus \/ CheckBlock \/ CommitAgain \/ UNCHANGED vars
  BY <1>1, <1>2 DEF vars, durable, syncVars, env, Decide, HandleRichStatus, CheckBlock, CommitAgain
<1>3. CASE CommitStart
  BY <1>0, <1>3, CommitStartEffect DEF SyncInv, Table, EngineHolds, SyncHolds, Control, ChainInv
<1>4. CASE CommitSaveProof
  BY <1>0, <1>4, CommitSaveProofEffect DEF SyncInv, Table, EngineHolds, SyncHolds, Control, ChainInv
<1>5. CASE CommitExec
  BY <1>0, <1>5, CommitExecEffect DEF SyncInv, Table, EngineHolds, SyncHolds, Control, ChainInv
<1>6. CASE CommitExecFails
  BY <1>0, <1>6, CommitExecFailsEffect DEF SyncInv, Table, EngineHolds, SyncHolds, Control, ChainInv
<1>7. CASE SaveRow("engine")
  BY <1>0, <1>7, SaveRowEngineEffect DEF SyncInv, Table, EngineHolds, SyncHolds, Control, ChainInv
<1>8. CASE SaveLatest("engine")
  BY <1>0, <1>8, SaveLatestEngineEffect DEF SyncInv, Table, EngineHolds, SyncHolds, Control,
     ChainInv
<1>9. CASE CommitStatus
  BY <1>0, <1>9, CommitStatusEffect DEF SyncInv, Table, EngineHolds, SyncHolds, Control, ChainInv
<1>10. CASE CommitMetadataFails
  BY <1>0, <1>10, CommitMetadataFailsEffect DEF SyncInv, Table, EngineHolds, SyncHolds, Control,
     ChainInv
<1>11. CASE CommitFinish
  BY <1>0, <1>11, CommitFinishEffect DEF SyncInv, Table, EngineHolds, SyncHolds, Control, ChainInv
<1>12. CASE \E r \in 1 .. MaxHeight : NeedSync(r)
  BY <1>0, <1>12, NeedSyncEffect DEF SyncInv, Table, EngineHolds, SyncHolds, Control, ChainInv
<1>13. CASE SyncGivesUp
  BY <1>0, <1>13, SyncGivesUpEffect DEF SyncInv, Table, EngineHolds, SyncHolds, Control, ChainInv
<1>14. CASE SyncStart
  BY <1>0, <1>14, SyncStartEffect DEF SyncInv, Table, EngineHolds, SyncHolds, Control, ChainInv
<1>15. CASE SyncFetch
  BY <1>0, <1>15, SyncFetchEffect DEF SyncInv, Table, EngineHolds, SyncHolds, Control, ChainInv
<1>16. CASE SyncRejects
  BY <1>0, <1>16, SyncRejectsEffect DEF SyncInv, Table, EngineHolds, SyncHolds, Control, ChainInv
<1>17. CASE SaveRow("sync")
  BY <1>0, <1>17, SaveRowSyncEffect DEF SyncInv, Table, EngineHolds, SyncHolds, Control, ChainInv
<1>18. CASE SyncSaveProof
  BY <1>0, <1>18, SyncSaveProofEffect DEF SyncInv, Table, EngineHolds, SyncHolds, Control, ChainInv
<1>19. CASE SaveLatest("sync")
  BY <1>0, <1>19, SaveLatestSyncEffect DEF SyncInv, Table, EngineHolds, SyncHolds, Control, ChainInv
<1>20. CASE SyncFlush
  BY <1>0, <1>20, SyncFlushEffect DEF SyncInv, Table, EngineHolds, SyncHolds, Control, ChainInv
<1>21. CASE SyncSwapStatus
  BY <1>0, <1>21, SyncSwapStatusEffect DEF SyncInv, Table, EngineHolds, SyncHolds, Control, ChainInv
<1>22. CASE SyncFinish
  BY <1>0, <1>22, SyncFinishEffect DEF SyncInv, Table, EngineHolds, SyncHolds, Control, ChainInv
<1>23. CASE CommitPanics
  BY <1>0, <1>23, CommitPanicsEffect DEF SyncInv, Table, EngineHolds, SyncHolds, Control, ChainInv
<1>24. CASE CommitFinishPanics
  BY <1>0, <1>24, CommitFinishPanicsEffect DEF SyncInv, Table, EngineHolds, SyncHolds, Control,
     ChainInv
<1>25. CASE \E r \in 1 .. MaxHeight : NeedSyncPanics(r)
  BY <1>0, <1>25, NeedSyncPanicsEffect DEF SyncInv, Table, EngineHolds, SyncHolds, Control, ChainInv
<1>26. CASE SyncFinishPanics
  BY <1>0, <1>26, SyncFinishPanicsEffect DEF SyncInv, Table, EngineHolds, SyncHolds, Control,
     ChainInv
<1>27. CASE CommitFinishFails
  BY <1>0, <1>27, CommitFinishFailsEffect DEF SyncInv, Table, EngineHolds, SyncHolds, Control,
     ChainInv
<1>28. CASE SyncFetchFails
  BY <1>0, <1>28, SyncFetchFailsEffect DEF SyncInv, Table, EngineHolds, SyncHolds, Control, ChainInv
<1>29. CASE Crash
  BY <1>0, <1>29, CrashEffect DEF SyncInv, Table, EngineHolds, SyncHolds, Control, ChainInv
<1>30. CASE Restart
  BY <1>0, <1>30, RestartEffect DEF SyncInv, Table, EngineHolds, SyncHolds, Control, ChainInv
<1>31. CASE CommitMetadata
  BY <1>0, <1>31, CommitMetadataEffect DEF SyncInv, Table, EngineHolds, SyncHolds, Control, ChainInv
<1>32. CASE CommitFails
  BY <1>0, <1>32, CommitFailsEffect DEF SyncInv, Table, EngineHolds, SyncHolds, Control, ChainInv
<1>33. CASE SyncSaveFails
  BY <1>0, <1>33, SyncSaveFailsEffect DEF SyncInv, Table, EngineHolds, SyncHolds, Control, ChainInv
<1>34. CASE CheckBlockFails
  BY <1>1, <1>34 DEF CheckBlockFails, durable, syncVars, env
<1> QED
  BY SMTT(60), <1>1, <1>2, <1>3, <1>4, <1>5, <1>6, <1>7, <1>8, <1>9, <1>10, <1>11, <1>12, <1>13, <1>14,
     <1>15, <1>16, <1>17, <1>18, <1>19, <1>20, <1>21, <1>22, <1>23, <1>24, <1>25, <1>26, <1>27,
     <1>28, <1>29, <1>30, <1>31, <1>32, <1>33, <1>34 DEF Next, Engine, Sync, Panic, Fault
=============================================================================
