--------------------------- MODULE ChainNodeTypes ---------------------------
(***************************************************************************)
(* The invariant of ChainNode, in parts, and the lemmas that every step    *)
(* keeps the types.                                                        *)
(***************************************************************************)
EXTENDS ChainNode, TLAPS

\* TypeOK in four parts
DurableTypes ==
    /\ db \in [Table -> SUBSET Height]
    /\ trie \in SUBSET Height
    /\ latest_block \in Height
    /\ latest_proof \in Height
    /\ txs_wal \in SUBSET Height
    /\ overlord \in [height : 0 .. MaxHeight + 1, checked : BOOLEAN]

NodeTypes ==
    /\ running \in BOOLEAN
    /\ status \in Status
    /\ current_root \in Height \cup {NoRoot}
    /\ crypto \in Nat
    /\ cache \in SUBSET Nat
    /\ pool \in SUBSET Height

ActorTypes ==
    /\ pc \in [Actor -> EnginePC \cup SyncPC]
    /\ pc["engine"] \in EnginePC
    /\ pc["sync"] \in SyncPC
    /\ num \in [Actor -> Height]

RestTypes ==
    /\ work \in Status
    /\ target \in Height
    /\ rich_status \in 0 .. MaxHeight + 1
    /\ sync_status \in BOOLEAN
    /\ decided \in Height
    /\ faults \in 0 .. MaxFault

\* A stopped node runs nothing, and one actor at most has the commit lock.
Control ==
    /\ ~running => pc["engine"] = "idle" /\ pc["sync"] = "idle"
    /\ ~(EngineHolds /\ SyncHolds)

\* The engine writes the height next to the status, which is Overlord's height or below it.
EngineInv ==
    /\ EngineHolds /\ pc["engine"] # "flush" => num["engine"] = status.last_number + 1
    /\ pc["engine"] \in {"metadata", "status"} => num["engine"] <= latest_block
    /\ pc["engine"] = "flush" => num["engine"] = status.last_number
    /\ EngineHolds => num["engine"] <= overlord.height
    /\ pc["engine"] \in {"proof", "exec"} => num["engine"] \in txs_wal

\* The synchronization's status is between the node's and the block it is writing.
SyncInv ==
    /\ SyncHolds => status.last_number <= work.last_number
    /\ pc["sync"] \in {"fetch", "flush", "rich"} => work.last_number <= latest_block
    /\ pc["sync"] \in Table \cup {"proof", "latest"} =>
          num["sync"] = work.last_number /\ 1 <= num["sync"] /\ num["sync"] <= latest_block + 1
    /\ SyncHolds => work.last_number <= target
    /\ pc["sync"] = "rich" => target = status.last_number

\* The state and the rows an actor has written when it comes to the one it writes next.
Rows(a) ==
    /\ pc[a] \in Table \cup {"latest"} => num[a] \in trie
    /\ pc[a] \in {"tx_number", "receipt", "block", "header", "hash_number", "latest"} => num[a] \in db["tx"]
    /\ pc[a] \in {"receipt", "block", "header", "hash_number", "latest"} => num[a] \in db["tx_number"]
    /\ pc[a] \in {"block", "header", "hash_number", "latest"} => num[a] \in db["receipt"]
    /\ pc[a] \in {"header", "hash_number", "latest"} => num[a] \in db["block"]
    /\ pc[a] \in {"hash_number", "latest"} => num[a] \in db["header"]
    /\ pc[a] = "latest" => num[a] \in db["hash_number"]

RowsInv ==
    /\ Rows("engine")
    /\ Rows("sync")
    /\ pc["sync"] = "proof" => num["sync"] \in trie \cap db["tx"] \cap db["tx_number"] \cap db["receipt"]

\* The chain covers the status, and Overlord and its messages are at most one height past it.
ChainInv ==
    /\ status.last_number <= latest_block
    /\ overlord.height <= status.last_number + 1
    /\ rich_status <= status.last_number + 1
    /\ overlord.checked => overlord.height \in txs_wal

\* The proof is the one of the block the engine writes or of the parent of the synchronization's,
\* and one that is ahead of the chain is the one of Overlord's checked block.
ProofInv ==
    /\ EngineHolds /\ pc["engine"] # "proof" => latest_proof = num["engine"]
    /\ pc["engine"] = "proof" => overlord.checked /\ num["engine"] <= decided
    /\ pc["sync"] \in {"block", "header", "hash_number", "latest"} => latest_proof = num["sync"] - 1
    /\ latest_proof > latest_block =>
          /\ latest_proof = latest_block + 1
          /\ latest_proof <= decided
          /\ overlord.height = latest_proof
          /\ overlord.checked

IInv ==
    /\ TypeOK /\ Control /\ EngineInv /\ SyncInv /\ RowsInv /\ ChainInv /\ StoredChainComplete /\ ProofInv

-----------------------------------------------------------------------------
\* The order in which the rows of a block are written, read off After.
LEMMA RowOrder ==
    /\ \A a \in Actor :
          /\ After(a, "tx") = "tx_number"
          /\ After(a, "tx_number") = "receipt"
          /\ After(a, "proof") = "block"
          /\ After(a, "block") = "header"
          /\ After(a, "header") = "hash_number"
          /\ After(a, "hash_number") = "latest"
    /\ After("engine", "receipt") = "block" /\ After("engine", "latest") = "metadata"
    /\ After("sync", "receipt") = "proof" /\ After("sync", "latest") = "flush"
  BY DEF After

(* Every step preserves each part of the invariant. *)
\* The status of an idle synchronization is a status.
LEMMA NoWorkType == NoWork \in Status
  BY NodeAssumption DEF NoWork, StatusOf, Status, Height, NoRoot

\* Statuses built by StatusOf are statuses.
LEMMA StatusType ==
    ASSUME NEW n \in Height, NEW p \in Height, NEW r \in Height \cup {NoRoot}
    PROVE  StatusOf(n, p, r) \in Status
  BY DEF StatusOf, Status

\* Epochs are natural numbers.
LEMMA EpochType == ASSUME NEW n \in Nat PROVE calc_epoch(n) \in Nat
  BY NodeAssumption DEF calc_epoch

\* verify_proof adds epochs to the cache.
LEMMA ProofCacheType ==
    ASSUME NEW c \in SUBSET Nat, NEW n \in Nat
    PROVE  AfterProof(c, n) \in SUBSET Nat
<1>1. calc_epoch(n) \in Nat
  BY EpochType
<1> QED
  BY ZenonT(60), <1>1 DEF AfterProof

\* So do the two of verify_block.
LEMMA VerifiedCacheType ==
    ASSUME cache \in SUBSET Nat, NEW n \in Nat \ {0}
    PROVE  VerifiedCache(n) \in SUBSET Nat
<1>1. n \in Nat /\ n - 1 \in Nat
  OBVIOUS
<1>2. AfterProof(cache, n) \in SUBSET Nat
  BY <1>1, ProofCacheType
<1>3. AfterProof(AfterProof(cache, n), n - 1) \in SUBSET Nat
  BY <1>1, <1>2, ProofCacheType
<1> QED
  BY <1>2, <1>3 DEF VerifiedCache

\* A stopped process has the types of a fresh one.
LEMMA StopTypes ==
    Stop => /\ work' \in Status
            /\ target' = 0
            /\ rich_status' = 0
            /\ sync_status' \in BOOLEAN
<1> SUFFICES ASSUME Stop PROVE work' \in Status /\ target' = 0 /\ rich_status' = 0 /\ sync_status' \in BOOLEAN
  OBVIOUS
<1>1. work' = NoWork /\ target' = 0 /\ rich_status' = 0
  BY DEF Stop
<1>2. sync_status' = FALSE
  BY DEF Stop
<1>3. sync_status' \in BOOLEAN
  BY ZenonT(60), <1>2
<1> QED
  BY <1>1, <1>3, NoWorkType

\* What is stored, and Overlord's height, keep their types.
LEMMA DurableTypesNext ==
    TypeOK /\ SyncInv /\ [Next]_vars => DurableTypes'
<1> SUFFICES ASSUME TypeOK, SyncInv, [Next]_vars PROVE DurableTypes'
  OBVIOUS
<1>1. CASE UNCHANGED <<db, trie, latest_block, latest_proof, txs_wal, overlord>>
  BY <1>1 DEF TypeOK, DurableTypes
<1>2. CASE Decide \/ CommitStart \/ CommitExecFails \/ CommitStatus
        \/ CommitMetadataFails \/ (\E r \in 1 .. MaxHeight : NeedSync(r)) \/ SyncGivesUp
  BY <1>1, <1>2 DEF vars, durable, syncVars, env, Decide, CommitStart, CommitExecFails,
     Return, CommitStatus, CommitMetadataFails, NeedSync, SyncGivesUp
<1>3. CASE SyncStart \/ SyncRejects \/ SyncFlush \/ SyncSwapStatus \/ SyncFinish
        \/ CommitPanics \/ (\E r \in 1 .. MaxHeight : NeedSyncPanics(r))
  BY <1>1, <1>3 DEF vars, durable, syncVars, env, SyncStart, SyncRejects, SyncAborts,
     SyncFlush, SyncSwapStatus, SyncFinish, Return, CommitPanics, Stop, NeedSyncPanics
<1>4. CASE SyncFinishPanics \/ SyncFetchFails \/ Crash \/ UNCHANGED vars
  BY <1>1, <1>4 DEF vars, durable, syncVars, env, SyncFinishPanics, Stop, SyncFetchFails,
     SyncAborts, Crash
<1> USE NodeAssumption DEF durable, syncVars, env, TypeOK, DurableTypes, SyncInv, Height, Actor,
       Table, EnginePC, SyncPC, Status, NoRoot
<1>5. CASE HandleRichStatus
  BY <1>5 DEF HandleRichStatus
<1>6. CASE CommitAgain
  BY <1>6 DEF CommitAgain, CommitCalled
<1>7. CASE CommitSaveProof
  BY <1>7 DEF CommitSaveProof
<1>8. CASE SaveRow("engine")
  BY <1>8 DEF SaveRow
<1>9. CASE SaveLatest("engine")
  BY <1>9 DEF SaveLatest
<1>10. CASE SaveRow("sync")
  BY <1>10 DEF SaveRow
<1>11. CASE SyncSaveProof
  BY <1>11 DEF SyncSaveProof
<1>12. CASE SaveLatest("sync")
  BY <1>12 DEF SaveLatest
<1>13. CASE CommitFinishFails
  BY ZenonT(60), <1>13 DEF CommitFinishFails, Return, Flushed
<1>14. CASE Restart
  BY <1>14 DEF Restart, Restored, StatusOf
<1>15. CASE CommitFinishPanics
  BY ZenonT(60), <1>15 DEF CommitFinishPanics, Stop
<1>16. CASE CheckBlock
  <2>1. /\ UNCHANGED <<db, trie, latest_block, latest_proof>>
        /\ txs_wal' = txs_wal \cup {overlord.height}
        /\ overlord.height \in 1 .. MaxHeight
        /\ overlord' = [overlord EXCEPT !.checked = TRUE]
    BY <1>16 DEF CheckBlock
  <2>2. overlord' \in [height : 0 .. MaxHeight + 1, checked : BOOLEAN]
    BY <2>1, Zenon
  <2> QED
    BY <2>1, <2>2
<1>17. CASE CommitFinish
  <2>1. /\ UNCHANGED <<db, trie, latest_block, latest_proof>>
        /\ txs_wal' = {h \in txs_wal : h > num["engine"] - 2}
        /\ overlord' = [height |-> num["engine"] + 1, checked |-> FALSE]
    BY <1>17 DEF CommitFinish, Flushed
  <2>2. num["engine"] + 1 \in 0 .. MaxHeight + 1
    OBVIOUS
  <2>3. overlord' \in [height : 0 .. MaxHeight + 1, checked : BOOLEAN]
    BY <2>1, <2>2, Zenon
  <2> QED
    BY ZenonT(60), <2>1, <2>3
<1>18. CASE CommitExec
  <2>1. trie' = trie \cup {num["engine"]} /\ UNCHANGED <<db, latest_block, latest_proof, txs_wal, overlord>>
    BY <1>18, Zenon DEF CommitExec
  <2>2. num["engine"] \in Height
    OBVIOUS
  <2>3. trie' \in SUBSET Height
    BY ZenonT(60), <2>1, <2>2
  <2> QED
    BY <2>1, <2>3, Zenon
<1>19. CASE SyncFetch
  <2>1. trie' = trie \cup {work.last_number + 1} /\ UNCHANGED <<db, latest_block, latest_proof, txs_wal, overlord>>
    BY <1>19, Zenon DEF SyncFetch
  <2>2. work.last_number < target
    BY <1>19 DEF SyncFetch
  <2>3. work.last_number + 1 \in Height
    BY <2>2
  <2>4. trie' \in SUBSET Height
    BY ZenonT(60), <2>1, <2>3
  <2> QED
    BY <2>1, <2>4, Zenon
<1>20. CASE CheckBlockFails \/ CommitMetadata \/ CommitFails \/ SyncSaveFails
  BY <1>1, <1>20 DEF CheckBlockFails, CommitMetadata, CommitFails, SyncSaveFails, SyncAborts, Return
<1> HIDE DEF durable, syncVars, env, TypeOK, DurableTypes, SyncInv, Height, Actor, Table, EnginePC,
       SyncPC, Status, NoRoot
<1> QED
  BY <1>1, <1>2, <1>3, <1>4, <1>5, <1>6, <1>7, <1>8, <1>9, <1>10, <1>11, <1>12, <1>13, <1>14,
     <1>15, <1>16, <1>17, <1>18, <1>19, <1>20 DEF Next, Engine, Sync, Panic, Fault

\* The node's shared memory keeps its types.
LEMMA NodeTypesNext ==
    TypeOK /\ SyncInv /\ [Next]_vars => NodeTypes'
<1> SUFFICES ASSUME TypeOK, SyncInv, [Next]_vars PROVE NodeTypes'
  OBVIOUS
<1>1. CASE UNCHANGED <<running, status, current_root, crypto, cache, pool>>
  BY <1>1 DEF TypeOK, NodeTypes
<1>2. CASE Decide \/ HandleRichStatus \/ CommitAgain \/ CommitStart \/ CommitSaveProof
        \/ CommitExec \/ CommitExecFails \/ SaveRow("engine")
  BY <1>1, <1>2 DEF vars, durable, syncVars, env, Decide, HandleRichStatus, CommitAgain,
     CommitStart, CommitSaveProof, CommitExec, CommitExecFails, Return, SaveRow
<1>3. CASE SaveLatest("engine") \/ CommitMetadataFails \/ (\E r \in 1 .. MaxHeight : NeedSync(r))
        \/ SyncGivesUp \/ SyncStart \/ SaveRow("sync") \/ SyncSaveProof
  BY <1>1, <1>3 DEF vars, durable, syncVars, env, SaveLatest, CommitMetadataFails, Return, NeedSync,
     SyncGivesUp, SyncStart, SaveRow, SyncSaveProof
<1>4. CASE SaveLatest("sync") \/ SyncFinish \/ SyncFetchFails \/ UNCHANGED vars
  BY <1>1, <1>4 DEF vars, durable, syncVars, env, SaveLatest, SyncFinish, Return, SyncFetchFails,
     SyncAborts
<1> USE NodeAssumption DEF durable, syncVars, env, TypeOK, NodeTypes, Height, Actor
<1>5. CASE CheckBlock
  <2>1. cache' = cache \/ cache' = AfterProof(cache, overlord.height - 1)
    BY <1>5 DEF CheckBlock, ParentVerified
  <2>2. overlord.height - 1 \in Nat
    BY <1>5 DEF CheckBlock
  <2>3. cache \in SUBSET Nat
    OBVIOUS
  <2>4. AfterProof(cache, overlord.height - 1) \in SUBSET Nat
    BY <2>2, <2>3, ProofCacheType
  <2>5. cache' \in SUBSET Nat
    BY ZenonT(60), <2>1, <2>3, <2>4
  <2> QED
    BY <2>5, <1>5 DEF CheckBlock
<1>6. CASE CommitFinish
  BY ZenonT(60), <1>6 DEF CommitFinish, Return, Flushed
<1>7. CASE SyncFlush
  BY ZenonT(60), <1>7 DEF SyncFlush
<1>8. CASE SyncSwapStatus
  BY <1>8 DEF SyncSwapStatus
<1>9. CASE CommitFinishFails
  BY ZenonT(60), <1>9 DEF CommitFinishFails, Return, Flushed
<1>10. CASE CommitPanics
  BY ZenonT(60), <1>10 DEF CommitPanics, Stop, CommitCalled
<1>11. CASE CommitFinishPanics
  BY ZenonT(60), <1>11 DEF CommitFinishPanics, Stop
<1>12. CASE \E r \in 1 .. MaxHeight : NeedSyncPanics(r)
  BY ZenonT(60), <1>12 DEF NeedSyncPanics, Announced, Stop
<1>13. CASE SyncFinishPanics
  BY ZenonT(60), <1>13 DEF SyncFinishPanics, Stop
<1>14. CASE Crash
  BY ZenonT(60), <1>14 DEF Crash, Stop
<1>15. CASE CommitStatus
  <2>1. num["engine"] \in Height
    OBVIOUS
  <2>2. status' \in Status
    BY <2>1, <1>15, StatusType DEF CommitStatus
  <2> QED
    BY <2>1, <2>2, <1>15 DEF CommitStatus
<1>16. CASE SyncFetch
  <2>1. work.last_number + 1 \in Nat \ {0}
    BY DEF Status
  <2>2. cache' \in SUBSET Nat
    BY <2>1, <1>16, VerifiedCacheType DEF SyncFetch
  <2> QED
    BY <2>2, <1>16 DEF SyncFetch
<1>17. CASE Restart
  <2>1. Restored \in Status /\ Restored.root \in Height \cup {NoRoot}
    BY ZenonT(60), StatusType DEF Restored, StatusOf
  <2>2. crypto' \in Nat /\ cache' \in SUBSET Nat
    BY <1>17, EpochType DEF Restart
  <2>3. running' = TRUE
    BY <1>17 DEF Restart
  <2>4. running' \in BOOLEAN
    BY <2>3
  <2>5. pool' \in SUBSET Height
    BY <1>17 DEF Restart
  <2> QED
    BY <2>1, <2>2, <2>4, <2>5, <1>17 DEF Restart
<1>18. CASE SyncRejects
  <2>1. work.last_number + 1 \in Nat \ {0}
    BY DEF Status
  <2>2. cache' \in SUBSET Nat
    BY <2>1, <1>18, VerifiedCacheType DEF SyncRejects
  <2> QED
    BY <2>2, <1>18 DEF SyncRejects, SyncAborts
<1>19. CASE CheckBlockFails
  <2>1. overlord.height - 1 \in Nat
    BY <1>19 DEF CheckBlockFails
  <2>2. cache' \in SUBSET Nat
    BY <2>1, <1>19, ProofCacheType DEF CheckBlockFails, ParentVerified
  <2> QED
    BY <2>2, <1>19 DEF CheckBlockFails
<1>20. CASE CommitMetadata
  <2>1. num["engine"] \in Nat /\ num["engine"] + 1 \in Nat
    OBVIOUS
  <2>2. calc_epoch(num["engine"]) \in Nat /\ calc_epoch(num["engine"] + 1) \in Nat
    BY <2>1, EpochType
  <2>3. crypto' \in Nat
    BY <2>2, <1>20 DEF CommitMetadata
  <2>4. calc_epoch(num["engine"]) + 1 \in Nat
    BY <2>2
  <2>5. update_metadata(num["engine"]) \/ cache' = cache
    BY <1>20 DEF CommitMetadata
  <2>6. cache' \in SUBSET Nat
    BY ZenonT(60), <2>4, <2>5 DEF update_metadata
  <2> QED
    BY <2>3, <2>6, <1>20 DEF CommitMetadata
<1>21. CASE CommitFails \/ SyncSaveFails
  BY <1>1, <1>21 DEF CommitFails, SyncSaveFails, SyncAborts, Return
<1> HIDE DEF durable, syncVars, env, TypeOK, NodeTypes, Height, Actor
<1> QED
  BY <1>1, <1>2, <1>3, <1>4, <1>5, <1>6, <1>7, <1>8, <1>9, <1>10, <1>11, <1>12, <1>13, <1>14,
     <1>15, <1>16, <1>17, <1>18, <1>19, <1>20, <1>21 DEF Next, Engine, Sync, Panic, Fault

\* The program counters stay in their ranges, and no actor works past MaxHeight.
LEMMA ActorTypesNext ==
    TypeOK /\ SyncInv /\ [Next]_vars => ActorTypes'
<1> SUFFICES ASSUME TypeOK, SyncInv, [Next]_vars PROVE ActorTypes'
  OBVIOUS
<1>1. CASE UNCHANGED <<pc, num>>
  BY <1>1 DEF TypeOK, ActorTypes
<1>2. CASE Decide \/ HandleRichStatus \/ CheckBlock \/ CommitAgain \/ Restart \/ UNCHANGED vars
  BY <1>1, <1>2 DEF vars, durable, syncVars, env, Decide, HandleRichStatus, CheckBlock,
     CommitAgain, Restart
<1> USE NodeAssumption, RowOrder DEF durable, syncVars, env, TypeOK, ActorTypes, SyncInv, Height,
       Actor, Table, EnginePC, SyncPC, Status, NoRoot
<1>3. CASE CommitStart
  BY <1>3 DEF CommitStart, CommitCalled
<1>4. CASE CommitSaveProof
  BY <1>4 DEF CommitSaveProof
<1>5. CASE CommitExec
  BY <1>5 DEF CommitExec
<1>6. CASE CommitExecFails
  BY <1>6 DEF CommitExecFails, Return
<1>7. CASE SaveRow("engine")
  BY <1>7 DEF SaveRow
<1>8. CASE SaveLatest("engine")
  BY <1>8 DEF SaveLatest
<1>9. CASE CommitStatus
  BY <1>9 DEF CommitStatus, StatusOf
<1>10. CASE CommitMetadataFails
  BY <1>10 DEF CommitMetadataFails, Return
<1>11. CASE CommitFinish
  BY <1>11 DEF CommitFinish, Return, Flushed
<1>12. CASE \E r \in 1 .. MaxHeight : NeedSync(r)
  BY <1>12 DEF NeedSync, Announced
<1>13. CASE SyncGivesUp
  BY <1>13 DEF SyncGivesUp, Return
<1>14. CASE SyncStart
  BY <1>14 DEF SyncStart
<1>15. CASE SyncFetch
  BY <1>15 DEF SyncFetch, StatusOf
<1>16. CASE SyncRejects
  BY <1>16 DEF SyncRejects, SyncAborts, Return, NoWork, StatusOf
<1>17. CASE SaveRow("sync")
  BY <1>17 DEF SaveRow
<1>18. CASE SyncSaveProof
  BY <1>18 DEF SyncSaveProof
<1>19. CASE SaveLatest("sync")
  BY <1>19 DEF SaveLatest
<1>20. CASE SyncFlush
  BY <1>20 DEF SyncFlush
<1>21. CASE SyncSwapStatus
  BY <1>21 DEF SyncSwapStatus
<1>22. CASE SyncFinish
  BY <1>22 DEF SyncFinish, Return, NoWork, StatusOf
<1>23. CASE CommitFinishFails
  BY <1>23 DEF CommitFinishFails, Return, Flushed
<1>24. CASE SyncFetchFails
  BY <1>24 DEF SyncFetchFails, SyncAborts, Return, NoWork, StatusOf
<1>25. CASE CommitPanics
  BY <1>25 DEF CommitPanics, Stop, CommitCalled
<1>26. CASE CommitFinishPanics
  BY <1>26 DEF CommitFinishPanics, Stop
<1>27. CASE \E r \in 1 .. MaxHeight : NeedSyncPanics(r)
  BY <1>27 DEF NeedSyncPanics, Announced, Stop
<1>28. CASE SyncFinishPanics
  BY <1>28 DEF SyncFinishPanics, Stop
<1>29. CASE Crash
  BY <1>29 DEF Crash, Stop
<1>30. CASE CommitMetadata
  BY <1>30 DEF CommitMetadata
<1>31. CASE CommitFails
  BY SMTT(60), <1>31 DEF CommitFails, Return
<1>32. CASE SyncSaveFails
  BY <1>32 DEF SyncSaveFails, SyncAborts, Return, NoWork, StatusOf
<1>33. CASE CheckBlockFails
  BY <1>1, <1>33 DEF CheckBlockFails
<1> HIDE DEF durable, syncVars, env, TypeOK, ActorTypes, SyncInv, Height, Actor, Table, EnginePC,
       SyncPC, Status, NoRoot
<1> QED
  BY <1>1, <1>2, <1>3, <1>4, <1>5, <1>6, <1>7, <1>8, <1>9, <1>10, <1>11, <1>12, <1>13, <1>14,
     <1>15, <1>16, <1>17, <1>18, <1>19, <1>20, <1>21, <1>22, <1>23, <1>24, <1>25, <1>26, <1>27,
     <1>28, <1>29, <1>30, <1>31, <1>32, <1>33 DEF Next, Engine, Sync, Panic, Fault

\* The synchronization's variables, the messages and the bounds keep their types.
LEMMA RestTypesNext ==
    TypeOK /\ SyncInv /\ [Next]_vars => RestTypes'
<1> SUFFICES ASSUME TypeOK, SyncInv, [Next]_vars PROVE RestTypes'
  OBVIOUS
<1>1. CASE UNCHANGED <<work, target, rich_status, sync_status, decided, faults>>
  BY <1>1 DEF TypeOK, RestTypes
<1>2. CASE CheckBlock \/ CommitAgain \/ CommitStart \/ CommitSaveProof \/ CommitExec
        \/ CommitExecFails \/ SaveRow("engine") \/ SaveLatest("engine")
  BY SMTT(60), <1>1, <1>2 DEF vars, durable, syncVars, env, CheckBlock, CommitAgain, CommitStart,
     CommitSaveProof, CommitExec, CommitExecFails, Return, SaveRow, SaveLatest
<1>3. CASE CommitStatus \/ CommitMetadataFails \/ CommitFinish \/ SaveRow("sync") \/ SyncSaveProof
        \/ SaveLatest("sync") \/ SyncFlush \/ SyncSwapStatus
  BY <1>1, <1>3 DEF vars, durable, syncVars, env, CommitStatus, CommitMetadataFails, Return,
     CommitFinish, Flushed, SaveRow, SyncSaveProof, SaveLatest, SyncFlush, SyncSwapStatus
<1>4. CASE UNCHANGED vars
  BY <1>1, <1>4 DEF vars, durable, syncVars, env
<1> USE NodeAssumption DEF durable, syncVars, env, TypeOK, RestTypes, Height
<1>5. CASE Decide
  BY <1>5 DEF Decide
<1>6. CASE HandleRichStatus
  BY <1>6 DEF HandleRichStatus
<1>7. CASE \E r \in 1 .. MaxHeight : NeedSync(r)
  BY <1>7 DEF NeedSync, Announced
<1>8. CASE SyncGivesUp
  BY <1>8 DEF SyncGivesUp, Return
<1>9. CASE CommitFinishFails
  BY <1>9 DEF CommitFinishFails, Return, Flushed
<1>10. CASE Restart
  BY <1>10 DEF Restart, Restored, StatusOf
<1>11. CASE CommitPanics
  BY <1>11, StopTypes DEF CommitPanics
<1>12. CASE CommitFinishPanics
  BY <1>12, StopTypes DEF CommitFinishPanics
<1>13. CASE \E r \in 1 .. MaxHeight : NeedSyncPanics(r)
  BY <1>13, StopTypes DEF NeedSyncPanics
<1>14. CASE SyncFinishPanics
  BY <1>14, StopTypes DEF SyncFinishPanics
<1>15. CASE Crash
  BY <1>15, StopTypes DEF Crash
<1>16. CASE SyncRejects
  BY <1>16, NoWorkType DEF SyncRejects, SyncAborts, Return
<1>17. CASE SyncFetchFails
  BY <1>17, NoWorkType DEF SyncFetchFails, SyncAborts, Return
<1>18. CASE SyncFinish
  <2>1. sync_status' = FALSE
    BY <1>18 DEF SyncFinish
  <2>2. sync_status' \in BOOLEAN
    BY ZenonT(60), <2>1
  <2>3. work' \in Status
    BY <1>18, NoWorkType DEF SyncFinish
  <2> QED
    BY <2>2, <2>3, <1>18 DEF SyncFinish
<1>19. CASE SyncStart
  <2>1. sync_status' = TRUE
    BY <1>19 DEF SyncStart
  <2>2. sync_status' \in BOOLEAN
    BY <2>1
  <2>3. target' \in Height
    BY <1>19 DEF SyncStart, Status
  <2> QED
    BY <2>2, <2>3, <1>19 DEF SyncStart, NodeTypes
<1>20. CASE SyncFetch
  BY <1>20 DEF SyncFetch, StatusOf, Status
<1>21. CASE CommitMetadata \/ CheckBlockFails
  BY <1>1, <1>21 DEF CommitMetadata, CheckBlockFails
<1>22. CASE CommitFails
  BY <1>22 DEF CommitFails, Return
<1>23. CASE SyncSaveFails
  BY <1>23, NoWorkType DEF SyncSaveFails, SyncAborts, Return
<1> HIDE DEF durable, syncVars, env, TypeOK, RestTypes, Height
<1> QED
  BY <1>1, <1>2, <1>3, <1>4, <1>5, <1>6, <1>7, <1>8, <1>9, <1>10, <1>11, <1>12, <1>13, <1>14,
     <1>15, <1>16, <1>17, <1>18, <1>19, <1>20, <1>21, <1>22, <1>23 DEF Next, Engine, Sync, Panic,
     Fault
=============================================================================
