--------------------------- MODULE ChainNodeProofs --------------------------
(***************************************************************************)
(* Proofs about ChainNode, for every value of its constants: its types,    *)
(* that the stored chain is complete up to the latest block, that a commit *)
(* finds its transactions, that a proof stored ahead of its block can be   *)
(* committed, that Overlord stays next to the chain and that the status    *)
(* never regresses.                                                        *)
(***************************************************************************)
EXTENDS ChainNodeSteps

\* Rows are only added, and an actor comes to a row after it has written the ones before.
LEMMA RowsInvNext ==
    TypeOK /\ RowsInv /\ [Next]_vars => RowsInv'
<1> SUFFICES ASSUME TypeOK, RowsInv, [Next]_vars PROVE RowsInv'
  OBVIOUS
<1>0. /\ pc \in [Actor -> EnginePC \cup SyncPC]
      /\ num \in [Actor -> Int]
      /\ db \in [Table -> SUBSET Height]
  BY Numbers
<1>1. CASE UNCHANGED <<pc, num, db, trie>>
  BY <1>1 DEF RowsInv, Rows, Table
<1>2. CASE Decide \/ HandleRichStatus \/ CheckBlock \/ CommitAgain \/ Restart \/ UNCHANGED vars
  BY <1>1, <1>2 DEF vars, durable, syncVars, env, Decide, HandleRichStatus, CheckBlock,
     CommitAgain, Restart
<1>3. CASE CommitStart
  BY <1>0, <1>3, CommitStartEffect DEF RowsInv, Rows, Table
<1>4. CASE CommitSaveProof
  BY <1>0, <1>4, CommitSaveProofEffect DEF RowsInv, Rows, Table
<1>5. CASE CommitExec
  BY <1>0, <1>5, CommitExecEffect DEF RowsInv, Rows, Table
<1>6. CASE CommitExecFails
  BY <1>0, <1>6, CommitExecFailsEffect DEF RowsInv, Rows, Table
<1>7. CASE SaveRow("engine")
  BY <1>0, <1>7, SaveRowEngineEffect DEF RowsInv, Rows, Table
<1>8. CASE SaveLatest("engine")
  BY <1>0, <1>8, SaveLatestEngineEffect DEF RowsInv, Rows, Table
<1>9. CASE CommitStatus
  BY <1>0, <1>9, CommitStatusEffect DEF RowsInv, Rows, Table
<1>10. CASE CommitMetadataFails
  BY <1>0, <1>10, CommitMetadataFailsEffect DEF RowsInv, Rows, Table
<1>11. CASE CommitFinish
  BY <1>0, <1>11, CommitFinishEffect DEF RowsInv, Rows, Table
<1>12. CASE \E r \in 1 .. MaxHeight : NeedSync(r)
  BY <1>0, <1>12, NeedSyncEffect DEF RowsInv, Rows, Table
<1>13. CASE SyncGivesUp
  BY <1>0, <1>13, SyncGivesUpEffect DEF RowsInv, Rows, Table
<1>14. CASE SyncStart
  BY <1>0, <1>14, SyncStartEffect DEF RowsInv, Rows, Table
<1>15. CASE SyncFetch
  BY <1>0, <1>15, SyncFetchEffect DEF RowsInv, Rows, Table
<1>16. CASE SyncRejects
  BY <1>0, <1>16, SyncRejectsEffect DEF RowsInv, Rows, Table
<1>17. CASE SaveRow("sync")
  BY <1>0, <1>17, SaveRowSyncEffect DEF RowsInv, Rows, Table
<1>18. CASE SyncSaveProof
  BY <1>0, <1>18, SyncSaveProofEffect DEF RowsInv, Rows, Table
<1>19. CASE SaveLatest("sync")
  BY <1>0, <1>19, SaveLatestSyncEffect DEF RowsInv, Rows, Table
<1>20. CASE SyncFlush
  BY <1>0, <1>20, SyncFlushEffect DEF RowsInv, Rows, Table
<1>21. CASE SyncSwapStatus
  BY <1>0, <1>21, SyncSwapStatusEffect DEF RowsInv, Rows, Table
<1>22. CASE SyncFinish
  BY <1>0, <1>22, SyncFinishEffect DEF RowsInv, Rows, Table
<1>23. CASE CommitPanics
  BY <1>0, <1>23, CommitPanicsEffect DEF RowsInv, Rows, Table
<1>24. CASE CommitFinishPanics
  BY <1>0, <1>24, CommitFinishPanicsEffect DEF RowsInv, Rows, Table
<1>25. CASE \E r \in 1 .. MaxHeight : NeedSyncPanics(r)
  BY SMTT(60), <1>0, <1>25, NeedSyncPanicsEffect DEF RowsInv, Rows, Table
<1>26. CASE SyncFinishPanics
  BY SMTT(60), <1>0, <1>26, SyncFinishPanicsEffect DEF RowsInv, Rows, Table
<1>27. CASE CommitFinishFails
  BY <1>0, <1>27, CommitFinishFailsEffect DEF RowsInv, Rows, Table
<1>28. CASE SyncFetchFails
  BY <1>0, <1>28, SyncFetchFailsEffect DEF RowsInv, Rows, Table
<1>29. CASE Crash
  BY <1>0, <1>29, CrashEffect DEF RowsInv, Rows, Table
<1>30. CASE CommitMetadata
  BY <1>0, <1>30, CommitMetadataEffect DEF RowsInv, Rows, Table
<1>31. CASE CommitFails
  BY <1>0, <1>31, CommitFailsEffect DEF RowsInv, Rows, Table
<1>32. CASE SyncSaveFails
  BY <1>0, <1>32, SyncSaveFailsEffect DEF RowsInv, Rows, Table
<1>33. CASE CheckBlockFails
  BY <1>1, <1>33 DEF CheckBlockFails, durable, syncVars, env
<1> QED
  BY SMTT(60), <1>1, <1>2, <1>3, <1>4, <1>5, <1>6, <1>7, <1>8, <1>9, <1>10, <1>11, <1>12, <1>13, <1>14,
     <1>15, <1>16, <1>17, <1>18, <1>19, <1>20, <1>21, <1>22, <1>23, <1>24, <1>25, <1>26, <1>27,
     <1>28, <1>29, <1>30, <1>31, <1>32, <1>33 DEF Next, Engine, Sync, Panic, Fault

\* The status follows the latest block and Overlord follows the status.
LEMMA ChainInvNext ==
    TypeOK /\ Control /\ EngineInv /\ SyncInv /\ ChainInv /\ [Next]_vars => ChainInv'
<1> SUFFICES ASSUME TypeOK, Control, EngineInv, SyncInv, ChainInv, [Next]_vars PROVE ChainInv'
  OBVIOUS
<1>0. /\ num["engine"] \in Int
      /\ num["sync"] \in Int
      /\ latest_block \in Int
      /\ status.last_number \in Int
      /\ status.last_number >= 0
      /\ work.last_number \in Int
      /\ overlord.height \in Int
      /\ overlord = [height |-> overlord.height, checked |-> overlord.checked]
      /\ target \in Int
      /\ rich_status \in Int
  BY Numbers
<1>1. CASE UNCHANGED <<status, latest_block, overlord, rich_status, txs_wal>>
  BY <1>1 DEF ChainInv, EngineHolds, SyncHolds, Table
<1>2. CASE Decide \/ CommitStart \/ CommitSaveProof \/ CommitExec \/ CommitExecFails
        \/ SaveRow("engine") \/ CommitMetadataFails \/ (\E r \in 1 .. MaxHeight : NeedSync(r))
  BY ZenonT(60), <1>1, <1>2 DEF vars, durable, syncVars, env, Decide, CommitStart, CommitSaveProof, CommitExec,
     CommitExecFails, Return, SaveRow, CommitMetadataFails, NeedSync
<1>3. CASE SyncGivesUp \/ SyncStart \/ SyncFetch \/ SyncRejects \/ SaveRow("sync") \/ SyncSaveProof
        \/ SyncFlush \/ SyncFetchFails
  BY ZenonT(60), <1>1, <1>3 DEF vars, durable, syncVars, env, SyncGivesUp, Return, SyncStart, SyncFetch,
     SyncRejects, SyncAborts, SaveRow, SyncSaveProof, SyncFlush, SyncFetchFails
<1>4. CASE UNCHANGED vars
  BY <1>1, <1>4 DEF vars, durable, syncVars, env
<1>5. CASE HandleRichStatus
  BY <1>0, <1>5, HandleRichStatusEffect DEF ChainInv, EngineHolds, SyncHolds, Table, Control,
     EngineInv, SyncInv
<1>6. CASE CheckBlock
  BY <1>0, <1>6, CheckBlockEffect DEF ChainInv, EngineHolds, SyncHolds, Table, Control, EngineInv,
     SyncInv
<1>7. CASE CommitAgain
  BY <1>0, <1>7, CommitAgainEffect DEF ChainInv, EngineHolds, SyncHolds, Table, Control, EngineInv,
     SyncInv
<1>8. CASE SaveLatest("engine")
  BY <1>0, <1>8, SaveLatestEngineEffect DEF ChainInv, EngineHolds, SyncHolds, Table, Control,
     EngineInv, SyncInv
<1>9. CASE CommitStatus
  BY <1>0, <1>9, CommitStatusEffect DEF ChainInv, EngineHolds, SyncHolds, Table, Control,
     EngineInv, SyncInv
<1>10. CASE CommitFinish
  BY <1>0, <1>10, CommitFinishEffect DEF ChainInv, EngineHolds, SyncHolds, Table, Control,
     EngineInv, SyncInv
<1>11. CASE SaveLatest("sync")
  BY <1>0, <1>11, SaveLatestSyncEffect DEF ChainInv, EngineHolds, SyncHolds, Table, Control,
     EngineInv, SyncInv
<1>12. CASE SyncSwapStatus
  BY <1>0, <1>12, SyncSwapStatusEffect DEF ChainInv, EngineHolds, SyncHolds, Table, Control,
     EngineInv, SyncInv
<1>13. CASE SyncFinish
  BY <1>0, <1>13, SyncFinishEffect DEF ChainInv, EngineHolds, SyncHolds, Table, Control, EngineInv,
     SyncInv
<1>14. CASE CommitPanics
  BY <1>0, <1>14, CommitPanicsEffect DEF ChainInv, EngineHolds, SyncHolds, Table, Control,
     EngineInv, SyncInv
<1>15. CASE CommitFinishPanics
  BY <1>0, <1>15, CommitFinishPanicsEffect DEF ChainInv, EngineHolds, SyncHolds, Table, Control,
     EngineInv, SyncInv
<1>16. CASE \E r \in 1 .. MaxHeight : NeedSyncPanics(r)
  BY <1>0, <1>16, NeedSyncPanicsEffect DEF ChainInv, EngineHolds, SyncHolds, Table, Control,
     EngineInv, SyncInv
<1>17. CASE SyncFinishPanics
  BY <1>0, <1>17, SyncFinishPanicsEffect DEF ChainInv, EngineHolds, SyncHolds, Table, Control,
     EngineInv, SyncInv
<1>18. CASE CommitFinishFails
  BY <1>0, <1>18, CommitFinishFailsEffect DEF ChainInv, EngineHolds, SyncHolds, Table, Control,
     EngineInv, SyncInv
<1>19. CASE Crash
  BY <1>0, <1>19, CrashEffect DEF ChainInv, EngineHolds, SyncHolds, Table, Control, EngineInv,
     SyncInv
<1>20. CASE Restart
  BY <1>0, <1>20, RestartEffect DEF ChainInv, EngineHolds, SyncHolds, Table, Control, EngineInv,
     SyncInv
<1>21. CASE CheckBlockFails \/ CommitMetadata \/ CommitFails \/ SyncSaveFails
  BY <1>1, <1>21 DEF CheckBlockFails, CommitMetadata, CommitFails, SyncSaveFails, SyncAborts, Return, durable,
     syncVars, env
<1> QED
  BY SMTT(60), <1>1, <1>2, <1>3, <1>4, <1>5, <1>6, <1>7, <1>8, <1>9, <1>10, <1>11, <1>12, <1>13, <1>14,
     <1>15, <1>16, <1>17, <1>18, <1>19, <1>20, <1>21 DEF Next, Engine, Sync, Panic, Fault

\* The latest block moves to a height whose rows are all written and whose parent was covered.
LEMMA StoredChainCompleteNext ==
    TypeOK /\ EngineInv /\ SyncInv /\ RowsInv /\ ChainInv /\ StoredChainComplete /\ [Next]_vars => StoredChainComplete'
<1> SUFFICES ASSUME TypeOK, EngineInv, SyncInv, RowsInv, ChainInv, StoredChainComplete, [Next]_vars PROVE StoredChainComplete'
  OBVIOUS
<1>0. /\ pc \in [Actor -> EnginePC \cup SyncPC]
      /\ num \in [Actor -> Int]
      /\ num["engine"] \in Int
      /\ num["sync"] \in Int
      /\ db \in [Table -> SUBSET Height]
      /\ latest_block \in Int
      /\ status.last_number \in Int
  BY Numbers
<1>1. CASE UNCHANGED <<latest_block, db, trie>>
  BY <1>1 DEF StoredChainComplete
<1>2. CASE Decide \/ HandleRichStatus \/ CheckBlock \/ CommitAgain \/ CommitStart
        \/ CommitSaveProof \/ CommitExecFails
  BY <1>1, <1>2 DEF vars, durable, syncVars, env, Decide, HandleRichStatus, CheckBlock,
     CommitAgain, CommitStart, CommitSaveProof, CommitExecFails, Return
<1>3. CASE CommitStatus \/ CommitMetadataFails \/ CommitFinish
        \/ (\E r \in 1 .. MaxHeight : NeedSync(r)) \/ SyncGivesUp \/ SyncStart \/ SyncRejects
  BY ZenonT(60), <1>1, <1>3 DEF vars, durable, syncVars, env, CommitStatus, CommitMetadataFails, Return,
     CommitFinish, Flushed, NeedSync, SyncGivesUp, SyncStart, SyncRejects, SyncAborts
<1>4. CASE SyncSaveProof \/ SyncFlush \/ SyncSwapStatus \/ SyncFinish \/ CommitPanics
        \/ CommitFinishPanics \/ (\E r \in 1 .. MaxHeight : NeedSyncPanics(r)) \/ SyncFinishPanics
  BY ZenonT(60), <1>1, <1>4 DEF vars, durable, syncVars, env, SyncSaveProof, SyncFlush, SyncSwapStatus,
     SyncFinish, Return, CommitPanics, Stop, CommitFinishPanics, NeedSyncPanics, SyncFinishPanics
<1>5. CASE CommitFinishFails \/ SyncFetchFails \/ Crash \/ Restart \/ UNCHANGED vars
  BY <1>1, <1>5 DEF vars, durable, syncVars, env, CommitFinishFails, Return, Flushed,
     SyncFetchFails, SyncAborts, Crash, Stop, Restart
<1>6. CASE SaveRow("engine")
  BY ZenonT(60), <1>6, SaveRowEngineEffect DEF StoredChainComplete, Table
<1>7. CASE SaveLatest("engine")
  <2>1. pc["engine"] = "latest" /\ latest_block' = num["engine"] /\ db' = db /\ trie' = trie
    BY <1>7 DEF SaveLatest
  <2>2. num["engine"] \in trie /\ \A t \in Table : num["engine"] \in db[t]
    BY <2>1 DEF RowsInv, Rows, Table
  <2>3. num["engine"] <= latest_block + 1
    BY <1>0, <2>1 DEF EngineInv, EngineHolds, ChainInv
  <2>4. /\ \A h \in 0 .. num["engine"] : h \in 0 .. latest_block \/ h = num["engine"]
        /\ \A h \in 1 .. num["engine"] : h \in 1 .. latest_block \/ h = num["engine"]
    BY <1>0, <2>3
  <2> QED
    BY ZenonT(60), <2>1, <2>2, <2>4 DEF StoredChainComplete, Table
<1>8. CASE SaveRow("sync")
  BY <1>8, SaveRowSyncEffect DEF StoredChainComplete, Table
<1>9. CASE SaveLatest("sync")
  <2>1. pc["sync"] = "latest" /\ latest_block' = num["sync"] /\ db' = db /\ trie' = trie
    BY <1>9 DEF SaveLatest
  <2>2. num["sync"] \in trie /\ \A t \in Table : num["sync"] \in db[t]
    BY <2>1 DEF RowsInv, Rows, Table
  <2>3. num["sync"] <= latest_block + 1
    BY <1>0, <2>1 DEF SyncInv
  <2>4. /\ \A h \in 0 .. num["sync"] : h \in 0 .. latest_block \/ h = num["sync"]
        /\ \A h \in 1 .. num["sync"] : h \in 1 .. latest_block \/ h = num["sync"]
    BY <1>0, <2>3
  <2> QED
    BY <2>1, <2>2, <2>4 DEF StoredChainComplete, Table
<1>10. CASE CheckBlockFails \/ CommitMetadata \/ CommitFails \/ SyncSaveFails
  BY <1>1, <1>10 DEF CheckBlockFails, CommitMetadata, CommitFails, SyncSaveFails, SyncAborts, Return, durable,
     syncVars, env
<1>11. CASE CommitExec
  BY <1>11, CommitExecEffect DEF StoredChainComplete
<1>12. CASE SyncFetch
  BY <1>12, SyncFetchEffect DEF StoredChainComplete
<1> QED
  BY SMTT(60), <1>1, <1>2, <1>3, <1>4, <1>5, <1>6, <1>7, <1>8, <1>9, <1>10, <1>11, <1>12, [Next]_vars DEF
     Next, Engine, Sync, Panic, Fault

\* The lock keeps the proofs of the two actors apart, and Overlord does not leave a height whose proof
\* is stored before its block is.
LEMMA ProofInvNext ==
    TypeOK /\ Control /\ EngineInv /\ SyncInv /\ ChainInv /\ ProofInv /\ [Next]_vars => ProofInv'
<1> SUFFICES ASSUME TypeOK, Control, EngineInv, SyncInv, ChainInv, ProofInv, [Next]_vars PROVE ProofInv'
  OBVIOUS
<1>0. /\ num["engine"] \in Int
      /\ num["sync"] \in Int
      /\ latest_block \in Int
      /\ latest_proof \in Int
      /\ decided \in Int
      /\ status.last_number \in Int
      /\ work.last_number \in Int
      /\ overlord.height \in Int
      /\ overlord = [height |-> overlord.height, checked |-> overlord.checked]
      /\ rich_status \in Int
  BY Numbers
<1>1. CASE UNCHANGED <<pc, num, latest_block, latest_proof, overlord, decided>>
  BY <1>1 DEF ProofInv, EngineHolds
<1>2. CASE CheckBlockFails \/ UNCHANGED vars
  BY <1>1, <1>2 DEF vars, durable, syncVars, env, CheckBlockFails
<1>3. CASE Decide
  BY <1>0, <1>3, DecideEffect DEF ProofInv, EngineHolds
<1>4. CASE HandleRichStatus
  BY <1>0, <1>4, HandleRichStatusEffect DEF ProofInv, EngineHolds, SyncHolds, Table, Control,
     EngineInv, SyncInv, ChainInv
<1>5. CASE CheckBlock
  BY <1>0, <1>5, CheckBlockEffect DEF ProofInv, EngineHolds, SyncHolds, Table, Control,
     EngineInv, SyncInv, ChainInv
<1>6. CASE CommitAgain
  BY <1>0, <1>6, CommitAgainEffect DEF ProofInv, EngineHolds, SyncHolds, Table, Control,
     EngineInv, SyncInv, ChainInv
<1>7. CASE CommitStart
  BY <1>0, <1>7, CommitStartEffect DEF ProofInv, EngineHolds, SyncHolds, Table, Control,
     EngineInv, SyncInv, ChainInv
<1>8. CASE CommitSaveProof
  BY <1>0, <1>8, CommitSaveProofEffect DEF ProofInv, EngineHolds, SyncHolds, Table, Control,
     EngineInv, SyncInv, ChainInv
<1>9. CASE CommitExec
  BY <1>0, <1>9, CommitExecEffect DEF ProofInv, EngineHolds, SyncHolds, Table, Control,
     EngineInv, SyncInv, ChainInv
<1>10. CASE CommitExecFails
  BY <1>0, <1>10, CommitExecFailsEffect DEF ProofInv, EngineHolds, SyncHolds, Table, Control,
     EngineInv, SyncInv, ChainInv
<1>11. CASE SaveRow("engine")
  BY <1>0, <1>11, SaveRowEngineEffect DEF ProofInv, EngineHolds, SyncHolds, Table, Control,
     EngineInv, SyncInv, ChainInv
<1>12. CASE SaveLatest("engine")
  BY <1>0, <1>12, SaveLatestEngineEffect DEF ProofInv, EngineHolds, SyncHolds, Table, Control,
     EngineInv, SyncInv, ChainInv
<1>13. CASE CommitMetadata
  BY <1>0, <1>13, CommitMetadataEffect DEF ProofInv, EngineHolds, SyncHolds, Table, Control,
     EngineInv, SyncInv, ChainInv
<1>14. CASE CommitMetadataFails
  BY <1>0, <1>14, CommitMetadataFailsEffect DEF ProofInv, EngineHolds, SyncHolds, Table, Control,
     EngineInv, SyncInv, ChainInv
<1>15. CASE CommitStatus
  BY <1>0, <1>15, CommitStatusEffect DEF ProofInv, EngineHolds, SyncHolds, Table, Control,
     EngineInv, SyncInv, ChainInv
<1>16. CASE CommitFinish
  BY <1>0, <1>16, CommitFinishEffect DEF ProofInv, EngineHolds, SyncHolds, Table, Control,
     EngineInv, SyncInv, ChainInv
<1>17. CASE \E r \in 1 .. MaxHeight : NeedSync(r)
  BY <1>0, <1>17, NeedSyncEffect DEF ProofInv, EngineHolds, SyncHolds, Table, Control,
     EngineInv, SyncInv, ChainInv
<1>18. CASE SyncGivesUp
  BY <1>0, <1>18, SyncGivesUpEffect DEF ProofInv, EngineHolds, SyncHolds, Table, Control,
     EngineInv, SyncInv, ChainInv
<1>19. CASE SyncStart
  BY <1>0, <1>19, SyncStartEffect DEF ProofInv, EngineHolds, SyncHolds, Table, Control,
     EngineInv, SyncInv, ChainInv
<1>20. CASE SyncFetch
  BY <1>0, <1>20, SyncFetchEffect DEF ProofInv, EngineHolds, SyncHolds, Table, Control,
     EngineInv, SyncInv, ChainInv
<1>21. CASE SyncRejects
  BY <1>0, <1>21, SyncRejectsEffect DEF ProofInv, EngineHolds, SyncHolds, Table, Control,
     EngineInv, SyncInv, ChainInv
<1>22. CASE SaveRow("sync")
  BY <1>0, <1>22, SaveRowSyncEffect DEF ProofInv, EngineHolds, SyncHolds, Table, Control,
     EngineInv, SyncInv, ChainInv
<1>23. CASE SyncSaveProof
  BY <1>0, <1>23, SyncSaveProofEffect DEF ProofInv, EngineHolds, SyncHolds, Table, Control,
     EngineInv, SyncInv, ChainInv
<1>24. CASE SaveLatest("sync")
  BY <1>0, <1>24, SaveLatestSyncEffect DEF ProofInv, EngineHolds, SyncHolds, Table, Control,
     EngineInv, SyncInv, ChainInv
<1>25. CASE SyncFlush
  BY <1>0, <1>25, SyncFlushEffect DEF ProofInv, EngineHolds, SyncHolds, Table, Control,
     EngineInv, SyncInv, ChainInv
<1>26. CASE SyncSwapStatus
  BY <1>0, <1>26, SyncSwapStatusEffect DEF ProofInv, EngineHolds, SyncHolds, Table, Control,
     EngineInv, SyncInv, ChainInv
<1>27. CASE SyncFinish
  BY <1>0, <1>27, SyncFinishEffect DEF ProofInv, EngineHolds, SyncHolds, Table, Control,
     EngineInv, SyncInv, ChainInv
<1>28. CASE CommitPanics
  BY <1>0, <1>28, CommitPanicsEffect DEF ProofInv, EngineHolds, SyncHolds, Table, Control,
     EngineInv, SyncInv, ChainInv
<1>29. CASE CommitFinishPanics
  BY <1>0, <1>29, CommitFinishPanicsEffect DEF ProofInv, EngineHolds, SyncHolds, Table, Control,
     EngineInv, SyncInv, ChainInv
<1>30. CASE \E r \in 1 .. MaxHeight : NeedSyncPanics(r)
  BY <1>0, <1>30, NeedSyncPanicsEffect DEF ProofInv, EngineHolds, SyncHolds, Table, Control,
     EngineInv, SyncInv, ChainInv
<1>31. CASE SyncFinishPanics
  BY <1>0, <1>31, SyncFinishPanicsEffect DEF ProofInv, EngineHolds, SyncHolds, Table, Control,
     EngineInv, SyncInv, ChainInv
<1>32. CASE CommitFails
  BY <1>0, <1>32, CommitFailsEffect DEF ProofInv, EngineHolds, SyncHolds, Table, Control,
     EngineInv, SyncInv, ChainInv
<1>33. CASE CommitFinishFails
  BY <1>0, <1>33, CommitFinishFailsEffect DEF ProofInv, EngineHolds, SyncHolds, Table, Control,
     EngineInv, SyncInv, ChainInv
<1>34. CASE SyncFetchFails
  BY <1>0, <1>34, SyncFetchFailsEffect DEF ProofInv, EngineHolds, SyncHolds, Table, Control,
     EngineInv, SyncInv, ChainInv
<1>35. CASE SyncSaveFails
  BY <1>0, <1>35, SyncSaveFailsEffect DEF ProofInv, EngineHolds, SyncHolds, Table, Control,
     EngineInv, SyncInv, ChainInv
<1>36. CASE Crash
  BY <1>0, <1>36, CrashEffect DEF ProofInv, EngineHolds, SyncHolds, Table, Control,
     EngineInv, SyncInv, ChainInv
<1>37. CASE Restart
  <2>1. ~running /\ UNCHANGED <<latest_block, latest_proof, decided>>
    BY <1>37, RestartEffect
  <2>2. pc["engine"] = "idle" /\ pc["sync"] = "idle"
    BY <2>1 DEF Control
  <2>3. pc'["engine"] = "idle" /\ pc'["sync"] = "idle"
    BY <2>2, <1>37, RestartEffect
  <2>4. latest_proof > latest_block => overlord' = overlord
    BY <1>0, <1>37 DEF Restart, ProofInv
  <2> QED
    BY <2>1, <2>3, <2>4 DEF ProofInv, EngineHolds
<1> QED
  BY SMTT(60), <1>1, <1>2, <1>3, <1>4, <1>5, <1>6, <1>7, <1>8, <1>9, <1>10, <1>11, <1>12, <1>13, <1>14,
     <1>15, <1>16, <1>17, <1>18, <1>19, <1>20, <1>21, <1>22, <1>23, <1>24, <1>25, <1>26, <1>27,
     <1>28, <1>29, <1>30, <1>31, <1>32, <1>33, <1>34, <1>35, <1>36, <1>37 DEF Next, Engine, Sync,
     Panic, Fault

-----------------------------------------------------------------------------
\* TypeOK is the four parts the lemmas above are about.
LEMMA TypeParts == DurableTypes /\ NodeTypes /\ ActorTypes /\ RestTypes <=> TypeOK
  BY DEF TypeOK, DurableTypes, NodeTypes, ActorTypes, RestTypes

\* The node starts from a stored genesis with both actors idle.
LEMMA InitInv == Init => IInv
<1> SUFFICES ASSUME Init PROVE IInv
  OBVIOUS
<1>1. DurableTypes
  BY NodeAssumption DEF Init, DurableTypes, Height, Table
<1>2. NodeTypes
  <2>1. status \in Status
    BY NodeAssumption, StatusType DEF Init, Height
  <2>2. running \in BOOLEAN
    BY DEF Init
  <2> QED
    BY <2>1, <2>2, NodeAssumption DEF Init, NodeTypes, Height
<1>3. ActorTypes
  BY NodeAssumption DEF Init, ActorTypes, Actor, EnginePC, SyncPC, Height
<1>4. RestTypes
  <2>1. sync_status \in BOOLEAN
    BY ZenonT(60) DEF Init
  <2> QED
    BY <2>1, NodeAssumption, NoWorkType DEF Init, RestTypes, Height
<1>5. Control /\ EngineInv /\ SyncInv /\ RowsInv /\ ProofInv
  <2>1. pc["engine"] = "idle" /\ pc["sync"] = "idle" /\ running /\ latest_proof = 0 /\ latest_block = 0
    BY DEF Init, Actor
  <2>2. ProofInv
    BY <2>1 DEF ProofInv, EngineHolds
  <2>3. Control
    BY <2>1 DEF Control, EngineHolds, SyncHolds
  <2> QED
    BY <2>1, <2>2, <2>3 DEF EngineInv, SyncInv, RowsInv, Rows, EngineHolds, SyncHolds, Table
<1>6. ChainInv /\ StoredChainComplete
  BY DEF Init, ChainInv, StoredChainComplete, StatusOf, Table
<1> QED
  BY <1>1, <1>2, <1>3, <1>4, <1>5, <1>6, TypeParts DEF IInv

\* The invariant is inductive.
LEMMA NextInv == IInv /\ [Next]_vars => IInv'
<1> SUFFICES ASSUME IInv, [Next]_vars PROVE IInv'
  OBVIOUS
<1>1. TypeOK /\ Control /\ EngineInv /\ SyncInv /\ RowsInv /\ ChainInv /\ StoredChainComplete /\ ProofInv
  BY DEF IInv
<1>2. DurableTypes' /\ NodeTypes' /\ ActorTypes' /\ RestTypes'
  BY <1>1, DurableTypesNext, NodeTypesNext, ActorTypesNext, RestTypesNext
<1>3. TypeOK'
  BY <1>2 DEF TypeOK, DurableTypes, NodeTypes, ActorTypes, RestTypes
<1>4. Control' /\ EngineInv' /\ SyncInv'
  BY <1>1, ControlNext, EngineInvNext, SyncInvNext
<1>5. RowsInv' /\ ChainInv' /\ StoredChainComplete' /\ ProofInv'
  BY <1>1, RowsInvNext, ChainInvNext, StoredChainCompleteNext, ProofInvNext
<1> QED
  BY <1>3, <1>4, <1>5 DEF IInv

\* Every behaviour keeps the invariant.
LEMMA Invariance == Spec => []IInv
  BY InitInv, NextInv, PTL DEF Spec

\* No commit, synchronization, crash or restart takes a variable of the node out of its type.
THEOREM NodeTypesHold == Spec => []TypeOK
<1>1. IInv => TypeOK
  BY DEF IInv
<1> QED
  BY <1>1, Invariance, PTL

\* Every block up to the latest one has its state and its rows (the receipts from block 1 on),
\* wherever engine.rs update_status or synchronization.rs save_chain_data was interrupted.
THEOREM ChainComplete == Spec => []StoredChainComplete
<1>1. IInv => StoredChainComplete
  BY DEF IInv
<1> QED
  BY <1>1, Invariance, PTL

\* A stored proof that is ahead of the chain is the one of the block that Overlord has checked and
\* will commit again, wherever engine.rs commit stopped after save_proof.
THEOREM ProofAhead == Spec => []ProofAheadIsCommittable
<1>1. IInv => ProofAheadIsCommittable
  <2> SUFFICES ASSUME IInv, latest_proof > latest_block
               PROVE  /\ latest_proof = latest_block + 1
                      /\ latest_proof <= decided
                      /\ overlord = [height |-> latest_proof, checked |-> TRUE]
    BY DEF ProofAheadIsCommittable
  <2>1. latest_proof = latest_block + 1 /\ latest_proof <= decided /\ overlord.height = latest_proof /\ overlord.checked
    BY DEF IInv, ProofInv
  <2>2. overlord \in [height : 0 .. MaxHeight + 1, checked : BOOLEAN]
    BY DEF IInv, TypeOK
  <2>3. overlord.checked = TRUE
    BY <2>1, <2>2
  <2>4. overlord = [height |-> overlord.height, checked |-> overlord.checked]
    BY <2>2
  <2> QED
    BY <2>1, <2>3, <2>4
<1> QED
  BY <1>1, Invariance, PTL

\* engine.rs commit finds the transactions of the block it commits.
THEOREM CommitHasTxs == Spec => []CommitFindsTxs
<1>1. IInv => CommitFindsTxs
  BY DEF IInv, EngineInv, CommitFindsTxs, TxsFound
<1> QED
  BY <1>1, Invariance, PTL

\* Overlord, and the RichStatus it is sent, is at most one height past the stored chain.
THEOREM OverlordFollows == Spec => []OverlordFollowsChain
<1>1. IInv => OverlordFollowsChain
  BY DEF IInv, TypeOK, Status, Height, ChainInv, OverlordFollowsChain
<1> QED
  BY <1>1, Invariance, PTL

\* A step of one actor, a panic, a crash or a restart never moves the status back.
THEOREM StatusGrows == Spec => StatusNeverRegresses
<1>1. IInv /\ [Next]_vars => [status'.last_number >= status.last_number]_vars
  <2> SUFFICES ASSUME IInv, [Next]_vars PROVE status'.last_number >= status.last_number
    OBVIOUS
  <2>0. /\ status.last_number \in Int
        /\ work.last_number \in Int
        /\ num["engine"] \in Int
        /\ latest_block \in Int
    BY Numbers DEF IInv
  <2>h. TypeOK /\ Control /\ EngineInv /\ SyncInv /\ ChainInv
    BY DEF IInv
  <2>1. CASE UNCHANGED <<status>>
    BY <2>0, <2>1
  <2>2. CASE Decide \/ HandleRichStatus \/ CheckBlock \/ CommitAgain \/ CommitStart
          \/ CommitSaveProof \/ CommitExec \/ CommitExecFails
    BY <2>1, <2>2 DEF vars, durable, syncVars, env, Decide, HandleRichStatus, CheckBlock,
       CommitAgain, CommitStart, CommitSaveProof, CommitExec, CommitExecFails, Return
  <2>3. CASE SaveRow("engine") \/ SaveLatest("engine") \/ CommitMetadataFails \/ CommitFinish
          \/ (\E r \in 1 .. MaxHeight : NeedSync(r)) \/ SyncGivesUp \/ SyncStart \/ SyncFetch
    BY ZenonT(60), <2>1, <2>3 DEF vars, durable, syncVars, env, SaveRow, SaveLatest, CommitMetadataFails, Return,
       CommitFinish, Flushed, NeedSync, SyncGivesUp, SyncStart, SyncFetch
  <2>4. CASE SyncRejects \/ SaveRow("sync") \/ SyncSaveProof \/ SaveLatest("sync") \/ SyncFlush
          \/ SyncFinish \/ CommitPanics \/ CommitFinishPanics
    BY ZenonT(60), <2>1, <2>4 DEF vars, durable, syncVars, env, SyncRejects, SyncAborts, SaveRow, SyncSaveProof,
       SaveLatest, SyncFlush, SyncFinish, Return, CommitPanics, Stop, CommitFinishPanics
  <2>5. CASE (\E r \in 1 .. MaxHeight : NeedSyncPanics(r)) \/ SyncFinishPanics \/ CommitFinishFails
          \/ SyncFetchFails \/ Crash \/ UNCHANGED vars
    BY ZenonT(60), <2>1, <2>5 DEF vars, durable, syncVars, env, NeedSyncPanics, Stop, SyncFinishPanics,
       CommitFinishFails, Return, Flushed, SyncFetchFails, SyncAborts, Crash
  <2>6. CASE CommitStatus
    BY <2>0, <2>6, CommitStatusEffect, <2>h DEF EngineHolds, SyncHolds, Control, EngineInv, SyncInv,
       ChainInv
  <2>7. CASE SyncSwapStatus
    BY <2>0, <2>7, SyncSwapStatusEffect, <2>h DEF EngineHolds, SyncHolds, Control, EngineInv,
       SyncInv, ChainInv
  <2>8. CASE Restart
    BY <2>0, <2>8, RestartEffect, <2>h DEF EngineHolds, SyncHolds, Control, EngineInv, SyncInv,
       ChainInv
  <2>9. CASE CheckBlockFails \/ CommitMetadata \/ CommitFails \/ SyncSaveFails
    BY <2>1, <2>9 DEF CheckBlockFails, CommitMetadata, CommitFails, SyncSaveFails, SyncAborts
  <2> QED
    BY SMTT(60), <2>1, <2>2, <2>3, <2>4, <2>5, <2>6, <2>7, <2>8, <2>9,
       [Next]_vars DEF Next, Engine, Sync, Panic, Fault
<1> QED
  BY <1>1, Invariance, PTL DEF Spec, StatusNeverRegresses
=============================================================================
