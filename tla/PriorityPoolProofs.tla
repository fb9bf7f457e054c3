------------------------ MODULE PriorityPoolProofs --------------------------
(***************************************************************************)
(* Proofs about PriorityPool, for every set of workers, transactions and   *)
(* pointers and every pool size: its types, its queues and its buckets of  *)
(* system script transactions.                                             *)
(***************************************************************************)
EXTENDS PriorityPoolQueues

(* The pool's structures keep their types whatever the tasks do. *)
THEOREM PoolTypes == Spec => []TypeOK
<1>1. Control => TypeOK
  BY DEF Control
<1> QED
  BY <1>1, ControlInit, ControlNext, PTL DEF Spec

(* pop_all_item never unwraps the pop of an empty queue: its three callers exclude each other. *)
THEOREM PopsSucceed == Spec => []PopNeverUnwrapsNone
<1>1. Queues => PopNeverUnwrapsNone
  BY DEF Queues
<1> QED
  BY <1>1, ControlInit, ControlNext, QueuesInit, QueuesNext, PTL DEF Spec

(* Whatever is queued can be fetched from tx_map or is being inserted. *)
THEOREM QueuedFetchable == Spec => []QueuedIsMapped
<1>1. Queues => QueuedIsMapped
  BY DEF Queues
<1> QED
  BY <1>1, ControlInit, ControlNext, QueuesInit, QueuesNext, PTL DEF Spec

(* A (sender, nonce) has at most one eligible pointer once insertions have occupied it. *)
THEOREM SlotHasOneLive == Spec => []OneLivePerSlot
<1>1. Queues => OneLivePerSlot
  BY DEF Queues
<1> QED
  BY <1>1, ControlInit, ControlNext, QueuesInit, QueuesNext, PTL DEF Spec

-----------------------------------------------------------------------------
(* A bucket only holds indexed transactions with its payload, an insertion indexes before it   *)
(* fills the bucket, and a selection lives only while its packager holds flush_lock.           *)
Buckets ==
    /\ \A d \in Data : \A h \in tx_buckets[d] : h \in hash_data_map /\ DataOf[h] = d
    /\ \A w \in Worker : pc[w] = "sys_bucket" => arg[w] \in hash_data_map
    /\ \A w \in Worker : sys_packed[w] # {} => pc[w] \in {"pkg_heap", "pkg_pop", "pkg_scan"}
    /\ SysPackagedIsFetchable

(* A new pool has empty buckets. *)
LEMMA BucketsInit == Init => Buckets
BY SMTT(60) DEF Init, Buckets, SysPackagedIsFetchable, Proc

(* Every step keeps Buckets: the index is filled before the bucket and emptied with it. *)
LEMMA BucketsNext == Control /\ Buckets /\ [Next]_vars => Buckets'
<1> SUFFICES ASSUME Control, Buckets, [Next]_vars PROVE Buckets'
  OBVIOUS
<1>0. /\ pc \in [Proc -> PC] /\ Worker \subseteq Proc /\ Mover \in Proc /\ Mover \notin Worker
      /\ DOMAIN pc = Proc
      /\ arg \in [Worker -> Tx \cup SysTx \cup {NoTx}]
      /\ sys_packed \in [Worker -> SUBSET SysTx]
      /\ tx_buckets \in [Data -> SUBSET SysTx]
      /\ DataOf \in [SysTx -> Data]
      /\ Locals /\ Locks
  BY PoolAssumption DEF Control, TypeOK, Proc
<1> USE <1>0 DEF queues, sysVars, pkgVars, flushVars, Buckets, SysPackagedIsFetchable, sys_contains
<1>1. ASSUME NEW w \in Worker, NEW h \in SysTx, InsertSysHash(w, h) PROVE Buckets'
  BY <1>1 DEF InsertSysHash
<1>2. ASSUME NEW w \in Worker, InsertSysBucket(w) PROVE Buckets'
  <2>1. arg[w] \in SysTx /\ DataOf[arg[w]] \in Data /\ arg[w] \in hash_data_map
    BY <1>2 DEF InsertSysBucket, Locals
  <2>2. \A d \in Data : \A h \in tx_buckets'[d] : h \in tx_buckets[d] \/ (h = arg[w] /\ d = DataOf[arg[w]])
    BY <1>2, <2>1 DEF InsertSysBucket
  <2>3. \A d \in Data : tx_buckets[d] \subseteq tx_buckets'[d]
    BY <1>2, <2>1 DEF InsertSysBucket
  <2>4. \A v \in Worker : \A h \in sys_packed[v] : DataOf[h] \in Data
    OBVIOUS
  <2> QED
    BY <1>2, <2>1, <2>2, <2>3, <2>4 DEF InsertSysBucket
<1>3. ASSUME NEW w \in Worker, PackageSys(w) PROVE Buckets'
  <2>1. \A d \in Data : tx_buckets[d] # {} => FirstOf(tx_buckets[d]) \in tx_buckets[d]
    BY BucketFirst
  <2>2. \A h \in sys_packed'[w] : h \in hash_data_map /\ h \in tx_buckets[DataOf[h]]
    BY <1>3, <2>1 DEF PackageSys
  <2> QED
    BY <1>3, <2>2 DEF PackageSys
<1>4. ASSUME NEW w \in Worker, FlushClear(w) PROVE Buckets'
  <2>1. \A v \in Worker : sys_packed[v] = {} /\ pc[v] # "sys_bucket"
    BY <1>4 DEF FlushClear, Locks, WritePC, ReadPC
  <2> DEFINE hit == flushing \cap hash_data_map
  <2>2. /\ hash_data_map' = hash_data_map \ hit
        /\ tx_buckets' = [d \in Data |-> IF \E h \in hit : DataOf[h] = d THEN {} ELSE tx_buckets[d]]
    BY <1>4 DEF FlushClear
  <2>3. ASSUME NEW d \in Data, NEW h \in tx_buckets'[d]
        PROVE  h \in hash_data_map' /\ DataOf[h] = d
    BY <2>2, <2>3
  <2> QED
    BY <1>4, <2>1, <2>3 DEF FlushClear
<1>5. ASSUME NEW w \in Worker, PackageReturn(w) PROVE Buckets'
  BY <1>5 DEF PackageReturn
<1>6. ASSUME UNCHANGED <<hash_data_map, tx_buckets, sys_packed>>,
             \A v \in Worker : pc'[v] = "sys_bucket" => pc[v] = "sys_bucket" /\ arg'[v] = arg[v],
             \A v \in Worker : pc[v] \in {"pkg_heap", "pkg_pop", "pkg_scan"}
                                  => pc'[v] \in {"pkg_heap", "pkg_pop", "pkg_scan"}
      PROVE  Buckets'
  BY <1>6
<1>7. ASSUME NEW w \in Worker,
             \/ \E t \in Tx : InsertCheck(w, t)
             \/ InsertPush(w) \/ InsertOccupy(w) \/ InsertMap(w)
             \/ PackageLock(w) \/ PopOne(w) \/ PackageScan(w) \/ PackageTake(w)
             \/ \E hashes \in SUBSET (Tx \cup SysTx), kept \in SUBSET Tx : FlushResidual(w, hashes, kept)
             \/ FlushRequeue(w) \/ FlushDone(w)
      PROVE  Buckets'
  <2> USE <1>6
  <2> HIDE DEF Buckets
  <2>1. CASE \E t \in Tx : InsertCheck(w, t)
    BY <2>1 DEF InsertCheck
  <2>2. CASE InsertPush(w)
    BY <2>2 DEF InsertPush
  <2>3. CASE InsertOccupy(w)
    BY <2>3 DEF InsertOccupy
  <2>4. CASE InsertMap(w)
    BY <2>4 DEF InsertMap
  <2>5. CASE PackageLock(w)
    BY <2>5 DEF PackageLock, LockHeap
  <2>6. CASE PopOne(w) \/ PackageScan(w) \/ PackageTake(w)
    BY <2>6 DEF PopOne, PackageScan, PackageTake
  <2>7. CASE \E hashes \in SUBSET (Tx \cup SysTx), kept \in SUBSET Tx : FlushResidual(w, hashes, kept)
    BY <2>7 DEF FlushResidual
  <2>8. CASE FlushRequeue(w) \/ FlushDone(w)
    BY <2>8 DEF FlushRequeue, FlushDone
  <2> QED
    BY <1>7, <2>1, <2>2, <2>3, <2>4, <2>5, <2>6, <2>7, <2>8
<1>8. CASE MoverSees \/ MoverRead \/ MoverLock \/ MoverDone
  <2> HIDE DEF Buckets
  <2>1. \A v \in Worker : pc'[v] = pc[v]
    BY <1>8 DEF MoverSees, MoverRead, MoverLock, LockHeap, MoverDone
  <2> QED
    BY <1>6, <1>8, <2>1 DEF MoverSees, MoverRead, MoverLock, MoverDone
<1>9. CASE PopOne(Mover)
  BY <1>6, <1>9 DEF PopOne
<1>10. CASE UNCHANGED vars
  BY <1>10 DEF vars
<1> QED
  BY <1>1, <1>2, <1>3, <1>4, <1>5, <1>7, <1>8, <1>9, <1>10
     DEF Next, InsertStep, PackageStep, FlushStep, MoverStep

(* A packaged system script transaction is found by get_by_hash while the packager runs. *)
THEOREM SysFetchable == Spec => []SysPackagedIsFetchable
<1>1. Buckets => SysPackagedIsFetchable
  BY DEF Buckets
<1> QED
  BY <1>1, ControlInit, ControlNext, BucketsInit, BucketsNext, PTL DEF Spec
=============================================================================
