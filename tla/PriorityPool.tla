---------------------------- MODULE PriorityPool ----------------------------
(***************************************************************************)
(* core/mempool/src/pool.rs: the transaction pool of a node.               *)
(*                                                                         *)
(* Workers are the tasks that call the pool (API and gossip insertions,    *)
(* the proposer's package, the flush after a commit); the mover is the     *)
(* background task that drains the lock-free co_queue into the heap every  *)
(* 50 ms.  A step is one access to a shared structure.  flush_lock (an     *)
(* RwLock) and the mutex of real_queue are held between steps: who holds   *)
(* them is read off the program counters.                                  *)
(*                                                                         *)
(* A TxPtr is an Arc shared by the queues and by occupied_nonce.  It is    *)
(* modelled by <<transaction, copy>>: Copy bounds how many pointers to one *)
(* transaction exist at the same time.                                     *)
(***************************************************************************)
EXTENDS Naturals, FiniteSets, Sequences, Functions

CONSTANTS
    Worker,      \* tasks that call the pool
    Mover,       \* the background task
    Tx,          \* transactions that go through insert()
    SysTx,       \* system script transactions
    Sender,      \* addresses
    Nonce,       \* nonces
    SenderOf,    \* Tx -> Sender
    NonceOf,     \* Tx -> Nonce
    Data,        \* payloads of system script transactions
    DataOf,      \* SysTx -> Data
    HashRank,    \* SysTx -> Nat: the order of the hashes in a BTreeMap
    Copy,        \* bound: live pointers to one transaction
    Size,        \* config.mempool.pool_size
    Limit,       \* tx_num_limit of package
    Resubmit,    \* is a transaction that is in the pool inserted again?
    NoPtr,       \* absent entry of occupied_nonce
    NoTx         \* a worker that holds no transaction

ASSUME PoolAssumption ==
    /\ Mover \notin Worker
    /\ SenderOf \in [Tx -> Sender]
    /\ NonceOf \in [Tx -> Nonce]
    /\ DataOf \in [SysTx -> Data]
    /\ HashRank \in [SysTx -> Nat]
    /\ Size \in Nat \ {0}
    /\ Limit \in Nat
    /\ Resubmit \in BOOLEAN
    /\ NoTx \notin Tx \cup SysTx
    /\ NoPtr \notin Tx \X Copy

VARIABLES
    co_queue,        \* ArrayQueue<TxPtr> of capacity Size
    real_queue,      \* the heap: its iteration order is not modelled
    occupied_nonce,  \* (sender, nonce) -> TxPtr
    dropped,         \* pointers whose is_dropped flag is set
    tx_map,          \* hash -> SignedTransaction: the transactions known
    hash_data_map,   \* system script transactions indexed by hash
    tx_buckets,      \* payload -> system script transactions
    pc,              \* where each worker and the mover is
    arg,             \* the transaction a worker inserts
    ptr,             \* the pointer a worker has made for it
    to_pop,          \* pops each drainer of co_queue still has to make
    flushing,        \* hashes of system script transactions being flushed
    residual,        \* transactions the flush still has to queue again
    to_scan,         \* heap entries the packager has not looked at yet
    packed,          \* heap entries it has selected
    sys_packed       \* system script transactions each worker has selected

queues == <<co_queue, real_queue>>
sysVars == <<hash_data_map, tx_buckets>>
pkgVars == <<to_scan, packed, sys_packed>>
flushVars == <<flushing, residual>>
vars == <<co_queue, real_queue, occupied_nonce, dropped, tx_map, hash_data_map,
          tx_buckets, pc, arg, ptr, to_pop, flushing, residual, to_scan, packed, sys_packed>>

Proc == Worker \cup {Mover}
Ptr == Tx \X Copy
TxOf(p) == p[1]
Slot == Sender \X Nonce
SlotOf(t) == <<SenderOf[t], NonceOf[t]>>

ReadPC == {"ins_occupy", "ins_map", "sys_bucket", "pkg_heap", "pkg_pop", "pkg_scan",
           "mv_heap", "mv_pop"}
WritePC == {"fl_clear", "fl_requeue"}
HeapPC == {"pkg_pop", "pkg_scan", "mv_pop", "fl_requeue"}

\* flush_lock.read() and flush_lock.write() are granted, real_queue.lock() is granted
ReadGranted == \A q \in Proc : pc[q] \notin WritePC
WriteGranted == \A q \in Proc : pc[q] \notin WritePC \cup ReadPC
HeapGranted == \A q \in Proc : pc[q] \notin HeapPC

Queued == Range(co_queue) \cup real_queue
Occupants == {occupied_nonce[s] : s \in Slot} \ {NoPtr}
Referenced == Queued \cup Occupants \cup {ptr[w] : w \in Worker}
Fresh(t) == {p \in {t} \X Copy : p \notin Referenced}

\* Bound: an insertion starts only when a pointer will be left for it and for a flush.
Waiting(t) == {w \in Worker : pc[w] = "ins_push" /\ arg[w] = t}
CopyLeft(t) ==
    /\ Cardinality(Waiting(t)) < Cardinality(Fresh(t))
    /\ Cardinality(Waiting(t)) + 1 < Cardinality(Copy)

\* The observers that take no step of their own
reach_limit == Cardinality(tx_map) > Size
sys_contains(h) == h \in hash_data_map /\ h \in tx_buckets[DataOf[h]]

Init ==
    /\ co_queue = <<>>
    /\ real_queue = {}
    /\ occupied_nonce = [s \in Slot |-> NoPtr]
    /\ dropped = {}
    /\ tx_map = {}
    /\ hash_data_map = {}
    /\ tx_buckets = [d \in Data |-> {}]
    /\ pc = [p \in Proc |-> "idle"]
    /\ arg = [w \in Worker |-> NoTx]
    /\ ptr = [w \in Worker |-> NoPtr]
    /\ to_pop = [p \in Proc |-> 0]
    /\ flushing = {}
    /\ residual = {}
    /\ to_scan = {}
    /\ packed = {}
    /\ sys_packed = [w \in Worker |-> {}]

-----------------------------------------------------------------------------
(***************************************************************************)
(* insert: the limit is checked before flush_lock is taken; a full         *)
(* co_queue refuses the pointer and the result of push is ignored.         *)
(***************************************************************************)
\* Variant: insert does not check the limit
InsertCheckNoLimit(w, t) ==
    /\ pc[w] = "idle"
    /\ CopyLeft(t)
    /\ Resubmit \/ (t \notin tx_map /\ \A v \in Worker : arg[v] # t)
    /\ pc' = [pc EXCEPT ![w] = "ins_push"]
    /\ arg' = [arg EXCEPT ![w] = t]
    /\ UNCHANGED <<queues, occupied_nonce, dropped, tx_map, sysVars, ptr, to_pop, flushVars, pkgVars>>

InsertCheck(w, t) ==
    /\ pc[w] = "idle"
    /\ ~reach_limit
    /\ CopyLeft(t)
    /\ Resubmit \/ (t \notin tx_map /\ \A v \in Worker : arg[v] # t)
    /\ pc' = [pc EXCEPT ![w] = "ins_push"]
    /\ arg' = [arg EXCEPT ![w] = t]
    /\ UNCHANGED <<queues, occupied_nonce, dropped, tx_map, sysVars, ptr, to_pop, flushVars, pkgVars>>

\* Variant: the queue refuses one pointer too early
PushShort(p) == co_queue' = IF Len(co_queue) + 1 < Size THEN Append(co_queue, p) ELSE co_queue

Push(p) == co_queue' = IF Len(co_queue) < Size THEN Append(co_queue, p) ELSE co_queue

InsertPush(w) ==
    /\ pc[w] = "ins_push"
    /\ ReadGranted
    /\ \E p \in Fresh(arg[w]) :
          /\ Push(p)
          /\ ptr' = [ptr EXCEPT ![w] = p]
          /\ dropped' = dropped \ {p}
    /\ pc' = [pc EXCEPT ![w] = "ins_occupy"]
    /\ UNCHANGED <<real_queue, occupied_nonce, tx_map, sysVars, arg, to_pop, flushVars, pkgVars>>

\* Variant: the displaced pointer is not marked
occupy_nonce_keep(p, drop) ==
    /\ occupied_nonce' = [occupied_nonce EXCEPT ![SlotOf(TxOf(p))] = p]
    /\ dropped' = drop

\* The pointer takes the (sender, nonce) of its transaction; the one it displaces is dropped.
occupy_nonce(p, drop) ==
    LET slot == SlotOf(TxOf(p))
        old  == occupied_nonce[slot]
    IN  /\ occupied_nonce' = [occupied_nonce EXCEPT ![slot] = p]
        /\ dropped' = (drop \cup {old}) \ {NoPtr}

InsertOccupy(w) ==
    /\ pc[w] = "ins_occupy"
    /\ occupy_nonce(ptr[w], dropped)
    /\ pc' = [pc EXCEPT ![w] = "ins_map"]
    /\ UNCHANGED <<queues, tx_map, sysVars, arg, ptr, to_pop, flushVars, pkgVars>>

InsertMap(w) ==
    /\ pc[w] = "ins_map"
    /\ tx_map' = tx_map \cup {arg[w]}
    /\ pc' = [pc EXCEPT ![w] = "idle"]
    /\ arg' = [arg EXCEPT ![w] = NoTx]
    /\ ptr' = [ptr EXCEPT ![w] = NoPtr]
    /\ UNCHANGED <<queues, occupied_nonce, dropped, sysVars, to_pop, flushVars, pkgVars>>

(* insert_system_script_tx: the hash index first, the bucket second. *)
InsertSysHash(w, h) ==
    /\ pc[w] = "idle"
    /\ ReadGranted
    /\ hash_data_map' = hash_data_map \cup {h}
    /\ pc' = [pc EXCEPT ![w] = "sys_bucket"]
    /\ arg' = [arg EXCEPT ![w] = h]
    /\ UNCHANGED <<queues, occupied_nonce, dropped, tx_map, tx_buckets, ptr, to_pop, flushVars, pkgVars>>

InsertSysBucket(w) ==
    /\ pc[w] = "sys_bucket"
    /\ tx_buckets' = [tx_buckets EXCEPT ![DataOf[arg[w]]] = @ \cup {arg[w]}]
    /\ pc' = [pc EXCEPT ![w] = "idle"]
    /\ arg' = [arg EXCEPT ![w] = NoTx]
    /\ UNCHANGED <<queues, occupied_nonce, dropped, tx_map, hash_data_map, ptr, to_pop, flushVars, pkgVars>>

-----------------------------------------------------------------------------
(* package: the first transaction of every bucket, then the heap's live pointers. *)
FirstOf(bucket) == CHOOSE h \in bucket : \A g \in bucket : HashRank[h] <= HashRank[g]

PackageSys(w) ==
    /\ pc[w] = "idle"
    /\ ReadGranted
    /\ sys_packed' = [sys_packed EXCEPT ![w] = {FirstOf(tx_buckets[d]) : d \in {e \in Data : tx_buckets[e] # {}}}]
    /\ pc' = [pc EXCEPT ![w] = "pkg_heap"]
    /\ UNCHANGED <<queues, occupied_nonce, dropped, tx_map, sysVars, arg, ptr, to_pop, flushVars, to_scan, packed>>

\* real_queue.lock(), and the number of items pop_all_item will pop
LockHeap(p, next) ==
    /\ HeapGranted
    /\ to_pop' = [to_pop EXCEPT ![p] = Len(co_queue)]
    /\ pc' = [pc EXCEPT ![p] = next]

PackageLock(w) ==
    /\ pc[w] = "pkg_heap"
    /\ LockHeap(w, "pkg_pop")
    /\ UNCHANGED <<queues, occupied_nonce, dropped, tx_map, sysVars, arg, ptr, flushVars, pkgVars>>

\* Variant: the number of pops is not counted
PopOneUncounted(p) ==
    /\ pc[p] \in {"pkg_pop", "mv_pop"}
    /\ co_queue # <<>>
    /\ real_queue' = real_queue \cup {Head(co_queue)}
    /\ co_queue' = Tail(co_queue)
    /\ to_pop' = [to_pop EXCEPT ![p] = @ - 1]
    /\ UNCHANGED <<occupied_nonce, dropped, tx_map, sysVars, pc, arg, ptr, flushVars, pkgVars>>

\* one pop().unwrap() of pop_all_item and the push into the heap
PopOne(p) ==
    /\ pc[p] \in {"pkg_pop", "mv_pop"}
    /\ to_pop[p] > 0
    /\ co_queue # <<>>
    /\ real_queue' = real_queue \cup {Head(co_queue)}
    /\ co_queue' = Tail(co_queue)
    /\ to_pop' = [to_pop EXCEPT ![p] = @ - 1]
    /\ UNCHANGED <<occupied_nonce, dropped, tx_map, sysVars, pc, arg, ptr, flushVars, pkgVars>>

\* q.iter() over the heap, in any order
PackageScan(w) ==
    /\ pc[w] = "pkg_pop"
    /\ to_pop[w] = 0
    /\ to_scan' = real_queue
    /\ pc' = [pc EXCEPT ![w] = "pkg_scan"]
    /\ UNCHANGED <<queues, occupied_nonce, dropped, tx_map, sysVars, arg, ptr, to_pop, flushVars, packed, sys_packed>>

\* is_dropped is read without a lock: an insertion may set it between two reads
PackageTake(w) ==
    /\ pc[w] = "pkg_scan"
    /\ Cardinality(packed) < Limit
    /\ \E p \in to_scan :
          /\ to_scan' = to_scan \ {p}
          /\ packed' = packed \cup ({p} \ dropped)
    /\ UNCHANGED <<queues, occupied_nonce, dropped, tx_map, sysVars, pc, arg, ptr, to_pop, flushVars, sys_packed>>

PackageReturn(w) ==
    /\ pc[w] = "pkg_scan"
    /\ to_scan = {} \/ Cardinality(packed) = Limit
    /\ to_scan' = {}
    /\ packed' = {}
    /\ sys_packed' = [sys_packed EXCEPT ![w] = {}]
    /\ pc' = [pc EXCEPT ![w] = "idle"]
    /\ UNCHANGED <<queues, occupied_nonce, dropped, tx_map, sysVars, arg, ptr, to_pop, flushVars>>

-----------------------------------------------------------------------------
\* Variant: the mover waits for a full queue
MoverSeesFull ==
    /\ pc[Mover] = "idle"
    /\ Len(co_queue) = Size
    /\ pc' = [pc EXCEPT ![Mover] = "mv_read"]
    /\ UNCHANGED <<queues, occupied_nonce, dropped, tx_map, sysVars, arg, ptr, to_pop, flushVars, pkgVars>>

(* The background task of new(): is_empty is read before flush_lock is taken. *)
MoverSees ==
    /\ pc[Mover] = "idle"
    /\ co_queue # <<>>
    /\ pc' = [pc EXCEPT ![Mover] = "mv_read"]
    /\ UNCHANGED <<queues, occupied_nonce, dropped, tx_map, sysVars, arg, ptr, to_pop, flushVars, pkgVars>>

MoverRead ==
    /\ pc[Mover] = "mv_read"
    /\ ReadGranted
    /\ pc' = [pc EXCEPT ![Mover] = "mv_heap"]
    /\ UNCHANGED <<queues, occupied_nonce, dropped, tx_map, sysVars, arg, ptr, to_pop, flushVars, pkgVars>>

\* Variant: the mover drains co_queue without the heap's mutex
MoverLockFree ==
    /\ pc[Mover] = "mv_heap"
    /\ to_pop' = [to_pop EXCEPT ![Mover] = Len(co_queue)]
    /\ pc' = [pc EXCEPT ![Mover] = "mv_pop"]
    /\ UNCHANGED <<queues, occupied_nonce, dropped, tx_map, sysVars, arg, ptr, flushVars, pkgVars>>

MoverLock ==
    /\ pc[Mover] = "mv_heap"
    /\ LockHeap(Mover, "mv_pop")
    /\ UNCHANGED <<queues, occupied_nonce, dropped, tx_map, sysVars, arg, ptr, flushVars, pkgVars>>

MoverDone ==
    /\ pc[Mover] = "mv_pop"
    /\ to_pop[Mover] = 0
    /\ pc' = [pc EXCEPT ![Mover] = "idle"]
    /\ UNCHANGED <<queues, occupied_nonce, dropped, tx_map, sysVars, arg, ptr, to_pop, flushVars, pkgVars>>

-----------------------------------------------------------------------------
\* Variant: the flush drops the transactions of live pointers
get_residual_inverted(hashes, kept) ==
    ((tx_map \ hashes) \ {TxOf(p) : p \in Queued \ dropped}) \cap kept

(***************************************************************************)
(* flush(hashes, nonce_check) under flush_lock.write(): kept is the set of *)
(* transactions the caller's nonce_check accepts.                          *)
(***************************************************************************)
get_residual(hashes, kept) ==
    ((tx_map \ hashes) \ {TxOf(p) : p \in Queued \cap dropped}) \cap kept

\* Variants: the heap, or co_queue, is read and not drained
FlushResidualKeepsHeap(w, hashes, kept) ==
    /\ pc[w] = "idle"
    /\ WriteGranted
    /\ HeapGranted
    /\ tx_map' = get_residual(hashes, kept)
    /\ co_queue' = <<>>
    /\ real_queue' = real_queue
    /\ flushing' = hashes \cap SysTx
    /\ pc' = [pc EXCEPT ![w] = "fl_clear"]
    /\ UNCHANGED <<occupied_nonce, dropped, sysVars, arg, ptr, to_pop, residual, pkgVars>>

FlushResidualKeepsCoQueue(w, hashes, kept) ==
    /\ pc[w] = "idle"
    /\ WriteGranted
    /\ HeapGranted
    /\ tx_map' = get_residual(hashes, kept)
    /\ co_queue' = co_queue
    /\ real_queue' = {}
    /\ flushing' = hashes \cap SysTx
    /\ pc' = [pc EXCEPT ![w] = "fl_clear"]
    /\ UNCHANGED <<occupied_nonce, dropped, sysVars, arg, ptr, to_pop, residual, pkgVars>>

FlushResidual(w, hashes, kept) ==
    /\ pc[w] = "idle"
    /\ WriteGranted
    /\ HeapGranted
    /\ tx_map' = get_residual(hashes, kept)
    /\ co_queue' = <<>>
    /\ real_queue' = {}
    /\ flushing' = hashes \cap SysTx
    /\ pc' = [pc EXCEPT ![w] = "fl_clear"]
    /\ UNCHANGED <<occupied_nonce, dropped, sysVars, arg, ptr, to_pop, residual, pkgVars>>

\* Variant: the index is flushed and the bucket is not
FlushClearIndexOnly(w) ==
    /\ pc[w] = "fl_clear"
    /\ occupied_nonce' = [s \in Slot |-> NoPtr]
    /\ dropped' = {}
    /\ hash_data_map' = hash_data_map \ flushing
    /\ flushing' = {}
    /\ residual' = tx_map
    /\ pc' = [pc EXCEPT ![w] = "fl_requeue"]
    /\ UNCHANGED <<queues, tx_map, tx_buckets, arg, ptr, to_pop, pkgVars>>

\* occupied_nonce.clear() frees the last pointers; then the buckets are flushed
FlushClear(w) ==
    /\ pc[w] = "fl_clear"
    /\ occupied_nonce' = [s \in Slot |-> NoPtr]
    /\ dropped' = {}
    /\ LET hit == flushing \cap hash_data_map IN
          /\ hash_data_map' = hash_data_map \ hit
          /\ tx_buckets' = [d \in Data |-> IF \E h \in hit : DataOf[h] = d THEN {} ELSE tx_buckets[d]]
    /\ flushing' = {}
    /\ residual' = tx_map
    /\ pc' = [pc EXCEPT ![w] = "fl_requeue"]
    /\ UNCHANGED <<queues, tx_map, arg, ptr, to_pop, pkgVars>>

\* The residual comes in the order of a DashMap's iterator, that is in any order.
FlushRequeue(w) ==
    /\ pc[w] = "fl_requeue"
    /\ \E t \in residual : \E p \in Fresh(t) :
          /\ occupy_nonce(p, dropped \ {p})
          /\ real_queue' = real_queue \cup {p}
          /\ residual' = residual \ {t}
    /\ UNCHANGED <<co_queue, tx_map, sysVars, pc, arg, ptr, to_pop, flushing, pkgVars>>

FlushDone(w) ==
    /\ pc[w] = "fl_requeue"
    /\ residual = {}
    /\ pc' = [pc EXCEPT ![w] = "idle"]
    /\ UNCHANGED <<queues, occupied_nonce, dropped, tx_map, sysVars, arg, ptr, to_pop, flushVars, pkgVars>>

-----------------------------------------------------------------------------
InsertStep(w) ==
    \/ \E t \in Tx : InsertCheck(w, t)
    \/ InsertPush(w)
    \/ InsertOccupy(w)
    \/ InsertMap(w)
    \/ \E h \in SysTx : InsertSysHash(w, h)
    \/ InsertSysBucket(w)

PackageStep(w) ==
    \/ PackageSys(w)
    \/ PackageLock(w)
    \/ PopOne(w)
    \/ PackageScan(w)
    \/ PackageTake(w)
    \/ PackageReturn(w)

FlushStep(w) ==
    \/ \E hashes \in SUBSET (Tx \cup SysTx), kept \in SUBSET Tx : FlushResidual(w, hashes, kept)
    \/ FlushClear(w)
    \/ FlushRequeue(w)
    \/ FlushDone(w)

MoverStep == MoverSees \/ MoverRead \/ MoverLock \/ PopOne(Mover) \/ MoverDone

Next ==
    \/ \E w \in Worker : InsertStep(w) \/ PackageStep(w) \/ FlushStep(w)
    \/ MoverStep

Spec == Init /\ [][Next]_vars

(***************************************************************************)
(* parking_lot locks are eventually fair, so a task that keeps asking for  *)
(* one gets it: strong fairness on the steps that take a lock, weak        *)
(* fairness on the others.  No fairness on starting an operation: nobody   *)
(* has to insert, package or flush.                                        *)
(***************************************************************************)
WorkerFairness(w) ==
    /\ SF_vars(InsertPush(w)) /\ WF_vars(InsertOccupy(w)) /\ WF_vars(InsertMap(w))
    /\ WF_vars(InsertSysBucket(w))
    /\ SF_vars(PackageLock(w)) /\ WF_vars(PopOne(w)) /\ WF_vars(PackageScan(w))
    /\ WF_vars(PackageTake(w)) /\ WF_vars(PackageReturn(w))
    /\ WF_vars(FlushClear(w)) /\ WF_vars(FlushRequeue(w)) /\ WF_vars(FlushDone(w))

MoverFairness ==
    /\ WF_vars(MoverSees) /\ SF_vars(MoverRead) /\ SF_vars(MoverLock)
    /\ WF_vars(PopOne(Mover)) /\ WF_vars(MoverDone)

FairSpec == Spec /\ MoverFairness /\ \A w \in Worker : WorkerFairness(w)

-----------------------------------------------------------------------------
PC == {"idle", "ins_push", "ins_occupy", "ins_map", "sys_bucket", "pkg_heap", "pkg_pop", "pkg_scan",
       "mv_read", "mv_heap", "mv_pop", "fl_clear", "fl_requeue"}

\* Every structure of the pool, and every local of the tasks, holds what its Rust type allows.
TypeOK ==
    /\ co_queue \in Seq(Ptr)
    /\ real_queue \in SUBSET Ptr
    /\ occupied_nonce \in [Slot -> Ptr \cup {NoPtr}]
    /\ dropped \in SUBSET Ptr
    /\ tx_map \in SUBSET Tx
    /\ hash_data_map \in SUBSET SysTx
    /\ tx_buckets \in [Data -> SUBSET SysTx]
    /\ pc \in [Proc -> PC]
    /\ arg \in [Worker -> Tx \cup SysTx \cup {NoTx}]
    /\ ptr \in [Worker -> Ptr \cup {NoPtr}]
    /\ to_pop \in [Proc -> Nat]
    /\ flushing \in SUBSET SysTx
    /\ residual \in SUBSET Tx
    /\ to_scan \in SUBSET Ptr
    /\ packed \in SUBSET Ptr
    /\ sys_packed \in [Worker -> SUBSET SysTx]

\* pop_all_item reads the length of co_queue once and then unwraps that many pops.  The pops
\* never find the queue empty, although package, the mover and flush all drain it.
PopNeverUnwrapsNone ==
    \A p \in Proc : pc[p] \in {"pkg_pop", "mv_pop"} => to_pop[p] <= Len(co_queue)

InFlight(p) == \E w \in Worker : ptr[w] = p

\* A pointer that package can select (queued and not dropped) leads to a transaction that
\* get_by_hash finds, or to one whose insertion is still under way: insertion and flush never
\* leave a hash behind in the queues, which would make get_full_txs fail with MisMatch.
QueuedIsMapped ==
    \A p \in Queued : TxOf(p) \in tx_map \/ InFlight(p)

\* Two insertions for the same sender and nonce never both stay eligible: a pointer in a queue
\* that is not dropped is the occupant of its slot, or its insertion has not reached
\* occupy_nonce yet.
OneLivePerSlot ==
    \A p \in Queued \ dropped :
        \/ occupied_nonce[SlotOf(TxOf(p))] = p
        \/ \E w \in Worker : pc[w] = "ins_occupy" /\ ptr[w] = p

\* reach_limit is checked before flush_lock is taken and compares with >: the pool exceeds its
\* capacity by at most one transaction per concurrent inserter.
PoolSizeBound == Cardinality(tx_map) <= Size + Cardinality(Worker)

\* A hash that package took from a bucket is found by get_tx_by_hash for as long as the
\* packager holds flush_lock: the index is filled before the bucket.
SysPackagedIsFetchable ==
    \A w \in Worker : \A h \in sys_packed[w] : sys_contains(h)

\* An occupant that is in neither queue can never be packaged before the next flush.  The push
\* that co_queue refused silently only happens when the pool is beyond its limit.
UnpackageableOnlyBeyondLimit ==
    (Occupants \ Queued # {} /\ \A w \in Worker : pc[w] \notin WritePC) =>
        Cardinality(tx_map \cup {TxOf(ptr[w]) : w \in {v \in Worker : ptr[v] # NoPtr}}) > Size

\* flush keeps what it was not asked to remove: a transaction that holds its (sender, nonce),
\* is not among the flushed hashes and passes nonce_check is still in the pool afterwards.
RetainedTxSurvivesFlush ==
    [][\A w \in Worker : pc[w] = "idle" /\ pc'[w] = "fl_clear" =>
          \A hashes \in SUBSET ((tx_map \ tx_map') \cup SysTx), kept \in SUBSET tx_map :
              FlushResidual(w, hashes, kept) =>
                  \A t \in kept \ hashes :
                      (\E p \in Occupants : TxOf(p) = t) => t \in tx_map']_vars

\* The hashes package returns are distinct: a proposal that repeats one is refused by
\* check_dup_order_hashes on every validator.
PackageHasNoDuplicate ==
    \A w \in Worker : pc[w] = "pkg_scan" =>
        /\ \A p, q \in packed : TxOf(p) = TxOf(q) => p = q
        /\ \A p \in packed : TxOf(p) \notin sys_packed[w]

\* A pointer pushed into co_queue does not stay there: the mover (or a packager, or a flush)
\* takes it out, however insertions, packages and flushes interleave.
CoQueueDrains ==
    \A p \in Ptr : p \in Range(co_queue) ~> p \notin Range(co_queue)
=============================================================================
