------------------------ MODULE PriorityPoolQueues --------------------------
(***************************************************************************)
(* What every step of PriorityPool keeps about co_queue, the heap, tx_map  *)
(* and occupied_nonce.                                                     *)
(***************************************************************************)
EXTENDS PriorityPoolControl

(* While a flush has drained the queues and not yet requeued, they stay empty. *)
Drained == (\E w \in Worker : pc[w] = "fl_clear") => co_queue = <<>> /\ real_queue = {}

(* What a flush still has to queue again is in tx_map. *)
ResidualMapped == (\E w \in Worker : pc[w] = "fl_requeue") => residual \subseteq tx_map

Queues == Drained /\ ResidualMapped /\ PopNeverUnwrapsNone /\ QueuedIsMapped /\ OneLivePerSlot

(* occupy_nonce drops the pointer it displaces, so its slot keeps one live pointer. *)
LEMMA OccupyKeepsOneLive ==
    ASSUME Control, OneLivePerSlot, NEW p \in Ptr, NEW D \in SUBSET Ptr, dropped \ {p} \subseteq D,
           occupy_nonce(p, D), NEW q \in Queued, q # p, q \notin dropped',
           ~\E w \in Worker : pc[w] = "ins_occupy" /\ ptr[w] = q
    PROVE  occupied_nonce'[SlotOf(TxOf(q))] = q
<1>1. q \in Ptr /\ q # NoPtr /\ q \notin dropped
  BY QueuedIsPtr, PtrTx DEF Control, TypeOK, occupy_nonce
<1>2. occupied_nonce[SlotOf(TxOf(q))] = q
  BY <1>1 DEF OneLivePerSlot
<1>3. SlotOf(TxOf(q)) \in Slot /\ SlotOf(TxOf(p)) \in Slot
  BY <1>1, PtrTx, SlotOfTx
<1> QED
  BY <1>1, <1>2, <1>3 DEF Control, TypeOK, occupy_nonce

(* A new pool has empty queues. *)
LEMMA QueuesInit == Init => Queues
BY EmptyRange DEF Init, Queues, Drained, ResidualMapped, PopNeverUnwrapsNone, QueuedIsMapped,
   OneLivePerSlot, Queued, Proc

(* Every step keeps Queues.  Steps that leave the queues, tx_map, occupied_nonce and dropped   *)
(* alone come last.                                                                            *)
LEMMA QueuesNext == Control /\ Control' /\ Queues /\ [Next]_vars => Queues'
<1> SUFFICES ASSUME Control, Control', Queues, [Next]_vars PROVE Queues'
  OBVIOUS
<1>0. /\ pc \in [Proc -> PC] /\ pc' \in [Proc -> PC]
      /\ Worker \subseteq Proc /\ Mover \in Proc /\ Mover \notin Worker
      /\ arg \in [Worker -> Tx \cup SysTx \cup {NoTx}]
      /\ ptr \in [Worker -> Ptr \cup {NoPtr}]
      /\ occupied_nonce \in [Slot -> Ptr \cup {NoPtr}]
      /\ co_queue \in Seq(Ptr) /\ Len(co_queue) \in Nat
      /\ co_queue' \in Seq(Ptr) /\ Len(co_queue') \in Nat
      /\ real_queue \in SUBSET Ptr /\ dropped \in SUBSET Ptr
      /\ tx_map \in SUBSET Tx /\ residual \in SUBSET Tx
      /\ to_pop \in [Proc -> Nat] /\ to_pop' \in [Proc -> Nat]
      /\ TypeOK /\ Locals /\ Locks /\ Locks'
  BY PoolAssumption DEF Control, TypeOK, Proc
<1> USE <1>0 DEF queues, sysVars, pkgVars, flushVars
<1>1. ASSUME NEW w \in Worker, InsertPush(w) PROVE Queues'
  <2>1. PICK p \in Fresh(arg[w]) : Push(p) /\ ptr' = [ptr EXCEPT ![w] = p] /\ dropped' = dropped \ {p}
    BY ZenonT(60), <1>1 DEF InsertPush
  <2>2. p \in Ptr /\ TxOf(p) = arg[w]
    BY <1>1, <2>1, FreshIsPtr DEF InsertPush, Locals
  <2>3. Len(co_queue') >= Len(co_queue) /\ Queued' \subseteq Queued \cup {p}
    BY <1>1, <2>1, <2>2, PushType DEF InsertPush, Queued
  <2>4. Drained' /\ ResidualMapped'
    BY <1>1 DEF InsertPush, ReadGranted, WritePC, Queues, Drained, ResidualMapped
  <2>5. PopNeverUnwrapsNone'
    BY <1>1, <2>3 DEF InsertPush, Queues, PopNeverUnwrapsNone
  <2>6. ASSUME NEW q \in Queued' PROVE TxOf(q) \in tx_map' \/ InFlight(q)'
    <3>1. CASE q = p
      BY <2>1, <3>1 DEF InFlight
    <3>2. CASE q # p
      <4>1. q \in Queued /\ q # NoPtr /\ ptr[w] = NoPtr
        BY <1>1, <2>3, <3>2, QueuedIsPtr, PtrTx DEF InsertPush, Locals
      <4> QED
        BY <1>1, <2>1, <4>1 DEF InsertPush, Queues, QueuedIsMapped, InFlight
    <3> QED
      BY <3>1, <3>2
  <2>7. ASSUME NEW q \in Queued', q \notin dropped'
        PROVE  \/ occupied_nonce'[SlotOf(TxOf(q))] = q
               \/ \E v \in Worker : pc'[v] = "ins_occupy" /\ ptr'[v] = q
    <3>1. pc' = [pc EXCEPT ![w] = "ins_occupy"] /\ occupied_nonce' = occupied_nonce
      BY <1>1 DEF InsertPush
    <3>2. CASE q = p
      BY <2>1, <3>1, <3>2
    <3>3. CASE q # p
      <4>1. q \in Queued /\ q \notin dropped
        BY <2>1, <2>3, <2>7, <3>3
      <4>2. \/ occupied_nonce[SlotOf(TxOf(q))] = q
            \/ \E v \in Worker : pc[v] = "ins_occupy" /\ ptr[v] = q
        BY <4>1 DEF Queues, OneLivePerSlot
      <4> QED
        BY <1>1, <2>1, <3>1, <4>2 DEF InsertPush
    <3> QED
      BY <3>2, <3>3
  <2> QED
    BY <2>4, <2>5, <2>6, <2>7 DEF Queues, QueuedIsMapped, OneLivePerSlot
<1>2. ASSUME NEW w \in Worker, InsertOccupy(w) PROVE Queues'
  <2>1. ptr[w] \in Ptr /\ occupy_nonce(ptr[w], dropped)
    BY <1>2 DEF InsertOccupy, Locals
  <2>2. Drained' /\ ResidualMapped' /\ PopNeverUnwrapsNone' /\ QueuedIsMapped'
    BY <1>2 DEF InsertOccupy, Queues, Drained, ResidualMapped, PopNeverUnwrapsNone, QueuedIsMapped, InFlight, Queued
  <2>3. ASSUME NEW q \in Queued', q \notin dropped'
        PROVE  \/ occupied_nonce'[SlotOf(TxOf(q))] = q
               \/ \E v \in Worker : pc'[v] = "ins_occupy" /\ ptr'[v] = q
    <3>1. q \in Queued
      BY <1>2 DEF InsertOccupy, Queued
    <3>2. CASE q = ptr[w]
      BY <2>1, <3>2, PtrTx, SlotOfTx DEF occupy_nonce
    <3>3. CASE \E v \in Worker : pc[v] = "ins_occupy" /\ ptr[v] = q /\ v # w
      BY <1>2, <3>3 DEF InsertOccupy
    <3>4. CASE q # ptr[w] /\ ~\E v \in Worker : pc[v] = "ins_occupy" /\ ptr[v] = q
      BY ZenonT(60), <2>1, <2>3, <3>1, <3>4, OccupyKeepsOneLive DEF Queues
    <3> QED
      BY <3>2, <3>3, <3>4
  <2> QED
    BY <2>2, <2>3 DEF Queues, OneLivePerSlot
<1>3. ASSUME NEW w \in Worker, InsertMap(w) PROVE Queues'
  <2>1. TxOf(ptr[w]) = arg[w]
    BY <1>3 DEF InsertMap, Locals
  <2>2. Drained' /\ ResidualMapped' /\ PopNeverUnwrapsNone' /\ OneLivePerSlot'
    BY ZenonT(60), <1>3 DEF InsertMap, Queues, Drained, ResidualMapped, PopNeverUnwrapsNone, OneLivePerSlot, Queued
  <2>3. QueuedIsMapped'
    BY <1>3, <2>1 DEF InsertMap, Queues, QueuedIsMapped, InFlight, Queued
  <2> QED
    BY <2>2, <2>3 DEF Queues
<1>4. ASSUME NEW p \in Proc, PopOne(p) PROVE Queues'
  <2>1. /\ Len(co_queue') = Len(co_queue) - 1 /\ Len(co_queue) \in Nat
        /\ Queued' \subseteq Queued
    BY <1>4, TailRange DEF PopOne, Queued
  <2>2. Drained'
    BY <1>4 DEF PopOne, Queues, Drained
  <2>3. ASSUME NEW q \in Proc, pc'[q] \in {"pkg_pop", "mv_pop"} PROVE to_pop'[q] <= Len(co_queue')
    <3>1. pc' = pc /\ pc[p] \in {"pkg_pop", "mv_pop"} /\ to_pop' = [to_pop EXCEPT ![p] = @ - 1]
      BY <1>4 DEF PopOne
    <3>2. q = p
      BY <2>3, <3>1 DEF Locks, HeapPC
    <3>3. to_pop[p] <= Len(co_queue)
      BY <3>1 DEF Queues, PopNeverUnwrapsNone
    <3> QED
      BY <2>1, <3>1, <3>2, <3>3
  <2>4. ResidualMapped' /\ QueuedIsMapped' /\ OneLivePerSlot'
    BY <1>4, <2>1 DEF PopOne, Queues, ResidualMapped, QueuedIsMapped, InFlight, OneLivePerSlot
  <2> QED
    BY <2>2, <2>3, <2>4 DEF Queues, PopNeverUnwrapsNone
<1>5. ASSUME NEW w \in Worker, NEW hashes \in SUBSET (Tx \cup SysTx), NEW kept \in SUBSET Tx,
             FlushResidual(w, hashes, kept)
      PROVE  Queues'
  <2>1. Queued' = {}
    BY <1>5, EmptyRange DEF FlushResidual, Queued
  <2>2. PopNeverUnwrapsNone' /\ Drained' /\ ResidualMapped'
    BY <1>5 DEF FlushResidual, HeapGranted, HeapPC, WriteGranted, WritePC, PopNeverUnwrapsNone, Drained, ResidualMapped
  <2> QED
    BY <2>1, <2>2 DEF Queues, QueuedIsMapped, OneLivePerSlot
<1>6. ASSUME NEW w \in Worker, FlushClear(w) PROVE Queues'
  <2>1. Queued' = {}
    BY <1>6, EmptyRange DEF FlushClear, Queued, Queues, Drained
  <2>2. PopNeverUnwrapsNone' /\ Drained' /\ ResidualMapped'
    BY <1>6 DEF FlushClear, Queues, PopNeverUnwrapsNone, Drained, ResidualMapped
  <2> QED
    BY <2>1, <2>2 DEF Queues, QueuedIsMapped, OneLivePerSlot
<1>7. ASSUME NEW w \in Worker, FlushRequeue(w) PROVE Queues'
  <2>1. PICK t \in residual : \E p \in Fresh(t) : /\ occupy_nonce(p, dropped \ {p})
                                                 /\ real_queue' = real_queue \cup {p}
                                                 /\ residual' = residual \ {t}
    BY ZenonT(60), <1>7 DEF FlushRequeue
  <2>2. PICK p \in Fresh(t) : /\ occupy_nonce(p, dropped \ {p})
                              /\ real_queue' = real_queue \cup {p}
                              /\ residual' = residual \ {t}
    BY ZenonT(60), <2>1
  <2>3. p \in Ptr /\ TxOf(p) = t
    BY FreshIsPtr
  <2>4. Queued' = Queued \cup {p}
    BY SMTT(60), <1>7, <2>2 DEF FlushRequeue, Queued
  <2>5. PopNeverUnwrapsNone' /\ ResidualMapped'
    BY <1>7, <2>2 DEF FlushRequeue, Queues, PopNeverUnwrapsNone, ResidualMapped
  <2>6. Drained'
    BY <1>7 DEF FlushRequeue, Drained, Locks, WritePC
  <2>7. QueuedIsMapped'
    BY <1>7, <2>3, <2>4 DEF FlushRequeue, Queues, ResidualMapped, QueuedIsMapped, InFlight
  <2>8. ASSUME NEW q \in Queued', q \notin dropped'
        PROVE  \/ occupied_nonce'[SlotOf(TxOf(q))] = q
               \/ \E v \in Worker : pc'[v] = "ins_occupy" /\ ptr'[v] = q
    <3>1. CASE q = p
      BY SMTT(60), <2>2, <2>3, <3>1, PtrTx, SlotOfTx DEF occupy_nonce
    <3>2. CASE \E v \in Worker : pc[v] = "ins_occupy" /\ ptr[v] = q
      BY <1>7, <3>2 DEF FlushRequeue
    <3>3. CASE q # p /\ ~\E v \in Worker : pc[v] = "ins_occupy" /\ ptr[v] = q
      <4>1. q \in Queued
        BY <2>4, <3>3
      <4> QED
        BY ZenonT(60), <2>2, <2>3, <2>8, <3>3, <4>1, OccupyKeepsOneLive DEF Queues
    <3> QED
      BY <3>1, <3>2, <3>3
  <2> QED
    BY <2>5, <2>6, <2>7, <2>8 DEF Queues, OneLivePerSlot
<1> DEFINE Same == UNCHANGED <<co_queue, real_queue, occupied_nonce, dropped, tx_map, ptr, residual>>
           Moves(p, to) == pc' = pc \/ pc' = [pc EXCEPT ![p] = to]
<1>8. ASSUME Same, NEW p \in Proc, NEW to, Moves(p, to), pc[p] # "ins_occupy",
             to \notin {"ins_occupy", "fl_clear", "fl_requeue"}
      PROVE  Drained' /\ ResidualMapped' /\ QueuedIsMapped' /\ OneLivePerSlot'
  <2>1. Drained' /\ ResidualMapped'
    BY <1>8 DEF Queues, Drained, ResidualMapped
  <2>2. QueuedIsMapped'
    BY <1>8 DEF Queues, QueuedIsMapped, InFlight, Queued
  <2>3. OneLivePerSlot'
    BY <1>8 DEF Queues, OneLivePerSlot, Queued
  <2> QED
    BY <2>1, <2>2, <2>3
<1>9. ASSUME NEW p \in Proc, NEW to \in {"pkg_pop", "mv_pop"}, LockHeap(p, to), Same, pc[p] # "ins_occupy"
      PROVE  Queues'
  <2>1. ASSUME NEW q \in Proc, pc'[q] \in {"pkg_pop", "mv_pop"} PROVE to_pop'[q] <= Len(co_queue')
    <3>1. co_queue' = co_queue /\ to_pop' = [to_pop EXCEPT ![p] = Len(co_queue)] /\ HeapGranted
      BY <1>9 DEF LockHeap
    <3>2. q = p
      BY <1>9, <2>1, <3>1 DEF LockHeap, HeapGranted, HeapPC
    <3> QED
      BY <3>1, <3>2
  <2>2. Drained' /\ ResidualMapped' /\ QueuedIsMapped' /\ OneLivePerSlot'
    <3>1. Moves(p, to) /\ to \notin {"ins_occupy", "fl_clear", "fl_requeue"}
      BY <1>9 DEF LockHeap
    <3> HIDE DEF Moves
    <3> QED
      BY ZenonT(60), <1>8, <1>9, <3>1
  <2> QED
    BY <2>1, <2>2 DEF Queues, PopNeverUnwrapsNone
<1>10. ASSUME Same, to_pop' = to_pop, NEW p \in Proc, NEW to, Moves(p, to), pc[p] # "ins_occupy",
              to \notin {"ins_occupy", "fl_clear", "fl_requeue", "pkg_pop", "mv_pop"}
       PROVE  Queues'
  <2>1. PopNeverUnwrapsNone'
    BY <1>10 DEF Queues, PopNeverUnwrapsNone
  <2>2. Drained' /\ ResidualMapped' /\ QueuedIsMapped' /\ OneLivePerSlot'
    <3> HIDE DEF Moves, Same
    <3> QED
      BY <1>8, <1>10
  <2> QED
    BY <2>1, <2>2 DEF Queues
<1>14. ASSUME NEW w \in Worker, PackageLock(w) PROVE Queues'
  <2>1. Same /\ LockHeap(w, "pkg_pop") /\ pc[w] = "pkg_heap" /\ w \in Proc
    BY <1>14 DEF PackageLock
  <2> HIDE DEF Same
  <2> QED
    BY <1>9, <2>1
<1>15. CASE MoverLock
  <2>1. Same /\ LockHeap(Mover, "mv_pop") /\ pc[Mover] = "mv_heap" /\ Mover \in Proc
    BY SMTT(60), <1>15 DEF MoverLock
  <2> HIDE DEF Same
  <2> QED
    BY <1>9, <2>1
<1>11. ASSUME NEW w \in Worker,
              \/ \E t \in Tx : InsertCheck(w, t)
              \/ \E h \in SysTx : InsertSysHash(w, h)
              \/ InsertSysBucket(w) \/ PackageSys(w) \/ PackageScan(w)
              \/ PackageReturn(w) \/ FlushDone(w)
       PROVE  Queues'
  BY ZenonT(60), <1>10, <1>11 DEF InsertCheck, InsertSysHash, InsertSysBucket, PackageSys, PackageScan, PackageReturn, FlushDone
<1>12. CASE MoverSees \/ MoverRead \/ MoverDone
  BY ZenonT(60), <1>10, <1>12 DEF MoverSees, MoverRead, MoverDone
<1>13. ASSUME \/ UNCHANGED vars
              \/ \E w \in Worker : PackageTake(w)
       PROVE  Queues'
  <2>1. Same /\ to_pop' = to_pop /\ pc' = pc
    BY <1>13 DEF PackageTake, vars
  <2>2. PopNeverUnwrapsNone' /\ Drained' /\ ResidualMapped'
    BY <2>1 DEF Queues, PopNeverUnwrapsNone, Drained, ResidualMapped
  <2>3. QueuedIsMapped'
    BY <2>1 DEF Queues, QueuedIsMapped, InFlight, Queued
  <2>4. OneLivePerSlot'
    BY <2>1 DEF Queues, OneLivePerSlot, Queued
  <2> QED
    BY <2>2, <2>3, <2>4 DEF Queues
<1> QED
  BY ZenonT(60), <1>1, <1>2, <1>3, <1>4, <1>5, <1>6, <1>7, <1>11, <1>12, <1>13, <1>14, <1>15
     DEF Next, InsertStep, PackageStep, FlushStep, MoverStep
=============================================================================
