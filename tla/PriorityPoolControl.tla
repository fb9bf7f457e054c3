------------------------ MODULE PriorityPoolControl -------------------------
(***************************************************************************)
(* What every step of PriorityPool keeps about the types, the tasks' locals *)
(* and the locks, for every set of workers, transactions and pointers and  *)
(* every pool size.                                                        *)
(***************************************************************************)
EXTENDS PriorityPool, WellFoundedInduction, TLAPS

(* Sequences: what Push and PopOne do to the entries of co_queue. *)
LEMMA AppendRange ==
    ASSUME NEW S, NEW s \in Seq(S), NEW e \in S
    PROVE  /\ Append(s, e) \in Seq(S)
           /\ Len(Append(s, e)) = Len(s) + 1
           /\ Range(Append(s, e)) = Range(s) \cup {e}
<1>1. Append(s, e) \in Seq(S) /\ Len(Append(s, e)) = Len(s) + 1
  OBVIOUS
<1>2. Range(Append(s, e)) \subseteq Range(s) \cup {e}
  BY <1>1 DEF Range
<1>3. ASSUME NEW x \in Range(s) PROVE x \in Range(Append(s, e))
  <2>1. PICK i \in DOMAIN s : x = s[i]
    BY DEF Range
  <2>2. i \in DOMAIN Append(s, e) /\ Append(s, e)[i] = x
    BY <2>1
  <2> QED
    BY <2>2 DEF Range
<1>4. e \in Range(Append(s, e))
  <2>1. Len(s) + 1 \in DOMAIN Append(s, e) /\ Append(s, e)[Len(s) + 1] = e
    OBVIOUS
  <2> QED
    BY <2>1 DEF Range
<1> QED
  BY <1>1, <1>2, <1>3, <1>4

(* Taking the head of co_queue off loses no other entry and adds none. *)
LEMMA TailRange ==
    ASSUME NEW S, NEW s \in Seq(S), s # <<>>
    PROVE  /\ Tail(s) \in Seq(S) /\ Head(s) \in S
           /\ Len(s) > 0 /\ Len(Tail(s)) = Len(s) - 1
           /\ Range(Tail(s)) \subseteq Range(s)
           /\ Head(s) \in Range(s)
<1>1. /\ Tail(s) \in Seq(S) /\ Head(s) \in S
      /\ Len(s) > 0 /\ Len(Tail(s)) = Len(s) - 1
  OBVIOUS
<1>2. Head(s) \in Range(s)
  <2>1. 1 \in DOMAIN s /\ Head(s) = s[1]
    BY <1>1
  <2> QED
    BY <2>1 DEF Range
<1>3. ASSUME NEW x \in Range(Tail(s)) PROVE x \in Range(s)
  <2>1. PICK i \in DOMAIN Tail(s) : x = Tail(s)[i]
    BY DEF Range
  <2>2. i + 1 \in DOMAIN s /\ s[i + 1] = x
    BY <2>1, <1>1
  <2> QED
    BY <2>2 DEF Range
<1> QED
  BY <1>1, <1>2, <1>3

(* A drained queue has no entries. *)
LEMMA EmptyRange == Range(<<>>) = {}
BY DEF Range

-----------------------------------------------------------------------------
(* The locals of a task in the middle of an insertion. *)
Locals ==
    \A w \in Worker :
        /\ pc[w] = "ins_push" => arg[w] \in Tx
        /\ pc[w] \in {"ins_occupy", "ins_map"} => ptr[w] \in Ptr /\ TxOf(ptr[w]) = arg[w]
        /\ pc[w] \notin {"ins_occupy", "ins_map"} => ptr[w] = NoPtr
        /\ pc[w] = "sys_bucket" => arg[w] \in SysTx

(* The heap's mutex has one holder; the writer of flush_lock excludes everybody else. *)
Locks ==
    \A p, q \in Proc :
        /\ pc[p] \in HeapPC /\ pc[q] \in HeapPC => p = q
        /\ pc[p] \in WritePC /\ pc[q] \in WritePC \cup ReadPC => p = q

Control == TypeOK /\ Locals /\ Locks

(* A pointer made for a transaction leads to it and is new to the pool. *)
LEMMA FreshIsPtr ==
    ASSUME NEW t \in Tx, NEW p \in Fresh(t)
    PROVE  p \in Ptr /\ TxOf(p) = t /\ p \notin Referenced
BY DEF Fresh, Ptr, TxOf

(* Every transaction has a place in occupied_nonce. *)
LEMMA SlotOfTx == \A t \in Tx : SlotOf(t) \in Slot
BY PoolAssumption DEF SlotOf, Slot

(* A pointer leads to a transaction and is never the absent entry. *)
LEMMA PtrTx == \A p \in Ptr : TxOf(p) \in Tx /\ p # NoPtr
BY PoolAssumption DEF Ptr, TxOf

(* Both queues hold pointers only. *)
LEMMA QueuedIsPtr == TypeOK => Queued \subseteq Ptr
BY DEF TypeOK, Queued, Range

(* co_queue.push adds its pointer or, when the queue is full, nothing. *)
LEMMA PushType ==
    ASSUME co_queue \in Seq(Ptr), NEW p \in Ptr, Push(p)
    PROVE  /\ co_queue' \in Seq(Ptr)
           /\ Len(co_queue') >= Len(co_queue)
           /\ Range(co_queue') \subseteq Range(co_queue) \cup {p}
BY AppendRange DEF Push

(* occupy_nonce keeps the types of what it writes. *)
LEMMA OccupyType ==
    ASSUME TypeOK, NEW p \in Ptr, NEW D \in SUBSET Ptr, occupy_nonce(p, D)
    PROVE  /\ occupied_nonce' \in [Slot -> Ptr \cup {NoPtr}]
           /\ dropped' \in SUBSET Ptr
BY SlotOfTx, PtrTx DEF TypeOK, occupy_nonce

(* A new pool satisfies Control: no task holds a lock or a pointer. *)
THEOREM ControlInit == Init => Control
BY PoolAssumption DEF Init, Control, TypeOK, Locals, Locks, Proc, PC, HeapPC, WritePC, ReadPC

(* The least hash of a bucket exists, so package never unwraps an empty bucket. *)
LEMMA BucketFirst ==
    ASSUME NEW B \in SUBSET SysTx, B # {}
    PROVE  FirstOf(B) \in B
<1> DEFINE ranks == {HashRank[h] : h \in B}
<1>1. ranks \in SUBSET Nat /\ ranks # {}
  BY PoolAssumption
<1>2. \E n \in ranks : \A m \in ranks : ~(<<m, n>> \in OpToRel(<, Nat))
  BY ZenonT(60), <1>1, NatLessThanWellFounded, WFMin
<1>3. \E n \in ranks : \A m \in ranks : n <= m
  <2>1. ASSUME NEW m \in Nat, NEW n \in Nat, m < n PROVE <<m, n>> \in OpToRel(<, Nat)
    BY <2>1 DEF OpToRel
  <2>2. PICK n \in ranks : \A m \in ranks : ~(<<m, n>> \in OpToRel(<, Nat))
    BY ZenonT(60), <1>2
  <2>3. ASSUME NEW m \in ranks PROVE n <= m
    <3>1. n \in Nat /\ m \in Nat
      BY <1>1
    <3>2. ~(m < n)
      BY ZenonT(60), <2>1, <2>2, <3>1
    <3> QED
      BY <3>1, <3>2
  <2> QED
    BY <2>3
<1>4. \E h \in B : \A g \in B : HashRank[h] <= HashRank[g]
  BY SMTT(60), <1>3
<1> QED
  BY <1>4 DEF FirstOf

(* Every step keeps Control: one step per action. *)
LEMMA ControlNext == Control /\ [Next]_vars => Control'
<1> SUFFICES ASSUME Control, [Next]_vars PROVE Control'
  OBVIOUS
<1> USE PoolAssumption DEF Control, TypeOK, Proc, PC, queues, sysVars, pkgVars, flushVars
<1>1. ASSUME NEW w \in Worker, NEW t \in Tx, InsertCheck(w, t) PROVE Control'
  <2>1. TypeOK'
    BY <1>1 DEF InsertCheck
  <2>2. Locals'
    BY <1>1 DEF InsertCheck, Locals
  <2>3. Locks'
    BY <1>1 DEF InsertCheck, Locks, HeapPC, WritePC, ReadPC
  <2> QED
    BY <2>1, <2>2, <2>3
<1>2. ASSUME NEW w \in Worker, InsertPush(w) PROVE Control'
  <2>1. PICK p \in Fresh(arg[w]) : Push(p) /\ ptr' = [ptr EXCEPT ![w] = p] /\ dropped' = dropped \ {p}
    BY ZenonT(60), <1>2 DEF InsertPush
  <2>2. p \in Ptr /\ TxOf(p) = arg[w]
    BY <1>2, <2>1, FreshIsPtr DEF InsertPush, Locals
  <2>3. co_queue' \in Seq(Ptr)
    BY <2>1, <2>2, PushType
  <2>4. TypeOK'
    BY <1>2, <2>1, <2>2, <2>3 DEF InsertPush
  <2>5. Locals'
    BY <1>2, <2>1, <2>2 DEF InsertPush, Locals
  <2>6. Locks'
    BY <1>2 DEF InsertPush, Locks, ReadGranted, HeapPC, WritePC, ReadPC
  <2> QED
    BY <2>4, <2>5, <2>6
<1>3. ASSUME NEW w \in Worker, InsertOccupy(w) PROVE Control'
  <2>1. ptr[w] \in Ptr
    BY <1>3 DEF InsertOccupy, Locals
  <2>2. occupied_nonce' \in [Slot -> Ptr \cup {NoPtr}] /\ dropped' \in SUBSET Ptr
    BY <1>3, <2>1, OccupyType DEF InsertOccupy
  <2> QED
    BY <1>3, <2>1, <2>2 DEF InsertOccupy, Locals, Locks, HeapPC, WritePC, ReadPC
<1>4. ASSUME NEW w \in Worker, InsertMap(w) PROVE Control'
  <2>1. arg[w] \in Tx
    BY <1>4, PtrTx DEF InsertMap, Locals
  <2> QED
    BY <1>4, <2>1 DEF InsertMap, Locals, Locks, HeapPC, WritePC, ReadPC
<1>5. ASSUME NEW w \in Worker, NEW h \in SysTx, InsertSysHash(w, h) PROVE Control'
  <2>1. TypeOK'
    BY <1>5 DEF InsertSysHash
  <2>2. Locals'
    BY <1>5 DEF InsertSysHash, Locals
  <2>3. Locks'
    BY <1>5 DEF InsertSysHash, Locks, ReadGranted, HeapPC, WritePC, ReadPC
  <2> QED
    BY <2>1, <2>2, <2>3
<1>6. ASSUME NEW w \in Worker, InsertSysBucket(w) PROVE Control'
  <2>0. arg[w] \in SysTx /\ DataOf[arg[w]] \in Data
    BY <1>6 DEF InsertSysBucket, Locals
  <2>1. TypeOK'
    BY <1>6, <2>0 DEF InsertSysBucket
  <2>2. Locals'
    BY <1>6 DEF InsertSysBucket, Locals
  <2>3. Locks'
    BY <1>6 DEF InsertSysBucket, Locks, HeapPC, WritePC, ReadPC
  <2> QED
    BY <2>1, <2>2, <2>3
<1>7. ASSUME NEW w \in Worker, PackageSys(w) PROVE Control'
  <2>1. \A d \in Data : tx_buckets[d] # {} => FirstOf(tx_buckets[d]) \in SysTx
    BY ZenonT(60), BucketFirst
  <2>2. sys_packed' \in [Worker -> SUBSET SysTx]
    BY <1>7, <2>1 DEF PackageSys
  <2>3. TypeOK'
    BY <1>7, <2>2 DEF PackageSys
  <2>4. Locals'
    BY <1>7 DEF PackageSys, Locals
  <2>5. Locks'
    BY <1>7 DEF PackageSys, Locks, ReadGranted, HeapPC, WritePC, ReadPC
  <2> QED
    BY <2>3, <2>4, <2>5
<1>8. ASSUME NEW w \in Worker, PackageLock(w) PROVE Control'
  <2>1. TypeOK'
    BY <1>8 DEF PackageLock, LockHeap
  <2>2. Locals'
    BY <1>8 DEF PackageLock, LockHeap, Locals
  <2>3. Locks'
    BY <1>8 DEF PackageLock, LockHeap, HeapGranted, Locks, HeapPC, WritePC, ReadPC
  <2> QED
    BY <2>1, <2>2, <2>3
<1>9. ASSUME NEW p \in Proc, PopOne(p) PROVE Control'
  <2>1. co_queue' \in Seq(Ptr) /\ real_queue' \in SUBSET Ptr
    BY <1>9, TailRange DEF PopOne
  <2>2. to_pop' \in [Proc -> Nat]
    BY <1>9 DEF PopOne
  <2> QED
    BY <1>9, <2>1, <2>2 DEF PopOne, Locals, Locks
<1>10. ASSUME NEW w \in Worker, PackageScan(w) PROVE Control'
  <2>1. TypeOK'
    BY <1>10 DEF PackageScan
  <2>2. Locals'
    BY <1>10 DEF PackageScan, Locals
  <2>3. Locks'
    BY <1>10 DEF PackageScan, Locks, HeapPC, WritePC, ReadPC
  <2> QED
    BY <2>1, <2>2, <2>3
<1>11. ASSUME NEW w \in Worker, PackageTake(w) PROVE Control'
  <2>1. TypeOK'
    BY <1>11 DEF PackageTake
  <2>2. Locals'
    BY <1>11 DEF PackageTake, Locals
  <2>3. Locks'
    BY <1>11 DEF PackageTake, Locks
  <2> QED
    BY <2>1, <2>2, <2>3
<1>12. ASSUME NEW w \in Worker, PackageReturn(w) PROVE Control'
  <2>1. TypeOK'
    BY <1>12 DEF PackageReturn
  <2>2. Locals'
    BY <1>12 DEF PackageReturn, Locals
  <2>3. Locks'
    BY <1>12 DEF PackageReturn, Locks, HeapPC, WritePC, ReadPC
  <2> QED
    BY <2>1, <2>2, <2>3
<1>13. ASSUME NEW w \in Worker, NEW hashes \in SUBSET (Tx \cup SysTx), NEW kept \in SUBSET Tx,
              FlushResidual(w, hashes, kept)
       PROVE  Control'
  BY <1>13 DEF FlushResidual, get_residual, WriteGranted, Locals, Locks, HeapPC, WritePC, ReadPC
<1>14. ASSUME NEW w \in Worker, FlushClear(w) PROVE Control'
  <2>1. TypeOK'
    BY <1>14 DEF FlushClear
  <2>2. Locals'
    BY <1>14 DEF FlushClear, Locals
  <2>3. Locks'
    BY SMTT(60), <1>14 DEF FlushClear, Locks, HeapPC, WritePC, ReadPC
  <2> QED
    BY <2>1, <2>2, <2>3
<1>15. ASSUME NEW w \in Worker, FlushRequeue(w) PROVE Control'
  <2>1. PICK t \in residual : \E p \in Fresh(t) : /\ occupy_nonce(p, dropped \ {p})
                                                 /\ real_queue' = real_queue \cup {p}
                                                 /\ residual' = residual \ {t}
    BY ZenonT(60), <1>15 DEF FlushRequeue
  <2>2. PICK p \in Fresh(t) : /\ occupy_nonce(p, dropped \ {p})
                              /\ real_queue' = real_queue \cup {p}
                              /\ residual' = residual \ {t}
    BY ZenonT(60), <2>1
  <2>3. p \in Ptr
    BY FreshIsPtr
  <2>4. occupied_nonce' \in [Slot -> Ptr \cup {NoPtr}] /\ dropped' \in SUBSET Ptr
    BY <2>2, <2>3, OccupyType
  <2> QED
    BY <1>15, <2>2, <2>3, <2>4 DEF FlushRequeue, Locals, Locks
<1>16. ASSUME NEW w \in Worker, FlushDone(w) PROVE Control'
  <2>1. TypeOK'
    BY <1>16 DEF FlushDone
  <2>2. Locals'
    BY <1>16 DEF FlushDone, Locals
  <2>3. Locks'
    BY <1>16 DEF FlushDone, Locks, HeapPC, WritePC, ReadPC
  <2> QED
    BY <2>1, <2>2, <2>3
<1>17. CASE MoverSees
  BY <1>17 DEF MoverSees, Locals, Locks, HeapPC, WritePC, ReadPC
<1>18. CASE MoverRead
  BY <1>18 DEF MoverRead, ReadGranted, Locals, Locks, HeapPC, WritePC, ReadPC
<1>19. CASE MoverLock
  BY <1>19 DEF MoverLock, LockHeap, HeapGranted, Locals, Locks, HeapPC, WritePC, ReadPC
<1>20. CASE MoverDone
  BY <1>20 DEF MoverDone, Locals, Locks, HeapPC, WritePC, ReadPC
<1>21. CASE UNCHANGED vars
  BY <1>21 DEF vars, Locals, Locks
<1> QED
  BY ZenonT(60), <1>1, <1>2, <1>3, <1>4, <1>5, <1>6, <1>7, <1>8, <1>9, <1>10, <1>11, <1>12, <1>13, <1>14,
     <1>15, <1>16, <1>17, <1>18, <1>19, <1>20, <1>21
     DEF Next, InsertStep, PackageStep, FlushStep, MoverStep
=============================================================================
