---------------------- MODULE LockFreeRingBufferProofs ----------------------
(***************************************************************************)
(* Proofs about the ring buffer, for every capacity CAP and every set of   *)
(* values.  LockFreeRingBuffer: its invariants, and that it implements     *)
(* BoundedFifo.  A push takes effect at the store to tail_, a pop at the   *)
(* store to head_, a failing call at its (acquire) reload of the other     *)
(* side's index; every other step leaves the queue as it is.  RingInApp:   *)
(* what the ring keeps of its promises under the callers it really has.    *)
(***************************************************************************)
EXTENDS RingInApp, SequenceTheorems, TLAPS

-----------------------------------------------------------------------------
(* Arithmetic of the masked indices. *)

\* The successor of an index: "(i + 1) & MASK" wraps to 0 after the last slot.
LEMMA IncValue ==
  ASSUME NEW i \in Index
  PROVE  Inc(i) = IF i = CAP - 1 THEN 0 ELSE i + 1
<1>1. CAP % CAP = 0
  BY CapIsPositive
<1>2. CASE i = CAP - 1
  BY <1>1, <1>2, CapIsPositive DEF Inc, Index
<1>3. CASE i # CAP - 1
  BY <1>3, CapIsPositive DEF Inc, Index
<1>4. QED
  BY <1>2, <1>3

\* The distance between two indices: "(t - h) & MASK", the number of occupied
\* slots when h is the head and t the tail.
LEMMA DistValue ==
  ASSUME NEW h \in Index, NEW t \in Index
  PROVE  Dist(h, t) = IF h <= t THEN t - h ELSE t - h + CAP
BY CapIsPositive DEF Dist, Index

LEMMA IncType ==
  ASSUME NEW i \in Index
  PROVE  Inc(i) \in Index
BY IncValue, CapIsPositive DEF Index

LEMMA DistType ==
  ASSUME NEW h \in Index, NEW t \in Index
  PROVE  Dist(h, t) \in Index
BY DistValue, CapIsPositive DEF Index

\* Pushing into a ring that is not full makes it one longer.
LEMMA DistIncTail ==
  ASSUME NEW h \in Index, NEW t \in Index, Inc(t) # h
  PROVE  Dist(h, Inc(t)) = Dist(h, t) + 1
<1>1. Inc(t) \in Index /\ Inc(t) = IF t = CAP - 1 THEN 0 ELSE t + 1
  BY IncType, IncValue
<1>2. Dist(h, t) = IF h <= t THEN t - h ELSE t - h + CAP
  BY DistValue
<1>3. Dist(h, Inc(t)) = IF h <= Inc(t) THEN Inc(t) - h ELSE Inc(t) - h + CAP
  BY <1>1, DistValue
<1>4. QED
  BY <1>1, <1>2, <1>3, CapIsPositive DEF Index

\* Popping from a ring that is not empty makes it one shorter.
LEMMA DistIncHead ==
  ASSUME NEW h \in Index, NEW t \in Index, h # t
  PROVE  Dist(Inc(h), t) = Dist(h, t) - 1
<1>1. Inc(h) \in Index /\ Inc(h) = IF h = CAP - 1 THEN 0 ELSE h + 1
  BY IncType, IncValue
<1>2. Dist(h, t) = IF h <= t THEN t - h ELSE t - h + CAP
  BY DistValue
<1>3. Dist(Inc(h), t) = IF Inc(h) <= t THEN t - Inc(h) ELSE t - Inc(h) + CAP
  BY <1>1, DistValue
<1>4. QED
  BY <1>1, <1>2, <1>3, CapIsPositive DEF Index

\* Distance 0 is the empty ring, distance CAP - 1 the full one.
LEMMA DistZero ==
  ASSUME NEW h \in Index, NEW t \in Index
  PROVE  Dist(h, t) = 0 <=> h = t
BY DistValue, CapIsPositive DEF Index

LEMMA DistFull ==
  ASSUME NEW h \in Index, NEW t \in Index
  PROVE  Dist(h, t) = CAP - 1 <=> Inc(t) = h
BY DistValue, IncValue, CapIsPositive DEF Index

-----------------------------------------------------------------------------
(* Type correctness: IInv contains TypeOK; proving it needs the rest of the *)
(* invariant, because the range of reserve follows from PreCheckHolds.      *)

LEMMA InitEstablishesIInv == Init => IInv
<1> SUFFICES ASSUME Init PROVE IInv
  OBVIOUS
<1>1. Index # {} /\ 0 \in Index
  BY CapIsPositive DEF Index
<1>2. TypeOK
  BY <1>1, CapIsPositive DEF Init, TypeOK, Threads, Items, PC, Index
<1>3. Dist(0, 0) = 0
  BY <1>1, DistZero
<1>4. pc[Producer] = "idle" /\ pc[Consumer] = "idle"
  BY DEF Init, Threads
<1>5. CachesLag /\ PreCheckHolds
  BY <1>3, CapIsPositive DEF Init, CachesLag, PreCheckHolds
<1>6. ProducerInv /\ ConsumerInv
  BY <1>4 DEF ProducerInv, ConsumerInv, Pushing, Popping
<1>7. QED
  BY <1>2, <1>5, <1>6 DEF IInv

LEMMA PushStartPreserves ==
  ASSUME IInv, NEW v \in Values, PushStart(Producer, v)
  PROVE  IInv'
<1> USE DEF IInv, PushStart, Goto
<1>1. Inc(tail) \in Index
  BY IncType DEF TypeOK
<1>2. TypeOK'
  BY DEF TypeOK, Threads, PC, Items
<1>3. pc'[Producer] = (IF Inc(tail) = headCache THEN "push_refresh" ELSE "push_write")
      /\ idx'[Producer] = tail /\ val'[Producer] = v
  BY DEF TypeOK, Threads
<1>4. pc'[Consumer] = pc[Consumer] /\ idx'[Consumer] = idx[Consumer]
      /\ val'[Consumer] = val[Consumer]
  BY TwoThreads DEF TypeOK, Threads
<1>5. ProducerInv'
  BY <1>3 DEF ProducerInv, Pushing
<1>6. ConsumerInv'
  BY <1>4 DEF ConsumerInv, Popping
<1>7. CachesLag' /\ PreCheckHolds'
  BY DEF CachesLag, PreCheckHolds, Dist
<1>8. QED
  BY <1>2, <1>5, <1>6, <1>7

\* What the end of an operation leaves well-typed.
LEMMA LeaveType ==
  ASSUME TypeOK, NEW t \in Threads, Leave(t)
  PROVE  /\ pc' \in [Threads -> PC]
         /\ idx' \in [Threads -> Index]
         /\ val' \in [Threads -> Items]
<1>1. 0 \in Index /\ Blank \in Items /\ "idle" \in PC
  BY CapIsPositive DEF Index, Items, PC
<1>2. QED
  BY <1>1 DEF TypeOK, Leave, Goto

LEMMA ReturnType ==
  ASSUME TypeOK, NEW t \in Threads, NEW ok \in BOOLEAN, NEW item \in Items,
         Return(t, ok, item)
  PROVE  /\ pc' \in [Threads -> PC]
         /\ idx' \in [Threads -> Index]
         /\ val' \in [Threads -> Items]
         /\ ret' \in [Threads -> [ok : BOOLEAN, item : Items]]
<1> DEFINE r == [ok |-> ok, item |-> item]
<1>1. r \in [ok : BOOLEAN, item : Items]
  OBVIOUS
<1>2. ret' = [ret EXCEPT ![t] = r]
  BY DEF Return
<1>3. ret \in [Threads -> [ok : BOOLEAN, item : Items]]
  BY DEF TypeOK
<1>4. ret' \in [Threads -> [ok : BOOLEAN, item : Items]]
  <2> HIDE DEF r
  <2>1. QED
    BY <1>1, <1>2, <1>3
<1>5. QED
  BY <1>4, LeaveType DEF Return

LEMMA PushRefreshPreserves ==
  ASSUME IInv, PushRefresh(Producer)
  PROVE  IInv'
<1> USE DEF IInv, PushRefresh, Goto, Return, Leave
<1>1. TypeOK'
  <2>1. Producer \in Threads /\ val[Producer] \in Items
    BY DEF TypeOK, Threads
  <2>2. CASE Inc(idx[Producer]) = head
    <3> HIDE DEF Goto, Return, Leave
    <3>1. Return(Producer, FALSE, val[Producer])
      BY <2>2
    <3>2. QED
      BY <2>1, <3>1, ReturnType DEF TypeOK
  <2>3. CASE Inc(idx[Producer]) # head
    BY <2>3 DEF TypeOK, Threads, PC
  <2>4. QED
    BY <2>2, <2>3
<1>2. idx[Producer] = tail /\ pc[Producer] = "push_refresh"
  BY DEF ProducerInv, Pushing
<1>3. ProducerInv'
  BY <1>2 DEF ProducerInv, Pushing, TypeOK, Threads
<1>4. ConsumerInv'
  BY TwoThreads DEF ConsumerInv, Popping, TypeOK, Threads
<1>5. CachesLag' /\ PreCheckHolds'
  <2>1. Dist(head, tail) \in Int
    BY DistType, CapIsPositive DEF TypeOK, Index
  <2>2. QED
    BY <2>1 DEF CachesLag, PreCheckHolds, Dist
<1>6. QED
  BY <1>1, <1>3, <1>4, <1>5

\* The slot the producer writes is outside the occupied ones, so it is not
\* the slot the consumer is at.
LEMMA FreeSlotIsNotHead ==
  ASSUME IInv, pc[Consumer] \in {"pop_read", "pop_publish"}
  PROVE  head # tail
<1>1. head \in Index /\ tail \in Index /\ tailCache \in Index
  BY DEF IInv, TypeOK
<1>2. head # tailCache /\ Dist(head, tailCache) <= Dist(head, tail)
  BY DEF IInv, ConsumerInv, CachesLag
<1>3. Dist(head, tailCache) \in Nat /\ Dist(head, tailCache) # 0
  BY <1>1, <1>2, DistType, DistZero, CapIsPositive DEF Index
<1>4. Dist(head, tail) \in Nat /\ Dist(head, tail) # 0
  BY <1>1, <1>2, <1>3, DistType, CapIsPositive DEF Index
<1>5. QED
  BY <1>1, <1>4, DistZero

LEMMA PushWritePreserves ==
  ASSUME IInv, PushWrite(Producer)
  PROVE  IInv'
<1> USE DEF IInv, PushWrite, Goto
<1>1. TypeOK'
  BY DEF TypeOK, Threads, PC, Items
<1>2. idx[Producer] = tail
  BY DEF ProducerInv, Pushing
<1>3. ProducerInv'
  BY <1>2 DEF ProducerInv, Pushing, TypeOK, Threads
<1>4. pc[Consumer] = "pop_publish" => buffer'[head] = buffer[head]
  BY <1>2, FreeSlotIsNotHead DEF TypeOK
<1>5. ConsumerInv'
  BY <1>4, TwoThreads DEF ConsumerInv, Popping, TypeOK, Threads
<1>6. CachesLag' /\ PreCheckHolds'
  BY DEF CachesLag, PreCheckHolds, Dist
<1>7. QED
  BY <1>1, <1>3, <1>5, <1>6

LEMMA PushPublishPreserves ==
  ASSUME IInv, PushPublish(Producer)
  PROVE  IInv'
<1> USE DEF IInv, PushPublish, Goto, Return, Leave
<1>1. /\ head \in Index /\ tail \in Index /\ Inc(tail) \in Index
      /\ headCache \in Index /\ tailCache \in Index
  BY IncType DEF TypeOK
<1>2. tail' = Inc(tail) /\ Inc(tail) # headCache
  BY DEF ProducerInv, Pushing
<1>3. /\ Dist(head, tail) \in Index /\ Dist(headCache, tail) \in Index
      /\ Dist(head, tailCache) \in Index
  BY <1>1, DistType
<1>4. Dist(headCache, tail) # CAP - 1
  BY <1>1, <1>2, DistFull
<1>5. Inc(tail) # head
  <2>1. Dist(head, tail) # CAP - 1
    BY <1>3, <1>4, CapIsPositive DEF CachesLag, Index
  <2>2. QED
    BY <1>1, <2>1, DistFull
<1>6. Dist(headCache, tail') = Dist(headCache, tail) + 1
  BY <1>1, <1>2, DistIncTail
<1>7. Dist(head, tail') = Dist(head, tail) + 1
  BY <1>1, <1>2, <1>5, DistIncTail
<1>8. CachesLag'
  <2>1. /\ Dist(head, tail)' = Dist(head, tail')
        /\ Dist(headCache, tail)' = Dist(headCache, tail')
        /\ Dist(head, tailCache)' = Dist(head, tailCache)
    BY DEF Dist
  <2>2. QED
    BY <2>1, <1>3, <1>6, <1>7, CapIsPositive DEF CachesLag, Index
<1>9. TypeOK'
  <2>1. Producer \in Threads /\ val[Producer] \in Items
    BY DEF TypeOK, Threads
  <2>2. reserve' \in 0 .. CAP - 1
    BY CapIsPositive DEF TypeOK
  <2> HIDE DEF Goto, Return, Leave
  <2>3. QED
    BY <1>1, <1>2, <2>1, <2>2, ReturnType DEF TypeOK
<1>10. PreCheckHolds'
  <2>1. Dist(head, tail)' = Dist(head, tail')
    BY DEF Dist
  <2>2. Dist(head, tail) # CAP - 1
    BY <1>1, <1>5, DistFull
  <2>3. reserve' = (IF reserve > 0 THEN reserve - 1 ELSE reserve)
        /\ reserve \in Nat /\ reserve <= CAP - 1 - Dist(head, tail)
    BY CapIsPositive DEF TypeOK, PreCheckHolds
  <2>4. reserve' <= CAP - 1 - Dist(head, tail')
    BY <2>2, <2>3, <1>3, <1>7, CapIsPositive DEF Index
  <2>5. QED
    BY <2>1, <2>4 DEF PreCheckHolds
<1>11. ProducerInv'
  BY DEF ProducerInv, Pushing, TypeOK, Threads
<1>12. ConsumerInv'
  BY TwoThreads DEF ConsumerInv, Popping, TypeOK, Threads
<1>13. QED
  BY <1>8, <1>9, <1>10, <1>11, <1>12

LEMMA SizeLoadHeadPreserves ==
  ASSUME IInv, SizeLoadHead(Producer)
  PROVE  IInv'
<1> USE DEF IInv, SizeLoadHead, Goto
<1>1. TypeOK'
  BY DEF TypeOK, Threads, PC, Items
<1>2. ProducerInv'
  <2>1. Dist(head, tail) \in Int
    BY DistType, CapIsPositive DEF TypeOK, Index
  <2>2. Dist(idx[Producer], tail)' = Dist(head, tail)
        /\ Dist(head, tail)' = Dist(head, tail)
    BY DEF Dist, TypeOK, Threads
  <2>3. pc'[Producer] = "size_tail"
    BY DEF TypeOK, Threads
  <2>4. QED
    BY <2>1, <2>2, <2>3 DEF ProducerInv, Pushing
<1>3. ConsumerInv'
  BY TwoThreads DEF ConsumerInv, Popping, TypeOK, Threads
<1>4. CachesLag' /\ PreCheckHolds'
  BY DEF CachesLag, PreCheckHolds, Dist
<1>5. QED
  BY <1>1, <1>2, <1>3, <1>4

LEMMA FreeCapacityPreserves ==
  ASSUME IInv, FreeCapacity(Producer)
  PROVE  IInv'
<1> USE DEF IInv, FreeCapacity, Goto, Leave
<1>1. /\ Dist(idx[Producer], tail) \in Index /\ Dist(head, tail) \in Index
      /\ Dist(head, tail) <= Dist(idx[Producer], tail)
  BY DistType DEF TypeOK, Threads, ProducerInv
<1>2. TypeOK'
  BY <1>1, CapIsPositive DEF TypeOK, Threads, PC, Items, Index
<1>3. PreCheckHolds'
  <2>1. Dist(head, tail)' = Dist(head, tail)
    BY DEF Dist
  <2>2. QED
    BY <1>1, <2>1, CapIsPositive DEF PreCheckHolds, Index
<1>4. ProducerInv'
  BY DEF ProducerInv, Pushing, TypeOK, Threads
<1>5. ConsumerInv'
  BY TwoThreads DEF ConsumerInv, Popping, TypeOK, Threads
<1>6. CachesLag'
  BY DEF CachesLag, Dist
<1>7. QED
  BY <1>2, <1>3, <1>4, <1>5, <1>6

LEMMA PopStartPreserves ==
  ASSUME IInv, PopStart(Consumer)
  PROVE  IInv'
<1> USE DEF IInv, PopStart, Goto
<1>1. TypeOK'
  BY DEF TypeOK, Threads, PC, Items
<1>2. ProducerInv'
  BY TwoThreads DEF ProducerInv, Pushing, TypeOK, Threads, Dist
<1>3. ConsumerInv'
  BY DEF ConsumerInv, Popping, TypeOK, Threads
<1>4. CachesLag' /\ PreCheckHolds'
  BY DEF CachesLag, PreCheckHolds, Dist
<1>5. QED
  BY <1>1, <1>2, <1>3, <1>4

LEMMA PopRefreshPreserves ==
  ASSUME IInv, PopRefresh(Consumer)
  PROVE  IInv'
<1> USE DEF IInv, PopRefresh, Goto, Return, Leave
<1>1. TypeOK'
  <2>1. Consumer \in Threads /\ Blank \in Items
    BY DEF Threads, Items
  <2>2. CASE idx[Consumer] = tail
    <3> HIDE DEF Goto, Return, Leave
    <3>1. Return(Consumer, FALSE, Blank)
      BY <2>2
    <3>2. QED
      BY <2>1, <3>1, ReturnType DEF TypeOK
  <2>3. CASE idx[Consumer] # tail
    BY <2>3 DEF TypeOK, Threads, PC
  <2>4. QED
    BY <2>2, <2>3
<1>2. idx[Consumer] = head /\ pc[Consumer] = "pop_refresh"
  BY DEF ConsumerInv, Popping
<1>3. ConsumerInv'
  BY <1>2 DEF ConsumerInv, Popping, TypeOK, Threads
<1>4. ProducerInv'
  BY TwoThreads DEF ProducerInv, Pushing, TypeOK, Threads, Dist
<1>5. CachesLag' /\ PreCheckHolds'
  <2>1. Dist(head, tail) \in Int
    BY DistType, CapIsPositive DEF TypeOK, Index
  <2>2. QED
    BY <2>1 DEF CachesLag, PreCheckHolds, Dist
<1>6. QED
  BY <1>1, <1>3, <1>4, <1>5

LEMMA PopReadPreserves ==
  ASSUME IInv, PopRead(Consumer)
  PROVE  IInv'
<1> USE DEF IInv, PopRead, Goto
<1>1. TypeOK'
  BY DEF TypeOK, Threads, PC, Items
<1>2. idx[Consumer] = head
  BY DEF ConsumerInv, Popping
<1>3. ConsumerInv'
  BY <1>2 DEF ConsumerInv, Popping, TypeOK, Threads
<1>4. ProducerInv'
  BY TwoThreads DEF ProducerInv, Pushing, TypeOK, Threads, Dist
<1>5. CachesLag' /\ PreCheckHolds'
  BY DEF CachesLag, PreCheckHolds, Dist
<1>6. QED
  BY <1>1, <1>3, <1>4, <1>5

LEMMA PopPublishPreserves ==
  ASSUME IInv, PopPublish(Consumer)
  PROVE  IInv'
<1> USE DEF IInv, PopPublish, Goto, Return, Leave
<1>1. /\ head \in Index /\ tail \in Index /\ Inc(head) \in Index
      /\ headCache \in Index /\ tailCache \in Index
  BY IncType DEF TypeOK
<1>2. head' = Inc(head) /\ head # tailCache /\ tail' = tail
      /\ tailCache' = tailCache /\ headCache' = headCache /\ reserve' = reserve
  BY DEF ConsumerInv, Popping
<1>3. head # tail
  BY FreeSlotIsNotHead
<1>4. /\ Dist(head, tail) \in Index /\ Dist(headCache, tail) \in Index
      /\ Dist(head, tailCache) \in Index
  BY <1>1, DistType
<1>5. Dist(head', tail) = Dist(head, tail) - 1
      /\ Dist(head', tailCache) = Dist(head, tailCache) - 1
  BY <1>1, <1>2, <1>3, DistIncHead
<1>6. Dist(head, tail)' = Dist(head, tail) - 1
      /\ Dist(headCache, tail)' = Dist(headCache, tail)
      /\ Dist(head, tailCache)' = Dist(head, tailCache) - 1
  <2>1. Dist(head, tail)' = Dist(head', tail)
    BY <1>2 DEF Dist
  <2>2. Dist(head, tailCache)' = Dist(head', tailCache)
    BY <1>2 DEF Dist
  <2>3. Dist(headCache, tail)' = Dist(headCache, tail)
    BY <1>2 DEF Dist
  <2>4. QED
    BY <2>1, <2>2, <2>3, <1>5
<1>7. CachesLag'
  BY <1>4, <1>6, CapIsPositive DEF CachesLag, Index
<1>8. PreCheckHolds'
  BY <1>2, <1>4, <1>6, CapIsPositive DEF PreCheckHolds, TypeOK, Index
<1>9. TypeOK'
  <2>1. Consumer \in Threads /\ val[Consumer] \in Items
    BY DEF TypeOK, Threads
  <2> HIDE DEF Goto, Return, Leave
  <2>2. QED
    BY <1>1, <1>2, <2>1, ReturnType DEF TypeOK
<1>10. ConsumerInv'
  BY DEF ConsumerInv, Popping, TypeOK, Threads
<1>11. ProducerInv'
  <2>1. /\ pc'[Producer] = pc[Producer] /\ idx'[Producer] = idx[Producer]
        /\ val'[Producer] = val[Producer] /\ buffer' = buffer
    BY TwoThreads DEF TypeOK, Threads
  <2>2. Dist(idx[Producer], tail)' = Dist(idx[Producer], tail)
    BY <2>1, <1>2 DEF Dist
  <2>3. Dist(idx[Producer], tail) \in Index
    BY <1>1, DistType DEF TypeOK, Threads
  <2>4. pc'[Producer] = "size_tail"
          => Dist(head, tail)' <= Dist(idx[Producer], tail)'
    BY <2>1, <2>2, <2>3, <1>4, <1>6, CapIsPositive DEF ProducerInv, Index
  <2> HIDE DEF PopPublish, Goto, Return, Leave
  <2>5. QED
    BY <1>2, <2>1, <2>4 DEF ProducerInv, Pushing
<1>12. QED
  BY <1>7, <1>8, <1>9, <1>10, <1>11

LEMMA StutterPreserves ==
  ASSUME IInv, UNCHANGED vars
  PROVE  IInv'
BY DEF IInv, vars, TypeOK, CachesLag, ProducerInv, ConsumerInv, PreCheckHolds,
       Pushing, Popping, Dist

\* The invariant is inductive: every step of push, pop and freeCapacity keeps it.
LEMMA NextPreservesIInv == IInv /\ [Next]_vars => IInv'
<1> SUFFICES ASSUME IInv, [Next]_vars PROVE IInv'
  OBVIOUS
<1>1. CASE PushStep(Producer)
  BY <1>1, PushStartPreserves, PushRefreshPreserves, PushWritePreserves,
     PushPublishPreserves DEF PushStep
<1>2. CASE SizeStep(Producer)
  BY <1>2, SizeLoadHeadPreserves, FreeCapacityPreserves DEF SizeStep
<1>3. CASE PopStep(Consumer)
  BY <1>3, PopStartPreserves, PopRefreshPreserves, PopReadPreserves,
     PopPublishPreserves DEF PopStep
<1>4. CASE UNCHANGED vars
  BY <1>4, StutterPreserves
<1>5. QED
  BY <1>1, <1>2, <1>3, <1>4 DEF Next

-----------------------------------------------------------------------------
(* The theorems. *)

\* The cached indices of push and pop are stale on the safe side only, and a
\* thread's local copy of its own index is current (IInv, the inductive
\* invariant of push/pop/freeCapacity).
THEOREM Invariance == Spec => []IInv
<1>1. Init => IInv
  BY InitEstablishesIInv
<1>2. IInv /\ [Next]_vars => IInv'
  BY NextPreservesIInv
<1>3. QED
  BY <1>1, <1>2, PTL DEF Spec

\* Every index push and pop compute stays inside buffer_, and every slot holds
\* a pushed value or a default-constructed one.
THEOREM TypeCorrectness == Spec => []TypeOK
<1>1. IInv => TypeOK
  BY DEF IInv
<1>2. QED
  BY <1>1, Invariance, PTL

\* push and pop never touch the same slot of buffer_ at the same time, whatever
\* the capacity: the plain (non-atomic) slot accesses are free of data races.
THEOREM SlotRaceFreedom == Spec => []NoSlotRace
<1>1. IInv => NoSlotRace
  BY FreeSlotIsNotHead DEF IInv, NoSlotRace, ProducerInv, ConsumerInv,
     Pushing, Popping
<1>2. QED
  BY <1>1, Invariance, PTL

\* The room freeCapacity() reports to handleNalu is still there when the IDR
\* batch is pushed, whatever the consumer does in between.
THEOREM PreCheckIsSound == Spec => []PreCheckHolds
<1>1. IInv => PreCheckHolds
  BY DEF IInv
<1>2. QED
  BY <1>1, Invariance, PTL

-----------------------------------------------------------------------------
(* The occupied slots of a ring b with head h and tail t, oldest first.    *)

Occupied(b, h, t) == [i \in 1 .. Dist(h, t) |-> b[(h + i - 1) % CAP]]

\* The slot of the i-th element: an index, and not the free slot at tail.
LEMMA SlotValue ==
  ASSUME NEW h \in Index, NEW t \in Index, NEW i \in 1 .. Dist(h, t)
  PROVE  /\ (h + i - 1) % CAP = IF h + i - 1 < CAP THEN h + i - 1
                                                  ELSE h + i - 1 - CAP
         /\ (h + i - 1) % CAP \in Index
         /\ (h + i - 1) % CAP # t
<1>1. Dist(h, t) \in Index
      /\ Dist(h, t) = IF h <= t THEN t - h ELSE t - h + CAP
  BY DistType, DistValue
<1>2. h + i - 1 \in 0 .. 2 * CAP - 1 /\ i \in Nat
  BY <1>1, CapIsPositive DEF Index
<1>3. (h + i - 1) % CAP = IF h + i - 1 < CAP THEN h + i - 1
                                            ELSE h + i - 1 - CAP
  <2>1. CASE h + i - 1 < CAP
    BY <1>2, <2>1, CapIsPositive DEF Index
  <2>2. CASE h + i - 1 >= CAP
    BY <1>2, <2>2, CapIsPositive DEF Index
  <2>3. QED
    BY <1>2, <2>1, <2>2, CapIsPositive DEF Index
<1>4. (h + i - 1) % CAP \in Index
  BY <1>2, <1>3, CapIsPositive DEF Index
<1>5. (h + i - 1) % CAP # t
  BY <1>1, <1>3, CapIsPositive DEF Index
<1>6. QED
  BY <1>3, <1>4, <1>5

LEMMA OccupiedIsSeq ==
  ASSUME NEW b \in [Index -> Items], NEW h \in Index, NEW t \in Index
  PROVE  /\ Occupied(b, h, t) \in Seq(Items)
         /\ Len(Occupied(b, h, t)) = Dist(h, t)
         /\ \A i \in 1 .. Dist(h, t) :
              Occupied(b, h, t)[i] = b[(h + i - 1) % CAP]
<1> DEFINE n == Dist(h, t)
           s == Occupied(b, h, t)
<1>1. n \in Nat
  <2>1. n \in Index
    BY DistType
  <2> HIDE DEF n
  <2>2. QED
    BY <2>1, CapIsPositive DEF Index
<1>2. \A i \in 1 .. n : b[(h + i - 1) % CAP] \in Items
  BY SlotValue
<1>3. s \in [1 .. n -> Items]
  BY <1>2 DEF Occupied
<1>4. s \in Seq(Items)
  BY <1>1, <1>3, SeqDef
<1>5. DOMAIN s = 1 .. n /\ DOMAIN s = 1 .. Len(s) /\ Len(s) \in Nat
  BY <1>3, <1>4, LenProperties
<1>6. Len(s) = n
  BY <1>1, <1>5
<1>7. QED
  BY <1>4, <1>6 DEF Occupied

\* The queue is empty exactly when head and tail meet.
LEMMA OccupiedEmpty ==
  ASSUME NEW b \in [Index -> Items], NEW h \in Index, NEW t \in Index
  PROVE  Occupied(b, h, t) = <<>> <=> h = t
<1>1. Occupied(b, h, t) \in Seq(Items) /\ Len(Occupied(b, h, t)) = Dist(h, t)
  BY OccupiedIsSeq
<1>2. Occupied(b, h, t) = <<>> <=> Dist(h, t) = 0
  BY <1>1, EmptySeq
<1>3. QED
  BY <1>2, DistZero

\* Filling the free slot at tail leaves the queue as it is ...
LEMMA WriteOutside ==
  ASSUME NEW b \in [Index -> Items], NEW h \in Index, NEW t \in Index,
         NEW v \in Items
  PROVE  Occupied([b EXCEPT ![t] = v], h, t) = Occupied(b, h, t)
<1>1. \A i \in 1 .. Dist(h, t) :
        [b EXCEPT ![t] = v][(h + i - 1) % CAP] = b[(h + i - 1) % CAP]
  BY SlotValue
<1>2. QED
  BY <1>1 DEF Occupied

\* ... and advancing tail over it appends its content.
LEMMA AdvanceTail ==
  ASSUME NEW b \in [Index -> Items], NEW h \in Index, NEW t \in Index,
         Inc(t) # h
  PROVE  Occupied(b, h, Inc(t)) = Append(Occupied(b, h, t), b[t])
<1> DEFINE s == Occupied(b, h, t)
           u == Occupied(b, h, Inc(t))
           a == Append(s, b[t])
           n == Dist(h, t)
<1>1. Inc(t) \in Index /\ b[t] \in Items /\ n \in Nat
  BY IncType, DistType, CapIsPositive DEF Index
<1>2. Dist(h, Inc(t)) = n + 1
  BY DistIncTail
<1>3. /\ s \in Seq(Items) /\ Len(s) = n
      /\ \A i \in 1 .. n : s[i] = b[(h + i - 1) % CAP]
  BY OccupiedIsSeq
<1>4. /\ u \in Seq(Items) /\ Len(u) = n + 1
      /\ \A i \in 1 .. n + 1 : u[i] = b[(h + i - 1) % CAP]
  BY <1>1, <1>2, OccupiedIsSeq
<1>5. /\ a \in Seq(Items) /\ Len(a) = n + 1
      /\ \A i \in 1 .. n : a[i] = s[i]
      /\ a[n + 1] = b[t]
  <2> HIDE DEF s
  <2>1. QED
    BY <1>1, <1>3, AppendProperties
<1>6. (h + (n + 1) - 1) % CAP = t
  <2>1. n + 1 \in 1 .. Dist(h, Inc(t))
    BY <1>1, <1>2
  <2>2. (h + (n + 1) - 1) % CAP
          = IF h + (n + 1) - 1 < CAP THEN h + (n + 1) - 1
                                     ELSE h + (n + 1) - 1 - CAP
    BY <1>1, <2>1, SlotValue
  <2>3. n = IF h <= t THEN t - h ELSE t - h + CAP
    BY DistValue
  <2> HIDE DEF n
  <2>4. QED
    BY <2>2, <2>3, CapIsPositive DEF Index
<1>7. \A i \in 1 .. n + 1 : u[i] = a[i]
  <2> SUFFICES ASSUME NEW i \in 1 .. n + 1 PROVE u[i] = a[i]
    OBVIOUS
  <2> HIDE DEF s, u, a, n
  <2>1. CASE i = n + 1
    BY <1>4, <1>5, <1>6, <2>1
  <2>2. CASE i # n + 1
    <3>1. i \in 1 .. n
      BY <1>1, <2>2
    <3>2. QED
      BY <1>3, <1>4, <1>5, <3>1
  <2>3. QED
    BY <2>1, <2>2
<1>8. u = a
  <2> HIDE DEF s, u, a, n
  <2>1. QED
    BY <1>4, <1>5, <1>7, SeqEqual
<1>9. QED
  BY <1>8

\* Advancing head drops the oldest element, the content of slot head.
LEMMA AdvanceHead ==
  ASSUME NEW b \in [Index -> Items], NEW h \in Index, NEW t \in Index,
         h # t
  PROVE  /\ Occupied(b, h, t) # <<>>
         /\ Head(Occupied(b, h, t)) = b[h]
         /\ Occupied(b, Inc(h), t) = Tail(Occupied(b, h, t))
<1> DEFINE s == Occupied(b, h, t)
           u == Occupied(b, Inc(h), t)
           n == Dist(h, t)
<1>1. Inc(h) \in Index /\ n \in Nat /\ n < CAP
      /\ Inc(h) = IF h = CAP - 1 THEN 0 ELSE h + 1
  <2>1. n \in Index /\ Inc(h) \in Index
    BY IncType, DistType
  <2>2. Inc(h) = IF h = CAP - 1 THEN 0 ELSE h + 1
    BY IncValue
  <2>3. n \in Nat /\ n < CAP
    <3> HIDE DEF n
    <3>1. QED
      BY <2>1, CapIsPositive DEF Index
  <2>4. QED
    BY <2>1, <2>2, <2>3
<1>2. Dist(Inc(h), t) = n - 1 /\ n # 0
  BY DistIncHead, DistZero
<1>3. /\ s \in Seq(Items) /\ Len(s) = n
      /\ \A i \in 1 .. n : s[i] = b[(h + i - 1) % CAP]
  BY OccupiedIsSeq
<1>4. /\ u \in Seq(Items) /\ Len(u) = n - 1
      /\ \A i \in 1 .. n - 1 : u[i] = b[(Inc(h) + i - 1) % CAP]
  BY <1>1, <1>2, OccupiedIsSeq
<1>5. s # <<>>
  BY OccupiedEmpty
<1>6. Head(s) = b[h]
  <2>1. 1 \in 1 .. n /\ (h + 1 - 1) % CAP = h
    BY <1>1, <1>2, CapIsPositive DEF Index
  <2>2. s[1] = b[h]
    BY <1>3, <2>1
  <2> HIDE DEF s
  <2>3. QED
    BY <2>2
<1>7. /\ Tail(s) \in Seq(Items) /\ Len(Tail(s)) = n - 1
      /\ \A i \in 1 .. n - 1 : Tail(s)[i] = s[i + 1]
  <2> HIDE DEF s
  <2>1. QED
    BY <1>3, <1>5, HeadTailProperties
<1>8. \A i \in 1 .. n - 1 : u[i] = Tail(s)[i]
  <2> SUFFICES ASSUME NEW i \in 1 .. n - 1 PROVE u[i] = Tail(s)[i]
    OBVIOUS
  <2>1. i \in 1 .. Dist(Inc(h), t) /\ i + 1 \in 1 .. n
    BY <1>1, <1>2
  <2>2. (Inc(h) + i - 1) % CAP
          = IF Inc(h) + i - 1 < CAP THEN Inc(h) + i - 1
                                    ELSE Inc(h) + i - 1 - CAP
    BY <1>1, <2>1, SlotValue
  <2>3. (h + (i + 1) - 1) % CAP
          = IF h + (i + 1) - 1 < CAP THEN h + (i + 1) - 1
                                     ELSE h + (i + 1) - 1 - CAP
    BY <2>1, SlotValue
  <2>4. (Inc(h) + i - 1) % CAP = (h + (i + 1) - 1) % CAP
    BY <1>1, <2>1, <2>2, <2>3, CapIsPositive DEF Index
  <2> HIDE DEF s, u, n
  <2>5. QED
    BY <1>3, <1>4, <1>7, <2>1, <2>4
<1>9. u = Tail(s)
  <2> HIDE DEF s, u, n
  <2>1. QED
    BY <1>4, <1>7, <1>8, SeqEqual
<1>10. QED
  BY <1>5, <1>6, <1>9

-----------------------------------------------------------------------------
(* The refinement, step by step.                                           *)

LEMMA ContentsIsOccupied == Contents = Occupied(buffer, head, tail)
BY DEF Contents, Occupied

\* The room the abstract queue has left is what freeCapacity() computes.
LEMMA FreeValue ==
  ASSUME TypeOK
  PROVE  /\ Len(Contents) = Dist(head, tail)
         /\ Fifo!Free = CAP - 1 - Dist(head, tail)
BY OccupiedIsSeq, ContentsIsOccupied DEF TypeOK, Fifo!Free

\* A step that moves neither index and writes no occupied slot.
LEMMA QuietStep ==
  ASSUME buffer' = buffer, head' = head, tail' = tail
  PROVE  Contents' = Contents
BY DEF Contents, Dist

LEMMA InitRefines == Init => Fifo!Init
<1> SUFFICES ASSUME Init PROVE Fifo!Init
  OBVIOUS
<1>1. TypeOK
  BY InitEstablishesIInv DEF IInv
<1>2. Contents = <<>>
  BY <1>1, OccupiedEmpty, ContentsIsOccupied DEF TypeOK, Init
<1>3. QED
  BY <1>2 DEF Init, Fifo!Init

\* A full ring makes push fail, with no pre-checked room outstanding.
LEMMA PushRefreshRefines ==
  ASSUME IInv, PushRefresh(Producer)
  PROVE  Fifo!Next \/ UNCHANGED Fifo!vars
<1>1. TypeOK /\ idx[Producer] = tail /\ val[Producer] \in Values
  BY DEF IInv, ProducerInv, Pushing, PushRefresh
<1>2. Contents' = Contents /\ reserve' = reserve
  BY QuietStep DEF PushRefresh
<1>3. CASE Inc(tail) = head
  <2>1. Dist(head, tail) = CAP - 1
    BY <1>1, <1>3, DistFull DEF TypeOK
  <2>2. Fifo!Free = 0
    BY <1>1, <2>1, FreeValue, CapIsPositive
  <2>3. reserve = 0
    BY <1>1, <2>1, CapIsPositive DEF IInv, PreCheckHolds, TypeOK
  <2>4. ret' = [ret EXCEPT ![Producer] = [ok |-> FALSE, item |-> val[Producer]]]
    BY <1>1, <1>3 DEF PushRefresh, Return
  <2>5. Fifo!PushFull(Producer, val[Producer])
    BY <1>2, <2>2, <2>3, <2>4 DEF Fifo!PushFull
  <2>6. QED
    BY <1>1, <2>5 DEF Fifo!Next, Threads
<1>4. CASE Inc(tail) # head
  BY <1>1, <1>2, <1>4 DEF PushRefresh, Fifo!vars
<1>5. QED
  BY <1>3, <1>4

\* The store to the free slot is invisible ...
LEMMA PushWriteRefines ==
  ASSUME IInv, PushWrite(Producer)
  PROVE  UNCHANGED Fifo!vars
<1>1. TypeOK /\ idx[Producer] = tail /\ val[Producer] \in Items
  BY DEF IInv, TypeOK, ProducerInv, Pushing, PushWrite, Threads
<1>2. buffer' = [buffer EXCEPT ![tail] = val[Producer]]
      /\ head' = head /\ tail' = tail
  BY <1>1 DEF PushWrite
<1>3. Contents' = Occupied(buffer', head, tail)
  BY <1>2 DEF Contents, Occupied, Dist
<1>4. Contents' = Contents
  BY <1>1, <1>2, <1>3, WriteOutside, ContentsIsOccupied DEF TypeOK
<1>5. QED
  BY <1>4 DEF PushWrite, Fifo!vars

\* ... until the release store to tail_ appends it to the queue.
LEMMA PushPublishRefines ==
  ASSUME IInv, PushPublish(Producer)
  PROVE  Fifo!Next
<1> DEFINE v == val[Producer]
<1>1. /\ TypeOK /\ idx[Producer] = tail /\ v \in Values
      /\ Inc(tail) # headCache /\ buffer[tail] = v
  BY DEF IInv, ProducerInv, Pushing, PushPublish
<1>2. Inc(tail) # head /\ Dist(head, tail) # CAP - 1
  <2>1. /\ Dist(headCache, tail) # CAP - 1
        /\ Dist(headCache, tail) \in Index /\ Dist(head, tail) \in Index
    BY <1>1, DistFull, DistType DEF TypeOK
  <2>2. Dist(head, tail) # CAP - 1
    BY <2>1, CapIsPositive DEF IInv, CachesLag, Index
  <2>3. QED
    BY <1>1, <2>2, DistFull DEF TypeOK
<1>3. Contents' = Append(Contents, v)
  <2>1. Contents' = Occupied(buffer, head, Inc(tail))
    BY <1>1 DEF PushPublish, Contents, Occupied, Dist
  <2>2. QED
    BY <1>1, <1>2, <2>1, AdvanceTail, ContentsIsOccupied DEF TypeOK
<1>4. Fifo!Free > 0
  <2>1. Dist(head, tail) \in Index
    BY <1>1, DistType DEF TypeOK
  <2>2. QED
    BY <1>1, <1>2, <2>1, FreeValue, CapIsPositive DEF Index
<1>5. ret' = [ret EXCEPT ![Producer] = [ok |-> TRUE, item |-> v]]
  BY DEF PushPublish, Return
<1>6. reserve' = Fifo!Spend
  BY <1>1, CapIsPositive DEF PushPublish, Fifo!Spend, TypeOK
<1>7. Fifo!Push(Producer, v)
  BY <1>3, <1>4, <1>5, <1>6 DEF Fifo!Push
<1>8. QED
  BY <1>1, <1>7 DEF Fifo!Next, Threads

\* The head_ that size() loaded may be old by now: the promise is low, not high.
LEMMA FreeCapacityRefines ==
  ASSUME IInv, FreeCapacity(Producer)
  PROVE  Fifo!Next
<1> DEFINE d == Dist(idx[Producer], tail)
<1>1. TypeOK /\ d \in Index /\ Dist(head, tail) \in Index
  BY DistType DEF IInv, TypeOK, Threads
<1>2. Dist(head, tail) <= d
  BY DEF IInv, ProducerInv, FreeCapacity
<1>3. reserve' = CAP - 1 - d
  BY DEF FreeCapacity
<1>4. reserve' \in 0 .. Fifo!Free
  <2> HIDE DEF d
  <2>1. QED
    BY <1>1, <1>2, <1>3, FreeValue, CapIsPositive DEF Index
<1>5. Contents' = Contents /\ ret' = ret
  BY QuietStep DEF FreeCapacity
<1>6. QED
  BY <1>4, <1>5 DEF Fifo!PreCheck, Fifo!Next

\* An empty ring makes pop fail.
LEMMA PopRefreshRefines ==
  ASSUME IInv, PopRefresh(Consumer)
  PROVE  Fifo!Next \/ UNCHANGED Fifo!vars
<1>1. TypeOK /\ idx[Consumer] = head
  BY DEF IInv, ConsumerInv, Popping, PopRefresh
<1>2. Contents' = Contents /\ reserve' = reserve
  BY QuietStep DEF PopRefresh
<1>3. CASE head = tail
  <2>1. Contents = <<>>
    BY <1>1, <1>3, OccupiedEmpty, ContentsIsOccupied DEF TypeOK
  <2>2. ret' = [ret EXCEPT ![Consumer] = [ok |-> FALSE, item |-> Blank]]
    BY <1>1, <1>3 DEF PopRefresh, Return
  <2>3. Fifo!PopEmpty(Consumer)
    BY <1>2, <2>1, <2>2 DEF Fifo!PopEmpty
  <2>4. QED
    BY <2>3 DEF Fifo!Next, Threads
<1>4. CASE head # tail
  BY <1>1, <1>2, <1>4 DEF PopRefresh, Fifo!vars
<1>5. QED
  BY <1>3, <1>4

\* The release store to head_ takes the oldest element, the one pop() copied.
LEMMA PopPublishRefines ==
  ASSUME IInv, PopPublish(Consumer)
  PROVE  Fifo!Next
<1>1. TypeOK /\ idx[Consumer] = head /\ val[Consumer] = buffer[head]
  BY DEF IInv, ConsumerInv, Popping, PopPublish
<1>2. head # tail
  BY FreeSlotIsNotHead DEF PopPublish
<1>3. /\ Contents # <<>> /\ Head(Contents) = val[Consumer]
      /\ Contents' = Tail(Contents)
  <2>1. Contents' = Occupied(buffer, Inc(head), tail)
    BY <1>1 DEF PopPublish, Contents, Occupied, Dist
  <2>2. QED
    BY <1>1, <1>2, <2>1, AdvanceHead, ContentsIsOccupied DEF TypeOK
<1>4. ret' = [ret EXCEPT ![Consumer] = [ok |-> TRUE, item |-> val[Consumer]]]
      /\ reserve' = reserve
  BY DEF PopPublish, Return
<1>5. Fifo!Pop(Consumer)
  BY <1>3, <1>4 DEF Fifo!Pop
<1>6. QED
  BY <1>5 DEF Fifo!Next, Threads

LEMMA StepRefines == IInv /\ [Next]_vars => [Fifo!Next]_(Fifo!vars)
<1> SUFFICES ASSUME IInv, [Next]_vars
             PROVE  Fifo!Next \/ UNCHANGED Fifo!vars
  OBVIOUS
<1>1. CASE PushStep(Producer)
  <2>1. ASSUME NEW v \in Values, PushStart(Producer, v)
        PROVE  UNCHANGED Fifo!vars
    BY <2>1, QuietStep DEF PushStart, Fifo!vars
  <2>2. QED
    BY <1>1, <2>1, PushRefreshRefines, PushWriteRefines, PushPublishRefines
       DEF PushStep
<1>2. CASE SizeStep(Producer)
  <2>1. ASSUME SizeLoadHead(Producer)
        PROVE  UNCHANGED Fifo!vars
    BY <2>1, QuietStep DEF SizeLoadHead, Fifo!vars
  <2>2. QED
    BY <1>2, <2>1, FreeCapacityRefines DEF SizeStep
<1>3. CASE PopStep(Consumer)
  <2>1. ASSUME PopStart(Consumer) \/ PopRead(Consumer)
        PROVE  UNCHANGED Fifo!vars
    BY <2>1, QuietStep DEF PopStart, PopRead, Fifo!vars
  <2>2. QED
    BY <1>3, <2>1, PopRefreshRefines, PopPublishRefines DEF PopStep
<1>4. CASE UNCHANGED vars
  BY <1>4, QuietStep DEF vars, Fifo!vars
<1>5. QED
  BY <1>1, <1>2, <1>3, <1>4 DEF Next

\* With one producer and one consumer, the ring's loads and stores add up to
\* a bounded FIFO queue whose push, pop and freeCapacity are atomic: no
\* element is lost, repeated, reordered or invented, whatever the capacity.
THEOREM Refinement == Spec => ImplementsFifo
<1>1. Init => Fifo!Init
  BY InitRefines
<1>2. IInv /\ [Next]_vars => [Fifo!Next]_(Fifo!vars)
  BY StepRefines
<1>3. QED
  BY <1>1, <1>2, Invariance, PTL DEF Spec, ImplementsFifo, Fifo!Spec

-----------------------------------------------------------------------------
(* RingInApp.  While only the feeding thread pushes and init() clears      *)
(* undisturbed, everything that is proved of the ring alone holds, also    *)
(* across restarts, and after executions that had broken it.               *)

\* The types, which hold in every execution; init() runs while the input thread
\* is joined.
AppTypeOK ==
  /\ TypeOK
  /\ plan \in Seq(Values) /\ held \in Items
  /\ initAt \in {"head", "tail", "headCache", "tailCache", "done"}
  /\ initAt # "done" => pc[Consumer] = "idle" /\ held = Blank

\* While the contract of the ring is kept, its own invariant holds, and owed is
\* the number of its elements at every step, not only between operations.
KeptRing ==
  onePusher /\ quietClear /\ initAt = "done" => IInv /\ owed = Dist(head, tail)

\* What an undisturbed clear() has stored so far.
KeptClear ==
  onePusher /\ quietClear /\ initAt # "done" =>
    /\ Between
    /\ initAt # "head" => head = 0
    /\ initAt \in {"headCache", "tailCache"} => tail = 0 /\ owed = 0
    /\ initAt = "tailCache" => headCache = 0

AppInv == AppTypeOK /\ KeptRing /\ KeptClear

-----------------------------------------------------------------------------
(* Types *)

LEMMA KindsAreItems ==
  /\ Sps \in Values /\ Pps \in Values /\ Idr \in Values /\ Frame \in Values
  /\ Blank \in Items /\ Values \subseteq Items /\ Producer \in Threads /\ Consumer \in Threads
  BY KindsAreValues DEF Items, Threads

\* push keeps the types whoever calls it ...
LEMMA PushTypes ==
  ASSUME TypeOK, NEW t \in Threads,
         \/ \E v \in Values : PushStart(t, v)
         \/ PushRefresh(t) \/ PushWrite(t) \/ PushPublish(t)
  PROVE  TypeOK'
  <1>1. ASSUME NEW v \in Values, PushStart(t, v) PROVE TypeOK'
    BY <1>1 DEF TypeOK, PushStart, Goto, PC, Items
  <1>2. val[t] \in Items /\ idx[t] \in Index /\ Inc(idx[t]) \in Index
    BY IncType DEF TypeOK
  <1>3. ASSUME PushRefresh(t) PROVE TypeOK'
    <2>1. CASE Return(t, FALSE, val[t])
      BY <1>2, <1>3, <2>1, ReturnType DEF TypeOK, PushRefresh
    <2>2. CASE Goto(t, "push_write") /\ UNCHANGED <<idx, val, ret>>
      BY <1>3, <2>2 DEF TypeOK, PushRefresh, Goto, PC
    <2> QED
      BY <1>3, <2>1, <2>2 DEF PushRefresh
  <1>4. ASSUME PushWrite(t) PROVE TypeOK'
    BY <1>2, <1>4 DEF TypeOK, PushWrite, Goto, PC
  <1>5. ASSUME PushPublish(t) PROVE TypeOK'
    <2>1. reserve' \in 0 .. CAP - 1
      BY <1>5, CapIsPositive DEF TypeOK, PushPublish
    <2> QED
      BY <1>2, <1>5, <2>1, ReturnType DEF TypeOK, PushPublish
  <1> QED
    BY <1>1, <1>3, <1>4, <1>5

\* ... and so do pop and freeCapacity.
LEMMA OtherTypes ==
  ASSUME TypeOK, NEW t \in Threads, PopStep(t) \/ SizeStep(t)
  PROVE  TypeOK'
  <1>1. ASSUME PopStart(t) PROVE TypeOK'
    BY <1>1, KindsAreItems DEF TypeOK, PopStart, Goto, PC
  <1>2. val[t] \in Items /\ idx[t] \in Index /\ Inc(idx[t]) \in Index /\ buffer[idx[t]] \in Items
    BY IncType DEF TypeOK
  <1>3. ASSUME PopRefresh(t) PROVE TypeOK'
    <2>1. CASE Return(t, FALSE, Blank)
      BY <1>3, <2>1, ReturnType, KindsAreItems DEF TypeOK, PopRefresh
    <2>2. CASE Goto(t, "pop_read") /\ UNCHANGED <<idx, val, ret>>
      BY <1>3, <2>2 DEF TypeOK, PopRefresh, Goto, PC
    <2> QED
      BY <1>3, <2>1, <2>2 DEF PopRefresh
  <1>4. ASSUME PopRead(t) PROVE TypeOK'
    BY <1>2, <1>4 DEF TypeOK, PopRead, Goto, PC
  <1>5. ASSUME PopPublish(t) PROVE TypeOK'
    BY <1>2, <1>5, ReturnType DEF TypeOK, PopPublish
  <1>6. ASSUME FreeCapacity(t) PROVE TypeOK'
    <2>1. Dist(idx[t], tail) \in 0 .. CAP - 1
      BY <1>2, DistType DEF TypeOK, Index
    <2>2. reserve' \in 0 .. CAP - 1
      BY <1>6, <2>1, CapIsPositive DEF FreeCapacity
    <2> QED
      BY <1>6, <2>2, LeaveType DEF TypeOK, FreeCapacity
  <1>7. ASSUME SizeLoadHead(t) PROVE TypeOK'
    BY <1>7 DEF TypeOK, SizeLoadHead, Goto, PC
  <1> QED
    BY <1>1, <1>3, <1>4, <1>5, <1>6, <1>7 DEF PopStep, SizeStep

-----------------------------------------------------------------------------
(* The steps *)

LEMMA AppInitHolds == AppInit => AppInv
  <1> SUFFICES ASSUME AppInit PROVE AppInv
    OBVIOUS
  <1>1. IInv
    BY InitEstablishesIInv DEF AppInit
  <1>2. owed = Dist(head, tail)
    <2>1. 0 \in Index /\ head = 0 /\ tail = 0
      BY CapIsPositive DEF AppInit, Init, Index
    <2> QED
      BY <2>1, DistZero DEF AppInit
  <1>3. AppTypeOK
    BY <1>1, KindsAreItems DEF AppInit, AppTypeOK, IInv
  <1> QED
    BY <1>1, <1>2, <1>3 DEF AppInv, KeptRing, KeptClear, AppInit

\* A step of the feeding thread is one of the ring's contract; one that meets
\* clear() ends quietClear.
LEMMA FeederKeeps ==
  ASSUME AppInv, FeederAtWork, UNCHANGED <<held, initAt, onePusher>>, plan' \in Seq(Values),
         Next, UNCHANGED <<head, tail>>, UNCHANGED owed, TypeOK', pc'[Consumer] = pc[Consumer]
  PROVE  AppInv'
  <1>1. AppTypeOK'
    BY DEF AppInv, AppTypeOK
  <1>2. KeptRing'
    <2> SUFFICES ASSUME onePusher, quietClear, initAt = "done" PROVE KeptRing'
      BY DEF KeptRing, FeederAtWork
    <2>1. IInv /\ owed = Dist(head, tail)
      BY DEF AppInv, KeptRing
    <2>2. IInv'
      BY <2>1, NextPreservesIInv
    <2>3. Dist(head, tail)' = Dist(head, tail)
      BY DEF Dist
    <2> QED
      BY <2>1, <2>2, <2>3 DEF KeptRing
  <1>3. KeptClear'
    BY DEF KeptClear, FeederAtWork
  <1> QED
    BY <1>1, <1>2, <1>3 DEF AppInv

LEMMA FeedKeeps ==
  ASSUME AppInv, FeedIdr \/ DecideIdr \/ FeedFrame \/ FeedNext
  PROVE  AppInv'
  <1>0. TypeOK /\ plan \in Seq(Values)
    BY DEF AppInv, AppTypeOK
  <1>1. ASSUME FeedIdr PROVE AppInv'
    <2>1. TypeOK'
      BY <1>0, <1>1, OtherTypes, KindsAreItems DEF FeedIdr, SizeStep
    <2>2. pc'[Consumer] = pc[Consumer] /\ UNCHANGED <<head, tail>>
      BY <1>0, <1>1, TwoThreads DEF FeedIdr, SizeLoadHead, Goto, TypeOK, Threads
    <2>3. Next
      BY <1>1 DEF FeedIdr, Next, SizeStep
    <2> QED
      BY <1>0, <1>1, <2>1, <2>2, <2>3, FeederKeeps DEF FeedIdr
  <1>2. ASSUME DecideIdr PROVE AppInv'
    <2>1. TypeOK'
      BY <1>0, <1>2, OtherTypes, KindsAreItems DEF DecideIdr, SizeStep
    <2>2. pc'[Consumer] = pc[Consumer] /\ UNCHANGED <<head, tail>>
      BY <1>0, <1>2, TwoThreads DEF DecideIdr, FreeCapacity, Leave, Goto, TypeOK, Threads
    <2>3. Next
      BY <1>2 DEF DecideIdr, Next, SizeStep
    <2>4. plan' \in Seq(Values)
      <3>1. IdrBatch \in Seq(Values) /\ <<>> \in Seq(Values)
        BY KindsAreItems DEF IdrBatch
      <3> QED
        BY <1>2, <3>1 DEF DecideIdr
    <2> QED
      BY <1>2, <2>1, <2>2, <2>3, <2>4, FeederKeeps DEF DecideIdr
  <1>3. ASSUME FeedFrame PROVE AppInv'
    <2>1. TypeOK'
      BY <1>0, <1>3, PushTypes, KindsAreItems DEF FeedFrame
    <2>2. pc'[Consumer] = pc[Consumer] /\ UNCHANGED <<head, tail>>
      BY <1>0, <1>3, TwoThreads DEF FeedFrame, PushStart, Goto, TypeOK, Threads
    <2>3. Next
      BY <1>3, KindsAreItems DEF FeedFrame, Next, PushStep
    <2> QED
      BY <1>0, <1>3, <2>1, <2>2, <2>3, FeederKeeps DEF FeedFrame
  <1>4. ASSUME FeedNext PROVE AppInv'
    <2>1. Head(plan) \in Values /\ Tail(plan) \in Seq(Values)
      BY <1>0, <1>4 DEF FeedNext
    <2>2. TypeOK'
      BY <1>0, <1>4, <2>1, PushTypes, KindsAreItems DEF FeedNext
    <2>3. pc'[Consumer] = pc[Consumer] /\ UNCHANGED <<head, tail>>
      BY <1>0, <1>4, TwoThreads DEF FeedNext, PushStart, Goto, TypeOK, Threads
    <2>4. Next
      BY <1>4, <2>1 DEF FeedNext, Next, PushStep
    <2> QED
      BY <1>4, <2>1, <2>2, <2>3, <2>4, FeederKeeps DEF FeedNext
  <1> QED
    BY <1>1, <1>2, <1>3, <1>4

\* The rest of a push. While the contract is kept it is the feeding thread's, and
\* its store to tail_ makes the ring one longer.
LEMMA FinishPushKeeps ==
  ASSUME AppInv, NEW t \in Threads, FinishPush(t)
  PROVE  AppInv'
  <1>1. AppTypeOK'
    <2>1. TypeOK'
      BY PushTypes DEF AppInv, AppTypeOK, FinishPush
    <2>2. initAt # "done" => t = Producer
      BY DEF AppInv, AppTypeOK, FinishPush, PushRefresh, PushWrite, PushPublish, Threads
    <2>3. t = Producer => pc'[Consumer] = pc[Consumer]
      BY TwoThreads DEF AppInv, AppTypeOK, TypeOK, Threads, FinishPush, PushRefresh, PushWrite,
                        PushPublish, Return, Leave, Goto
    <2> QED
      BY <2>1, <2>2, <2>3 DEF AppInv, AppTypeOK, FinishPush
  <1>2. KeptRing'
    <2> SUFFICES ASSUME onePusher, quietClear, initAt = "done" PROVE KeptRing'
      BY DEF KeptRing, FinishPush, FeederAtWork
    <2>1. IInv /\ owed = Dist(head, tail)
      BY DEF AppInv, KeptRing
    <2>2. t = Producer
      BY <2>1 DEF IInv, ConsumerInv, Popping, Threads, FinishPush, PushRefresh, PushWrite,
                  PushPublish
    <2>3. IInv'
      BY <2>1, <2>2, PushRefreshPreserves, PushWritePreserves, PushPublishPreserves DEF FinishPush
    <2>4. CASE PushRefresh(t) \/ PushWrite(t)
      <3>1. UNCHANGED <<head, tail>> /\ owed' = owed
        BY <2>4 DEF PushRefresh, PushWrite, FinishPush, PushPublish
      <3>2. Dist(head, tail)' = Dist(head, tail)
        BY <3>1 DEF Dist
      <3> QED
        BY <2>1, <2>3, <3>1, <3>2 DEF KeptRing
    <2>5. CASE PushPublish(t)
      <3>1. owed' = Inc(owed) /\ tail' = Inc(tail) /\ head' = head
        BY <2>1, <2>2, <2>5 DEF FinishPush, PushPublish, PushRefresh, PushWrite, IInv, ProducerInv,
                                Pushing
      <3>2. head \in Index /\ tail \in Index /\ headCache \in Index /\ Inc(tail) \in Index
        BY <2>1, IncType DEF IInv, TypeOK
      <3>3. Inc(tail) # head
        <4>1. Inc(tail) # headCache /\ Dist(head, tail) <= Dist(headCache, tail)
          BY <2>1, <2>2, <2>5 DEF PushPublish, IInv, ProducerInv, CachesLag
        <4>2. Dist(headCache, tail) \in Index /\ Dist(head, tail) \in Index
          BY <3>2, DistType
        <4>3. Dist(headCache, tail) # CAP - 1
          BY <3>2, <4>1, DistFull
        <4>4. Dist(head, tail) # CAP - 1
          BY <4>1, <4>2, <4>3, CapIsPositive DEF Index
        <4> QED
          BY <3>2, <4>4, DistFull
      <3>4. Dist(head, Inc(tail)) = Dist(head, tail) + 1 /\ Dist(head, tail) \in Index
            /\ Dist(head, Inc(tail)) \in Index
        BY <3>2, <3>3, DistIncTail, DistType
      <3>5. Inc(owed) = Dist(head, tail) + 1
        BY <2>1, <3>4, IncValue, CapIsPositive DEF Index
      <3>6. Dist(head, tail)' = Dist(head, Inc(tail))
        BY <3>1 DEF Dist
      <3> QED
        BY <2>3, <3>1, <3>4, <3>5, <3>6 DEF KeptRing
    <2> QED
      BY <2>4, <2>5 DEF FinishPush
  <1>3. KeptClear'
    BY DEF KeptClear, FinishPush, FeederAtWork
  <1> QED
    BY <1>1, <1>2, <1>3 DEF AppInv

LEMMA TakeKeeps ==
  ASSUME AppInv, TakeStart \/ TakeOn \/ TakeDone
  PROVE  AppInv'
  <1>0. TypeOK
    BY DEF AppInv, AppTypeOK
  <1>1. PopStep(Consumer) /\ UNCHANGED <<plan, initAt, onePusher, quietClear>> /\ initAt = "done"
        /\ held' \in Items
    <2>1. held \in Items /\ {Blank} \cup ({val[Consumer]} \cap {Sps, Pps}) \subseteq Items
      BY KindsAreItems DEF AppInv, AppTypeOK
    <2>2. pc[Consumer] # "idle" => initAt = "done"
      BY DEF AppInv, AppTypeOK
    <2> QED
      BY <2>1, <2>2 DEF TakeStart, TakeOn, TakeDone, PopStep, appVars, PopRefresh, PopRead,
                        PopPublish
  <1>2. AppTypeOK'
    BY <1>0, <1>1, OtherTypes, KindsAreItems DEF AppInv, AppTypeOK
  <1>3. KeptRing'
    <2> SUFFICES ASSUME onePusher, quietClear PROVE KeptRing'
      BY <1>1 DEF KeptRing
    <2>1. IInv /\ owed = Dist(head, tail)
      BY <1>1 DEF AppInv, KeptRing
    <2>2. IInv'
      BY <1>1, <2>1, NextPreservesIInv DEF Next
    <2>3. CASE TakeStart \/ TakeOn
      <3>1. UNCHANGED <<head, tail, owed>>
        BY <2>3 DEF TakeStart, TakeOn, PopStart, PopRefresh, PopRead, appVars
      <3>2. Dist(head, tail)' = Dist(head, tail)
        BY <3>1 DEF Dist
      <3> QED
        BY <2>1, <2>2, <3>1, <3>2 DEF KeptRing
    <2>4. CASE TakeDone
      <3>1. owed' = Dist(1, owed) /\ head' = Inc(head) /\ tail' = tail /\ head # tail
        BY <2>1, <2>4, FreeSlotIsNotHead DEF TakeDone, PopPublish, IInv, ConsumerInv, Popping
      <3>2. head \in Index /\ tail \in Index
        BY <2>1 DEF IInv, TypeOK
      <3>3. Dist(Inc(head), tail) = Dist(head, tail) - 1 /\ Dist(head, tail) \in Index
            /\ Dist(head, tail) # 0
        BY <3>1, <3>2, DistIncHead, DistType, DistZero
      <3>4. Dist(1, owed) = owed - 1
        <4>1. owed \in 1 .. CAP - 1
          BY <2>1, <3>3, CapIsPositive DEF Index
        <4>2. 1 \in Index
          BY <4>1, CapIsPositive DEF Index
        <4> QED
          BY <4>1, <4>2, DistValue, CapIsPositive DEF Index
      <3>5. Dist(head, tail)' = Dist(Inc(head), tail)
        BY <3>1 DEF Dist
      <3> QED
        BY <2>1, <2>2, <3>1, <3>3, <3>4, <3>5 DEF KeptRing
    <2> QED
      BY <2>3, <2>4
  <1>4. KeptClear'
    BY <1>1 DEF KeptClear
  <1> QED
    BY <1>2, <1>3, <1>4 DEF AppInv

\* The second pusher ends onePusher.
LEMMA PutBackKeeps == ASSUME AppInv, PutBack PROVE AppInv'
  <1>1. held \in Values /\ TypeOK /\ initAt = "done"
    BY DEF AppInv, AppTypeOK, PutBack, Items
  <1>2. TypeOK'
    BY <1>1, PushTypes, KindsAreItems DEF PutBack
  <1>3. AppTypeOK'
    BY <1>1, <1>2, KindsAreItems DEF AppInv, AppTypeOK, PutBack
  <1> QED
    BY <1>3 DEF AppInv, KeptRing, KeptClear, PutBack

\* init() begins the account anew, whatever happened before ...
LEMMA RestartKeeps == ASSUME AppInv, Restart PROVE AppInv'
  <1>1. AppTypeOK'
    BY DEF AppInv, AppTypeOK, Restart, vars, TypeOK
  <1>2. KeptRing' /\ KeptClear'
    BY DEF KeptRing, KeptClear, Restart, Between, vars
  <1> QED
    BY <1>1, <1>2 DEF AppInv

\* ... and after the fourth store of clear() the ring is as if new.
LEMMA ClearKeeps == ASSUME AppInv, Clear PROVE AppInv'
  <1> USE DEF Clear, ClearHead, ClearTail, ClearHeadCache, ClearTailCache, ClearRest
  <1>0. 0 \in Index
    BY CapIsPositive DEF Index
  <1>1. AppTypeOK'
    BY <1>0 DEF AppInv, AppTypeOK, TypeOK
  <1>2. KeptRing'
    <2> SUFFICES ASSUME onePusher, quietClear, ClearTailCache PROVE KeptRing'
      BY DEF KeptRing
    <2>1. /\ head' = 0 /\ tail' = 0 /\ headCache' = 0 /\ tailCache' = 0 /\ owed' = 0
          /\ pc'[Producer] = "idle" /\ pc'[Consumer] = "idle"
      BY DEF AppInv, AppTypeOK, KeptClear, Between
    <2>2. Dist(0, 0) = 0
      BY <1>0, DistZero
    <2>3. /\ Dist(head, tail)' = 0 /\ Dist(headCache, tail)' = 0 /\ Dist(head, tailCache)' = 0
      BY <2>1, <2>2 DEF Dist
    <2>4. TypeOK' /\ reserve' \in 0 .. CAP - 1
      BY <1>1 DEF AppTypeOK, TypeOK
    <2>5. CachesLag' /\ PreCheckHolds'
      BY <2>3, <2>4, CapIsPositive DEF CachesLag, PreCheckHolds
    <2>6. ProducerInv' /\ ConsumerInv'
      BY <2>1 DEF ProducerInv, ConsumerInv, Pushing, Popping
    <2> QED
      BY <2>1, <2>3, <2>4, <2>5, <2>6 DEF KeptRing, IInv
  <1>3. KeptClear'
    BY DEF AppInv, KeptClear, Between
  <1> QED
    BY <1>1, <1>2, <1>3 DEF AppInv

LEMMA AppStep == AppInv /\ [AppNext]_<<vars, appVars>> => AppInv'
  <1> SUFFICES ASSUME AppInv, [AppNext]_<<vars, appVars>> PROVE AppInv'
    OBVIOUS
  <1>1. CASE UNCHANGED <<vars, appVars>>
    BY <1>1 DEF AppInv, AppTypeOK, KeptRing, KeptClear, Between, vars, appVars, IInv, TypeOK,
                CachesLag, ProducerInv, ConsumerInv, PreCheckHolds, Pushing, Popping, Dist
  <1>2. CASE \E t \in Threads : FinishPush(t)
    BY <1>2, FinishPushKeeps
  <1> QED
    BY <1>1, <1>2, FeedKeeps, TakeKeeps, PutBackKeeps, RestartKeeps, ClearKeeps DEF AppNext

-----------------------------------------------------------------------------
(* The theorems *)

LEMMA AppInvariance == AppSpec => []AppInv
  BY AppInitHolds, AppStep, PTL DEF AppSpec

\* While the contract is kept, the engine's ring keeps all that is proved of the
\* ring alone: no data race on a slot, and the room freeCapacity() reported is
\* there for each push of the IDR batch (LiveVideoEngine.cpp:199-203).
RingKeepsPromises ==
  onePusher /\ quietClear /\ initAt = "done" => TypeOK /\ NoSlotRace /\ PreCheckHolds

THEOREM ContractIsEnough == AppSpec => []RingKeepsPromises
  <1>1. AppInv => RingKeepsPromises
    BY FreeSlotIsNotHead DEF AppInv, KeptRing, RingKeepsPromises, IInv, NoSlotRace, ProducerInv,
                             ConsumerInv, Pushing, Popping
  <1> QED
    BY <1>1, AppInvariance, PTL

\* For every capacity, between operations the ring holds as many NALUs as were
\* pushed with success since init() cleared it and not popped yet, as long as
\* inputLoop put none back and feedStream was not inside during clear()
\* (LiveVideoEngine.h:63-90, LiveVideoEngine.cpp:104-114).
THEOREM NalusAccounted == AppSpec => []Accounted
  <1>1. AppInv => Accounted
    BY DEF AppInv, KeptRing, Accounted, Quiet
  <1> QED
    BY <1>1, AppInvariance, PTL
=============================================================================
