------------------------- MODULE LockFreeRingBuffer -------------------------
(***************************************************************************)
(* LockFreeRingBuffer<T, CAP> of LiveVideoEngine.h at the granularity of   *)
(* its shared-memory accesses: the atomics head_ and tail_, the plain      *)
(* fields head_cache_ and tail_cache_, and the slots of buffer_.           *)
(*                                                                         *)
(* An operation is a sequence of steps, each with at most one access to    *)
(* memory the other side writes. Actions are parameterised by the calling  *)
(* thread; Spec is the use the header comment allows ("single producer,    *)
(* single consumer"). RingInApp adds the callers that go beyond it.        *)
(***************************************************************************)
EXTENDS Integers, Sequences

CONSTANTS
  CAP,        \* number of slots (128 in the engine)
  Values,     \* what can be pushed
  Blank,      \* a default-constructed T: a slot nobody has written
  Producer,   \* the feedStream thread
  Consumer    \* the decoder's input thread

ASSUME CapIsPositive == CAP \in Nat \ {0}

\* static_assert((CAP & (CAP - 1)) == 0): this is what makes "& MASK" the
\* remainder modulo CAP.
ASSUME CapIsPowerOfTwo == \E k \in 0 .. CAP : CAP = 2^k

ASSUME TwoThreads == Producer # Consumer

ASSUME BlankIsNoValue == Blank \notin Values

Threads == {Producer, Consumer}
Index   == 0 .. CAP - 1
Items   == Values \cup {Blank}

VARIABLES
  buffer,     \* buffer_
  head,       \* head_: next slot to pop
  tail,       \* tail_: next slot to push
  headCache,  \* head_cache_: the pushing side's last view of head_
  tailCache,  \* tail_cache_: the popping side's last view of tail_
  pc,         \* pc[t]: where thread t is inside push, pop or freeCapacity
  idx,        \* idx[t]: the index t loaded into its local head or tail (h)
  val,        \* val[t]: t's argument v of push, or its out parameter of pop
  ret,        \* ret[t]: result of t's last completed push or pop
  reserve     \* pushes promised by the last freeCapacity() and not yet made

vars == <<buffer, head, tail, headCache, tailCache, pc, idx, val, ret, reserve>>

PC == {"idle", "push_refresh", "push_write", "push_publish",
       "pop_refresh", "pop_read", "pop_publish", "size_tail"}

Inc(i)     == (i + 1) % CAP        \* (i + 1) & MASK
Dist(h, t) == (t - h) % CAP        \* (t - h) & MASK

Goto(t, label) == pc' = [pc EXCEPT ![t] = label]

\* The locals of an operation end with it.
Leave(t) ==
  /\ Goto(t, "idle")
  /\ idx' = [idx EXCEPT ![t] = 0]
  /\ val' = [val EXCEPT ![t] = Blank]

Return(t, ok, item) ==
  /\ ret' = [ret EXCEPT ![t] = [ok |-> ok, item |-> item]]
  /\ Leave(t)

Init ==
  /\ buffer = [i \in Index |-> Blank]
  /\ head = 0 /\ tail = 0
  /\ headCache = 0 /\ tailCache = 0
  /\ pc  = [t \in Threads |-> "idle"]
  /\ idx = [t \in Threads |-> 0]
  /\ val = [t \in Threads |-> Blank]
  /\ ret = [t \in Threads |-> [ok |-> FALSE, item |-> Blank]]
  /\ reserve = 0

-----------------------------------------------------------------------------
(* push(v) *)

\* Mutant of PushStart: the test for a full ring forgotten.
PushStartUnchecked(t, v) ==
  /\ pc[t] = "idle"
  /\ idx' = [idx EXCEPT ![t] = tail]
  /\ val' = [val EXCEPT ![t] = v]
  /\ Goto(t, "push_write")
  /\ UNCHANGED <<buffer, head, tail, headCache, tailCache, ret, reserve>>

\* tail = tail_ (relaxed); is the next slot the cached head?
PushStart(t, v) ==
  /\ pc[t] = "idle"
  /\ idx' = [idx EXCEPT ![t] = tail]
  /\ val' = [val EXCEPT ![t] = v]
  /\ Goto(t, IF Inc(tail) = headCache THEN "push_refresh" ELSE "push_write")
  /\ UNCHANGED <<buffer, head, tail, headCache, tailCache, ret, reserve>>

\* head_cache_ = head_ (acquire); still full: return false
PushRefresh(t) ==
  /\ pc[t] = "push_refresh"
  /\ headCache' = head
  /\ \/ /\ Inc(idx[t]) = head
        /\ Return(t, FALSE, val[t])
     \/ /\ Inc(idx[t]) # head
        /\ Goto(t, "push_write")
        /\ UNCHANGED <<idx, val, ret>>
  /\ UNCHANGED <<buffer, head, tail, tailCache, reserve>>

\* buffer_[tail] = v
PushWrite(t) ==
  /\ pc[t] = "push_write"
  /\ buffer' = [buffer EXCEPT ![idx[t]] = val[t]]
  /\ Goto(t, "push_publish")
  /\ UNCHANGED <<head, tail, headCache, tailCache, idx, val, ret, reserve>>

\* tail_ = next (release); return true
PushPublish(t) ==
  /\ pc[t] = "push_publish"
  /\ tail' = Inc(idx[t])
  /\ Return(t, TRUE, val[t])
  /\ reserve' = IF t = Producer /\ reserve > 0 THEN reserve - 1 ELSE reserve
  /\ UNCHANGED <<buffer, head, headCache, tailCache>>

-----------------------------------------------------------------------------
(* pop(out) *)

\* head = head_ (relaxed); is it the cached tail?
PopStart(t) ==
  /\ pc[t] = "idle"
  /\ idx' = [idx EXCEPT ![t] = head]
  /\ val' = [val EXCEPT ![t] = Blank]
  /\ Goto(t, IF head = tailCache THEN "pop_refresh" ELSE "pop_read")
  /\ UNCHANGED <<buffer, head, tail, headCache, tailCache, ret, reserve>>

\* Mutant of PopRefresh: the cached tail_ is never refreshed.
PopRefreshStale(t) ==
  /\ pc[t] = "pop_refresh"
  /\ Return(t, FALSE, Blank)
  /\ UNCHANGED <<buffer, head, tail, headCache, tailCache, reserve>>

\* tail_cache_ = tail_ (acquire); still empty: return false
PopRefresh(t) ==
  /\ pc[t] = "pop_refresh"
  /\ tailCache' = tail
  /\ \/ /\ idx[t] = tail
        /\ Return(t, FALSE, Blank)
     \/ /\ idx[t] # tail
        /\ Goto(t, "pop_read")
        /\ UNCHANGED <<idx, val, ret>>
  /\ UNCHANGED <<buffer, head, tail, headCache, reserve>>

\* out = buffer_[head]
PopRead(t) ==
  /\ pc[t] = "pop_read"
  /\ val' = [val EXCEPT ![t] = buffer[idx[t]]]
  /\ Goto(t, "pop_publish")
  /\ UNCHANGED <<buffer, head, tail, headCache, tailCache, idx, ret, reserve>>

\* Mutant of PopPublish: head_ is stored without being advanced.
PopPublishStays(t) ==
  /\ pc[t] = "pop_publish"
  /\ head' = idx[t]
  /\ Return(t, TRUE, val[t])
  /\ UNCHANGED <<buffer, tail, headCache, tailCache, reserve>>

\* head_ = (head + 1) & MASK (release); return true
PopPublish(t) ==
  /\ pc[t] = "pop_publish"
  /\ head' = Inc(idx[t])
  /\ Return(t, TRUE, val[t])
  /\ UNCHANGED <<buffer, tail, headCache, tailCache, reserve>>

-----------------------------------------------------------------------------
(* freeCapacity(), called by the pushing side before a batch of pushes     *)

\* size(): h = head_ (acquire)
SizeLoadHead(t) ==
  /\ pc[t] = "idle"
  /\ idx' = [idx EXCEPT ![t] = head]
  /\ Goto(t, "size_tail")
  /\ UNCHANGED <<buffer, head, tail, headCache, tailCache, val, ret, reserve>>

\* size(): t = tail_ (relaxed); return CAP - 1 - size
FreeCapacity(t) ==
  /\ pc[t] = "size_tail"
  /\ reserve' = CAP - 1 - Dist(idx[t], tail)
  /\ Leave(t)
  /\ UNCHANGED <<buffer, head, tail, headCache, tailCache, ret>>

-----------------------------------------------------------------------------

PushStep(t) ==
  \/ \E v \in Values : PushStart(t, v)
  \/ PushRefresh(t)
  \/ PushWrite(t)
  \/ PushPublish(t)

PopStep(t) ==
  \/ PopStart(t)
  \/ PopRefresh(t)
  \/ PopRead(t)
  \/ PopPublish(t)

SizeStep(t) == SizeLoadHead(t) \/ FreeCapacity(t)

Next == PushStep(Producer) \/ SizeStep(Producer) \/ PopStep(Consumer)

Spec == Init /\ [][Next]_vars

\* inputLoop calls pop() again and again while running_ is set; nothing makes
\* the network deliver, so pushes are not fair.
FairSpec == Spec /\ WF_vars(PopStep(Consumer))

-----------------------------------------------------------------------------
(* The queue the ring stands for: slots head .. tail - 1, oldest first. *)
Contents == [i \in 1 .. Dist(head, tail) |-> buffer[(head + i - 1) % CAP]]

Fifo == INSTANCE BoundedFifo WITH
          Capacity <- CAP - 1,
          queue    <- Contents

\* Under the one-producer one-consumer contract the ring behaves as an atomic
\* bounded FIFO queue: nothing is lost, duplicated, reordered or invented, a
\* push fails only if the queue is full (one slot always stays empty), a pop
\* only if it is empty, and a capacity pre-check is never optimistic.
ImplementsFifo == Fifo!Spec

TypeOK ==
  /\ buffer \in [Index -> Items]
  /\ head \in Index /\ tail \in Index
  /\ headCache \in Index /\ tailCache \in Index
  /\ pc  \in [Threads -> PC]
  /\ idx \in [Threads -> Index]
  /\ val \in [Threads -> Items]
  /\ ret \in [Threads -> [ok : BOOLEAN, item : Items]]
  /\ reserve \in 0 .. CAP - 1

\* No data race on a slot: the plain accesses to buffer_ in push and pop are
\* never to the same slot at the same time.
NoSlotRace ==
  ~ /\ pc[Producer] = "push_write"
    /\ pc[Consumer] = "pop_read"
    /\ idx[Producer] = idx[Consumer]

\* What handleNalu relies on when it queues SPS, PPS and IDR after one check
\* of freeCapacity(): the promised room is still there, whatever the consumer
\* did since.
PreCheckHolds == reserve <= CAP - 1 - Dist(head, tail)

\* A stale cached tail_ never hides a pushed element for good: while the ring is
\* not empty, pop() sooner or later takes the oldest element.
Drains == \A h \in Index : (head = h /\ tail # h) ~> (head # h)

-----------------------------------------------------------------------------
(* The inductive invariant. The cached indices are stale on the safe side:  *)
(* seen from tail_ the cached head_ is at most behind, seen from head_ the  *)
(* cached tail_ is; and a local copy of one's own index is never stale.     *)

Pushing == pc[Producer] \in {"push_refresh", "push_write", "push_publish"}
Popping == pc[Consumer] \in {"pop_refresh", "pop_read", "pop_publish"}

CachesLag ==
  /\ Dist(head, tail) <= Dist(headCache, tail)
  /\ Dist(head, tailCache) <= Dist(head, tail)

ProducerInv ==
  /\ Pushing \/ pc[Producer] \in {"idle", "size_tail"}
  /\ Pushing => idx[Producer] = tail /\ val[Producer] \in Values
  /\ pc[Producer] = "push_refresh" => Inc(tail) = headCache
  /\ pc[Producer] \in {"push_write", "push_publish"} => Inc(tail) # headCache
  /\ pc[Producer] = "push_publish" => buffer[tail] = val[Producer]
  /\ pc[Producer] = "size_tail" => Dist(head, tail) <= Dist(idx[Producer], tail)

ConsumerInv ==
  /\ Popping \/ pc[Consumer] = "idle"
  /\ Popping => idx[Consumer] = head
  /\ pc[Consumer] = "pop_refresh" => head = tailCache
  /\ pc[Consumer] \in {"pop_read", "pop_publish"} => head # tailCache
  /\ pc[Consumer] = "pop_publish" => val[Consumer] = buffer[head]

IInv == TypeOK /\ CachesLag /\ ProducerInv /\ ConsumerInv /\ PreCheckHolds
=============================================================================
