---------------------------- MODULE BoundedFifo ----------------------------
(***************************************************************************)
(* What a client of the NALU queue relies on: a bounded first-in first-out *)
(* queue whose push, pop and capacity pre-check are each one atomic step.  *)
(* LockFreeRingBuffer implements it (LiveVideoEngine.h), under the         *)
(* contract of its header comment: one producer and one consumer.          *)
(***************************************************************************)
EXTENDS Integers, Sequences

CONSTANTS
  Capacity,   \* elements the queue can hold
  Values,     \* what is queued
  Blank,      \* content of an output parameter no pop has filled
  Threads     \* who may call

VARIABLES
  queue,      \* the elements, oldest first
  ret,        \* ret[t]: result of the last completed push or pop of t
  reserve     \* pushes the last capacity pre-check promised and that are
              \* still to be made

vars == <<queue, ret, reserve>>

Result == [ok : BOOLEAN, item : Values \cup {Blank}]

Free == Capacity - Len(queue)

Spend == IF reserve > 0 THEN reserve - 1 ELSE 0

Init ==
  /\ queue = <<>>
  /\ ret = [t \in Threads |-> [ok |-> FALSE, item |-> Blank]]
  /\ reserve = 0

\* A push that succeeds. It uses up one of the promised pushes.
Push(t, v) ==
  /\ Free > 0
  /\ queue' = Append(queue, v)
  /\ ret' = [ret EXCEPT ![t] = [ok |-> TRUE, item |-> v]]
  /\ reserve' = Spend

\* A push that fails: only when the queue is full, and never while a
\* pre-check still promises room.
PushFull(t, v) ==
  /\ Free = 0
  /\ reserve = 0
  /\ ret' = [ret EXCEPT ![t] = [ok |-> FALSE, item |-> v]]
  /\ UNCHANGED <<queue, reserve>>

Pop(t) ==
  /\ queue # <<>>
  /\ queue' = Tail(queue)
  /\ ret' = [ret EXCEPT ![t] = [ok |-> TRUE, item |-> Head(queue)]]
  /\ UNCHANGED reserve

PopEmpty(t) ==
  /\ queue = <<>>
  /\ ret' = [ret EXCEPT ![t] = [ok |-> FALSE, item |-> Blank]]
  /\ UNCHANGED <<queue, reserve>>

\* The pre-check may be pessimistic, never optimistic.
PreCheck ==
  /\ reserve' \in 0 .. Free
  /\ UNCHANGED <<queue, ret>>

Next ==
  \/ PreCheck
  \/ \E t \in Threads :
       \/ \E v \in Values : Push(t, v) \/ PushFull(t, v)
       \/ Pop(t)
       \/ PopEmpty(t)

Spec == Init /\ [][Next]_vars
=============================================================================
