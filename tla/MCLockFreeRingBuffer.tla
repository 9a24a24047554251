------------------------ MODULE MCLockFreeRingBuffer ------------------------
(* LockFreeRingBuffer under its one-producer one-consumer contract. *)
EXTENDS LockFreeRingBuffer
=============================================================================
