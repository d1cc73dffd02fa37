---------------------------- MODULE MCSemaphore ----------------------------
(* Semaphore with enough threads that two compete for a guard while a third *)
(* waits, and one semaphore, which is used again after it is destroyed.     *)
EXTENDS Semaphore
=============================================================================
