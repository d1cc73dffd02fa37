------------------------------- MODULE MCDisk -------------------------------
(* Disk with more threads than semaphores, and handlers on two CPUs.       *)
EXTENDS Disk
=============================================================================
