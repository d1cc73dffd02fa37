---------------------------- MODULE MCScheduler ----------------------------
(* Scheduler on a small machine: the idle thread and two others, which can *)
(* both sleep in one chain, on two CPUs, so that one can wake or schedule  *)
(* while the other is half-way.                                            *)
EXTENDS Scheduler
=============================================================================
