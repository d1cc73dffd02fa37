----------------------------- MODULE MCNetwork -----------------------------
(* Two ports and a queue of two frames: a thread with two sockets of its   *)
(* own, or two threads that share one.                                     *)
EXTENDS Network
=============================================================================
