------------------------------ MODULE MCLatch ------------------------------
(* Two threads that set a latch and three tasks that wait for it, for TLC. *)
EXTENDS Latch
=============================================================================
