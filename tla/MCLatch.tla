------------------------------- MODULE MCLatch -------------------------------
(***************************************************************************)
(* Latch for TLC: three coroutines that arrive and wait, the owner among   *)
(* them, one that only waits, and two functions in the pool.               *)
(***************************************************************************)
EXTENDS Latch
=============================================================================
