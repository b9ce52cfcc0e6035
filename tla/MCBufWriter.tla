----------------------------- MODULE MCBufWriter -----------------------------
(***************************************************************************)
(* BufWriter for TLC: two coroutines, a buffer of two bytes, messages that *)
(* fit, that fit an emptied buffer only, and that are larger than it.      *)
(***************************************************************************)
EXTENDS BufWriter
=============================================================================
