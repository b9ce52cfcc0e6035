---------------------------- MODULE MCCoroutines ----------------------------
(***************************************************************************)
(* Coroutines for TLC: every program of three coroutines, created in this  *)
(* order, that sleep and connect, or look up names and use the pool.       *)
(***************************************************************************)
EXTENDS Coroutines

const_Uses == <<{"sleep", "connect"}, {"work", "resolve"}, {"sleep"}>>
=============================================================================
