------------------------------ MODULE MCListener ------------------------------
(***************************************************************************)
(* Listener for TLC: the coroutine that owns the listener and another one  *)
(* that accepts from it.                                                   *)
(***************************************************************************)
EXTENDS Listener

CONSTANTS a1, a2

const_Acceptors == {a1, a2}
=============================================================================
