----------------------------- MODULE MCTcpStream -----------------------------
(***************************************************************************)
(* TcpStream for TLC: a coroutine that reads and writes, and another that  *)
(* writes, as the two halves of a split stream do.                         *)
(***************************************************************************)
EXTENDS TcpStream

CONSTANTS c1, c2

const_Writers == {c1, c2}
=============================================================================
