----------------------------- MODULE MCBufReader -----------------------------
(***************************************************************************)
(* BufReader for TLC: a buffer of three bytes, spans that are empty, fit,  *)
(* fill it and are larger.  The flag can overlap itself, as the "XXX" of   *)
(* tests/test_buffered2.cpp.                                               *)
(***************************************************************************)
EXTENDS BufReader

const_Flag == <<"x", "x">>
=============================================================================
