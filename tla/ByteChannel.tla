----------------------------- MODULE ByteChannel -----------------------------
(***************************************************************************)
(* What a stream and a buffered reader over it promise: a channel of       *)
(* numbered bytes.  Bytes come in at one end; at the other they are handed *)
(* out in chunks, each byte once and in order.  A call that fails may skip *)
(* bytes it had already taken, and hands out nothing.                      *)
(***************************************************************************)
EXTENDS Integers, Sequences

VARIABLES taken,  \* bytes 1..taken have come in
          given,  \* bytes 1..given have gone out
          chunk,  \* the bytes the last call that ended handed out
          ok      \* that call succeeded

channel == <<taken, given, chunk, ok>>

Init == taken = 0 /\ given = 0 /\ chunk = << >> /\ ok = FALSE

Arrive == taken' \in Nat /\ taken' >= taken

\* Any number of bytes may arrive in the step that hands some out.
HandOut ==
  \E n \in 0..(taken' - given) :
    /\ chunk' = [i \in 1..n |-> given + i]
    /\ given' = given + n
    /\ ok' = TRUE

\* Only a call that has not succeeded leaves out bytes.
Skip ==
  /\ chunk' = << >>
  /\ given' \in given..taken'
  /\ ok' = FALSE

Next == Arrive /\ (UNCHANGED <<given, chunk, ok>> \/ HandOut \/ Skip)

Spec == Init /\ [][Next]_channel
=============================================================================
