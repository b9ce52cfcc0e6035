---------------------------- MODULE StreamBuffer ----------------------------
(***************************************************************************)
(* uvio::io::detail::StreamBuffer: Size cells and two cursors, r_pos_ and  *)
(* w_pos_.  A buffer is a record [cell, r, w].  A cell holds the number of *)
(* the stream's byte stored there, 0 when it was never written; what lies  *)
(* outside r..(w - 1) stays in the cells, as in the code.                  *)
(***************************************************************************)
EXTENDS Integers, Sequences

CONSTANT Size  \* capacity()

ASSUME SizeAssumption == Size \in Nat \ {0}

Positions == 0..(Size - 1)
Buffers   == {b \in [cell : [Positions -> Nat], r : 0..Size, w : 0..Size] : b.r <= b.w}

EmptyBuffer == [cell |-> [p \in Positions |-> 0], r |-> 0, w |-> 0]

Smaller(m, n) == IF m < n THEN m ELSE n

RRemaining(b) == b.w - b.r
WRemaining(b) == Size - b.w
IsEmpty(b)    == b.r = b.w

\* The first n bytes from r_begin on.
RSlice(b, n) == [i \in 1..n |-> b.cell[b.r + i - 1]]

\* Mutants of RIncrease, ResetData and Store: an emptied buffer starts over even
\* for read_until; the bytes are not moved; w_pos_ ends one too far, or stays.
RIncreaseReset(b, n) ==
  IF b.r + n = b.w THEN [b EXCEPT !.r = 0, !.w = 0] ELSE [b EXCEPT !.r = @ + n]
ResetCursors(b) == [b EXCEPT !.r = 0, !.w = RRemaining(b)]
StoreTooFar(b, last, k) ==
  [cell |-> [p \in Positions |->
               IF b.w <= p /\ p < b.w + k THEN last + 1 + (p - b.w) ELSE b.cell[p]],
   r |-> b.r, w |-> b.w + k + 1]
StoreUncounted(b, last, k) == [StoreTooFar(b, last, k) EXCEPT !.w = b.w]

RIncrease(b, n) == [b EXCEPT !.r = @ + n]
ResetPos(b)     == [cell |-> b.cell, r |-> 0, w |-> 0]

\* Move the readable bytes to the front; the cells behind them keep theirs.
ResetData(b) ==
  [cell |-> [p \in Positions |-> IF p < RRemaining(b) THEN b.cell[b.r + p] ELSE b.cell[p]],
   r |-> 0, w |-> RRemaining(b)]

\* write_to: n readable bytes leave; an emptied buffer starts over.
WriteTo(b, n) ==
  LET c == RIncrease(b, n) IN IF IsEmpty(c) THEN ResetPos(c) ELSE c

\* The k bytes after number `last` arrive at w_begin: read_from, or a read of
\* the stream into w_slice followed by w_increase.
Store(b, last, k) ==
  [cell |-> [p \in Positions |->
               IF b.w <= p /\ p < b.w + k THEN last + 1 + (p - b.w) ELSE b.cell[p]],
   r |-> b.r, w |-> b.w + k]

\* The readable bytes of b are those numbered first..last, in order.
Holds(b, first, last) ==
  /\ RRemaining(b) = last + 1 - first
  /\ \A p \in b.r..(b.w - 1) : b.cell[p] = first + (p - b.r)
=============================================================================
