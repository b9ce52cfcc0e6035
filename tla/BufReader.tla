------------------------------ MODULE BufReader ------------------------------
(***************************************************************************)
(* uvio::io::detail::ImplBufRead: read, read_exact, read_until over a      *)
(* StreamBuffer and a stream io_.  One coroutine calls; a call suspends    *)
(* where it awaits io_, and the step that answers it runs the call to its  *)
(* next await or its end.                                                  *)
(*                                                                         *)
(* The stream is a text of at most MaxTaken bytes.  Byte number i is of    *)
(* kind text[i], which only the search for a flag looks at; number 0 is    *)
(* the zero byte that fills the cells of a new buffer.                     *)
(***************************************************************************)
EXTENDS StreamBuffer

CONSTANTS Wants,     \* sizes of the spans given to read and read_exact
          Flag,      \* the flag given to read_until, a sequence of kinds
          Kinds,     \* kinds of bytes in the text
          NUL,       \* the kind of a zero byte
          MaxTaken   \* bound: the length of the text

ASSUME ReaderAssumption == /\ Wants \subseteq Nat
                           /\ MaxTaken \in Nat
                           /\ Flag \in Seq(Kinds) /\ Len(Flag) > 0

VARIABLES
  text,    \* the bytes the stream will carry
  taken,   \* how many of them io_ has delivered
  ended,   \* io_ has reported the end of the stream or an error
  buf,     \* r_stream_
  op,      \* the call that is suspended in io_, "none" if none is
  want,    \* the size of its span; of a call that bypasses buf, what is left
  span,    \* what a call that bypasses buf has put into its span so far
  result,  \* how the last call ended: "ok", or "line" if it was read_until;
           \* "error", or "nobufs" if io_ was offered an empty span
  got,     \* the bytes it handed to its caller
  given,   \* bytes that have left buf: handed out, or dropped by a failed call
  mixed,   \* history: read or read_exact has been called on this reader
  fault    \* "none"; "assert" (an assertion failed); "overrun" (the search has
           \* left the cells: undefined, a failed assertion included)

input   == <<text, taken, ended>>
outcome == <<result, got, given>>
vars    == <<input, buf, op, want, span, outcome, mixed, fault>>

Ops == {"none", "read", "read_big", "exact", "exact_big", "until"}

TypeOK ==
  /\ taken \in Nat /\ given \in Nat /\ want \in Nat
  /\ ended \in BOOLEAN /\ mixed \in BOOLEAN
  /\ buf \in Buffers
  /\ op \in Ops
  /\ result \in {"none", "ok", "line", "error", "nobufs"}
  /\ span \in Seq(Nat) /\ got \in Seq(Nat)
  /\ fault \in {"none", "assert", "overrun"}

Init ==
  /\ text \in [1..MaxTaken -> Kinds] /\ taken = 0 /\ ended = FALSE
  /\ buf = EmptyBuffer
  /\ op = "none" /\ want = 0 /\ span = << >>
  /\ result = "none" /\ got = << >> /\ given = 0
  /\ mixed = FALSE /\ fault = "none"

Idle == op = "none" /\ fault = "none"

\* The call returns with the bytes s.
Return(r, s) ==
  /\ op' = "none" /\ want' = 0 /\ span' = << >>
  /\ result' = r /\ got' = s
  /\ given' = given + Len(s)
  /\ UNCHANGED fault

\* The call c goes on to await io_.
Await(c, n, s) ==
  /\ op' = c /\ want' = n /\ span' = s
  /\ UNCHANGED <<outcome, fault>>

\* Mutant of Behind: the span handed to io_ was not moved on.
Across(s, k) == [i \in 1..(Len(s) + k) |-> IF i <= k THEN taken + i ELSE s[i - k]]

\* The bytes io_ puts behind the first ones of a caller's span.
Behind(s, k) == [i \in 1..(Len(s) + k) |-> IF i <= Len(s) THEN s[i] ELSE taken + i - Len(s)]

-----------------------------------------------------------------------------
(* find_flag_and_return_slice: a C string from r_begin on is searched, so    *)
(* the search ends at the first zero byte and not at w_pos_.                 *)

KindAt(b, p) == IF b.cell[p] = 0 THEN NUL ELSE text[b.cell[p]]

CString(b) == {p \in b.r..(Size - 1) : \A q \in b.r..p : KindAt(b, q) # NUL}

Overruns(b) == b.r..(Size - 1) \subseteq CString(b)

\* Lengths n such that the n bytes from r_begin on end with the flag.
Slices(b) ==
  {n \in Len(Flag)..(Size - b.r) :
     \A j \in 1..Len(Flag) :
       LET p == b.r + n - Len(Flag) + j - 1 IN p \in CString(b) /\ KindAt(b, p) = Flag[j]}

\* Mutants of FirstSlice: rfind; the search begins one byte too late.
LastSlice(b) == {n \in Slices(b) : \A m \in Slices(b) : m <= n}
LateSlice(b) ==
  LET late == Slices(b) \ {Len(Flag)} IN {n \in late : \A m \in late : n <= m}

\* The slice that find_flag_and_return_slice returns, if there is one.
FirstSlice(b) == {n \in Slices(b) : \A m \in Slices(b) : n <= m}

-----------------------------------------------------------------------------
(* read and read_exact. *)

\* The span is larger than the buffer: what is buffered goes to it, and io_
\* reads the rest straight into it.
CallBig(n, c) ==
  /\ Idle /\ n > Size
  /\ LET h == Smaller(RRemaining(buf), n) IN
       /\ buf' = WriteTo(buf, h)
       /\ Await(c, n - h, RSlice(buf, h))
  /\ mixed' = TRUE
  /\ UNCHANGED input

\* Mutant of MakeRoom: the comparison is with the readable bytes.
MakeRoomLate(b, n) == IF RRemaining(b) > n THEN ResetData(b) ELSE b

\* What read and read_exact do to the buffer before they await io_.
MakeRoom(b, n) == IF WRemaining(b) < n THEN ResetData(b) ELSE b

ReadBuffered(n) ==
  /\ Idle /\ n <= Size /\ ~IsEmpty(buf)
  /\ LET m == Smaller(RRemaining(buf), n) IN
       /\ buf' = WriteTo(buf, m)
       /\ Return("ok", RSlice(buf, m))
  /\ mixed' = TRUE
  /\ UNCHANGED input

ReadStart(n) ==
  /\ Idle /\ n <= Size /\ IsEmpty(buf)
  /\ buf' = MakeRoom(buf, n)
  /\ Await("read", n, << >>)
  /\ mixed' = TRUE
  /\ UNCHANGED input

ExactBuffered(n) ==
  /\ Idle /\ n <= Size /\ RRemaining(buf) >= n
  /\ buf' = WriteTo(buf, n)
  /\ Return("ok", RSlice(buf, n))
  /\ mixed' = TRUE
  /\ UNCHANGED input

ExactStart(n) ==
  /\ Idle /\ n <= Size /\ RRemaining(buf) < n
  /\ buf' = MakeRoom(buf, n)
  /\ Await("exact", n, << >>)
  /\ mixed' = TRUE
  /\ UNCHANGED input

\* io_.read has put k bytes behind the readable ones; one call of it serves
\* read, 0 bytes included.
ReadArrived(k) ==
  /\ op = "read"
  /\ LET b == Store(buf, taken, k)
         m == Smaller(RRemaining(b), want) IN
       /\ buf' = WriteTo(b, m)
       /\ Return("ok", RSlice(b, m))

ExactArrived(k) ==
  /\ op = "exact"
  /\ LET b == Store(buf, taken, k) IN
       \/ /\ RRemaining(b) >= want
          /\ buf' = WriteTo(b, want)
          /\ Return("ok", RSlice(b, want))
       \/ /\ RRemaining(b) < want
          /\ buf' = MakeRoom(b, want)
          /\ Await("exact", want, << >>)

BigArrived(k) ==
  /\ op = "read_big"
  /\ Return("ok", Behind(span, k))
  /\ UNCHANGED buf

-----------------------------------------------------------------------------
(* read_until: search the buffer, else await more bytes behind it.  The flag *)
(* found may lie in bytes that are not readable: r_increase then moves r_pos_ *)
(* past w_pos_, and its assertion fails.  Without a zero byte up to the last *)
(* cell the search goes on behind it, and what it finds there is undefined.  *)

Search(b) ==
  \/ \E n \in FirstSlice(b) :
       \/ /\ b.r + n <= b.w
          /\ buf' = RIncrease(b, n)
          /\ Return("line", RSlice(b, n))
       \/ /\ b.r + n > b.w
          /\ buf' = b /\ fault' = "assert"
          /\ UNCHANGED <<op, want, span, outcome>>
  \/ /\ FirstSlice(b) = {}
     /\ buf' = b
     /\ Await("until", 0, << >>)
  \/ /\ FirstSlice(b) = {} /\ Overruns(b)
     /\ buf' = b /\ fault' = "overrun"
     /\ UNCHANGED <<op, want, span, outcome>>

ReadUntil ==
  /\ Idle
  /\ Search(buf)
  /\ UNCHANGED <<input, mixed>>

UntilArrived(k) == op = "until" /\ Search(Store(buf, taken, k))

-----------------------------------------------------------------------------
(* What io_ answers. *)

\* The room io_ is offered: w_slice, or the rest of the caller's span.
Room == IF op \in {"read_big", "exact_big"} THEN want ELSE WRemaining(buf)

\* io_.read: some bytes, or none although the stream goes on.
IoRead ==
  /\ op \notin {"none", "exact_big"} /\ fault = "none"
  /\ ~ended /\ Room > 0
  /\ \E k \in 0..Smaller(Room, MaxTaken - taken) :
       /\ taken' = taken + k
       /\ ReadArrived(k) \/ ExactArrived(k) \/ BigArrived(k) \/ UntilArrived(k)
  /\ UNCHANGED <<text, ended, mixed>>

\* io_.read_exact fills the whole rest of the span.
IoReadExact ==
  /\ op = "exact_big" /\ fault = "none"
  /\ ~ended /\ want <= MaxTaken - taken
  /\ taken' = taken + want
  /\ Return("ok", Behind(span, want))
  /\ UNCHANGED <<text, ended, buf, mixed>>

\* Mutant of Fail: an error clears the buffer.
FailAndClear(r, j) ==
  /\ taken' = taken + j
  /\ op' = "none" /\ want' = 0 /\ span' = << >>
  /\ result' = r /\ got' = << >>
  /\ given' = taken' /\ buf' = ResetPos(buf)
  /\ UNCHANGED <<text, mixed, fault>>

\* The call returns the error of io_.  What it had put into the span of its
\* caller, io_.read_exact's share of j bytes included, is not counted there.
Fail(r, j) ==
  /\ taken' = taken + j
  /\ op' = "none" /\ want' = 0 /\ span' = << >>
  /\ result' = r /\ got' = << >>
  /\ given' = given + Len(span) + j
  /\ UNCHANGED <<text, buf, mixed, fault>>

\* End of the stream or an error.  io_.read_exact may have taken bytes first,
\* and may fail on a stream that goes on, when TcpStream reads 0 bytes.
IoFail ==
  /\ op # "none" /\ fault = "none" /\ Room > 0
  /\ \E j \in IF op = "exact_big" /\ ~ended THEN 0..Smaller(want - 1, MaxTaken - taken) ELSE {0} :
       Fail("error", j)
  /\ ended' = TRUE \/ (op = "exact_big" /\ UNCHANGED ended)

\* Mutant of IoNoBufs: the error is taken for "no bytes yet".
RetryNoBufs == op # "none" /\ fault = "none" /\ Room = 0 /\ UNCHANGED vars

\* An empty span is answered with UV_ENOBUFS.
IoNoBufs ==
  /\ op # "none" /\ fault = "none" /\ Room = 0
  /\ UNCHANGED ended
  /\ Fail("nobufs", 0)

-----------------------------------------------------------------------------

Call(n) ==
  \/ CallBig(n, "read_big") \/ CallBig(n, "exact_big")
  \/ ReadBuffered(n) \/ ReadStart(n)
  \/ ExactBuffered(n) \/ ExactStart(n)

Io == IoRead \/ IoReadExact \/ IoFail \/ IoNoBufs

Next == (\E n \in Wants : Call(n)) \/ ReadUntil \/ Io

\* io_ answers with bytes now and then, or in the end with an error.
Answer == (Io /\ taken' # taken) \/ IoFail \/ IoNoBufs

Spec == Init /\ [][Next]_vars /\ WF_vars(Answer)

-----------------------------------------------------------------------------
(* Properties. *)

\* What is between the cursors is what follows the bytes given out, in order,
\* whatever the calls mixed before: no byte is lost, doubled or overwritten by
\* a compaction, a bypass or a read behind the readable bytes.
BufferIsNext == Holds(buf, given + Len(span) + 1, taken)

\* The reader is a channel: each call that succeeds hands out the next bytes of
\* the stream.
Channel == INSTANCE ByteChannel WITH chunk <- got, ok <- result \in {"ok", "line"}
IsChannel == Channel!Spec

\* read_until returns everything up to and with the first flag, not a later one.
UntilStopsAtFlag ==
  result = "line" =>
    LET n == Len(got)  k == Len(Flag)
        FlagEndsAt(e) == e >= k /\ \A j \in 1..k : text[got[e - k + j]] = Flag[j]
    IN  FlagEndsAt(n) /\ \A e \in 1..(n - 1) : ~FlagEndsAt(e)

\* read_until awaits more bytes only while no flag is readable (in a text that
\* has no zero byte).
UntilSeesFlag ==
  op = "until" /\ NUL \notin Kinds =>
    ~ \E p \in buf.r..(buf.w - Len(Flag)) :
        \A j \in 1..Len(Flag) : KindAt(buf, p + j - 1) = Flag[j]

\* read and read_exact of one byte or more never offer io_ an empty span.
ReadHasRoom == op \in {"read", "exact"} /\ want > 0 => Room > 0

\* A call that fails gives up bytes only if it bypassed the buffer: what
\* read_exact or read_until had buffered is there for the next call.
FailureKeepsBuffered ==
  [][given' = given \/ given' = given + Len(got') \/ op \in {"read_big", "exact_big"}]_vars

\* A reader that is used through read_until alone never fails an assertion, as
\* long as the search stays in the cells: what lies behind them is undefined and
\* may hold a flag as well.
AssertNeedsMix == fault = "assert" => mixed

\* Every call ends, if with an error.
CallsEnd == op # "none" ~> op = "none" \/ fault # "none"

\* The assertions of r_increase and w_increase ("assert(r_pos_ <= w_pos_)").
NoAssertFails == fault # "assert"

\* read_until awaits io_ with room behind the readable bytes, unless they fill
\* the buffer.
UntilHasRoom == op = "until" => Room > 0 \/ RRemaining(buf) = Size
=============================================================================
