--------------------------- MODULE TcpStreamProofs ---------------------------
(***************************************************************************)
(* Theorems about TcpStream, for every set of writers, all sizes of spans  *)
(* and messages and any number of bytes.                                   *)
(***************************************************************************)
EXTENDS TcpStream, TLAPS

-----------------------------------------------------------------------------
(* Type correctness, one lemma for each part of TypeOK. *)

LEMMA InitTypes == Init => TypeOK
<1>1. Init => CountsOK
  BY DEF Init, CountsOK
<1>2. Init => FlagsOK
  BY DEF Init, FlagsOK
<1>3. Init => CoroutinesOK
  BY DEF Init, CoroutinesOK, Places, Results, Verdicts
<1>. QED
  BY <1>1, <1>2, <1>3 DEF TypeOK

\* drained never passes sent, and room never goes below zero.
LEMMA NextCounts ==
  ASSUME CountsOK, drained <= sent, [Next]_vars
  PROVE  CountsOK' /\ (drained <= sent)'
<1>. USE SizesAssumption DEF CountsOK, Inbox
<1>1. CASE PeerSend
  BY <1>1 DEF PeerSend, call
<1>2. CASE PeerClose
  BY <1>2 DEF PeerClose, call
<1>3. ASSUME NEW n \in ReadSizes, NEW ex, Read(n, ex)
      PROVE  CountsOK' /\ (drained <= sent)'
  BY <1>3 DEF Read, conn
<1>4. CASE ReadExactNothing
  BY <1>4 DEF ReadExactNothing, conn
<1>5. ASSUME NEW c, NEW n, Write(c, n) \/ Yield(c) \/ Finish(c) \/ WriteDone(c) \/ Resume(c)
      PROVE  UNCHANGED <<conn, call>>
  BY <1>5 DEF Write, Yield, Finish, WriteDone, Resume
<1>6. CASE DeliverBytes
  BY <1>6 DEF DeliverBytes, AwaitResume, Rest
<1>7. CASE DeliverNothing
  BY <1>7 DEF DeliverNothing, AwaitResume, Rest, conn
<1>8. CASE DeliverEof \/ DeliverReset \/ DeliverNoBufs \/ WildCallback \/ LeaveRead
  BY <1>8 DEF DeliverEof, DeliverReset, DeliverNoBufs, WildCallback, LeaveRead,
              AwaitResumeError, conn, call
<1>9. CASE UNCHANGED <<conn, call>>
  BY <1>9 DEF conn, call
<1>10. CASE UNCHANGED vars
  BY <1>10 DEF vars, conn, call
<1>. QED
  BY <1>1, <1>2, <1>3, <1>4, <1>5, <1>6, <1>7, <1>8, <1>9, <1>10 DEF Next, Run, UvRead

LEMMA NextFlags == FlagsOK /\ [Next]_vars => FlagsOK'
<1> SUFFICES ASSUME FlagsOK, [Next]_vars PROVE FlagsOK'
  OBVIOUS
<1>. USE DEF FlagsOK
<1>1. CASE PeerSend \/ PeerClose
  BY <1>1 DEF PeerSend, PeerClose, handle, call, faults
<1>2. ASSUME NEW n \in ReadSizes, NEW ex \in BOOLEAN, Read(n, ex) PROVE FlagsOK'
  BY <1>2 DEF Read, StartReading, conn, faults
<1>3. CASE ReadExactNothing
  BY <1>3 DEF ReadExactNothing, conn, handle, faults
<1>4. ASSUME NEW c, NEW n, Write(c, n) \/ Yield(c) \/ WriteDone(c) \/ Resume(c)
      PROVE  FlagsOK'
  BY <1>4 DEF Write, Yield, WriteDone, Resume, conn, handle, call, faults
<1>5. ASSUME NEW c, Finish(c) PROVE FlagsOK'
  BY <1>5 DEF Finish, conn, call, faults
<1>6. CASE DeliverBytes
  <2>1. again' \in BOOLEAN
    BY <1>6 DEF DeliverBytes
  <2>2. mode' \in {"reading", "stopped", "broken"} /\ data' \in {Reader, NULL} /\ exact' = exact
    BY <1>6 DEF DeliverBytes, AwaitResume, StopReading, StartReading
  <2>. QED
    BY <1>6, <2>1, <2>2 DEF DeliverBytes, faults
<1>7. CASE DeliverNothing
  BY <1>7 DEF DeliverNothing, AwaitResume, StopReading, StartReading, conn, faults
<1>8. CASE DeliverEof \/ DeliverReset \/ DeliverNoBufs
  BY <1>8 DEF DeliverEof, DeliverReset, DeliverNoBufs, AwaitResumeError, conn, call, faults
<1>9. CASE WildCallback \/ LeaveRead \/ UNCHANGED vars
  BY <1>9 DEF WildCallback, LeaveRead, vars, conn, handle, call, faults
<1>. QED
  BY <1>1, <1>2, <1>3, <1>4, <1>5, <1>6, <1>7, <1>8, <1>9 DEF Next, Run, UvRead

LEMMA NextCoroutines == CoroutinesOK /\ [Next]_vars => CoroutinesOK'
<1> SUFFICES ASSUME CoroutinesOK, [Next]_vars PROVE CoroutinesOK'
  OBVIOUS
<1>. USE DEF CoroutinesOK, Places, Results, Verdicts
<1>1. CASE PeerSend \/ PeerClose \/ WildCallback \/ LeaveRead \/ UNCHANGED vars
  BY <1>1 DEF PeerSend, PeerClose, WildCallback, LeaveRead, vars, writes
<1>2. ASSUME NEW n \in ReadSizes, NEW ex \in BOOLEAN, Read(n, ex) PROVE CoroutinesOK'
  BY <1>2 DEF Read, writes
<1>3. CASE ReadExactNothing
  BY <1>3 DEF ReadExactNothing, writes
<1>4. ASSUME NEW c \in Coroutines, NEW n \in WriteSizes, Write(c, n) PROVE CoroutinesOK'
  BY <1>4 DEF Write
<1>5. ASSUME NEW c \in Coroutines, Yield(c) \/ Finish(c) \/ Resume(c) PROVE CoroutinesOK'
  BY <1>5 DEF Yield, Finish, Resume, writes
<1>6. ASSUME NEW c \in Coroutines, WriteDone(c) PROVE CoroutinesOK'
  BY <1>6 DEF WriteDone
<1>7. ASSUME NEW n, AwaitResume(n), UNCHANGED writes PROVE CoroutinesOK'
  BY <1>7 DEF AwaitResume, ReadResult, writes
<1>8. CASE DeliverBytes \/ DeliverNothing
  BY <1>7, <1>8 DEF DeliverBytes, DeliverNothing
<1>9. CASE DeliverEof \/ DeliverReset \/ DeliverNoBufs
  BY <1>9 DEF DeliverEof, DeliverReset, DeliverNoBufs, AwaitResumeError, writes
<1>. QED
  BY <1>1, <1>2, <1>3, <1>4, <1>5, <1>6, <1>8, <1>9 DEF Next, Run, UvRead

\* The variables have their types, and no byte is delivered that was not sent.
THEOREM TypeCorrect == Spec => [](TypeOK /\ drained <= sent)
<1>1. Init => TypeOK /\ drained <= sent
  BY InitTypes DEF Init
<1>2. TypeOK /\ drained <= sent /\ [Next]_vars => (TypeOK /\ drained <= sent)'
  BY NextCounts, NextFlags, NextCoroutines DEF TypeOK
<1>. QED
  BY <1>1, <1>2, PTL DEF Spec
-----------------------------------------------------------------------------
(* The handle and the coroutines suspended on it. *)

\* A write is in flight only for a coroutine that waits for it, and nobody but
\* the reader waits for a read: this is what keeps a callback of one kind from
\* resuming a coroutine that waits for the other.
FlightIsAwaited ==
  \A c \in Coroutines : /\ flight[c] # NULL => at[c] = "writing"
                        /\ at[c] = "reading" => c = Reader

\* The inductive invariant of the handle.  While libuv is inside a callback
\* the awaiter may already be gone, so ReadingHasAwaiter is carried by mode
\* and at together, step by step.
HandleInv == ReadingHasAwaiter /\ AwaitedIsPending /\ FlightIsAwaited

LEMMA InitHandle == Init => HandleInv
  BY DEF Init, HandleInv, ReadingHasAwaiter, AwaitedIsPending, FlightIsAwaited

LEMMA NextFlight ==
  ASSUME TypeOK, FlightIsAwaited, [Next]_vars
  PROVE  FlightIsAwaited'
<1>. USE SizesAssumption DEF TypeOK, CoroutinesOK, FlightIsAwaited
<1>1. CASE PeerSend \/ PeerClose \/ WildCallback \/ LeaveRead \/ ReadExactNothing \/ UNCHANGED vars
  BY <1>1 DEF PeerSend, PeerClose, WildCallback, LeaveRead, ReadExactNothing, vars, writes
<1>2. ASSUME NEW n, NEW ex, Read(n, ex) PROVE FlightIsAwaited'
  BY <1>2 DEF Read, writes
<1>3. ASSUME NEW c \in Coroutines, NEW n, Write(c, n) PROVE FlightIsAwaited'
  BY <1>3 DEF Write
<1>4. ASSUME NEW c \in Coroutines, Yield(c) \/ Finish(c) \/ Resume(c) PROVE FlightIsAwaited'
  BY <1>4 DEF Yield, Finish, Resume, writes
<1>5. ASSUME NEW c \in Coroutines, WriteDone(c) PROVE FlightIsAwaited'
  BY <1>5 DEF WriteDone
<1>6. CASE DeliverBytes \/ DeliverNothing
  BY <1>6 DEF DeliverBytes, DeliverNothing, AwaitResume, ReadCallback, Live, writes
<1>7. CASE DeliverEof \/ DeliverReset \/ DeliverNoBufs
  BY <1>7 DEF DeliverEof, DeliverReset, DeliverNoBufs, AwaitResumeError, ReadCallback, Live,
              writes
<1>. QED
  BY <1>1, <1>2, <1>3, <1>4, <1>5, <1>6, <1>7 DEF Next, Run, UvRead

LEMMA NextReading ==
  ASSUME TypeOK, FlightIsAwaited, ReadingHasAwaiter, [Next]_vars
  PROVE  ReadingHasAwaiter'
<1>. USE DEF TypeOK, FlagsOK, CoroutinesOK, ReadingHasAwaiter, Live
<1>1. CASE PeerSend \/ PeerClose \/ LeaveRead \/ ReadExactNothing \/ UNCHANGED vars
  BY <1>1 DEF PeerSend, PeerClose, LeaveRead, ReadExactNothing, vars, handle, faults
<1>2. CASE WildCallback
  BY <1>2 DEF WildCallback, handle
<1>3. ASSUME NEW n, NEW ex, Read(n, ex) PROVE ReadingHasAwaiter'
  BY <1>3 DEF Read, StartReading, Coroutines, faults
<1>4. ASSUME NEW c \in Coroutines, NEW n, Write(c, n) \/ Yield(c) \/ Resume(c)
      PROVE  ReadingHasAwaiter'
  BY <1>4 DEF Write, Yield, Resume, handle, faults, Coroutines
<1>5. ASSUME NEW c \in Coroutines, Finish(c) PROVE ReadingHasAwaiter'
  BY <1>5 DEF Finish, Coroutines, faults
<1>6. ASSUME NEW c \in Coroutines, WriteDone(c) PROVE ReadingHasAwaiter'
  BY <1>6 DEF WriteDone, FlightIsAwaited, Coroutines, handle, faults
<1>7. CASE DeliverBytes \/ DeliverNothing
  BY <1>7 DEF DeliverBytes, DeliverNothing, AwaitResume, StopReading, StartReading,
              ReadCallback, Idle, Coroutines, faults
<1>8. CASE DeliverEof \/ DeliverReset \/ DeliverNoBufs
  BY <1>8 DEF DeliverEof, DeliverReset, DeliverNoBufs, AwaitResumeError, ReadCallback, Idle,
              faults
<1>. QED
  BY <1>1, <1>2, <1>3, <1>4, <1>5, <1>6, <1>7, <1>8 DEF Next, Run, UvRead

LEMMA NextPending ==
  ASSUME TypeOK, FlightIsAwaited, AwaitedIsPending, [Next]_vars
  PROVE  AwaitedIsPending'
<1>. USE SizesAssumption DEF TypeOK, FlagsOK, CoroutinesOK, FlightIsAwaited, AwaitedIsPending,
                             Coroutines
<1>1. CASE PeerSend \/ PeerClose \/ WildCallback \/ LeaveRead \/ ReadExactNothing \/ UNCHANGED vars
  BY <1>1 DEF PeerSend, PeerClose, WildCallback, LeaveRead, ReadExactNothing, vars, handle,
              writes
<1>2. ASSUME NEW n, NEW ex, Read(n, ex) PROVE AwaitedIsPending'
  BY <1>2 DEF Read, StartReading, writes
<1>3. ASSUME NEW c \in Coroutines, NEW n \in WriteSizes, Write(c, n)
      PROVE  AwaitedIsPending'
  BY <1>3 DEF Write, handle
<1>4. ASSUME NEW c \in Coroutines, Yield(c) \/ Resume(c) PROVE AwaitedIsPending'
  BY <1>4 DEF Yield, Resume, handle, writes
<1>5. ASSUME NEW c \in Coroutines, Finish(c) PROVE AwaitedIsPending'
  BY <1>5 DEF Finish, writes
<1>6. ASSUME NEW c \in Coroutines, WriteDone(c) PROVE AwaitedIsPending'
  BY <1>6 DEF WriteDone, handle
<1>7. CASE DeliverBytes \/ DeliverNothing
  BY <1>7 DEF DeliverBytes, DeliverNothing, AwaitResume, StopReading, StartReading,
              ReadCallback, Live, writes
<1>8. CASE DeliverEof \/ DeliverReset \/ DeliverNoBufs
  BY <1>8 DEF DeliverEof, DeliverReset, DeliverNoBufs, AwaitResumeError, ReadCallback, Live,
              writes
<1>. QED
  BY <1>1, <1>2, <1>3, <1>4, <1>5, <1>6, <1>7, <1>8 DEF Next, Run, UvRead

LEMMA HandleCorrect == Spec => []HandleInv
<1>1. TypeOK /\ HandleInv /\ [Next]_vars => HandleInv'
  BY NextFlight, NextReading, NextPending DEF HandleInv
<1>. QED
  BY InitHandle, TypeCorrect, <1>1, PTL DEF Spec

\* libuv never calls back into an awaiter that is gone, whatever the order of
\* reads, writes, closes and resets, unless a read of an empty span was made.
THEOREM NoDeadAwaiter == Spec => []ReadingHasAwaiter
  BY HandleCorrect, PTL DEF HandleInv

\* No coroutine is left suspended without a callback to come, except on a
\* handle that a read error has broken.
THEOREM NoLostWakeup == Spec => []AwaitedIsPending
  BY HandleCorrect, PTL DEF HandleInv

-----------------------------------------------------------------------------
(* The bytes. *)

\* A read_exact that succeeded has no room left in its span.
ExactFilled == exact /\ result = "ok" => room = 0

BytesInv == SpanTracksStream /\ ExactFilled

LEMMA NextSpan ==
  ASSUME CountsOK, SpanTracksStream, [Next]_vars
  PROVE  SpanTracksStream'
<1>. USE SizesAssumption DEF CountsOK, SpanTracksStream
<1>1. CASE PeerSend \/ PeerClose \/ WildCallback \/ LeaveRead \/ UNCHANGED vars
  BY <1>1 DEF PeerSend, PeerClose, WildCallback, LeaveRead, vars, conn, call
<1>2. ASSUME NEW n \in ReadSizes, NEW ex, Read(n, ex) PROVE SpanTracksStream'
  BY <1>2 DEF Read, conn
<1>3. CASE ReadExactNothing
  BY <1>3 DEF ReadExactNothing, conn
<1>4. ASSUME NEW c, NEW n, Write(c, n) \/ Yield(c) \/ Finish(c) \/ WriteDone(c) \/ Resume(c)
      PROVE  SpanTracksStream'
  BY <1>4 DEF Write, Yield, Finish, WriteDone, Resume, conn, call
<1>5. CASE DeliverBytes
  BY <1>5 DEF DeliverBytes, AwaitResume, Rest, Inbox
<1>6. CASE DeliverNothing
  BY <1>6 DEF DeliverNothing, AwaitResume, Rest, conn
<1>7. CASE DeliverEof \/ DeliverReset \/ DeliverNoBufs
  BY <1>7 DEF DeliverEof, DeliverReset, DeliverNoBufs, AwaitResumeError, conn, call
<1>. QED
  BY <1>1, <1>2, <1>3, <1>4, <1>5, <1>6, <1>7 DEF Next, Run, UvRead

LEMMA NextFilled ==
  ASSUME CountsOK, ExactFilled, [Next]_vars
  PROVE  ExactFilled'
<1>. USE SizesAssumption DEF CountsOK, ExactFilled
<1>1. CASE PeerSend \/ PeerClose \/ WildCallback \/ LeaveRead \/ UNCHANGED vars
  BY <1>1 DEF PeerSend, PeerClose, WildCallback, LeaveRead, vars, call
<1>2. ASSUME NEW n \in ReadSizes, NEW ex, Read(n, ex) PROVE ExactFilled'
  BY <1>2 DEF Read
<1>3. CASE ReadExactNothing
  BY <1>3 DEF ReadExactNothing
<1>4. ASSUME NEW c, NEW n, Write(c, n) \/ Yield(c) \/ Finish(c) \/ WriteDone(c) \/ Resume(c)
      PROVE  ExactFilled'
  BY <1>4 DEF Write, Yield, Finish, WriteDone, Resume, call
<1>5. ASSUME NEW n \in Nat, room > 0, AwaitResume(n) PROVE ExactFilled'
  <2>1. exact' = exact /\ room' = room - n
    BY <1>5 DEF AwaitResume, Rest
  <2>2. CASE n = 0 \/ Satisfied(n)
    <3>1. result' = ReadResult(n)
      BY <1>5, <2>2 DEF AwaitResume
    <3>2. exact /\ result' = "ok" => n > 0 /\ Satisfied(n)
      BY <2>2, <3>1 DEF ReadResult
    <3>. QED
      BY <2>1, <3>2 DEF Satisfied
  <2>3. CASE ~(n = 0 \/ Satisfied(n))
    <3>1. result' = result /\ exact /\ n # room /\ n # 0
      BY <1>5, <2>3 DEF AwaitResume, Satisfied
    <3>. QED
      BY <1>5, <2>1, <3>1
  <2>. QED
    BY <2>2, <2>3
<1>6. CASE DeliverBytes \/ DeliverNothing
  BY <1>5, <1>6 DEF DeliverBytes, DeliverNothing, Inbox
<1>7. CASE DeliverEof \/ DeliverReset \/ DeliverNoBufs
  BY <1>7 DEF DeliverEof, DeliverReset, DeliverNoBufs, AwaitResumeError, call
<1>. QED
  BY <1>1, <1>2, <1>3, <1>4, <1>6, <1>7 DEF Next, Run, UvRead

LEMMA BytesCorrect == Spec => []BytesInv
<1>1. Init => BytesInv
  BY DEF Init, BytesInv, SpanTracksStream, ExactFilled
<1>2. CountsOK /\ BytesInv /\ [Next]_vars => BytesInv'
  BY NextSpan, NextFilled DEF BytesInv
<1>3. TypeOK => CountsOK
  BY DEF TypeOK
<1>. QED
  BY <1>1, <1>2, <1>3, TypeCorrect, PTL DEF Spec

\* Bytes land in the caller's span in stream order, none lost or overwritten,
\* and read_exact succeeds on exactly the bytes it was asked for.
THEOREM SpansFollowStream == Spec => [](SpanTracksStream /\ ExactIsExact)
<1>1. CountsOK /\ BytesInv => SpanTracksStream /\ ExactIsExact
  BY DEF CountsOK, BytesInv, SpanTracksStream, ExactFilled, ExactIsExact
<1>2. TypeOK => CountsOK
  BY DEF TypeOK
<1>. QED
  BY <1>1, <1>2, BytesCorrect, TypeCorrect, PTL

\* A read_exact that succeeds has taken as many bytes from the stream as its
\* caller asked for, no more and no less.
THEOREM ExactFillsSpan == Spec => []ExactIsExact
<1>. QED
  BY SpansFollowStream, PTL

LEMMA NextEof ==
  ASSUME CountsOK, EofIsReal, [Next]_vars
  PROVE  EofIsReal'
<1>. USE SizesAssumption DEF CountsOK, EofIsReal, Inbox
<1>1. CASE PeerSend \/ PeerClose \/ WildCallback \/ LeaveRead \/ UNCHANGED vars
  BY <1>1 DEF PeerSend, PeerClose, WildCallback, LeaveRead, vars, conn, call
<1>2. ASSUME NEW n \in ReadSizes, NEW ex, Read(n, ex) PROVE EofIsReal'
  BY <1>2 DEF Read
<1>3. CASE ReadExactNothing
  BY <1>3 DEF ReadExactNothing
<1>4. ASSUME NEW c, NEW n, Write(c, n) \/ Yield(c) \/ Finish(c) \/ WriteDone(c) \/ Resume(c)
      PROVE  EofIsReal'
  BY <1>4 DEF Write, Yield, Finish, WriteDone, Resume, conn, call
<1>5. CASE DeliverBytes \/ DeliverNothing
  <2>1. ASSUME NEW n \in Nat, AwaitResume(n), ~exact PROVE result' # "eof"
    BY <2>1 DEF AwaitResume, Satisfied, ReadResult
  <2>2. ASSUME NEW n \in Nat, AwaitResume(n) PROVE exact' = exact
    BY <2>2 DEF AwaitResume
  <2>. QED
    BY <1>5, <2>1, <2>2 DEF DeliverBytes, DeliverNothing
<1>6. CASE DeliverEof
  BY <1>6 DEF DeliverEof, conn
<1>7. CASE DeliverReset \/ DeliverNoBufs
  BY <1>7 DEF DeliverReset, DeliverNoBufs, AwaitResumeError
<1>. QED
  BY <1>1, <1>2, <1>3, <1>4, <1>5, <1>6, <1>7 DEF Next, Run, UvRead

\* read says the stream has ended only when it has, and only after every byte
\* of it was handed over.
THEOREM EndIsReported == Spec => []EofIsReal
<1>1. Init => EofIsReal
  BY DEF Init, EofIsReal
<1>2. TypeOK => CountsOK
  BY DEF TypeOK
<1>. QED
  BY <1>1, <1>2, NextEof, TypeCorrect, PTL DEF Spec
-----------------------------------------------------------------------------
(* The stream is a channel. *)

\* While a read is under way it has no result yet, nothing was taken back, and
\* a read that is not exact has taken nothing: its first bytes end it.
CallUnderway ==
  at[Reader] = "reading" =>
    result = "none" /\ base <= drained /\ (~exact => drained = base)

\* What a step of the channel starts from.  FlightIsAwaited is here because the
\* reader may write too: the callback of its write must not end its read.
ChannelInv ==
  TypeOK /\ drained <= sent /\ FlightIsAwaited /\ SpanTracksStream /\ CallUnderway

\* A step that leaves the reader's call alone.
LEMMA CallAlone ==
  ASSUME CountsOK, sent' \in Nat, sent <= sent', CallUnderway,
         UNCHANGED <<drained, call, result>>,
         (at[Reader] = "reading") <=> (at[Reader] = "reading")'
  PROVE  CallUnderway' /\ Channel!Next
<1>1. /\ base' = base /\ want' = want /\ room' = room /\ exact' = exact
      /\ drained' = drained /\ result' = result
  BY DEF call
<1>2. CallUnderway'
  BY <1>1 DEF CallUnderway
<1>3. Given' = Given /\ Chunk' = Chunk
  BY <1>1 DEF Given, Chunk
<1>4. Succeeded' = Succeeded
  BY <1>1 DEF Succeeded
<1>5. sent' \in Nat /\ sent' >= sent
  BY DEF CountsOK
<1>. QED
  BY <1>2, <1>3, <1>4, <1>5 DEF Channel!Next, Channel!Arrive

\* A call that ends well hands out what its span holds.
LEMMA CallSucceeds ==
  ASSUME TypeOK, sent' = sent, CountsOK', SpanTracksStream', (drained <= sent)',
         base' = Given, result' \in {"ok", "zero"}, result' = "zero" => drained' = base',
         base' <= drained', (at[Reader] # "reading")'
  PROVE  CallUnderway' /\ Channel!Next
<1>. DEFINE n == drained' - base'
            g == Given
<1>1. /\ g \in Nat /\ drained' \in Nat /\ sent \in Nat /\ sent' \in Nat
      /\ base' = g /\ base' <= drained' /\ drained' <= sent'
  BY DEF TypeOK, CountsOK, Given
<1>2. Given' = drained'
  BY DEF Given
<1>. HIDE DEF g
<1>3. n \in 0..(sent' - g) /\ Given' = g + n
  <2>1. \A b, d, e \in Nat : b <= d /\ d <= e => d - b \in 0..(e - b) /\ d = b + (d - b)
    OBVIOUS
  <2>2. n \in 0..(sent' - base') /\ drained' = base' + n
    BY <1>1, <2>1
  <2>. QED
    BY <1>1, <1>2, <2>2
<1>4. Chunk' = [i \in 1..n |-> g + i]
  <2>1. CASE result' = "ok"
    <3>1. (want - room)' = n
      BY DEF SpanTracksStream
    <3>. HIDE DEF n
    <3>. QED
      BY <1>1, <2>1, <3>1 DEF Chunk
  <2>2. CASE result' = "zero"
    <3>1. n = 0
      BY <1>1, <2>2
    <3>. HIDE DEF n
    <3>2. [i \in 1..n |-> g + i] = << >>
      BY <3>1
    <3>. QED
      BY <2>2, <3>2 DEF Chunk
  <2>. QED
    BY <2>1, <2>2
<1>5. Succeeded' = TRUE
  BY DEF Succeeded
<1>6. Channel!HandOut
  <2>. HIDE DEF n
  <2>. QED
    BY <1>3, <1>4, <1>5 DEF Channel!HandOut, g
<1>7. Channel!Next
  BY <1>1, <1>6 DEF Channel!Next, Channel!Arrive
<1>. QED
  BY <1>7 DEF CallUnderway

\* A call begins, or ends badly: nothing is handed out.
LEMMA CallFails ==
  ASSUME TypeOK, sent' = sent, Given' \in Nat, Given <= Given', Given' <= sent,
         result' \notin {"ok", "zero"}
  PROVE  Channel!Next
<1>1. sent \in Nat /\ Given \in Nat
  BY DEF TypeOK, CountsOK, Given
<1>2. Chunk' = << >>
  BY DEF Chunk
<1>3. Succeeded' = FALSE
  BY DEF Succeeded
<1>4. Given' \in Given..sent'
  BY <1>1
<1>. QED
  BY <1>1, <1>2, <1>3, <1>4 DEF Channel!Next, Channel!Arrive, Channel!Skip

LEMMA ReadStep ==
  ASSUME ChannelInv, NEW n \in ReadSizes, NEW ex, Read(n, ex)
  PROVE  CallUnderway' /\ Channel!Next
<1>1. /\ at[Reader] = "run" /\ at'[Reader] = "reading" /\ sent' = sent /\ drained' = drained
      /\ base' = drained /\ result' = "none"
  BY DEF Read, conn, ChannelInv, TypeOK, CoroutinesOK, Coroutines
<1>2. CallUnderway'
  BY <1>1 DEF CallUnderway, ChannelInv, TypeOK, CountsOK
<1>3. Given = drained /\ Given' = drained
  BY <1>1 DEF Given
<1>4. drained \in Nat /\ drained <= sent
  BY DEF ChannelInv, TypeOK, CountsOK
<1>5. Channel!Next
  BY <1>1, <1>3, <1>4, CallFails DEF ChannelInv
<1>. QED
  BY <1>2, <1>5

\* Bytes, or none, reach the awaiter: the call ends or goes on.
LEMMA ResumeStep ==
  ASSUME ChannelInv, CountsOK', SpanTracksStream', (drained <= sent)',
         NEW n \in Nat, sent' = sent, drained' = drained + n, n <= room, room > 0,
         at[Reader] = "reading", AwaitResume(n)
  PROVE  CallUnderway' /\ Channel!Next
<1>1. /\ base' = base /\ exact' = exact /\ Given = base /\ result = "none"
      /\ base <= drained /\ (~exact => drained = base)
  BY DEF AwaitResume, ChannelInv, CallUnderway, Given
<1>2. /\ drained \in Nat /\ base \in Nat /\ base' <= drained' /\ sent \in Nat
      /\ Reader \in Coroutines /\ at \in [Coroutines -> Places]
  BY <1>1 DEF ChannelInv, TypeOK, CountsOK, CoroutinesOK, Coroutines
<1>3. CASE n = 0 \/ Satisfied(n)
  <2>1. result' = ReadResult(n) /\ at' = [at EXCEPT ![Reader] = "run"]
    BY <1>3 DEF AwaitResume
  <2>2. at'[Reader] = "run"
    BY <1>2, <2>1
  <2>3. CASE n > 0
    <3>1. result' = "ok"
      BY <2>1, <2>3 DEF ReadResult
    <3>. QED
      BY <1>1, <1>2, <2>2, <3>1, CallSucceeds DEF ChannelInv
  <2>4. CASE ~(n > 0) /\ ~exact
    <3>1. result' = "zero" /\ drained' = base'
      BY <1>1, <1>2, <2>1, <2>4 DEF ReadResult
    <3>. QED
      BY <1>1, <1>2, <2>2, <3>1, CallSucceeds DEF ChannelInv
  <2>5. CASE ~(n > 0) /\ exact
    <3>1. result' = "eof"
      BY <2>1, <2>5 DEF ReadResult
    <3>2. Given' = drained'
      BY <2>2 DEF Given
    <3>3. Channel!Next
      BY <1>1, <1>2, <3>1, <3>2, CallFails DEF ChannelInv
    <3>. QED
      BY <2>2, <3>3 DEF CallUnderway
  <2>. QED
    BY <2>3, <2>4, <2>5
<1>4. CASE ~(n = 0 \/ Satisfied(n))
  <2>1. result' = result /\ at' = at /\ exact
    BY <1>4 DEF AwaitResume, Satisfied
  <2>2. CallUnderway'
    BY <1>1, <1>2, <2>1 DEF CallUnderway
  <2>3. Given' = Given /\ Chunk' = Chunk
    BY <1>1, <2>1 DEF Given, Chunk
  <2>4. Succeeded' = Succeeded
    BY <2>1 DEF Succeeded
  <2>5. sent' \in Nat /\ sent' >= sent
    BY <1>2
  <2>. QED
    BY <2>2, <2>3, <2>4, <2>5 DEF Channel!Next, Channel!Arrive
<1>. QED
  BY <1>3, <1>4

\* The early return of await_resume: what the call had taken is not handed out.
LEMMA ErrorStep ==
  ASSUME ChannelInv, NEW r \in {"eof", "error"}, UNCHANGED conn, at[Reader] = "reading",
         AwaitResumeError(r)
  PROVE  CallUnderway' /\ Channel!Next
<1>1. /\ sent' = sent /\ drained' = drained /\ result' = r
      /\ base <= drained /\ Given = base /\ drained \in Nat /\ base \in Nat /\ drained <= sent
  BY DEF AwaitResumeError, conn, ChannelInv, CallUnderway, Given, TypeOK, CountsOK
<1>2. at'[Reader] = "run"
  BY DEF AwaitResumeError, ChannelInv, TypeOK, CoroutinesOK, Coroutines
<1>3. Given' = drained
  BY <1>1, <1>2 DEF Given
<1>4. Channel!Next
  BY <1>1, <1>3, CallFails DEF ChannelInv
<1>. QED
  BY <1>2, <1>4 DEF CallUnderway

LEMMA ChannelStep ==
  ASSUME ChannelInv, CountsOK', SpanTracksStream', (drained <= sent)', Next
  PROVE  CallUnderway' /\ Channel!Next
<1>. USE DEF ChannelInv
<1>1. /\ CountsOK /\ at \in [Coroutines -> Places] /\ Reader \in Coroutines
      /\ sent \in Nat /\ sent' \in Nat /\ drained \in Nat
  BY DEF TypeOK, CoroutinesOK, Coroutines, CountsOK
<1>2. CASE PeerSend \/ PeerClose \/ WildCallback \/ LeaveRead
  <2>1. sent <= sent' /\ UNCHANGED <<drained, at, call, result>>
    BY <1>1, <1>2 DEF PeerSend, PeerClose, WildCallback, LeaveRead, conn
  <2>. QED
    BY <1>1, <2>1, CallAlone
<1>3. ASSUME NEW n \in ReadSizes, NEW ex, Read(n, ex) PROVE CallUnderway' /\ Channel!Next
  BY <1>3, ReadStep
<1>4. CASE ReadExactNothing
  <2>1. /\ at' = at /\ at[Reader] = "run" /\ sent' = sent /\ drained' = drained
        /\ base' = drained /\ result' = "ok"
    BY <1>4 DEF ReadExactNothing, conn
  <2>2. Given = drained
    BY <2>1 DEF Given
  <2>. QED
    BY <1>1, <2>1, <2>2, CallSucceeds
<1>5. ASSUME NEW c \in Coroutines, NEW n, Write(c, n) \/ Yield(c) \/ Finish(c) \/ Resume(c) \/ WriteDone(c)
      PROVE  CallUnderway' /\ Channel!Next
  <2>1. UNCHANGED <<sent, drained, call, result>>
    BY <1>5 DEF Write, Yield, Finish, Resume, WriteDone, conn
  <2>2. at[c] # "reading"
    BY <1>5 DEF Write, Yield, Finish, Resume, WriteDone, FlightIsAwaited
  <2>3. \E p \in {"run", "other", "writing", "done"} : at' = [at EXCEPT ![c] = p]
    BY <1>5 DEF Write, Yield, Finish, Resume, WriteDone
  <2>4. (at[Reader] = "reading") <=> (at'[Reader] = "reading")
    BY <1>1, <2>2, <2>3
  <2>. QED
    BY <1>1, <2>1, <2>4, CallAlone
<1>6. CASE DeliverBytes \/ DeliverNothing
  <2>1. PICK n \in Nat : /\ sent' = sent /\ drained' = drained + n /\ n <= room /\ room > 0
                         /\ at[Reader] = "reading" /\ AwaitResume(n)
    <3>1. CASE DeliverBytes
      <4>. DEFINE n == IF Inbox < room THEN Inbox ELSE room
      <4>1. n \in Nat /\ n <= room
        BY <1>1, <3>1 DEF DeliverBytes, CountsOK, Inbox
      <4>2. /\ sent' = sent /\ drained' = drained + n /\ room > 0
            /\ at[Reader] = "reading" /\ AwaitResume(n)
        BY <3>1 DEF DeliverBytes, ReadCallback, Live
      <4>. QED
        BY <4>1, <4>2
    <3>2. CASE DeliverNothing
      BY <1>1, <3>2 DEF DeliverNothing, ReadCallback, Live, conn, CountsOK
    <3>. QED
      BY <1>6, <3>1, <3>2
  <2>. QED
    BY <2>1, ResumeStep
<1>7. CASE DeliverEof \/ DeliverReset \/ DeliverNoBufs
  <2>1. PICK r \in {"eof", "error"} : AwaitResumeError(r)
    BY <1>7 DEF DeliverEof, DeliverReset, DeliverNoBufs
  <2>2. UNCHANGED conn /\ at[Reader] = "reading"
    BY <1>7 DEF DeliverEof, DeliverReset, DeliverNoBufs, ReadCallback, Live
  <2>. QED
    BY <2>1, <2>2, ErrorStep
<1>. QED
  BY <1>2, <1>3, <1>4, <1>5, <1>6, <1>7 DEF Next, Run, UvRead

\* read and read_exact, with every order of the peer's bytes, its close and
\* reset and the writes of all halves around them, implement the channel that
\* a buffered reader over the stream relies on.
THEOREM StreamIsChannel == Spec => IsChannel
<1>1. Init => Channel!Init /\ CallUnderway
  BY DEF Init, Channel!Init, Given, Chunk, Succeeded, CallUnderway, Coroutines
<1>2. /\ TypeOK /\ drained <= sent /\ HandleInv /\ BytesInv /\ CallUnderway
      /\ (TypeOK /\ drained <= sent /\ BytesInv)' /\ [Next]_vars
      => CallUnderway' /\ [Channel!Next]_Channel!channel
  <2> SUFFICES ASSUME TypeOK, drained <= sent, HandleInv, BytesInv, CallUnderway,
                      (TypeOK /\ drained <= sent /\ BytesInv)', [Next]_vars
               PROVE  CallUnderway' /\ [Channel!Next]_Channel!channel
    OBVIOUS
  <2>1. CASE Next
    <3>1. ChannelInv /\ CountsOK' /\ SpanTracksStream' /\ (drained <= sent)'
      BY DEF ChannelInv, HandleInv, BytesInv, TypeOK
    <3>. QED
      BY <2>1, <3>1, ChannelStep
  <2>2. CASE UNCHANGED vars
    <3>1. UNCHANGED <<sent, drained, at, base, want, room, exact, result>>
      BY <2>2 DEF vars, conn, call
    <3>2. CallUnderway'
      BY <3>1 DEF CallUnderway
    <3>3. Given' = Given /\ Chunk' = Chunk /\ Succeeded' = Succeeded
      BY <3>1 DEF Given, Chunk, Succeeded
    <3>. QED
      BY <3>1, <3>2, <3>3 DEF Channel!channel
  <2>. QED
    BY <2>1, <2>2
<1>. QED
  BY <1>1, <1>2, TypeCorrect, HandleCorrect, BytesCorrect, PTL DEF Spec, IsChannel, Channel!Spec
=============================================================================
