------------------------------ MODULE TcpStream ------------------------------
(***************************************************************************)
(* One connected uvio::net::TcpStream, the coroutines that use it and the  *)
(* libuv stream handle underneath it.                                      *)
(*                                                                         *)
(* Everything runs on the thread of the event loop.  A coroutine runs      *)
(* inside a libuv callback until it suspends, so at most one coroutine is  *)
(* running and the loop waits for it.  A read is a ReadAwaiter that the    *)
(* handle points to (socket_->data) while libuv reads into its span; a     *)
(* write is a WriteAwaiter that owns its request.  One coroutine reads     *)
(* (read halves are move-only); any number write, the reader among them.   *)
(* Bytes are positions of the peer's stream, counted, never named.         *)
(***************************************************************************)
EXTENDS Integers

CONSTANTS Reader,      \* the coroutine that reads
          Writers,     \* the coroutines that write, Reader possibly among them
          ReadSizes,   \* sizes of the spans given to read and read_exact
          WriteSizes,  \* sizes of the messages given to write
          MaxSent,     \* bound: the bytes the peer sends
          NULL         \* nullptr; no write in flight

ASSUME SizesAssumption == /\ ReadSizes \subseteq Nat
                          /\ WriteSizes \subseteq Nat
                          /\ MaxSent \in Nat
                          /\ NULL \notin {Reader} \cup WriteSizes

Coroutines == {Reader} \cup Writers

VARIABLES
  peer,     \* the other end: "open", "fin" (it closed) or "reset"
  sent,     \* bytes the peer has sent
  drained,  \* bytes of them copied into a span of the reader
  mode,     \* flags of the handle: "reading" (UV_HANDLE_READING: the loop
            \* delivers its reads), "stopped", or "broken" (a read error
            \* cleared UV_HANDLE_READABLE and UV_HANDLE_WRITABLE for good)
  again,    \* inside uv__read, after a read that filled the whole span
  data,     \* socket_->data: whose ReadAwaiter, or NULL
  at,       \* what each coroutine is doing
  exact,    \* the reader is inside read_exact, not read
  want,     \* size of the span the reader passed
  room,     \* what is left of that span
  base,     \* drained when the call was made
  result,   \* how the reader's last call ended
  flight,   \* each coroutine's write in flight: its size, or NULL
  wrote,    \* how each coroutine's last write ended
  emptied,  \* history: uv__read was given an empty span
  wild      \* a callback has used a ReadAwaiter that no longer exists

conn   == <<peer, sent, drained>>
handle == <<mode, again, data>>
call   == <<exact, want, room, base>>
writes == <<flight, wrote>>
faults == <<emptied, wild>>
vars   == <<conn, handle, at, call, result, writes, faults>>

Places   == {"run", "other", "reading", "writing", "done"}
Results  == {"none", "ok", "zero", "eof", "error"}
Verdicts == {"none", "ok", "writezero", "error"}

CountsOK == /\ sent \in Nat /\ drained \in Nat
            /\ want \in Nat /\ room \in Nat /\ base \in Nat

FlagsOK == /\ peer \in {"open", "fin", "reset"}
           /\ mode \in {"reading", "stopped", "broken"}
           /\ data \in {Reader, NULL}
           /\ again \in BOOLEAN /\ exact \in BOOLEAN
           /\ emptied \in BOOLEAN /\ wild \in BOOLEAN

CoroutinesOK == /\ at \in [Coroutines -> Places]
                /\ result \in Results
                /\ flight \in [Coroutines -> WriteSizes \cup {NULL}]
                /\ wrote \in [Coroutines -> Verdicts]

TypeOK == CountsOK /\ FlagsOK /\ CoroutinesOK

Init ==
  /\ peer = "open" /\ sent = 0 /\ drained = 0
  /\ mode = "stopped" /\ again = FALSE /\ data = NULL
  /\ at = [c \in Coroutines |-> "other"]
  /\ exact = FALSE /\ want = 0 /\ room = 0 /\ base = 0
  /\ result = "none"
  /\ flight = [c \in Coroutines |-> NULL]
  /\ wrote = [c \in Coroutines |-> "none"]
  /\ emptied = FALSE /\ wild = FALSE

\* The loop has control; it is inside uv__read while again holds.
Idle == ~wild /\ \A c \in Coroutines : at[c] # "run"
Inbox == sent - drained

-----------------------------------------------------------------------------
(* The peer and the network. *)

PeerSend ==
  /\ ~wild
  /\ peer = "open" /\ sent < MaxSent
  /\ \E k \in 1..(MaxSent - sent) : sent' = sent + k
  /\ UNCHANGED <<peer, drained, handle, at, call, result, writes, faults>>

PeerClose ==
  /\ ~wild
  /\ \/ peer = "open" /\ peer' = "fin"
     \/ peer # "reset" /\ peer' = "reset"
  /\ UNCHANGED <<sent, drained, handle, at, call, result, writes, faults>>

-----------------------------------------------------------------------------
(* What a running coroutine does with the stream. *)

\* The ReadAwaiter's constructor: it is the handle's reader from here on, and
\* the return code of uv_read_start is only logged.
StartReading ==
  /\ data' = Reader
  /\ mode' = IF mode = "broken" THEN "broken" ELSE "reading"

Read(n, ex) ==
  /\ ~wild
  /\ at[Reader] = "run"
  /\ StartReading
  /\ at' = [at EXCEPT ![Reader] = "reading"]
  /\ exact' = ex /\ want' = n /\ room' = n /\ base' = drained
  /\ result' = "none"
  /\ UNCHANGED <<conn, again, writes, faults>>

\* read_exact of an empty span returns without reading.
ReadExactNothing ==
  /\ ~wild
  /\ at[Reader] = "run" /\ 0 \in ReadSizes
  /\ exact' = TRUE /\ want' = 0 /\ room' = 0 /\ base' = drained
  /\ result' = "ok"
  /\ UNCHANGED <<conn, handle, at, writes, faults>>

\* uv_write fails at once on a broken handle, which is only logged: the
\* request is not queued and its callback never comes.
Write(c, n) ==
  /\ ~wild
  /\ c \in Writers /\ at[c] = "run"
  /\ at' = [at EXCEPT ![c] = "writing"]
  /\ flight' = [flight EXCEPT ![c] = IF mode = "broken" THEN NULL ELSE n]
  /\ wrote' = [wrote EXCEPT ![c] = "none"]
  /\ UNCHANGED <<conn, handle, call, result, faults>>

\* The coroutine awaits something that is not this stream.
Yield(c) ==
  /\ ~wild
  /\ at[c] = "run"
  /\ at' = [at EXCEPT ![c] = "other"]
  /\ UNCHANGED <<conn, handle, call, result, writes, faults>>

\* Mutant of Finish: each half of a split stream closes it.
CloseByFirst(c) ==
  /\ ~wild
  /\ at[c] = "run"
  /\ at' = [at EXCEPT ![c] = "done"]
  /\ mode' = IF mode = "reading" THEN "stopped" ELSE mode
  /\ UNCHANGED <<conn, again, data, call, result, writes, faults>>

\* The coroutine ends; the last owner of the stream destroys it, and uv_close
\* stops the handle.
Finish(c) ==
  /\ ~wild
  /\ at[c] = "run"
  /\ at' = [at EXCEPT ![c] = "done"]
  /\ mode' = IF mode = "reading" /\ (\A d \in Coroutines : at'[d] = "done")
             THEN "stopped" ELSE mode
  /\ UNCHANGED <<conn, again, data, call, result, writes, faults>>

-----------------------------------------------------------------------------
(* await_resume of the ReadAwaiter and the loop of read_exact. *)

\* Mutants of StopReading, Rest, Satisfied and ReadResult: uv_read_stop is
\* forgotten; the span does not move on, or moves one byte too far; one read
\* satisfies read_exact; 0 bytes mean the end of the stream to read too.
ForgetStop == data' = NULL /\ mode' = mode
WholeSpan(n) == room
OneTooFar(n) == room - n - 1
AnyBytes(n) == TRUE
ZeroIsEof(n) == IF n > 0 THEN "ok" ELSE "eof"

\* The awaiter leaves the handle and stops it.
StopReading == data' = NULL /\ mode' = "stopped"

\* The span left after n bytes (subspan), and when the call is finished.
Rest(n) == room - n
Satisfied(n) == ~exact \/ n = room

\* What the call returns once n >= 0 bytes ended it.
ReadResult(n) == IF n > 0 THEN "ok" ELSE IF exact THEN "eof" ELSE "zero"

\* nread >= 0: either the caller runs on, or read_exact reads the rest.
AwaitResume(n) ==
  /\ room' = Rest(n)
  /\ \/ /\ n = 0 \/ Satisfied(n)
        /\ StopReading
        /\ result' = ReadResult(n)
        /\ at' = [at EXCEPT ![Reader] = "run"]
     \/ /\ ~(n = 0 \/ Satisfied(n))
        /\ StartReading
        /\ UNCHANGED <<result, at>>
  /\ UNCHANGED <<exact, want, base>>

\* nread < 0: an early return that touches neither the handle nor its data.
AwaitResumeError(r) ==
  /\ result' = r
  /\ at' = [at EXCEPT ![Reader] = "run"]
  /\ UNCHANGED <<data, call>>

-----------------------------------------------------------------------------
(* uv__read, one turn of its loop: alloc_cb, read(2), read_cb. *)

Live == data = Reader /\ at[Reader] = "reading"

ReadCallback == Idle /\ mode = "reading" /\ Live

DeliverBytes ==
  /\ ReadCallback /\ room > 0 /\ Inbox > 0
  /\ LET n == IF Inbox < room THEN Inbox ELSE room IN
       /\ drained' = drained + n
       /\ again' = (n = room)
       /\ AwaitResume(n)
  /\ UNCHANGED <<peer, sent, writes, faults>>

\* The span before was filled and the socket is now drained: read(2) says
\* EAGAIN and read_cb is called with nread = 0.
DeliverNothing ==
  /\ ReadCallback /\ room > 0 /\ again
  /\ Inbox = 0 /\ peer = "open"
  /\ again' = FALSE
  /\ AwaitResume(0)
  /\ UNCHANGED <<conn, writes, faults>>

\* Mutant of DeliverEof: the callback logs the end and returns.
DropEof ==
  /\ ReadCallback /\ room > 0
  /\ Inbox = 0 /\ peer = "fin"
  /\ again' = FALSE /\ mode' = "stopped"
  /\ UNCHANGED <<conn, writes, faults, result, at, data, call>>

DeliverEof ==
  /\ ReadCallback /\ room > 0
  /\ Inbox = 0 /\ peer = "fin"
  /\ again' = FALSE /\ mode' = "stopped"
  /\ AwaitResumeError("eof")
  /\ UNCHANGED <<conn, writes, faults>>

DeliverReset ==
  /\ ReadCallback /\ room > 0 /\ peer = "reset"
  /\ again' = FALSE /\ mode' = "broken"
  /\ AwaitResumeError("error")
  /\ UNCHANGED <<conn, writes, faults>>

\* alloc_cb offered an empty span: UV_ENOBUFS, and the handle keeps reading.
DeliverNoBufs ==
  /\ ReadCallback /\ room = 0
  /\ Inbox > 0 \/ peer # "open" \/ again
  /\ again' = FALSE /\ emptied' = TRUE
  /\ AwaitResumeError("error")
  /\ UNCHANGED <<conn, mode, writes, wild>>

\* The handle reads on and the awaiter its callbacks use is gone.
WildCallback ==
  /\ Idle /\ mode = "reading" /\ ~Live
  /\ Inbox > 0 \/ peer # "open" \/ again
  /\ wild' = TRUE
  /\ UNCHANGED <<conn, handle, at, call, result, writes, emptied>>

\* uv__read returns: reading was stopped, or its 32 turns are used up.
LeaveRead ==
  /\ Idle /\ again
  /\ again' = FALSE
  /\ UNCHANGED <<conn, mode, data, at, call, result, writes, faults>>

-----------------------------------------------------------------------------
(* The other callbacks of the loop. *)

\* Mutant of WriteDone: the callback returns early on an error status.
DropWriteError(c) ==
  /\ Idle /\ ~again
  /\ flight[c] # NULL
  /\ \/ wrote' = [wrote EXCEPT ![c] = "ok"] /\ at' = [at EXCEPT ![c] = "run"]
     \/ peer = "reset" /\ wrote' = [wrote EXCEPT ![c] = "error"] /\ at' = at
  /\ flight' = [flight EXCEPT ![c] = NULL]
  /\ UNCHANGED <<conn, handle, call, result, faults>>

\* The write callback sets the status and resumes the writer, whatever it is.
WriteDone(c) ==
  /\ Idle /\ ~again
  /\ flight[c] # NULL
  /\ \/ wrote' = [wrote EXCEPT ![c] = IF flight[c] = 0 THEN "writezero" ELSE "ok"]
     \/ peer = "reset" /\ wrote' = [wrote EXCEPT ![c] = "error"]
  /\ flight' = [flight EXCEPT ![c] = NULL]
  /\ at' = [at EXCEPT ![c] = "run"]
  /\ UNCHANGED <<conn, handle, call, result, faults>>

Resume(c) ==
  /\ Idle /\ ~again
  /\ at[c] = "other"
  /\ at' = [at EXCEPT ![c] = "run"]
  /\ UNCHANGED <<conn, handle, call, result, writes, faults>>

-----------------------------------------------------------------------------

UvRead == DeliverBytes \/ DeliverNothing \/ DeliverEof \/ DeliverReset \/ DeliverNoBufs

Run(c) ==
  \/ c = Reader /\ \E n \in ReadSizes : Read(n, FALSE)
  \/ c = Reader /\ \E n \in ReadSizes \ {0} : Read(n, TRUE)
  \/ c = Reader /\ ReadExactNothing
  \/ \E n \in WriteSizes : Write(c, n)
  \/ Yield(c)
  \/ Finish(c)

Next ==
  \/ PeerSend \/ PeerClose
  \/ UvRead \/ WildCallback \/ LeaveRead
  \/ \E c \in Coroutines : Run(c) \/ WriteDone(c) \/ Resume(c)

\* A coroutine that runs reaches its next suspension, and every turn of the
\* loop polls every handle, however often the other callbacks come.  Writes
\* complete because the peer, while it is there, reads.
Fairness ==
  /\ SF_vars(UvRead)
  /\ WF_vars(LeaveRead)
  /\ \A c \in Coroutines : WF_vars(Run(c)) /\ SF_vars(WriteDone(c))

Spec == Init /\ [][Next]_vars /\ Fairness
-----------------------------------------------------------------------------
(* Properties. *)

\* While libuv reads, its callbacks find the awaiter of a suspended reader:
\* every way out of a read stops the handle or was stopped by libuv.  The one
\* exception is a read of an empty span, whose UV_ENOBUFS comes back through
\* the early return of await_resume while the handle keeps reading.
ReadingHasAwaiter == mode = "reading" \/ wild => Live \/ emptied

\* No lost wakeup: a coroutine suspended on the stream has a callback coming,
\* unless a read error broke the handle before it called.
AwaitedIsPending ==
  \A c \in Coroutines :
    /\ at[c] = "reading" => mode # "stopped"
    /\ at[c] = "writing" => flight[c] # NULL \/ mode = "broken"

\* read and read_exact put each byte of the stream at its own place of the
\* caller's span: what was taken since the call is what the span holds.
SpanTracksStream == drained - base = want - room

\* To its caller the stream is a channel: a call that succeeds hands out the
\* bytes of its span, which follow those of the call before, none lost between
\* two reads and none twice; only a call that fails keeps what it had taken.
Given == IF at[Reader] = "reading" THEN base ELSE drained
Chunk == IF result = "ok" THEN [i \in 1..(want - room) |-> base + i] ELSE << >>
Succeeded == result \in {"ok", "zero"}
Channel == INSTANCE ByteChannel
           WITH taken <- sent, given <- Given, chunk <- Chunk, ok <- Succeeded
IsChannel == Channel!Spec

\* read_exact succeeds only when the whole span is filled, with just the bytes
\* that follow those of the call before.
ExactIsExact == exact /\ result = "ok" => drained - base = want

\* read reports UnexpectedEOF only after the peer all bytes delivered.
EofIsReal == result = "eof" /\ ~exact => peer # "open" /\ drained = sent

\* The same of read_exact, which maps a read of 0 bytes to UnexpectedEOF
\* ("Read EOF too early", result.hpp).
ExactEofIsReal == result = "eof" /\ exact => peer # "open"

\* A read under way ends once the bytes for it have come or the peer closed.
ReaderProgress ==
  /\ at[Reader] = "reading" /\ mode = "reading"
  /\ peer # "open" \/ (Inbox > 0 /\ (exact => Inbox >= room))
  ~> at[Reader] # "reading"

\* A queued write resumes its coroutine, whatever its status, in a run where no
\* callback has used a dead awaiter.
WriterProgress == \A c \in Coroutines : flight[c] # NULL ~> at[c] = "run" \/ wild
=============================================================================
