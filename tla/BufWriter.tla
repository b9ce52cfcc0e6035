------------------------------ MODULE BufWriter ------------------------------
(***************************************************************************)
(* uvio::io::detail::ImplBufWrite: write, flush and write_all over a       *)
(* StreamBuffer and a stream io_.  Coroutines of one thread share the      *)
(* writer: a call suspends where it awaits io_.write, and others may run   *)
(* until that is answered.                                                 *)
(*                                                                         *)
(* The bytes of the messages are numbered in the order of the calls; sent  *)
(* is what was handed to io_, whose peer gets a prefix of it.              *)
(***************************************************************************)
EXTENDS StreamBuffer

CONSTANTS Callers,     \* the coroutines
          Messages,    \* sizes of the messages they write
          MaxAccepted  \* bound: bytes written in all

ASSUME WriterAssumption == /\ Messages \subseteq Nat \ {0}
                           /\ MaxAccepted \in Nat

VARIABLES
  buf,       \* w_stream_
  accepted,  \* bytes of all calls so far
  sent,      \* the bytes handed to io_.write, in order
  queue,     \* the callers whose io_.write is unanswered, in the order of issue
  dead,      \* io_.write has failed: it will not carry another byte
  pc,        \* where each caller awaits io_: "drain" is write's flush of the
             \* buffer, "direct" its write of the message, "flush" that of flush
  msg,       \* the message of its call: its first number and its size
  all,       \* its call is write_all
  wrote,     \* written_bytes of its last call; what it returned if that is over
  result,    \* how its last call ended
  issued,    \* history: bytes its last call of write put into the buffer or io_,
             \* 0 if that was a call of flush
  overlap    \* history: the buffer was used while a slice of it was awaited

local   == <<pc, msg, all, wrote, result, issued>>
vars    == <<buf, accepted, sent, queue, dead, local, overlap>>

Awaits == {"drain", "direct", "flush"}

TypeOK ==
  /\ buf \in Buffers
  /\ accepted \in Nat /\ sent \in Seq(Nat)
  /\ queue \in Seq(Callers)
  /\ dead \in BOOLEAN /\ overlap \in BOOLEAN
  /\ pc \in [Callers -> Awaits \cup {"idle"}]
  /\ msg \in [Callers -> [first : Nat, size : Nat]]
  /\ all \in [Callers -> BOOLEAN]
  /\ wrote \in [Callers -> Nat] /\ issued \in [Callers -> Nat]
  /\ result \in [Callers -> {"none", "ok", "error"}]

Init ==
  /\ buf = EmptyBuffer /\ accepted = 0 /\ sent = << >>
  /\ queue = << >> /\ dead = FALSE
  /\ pc = [c \in Callers |-> "idle"]
  /\ msg = [c \in Callers |-> [first |-> 0, size |-> 0]]
  /\ all = [c \in Callers |-> FALSE]
  /\ wrote = [c \in Callers |-> 0] /\ issued = [c \in Callers |-> 0]
  /\ result = [c \in Callers |-> "none"]
  /\ overlap = FALSE

\* Some other call awaits io_.write(r_slice()).
SliceAwaited(c) == \E d \in Callers \ {c} : pc[d] \in {"drain", "flush"}

\* c uses the buffer.
Touch(c) == overlap' = (overlap \/ SliceAwaited(c))

\* c hands the bytes s to io_.write and awaits it at p; q is the queue before.
Issue(c, p, s, q) ==
  /\ sent' = IF dead THEN sent ELSE sent \o s
  /\ queue' = Append(q, c)
  /\ pc' = [pc EXCEPT ![c] = p]
  /\ UNCHANGED result

\* The call of c is over.
Return(c, r, q) ==
  /\ pc' = [pc EXCEPT ![c] = "idle"]
  /\ result' = [result EXCEPT ![c] = r]
  /\ queue' = q
  /\ UNCHANGED sent

Numbers(first, n) == [i \in 1..n |-> first + i - 1]

Readable(b) == RSlice(b, RRemaining(b))

\* Mutants of Drained and Advance: the bytes are counted after r_increase; the
\* r_increase is forgotten.
DrainedLate(b) == 0
AdvanceNot(b)  == b

\* What line 27 adds to written_bytes, and the r_increase of lines 29 and 59:
\* all that is readable now, after the await.
Drained(b) == RRemaining(b)
Advance(b) == RIncrease(b, RRemaining(b))

-----------------------------------------------------------------------------

\* flush with the buffer b, from the condition of its loop on.
Flush(c, b, q) ==
  \/ /\ IsEmpty(b)
     /\ buf' = ResetPos(b)
     /\ Return(c, "ok", q)
  \/ /\ ~IsEmpty(b)
     /\ buf' = b
     /\ Issue(c, "flush", Readable(b), q)

\* write returns; write_all goes on to flush.
EndWrite(c, b, a, q) ==
  IF a THEN Flush(c, b, q) ELSE buf' = b /\ Return(c, "ok", q)

\* A call of write, or of write_all if a, with a message of n bytes.
Call(c, n, a) ==
  /\ pc[c] = "idle" /\ accepted + n <= MaxAccepted
  /\ Touch(c)
  /\ accepted' = accepted + n
  /\ msg' = [msg EXCEPT ![c] = [first |-> accepted + 1, size |-> n]]
  /\ all' = [all EXCEPT ![c] = a]
  /\ UNCHANGED dead

WriteFits(c, n, a) ==
  /\ WRemaining(buf) >= n
  /\ Call(c, n, a)
  /\ EndWrite(c, Store(buf, accepted, n), a, queue)
  /\ wrote' = [wrote EXCEPT ![c] = n]
  /\ issued' = [issued EXCEPT ![c] = n]

WriteDrains(c, n, a) ==
  /\ WRemaining(buf) < n /\ ~IsEmpty(buf)
  /\ Call(c, n, a)
  /\ Issue(c, "drain", Readable(buf), queue)
  /\ wrote' = [wrote EXCEPT ![c] = 0]
  /\ issued' = [issued EXCEPT ![c] = RRemaining(buf)]
  /\ UNCHANGED buf

WriteDirect(c, n, a) ==
  /\ WRemaining(buf) < n /\ IsEmpty(buf)
  /\ Call(c, n, a)
  /\ Issue(c, "direct", Numbers(accepted + 1, n), queue)
  /\ wrote' = [wrote EXCEPT ![c] = 0]
  /\ issued' = [issued EXCEPT ![c] = n]
  /\ UNCHANGED buf

FlushCall(c) ==
  /\ pc[c] = "idle"
  /\ Touch(c)
  /\ Flush(c, buf, queue)
  /\ wrote' = [wrote EXCEPT ![c] = 0]
  /\ issued' = [issued EXCEPT ![c] = 0]
  /\ UNCHANGED <<accepted, dead, msg, all>>

-----------------------------------------------------------------------------
(* io_ answers the write issued first. *)

Answered(c, p) == queue # << >> /\ c = Head(queue) /\ pc[c] = p

DrainDone(c) ==
  /\ Answered(c, "drain") /\ ~dead
  /\ Touch(c)
  /\ buf' = ResetData(Advance(buf))
  /\ wrote' = [wrote EXCEPT ![c] = @ + Drained(buf)]
  /\ Issue(c, "direct", Numbers(msg[c].first, msg[c].size), Tail(queue))
  /\ issued' = [issued EXCEPT ![c] = @ + msg[c].size]
  /\ UNCHANGED <<accepted, dead, msg, all>>

DirectDone(c) ==
  /\ Answered(c, "direct") /\ ~dead
  /\ overlap' = (overlap \/ (all[c] /\ SliceAwaited(c)))
  /\ wrote' = [wrote EXCEPT ![c] = @ + msg[c].size]
  /\ EndWrite(c, buf, all[c], Tail(queue))
  /\ UNCHANGED <<accepted, dead, msg, all, issued>>

FlushDone(c) ==
  /\ Answered(c, "flush") /\ ~dead
  /\ Touch(c)
  /\ Flush(c, Advance(buf), Tail(queue))
  /\ UNCHANGED <<accepted, dead, msg, all, wrote, issued>>

\* Mutant of Failed: an error does not resume the caller.
FailedSilently(c) ==
  /\ queue # << >> /\ c = Head(queue)
  /\ dead' = TRUE
  /\ queue' = Tail(queue)
  /\ UNCHANGED <<buf, accepted, sent, local, overlap>>

\* The call returns the error; what is buffered stays so.
Failed(c) ==
  /\ queue # << >> /\ c = Head(queue)
  /\ dead' = TRUE
  /\ Return(c, "error", Tail(queue))
  /\ UNCHANGED <<buf, accepted, msg, all, wrote, issued, overlap>>

Answer == \E c \in Callers : DrainDone(c) \/ DirectDone(c) \/ FlushDone(c) \/ Failed(c)

Next ==
  \/ \E c \in Callers, n \in Messages, a \in BOOLEAN :
       WriteFits(c, n, a) \/ WriteDrains(c, n, a) \/ WriteDirect(c, n, a)
  \/ \E c \in Callers : FlushCall(c)
  \/ Answer

Spec == Init /\ [][Next]_vars /\ WF_vars(Answer)

-----------------------------------------------------------------------------
(* Properties.  The buffer has no lock, and its code reads it anew after an  *)
(* await: what a call appends while another awaits a slice of the buffer is  *)
(* taken for sent.  Callers that keep clear of that, and of nothing else,    *)
(* get a channel.                                                            *)

\* The messages reach io_ in the order of the calls, no byte twice and none
\* left out, errors included.
InOrder == ~overlap => sent = Numbers(1, Len(sent))

\* Until an error, a byte of a message is in the buffer, or with io_, or of the
\* message that waits for the buffer to drain; a flush that ends has sent all.
Accounted ==
  ~overlap /\ ~dead =>
    /\ (\A c \in Callers : pc[c] \notin {"drain", "flush"}) =>
         accepted = Len(sent) + RRemaining(buf)
    /\ \A c \in Callers : pc[c] = "flush" => accepted = Len(sent)
    /\ \A c \in Callers : pc[c] = "drain" => accepted = Len(sent) + msg[c].size

\* What write returns is what it put into the buffer or handed to io_, the
\* earlier bytes it drained included.
CountIsIssued ==
  ~overlap => \A c \in Callers : pc[c] = "idle" /\ result[c] = "ok" => wrote[c] = issued[c]

\* While io_ answers, every call ends.
CallsEnd == \A c \in Callers : pc[c] # "idle" ~> pc[c] = "idle"
=============================================================================
