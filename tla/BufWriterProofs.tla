--------------------------- MODULE BufWriterProofs ---------------------------
(***************************************************************************)
(* Theorems about BufWriter, for every set of callers, capacity and set of *)
(* message sizes: callers that keep clear of an awaited slice get their    *)
(* bytes to io_ in order, all of them, and correctly counted.              *)
(***************************************************************************)
EXTENDS BufWriter, StreamBufferProofs, SequenceTheorems

Slicing(c) == pc[c] \in {"drain", "flush"}

\* At most one call awaits a slice of the buffer.
Alone == \A c, d \in Callers : Slicing(c) /\ Slicing(d) => c = d

\* What is in the buffer, and how it relates to what was sent.
Balance ==
  ~dead =>
    /\ (\A c \in Callers : ~Slicing(c)) => Holds(buf, Len(sent) + 1, accepted)
    /\ \A c \in Callers : pc[c] = "flush" => Len(sent) = accepted
    /\ \A c \in Callers : pc[c] = "drain" =>
         msg[c].first = Len(sent) + 1 /\ accepted = Len(sent) + msg[c].size

\* What a call has still to add to written_bytes.
Counts ==
  \A c \in Callers :
    /\ pc[c] = "idle" /\ result[c] = "ok" => wrote[c] = issued[c]
    /\ pc[c] = "flush" => wrote[c] = issued[c]
    /\ pc[c] = "direct" => issued[c] = wrote[c] + msg[c].size
    /\ pc[c] = "drain" => wrote[c] = 0 /\ issued[c] = RRemaining(buf)

Ordered == sent = Numbers(1, Len(sent))

Channel == Ordered /\ Alone /\ Balance /\ Counts

WriterInv == TypeOK /\ (~overlap => Channel)

-----------------------------------------------------------------------------
(* The buffer and the sequence of sent bytes. *)

LEMMA NumbersAre ==
  ASSUME NEW m \in Nat, NEW n \in Nat
  PROVE  Numbers(m, n) \in Seq(Nat) /\ Len(Numbers(m, n)) = n
<1>1. ASSUME NEW i \in 1..n PROVE m + i - 1 \in Nat
  OBVIOUS
<1>2. Numbers(m, n) \in [1..n -> Nat]
  BY <1>1 DEF Numbers
<1>. QED
  BY <1>2, FunctionIsSeq

LEMMA Extend ==
  ASSUME NEW s \in Seq(Nat), s = Numbers(1, Len(s)), NEW n \in Nat
  PROVE  /\ s \o Numbers(Len(s) + 1, n) = Numbers(1, Len(s) + n)
         /\ Len(s \o Numbers(Len(s) + 1, n)) = Len(s) + n
<1>. DEFINE m == Len(s)
            t == Numbers(m + 1, n)
<1>1. m \in Nat /\ t \in Seq(Nat) /\ Len(t) = n
  <2>1. m \in Nat /\ m + 1 \in Nat
    OBVIOUS
  <2>. HIDE DEF m
  <2>. QED
    BY <2>1, NumbersAre
<1>2. t = [i \in 1..n |-> m + 1 + i - 1] /\ s = [i \in 1..m |-> 1 + i - 1]
  BY DEF Numbers
<1>. HIDE DEF m, t
<1>3. s \in Seq(Nat) /\ Len(s) = m
  BY DEF m
<1>4. /\ s \o t \in Seq(Nat) /\ Len(s \o t) = m + n
      /\ \A i \in 1..(m + n) : (s \o t)[i] = IF i <= m THEN s[i] ELSE t[i - m]
  BY <1>1, <1>3
<1>5. ASSUME NEW i \in 1..(m + n) PROVE (IF i <= m THEN s[i] ELSE t[i - m]) = 1 + i - 1
  <2>1. CASE i <= m
    <3>1. i \in 1..m
      BY <1>1, <2>1
    <3>. QED
      BY <1>2, <2>1, <3>1
  <2>2. CASE ~(i <= m)
    <3>1. i - m \in 1..n /\ m + 1 + (i - m) - 1 = 1 + i - 1
      BY <1>1, <2>2
    <3>2. t[i - m] = m + 1 + (i - m) - 1
      BY <1>2, <3>1
    <3>. QED
      BY <2>2, <3>1, <3>2
  <2>. QED
    BY <2>1, <2>2
<1>6. \A i \in 1..(m + n) : (s \o t)[i] = 1 + i - 1
  BY <1>4, <1>5
<1>7. /\ Numbers(1, m + n) \in Seq(Nat) /\ Len(Numbers(1, m + n)) = m + n
      /\ \A i \in 1..(m + n) : Numbers(1, m + n)[i] = 1 + i - 1
  <2>1. 1 \in Nat /\ m + n \in Nat
    BY <1>1
  <2>. QED
    BY <2>1, NumbersAre DEF Numbers
<1>8. s \o t = Numbers(1, m + n)
  <2>. DEFINE u == s \o t
              v == Numbers(1, m + n)
  <2>1. u \in Seq(Nat) /\ v \in Seq(Nat) /\ Len(u) = Len(v) /\ \A i \in 1..Len(u) : u[i] = v[i]
    BY <1>4, <1>6, <1>7
  <2>. HIDE DEF u, v
  <2>2. u = v
    BY <2>1, SeqEqual
  <2>. QED
    BY <2>2 DEF u, v
<1>. QED
  BY <1>4, <1>8 DEF m, t

LEMMA RemainingIsNat ==
  ASSUME NEW b \in Buffers
  PROVE  RRemaining(b) \in Nat /\ WRemaining(b) \in Nat /\ WRemaining(b) <= Size
  BY BufferParts, SizeAssumption DEF RRemaining, WRemaining

LEMMA ReadableIsSeq ==
  ASSUME NEW b \in Buffers
  PROVE  Readable(b) \in Seq(Nat)
<1>. DEFINE n == RRemaining(b)
<1>1. /\ n \in Nat /\ n = b.w - b.r /\ b.r \in Nat /\ b.w \in Nat /\ b.w <= Size
      /\ b.cell \in [Positions -> Nat]
  BY RemainingIsNat, BufferParts DEF RRemaining
<1>. HIDE DEF n
<1>2. ASSUME NEW i \in 1..n PROVE b.cell[b.r + i - 1] \in Nat
  <2>1. b.r + i - 1 \in Positions
    BY <1>1, SizeAssumption DEF Positions
  <2>. QED
    BY <1>1, <2>1
<1>3. RSlice(b, n) \in [1..n -> Nat]
  BY <1>2 DEF RSlice
<1>. QED
  BY <1>1, <1>3, FunctionIsSeq DEF Readable, n

\* The readable bytes that follow those sent.
LEMMA ReadableNumbers ==
  ASSUME NEW b \in Buffers, NEW m \in Nat, NEW last \in Nat, Holds(b, m + 1, last)
  PROVE  Readable(b) = Numbers(m + 1, RRemaining(b)) /\ last = m + RRemaining(b)
<1>. DEFINE n == RRemaining(b)
<1>1. n \in Nat /\ n = last + 1 - (m + 1)
  BY RemainingIsNat DEF Holds
<1>2. RSlice(b, n) = [i \in 1..n |-> (m + 1) - 1 + i]
  BY <1>1, RSliceIs
<1>. HIDE DEF n
<1>3. \A i \in 1..n : (m + 1) - 1 + i = m + 1 + i - 1
  BY <1>1
<1>4. RSlice(b, n) = Numbers(m + 1, n)
  BY <1>2, <1>3 DEF Numbers
<1>. QED
  BY <1>1, <1>4 DEF Readable, n

LEMMA StoreIsBuffer ==
  ASSUME NEW b \in Buffers, NEW last \in Nat, NEW k \in 0..WRemaining(b)
  PROVE  Store(b, last, k) \in Buffers
<1>1. b.cell \in [Positions -> Nat] /\ b.r \in Nat /\ b.w \in Nat /\ b.r <= b.w /\ b.w <= Size
      /\ k \in Nat /\ b.w + k <= Size
  BY BufferParts, SizeAssumption DEF WRemaining
<1>. DEFINE c == [p \in Positions |->
                    IF b.w <= p /\ p < b.w + k THEN last + 1 + (p - b.w) ELSE b.cell[p]]
<1>2. c \in [Positions -> Nat]
  <2>1. ASSUME NEW p \in Positions PROVE c[p] \in Nat
    <3>1. b.cell[p] \in Nat /\ p \in Nat
      BY <1>1, SizeAssumption DEF Positions
    <3>. QED
      BY <1>1, <3>1
  <2>. QED
    BY <2>1
<1>3. Store(b, last, k) = [cell |-> c, r |-> b.r, w |-> b.w + k]
  BY DEF Store
<1>4. b.w + k \in Nat /\ b.r <= b.w + k
  BY <1>1
<1>. HIDE DEF c
<1>. QED
  BY <1>1, <1>2, <1>3, <1>4, MakeBuffer

LEMMA AdvanceIs ==
  ASSUME NEW b \in Buffers
  PROVE  /\ Advance(b) \in Buffers /\ IsEmpty(Advance(b))
         /\ ResetPos(Advance(b)) \in Buffers /\ RRemaining(ResetPos(Advance(b))) = 0
         /\ ResetData(Advance(b)) \in Buffers /\ RRemaining(ResetData(Advance(b))) = 0
<1>1. b.cell \in [Positions -> Nat] /\ b.r \in Nat /\ b.w \in Nat /\ b.r <= b.w /\ b.w <= Size
  BY BufferParts
<1>2. b.r + RRemaining(b) = b.w
  BY <1>1 DEF RRemaining
<1>3. Advance(b) = [cell |-> b.cell, r |-> b.w, w |-> b.w]
  BY <1>2, BufferParts DEF Advance, RIncrease
<1>4. Advance(b) \in Buffers
  BY <1>1, <1>3, MakeBuffer
<1>5. RRemaining(Advance(b)) = 0 /\ IsEmpty(Advance(b)) /\ Advance(b).cell = b.cell
  BY <1>1, <1>3 DEF RRemaining, IsEmpty
<1>6. ResetPos(Advance(b)) = [cell |-> b.cell, r |-> 0, w |-> 0]
  BY <1>5 DEF ResetPos
<1>. DEFINE c == [p \in Positions |-> IF p < 0 THEN b.cell[Advance(b).r + p] ELSE b.cell[p]]
<1>7. ResetData(Advance(b)) = [cell |-> c, r |-> 0, w |-> 0]
  BY <1>5 DEF ResetData
<1>8. c \in [Positions -> Nat]
  <2>1. ASSUME NEW p \in Positions PROVE p \in Nat /\ ~(p < 0)
    BY SizeAssumption DEF Positions
  <2>. QED
    BY <1>1, <2>1
<1>. HIDE DEF c
<1>. QED
  BY <1>1, <1>4, <1>5, <1>6, <1>7, <1>8, MakeBuffer, SizeAssumption DEF RRemaining

LEMMA EmptyHolds ==
  ASSUME NEW b \in Buffers, RRemaining(b) = 0, NEW m \in Nat
  PROVE  Holds(b, m + 1, m)
  BY BufferParts DEF Holds, RRemaining

LEMMA ResetPosIs ==
  ASSUME NEW b \in Buffers
  PROVE  ResetPos(b) \in Buffers /\ RRemaining(ResetPos(b)) = 0
<1>1. ResetPos(b) = [cell |-> b.cell, r |-> 0, w |-> 0] /\ b.cell \in [Positions -> Nat]
  BY BufferParts DEF ResetPos
<1>. QED
  BY <1>1, MakeBuffer, SizeAssumption DEF RRemaining

-----------------------------------------------------------------------------
(* What the actions have in common: how a call awaits io_, returns, flushes. *)

LEMMA IssueTypes ==
  ASSUME TypeOK, NEW c \in Callers, NEW p \in Awaits, NEW s \in Seq(Nat),
         NEW q \in Seq(Callers), Issue(c, p, s, q)
  PROVE  /\ sent' \in Seq(Nat) /\ queue' \in Seq(Callers)
         /\ pc' \in [Callers -> Awaits \cup {"idle"}]
         /\ result' \in [Callers -> {"none", "ok", "error"}]
<1>1. sent \in Seq(Nat) /\ sent \o s \in Seq(Nat)
  BY DEF TypeOK
<1>. QED
  BY <1>1 DEF TypeOK, Issue

LEMMA ReturnTypes ==
  ASSUME TypeOK, NEW c \in Callers, NEW r \in {"ok", "error"}, NEW q \in Seq(Callers),
         Return(c, r, q)
  PROVE  /\ sent' \in Seq(Nat) /\ queue' \in Seq(Callers)
         /\ pc' \in [Callers -> Awaits \cup {"idle"}]
         /\ result' \in [Callers -> {"none", "ok", "error"}]
  BY DEF TypeOK, Return

LEMMA FlushTypes ==
  ASSUME TypeOK, NEW c \in Callers, NEW b \in Buffers, NEW q \in Seq(Callers),
         Flush(c, b, q)
  PROVE  /\ buf' \in Buffers /\ sent' \in Seq(Nat) /\ queue' \in Seq(Callers)
         /\ pc' \in [Callers -> Awaits \cup {"idle"}]
         /\ result' \in [Callers -> {"none", "ok", "error"}]
<1>1. CASE IsEmpty(b) /\ buf' = ResetPos(b) /\ Return(c, "ok", q)
  BY <1>1, ResetPosIs, ReturnTypes
<1>2. CASE ~IsEmpty(b) /\ buf' = b /\ Issue(c, "flush", Readable(b), q)
  <2>1. Readable(b) \in Seq(Nat) /\ "flush" \in Awaits
    BY ReadableIsSeq DEF Awaits
  <2>. QED
    BY <1>2, <2>1, IssueTypes
<1>. QED
  BY <1>1, <1>2 DEF Flush

\* c is the only call that may use the buffer.
Free(c) == \A d \in Callers \ {c} : ~Slicing(d)

\* The state of the other calls.
OthersStay(c) == \A d \in Callers \ {c} : pc'[d] = pc[d] /\ result'[d] = result[d]

LEMMA IssueOthers ==
  ASSUME TypeOK, NEW c \in Callers, NEW p, NEW s, NEW q, Issue(c, p, s, q)
  PROVE  OthersStay(c) /\ pc'[c] = p
  BY DEF TypeOK, Issue, OthersStay

LEMMA ReturnOthers ==
  ASSUME TypeOK, NEW c \in Callers, NEW r, NEW q, Return(c, r, q)
  PROVE  OthersStay(c) /\ pc'[c] = "idle" /\ result'[c] = r /\ sent' = sent
  BY DEF TypeOK, Return, OthersStay

\* The readable bytes go to io_: if nothing was with io_ that is not in the
\* buffer, the numbers continue those sent.
LEMMA IssueReadable ==
  ASSUME TypeOK, Ordered, ~dead, NEW b \in Buffers, NEW last \in Nat,
         Holds(b, Len(sent) + 1, last), NEW c, NEW p, NEW q,
         Issue(c, p, Readable(b), q)
  PROVE  Ordered' /\ Len(sent') = last
<1>. DEFINE n == RRemaining(b)
<1>1. sent \in Seq(Nat) /\ Len(sent) \in Nat /\ n \in Nat
  BY RemainingIsNat DEF TypeOK
<1>2. Readable(b) = Numbers(Len(sent) + 1, n) /\ last = Len(sent) + n
  BY <1>1, ReadableNumbers
<1>3. sent' = sent \o Numbers(Len(sent) + 1, n)
  BY <1>2 DEF Issue
<1>. HIDE DEF n
<1>4. sent' = Numbers(1, Len(sent) + n) /\ Len(sent') = Len(sent) + n
  BY <1>1, <1>3, Extend DEF Ordered
<1>. QED
  BY <1>2, <1>4 DEF Ordered

LEMMA IssueMessage ==
  ASSUME TypeOK, Ordered, ~dead, NEW n \in Nat, NEW c, NEW p, NEW q,
         Issue(c, p, Numbers(Len(sent) + 1, n), q)
  PROVE  Ordered' /\ Len(sent') = Len(sent) + n
<1>1. sent \in Seq(Nat) /\ sent' = sent \o Numbers(Len(sent) + 1, n)
  BY DEF TypeOK, Issue
<1>2. sent' = Numbers(1, Len(sent) + n) /\ Len(sent') = Len(sent) + n
  BY <1>1, Extend DEF Ordered
<1>. QED
  BY <1>2 DEF Ordered

LEMMA IssueDead ==
  ASSUME Ordered, dead, NEW c, NEW p, NEW s, NEW q, Issue(c, p, s, q)
  PROVE  Ordered'
  BY DEF Ordered, Issue

\* flush, called by write_all or by a caller, at its start or after an answer.
LEMMA FlushKeeps ==
  ASSUME TypeOK, NEW c \in Callers, NEW b \in Buffers, NEW q, Flush(c, b, q),
         Free(c), Ordered, accepted' \in Nat, dead' = dead,
         ~dead => Holds(b, Len(sent) + 1, accepted')
  PROVE  /\ Ordered' /\ Alone' /\ Balance'
         /\ OthersStay(c)
         /\ pc'[c] = "flush" \/ (pc'[c] = "idle" /\ result'[c] = "ok")
<1>0. sent \in Seq(Nat) /\ Len(sent) \in Nat
  BY DEF TypeOK
<1>1. CASE IsEmpty(b) /\ buf' = ResetPos(b) /\ Return(c, "ok", q)
  <2>1. OthersStay(c) /\ pc'[c] = "idle" /\ result'[c] = "ok" /\ sent' = sent
    BY <1>1, ReturnOthers
  <2>2. \A d \in Callers : pc'[d] \notin {"drain", "flush"}
    BY <2>1 DEF OthersStay, Free, Slicing
  <2>3. ~dead => accepted' = Len(sent)
    BY <1>0, <1>1, BufferParts DEF IsEmpty, Holds, RRemaining
  <2>4. ~dead => Holds(buf', Len(sent') + 1, accepted')
    BY <1>0, <1>1, <2>1, <2>3, ResetPosIs, EmptyHolds
  <2>5. Ordered' /\ Alone' /\ Balance'
    BY <2>1, <2>2, <2>4 DEF Ordered, Alone, Balance, Slicing
  <2>. QED
    BY <2>1, <2>5
<1>2. CASE ~IsEmpty(b) /\ buf' = b /\ Issue(c, "flush", Readable(b), q)
  <2>1. OthersStay(c) /\ pc'[c] = "flush"
    BY <1>2, IssueOthers
  <2>2. \A d \in Callers \ {c} : pc'[d] \notin {"drain", "flush"}
    BY <2>1 DEF OthersStay, Free, Slicing
  <2>3. Ordered' /\ (~dead => Len(sent') = accepted')
    BY <1>2, IssueReadable, IssueDead
  <2>4. Alone' /\ Balance'
    BY <2>1, <2>2, <2>3 DEF Alone, Balance, Slicing
  <2>. QED
    BY <2>1, <2>3, <2>4
<1>. QED
  BY <1>1, <1>2 DEF Flush

\* A call that awaits no slice returns without another use of the buffer.
LEMMA ReturnKeeps ==
  ASSUME TypeOK, NEW c \in Callers, NEW r, NEW q, Return(c, r, q),
         ~Slicing(c), Ordered, Alone, Balance,
         UNCHANGED <<buf, accepted, msg>>, dead' = dead
  PROVE  Ordered' /\ Alone' /\ Balance'
<1>1. OthersStay(c) /\ pc'[c] = "idle" /\ sent' = sent
  BY ReturnOthers
<1>2. \A d \in Callers : Slicing(d)' <=> Slicing(d)
  BY <1>1 DEF OthersStay, Slicing
<1>3. \A d \in Callers : /\ pc'[d] = "flush" <=> pc[d] = "flush"
                         /\ pc'[d] = "drain" <=> pc[d] = "drain"
  BY <1>1 DEF OthersStay, Slicing
<1>. QED
  BY <1>1, <1>2, <1>3 DEF Ordered, Alone, Balance

\* A step that uses the buffer leaves overlap clear only if no other call
\* awaits a slice of it.
LEMMA TouchFree ==
  ASSUME NEW c \in Callers, Touch(c), ~overlap'
  PROVE  ~overlap /\ Free(c)
  BY DEF Touch, SliceAwaited, Free, Slicing

\* The buffer, when no call awaits a slice of it.
LEMMA FreeHolds ==
  ASSUME NEW c \in Callers, Free(c), ~Slicing(c), Balance, ~dead
  PROVE  Holds(buf, Len(sent) + 1, accepted)
  BY DEF Free, Balance

-----------------------------------------------------------------------------
(* Every action keeps the invariant. *)

LEMMA TypesStep ==
  ASSUME TypeOK, [Next]_vars
  PROVE  TypeOK'
<1>. USE DEF TypeOK
<1>1. CASE UNCHANGED vars
  BY <1>1 DEF vars, local
<1>2. ASSUME NEW c \in Callers, NEW n \in Messages, NEW a \in BOOLEAN, Call(c, n, a)
      PROVE  /\ accepted' \in Nat /\ dead' \in BOOLEAN /\ overlap' \in BOOLEAN
             /\ msg' \in [Callers -> [first : Nat, size : Nat]]
             /\ all' \in [Callers -> BOOLEAN]
             /\ n \in Nat /\ accepted + 1 \in Nat
  <2>1. n \in Nat /\ accepted \in Nat /\ accepted + 1 \in Nat /\ accepted + n \in Nat
    BY WriterAssumption
  <2>. QED
    BY <1>2, <2>1 DEF Call, Touch, SliceAwaited
<1>3. ASSUME NEW c \in Callers, NEW n \in Messages, NEW a \in BOOLEAN, WriteFits(c, n, a)
      PROVE  TypeOK'
  <2>1. n \in Nat /\ n <= WRemaining(buf) /\ accepted \in Nat /\ buf \in Buffers
    BY <1>3, WriterAssumption, RemainingIsNat DEF WriteFits
  <2>2. n \in 0..WRemaining(buf)
    BY <2>1, RemainingIsNat
  <2>3. Store(buf, accepted, n) \in Buffers
    BY <2>1, <2>2, StoreIsBuffer
  <2>4. /\ buf' \in Buffers /\ sent' \in Seq(Nat) /\ queue' \in Seq(Callers)
        /\ pc' \in [Callers -> Awaits \cup {"idle"}]
        /\ result' \in [Callers -> {"none", "ok", "error"}]
    <3>1. CASE a
      BY <1>3, <2>3, <3>1, FlushTypes DEF WriteFits, EndWrite
    <3>2. CASE ~a
      BY <1>3, <2>3, <3>2, ReturnTypes DEF WriteFits, EndWrite
    <3>. QED
      BY <3>1, <3>2
  <2>. QED
    BY <1>2, <1>3, <2>1, <2>4 DEF WriteFits
<1>4. ASSUME NEW c \in Callers, NEW n \in Messages, NEW a \in BOOLEAN, WriteDrains(c, n, a)
      PROVE  TypeOK'
  <2>1. Readable(buf) \in Seq(Nat) /\ RRemaining(buf) \in Nat /\ "drain" \in Awaits
    BY ReadableIsSeq, RemainingIsNat DEF Awaits
  <2>2. /\ sent' \in Seq(Nat) /\ queue' \in Seq(Callers)
        /\ pc' \in [Callers -> Awaits \cup {"idle"}]
        /\ result' \in [Callers -> {"none", "ok", "error"}]
    BY <1>4, <2>1, IssueTypes DEF WriteDrains
  <2>. QED
    BY <1>2, <1>4, <2>1, <2>2 DEF WriteDrains
<1>5. ASSUME NEW c \in Callers, NEW n \in Messages, NEW a \in BOOLEAN, WriteDirect(c, n, a)
      PROVE  TypeOK'
  <2>1. n \in Nat /\ accepted + 1 \in Nat /\ "direct" \in Awaits
    BY WriterAssumption DEF Awaits
  <2>2. Numbers(accepted + 1, n) \in Seq(Nat)
    BY <2>1, NumbersAre
  <2>3. /\ sent' \in Seq(Nat) /\ queue' \in Seq(Callers)
        /\ pc' \in [Callers -> Awaits \cup {"idle"}]
        /\ result' \in [Callers -> {"none", "ok", "error"}]
    BY <1>5, <2>1, <2>2, IssueTypes DEF WriteDirect
  <2>. QED
    BY <1>2, <1>5, <2>1, <2>3 DEF WriteDirect
<1>6. ASSUME NEW c \in Callers, FlushCall(c) PROVE TypeOK'
  <2>1. /\ buf' \in Buffers /\ sent' \in Seq(Nat) /\ queue' \in Seq(Callers)
        /\ pc' \in [Callers -> Awaits \cup {"idle"}]
        /\ result' \in [Callers -> {"none", "ok", "error"}]
    BY <1>6, FlushTypes DEF FlushCall
  <2>. QED
    BY <1>6, <2>1 DEF FlushCall, Touch, SliceAwaited
<1>7. ASSUME queue # << >> PROVE Tail(queue) \in Seq(Callers)
  BY <1>7
<1>8. ASSUME NEW c \in Callers, DrainDone(c) PROVE TypeOK'
  <2>1. /\ msg[c].first \in Nat /\ msg[c].size \in Nat /\ "direct" \in Awaits
        /\ Drained(buf) \in Nat /\ ResetData(Advance(buf)) \in Buffers
    BY AdvanceIs, RemainingIsNat DEF Awaits, Drained
  <2>2. Numbers(msg[c].first, msg[c].size) \in Seq(Nat)
    BY <2>1, NumbersAre
  <2>3. /\ sent' \in Seq(Nat) /\ queue' \in Seq(Callers)
        /\ pc' \in [Callers -> Awaits \cup {"idle"}]
        /\ result' \in [Callers -> {"none", "ok", "error"}]
    BY <1>7, <1>8, <2>1, <2>2, IssueTypes DEF DrainDone, Answered
  <2>4. wrote[c] + Drained(buf) \in Nat /\ issued[c] + msg[c].size \in Nat
    BY <2>1
  <2>. QED
    BY <1>8, <2>1, <2>3, <2>4 DEF DrainDone, Touch, SliceAwaited
<1>9. ASSUME NEW c \in Callers, DirectDone(c) PROVE TypeOK'
  <2>1. /\ buf' \in Buffers /\ sent' \in Seq(Nat) /\ queue' \in Seq(Callers)
        /\ pc' \in [Callers -> Awaits \cup {"idle"}]
        /\ result' \in [Callers -> {"none", "ok", "error"}]
    <3>1. CASE all[c]
      BY <1>7, <1>9, <3>1, FlushTypes DEF DirectDone, Answered, EndWrite
    <3>2. CASE ~all[c]
      BY <1>7, <1>9, <3>2, ReturnTypes DEF DirectDone, Answered, EndWrite
    <3>. QED
      BY <3>1, <3>2
  <2>2. wrote[c] + msg[c].size \in Nat
    OBVIOUS
  <2>. QED
    BY <1>9, <2>1, <2>2 DEF DirectDone, SliceAwaited
<1>10. ASSUME NEW c \in Callers, FlushDone(c) PROVE TypeOK'
  <2>1. /\ buf' \in Buffers /\ sent' \in Seq(Nat) /\ queue' \in Seq(Callers)
        /\ pc' \in [Callers -> Awaits \cup {"idle"}]
        /\ result' \in [Callers -> {"none", "ok", "error"}]
    BY <1>7, <1>10, AdvanceIs, FlushTypes DEF FlushDone, Answered
  <2>. QED
    BY <1>10, <2>1 DEF FlushDone, Touch, SliceAwaited
<1>11. ASSUME NEW c \in Callers, Failed(c) PROVE TypeOK'
  BY <1>7, <1>11, ReturnTypes DEF Failed
<1>. QED
  BY <1>1, <1>3, <1>4, <1>5, <1>6, <1>8, <1>9, <1>10, <1>11 DEF Next, Answer

\* A step of c counts for c alone: the others keep what they have still to add.
LEMMA CountsStep ==
  ASSUME TypeOK, NEW c \in Callers, Counts, OthersStay(c),
         \A d \in Callers \ {c} :
            msg'[d] = msg[d] /\ wrote'[d] = wrote[d] /\ issued'[d] = issued[d],
         Free(c) \/ buf' = buf,
         pc'[c] = "idle" /\ result'[c] = "ok" => wrote'[c] = issued'[c],
         pc'[c] = "flush" => wrote'[c] = issued'[c],
         pc'[c] = "direct" => issued'[c] = wrote'[c] + msg'[c].size,
         pc'[c] = "drain" => wrote'[c] = 0 /\ issued'[c] = RRemaining(buf')
  PROVE  Counts'
<1>1. ASSUME NEW d \in Callers \ {c}
      PROVE  /\ pc'[d] = "idle" /\ result'[d] = "ok" => wrote'[d] = issued'[d]
             /\ pc'[d] = "flush" => wrote'[d] = issued'[d]
             /\ pc'[d] = "direct" => issued'[d] = wrote'[d] + msg'[d].size
             /\ pc'[d] = "drain" => wrote'[d] = 0 /\ issued'[d] = RRemaining(buf')
  <2>1. pc'[d] = pc[d] /\ result'[d] = result[d]
    BY DEF OthersStay
  <2>2. pc[d] = "drain" => buf' = buf
    BY DEF Free, Slicing
  <2>. QED
    BY <2>1, <2>2 DEF Counts
<1>. QED
  BY <1>1 DEF Counts

LEMMA WriteFitsStep ==
  ASSUME TypeOK, Channel, NEW c \in Callers, NEW n \in Messages, NEW a \in BOOLEAN,
         WriteFits(c, n, a), ~overlap'
  PROVE  Channel'
<1>. DEFINE b == Store(buf, accepted, n)
<1>1. /\ pc[c] = "idle" /\ Touch(c) /\ dead' = dead
      /\ accepted' = accepted + n /\ EndWrite(c, b, a, queue)
      /\ wrote' = [wrote EXCEPT ![c] = n] /\ issued' = [issued EXCEPT ![c] = n]
      /\ msg' = [msg EXCEPT ![c] = [first |-> accepted + 1, size |-> n]]
  BY DEF WriteFits, Call
<1>2. /\ n \in Nat /\ accepted \in Nat /\ accepted' \in Nat /\ buf \in Buffers
      /\ sent \in Seq(Nat) /\ Len(sent) + 1 \in Nat /\ queue \in Seq(Callers)
      /\ n \in 0..WRemaining(buf)
  BY <1>1, WriterAssumption, RemainingIsNat DEF TypeOK, WriteFits
<1>3. Free(c) /\ ~Slicing(c)
  BY <1>1, TouchFree DEF Slicing
<1>4. ~dead => Holds(b, Len(sent) + 1, accepted')
  <2>1. ~dead => Holds(buf, Len(sent) + 1, accepted)
    BY <1>3, FreeHolds DEF Channel
  <2>. QED
    BY <1>1, <1>2, <2>1, StoreHolds
<1>5. b \in Buffers
  BY <1>2, StoreIsBuffer
<1>. HIDE DEF b
<1>6. /\ Ordered' /\ Alone' /\ Balance' /\ OthersStay(c)
      /\ pc'[c] = "flush" \/ (pc'[c] = "idle" /\ result'[c] = "ok")
  <2>1. CASE a
    BY <1>1, <1>2, <1>3, <1>4, <1>5, <2>1, FlushKeeps DEF EndWrite, Channel
  <2>2. CASE ~a
    <3>1. buf' = b /\ Return(c, "ok", queue)
      BY <1>1, <2>2 DEF EndWrite
    <3>2. OthersStay(c) /\ pc'[c] = "idle" /\ result'[c] = "ok" /\ sent' = sent
      BY <3>1, ReturnOthers
    <3>3. \A d \in Callers : pc'[d] \notin {"drain", "flush"}
      BY <1>3, <3>2 DEF OthersStay, Free, Slicing
    <3>. QED
      BY <1>1, <1>4, <3>1, <3>2, <3>3 DEF Channel, Ordered, Alone, Balance, Slicing
  <2>. QED
    BY <2>1, <2>2
<1>7. wrote'[c] = issued'[c]
  BY <1>1 DEF TypeOK
<1>8. \A d \in Callers \ {c} : msg'[d] = msg[d] /\ wrote'[d] = wrote[d] /\ issued'[d] = issued[d]
  BY <1>1 DEF TypeOK
<1>9. Counts'
  BY <1>3, <1>6, <1>7, <1>8, CountsStep DEF Channel
<1>. QED
  BY <1>6, <1>9 DEF Channel

LEMMA WriteDrainsStep ==
  ASSUME TypeOK, Channel, NEW c \in Callers, NEW n \in Messages, NEW a \in BOOLEAN,
         WriteDrains(c, n, a), ~overlap'
  PROVE  Channel'
<1>1. /\ pc[c] = "idle" /\ Touch(c) /\ dead' = dead /\ buf' = buf
      /\ accepted' = accepted + n /\ Issue(c, "drain", Readable(buf), queue)
      /\ wrote' = [wrote EXCEPT ![c] = 0] /\ issued' = [issued EXCEPT ![c] = RRemaining(buf)]
      /\ msg' = [msg EXCEPT ![c] = [first |-> accepted + 1, size |-> n]]
  BY DEF WriteDrains, Call
<1>2. n \in Nat /\ accepted \in Nat /\ buf \in Buffers
  BY WriterAssumption DEF TypeOK
<1>3. Free(c) /\ ~Slicing(c)
  BY <1>1, TouchFree DEF Slicing
<1>4. Ordered' /\ (~dead => Len(sent') = accepted)
  <2>1. ~dead => Holds(buf, Len(sent) + 1, accepted)
    BY <1>3, FreeHolds DEF Channel
  <2>. QED
    BY <1>1, <1>2, <2>1, IssueReadable, IssueDead DEF Channel
<1>5. OthersStay(c) /\ pc'[c] = "drain"
  BY <1>1, IssueOthers
<1>6. \A d \in Callers \ {c} : pc'[d] \notin {"drain", "flush"}
  BY <1>3, <1>5 DEF OthersStay, Free, Slicing
<1>7. msg'[c].first = accepted + 1 /\ msg'[c].size = n /\ wrote'[c] = 0 /\ issued'[c] = RRemaining(buf)
  BY <1>1 DEF TypeOK
<1>8. Alone' /\ Balance'
  BY <1>1, <1>4, <1>5, <1>6, <1>7 DEF Alone, Balance, Slicing
<1>9. \A d \in Callers \ {c} : msg'[d] = msg[d] /\ wrote'[d] = wrote[d] /\ issued'[d] = issued[d]
  BY <1>1 DEF TypeOK
<1>10. Counts'
  BY <1>1, <1>3, <1>5, <1>7, <1>9, CountsStep DEF Channel
<1>. QED
  BY <1>4, <1>8, <1>10 DEF Channel

LEMMA WriteDirectStep ==
  ASSUME TypeOK, Channel, NEW c \in Callers, NEW n \in Messages, NEW a \in BOOLEAN,
         WriteDirect(c, n, a), ~overlap'
  PROVE  Channel'
<1>1. /\ pc[c] = "idle" /\ Touch(c) /\ dead' = dead /\ buf' = buf /\ IsEmpty(buf)
      /\ accepted' = accepted + n /\ Issue(c, "direct", Numbers(accepted + 1, n), queue)
      /\ wrote' = [wrote EXCEPT ![c] = 0] /\ issued' = [issued EXCEPT ![c] = n]
      /\ msg' = [msg EXCEPT ![c] = [first |-> accepted + 1, size |-> n]]
  BY DEF WriteDirect, Call
<1>2. n \in Nat /\ accepted \in Nat /\ buf \in Buffers /\ Len(sent) \in Nat
  BY WriterAssumption DEF TypeOK
<1>3. Free(c) /\ ~Slicing(c)
  BY <1>1, TouchFree DEF Slicing
<1>4. RRemaining(buf) = 0
  BY <1>1, <1>2, BufferParts DEF IsEmpty, RRemaining
<1>5. ~dead => accepted = Len(sent)
  <2>1. ~dead => Holds(buf, Len(sent) + 1, accepted)
    BY <1>3, FreeHolds DEF Channel
  <2>. QED
    BY <1>2, <1>4, <2>1 DEF Holds
<1>6. Ordered' /\ (~dead => Len(sent') = accepted')
  BY <1>1, <1>2, <1>5, IssueMessage, IssueDead DEF Channel
<1>7. OthersStay(c) /\ pc'[c] = "direct"
  BY <1>1, IssueOthers
<1>8. \A d \in Callers : pc'[d] \notin {"drain", "flush"}
  BY <1>3, <1>7 DEF OthersStay, Free, Slicing
<1>9. ~dead => Holds(buf', Len(sent') + 1, accepted')
  <2>1. accepted' \in Nat
    BY <1>1, <1>2
  <2>2. Holds(buf, accepted' + 1, accepted')
    BY <1>2, <1>4, <2>1, EmptyHolds
  <2>. QED
    BY <1>1, <1>6, <2>2
<1>10. Alone' /\ Balance'
  BY <1>1, <1>8, <1>9 DEF Alone, Balance, Slicing
<1>11. /\ issued'[c] = wrote'[c] + msg'[c].size
       /\ \A d \in Callers \ {c} : msg'[d] = msg[d] /\ wrote'[d] = wrote[d] /\ issued'[d] = issued[d]
  BY <1>1, <1>2 DEF TypeOK
<1>12. Counts'
  BY <1>3, <1>7, <1>11, CountsStep DEF Channel
<1>. QED
  BY <1>6, <1>10, <1>12 DEF Channel

LEMMA FlushCallStep ==
  ASSUME TypeOK, Channel, NEW c \in Callers, FlushCall(c), ~overlap'
  PROVE  Channel'
<1>1. /\ pc[c] = "idle" /\ Touch(c) /\ Flush(c, buf, queue)
      /\ wrote' = [wrote EXCEPT ![c] = 0] /\ issued' = [issued EXCEPT ![c] = 0]
      /\ UNCHANGED <<accepted, dead, msg, all>>
  BY DEF FlushCall
<1>2. buf \in Buffers /\ accepted' \in Nat
  BY <1>1 DEF TypeOK
<1>3. Free(c) /\ ~Slicing(c)
  BY <1>1, TouchFree DEF Slicing
<1>4. ~dead => Holds(buf, Len(sent) + 1, accepted')
  BY <1>1, <1>3, FreeHolds DEF Channel
<1>5. /\ Ordered' /\ Alone' /\ Balance' /\ OthersStay(c)
      /\ pc'[c] = "flush" \/ (pc'[c] = "idle" /\ result'[c] = "ok")
  BY <1>1, <1>2, <1>3, <1>4, FlushKeeps DEF Channel
<1>6. /\ wrote'[c] = issued'[c]
      /\ \A d \in Callers \ {c} : msg'[d] = msg[d] /\ wrote'[d] = wrote[d] /\ issued'[d] = issued[d]
  BY <1>1 DEF TypeOK
<1>7. Counts'
  BY <1>3, <1>5, <1>6, CountsStep DEF Channel
<1>. QED
  BY <1>5, <1>7 DEF Channel

LEMMA DrainDoneStep ==
  ASSUME TypeOK, Channel, NEW c \in Callers, DrainDone(c), ~overlap'
  PROVE  Channel'
<1>. DEFINE n == msg[c].size
<1>1. /\ pc[c] = "drain" /\ ~dead /\ dead' = dead /\ Touch(c)
      /\ buf' = ResetData(Advance(buf))
      /\ Issue(c, "direct", Numbers(msg[c].first, n), Tail(queue))
      /\ wrote' = [wrote EXCEPT ![c] = @ + Drained(buf)]
      /\ issued' = [issued EXCEPT ![c] = @ + n]
      /\ accepted' = accepted /\ msg' = msg
  BY DEF DrainDone, Answered
<1>2. n \in Nat /\ accepted \in Nat /\ buf \in Buffers /\ Len(sent) \in Nat
      /\ wrote[c] \in Nat /\ issued[c] \in Nat
  BY DEF TypeOK
<1>3. Free(c)
  BY <1>1, TouchFree
<1>4. msg[c].first = Len(sent) + 1 /\ accepted = Len(sent) + n
  BY <1>1 DEF Channel, Balance
<1>5. Ordered' /\ Len(sent') = accepted'
  BY <1>1, <1>2, <1>4, IssueMessage DEF Channel
<1>6. OthersStay(c) /\ pc'[c] = "direct"
  BY <1>1, IssueOthers
<1>7. \A d \in Callers : pc'[d] \notin {"drain", "flush"}
  BY <1>3, <1>6 DEF OthersStay, Free, Slicing
<1>8. Holds(buf', Len(sent') + 1, accepted')
  <2>1. buf' \in Buffers /\ RRemaining(buf') = 0 /\ accepted' \in Nat
    BY <1>1, <1>2, AdvanceIs
  <2>2. Holds(buf', accepted' + 1, accepted')
    BY <2>1, EmptyHolds
  <2>. QED
    BY <1>5, <2>2
<1>9. Alone' /\ Balance'
  BY <1>7, <1>8 DEF Alone, Balance, Slicing
<1>10. wrote[c] = 0 /\ issued[c] = RRemaining(buf) /\ Drained(buf) = RRemaining(buf)
  BY <1>1 DEF Channel, Counts, Drained
<1>11. issued'[c] = wrote'[c] + msg'[c].size
  <2>1. wrote'[c] = wrote[c] + Drained(buf) /\ issued'[c] = issued[c] + n /\ msg'[c].size = n
    BY <1>1 DEF TypeOK
  <2>. QED
    BY <1>2, <1>10, <2>1
<1>12. \A d \in Callers \ {c} : msg'[d] = msg[d] /\ wrote'[d] = wrote[d] /\ issued'[d] = issued[d]
  BY <1>1 DEF TypeOK
<1>13. Counts'
  BY <1>3, <1>6, <1>11, <1>12, CountsStep DEF Channel
<1>. QED
  BY <1>5, <1>9, <1>13 DEF Channel

LEMMA DirectDoneStep ==
  ASSUME TypeOK, Channel, NEW c \in Callers, DirectDone(c), ~overlap'
  PROVE  Channel'
<1>1. /\ pc[c] = "direct" /\ dead' = dead /\ queue # << >>
      /\ overlap' = (overlap \/ (all[c] /\ SliceAwaited(c)))
      /\ wrote' = [wrote EXCEPT ![c] = @ + msg[c].size]
      /\ EndWrite(c, buf, all[c], Tail(queue))
      /\ accepted' = accepted /\ msg' = msg /\ issued' = issued
  BY DEF DirectDone, Answered
<1>2. buf \in Buffers /\ accepted' \in Nat
  BY <1>1 DEF TypeOK
<1>3. /\ Ordered' /\ Alone' /\ Balance' /\ OthersStay(c)
      /\ pc'[c] = "flush" \/ (pc'[c] = "idle" /\ result'[c] = "ok")
      /\ Free(c) \/ buf' = buf
  <2>1. CASE all[c]
    <3>1. Free(c) /\ Flush(c, buf, Tail(queue))
      BY <1>1, <2>1 DEF Free, Slicing, SliceAwaited, EndWrite
    <3>2. ~dead => Holds(buf, Len(sent) + 1, accepted')
      BY <1>1, <3>1, FreeHolds DEF Channel, Slicing
    <3>. QED
      BY <1>1, <1>2, <3>1, <3>2, FlushKeeps DEF Channel
  <2>2. CASE ~all[c]
    <3>1. buf' = buf /\ Return(c, "ok", Tail(queue))
      BY <1>1, <2>2 DEF EndWrite
    <3>2. Ordered' /\ Alone' /\ Balance'
      BY <1>1, <3>1, ReturnKeeps DEF Channel, Slicing
    <3>. QED
      BY <3>1, <3>2, ReturnOthers
  <2>. QED
    BY <2>1, <2>2
<1>4. wrote'[c] = issued'[c]
  BY <1>1 DEF TypeOK, Channel, Counts
<1>5. \A d \in Callers \ {c} : msg'[d] = msg[d] /\ wrote'[d] = wrote[d] /\ issued'[d] = issued[d]
  BY <1>1 DEF TypeOK
<1>6. Counts'
  BY <1>3, <1>4, <1>5, CountsStep DEF Channel
<1>. QED
  BY <1>3, <1>6 DEF Channel

LEMMA FlushDoneStep ==
  ASSUME TypeOK, Channel, NEW c \in Callers, FlushDone(c), ~overlap'
  PROVE  Channel'
<1>1. /\ pc[c] = "flush" /\ ~dead /\ dead' = dead /\ Touch(c)
      /\ Flush(c, Advance(buf), Tail(queue))
      /\ UNCHANGED <<accepted, msg, wrote, issued>>
  BY DEF FlushDone, Answered
<1>2. accepted \in Nat /\ buf \in Buffers /\ Advance(buf) \in Buffers /\ IsEmpty(Advance(buf))
  BY AdvanceIs DEF TypeOK
<1>3. Free(c) /\ Len(sent) = accepted
  BY <1>1, TouchFree DEF Channel, Balance
<1>4. RRemaining(Advance(buf)) = 0
  BY <1>2, BufferParts DEF IsEmpty, RRemaining
<1>5. Holds(Advance(buf), accepted + 1, accepted)
  BY <1>2, <1>4, EmptyHolds
<1>6. /\ Ordered' /\ Alone' /\ Balance' /\ OthersStay(c)
      /\ pc'[c] = "flush" \/ (pc'[c] = "idle" /\ result'[c] = "ok")
  BY <1>1, <1>2, <1>3, <1>5, FlushKeeps DEF Channel
<1>7. wrote[c] = issued[c]
  BY <1>1 DEF Channel, Counts
<1>8. Counts'
  BY <1>1, <1>3, <1>6, <1>7, CountsStep DEF Channel
<1>. QED
  BY <1>6, <1>8 DEF Channel

\* The error of io_ ends the call; nothing is accounted for from then on.
LEMMA FailedStep ==
  ASSUME TypeOK, Channel, NEW c \in Callers, Failed(c)
  PROVE  Channel'
<1>1. /\ dead' = TRUE /\ buf' = buf /\ Return(c, "error", Tail(queue))
      /\ UNCHANGED <<msg, wrote, issued>>
  BY DEF Failed
<1>2. OthersStay(c) /\ pc'[c] = "idle" /\ result'[c] = "error" /\ sent' = sent
  BY <1>1, ReturnOthers
<1>3. \A d \in Callers : Slicing(d)' => Slicing(d)
  BY <1>2 DEF OthersStay, Slicing
<1>4. Ordered' /\ Alone' /\ Balance'
  BY <1>1, <1>2, <1>3 DEF Channel, Ordered, Alone, Balance
<1>5. Counts'
  BY <1>1, <1>2, CountsStep DEF Channel
<1>. QED
  BY <1>4, <1>5 DEF Channel

LEMMA NextStep ==
  ASSUME WriterInv, [Next]_vars
  PROVE  WriterInv'
<1>1. TypeOK /\ TypeOK'
  BY TypesStep DEF WriterInv
<1>. SUFFICES ASSUME ~overlap' PROVE Channel'
  BY <1>1 DEF WriterInv
<1>2. CASE UNCHANGED vars
  <2>1. Channel
    BY <1>2 DEF WriterInv, vars
  <2>. QED
    BY <1>2, <2>1 DEF vars, local, Channel, Ordered, Alone, Balance, Counts, Slicing
<1>3. CASE Next
  <2>1. ~overlap
    <3>1. ASSUME NEW c \in Callers, Touch(c) PROVE ~overlap
      BY <3>1 DEF Touch
    <3>2. ASSUME NEW c \in Callers, NEW n \in Messages, NEW a \in BOOLEAN,
                 WriteFits(c, n, a) \/ WriteDrains(c, n, a) \/ WriteDirect(c, n, a)
          PROVE  ~overlap
      BY <3>1, <3>2 DEF WriteFits, WriteDrains, WriteDirect, Call
    <3>3. ASSUME NEW c \in Callers, FlushCall(c) \/ DrainDone(c) \/ FlushDone(c) PROVE ~overlap
      BY <3>1, <3>3 DEF FlushCall, DrainDone, FlushDone
    <3>4. ASSUME NEW c \in Callers, DirectDone(c) \/ Failed(c) PROVE ~overlap
      BY <3>4 DEF DirectDone, Failed
    <3>. QED
      BY <1>3, <3>2, <3>3, <3>4 DEF Next, Answer
  <2>2. Channel
    BY <2>1 DEF WriterInv
  <2>. QED
    BY <1>1, <1>3, <2>2, WriteFitsStep, WriteDrainsStep, WriteDirectStep, FlushCallStep,
       DrainDoneStep, DirectDoneStep, FlushDoneStep, FailedStep DEF Next, Answer
<1>. QED
  BY <1>2, <1>3

LEMMA InitHolds ==
  ASSUME Init
  PROVE  WriterInv
<1>1. EmptyBuffer \in Buffers /\ RRemaining(EmptyBuffer) = 0
  <2>1. [p \in Positions |-> 0] \in [Positions -> Nat]
    OBVIOUS
  <2>. QED
    BY <2>1, MakeBuffer, SizeAssumption DEF EmptyBuffer, RRemaining
<1>2. TypeOK
  <2>0. sent \in Seq(Nat) /\ queue \in Seq(Callers)
    BY DEF Init
  <2>1. /\ buf \in Buffers /\ accepted \in Nat /\ dead \in BOOLEAN /\ overlap \in BOOLEAN
    BY <1>1, Zenon DEF Init
  <2>2. /\ pc \in [Callers -> Awaits \cup {"idle"}]
        /\ all \in [Callers -> BOOLEAN]
        /\ result \in [Callers -> {"none", "ok", "error"}]
    BY DEF Init
  <2>3. wrote \in [Callers -> Nat] /\ issued \in [Callers -> Nat]
    BY DEF Init
  <2>4. msg \in [Callers -> [first : Nat, size : Nat]]
    BY DEF Init
  <2>. QED
    BY <2>0, <2>1, <2>2, <2>3, <2>4 DEF TypeOK
<1>3. Ordered
  BY NumbersAre DEF Init, Ordered, Numbers
<1>4. Balance
  <2>1. Holds(buf, 0 + 1, 0) /\ Len(sent) = 0 /\ accepted = 0
    BY <1>1, EmptyHolds DEF Init
  <2>. QED
    BY <2>1 DEF Init, Balance, Slicing
<1>5. Alone /\ Counts
  BY DEF Init, Alone, Counts, Slicing
<1>. QED
  BY <1>2, <1>3, <1>4, <1>5 DEF WriterInv, Channel

-----------------------------------------------------------------------------
(* The theorems. *)

THEOREM InvariantHolds == Spec => []WriterInv
<1>1. Init => WriterInv
  BY InitHolds
<1>2. WriterInv /\ [Next]_vars => WriterInv'
  BY NextStep
<1>. QED
  BY <1>1, <1>2, PTL DEF Spec

\* The cursors and counters of the buffer keep their types, also when calls
\* overlap: the writer moves r_pos_ and w_pos_ past no end of the buffer.
THEOREM TypesHold == Spec => []TypeOK
<1>1. WriterInv => TypeOK
  BY DEF WriterInv
<1>. QED
  BY <1>1, InvariantHolds, PTL

\* The messages reach io_ in the order of the calls, each byte once, whatever
\* is mixed of write, write_all and flush and whenever io_ fails.
THEOREM SentInOrder == Spec => []InOrder
<1>1. WriterInv => InOrder
  BY DEF WriterInv, Channel, Ordered, InOrder
<1>. QED
  BY <1>1, InvariantHolds, PTL

\* No byte is forgotten between the buffer and io_, and flush sends them all.
THEOREM NothingForgotten == Spec => []Accounted
<1>1. WriterInv => Accounted
  <2>. SUFFICES ASSUME WriterInv, ~overlap, ~dead
       PROVE  /\ (\A c \in Callers : pc[c] \notin {"drain", "flush"}) =>
                   accepted = Len(sent) + RRemaining(buf)
              /\ \A c \in Callers : pc[c] = "flush" => accepted = Len(sent)
              /\ \A c \in Callers : pc[c] = "drain" => accepted = Len(sent) + msg[c].size
    BY DEF Accounted
  <2>1. Balance /\ accepted \in Nat /\ Len(sent) \in Nat
    BY DEF WriterInv, Channel, TypeOK
  <2>2. ASSUME \A c \in Callers : pc[c] \notin {"drain", "flush"}
        PROVE  accepted = Len(sent) + RRemaining(buf)
    <3>1. RRemaining(buf) = accepted + 1 - (Len(sent) + 1)
      BY <2>1, <2>2 DEF Balance, Holds, Slicing
    <3>. QED
      BY <2>1, <3>1
  <2>. QED
    BY <2>1, <2>2 DEF Balance
<1>. QED
  BY <1>1, InvariantHolds, PTL

\* What write returns is what it put into the buffer or handed to io_.
THEOREM CountsAreRight == Spec => []CountIsIssued
<1>1. WriterInv => CountIsIssued
  BY DEF WriterInv, Channel, Counts, CountIsIssued
<1>. QED
  BY <1>1, InvariantHolds, PTL
=============================================================================
