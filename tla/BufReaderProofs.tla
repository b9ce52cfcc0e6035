--------------------------- MODULE BufReaderProofs ---------------------------
(***************************************************************************)
(* Theorems about BufReader, for every capacity, every text, flag and set  *)
(* of span sizes: the bytes between the cursors are the next of the        *)
(* stream, the reader implements ByteChannel, read and read_exact never    *)
(* await a stream without room, and read_until alone fails no assertion    *)
(* while its searches stay in the cells.                                   *)
(***************************************************************************)
EXTENDS BufReader, StreamBufferProofs, WellFoundedInduction

Bigs == {"read_big", "exact_big"}

Types ==
  /\ taken \in Nat /\ given \in Nat /\ want \in Nat
  /\ buf \in Buffers
  /\ span \in Seq(Nat) /\ got \in Seq(Nat)

\* A call that bypasses the buffer has emptied it first and put the bytes into
\* the span of its caller in order; a call that does not has room.
Calls ==
  /\ op \in Ops
  /\ op \in Bigs => RRemaining(buf) = 0
  /\ op \notin Bigs => span = << >>
  /\ span = [i \in 1..Len(span) |-> given + i]
  /\ op \in {"read", "exact"} /\ want > 0 => WRemaining(buf) > 0
  /\ op \in {"read", "exact"} => want <= Size
  /\ op = "exact" => RRemaining(buf) < want
  /\ op = "read" => RRemaining(buf) = 0

ReaderInv == Types /\ BufferIsNext /\ Calls

-----------------------------------------------------------------------------
(* What the actions have in common. *)

LEMMA MakeRoomHolds ==
  ASSUME NEW b \in Buffers, NEW first \in Nat, NEW last \in Nat, Holds(b, first, last),
         NEW n \in Nat, n <= Size, RRemaining(b) < n \/ RRemaining(b) = 0
  PROVE  /\ MakeRoom(b, n) \in Buffers
         /\ Holds(MakeRoom(b, n), first, last)
         /\ RRemaining(MakeRoom(b, n)) = RRemaining(b)
         /\ n > 0 => WRemaining(MakeRoom(b, n)) > 0
<1>. DEFINE c == ResetData(b)
<1>1. c \in Buffers /\ Holds(c, first, last) /\ c.r = 0 /\ c.w = RRemaining(b)
  BY ResetDataHolds
<1>2. b.r \in Nat /\ b.w \in Nat /\ b.r <= b.w
  BY BufferParts
<1>3. RRemaining(c) = RRemaining(b)
  BY <1>1, <1>2 DEF RRemaining
<1>4. n > 0 => WRemaining(c) > 0
  BY <1>1, <1>2, SizeAssumption DEF WRemaining, RRemaining
<1>5. CASE WRemaining(b) < n
  BY <1>1, <1>3, <1>4, <1>5 DEF MakeRoom
<1>6. CASE ~(WRemaining(b) < n)
  <2>1. n > 0 => WRemaining(b) > 0
    BY <1>2, <1>6, SizeAssumption DEF WRemaining
  <2>. QED
    BY <1>6, <2>1 DEF MakeRoom
<1>. QED
  BY <1>5, <1>6

\* The call returns n bytes of a buffer b that holds what follows the bytes
\* given out, and leaves the rest.
LEMMA ReturnStep ==
  ASSUME Types, NEW t \in Nat, taken <= t, taken' = t,
         NEW b \in Buffers, Holds(b, given + 1, t),
         NEW n \in 0..RRemaining(b), NEW r \in {"ok", "line"},
         buf' \in Buffers, Holds(buf', given + 1 + n, t),
         Return(r, RSlice(b, n))
  PROVE  ReaderInv' /\ Channel!Next
<1>1. /\ RSlice(b, n) = [i \in 1..n |-> given + i]
      /\ RSlice(b, n) \in Seq(Nat) /\ Len(RSlice(b, n)) = n
  <2>1. given + 1 \in Nat /\ given + 1 > 0
    BY DEF Types
  <2>2. /\ RSlice(b, n) = [i \in 1..n |-> (given + 1) - 1 + i]
        /\ RSlice(b, n) \in Seq(Nat) /\ Len(RSlice(b, n)) = n
    BY <2>1, RSliceIs
  <2>3. \A i \in 1..n : (given + 1) - 1 + i = given + i
    BY DEF Types
  <2>. QED
    BY <2>2, <2>3
<1>2. n \in Nat /\ RRemaining(b) = t - given /\ n <= t - given
  <2>1. RRemaining(b) = t + 1 - (given + 1)
    BY DEF Holds
  <2>. QED
    BY <2>1 DEF Types
<1>3. /\ op' = "none" /\ want' = 0 /\ span' = << >>
      /\ got' = [i \in 1..n |-> given + i] /\ got' \in Seq(Nat) /\ given' = given + n
      /\ result' \in {"ok", "line"}
  BY <1>1 DEF Return
<1>4. Types'
  BY <1>2, <1>3 DEF Types
<1>5. BufferIsNext'
  <2>1. given' + Len(span') + 1 = given + 1 + n
    BY <1>2, <1>3 DEF Types
  <2>. QED
    BY <2>1 DEF BufferIsNext
<1>6. Calls'
  BY <1>3 DEF Calls, Ops, Bigs
<1>7. Channel!Next
  <2>1. taken' \in Nat /\ taken' >= taken /\ n \in 0..(taken' - given)
    BY <1>2 DEF Types
  <2>. QED
    BY <1>3, <2>1 DEF Channel!Next, Channel!Arrive, Channel!HandOut
<1>. QED
  BY <1>4, <1>5, <1>6, <1>7 DEF ReaderInv

\* The call awaits io_ with a buffer that holds what follows the bytes given out.
LEMMA AwaitStep ==
  ASSUME Types, NEW t \in Nat, taken <= t, taken' = t,
         buf' \in Buffers, Holds(buf', given + 1, t),
         NEW c \in {"read", "exact", "until"}, NEW n \in Nat,
         c # "until" => n <= Size /\ (n > 0 => WRemaining(buf') > 0),
         c = "exact" => RRemaining(buf') < n,
         c = "read" => RRemaining(buf') = 0,
         Await(c, n, << >>)
  PROVE  ReaderInv' /\ Channel!Next
<1>1. /\ op' = c /\ want' = n /\ span' = << >>
      /\ got' = got /\ given' = given /\ result' = result
  BY DEF Await, outcome
<1>2. Types'
  BY <1>1 DEF Types
<1>3. BufferIsNext'
  <2>1. given' + Len(span') + 1 = given + 1
    BY <1>1 DEF Types
  <2>. QED
    BY <2>1 DEF BufferIsNext
<1>4. Calls'
  BY <1>1 DEF Calls, Ops, Bigs
<1>5. Channel!Next
  BY <1>1 DEF Channel!Next, Channel!Arrive, Types
<1>. QED
  BY <1>2, <1>3, <1>4, <1>5 DEF ReaderInv

-----------------------------------------------------------------------------
(* Every action keeps the invariant and is a step of the channel, or leaves  *)
(* it as it is.                                                              *)

\* What BufferIsNext says in the calls that do not bypass the buffer.
LEMMA PlainCall ==
  ASSUME ReaderInv, op \notin Bigs
  PROVE  span = << >> /\ buf \in Buffers /\ Holds(buf, given + 1, taken) /\ taken \in Nat
         /\ given + 1 \in Nat
<1>1. span = << >> /\ given \in Nat /\ taken \in Nat /\ buf \in Buffers
  BY DEF ReaderInv, Calls, Types
<1>2. given + Len(span) + 1 = given + 1
  BY <1>1
<1>. QED
  BY <1>1, <1>2 DEF ReaderInv, BufferIsNext

LEMMA SmallerIs ==
  ASSUME NEW m \in Nat, NEW n \in Nat
  PROVE  /\ Smaller(m, n) \in 0..m /\ Smaller(m, n) \in 0..n
         /\ m <= n => Smaller(m, n) = m
  BY DEF Smaller

LEMMA CountsAreNat ==
  ASSUME NEW b \in Buffers
  PROVE  RRemaining(b) \in 0..Size /\ WRemaining(b) \in 0..Size
  BY BufferParts, SizeAssumption DEF RRemaining, WRemaining

LEMMA CallBigStep ==
  ASSUME ReaderInv, NEW n \in Wants, NEW c \in Bigs, CallBig(n, c)
  PROVE  ReaderInv' /\ UNCHANGED <<taken, given, got, result>>
<1>. DEFINE h == Smaller(RRemaining(buf), n)
<1>1. /\ op = "none" /\ n > Size /\ n \in Nat
      /\ buf' = WriteTo(buf, h)
      /\ op' = c /\ want' = n - h /\ span' = RSlice(buf, h)
      /\ taken' = taken /\ given' = given /\ got' = got /\ result' = result
  BY ReaderAssumption DEF CallBig, Idle, Await, input, outcome
<1>2. /\ span = << >> /\ buf \in Buffers /\ Holds(buf, given + 1, taken)
      /\ taken \in Nat /\ given + 1 \in Nat
  BY <1>1, PlainCall DEF Bigs
<1>3. RRemaining(buf) \in Nat /\ RRemaining(buf) <= Size
  BY <1>2, CountsAreNat, SizeAssumption
<1>4. h = RRemaining(buf) /\ h \in 0..RRemaining(buf)
  BY <1>1, <1>3, SmallerIs, SizeAssumption
<1>5. given \in Nat /\ got \in Seq(Nat)
  BY DEF ReaderInv, Types
<1>6. buf' \in Buffers /\ Holds(buf', given + 1 + h, taken)
  BY <1>1, <1>2, <1>4, WriteToHolds
<1>7. /\ span' = [i \in 1..h |-> (given + 1) - 1 + i]
      /\ span' \in Seq(Nat) /\ Len(span') = h
  BY <1>1, <1>2, <1>4, <1>5, RSliceIs
<1>8. span' = [i \in 1..Len(span') |-> given' + i]
  <2>. HIDE DEF h
  <2>1. \A i \in 1..h : (given + 1) - 1 + i = given' + i
    BY <1>1, <1>5
  <2>. QED
    BY <1>7, <2>1
<1>9. h = taken - given
  BY <1>2, <1>4, <1>5 DEF Holds
<1>10. RRemaining(buf') = 0
  <2>1. RRemaining(buf') = taken + 1 - (given + 1 + h)
    BY <1>6 DEF Holds
  <2>. QED
    BY <1>2, <1>5, <1>9, <2>1
<1>11. Types'
  BY <1>1, <1>2, <1>3, <1>4, <1>5, <1>6, <1>7, SizeAssumption DEF Types
<1>12. BufferIsNext'
  <2>1. given' + Len(span') + 1 = given + 1 + h
    <3>1. h \in Nat
      BY <1>3, <1>4
    <3>. HIDE DEF h
    <3>. QED
      BY <1>1, <1>5, <1>7, <3>1
  <2>. QED
    BY <1>1, <1>6, <2>1 DEF BufferIsNext
<1>13. Calls'
  BY <1>1, <1>8, <1>10 DEF Calls, Ops, Bigs
<1>. QED
  BY <1>1, <1>11, <1>12, <1>13 DEF ReaderInv

LEMMA ReadBufferedStep ==
  ASSUME ReaderInv, NEW n \in Wants, ReadBuffered(n) \/ ExactBuffered(n)
  PROVE  ReaderInv' /\ Channel!Next
<1>1. op = "none" /\ n \in Nat /\ taken' = taken
  BY ReaderAssumption DEF ReadBuffered, ExactBuffered, Idle, input
<1>2. /\ buf \in Buffers /\ Holds(buf, given + 1, taken)
      /\ taken \in Nat /\ given + 1 \in Nat /\ Types
  BY <1>1, PlainCall DEF Bigs, ReaderInv
<1>3. RRemaining(buf) \in Nat
  BY <1>2, CountsAreNat, SizeAssumption
<1>4. \E m \in 0..RRemaining(buf) : buf' = WriteTo(buf, m) /\ Return("ok", RSlice(buf, m))
  <2>1. Smaller(RRemaining(buf), n) \in 0..RRemaining(buf)
    BY <1>1, <1>3, SmallerIs
  <2>2. CASE ReadBuffered(n)
    BY <2>1, <2>2 DEF ReadBuffered
  <2>3. CASE ExactBuffered(n)
    BY <1>1, <1>3, <2>3 DEF ExactBuffered
  <2>. QED
    BY <2>2, <2>3
<1>5. PICK m \in 0..RRemaining(buf) : buf' = WriteTo(buf, m) /\ Return("ok", RSlice(buf, m))
  BY <1>4
<1>6. buf' \in Buffers /\ Holds(buf', given + 1 + m, taken)
  BY <1>2, <1>5, WriteToHolds
<1>. QED
  BY <1>1, <1>2, <1>5, <1>6, ReturnStep

LEMMA ReadStartStep ==
  ASSUME ReaderInv, NEW n \in Wants, ReadStart(n) \/ ExactStart(n)
  PROVE  ReaderInv' /\ Channel!Next
<1>1. op = "none" /\ n \in Nat /\ n <= Size /\ taken' = taken /\ buf' = MakeRoom(buf, n)
  BY ReaderAssumption DEF ReadStart, ExactStart, Idle, input
<1>2. /\ buf \in Buffers /\ Holds(buf, given + 1, taken)
      /\ taken \in Nat /\ given + 1 \in Nat /\ Types
  BY <1>1, PlainCall DEF Bigs, ReaderInv
<1>3. CASE ReadStart(n)
  <2>1. RRemaining(buf) = 0
    BY <1>2, <1>3, BufferParts DEF ReadStart, IsEmpty, RRemaining
  <2>2. /\ buf' \in Buffers /\ Holds(buf', given + 1, taken)
        /\ RRemaining(buf') = 0 /\ (n > 0 => WRemaining(buf') > 0)
    BY <1>1, <1>2, <2>1, MakeRoomHolds
  <2>3. Await("read", n, << >>)
    BY <1>3 DEF ReadStart
  <2>. QED
    BY <1>1, <1>2, <2>2, <2>3, AwaitStep
<1>4. CASE ExactStart(n)
  <2>1. RRemaining(buf) < n
    BY <1>4 DEF ExactStart
  <2>2. /\ buf' \in Buffers /\ Holds(buf', given + 1, taken)
        /\ RRemaining(buf') < n /\ (n > 0 => WRemaining(buf') > 0)
    BY <1>1, <1>2, <2>1, MakeRoomHolds
  <2>3. Await("exact", n, << >>)
    BY <1>4 DEF ExactStart
  <2>. QED
    BY <1>1, <1>2, <2>2, <2>3, AwaitStep
<1>. QED
  BY <1>3, <1>4

\* A search hands out a slice of readable bytes, awaits more, or ends in a fault.
LEMMA SearchStep ==
  ASSUME Types, op \in {"none", "until"}, span = << >>,
         NEW t \in Nat, taken <= t, taken' = t,
         NEW b \in Buffers, Holds(b, given + 1, t), Search(b)
  PROVE  ReaderInv' /\ Channel!Next
<1>1. given \in Nat /\ given + 1 \in Nat
  BY DEF Types
<1>2. ASSUME NEW n \in FirstSlice(b), b.r + n <= b.w, buf' = RIncrease(b, n),
             Return("line", RSlice(b, n))
      PROVE  ReaderInv' /\ Channel!Next
  <2>1. n \in 0..RRemaining(b)
    BY <1>2, BufferParts, SizeAssumption, ReaderAssumption DEF FirstSlice, Slices, RRemaining
  <2>2. buf' \in Buffers /\ Holds(buf', given + 1 + n, t)
    BY <1>1, <1>2, <2>1, RIncreaseHolds
  <2>. QED
    BY <1>2, <2>1, <2>2, ReturnStep
<1>3. ASSUME buf' = b, Await("until", 0, << >>) PROVE ReaderInv' /\ Channel!Next
  BY <1>3, AwaitStep
<1>4. ASSUME buf' = b, UNCHANGED <<op, want, span, outcome>> PROVE ReaderInv' /\ Channel!Next
  <2>1. /\ Types' /\ span' = << >> /\ op' = op
        /\ given' = given /\ got' = got /\ result' = result
    BY <1>4 DEF Types, outcome
  <2>2. given' + Len(span') + 1 = given + 1
    BY <1>1, <2>1
  <2>3. BufferIsNext'
    BY <1>4, <2>2 DEF BufferIsNext
  <2>4. Calls'
    BY <2>1 DEF Calls, Ops, Bigs
  <2>5. Channel!Next
    BY <1>1, <2>1 DEF Channel!Next, Channel!Arrive, Types
  <2>. QED
    BY <2>1, <2>3, <2>4, <2>5 DEF ReaderInv
<1>. QED
  BY <1>2, <1>3, <1>4 DEF Search

\* A call that bypassed the buffer returns with k bytes read behind its span.
LEMMA BigReturnStep ==
  ASSUME ReaderInv, op \in Bigs, NEW k \in 0..Smaller(Room, MaxTaken - taken),
         taken' = taken + k, buf' = buf, Return("ok", Behind(span, k))
  PROVE  ReaderInv' /\ Channel!Next
<1>. DEFINE l == Len(span)
<1>1. /\ taken \in Nat /\ given \in Nat /\ want \in Nat /\ buf \in Buffers
      /\ span \in Seq(Nat) /\ l \in Nat
      /\ RRemaining(buf) = 0 /\ span = [i \in 1..l |-> given + i]
  BY DEF ReaderInv, Types, Calls
<1>2. Room = want
  BY DEF Room, Bigs
<1>3. k \in Nat
  BY <1>1, <1>2, ReaderAssumption DEF Smaller
<1>4. taken = given + l
  <2>1. RRemaining(buf) = taken + 1 - (given + l + 1)
    BY DEF ReaderInv, BufferIsNext, Holds
  <2>. HIDE DEF l
  <2>. QED
    BY <1>1, <2>1
<1>5. Behind(span, k) = [i \in 1..(l + k) |-> given + i]
  <2>1. ASSUME NEW i \in 1..(l + k)
        PROVE  (IF i <= l THEN span[i] ELSE taken + i - l) = given + i
    <3>. HIDE DEF l
    <3>1. CASE i <= l
      <4>1. i \in 1..l
        BY <1>1, <1>3, <3>1
      <4>. QED
        BY <1>1, <3>1, <4>1
    <3>2. CASE ~(i <= l)
      BY <1>1, <1>3, <1>4, <3>2
    <3>. QED
      BY <3>1, <3>2
  <2>. QED
    BY <2>1 DEF Behind
<1>6. /\ Behind(span, k) \in Seq(Nat) /\ Len(Behind(span, k)) = l + k
  <2>. HIDE DEF l
  <2>1. l + k \in Nat /\ [i \in 1..(l + k) |-> given + i] \in [1..(l + k) -> Nat]
    BY <1>1, <1>3
  <2>. QED
    BY <1>5, <2>1, FunctionIsSeq
<1>7. /\ op' = "none" /\ want' = 0 /\ span' = << >>
      /\ got' = [i \in 1..(l + k) |-> given + i] /\ got' \in Seq(Nat)
      /\ given' = given + (l + k) /\ result' = "ok"
  BY <1>5, <1>6 DEF Return
<1>. HIDE DEF l
<1>8. Types'
  BY <1>1, <1>3, <1>7 DEF Types
<1>9. BufferIsNext'
  <2>1. given' + Len(span') + 1 = taken' + 1 /\ taken' + 1 - (taken' + 1) = 0
    BY <1>1, <1>3, <1>4, <1>7
  <2>2. RRemaining(buf') = 0 /\ buf'.r..(buf'.w - 1) = {}
    BY <1>1, BufferParts DEF RRemaining
  <2>. QED
    BY <2>1, <2>2 DEF BufferIsNext, Holds
<1>10. Calls'
  BY <1>7 DEF Calls, Ops, Bigs
<1>11. Channel!Next
  <2>1. /\ taken' \in Nat /\ taken' >= taken /\ l + k \in 0..(taken' - given)
    BY <1>1, <1>3, <1>4
  <2>. QED
    BY <1>7, <2>1 DEF Channel!Next, Channel!Arrive, Channel!HandOut
<1>. QED
  BY <1>8, <1>9, <1>10, <1>11 DEF ReaderInv

\* What io_ is offered in a call that does not bypass the buffer.
LEMMA ArrivedInBuffer ==
  ASSUME ReaderInv, op \in {"read", "exact", "until"}, NEW k \in 0..Smaller(Room, MaxTaken - taken)
  PROVE  LET b == Store(buf, taken, k) IN
           /\ taken + k \in Nat /\ taken <= taken + k
           /\ b \in Buffers /\ Holds(b, given + 1, taken + k)
           /\ RRemaining(b) \in Nat
<1>. DEFINE b == Store(buf, taken, k)
<1>1. /\ buf \in Buffers /\ Holds(buf, given + 1, taken) /\ taken \in Nat /\ given + 1 \in Nat
  BY PlainCall DEF Bigs
<1>2. Room = WRemaining(buf)
  BY DEF Room
<1>3. k \in 0..WRemaining(buf)
  BY <1>1, <1>2, CountsAreNat, SizeAssumption, ReaderAssumption DEF Smaller
<1>4. b \in Buffers /\ Holds(b, given + 1, taken + k)
  BY <1>1, <1>3, StoreHolds
<1>5. k \in Nat
  BY <1>1, <1>3, CountsAreNat, SizeAssumption
<1>. HIDE DEF b
<1>6. RRemaining(b) \in Nat
  BY <1>4, CountsAreNat, SizeAssumption
<1>. QED
  BY <1>1, <1>4, <1>5, <1>6 DEF b

LEMMA IoReadStep ==
  ASSUME ReaderInv, IoRead
  PROVE  ReaderInv' /\ Channel!Next
<1>1. op \notin {"none", "exact_big"} /\ fault = "none" /\ Types /\ op \in Ops /\ want \in Nat
  BY DEF IoRead, ReaderInv, Types, Calls
<1>2. PICK k \in 0..Smaller(Room, MaxTaken - taken) :
        /\ taken' = taken + k
        /\ ReadArrived(k) \/ ExactArrived(k) \/ BigArrived(k) \/ UntilArrived(k)
  BY DEF IoRead
<1>. DEFINE b == Store(buf, taken, k)
<1>3. CASE ReadArrived(k)
  <2>. DEFINE m == Smaller(RRemaining(b), want)
  <2>1. /\ taken + k \in Nat /\ taken <= taken + k /\ RRemaining(b) \in Nat
        /\ b \in Buffers /\ Holds(b, given + 1, taken + k)
    BY <1>3, ArrivedInBuffer DEF ReadArrived
  <2>2. buf' = WriteTo(b, m) /\ Return("ok", RSlice(b, m))
    BY <1>3 DEF ReadArrived
  <2>. HIDE DEF b
  <2>3. m \in 0..RRemaining(b)
    BY <1>1, <2>1, SmallerIs
  <2>5. given + 1 \in Nat
    BY <1>1 DEF Types
  <2>. HIDE DEF m
  <2>4. buf' \in Buffers /\ Holds(buf', given + 1 + m, taken + k)
    BY <2>1, <2>2, <2>3, <2>5, WriteToHolds
  <2>. QED
    BY <1>1, <1>2, <2>1, <2>2, <2>3, <2>4, ReturnStep
<1>4. CASE ExactArrived(k)
  <2>1. /\ taken + k \in Nat /\ taken <= taken + k /\ RRemaining(b) \in Nat
        /\ b \in Buffers /\ Holds(b, given + 1, taken + k)
    BY <1>4, ArrivedInBuffer DEF ExactArrived
  <2>2. want <= Size /\ given + 1 \in Nat
    BY <1>1, <1>4 DEF ExactArrived, ReaderInv, Calls, Types
  <2>3. CASE RRemaining(b) >= want
    <3>1. buf' = WriteTo(b, want) /\ Return("ok", RSlice(b, want))
      BY <1>1, <1>4, <2>1, <2>3 DEF ExactArrived
    <3>. HIDE DEF b
    <3>2. want \in 0..RRemaining(b)
      BY <1>1, <2>1, <2>3
    <3>3. buf' \in Buffers /\ Holds(buf', given + 1 + want, taken + k)
      BY <2>1, <2>2, <3>1, <3>2, WriteToHolds
    <3>. QED
      BY <1>1, <1>2, <2>1, <3>1, <3>2, <3>3, ReturnStep
  <2>4. CASE RRemaining(b) < want
    <3>1. buf' = MakeRoom(b, want) /\ Await("exact", want, << >>)
      BY <1>1, <1>4, <2>1, <2>4 DEF ExactArrived
    <3>. HIDE DEF b
    <3>2. /\ buf' \in Buffers /\ Holds(buf', given + 1, taken + k)
          /\ RRemaining(buf') < want /\ (want > 0 => WRemaining(buf') > 0)
      BY <1>1, <2>1, <2>2, <2>4, <3>1, MakeRoomHolds
    <3>. QED
      BY <1>1, <1>2, <2>1, <2>2, <3>1, <3>2, AwaitStep
  <2>. QED
    BY <1>1, <2>1, <2>3, <2>4
<1>5. CASE UntilArrived(k)
  <2>1. /\ taken + k \in Nat /\ taken <= taken + k
        /\ b \in Buffers /\ Holds(b, given + 1, taken + k)
    BY <1>5, ArrivedInBuffer DEF UntilArrived
  <2>2. op = "until" /\ span = << >> /\ Search(b)
    BY <1>5 DEF UntilArrived, ReaderInv, Calls, Bigs
  <2>. HIDE DEF b
  <2>. QED
    BY <1>1, <1>2, <2>1, <2>2, SearchStep
<1>6. CASE BigArrived(k)
  BY <1>2, <1>6, BigReturnStep DEF BigArrived, Bigs
<1>. QED
  BY <1>2, <1>3, <1>4, <1>5, <1>6

LEMMA IoReadExactStep ==
  ASSUME ReaderInv, IoReadExact
  PROVE  ReaderInv' /\ Channel!Next
<1>1. /\ op = "exact_big" /\ want <= MaxTaken - taken
      /\ taken' = taken + want /\ buf' = buf /\ Return("ok", Behind(span, want))
  BY DEF IoReadExact
<1>2. want \in Nat /\ taken \in Nat
  BY DEF ReaderInv, Types
<1>3. Room = want
  BY <1>1 DEF Room
<1>4. want \in 0..Smaller(Room, MaxTaken - taken)
  BY <1>1, <1>2, <1>3, ReaderAssumption DEF Smaller
<1>. QED
  BY <1>1, <1>4, BigReturnStep DEF Bigs

\* A call fails: j bytes went into the span of its caller before the error.
LEMMA FailStep ==
  ASSUME ReaderInv, NEW r \in {"error", "nobufs"}, NEW j \in Nat, op \notin Bigs => j = 0,
         Fail(r, j)
  PROVE  ReaderInv' /\ Channel!Next
<1>. DEFINE l == Len(span)
<1>1. /\ taken \in Nat /\ given \in Nat /\ want \in Nat /\ buf \in Buffers
      /\ span \in Seq(Nat) /\ l \in Nat
  BY DEF ReaderInv, Types
<1>2. /\ taken' = taken + j /\ given' = given + l + j /\ buf' = buf
      /\ op' = "none" /\ want' = 0 /\ span' = << >> /\ got' = << >>
      /\ ~(result' \in {"ok", "line"})
  BY DEF Fail
<1>3. RRemaining(buf) = taken + 1 - (given + l + 1)
  BY DEF ReaderInv, BufferIsNext, Holds
<1>4. RRemaining(buf) \in Nat
  BY <1>1, CountsAreNat, SizeAssumption
<1>. HIDE DEF l
<1>5. Types'
  BY <1>1, <1>2 DEF Types
<1>6. BufferIsNext'
  <2>1. CASE j = 0
    <3>1. given' + Len(span') + 1 = given + l + 1 /\ taken' = taken
      BY <1>1, <1>2, <2>1
    <3>. QED
      BY <1>2, <3>1 DEF ReaderInv, BufferIsNext, l
  <2>2. CASE op \in Bigs
    <3>1. RRemaining(buf') = 0 /\ buf'.r..(buf'.w - 1) = {}
      BY <1>1, <1>2, <2>2, BufferParts DEF ReaderInv, Calls, RRemaining
    <3>2. taken' + 1 - (given' + Len(span') + 1) = 0
      <4>1. RRemaining(buf) = 0
        BY <1>2, <3>1
      <4>. QED
        BY <1>1, <1>2, <1>3, <4>1
    <3>. QED
      BY <3>1, <3>2 DEF BufferIsNext, Holds
  <2>. QED
    BY <2>1, <2>2
<1>7. Calls'
  BY <1>2 DEF Calls, Ops, Bigs
<1>8. Channel!Next
  <2>1. taken' \in Nat /\ taken' >= taken /\ given' \in given..taken'
    BY <1>1, <1>2, <1>3, <1>4
  <2>. QED
    BY <1>2, <2>1 DEF Channel!Next, Channel!Arrive, Channel!Skip
<1>. QED
  BY <1>5, <1>6, <1>7, <1>8 DEF ReaderInv

LEMMA IoFailStep ==
  ASSUME ReaderInv, IoFail \/ IoNoBufs
  PROVE  ReaderInv' /\ Channel!Next
<1>1. CASE IoFail
  <2>1. PICK j \in IF op = "exact_big" /\ ~ended THEN 0..Smaller(want - 1, MaxTaken - taken) ELSE {0} :
          Fail("error", j)
    BY <1>1 DEF IoFail
  <2>2. want \in Nat /\ taken \in Nat
    BY DEF ReaderInv, Types
  <2>3. j \in Nat /\ (op \notin Bigs => j = 0)
    BY <2>1, <2>2, ReaderAssumption DEF Smaller, Bigs
  <2>. QED
    BY <2>1, <2>3, FailStep
<1>2. CASE IoNoBufs
  BY <1>2, FailStep DEF IoNoBufs
<1>. QED
  BY <1>1, <1>2

LEMMA ReadUntilStep ==
  ASSUME ReaderInv, ReadUntil
  PROVE  ReaderInv' /\ Channel!Next
<1>1. op = "none" /\ Search(buf) /\ taken' = taken
  BY DEF ReadUntil, Idle, input
<1>2. span = << >> /\ buf \in Buffers /\ Holds(buf, given + 1, taken) /\ taken \in Nat
  BY <1>1, PlainCall DEF Bigs
<1>. QED
  BY <1>1, <1>2, SearchStep DEF ReaderInv

LEMMA NextStep ==
  ASSUME ReaderInv, [Next]_vars
  PROVE  ReaderInv' /\ [Channel!Next]_Channel!channel
<1>1. CASE UNCHANGED vars
  BY <1>1 DEF ReaderInv, Types, BufferIsNext, Calls, Holds, RRemaining, WRemaining,
              vars, input, outcome, Channel!channel
<1>2. ASSUME NEW n \in Wants, Call(n)
      PROVE  ReaderInv' /\ [Channel!Next]_Channel!channel
  <2>1. CASE CallBig(n, "read_big") \/ CallBig(n, "exact_big")
    BY <2>1, CallBigStep DEF Bigs, Channel!channel
  <2>2. CASE ReadBuffered(n) \/ ExactBuffered(n)
    BY <2>2, ReadBufferedStep
  <2>3. CASE ReadStart(n) \/ ExactStart(n)
    BY <2>3, ReadStartStep
  <2>. QED
    BY <1>2, <2>1, <2>2, <2>3 DEF Call
<1>3. CASE ReadUntil
  BY <1>3, ReadUntilStep
<1>4. CASE Io
  BY <1>4, IoReadStep, IoReadExactStep, IoFailStep DEF Io
<1>. QED
  BY <1>1, <1>2, <1>3, <1>4 DEF Next

LEMMA InitHolds ==
  ASSUME Init
  PROVE  ReaderInv /\ Channel!Init
<1>1. EmptyBuffer \in Buffers /\ Holds(EmptyBuffer, 1, 0)
  <2>1. [p \in Positions |-> 0] \in [Positions -> Nat]
    OBVIOUS
  <2>2. EmptyBuffer \in Buffers
    BY <2>1, MakeBuffer, SizeAssumption DEF EmptyBuffer
  <2>. QED
    BY <2>2 DEF EmptyBuffer, Holds, RRemaining
<1>2. Types
  BY <1>1 DEF Init, Types
<1>3. BufferIsNext
  <2>1. given + Len(span) + 1 = 1 /\ taken = 0 /\ buf = EmptyBuffer
    BY DEF Init
  <2>. QED
    BY <1>1, <2>1 DEF BufferIsNext
<1>4. Calls
  BY DEF Init, Calls, Ops, Bigs
<1>. QED
  BY <1>2, <1>3, <1>4 DEF ReaderInv, Init, Channel!Init

-----------------------------------------------------------------------------
(* The theorems. *)

THEOREM InvariantHolds == Spec => []ReaderInv
<1>1. Init => ReaderInv
  BY InitHolds
<1>2. ReaderInv /\ [Next]_vars => ReaderInv'
  BY NextStep
<1>. QED
  BY <1>1, <1>2, PTL DEF Spec

\* No byte between the cursors is lost, doubled or overwritten, whatever calls
\* are mixed: the cursors of StreamBuffer and the compaction of reset_data.
THEOREM BufferedBytesAreNext == Spec => []BufferIsNext
<1>1. ReaderInv => BufferIsNext
  BY DEF ReaderInv
<1>. QED
  BY <1>1, InvariantHolds, PTL

\* read and read_exact never await io_ with an empty span, for any capacity:
\* the reset_data before the await is enough.
THEOREM RoomWhenReading == Spec => []ReadHasRoom
<1>1. ReaderInv => ReadHasRoom
  BY DEF ReaderInv, Calls, ReadHasRoom, Room
<1>. QED
  BY <1>1, InvariantHolds, PTL

\* Every call hands out the next bytes of the stream: read, read_exact and
\* read_until implement a channel.
THEOREM ReaderIsChannel == Spec => IsChannel
<1>1. Init => Channel!Init
  BY InitHolds
<1>2. ReaderInv /\ [Next]_vars => [Channel!Next]_Channel!channel
  BY NextStep
<1>. QED
  BY <1>1, <1>2, InvariantHolds, PTL DEF Spec, IsChannel, Channel!Spec

-----------------------------------------------------------------------------
(* A reader that is used through read_until alone never starts its buffer    *)
(* over, so the cells behind the readable bytes still hold the zeros of a    *)
(* new buffer, where every search ends.                                      *)

Clean(b) == \A p \in Positions : p >= b.w => b.cell[p] = 0

Unmixed == ~mixed => op \in {"none", "until"} /\ fault # "assert" /\ Clean(buf)

LEMMA StoreKeepsClean ==
  ASSUME NEW b \in Buffers, Clean(b), NEW last \in Nat, NEW k \in 0..WRemaining(b)
  PROVE  Clean(Store(b, last, k))
<1>1. /\ b.cell \in [Positions -> Nat] /\ b.w \in Nat /\ k \in Nat
  BY BufferParts, CountsAreNat, SizeAssumption
<1>2. Store(b, last, k).w = b.w + k
  BY DEF Store
<1>3. ASSUME NEW p \in Positions, p >= b.w + k PROVE Store(b, last, k).cell[p] = 0
  <2>1. p \in Nat /\ ~(p < b.w + k) /\ p >= b.w
    BY <1>1, <1>3 DEF Positions
  <2>2. Store(b, last, k).cell[p] = b.cell[p]
    BY <2>1 DEF Store
  <2>. QED
    BY <2>1, <2>2 DEF Clean
<1>. QED
  BY <1>2, <1>3 DEF Clean

LEMMA SearchKeepsClean ==
  ASSUME NEW b \in Buffers, Clean(b), op \in {"none", "until"}, fault = "none", Search(b)
  PROVE  op' \in {"none", "until"} /\ fault' # "assert" /\ Clean(buf')
<1>1. ASSUME NEW n \in FirstSlice(b), b.r + n <= b.w, buf' = RIncrease(b, n),
             Return("line", RSlice(b, n))
      PROVE  op' \in {"none", "until"} /\ fault' # "assert" /\ Clean(buf')
  <2>1. RIncrease(b, n) = [cell |-> b.cell, r |-> b.r + n, w |-> b.w]
    BY BufferParts DEF RIncrease
  <2>. QED
    BY <1>1, <2>1 DEF Return, Clean
<1>2. ASSUME NEW n \in FirstSlice(b), b.r + n > b.w PROVE FALSE
  <2>. DEFINE k == Len(Flag)
              p == b.r + n - k + k - 1
  <2>1. k \in Nat /\ k \in 1..k
    BY ReaderAssumption
  <2>2. n \in k..(Size - b.r) /\ p \in CString(b)
    BY <2>1 DEF FirstSlice, Slices
  <2>3. b.r \in Nat /\ b.w \in Nat /\ n \in Nat
    BY <2>1, <2>2, BufferParts, SizeAssumption
  <2>4. p \in b.r..(Size - 1) /\ KindAt(b, p) # NUL
    <3>1. /\ p \in b.r..(Size - 1)
          /\ \A q \in b.r..p : KindAt(b, q) # NUL
      BY <2>2 DEF CString
    <3>. QED
      BY <2>3, <3>1
  <2>5. p \in Positions /\ p >= b.w
    <3>. HIDE DEF k
    <3>. QED
      BY <1>2, <2>1, <2>3, <2>4, SizeAssumption DEF Positions
  <2>. QED
    BY <2>4, <2>5 DEF Clean, KindAt
<1>3. ASSUME buf' = b, Await("until", 0, << >>)
      PROVE  op' \in {"none", "until"} /\ fault' # "assert" /\ Clean(buf')
  BY <1>3 DEF Await
<1>4. ASSUME buf' = b, fault' = "overrun", UNCHANGED <<op, want, span, outcome>>
      PROVE  op' \in {"none", "until"} /\ fault' # "assert" /\ Clean(buf')
  BY <1>4
<1>. QED
  BY <1>1, <1>2, <1>3, <1>4 DEF Search

LEMMA UnmixedStep ==
  ASSUME ReaderInv, Unmixed, [Next]_vars
  PROVE  Unmixed'
<1>. SUFFICES ASSUME ~mixed'
     PROVE  op' \in {"none", "until"} /\ fault' # "assert" /\ Clean(buf')
  BY DEF Unmixed
<1>1. CASE UNCHANGED vars
  BY <1>1 DEF Unmixed, Clean, vars, input, outcome
<1>2. ASSUME NEW n \in Wants, Call(n) PROVE FALSE
  BY <1>2 DEF Call, CallBig, ReadBuffered, ReadStart, ExactBuffered, ExactStart
<1>3. CASE ReadUntil
  <2>1. /\ ~mixed /\ Search(buf) /\ fault = "none" /\ op = "none" /\ buf \in Buffers
    BY <1>3 DEF ReadUntil, Idle, ReaderInv, Types
  <2>. QED
    BY <2>1, SearchKeepsClean DEF Unmixed
<1>4. CASE IoRead
  <2>1. /\ ~mixed /\ fault = "none" /\ op # "none"
    BY <1>4 DEF IoRead
  <2>2. op = "until" /\ Clean(buf) /\ buf \in Buffers /\ taken \in Nat
    BY <2>1 DEF Unmixed, ReaderInv, Types
  <2>3. PICK k \in 0..Smaller(Room, MaxTaken - taken) :
          ReadArrived(k) \/ ExactArrived(k) \/ BigArrived(k) \/ UntilArrived(k)
    BY <1>4 DEF IoRead
  <2>4. Search(Store(buf, taken, k))
    BY <2>2, <2>3 DEF ReadArrived, ExactArrived, BigArrived, UntilArrived
  <2>5. k \in 0..WRemaining(buf)
    BY <2>2, CountsAreNat, SizeAssumption, ReaderAssumption DEF Smaller, Room
  <2>6. Store(buf, taken, k) \in Buffers
    BY <2>2, <2>5, ArrivedInBuffer
  <2>7. Clean(Store(buf, taken, k))
    BY <2>2, <2>5, StoreKeepsClean
  <2>. QED
    BY <2>1, <2>2, <2>4, <2>6, <2>7, SearchKeepsClean
<1>5. CASE IoReadExact
  BY <1>5 DEF IoReadExact, Unmixed
<1>6. CASE IoFail \/ IoNoBufs
  <2>1. ~mixed /\ op' = "none" /\ fault' = fault /\ buf' = buf
    BY <1>6 DEF IoFail, IoNoBufs, Fail
  <2>. QED
    BY <2>1 DEF Unmixed
<1>. QED
  BY <1>1, <1>2, <1>3, <1>4, <1>5, <1>6 DEF Next, Io

\* read_until alone never passes w_pos_ in r_increase while its searches stay in
\* the cells: the assertion can only fail on a reader that read or read_exact has
\* been called on, or after a search that has left the cells ("overrun").
THEOREM AssertNeedsOtherCalls == Spec => []AssertNeedsMix
<1>1. Init => Unmixed
  BY SizeAssumption DEF Init, Unmixed, Clean, EmptyBuffer
<1>2. ReaderInv /\ Unmixed /\ [Next]_vars => Unmixed'
  BY UnmixedStep
<1>3. Unmixed => AssertNeedsMix
  BY DEF Unmixed, AssertNeedsMix
<1>. QED
  BY <1>1, <1>2, <1>3, InvariantHolds, PTL DEF Spec

-----------------------------------------------------------------------------
(* A failed call. *)

LEMMA FailKeeps ==
  ASSUME ReaderInv, op \notin Bigs, IoFail \/ IoNoBufs
  PROVE  given' = given
<1>1. span = << >> /\ given \in Nat
  BY DEF ReaderInv, Calls, Types
<1>2. \E r : Fail(r, 0)
  BY DEF IoFail, IoNoBufs, Bigs
<1>. QED
  BY <1>1, <1>2 DEF Fail

\* What read_exact or read_until had buffered when its call fails is there for
\* the next call: only a call that bypasses the buffer gives bytes up.
THEOREM FailureGivesUpNothing == Spec => FailureKeepsBuffered
<1>. DEFINE Keeps == given' = given \/ given' = given + Len(got') \/ op \in {"read_big", "exact_big"}
<1>1. ASSUME ReaderInv, [Next]_vars PROVE [Keeps]_vars
  <2>1. CASE UNCHANGED vars
    BY <2>1
  <2>2. ASSUME NEW n \in Wants, Call(n) PROVE Keeps
    BY <2>2 DEF Call, CallBig, ReadBuffered, ReadStart, ExactBuffered, ExactStart,
                Await, Return, outcome
  <2>3. ASSUME NEW b, Search(b) PROVE Keeps
    BY <2>3 DEF Search, Await, Return, outcome
  <2>4. CASE ReadUntil
    BY <2>3, <2>4 DEF ReadUntil
  <2>5. CASE IoRead
    BY <2>3, <2>5 DEF IoRead, ReadArrived, ExactArrived, BigArrived, UntilArrived,
                      Await, Return, outcome
  <2>6. CASE IoReadExact
    BY <2>6 DEF IoReadExact
  <2>7. CASE IoFail \/ IoNoBufs
    BY <1>1, <2>7, FailKeeps DEF Bigs
  <2>. QED
    BY <1>1, <2>1, <2>2, <2>4, <2>5, <2>6, <2>7 DEF Next, Io
<1>. QED
  BY <1>1, InvariantHolds, PTL DEF Spec, FailureKeepsBuffered

\* The types of the reader: its cursors stay within the buffer whatever calls
\* are mixed.
THEOREM TypeCorrect == Spec => []TypeOK
<1>. DEFINE Sets == /\ ended \in BOOLEAN /\ mixed \in BOOLEAN
                    /\ result \in {"none", "ok", "line", "error", "nobufs"}
                    /\ fault \in {"none", "assert", "overrun"}
<1>1. Init => Sets
  BY DEF Init
<1>2. Sets /\ [Next]_vars => Sets'
  <2>. SUFFICES ASSUME Sets, [Next]_vars PROVE Sets'
    OBVIOUS
  <2>1. CASE UNCHANGED vars
    BY <2>1 DEF vars, input, outcome
  <2>2. ASSUME NEW n \in Wants, Call(n) PROVE Sets'
    BY <2>2 DEF Call, CallBig, ReadBuffered, ReadStart, ExactBuffered, ExactStart,
                Await, Return, input, outcome
  <2>3. ASSUME NEW b, Search(b), mixed' = mixed, ended' = ended PROVE Sets'
    BY <2>3 DEF Search, Await, Return, outcome
  <2>4. CASE ReadUntil
    BY <2>3, <2>4 DEF ReadUntil, input
  <2>5. CASE IoRead
    BY <2>3, <2>5 DEF IoRead, ReadArrived, ExactArrived, BigArrived, UntilArrived,
                      Await, Return, outcome
  <2>6. CASE IoReadExact
    BY <2>6 DEF IoReadExact, Return
  <2>7. CASE IoFail \/ IoNoBufs
    BY <2>7 DEF IoFail, IoNoBufs, Fail
  <2>. QED
    BY <2>1, <2>2, <2>4, <2>5, <2>6, <2>7 DEF Next, Io
<1>3. ReaderInv /\ Sets => TypeOK
  BY DEF ReaderInv, Types, Calls, TypeOK
<1>. QED
  BY <1>1, <1>2, <1>3, InvariantHolds, PTL DEF Spec

-----------------------------------------------------------------------------
(* read_until and the flag. *)

LEMMA LeastExists ==
  ASSUME NEW S \in SUBSET Nat, S # {}
  PROVE  \E n \in S : \A m \in S : n <= m
<1>. DEFINE R == OpToRel(<, Nat)
<1>1. IsWellFoundedOn(R, Nat)
  BY NatLessThanWellFounded
<1>2. \A m, n \in Nat : m < n => <<m, n>> \in R
  BY DEF OpToRel
<1>. HIDE DEF R
<1>3. PICK n \in S : \A m \in S : ~(<<m, n>> \in R)
  BY <1>1, WFMin
<1>4. ASSUME NEW m \in S PROVE n <= m
  <2>1. m \in Nat /\ n \in Nat
    OBVIOUS
  <2>2. ~(m < n)
    BY <1>2, <1>3, <2>1, Zenon
  <2>. QED
    BY <2>1, <2>2
<1>. QED
  BY <1>4

\* What is readable is text.
TextOK == text \in [1..MaxTaken -> Kinds] /\ taken <= MaxTaken

LEMMA ReadableIsText ==
  ASSUME text \in [1..MaxTaken -> Kinds], NEW b \in Buffers, NEW first \in Nat, NEW t \in Nat,
         first > 0, t <= MaxTaken, Holds(b, first, t), NEW p \in b.r..(b.w - 1)
  PROVE  /\ b.cell[p] \in 1..MaxTaken
         /\ KindAt(b, p) = text[b.cell[p]] /\ KindAt(b, p) \in Kinds
<1>1. /\ b.r \in Nat /\ b.w \in Nat /\ b.w - b.r = t + 1 - first
      /\ b.cell[p] = first + (p - b.r)
  BY BufferParts DEF Holds, RRemaining
<1>2. p \in Nat /\ b.r <= p /\ p < b.w
  BY <1>1
<1>3. b.cell[p] \in 1..MaxTaken
  <2>1. first + (p - b.r) >= 1 /\ first + (p - b.r) <= t /\ first + (p - b.r) \in Int
    BY <1>1, <1>2
  <2>. QED
    BY <1>1, <2>1, ReaderAssumption
<1>. QED
  BY <1>3 DEF KindAt

\* A flag that ends at byte n of the readable ones is a slice, unless a zero byte
\* comes before.
LEMMA ReadableFlag ==
  ASSUME NEW b \in Buffers, NEW n \in Len(Flag)..(b.w - b.r),
         \A q \in b.r..(b.r + n - 1) : KindAt(b, q) # NUL,
         \A j \in 1..Len(Flag) : KindAt(b, b.r + n - Len(Flag) + j - 1) = Flag[j]
  PROVE  n \in Slices(b)
<1>. DEFINE k == Len(Flag)
<1>1. b.r \in Nat /\ b.w \in Nat /\ b.w <= Size /\ k \in Nat /\ k > 0 /\ Size \in Nat
  BY BufferParts, SizeAssumption, ReaderAssumption
<1>. HIDE DEF k
<1>2. n \in k..(Size - b.r) /\ n \in Nat /\ n <= b.w - b.r
  BY <1>1 DEF k
<1>3. ASSUME NEW j \in 1..k PROVE b.r + n - k + j - 1 \in CString(b)
  <2>1. b.r + n - k + j - 1 \in b.r..(Size - 1) /\ b.r + n - k + j - 1 <= b.r + n - 1
    BY <1>1, <1>2, SMTT(40)
  <2>2. \A q \in b.r..(b.r + n - k + j - 1) : q \in b.r..(b.r + n - 1)
    BY <1>1, <1>2, <2>1
  <2>. QED
    BY <2>1, <2>2 DEF CString
<1>. QED
  BY <1>2, <1>3 DEF Slices, k

\* The line g ends with the flag, and no shorter part of it does.
StopsAtFlag(g) ==
  /\ Len(g) >= Len(Flag)
  /\ \A j \in 1..Len(Flag) : text[g[Len(g) - Len(Flag) + j]] = Flag[j]
  /\ \A e \in 1..(Len(g) - 1) :
       ~ (e >= Len(Flag) /\ \A j \in 1..Len(Flag) : text[g[e - Len(Flag) + j]] = Flag[j])

\* The slice found is such a line.
LEMMA LineIsFirst ==
  ASSUME text \in [1..MaxTaken -> Kinds], NEW b \in Buffers, NEW first \in Nat, NEW t \in Nat,
         first > 0, t <= MaxTaken, Holds(b, first, t),
         NEW n \in FirstSlice(b), b.r + n <= b.w
  PROVE  StopsAtFlag(RSlice(b, n))
<1>. DEFINE k == Len(Flag)
            got0 == RSlice(b, n)
<1>1. /\ b.r \in Nat /\ b.w \in Nat /\ b.w <= Size /\ k \in Nat /\ k > 0 /\ Size \in Nat
  BY BufferParts, SizeAssumption, ReaderAssumption
<1>2. n \in k..(Size - b.r) /\ n \in Slices(b) /\ \A m \in Slices(b) : n <= m
  BY DEF FirstSlice, Slices
<1>3. \A j \in 1..k : /\ b.r + n - k + j - 1 \in CString(b)
                     /\ KindAt(b, b.r + n - k + j - 1) = Flag[j]
  BY <1>2 DEF Slices
<1>4. Len(got0) = n
  <2>1. n \in Nat
    BY <1>1, <1>2
  <2>. QED
    BY <2>1 DEF RSlice
<1>. HIDE DEF k
<1>5. ASSUME NEW i \in 1..n PROVE text[got0[i]] = KindAt(b, b.r + i - 1)
  <2>1. got0[i] = b.cell[b.r + i - 1]
    BY DEF RSlice
  <2>2. b.r + i - 1 \in b.r..(b.w - 1)
    BY <1>1, <1>2
  <2>. QED
    BY <2>1, <2>2, ReadableIsText
<1>6. ASSUME NEW e \in k..n, NEW j \in 1..k
      PROVE  text[got0[e - k + j]] = KindAt(b, b.r + e - k + j - 1)
  <2>1. e - k + j \in 1..n /\ b.r + (e - k + j) - 1 = b.r + e - k + j - 1
    BY <1>1, <1>2
  <2>. QED
    BY <1>5, <2>1
<1>7. \A j \in 1..k : text[got0[n - k + j]] = Flag[j]
  <2>1. n \in k..n
    BY <1>1, <1>2
  <2>. QED
    BY <1>3, <1>6, <2>1
<1>8. ASSUME NEW e \in 1..(n - 1), e >= k, \A j \in 1..k : text[got0[e - k + j]] = Flag[j]
      PROVE  FALSE
  <2>1. e \in k..n /\ e \in k..(b.w - b.r)
    BY <1>1, <1>2, <1>8
  <2>2. \A j \in 1..k : KindAt(b, b.r + e - k + j - 1) = Flag[j]
    BY <1>6, <1>8, <2>1
  <2>3. \A q \in b.r..(b.r + e - 1) : KindAt(b, q) # NUL
    <3>1. k \in 1..k /\ b.r + n - k + k - 1 = b.r + n - 1
      <4>1. n \in Int /\ b.r \in Int /\ k \in Int /\ k >= 1
        BY <1>1, <1>2
      <4>. QED
        BY <4>1
    <3>2. b.r + n - 1 \in CString(b)
      BY <1>3, <3>1
    <3>3. \A q \in b.r..(b.r + n - 1) : KindAt(b, q) # NUL
      BY <3>2 DEF CString
    <3>4. \A q \in b.r..(b.r + e - 1) : q \in b.r..(b.r + n - 1)
      BY <1>1, <1>2, <2>1
    <3>. QED
      BY <3>3, <3>4
  <2>4. e \in Slices(b)
    BY <2>1, <2>2, <2>3, ReadableFlag DEF k
  <2>5. n <= e
    BY <1>2, <2>4
  <2>. QED
    BY <1>1, <1>2, <2>5
<1>9. n >= k
  BY <1>1, <1>2
<1>. QED
  <2>. HIDE DEF got0
  <2>1. StopsAtFlag(got0)
    BY <1>4, <1>7, <1>8, <1>9 DEF StopsAtFlag, k
  <2>. QED
    BY <2>1 DEF got0

\* No flag is among the readable bytes.
Unseen(b) ==
  ~ \E p \in b.r..(b.w - Len(Flag)) : \A j \in 1..Len(Flag) : KindAt(b, p + j - 1) = Flag[j]

\* The end of a flag of l bytes that begins at q, counted from r.
LEMMA EndOfFlag ==
  ASSUME NEW r \in Nat, NEW w \in Nat, NEW q \in Nat, NEW l \in Nat, r <= q, q <= w - l
  PROVE  /\ q - r + l \in Int /\ q - r + l >= l
         /\ q - r + l <= w - r /\ r + (q - r + l) <= w
OBVIOUS

\* Without a readable slice, no flag is readable.
LEMMA NoSliceNoFlag ==
  ASSUME text \in [1..MaxTaken -> Kinds], NUL \notin Kinds,
         NEW b \in Buffers, NEW first \in Nat, NEW t \in Nat,
         first > 0, t <= MaxTaken, Holds(b, first, t),
         FirstSlice(b) = {} \/ \E n \in FirstSlice(b) : b.r + n > b.w
  PROVE  Unseen(b)
<1>. SUFFICES ASSUME NEW p \in b.r..(b.w - Len(Flag)),
                     \A j \in 1..Len(Flag) : KindAt(b, p + j - 1) = Flag[j]
     PROVE  FALSE
  BY DEF Unseen
<1>. DEFINE k == Len(Flag)
            n == p - b.r + k
<1>1. /\ b.r \in Nat /\ b.w \in Nat /\ b.w <= Size /\ k \in Nat /\ k > 0 /\ Size \in Nat
      /\ p \in Nat /\ p >= b.r /\ p <= b.w - k
  BY BufferParts, SizeAssumption, ReaderAssumption
<1>2. n \in k..(b.w - b.r) /\ b.r + n <= b.w /\ n \in Nat
  <2>. HIDE DEF k
  <2>1. n = p - b.r + k
    OBVIOUS
  <2>. HIDE DEF n
  <2>2. n \in Int /\ n >= k /\ n <= b.w - b.r /\ b.r + n <= b.w
    BY <1>1, <2>1, EndOfFlag
  <2>. QED
    BY <1>1, <2>2
<1>3. \A q \in b.r..(b.r + n - 1) : KindAt(b, q) # NUL
  <2>1. \A q \in b.r..(b.r + n - 1) : q \in b.r..(b.w - 1)
    <3>. HIDE DEF n
    <3>. QED
      BY <1>1, <1>2, SMTT(40)
  <2>. QED
    BY <2>1, ReadableIsText
<1>4. \A j \in 1..k : KindAt(b, b.r + n - k + j - 1) = Flag[j]
  <2>1. \A j \in 1..k : b.r + n - k + j - 1 = p + j - 1
    <3>. HIDE DEF k
    <3>1. n = p - b.r + k
      OBVIOUS
    <3>. HIDE DEF n
    <3>2. ASSUME NEW j \in 1..k PROVE b.r + n - k + j - 1 = p + j - 1
      BY <1>1, <3>1
    <3>. QED
      BY <3>2
  <2>. QED
    BY <2>1
<1>. HIDE DEF n
<1>5. n \in Slices(b)
  BY <1>2, <1>3, <1>4, ReadableFlag
<1>6. Slices(b) \in SUBSET Nat
  BY <1>1 DEF Slices
<1>7. PICK m \in FirstSlice(b) : TRUE
  <2>1. PICK m \in Slices(b) : \A l \in Slices(b) : m <= l
    BY <1>5, <1>6, LeastExists
  <2>. QED
    BY <2>1 DEF FirstSlice
<1>8. \A l \in FirstSlice(b) : l \in Nat /\ l <= n
  BY <1>5, <1>6 DEF FirstSlice
<1>9. PICK l \in FirstSlice(b) : b.r + l > b.w
  BY <1>7
<1>. QED
  BY <1>1, <1>2, <1>8, <1>9

FlagInv == TextOK /\ UntilStopsAtFlag /\ UntilSeesFlag

LEMMA SearchFlag ==
  ASSUME TextOK, UntilStopsAtFlag, text' = text,
         NEW first \in Nat, first > 0, NEW t \in Nat, t <= MaxTaken,
         NEW b \in Buffers, Holds(b, first, t), Search(b)
  PROVE  UntilStopsAtFlag' /\ UntilSeesFlag'
<1>1. text' \in [1..MaxTaken -> Kinds] /\ text \in [1..MaxTaken -> Kinds]
  BY DEF TextOK
<1>2. ASSUME NEW n \in FirstSlice(b), b.r + n <= b.w, Return("line", RSlice(b, n))
      PROVE  UntilStopsAtFlag' /\ UntilSeesFlag'
  <2>1. result' = "line" /\ got' = RSlice(b, n) /\ op' = "none"
    BY <1>2 DEF Return
  <2>2. StopsAtFlag(RSlice(b, n))
    BY <1>1, <1>2, LineIsFirst
  <2>3. UntilStopsAtFlag'
    <3>. DEFINE g == RSlice(b, n)
    <3>1. got' = g /\ StopsAtFlag(g)
      BY <2>1, <2>2
    <3>. HIDE DEF g
    <3>. QED
      BY <3>1 DEF StopsAtFlag, UntilStopsAtFlag
  <2>. QED
    BY <2>1, <2>3 DEF UntilSeesFlag
<1>3. ASSUME buf' = b, outcome' = outcome,
             FirstSlice(b) = {} \/ \E n \in FirstSlice(b) : b.r + n > b.w
      PROVE  UntilStopsAtFlag' /\ UntilSeesFlag'
  <2>1. UntilStopsAtFlag'
    BY <1>3 DEF UntilStopsAtFlag, outcome
  <2>2. NUL \notin Kinds => Unseen(b)
    BY <1>1, <1>3, NoSliceNoFlag
  <2>3. NUL \notin Kinds => Unseen(buf')
    BY <1>3, <2>2
  <2>. QED
    BY <2>1, <2>3 DEF UntilSeesFlag, Unseen, KindAt
<1>. QED
  BY <1>2, <1>3 DEF Search, Await

LEMMA FlagStep ==
  ASSUME ReaderInv, FlagInv, [Next]_vars
  PROVE  FlagInv'
<1>. USE DEF FlagInv
<1>1. /\ buf \in Buffers /\ Holds(buf, given + Len(span) + 1, taken)
      /\ given \in Nat /\ taken \in Nat /\ want \in Nat
      /\ given + Len(span) + 1 \in Nat /\ given + Len(span) + 1 > 0
      /\ text' = text
  <2>1. Len(span) \in Nat
    BY DEF ReaderInv, Types
  <2>2. text' = text
    BY DEF Next, Call, CallBig, ReadBuffered, ReadStart, ExactBuffered, ExactStart, ReadUntil, Io,
           IoRead, IoReadExact, IoFail, IoNoBufs, Fail, vars, input
  <2>. QED
    BY <2>1, <2>2 DEF ReaderInv, Types, BufferIsNext
<1>2. ASSUME op' # "until", result' # "line" \/ UNCHANGED <<result, got>>, taken' <= MaxTaken PROVE FlagInv'
  <2>1. TextOK'
    BY <1>1, <1>2 DEF TextOK
  <2>2. UntilStopsAtFlag'
    <3>1. CASE result' # "line"
      BY <3>1 DEF UntilStopsAtFlag
    <3>2. CASE UNCHANGED <<result, got>>
      BY <1>1, <3>2 DEF UntilStopsAtFlag
    <3>. QED
      BY <1>2, <3>1, <3>2
  <2>3. UntilSeesFlag'
    BY <1>2 DEF UntilSeesFlag
  <2>. QED
    BY <2>1, <2>2, <2>3
<1>3. ASSUME NEW n \in Wants, Call(n) PROVE FlagInv'
  BY <1>2, <1>3 DEF Call, CallBig, ReadBuffered, ReadStart, ExactBuffered, ExactStart,
                    Await, Return, outcome, input, TextOK
<1>4. CASE ReadUntil
  BY <1>1, <1>4, SearchFlag DEF ReadUntil, TextOK, input
<1>5. CASE IoRead
  <2>1. PICK k \in 0..Smaller(Room, MaxTaken - taken) :
          taken' = taken + k /\ (ReadArrived(k) \/ ExactArrived(k) \/ BigArrived(k) \/ UntilArrived(k))
    BY <1>5 DEF IoRead
  <2>2. taken' \in Nat /\ taken' <= MaxTaken
    <3>1. Room \in Int
      BY <1>1, BufferParts, SizeAssumption DEF Room, WRemaining
    <3>. QED
      BY <1>1, <2>1, <3>1, ReaderAssumption DEF Smaller, TextOK
  <2>3. CASE ReadArrived(k) \/ ExactArrived(k) \/ BigArrived(k)
    BY <1>2, <2>2, <2>3 DEF ReadArrived, ExactArrived, BigArrived, Await, Return, outcome
  <2>4. CASE UntilArrived(k)
    <3>1. /\ Store(buf, taken, k) \in Buffers /\ Holds(Store(buf, taken, k), given + 1, taken')
          /\ given + 1 \in Nat /\ given + 1 > 0
      BY <1>1, <2>1, <2>4, ArrivedInBuffer DEF UntilArrived
    <3>. HIDE DEF FlagInv
    <3>2. UntilStopsAtFlag' /\ UntilSeesFlag'
      BY <1>1, <2>2, <2>4, <3>1, SearchFlag DEF UntilArrived, FlagInv
    <3>. QED
      BY <1>1, <2>2, <3>2 DEF TextOK, FlagInv
  <2>. QED
    BY <2>1, <2>3, <2>4
<1>6. CASE IoReadExact
  BY <1>1, <1>2, <1>6, ReaderAssumption DEF IoReadExact, Return, TextOK
<1>7. CASE IoFail \/ IoNoBufs
  <2>1. PICK r \in {"error", "nobufs"}, j \in Nat : Fail(r, j) /\ j <= MaxTaken - taken
    <3>1. CASE IoNoBufs
      BY <1>1, <3>1, ReaderAssumption DEF IoNoBufs, TextOK
    <3>2. CASE IoFail
      BY <1>1, <3>2, ReaderAssumption DEF IoFail, TextOK, Smaller
    <3>. QED
      BY <1>7, <3>1, <3>2
  <2>. QED
    BY <1>1, <1>2, <2>1, ReaderAssumption DEF Fail
<1>8. CASE UNCHANGED vars
  BY <1>8 DEF vars, input, outcome, TextOK, UntilStopsAtFlag, UntilSeesFlag, KindAt
<1>. QED
  BY <1>3, <1>4, <1>5, <1>6, <1>7, <1>8 DEF Next, Io

LEMMA FlagInvariant == Spec => []FlagInv
<1>1. Init => FlagInv
  BY ReaderAssumption DEF Init, FlagInv, TextOK, UntilStopsAtFlag, UntilSeesFlag
<1>2. ReaderInv /\ FlagInv /\ [Next]_vars => FlagInv'
  BY FlagStep
<1>. QED
  BY <1>1, <1>2, InvariantHolds, PTL DEF Spec

\* A line ends with the flag and holds no other: find_flag finds the first one.
THEOREM LineEndsAtFirstFlag == Spec => []UntilStopsAtFlag
<1>1. FlagInv => UntilStopsAtFlag
  BY DEF FlagInv
<1>. QED
  BY <1>1, FlagInvariant, PTL

\* In a text without zero bytes, read_until awaits more only while no flag is
\* readable.
THEOREM NoFlagIsMissed == Spec => []UntilSeesFlag
<1>1. FlagInv => UntilSeesFlag
  BY DEF FlagInv
<1>. QED
  BY <1>1, FlagInvariant, PTL
=============================================================================
