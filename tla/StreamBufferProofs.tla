------------------------- MODULE StreamBufferProofs -------------------------
(***************************************************************************)
(* What the operations of StreamBuffer do to a buffer that holds the bytes *)
(* first..last of a stream, for every capacity.                            *)
(***************************************************************************)
EXTENDS StreamBuffer, TLAPS

LEMMA BufferParts ==
  ASSUME NEW b \in Buffers
  PROVE  /\ b.cell \in [Positions -> Nat] /\ b.r \in Nat /\ b.w \in Nat
         /\ b.r <= b.w /\ b.w <= Size
         /\ b = [cell |-> b.cell, r |-> b.r, w |-> b.w]
  BY SizeAssumption DEF Buffers

LEMMA MakeBuffer ==
  ASSUME NEW c \in [Positions -> Nat], NEW r \in Nat, NEW w \in Nat, r <= w, w <= Size
  PROVE  [cell |-> c, r |-> r, w |-> w] \in Buffers
  BY SizeAssumption DEF Buffers

\* A slice is a sequence, as long as it was asked for.
LEMMA FunctionIsSeq ==
  ASSUME NEW n \in Nat, NEW f \in [1..n -> Nat]
  PROVE  f \in Seq(Nat) /\ Len(f) = n
  OBVIOUS

LEMMA RSliceIs ==
  ASSUME NEW b \in Buffers, NEW first \in Nat, NEW last \in Nat, Holds(b, first, last),
         NEW n \in 0..RRemaining(b), first > 0
  PROVE  /\ RSlice(b, n) = [i \in 1..n |-> first - 1 + i]
         /\ RSlice(b, n) \in Seq(Nat)
         /\ Len(RSlice(b, n)) = n
<1>1. b.r \in Nat /\ b.w \in Nat /\ n \in Nat /\ n <= b.w - b.r
  BY BufferParts DEF RRemaining
<1>2. ASSUME NEW i \in 1..n PROVE b.cell[b.r + i - 1] = first - 1 + i
  <2>1. b.r + i - 1 \in b.r..(b.w - 1)
    BY <1>1
  <2>2. b.cell[b.r + i - 1] = first + (b.r + i - 1 - b.r)
    BY <1>1, <2>1 DEF Holds
  <2>. QED
    BY <1>1, <2>2
<1>3. RSlice(b, n) = [i \in 1..n |-> first - 1 + i]
  BY <1>2 DEF RSlice
<1>4. [i \in 1..n |-> first - 1 + i] \in [1..n -> Nat]
  BY <1>1
<1>. QED
  BY <1>1, <1>3, <1>4, FunctionIsSeq

LEMMA RIncreaseHolds ==
  ASSUME NEW b \in Buffers, NEW first \in Nat, NEW last \in Nat, Holds(b, first, last),
         NEW n \in 0..RRemaining(b)
  PROVE  /\ RIncrease(b, n) \in Buffers
         /\ Holds(RIncrease(b, n), first + n, last)
<1>1. b.cell \in [Positions -> Nat] /\ b.r \in Nat /\ b.w \in Nat /\ n \in Nat
      /\ n <= b.w - b.r /\ b.w <= Size
  BY BufferParts DEF RRemaining
<1>2. RIncrease(b, n) = [cell |-> b.cell, r |-> b.r + n, w |-> b.w]
  BY BufferParts DEF RIncrease
<1>3. RIncrease(b, n) \in Buffers
  BY <1>1, <1>2, MakeBuffer
<1>4. RRemaining(RIncrease(b, n)) = last + 1 - (first + n)
  BY <1>1, <1>2 DEF RRemaining, Holds
<1>5. ASSUME NEW p \in (b.r + n)..(b.w - 1) PROVE b.cell[p] = first + n + (p - (b.r + n))
  <2>1. b.cell[p] = first + (p - b.r)
    BY <1>1 DEF Holds
  <2>. QED
    BY <1>1, <2>1
<1>. QED
  BY <1>2, <1>3, <1>4, <1>5 DEF Holds

\* Bytes that leave: the cursors stay ordered, also when they start over.
LEMMA WriteToHolds ==
  ASSUME NEW b \in Buffers, NEW first \in Nat, NEW last \in Nat, Holds(b, first, last),
         NEW n \in 0..RRemaining(b)
  PROVE  /\ WriteTo(b, n) \in Buffers
         /\ Holds(WriteTo(b, n), first + n, last)
<1>. DEFINE c == RIncrease(b, n)
<1>1. c \in Buffers /\ Holds(c, first + n, last)
  BY RIncreaseHolds
<1>2. CASE IsEmpty(c)
  <2>1. ResetPos(c) = [cell |-> c.cell, r |-> 0, w |-> 0] /\ c.r = c.w
    BY <1>2 DEF ResetPos, IsEmpty
  <2>2. c.cell \in [Positions -> Nat] /\ c.w \in Nat
    BY <1>1, BufferParts
  <2>3. ResetPos(c) \in Buffers
    BY <2>1, <2>2, MakeBuffer, SizeAssumption
  <2>4. last + 1 - (first + n) = 0
    BY <1>1, <2>1, <2>2 DEF Holds, RRemaining
  <2>5. Holds(ResetPos(c), first + n, last)
    BY <2>1, <2>4 DEF Holds, RRemaining
  <2>. QED
    BY <1>2, <2>3, <2>5 DEF WriteTo
<1>3. CASE ~IsEmpty(c)
  BY <1>1, <1>3 DEF WriteTo
<1>. QED
  BY <1>2, <1>3

\* Compaction moves the readable bytes and loses none.
LEMMA ResetDataHolds ==
  ASSUME NEW b \in Buffers, NEW first \in Nat, NEW last \in Nat, Holds(b, first, last)
  PROVE  /\ ResetData(b) \in Buffers
         /\ Holds(ResetData(b), first, last)
         /\ ResetData(b).r = 0
         /\ ResetData(b).w = RRemaining(b)
<1>. DEFINE n == RRemaining(b)
            c == [p \in Positions |-> IF p < n THEN b.cell[b.r + p] ELSE b.cell[p]]
<1>1. b.cell \in [Positions -> Nat] /\ b.r \in Nat /\ b.w \in Nat /\ n = b.w - b.r
      /\ b.r <= b.w /\ b.w <= Size /\ n \in Nat /\ n <= Size
  BY BufferParts, SizeAssumption DEF RRemaining
<1>2. ResetData(b) = [cell |-> c, r |-> 0, w |-> n]
  BY DEF ResetData
<1>3. ASSUME NEW p \in Positions, p < n PROVE b.r + p \in Positions
  BY <1>1, <1>3, SizeAssumption DEF Positions
<1>4. c \in [Positions -> Nat]
  BY <1>1, <1>3
<1>5. ResetData(b) \in Buffers
  BY <1>1, <1>2, <1>4, MakeBuffer
<1>6. ASSUME NEW p \in 0..(n - 1) PROVE c[p] = first + (p - 0)
  <2>1. p \in Positions /\ p < n /\ b.r + p \in b.r..(b.w - 1)
    <3>. HIDE DEF n, c
    <3>1. p \in Nat /\ p < n
      BY <1>1
    <3>2. p <= Size - 1
      BY <1>1, <3>1, SizeAssumption
    <3>3. b.r <= b.r + p /\ b.r + p <= b.w - 1 /\ b.r + p \in Nat
      BY <1>1, <3>1
    <3>4. p \in Positions
      BY <3>1, <3>2, SizeAssumption DEF Positions
    <3>5. b.r + p \in b.r..(b.w - 1)
      BY <1>1, <3>3
    <3>. QED
      BY <3>1, <3>4, <3>5
  <2>2. b.cell[b.r + p] = first + (b.r + p - b.r)
    BY <1>1, <2>1 DEF Holds
  <2>. QED
    BY <1>1, <2>1, <2>2
<1>7. RRemaining(ResetData(b)) = last + 1 - first
  BY <1>1, <1>2 DEF RRemaining, Holds
<1>8. ResetData(b).r = 0 /\ ResetData(b).w = n /\ ResetData(b).cell = c
  BY <1>2
<1>9. Holds(ResetData(b), first, last)
  BY <1>6, <1>7, <1>8 DEF Holds
<1>. QED
  BY <1>5, <1>8, <1>9

\* Bytes that arrive behind w_pos_ follow those already readable.
LEMMA StoreHolds ==
  ASSUME NEW b \in Buffers, NEW first \in Nat, NEW last \in Nat, Holds(b, first, last),
         NEW k \in 0..WRemaining(b)
  PROVE  /\ Store(b, last, k) \in Buffers
         /\ Holds(Store(b, last, k), first, last + k)
         /\ RRemaining(Store(b, last, k)) = RRemaining(b) + k
         /\ Store(b, last, k).r = b.r
         /\ Store(b, last, k).w = b.w + k
<1>. DEFINE c == [p \in Positions |->
                    IF b.w <= p /\ p < b.w + k THEN last + 1 + (p - b.w) ELSE b.cell[p]]
<1>1. b.cell \in [Positions -> Nat] /\ b.r \in Nat /\ b.w \in Nat /\ b.r <= b.w /\ b.w <= Size
      /\ k \in Nat /\ b.w + k <= Size
  BY BufferParts, SizeAssumption DEF WRemaining
<1>2. Store(b, last, k) = [cell |-> c, r |-> b.r, w |-> b.w + k]
  BY DEF Store
<1>3. ASSUME NEW p \in Positions PROVE c[p] \in Nat
  <2>1. b.cell[p] \in Nat /\ p \in Nat
    BY <1>1, SizeAssumption DEF Positions
  <2>. QED
    BY <1>1, <2>1
<1>4. c \in [Positions -> Nat]
  BY <1>3
<1>5. Store(b, last, k) \in Buffers
  BY <1>1, <1>2, <1>4, MakeBuffer
<1>6. b.w - b.r = last + 1 - first
  BY DEF Holds, RRemaining
<1>7. ASSUME NEW p \in b.r..(b.w + k - 1) PROVE c[p] = first + (p - b.r)
  <2>1. p \in Positions
    BY <1>1, SizeAssumption DEF Positions
  <2>2. CASE p < b.w
    <3>1. b.cell[p] = first + (p - b.r)
      BY <1>1, <2>2 DEF Holds
    <3>. QED
      BY <1>1, <2>1, <2>2, <3>1
  <2>3. CASE p >= b.w
    BY <1>1, <1>6, <2>1, <2>3
  <2>. QED
    BY <1>1, <2>2, <2>3
<1>8. Store(b, last, k).r = b.r /\ Store(b, last, k).w = b.w + k /\ Store(b, last, k).cell = c
  BY <1>2
<1>9. RRemaining(Store(b, last, k)) = last + k + 1 - first
      /\ RRemaining(Store(b, last, k)) = RRemaining(b) + k
  BY <1>1, <1>6, <1>8 DEF RRemaining
<1>10. Holds(Store(b, last, k), first, last + k)
  <2>. HIDE DEF c
  <2>. QED
    BY <1>1, <1>7, <1>8, <1>9 DEF Holds
<1>. QED
  BY <1>5, <1>8, <1>9, <1>10
=============================================================================
