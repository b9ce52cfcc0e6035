------------------------------ MODULE CodecsProofs ------------------------------
(***************************************************************************)
(* Theorems about the operators of Codecs, for every argument; about Web,  *)
(* for all lengths, texts, masks and numbers of frames; and about Framing, *)
(* for all lengths, texts and numbers of messages.                         *)
(***************************************************************************)
EXTENDS Web, Exchange, SequenceTheorems, FiniteSetTheorems, WellFoundedInduction, TLAPS

-----------------------------------------------------------------------------
(* Shifts and cuts, bit by bit. *)

LEMMA LowBits ==
  ASSUME NEW x \in SUBSET Nat, NEW k \in Nat, NEW b
  PROVE  b \in Low(x, k) <=> b \in x /\ b < k
<1>1. b \in x => b \in Nat
  OBVIOUS
<1>2. b \in Nat => (b \in 0..(k - 1) <=> b < k)
  OBVIOUS
<1>. QED
  BY <1>1, <1>2, Zenon DEF Low

LEMMA LeftBits ==
  ASSUME NEW x \in SUBSET Nat, NEW k \in Nat, NEW b
  PROVE  b \in ShiftLeft(x, k) <=> b \in Nat /\ b >= k /\ b - k \in x
<1>1. ASSUME b \in ShiftLeft(x, k) PROVE b \in Nat /\ b >= k /\ b - k \in x
  <2>1. PICK c \in x : b = c + k
    BY <1>1 DEF ShiftLeft
  <2>2. c \in Nat /\ b - k = c
    BY <2>1
  <2>. QED
    BY <2>1, <2>2
<1>2. ASSUME b \in Nat, b >= k, b - k \in x PROVE b \in ShiftLeft(x, k)
  <2>1. b = (b - k) + k
    BY <1>2
  <2>. QED
    BY <1>2, <2>1 DEF ShiftLeft
<1>. QED
  BY <1>1, <1>2

LEMMA RightBits ==
  ASSUME NEW x \in SUBSET Nat, NEW k \in Nat, NEW b
  PROVE  b \in ShiftRight(x, k) <=> b \in Nat /\ b + k \in x
<1>1. ASSUME b \in ShiftRight(x, k) PROVE b \in Nat /\ b + k \in x
  <2>1. PICK c \in x : c >= k /\ b = c - k
    BY <1>1 DEF ShiftRight
  <2>2. c \in Nat /\ b + k = c /\ b \in Nat
    BY <2>1
  <2>. QED
    BY <2>1, <2>2
<1>2. ASSUME b \in Nat, b + k \in x PROVE b \in ShiftRight(x, k)
  <2>1. b = (b + k) - k /\ b + k >= k
    BY <1>2
  <2>. QED
    BY <1>2, <2>1 DEF ShiftRight
<1>. QED
  BY <1>1, <1>2

LEMMA Subsets ==
  ASSUME NEW x \in SUBSET Nat, NEW k \in Nat
  PROVE  /\ Low(x, k) \in SUBSET Nat /\ ShiftLeft(x, k) \in SUBSET Nat
         /\ ShiftRight(x, k) \in SUBSET Nat
BY LowBits, LeftBits, RightBits

-----------------------------------------------------------------------------
(* hton and ntoh are their own inverses. *)

LEMMA SwappedBit ==
  ASSUME NEW w \in Nat, NEW b \in 0..(8 * w - 1), NEW c,
         c = (8 * (w - 1 - (b \div 8))) + (b % 8)
  PROVE  /\ c \in 0..(8 * w - 1)
         /\ (8 * (w - 1 - (c \div 8))) + (c % 8) = b
<1>. DEFINE q == b \div 8
            r == b % 8
<1>1. q \in Int /\ r \in 0..7 /\ b = 8 * q + r /\ q >= 0 /\ q <= w - 1
  OBVIOUS
<1>2. c \in 0..(8 * w - 1) /\ c \div 8 = w - 1 - q /\ c % 8 = r
  <2>. HIDE DEF q, r
  <2>. QED
    BY <1>1
<1>3. 8 * (w - 1 - (w - 1 - q)) + r = b
  <2>. HIDE DEF q, r
  <2>. QED
    BY <1>1
<1>4. (8 * (w - 1 - (c \div 8))) + (c % 8) = b
  <2>. HIDE DEF q, r
  <2>. QED
    BY <1>2, <1>3
<1>. QED
  BY <1>2, <1>4

\* Swapping the bytes of a number of w bytes twice gives it back.
THEOREM SwapTwice ==
  ASSUME NEW w \in Nat, NEW x \in SUBSET (0..(8 * w - 1))
  PROVE  Swap(x, w) \in SUBSET (0..(8 * w - 1)) /\ Swap(Swap(x, w), w) = x
<1>. DEFINE s(b) == (8 * (w - 1 - (b \div 8))) + (b % 8)
<1>1. \A b \in 0..(8 * w - 1) : s(b) \in 0..(8 * w - 1) /\ s(s(b)) = b
  BY SwappedBit
<1>2. \A z : Swap(z, w) = {s(b) : b \in z}
  BY DEF Swap
<1>. HIDE DEF s
<1>3. ASSUME NEW b \in Swap(x, w) PROVE b \in 0..(8 * w - 1)
  <2>1. PICK c \in x : b = s(c)
    BY <1>2
  <2>. QED
    BY <1>1, <2>1
<1>4. ASSUME NEW b \in x PROVE b \in Swap(Swap(x, w), w)
  <2>1. s(b) \in Swap(x, w) /\ s(s(b)) = b
    BY <1>1, <1>2
  <2>. QED
    BY <1>2, <2>1
<1>5. ASSUME NEW b \in Swap(Swap(x, w), w) PROVE b \in x
  <2>1. PICK c \in Swap(x, w) : b = s(c)
    BY <1>2
  <2>2. PICK d \in x : c = s(d)
    BY <1>2
  <2>. QED
    BY <1>1, <2>1, <2>2
<1>. QED
  BY <1>3, <1>4, <1>5

-----------------------------------------------------------------------------
(* A number is put together again from its bytes, or groups of seven bits. *)

LEMMA Joined ==
  ASSUME NEW g \in {7, 8}, NEW n \in Nat, NEW y \in SUBSET (0..(g * n - 1))
  PROVE  UNION {ShiftLeft(Low(ShiftRight(y, g * (i - 1)), g), g * (i - 1)) : i \in 1..n} = y
<1>. DEFINE Part(i) == ShiftLeft(Low(ShiftRight(y, g * (i - 1)), g), g * (i - 1))
<1>1. y \in SUBSET Nat
  <2>1. g * n - 1 \in Int
    OBVIOUS
  <2>. QED
    BY <2>1
<1>2. ASSUME NEW i \in 1..n, NEW b PROVE b \in Part(i) <=> b \in y /\ b >= g * (i - 1) /\ b < g * i
  <2>. DEFINE k == g * (i - 1)
  <2>1. k \in Nat /\ g \in Nat /\ g * i = k + g
    BY g = 7 \/ g = 8
  <2>. HIDE DEF k
  <2>2. b \in ShiftLeft(Low(ShiftRight(y, k), g), k) <=> b \in Nat /\ b >= k /\ b - k \in Low(ShiftRight(y, k), g)
    BY <1>1, <2>1, Subsets, LeftBits
  <2>3. b \in Nat /\ b >= k => (b - k \in Low(ShiftRight(y, k), g) <=> b - k \in ShiftRight(y, k) /\ b - k < g)
    BY <1>1, <2>1, Subsets, LowBits
  <2>4. b \in Nat /\ b >= k => (b - k \in ShiftRight(y, k) <=> b \in y)
    <3>1. b \in Nat /\ b >= k => b - k \in Nat /\ b - k + k = b
      BY <2>1
    <3>. QED
      BY <1>1, <2>1, <3>1, RightBits
  <2>5. b \in y => b \in Nat
    BY <1>1
  <2>6. b \in Part(i) <=> b \in y /\ b >= k /\ b < g * i
    BY <2>1, <2>2, <2>3, <2>4, <2>5 DEF k
  <2>. QED
    BY <2>6 DEF k
<1>3. ASSUME NEW b \in y PROVE \E i \in 1..n : b >= g * (i - 1) /\ b < g * i
  <2>1. CASE g = 7
    <3>1. b \in 0..(7 * n - 1)
      BY <2>1
    <3>. DEFINE i == (b \div 7) + 1
    <3>2. i \in 1..n /\ b >= 7 * (i - 1) /\ b < 7 * i
      BY <3>1
    <3>. HIDE DEF i
    <3>. QED
      BY <2>1, <3>2
  <2>2. CASE g = 8
    <3>1. b \in 0..(8 * n - 1)
      BY <2>2
    <3>. DEFINE i == (b \div 8) + 1
    <3>2. i \in 1..n /\ b >= 8 * (i - 1) /\ b < 8 * i
      BY <3>1
    <3>. HIDE DEF i
    <3>. QED
      BY <2>2, <3>2
  <2>. QED
    BY <2>1, <2>2
<1>. HIDE DEF Part
<1>4. UNION {Part(i) : i \in 1..n} = y
  BY <1>2, <1>3
<1>. QED
  BY <1>4 DEF Part

-----------------------------------------------------------------------------
(* FixedLength32Codec. *)

LEMMA LowIn ==
  ASSUME NEW x \in SUBSET Nat, NEW k \in Nat
  PROVE  Low(x, k) \in SUBSET (0..(k - 1))
BY DEF Low

LEMMA LowAll ==
  ASSUME NEW k \in Nat, NEW x \in SUBSET (0..(k - 1))
  PROVE  Low(x, k) = x
BY DEF Low

\* A length comes back as its low 32 bits: unharmed, or cut if it is longer.
THEOREM FixedKeepsLow32 ==
  ASSUME NEW x \in SUBSET Nat
  PROVE  DecodeFixed(EncodeFixed(x)) = Low(x, 32)
<1>. DEFINE y == Swap(Low(x, 32), 4)
<1>1. Low(x, 32) \in SUBSET (0..(8 * 4 - 1))
  BY LowIn
<1>2. y \in SUBSET (0..(8 * 4 - 1)) /\ Swap(y, 4) = Low(x, 32)
  BY <1>1, SwapTwice
<1>. HIDE DEF y
<1>3. UNION {ShiftLeft(Low(ShiftRight(y, 8 * (i - 1)), 8), 8 * (i - 1)) : i \in 1..4} = y
  BY <1>2, Joined
<1>4. \A i \in 1..4 : EncodeFixed(x)[i] = Low(ShiftRight(y, 8 * (i - 1)), 8)
  BY DEF EncodeFixed, ByteOf, y
<1>5. UNION {ShiftLeft(EncodeFixed(x)[i], 8 * (i - 1)) : i \in 1..4} = y
  BY <1>3, <1>4
<1>. QED
  BY <1>2, <1>5 DEF DecodeFixed

-----------------------------------------------------------------------------
(* LengthDelimitedCodec. *)

LEMMA LeastOfTen ==
  ASSUME NEW S \in SUBSET (1..10), S # {}
  PROVE  \E k \in S : \A j \in 1..(k - 1) : j \notin S
<1>. SUFFICES ASSUME \A k \in S : \E j \in 1..(k - 1) : j \in S PROVE FALSE
  OBVIOUS
<1>1. 1 \notin S /\ 2 \notin S
  OBVIOUS
<1>2. 3 \notin S /\ 4 \notin S
  BY <1>1
<1>3. 5 \notin S /\ 6 \notin S
  BY <1>1, <1>2
<1>4. 7 \notin S /\ 8 \notin S
  BY <1>1, <1>2, <1>3
<1>5. 9 \notin S /\ 10 \notin S
  BY <1>1, <1>2, <1>3, <1>4
<1>6. PICK k \in S : TRUE
  OBVIOUS
<1>7. k \in 1..10
  OBVIOUS
<1>. QED
  BY <1>1, <1>2, <1>3, <1>4, <1>5, <1>7

\* A 64-bit number takes one to ten groups of seven bits.
LEMMA VarintFits ==
  ASSUME NEW y \in SUBSET (0..63)
  PROVE  /\ VarintSize(y) \in 1..10
         /\ y \in SUBSET (0..(7 * VarintSize(y) - 1))
<1>. DEFINE S == {k \in 1..10 : y \subseteq 0..(7 * k - 1)}
<1>1. 10 \in S
  OBVIOUS
<1>2. PICK k \in S : \A j \in 1..(k - 1) : j \notin S
  <2>. HIDE DEF S
  <2>1. S \in SUBSET (1..10)
    BY DEF S
  <2>. QED
    BY <1>1, <2>1, LeastOfTen
<1>3. /\ k \in 1..MaxVarintBytes /\ y \subseteq 0..(7 * k - 1)
      /\ \A j \in 1..(k - 1) : ~(y \subseteq 0..(7 * j - 1))
  BY <1>2 DEF MaxVarintBytes
<1>4. /\ VarintSize(y) \in 1..MaxVarintBytes
      /\ y \subseteq 0..(7 * VarintSize(y) - 1)
  BY <1>3, Zenon DEF VarintSize
<1>. QED
  BY <1>4 DEF MaxVarintBytes

\* What follows the varint does not matter to its decoder.
LEMMA VarintEndsItself ==
  ASSUME NEW n \in 1..10, NEW bytes \in Seq(SUBSET Nat), Len(bytes) >= n,
         7 \notin bytes[n], \A i \in 1..(n - 1) : 7 \in bytes[i]
  PROVE  VarintLen(bytes) = n
<1>1. n \in VarintEnds(bytes) /\ \A i \in VarintEnds(bytes) : n <= i
  BY DEF VarintEnds, MaxVarintBytes
<1>2. /\ VarintLen(bytes) \in VarintEnds(bytes)
      /\ \A i \in VarintEnds(bytes) : VarintLen(bytes) <= i
  BY <1>1, Zenon DEF VarintLen
<1>3. VarintEnds(bytes) \subseteq Nat
  BY DEF VarintEnds
<1>. QED
  BY <1>1, <1>2, <1>3

\* Any 64-bit length is decoded as it was encoded, from the bytes it was encoded
\* to and no others, whatever comes after them.
THEOREM VarintRoundTrip ==
  ASSUME NEW x \in SUBSET (0..63), NEW rest \in Seq(SUBSET Nat)
  PROVE  /\ DecodeVarint(EncodeVarint(x) \o rest) = x
         /\ VarintLen(EncodeVarint(x) \o rest) = Len(EncodeVarint(x))
<1>. DEFINE y == Swap(x, 8)
            n == VarintSize(y)
            code == EncodeVarint(x)
            bytes == code \o rest
            Part(i) == Low(ShiftRight(y, 7 * (i - 1)), 7)
<1>1. y \in SUBSET (0..63) /\ Swap(y, 8) = x
  <2>1. x \in SUBSET (0..(8 * 8 - 1))
    OBVIOUS
  <2>2. Swap(x, 8) \in SUBSET (0..(8 * 8 - 1)) /\ Swap(Swap(x, 8), 8) = x
    BY <2>1, SwapTwice
  <2>. QED
    BY <2>2
<1>. HIDE DEF y
<1>2. n \in 1..10 /\ y \in SUBSET (0..(7 * n - 1))
  BY <1>1, VarintFits
<1>3. code = [i \in 1..n |-> Part(i) \cup (IF i < n THEN {7} ELSE {})]
  BY DEF EncodeVarint, y
<1>. HIDE DEF n, code
<1>4. \A i \in 1..n : Part(i) \in SUBSET (0..6)
  <2>1. \A i \in 1..n : 7 * (i - 1) \in Nat
    BY <1>2
  <2>2. y \in SUBSET Nat
    BY <1>1
  <2>3. \A i \in 1..n : ShiftRight(y, 7 * (i - 1)) \in SUBSET Nat
    BY <2>1, <2>2, Subsets
  <2>4. ASSUME NEW i \in 1..n PROVE Low(ShiftRight(y, 7 * (i - 1)), 7) \in SUBSET (0..6)
    <3>1. ShiftRight(y, 7 * (i - 1)) \in SUBSET Nat
      BY <2>3
    <3>. QED
      BY <3>1 DEF Low
  <2>. QED
    BY <2>4
<1>. HIDE DEF Part
<1>5. /\ code \in Seq(SUBSET Nat) /\ Len(code) = n
      /\ \A i \in 1..n : code[i] = Part(i) \cup (IF i < n THEN {7} ELSE {})
  <2>1. \A i \in 1..n : Part(i) \cup (IF i < n THEN {7} ELSE {}) \in SUBSET Nat
    BY <1>4
  <2>. QED
    BY <1>2, <1>3, <2>1
<1>6. /\ bytes \in Seq(SUBSET Nat) /\ Len(bytes) >= n
      /\ \A i \in 1..n : bytes[i] = code[i]
  BY <1>2, <1>5
<1>. HIDE DEF bytes
<1>7. VarintLen(bytes) = n
  <2>1. 7 \notin bytes[n]
    <3>1. n \in 1..n /\ ~(n < n)
      BY <1>2
    <3>2. bytes[n] = Part(n) \cup {} /\ Part(n) \in SUBSET (0..6)
      BY <1>4, <1>5, <1>6, <3>1
    <3>. QED
      BY <3>2
  <2>2. ASSUME NEW i \in 1..(n - 1) PROVE 7 \in bytes[i]
    <3>1. i \in 1..n /\ i < n
      BY <1>2
    <3>. QED
      BY <1>5, <1>6, <3>1
  <2>. QED
    BY <1>2, <1>6, <2>1, <2>2, VarintEndsItself
<1>8. ASSUME NEW i \in 1..n PROVE Low(bytes[i], 7) = Part(i)
  <2>1. bytes[i] = Part(i) \cup (IF i < n THEN {7} ELSE {}) /\ Part(i) \in SUBSET (0..6)
    BY <1>4, <1>5, <1>6
  <2>. QED
    BY <2>1 DEF Low
<1>9. UNION {ShiftLeft(Low(bytes[i], 7), 7 * (i - 1)) : i \in 1..n} = y
  <2>1. UNION {ShiftLeft(Part(i), 7 * (i - 1)) : i \in 1..n} = y
    <3>. USE DEF Part
    <3>1. n \in Nat /\ 7 \in {7, 8}
      BY <1>2
    <3>2. UNION {ShiftLeft(Low(ShiftRight(y, 7 * (i - 1)), 7), 7 * (i - 1)) : i \in 1..n} = y
      BY <1>2, <3>1, Joined, Zenon
    <3>. QED
      BY <3>2
  <2>. QED
    BY <1>8, <2>1
<1>10. Low(y, 64) = y
  BY <1>1, LowAll
<1>11. DecodeVarint(bytes) = Swap(Low(y, 64), 8)
  BY <1>7, <1>9 DEF DecodeVarint
<1>12. DecodeVarint(bytes) = x /\ VarintLen(bytes) = Len(code)
  BY <1>1, <1>5, <1>7, <1>10, <1>11
<1>. QED
  BY <1>12, Zenon DEF bytes, code

-----------------------------------------------------------------------------
(* WebsocketCodec. *)

\* The 64-bit form of a length is decoded as it was encoded.
THEOREM LongLengthKept ==
  ASSUME NEW x \in SUBSET (0..63)
  PROVE  DecodeLength(EncodeLength(x, 64), 64) = x
<1>. DEFINE y == Swap(x, 8)
<1>1. Low(x, 64) = x /\ y \in SUBSET (0..(8 * 8 - 1)) /\ Swap(y, 8) = x
  <2>1. x \in SUBSET (0..(8 * 8 - 1))
    OBVIOUS
  <2>2. Swap(x, 8) \in SUBSET (0..(8 * 8 - 1)) /\ Swap(Swap(x, 8), 8) = x
    BY <2>1, SwapTwice
  <2>. QED
    BY <2>2, LowAll
<1>. HIDE DEF y
<1>2. \A i \in 1..8 : EncodeLength(x, 64)[i] = Low(ShiftRight(y, 8 * (i - 1)), 8)
  BY <1>1 DEF EncodeLength, ByteOf, y
<1>3. UNION {ShiftLeft(Low(ShiftRight(y, 8 * (i - 1)), 8), 8 * (i - 1)) : i \in 1..8} = y
  BY <1>1, Joined
<1>4. UNION {ShiftLeft(EncodeLength(x, 64)[i], 8 * (i - 1)) : i \in 1..8} = y
  BY <1>2, <1>3
<1>. QED
  BY <1>1, <1>4 DEF DecodeLength

LEMMA SwapUnion ==
  ASSUME NEW x, NEW y, NEW w
  PROVE  Swap(x \cup y, w) = Swap(x, w) \cup Swap(y, w)
BY DEF Swap

LEMMA HighByteSwapped == Swap(8..15, 2) = 0..7
<1>1. ASSUME NEW b \in 8..15 PROVE (8 * (2 - 1 - (b \div 8))) + (b % 8) = b - 8
  OBVIOUS
<1>2. Swap(8..15, 2) = {b - 8 : b \in 8..15}
  BY <1>1 DEF Swap
<1>3. ASSUME NEW c \in 0..7 PROVE c + 8 \in 8..15 /\ c = (c + 8) - 8
  OBVIOUS
<1>. QED
  BY <1>2, <1>3

\* The 16-bit form is put together from signed chars: a length below 32768 is
\* kept, and of a longer one the low byte reads as all ones.
THEOREM ShortLengthSignExtended ==
  ASSUME NEW x \in SUBSET (0..15)
  PROVE  DecodeLength(EncodeLength(x, 16), 16)
           = x \cup (IF 15 \in x THEN 0..7 ELSE {})
<1>. DEFINE y == Swap(x, 2)
            low == ByteOf(y, 1)
            high == ByteOf(y, 2)
            code == EncodeLength(x, 16)
            z == Low(SignExtended(low) \cup ShiftLeft(SignExtended(high), 8), 16)
<1>1. Low(x, 16) = x /\ y \in SUBSET (0..15) /\ Swap(y, 2) = x
  <2>1. x \in SUBSET (0..(8 * 2 - 1))
    OBVIOUS
  <2>2. Swap(x, 2) \in SUBSET (0..(8 * 2 - 1)) /\ Swap(Swap(x, 2), 2) = x
    BY <2>1, SwapTwice
  <2>. QED
    BY <2>2, LowAll
<1>2. 7 \in y <=> 15 \in x
  <2>1. 15 \in x => 7 \in Swap(x, 2)
    <3>1. 7 = (8 * (2 - 1 - (15 \div 8))) + (15 % 8)
      OBVIOUS
    <3>. QED
      BY <3>1 DEF Swap
  <2>2. 7 \in y => 15 \in Swap(y, 2)
    <3>1. 15 = (8 * (2 - 1 - (7 \div 8))) + (7 % 8)
      OBVIOUS
    <3>. HIDE DEF y
    <3>. QED
      BY <3>1 DEF Swap
  <2>. QED
    BY <1>1, <2>1, <2>2
<1>. HIDE DEF y
<1>3. code[1] = low /\ code[2] = high
  BY <1>1 DEF EncodeLength, y
<1>4. /\ \A b : b \in low <=> b \in y /\ b < 8
      /\ \A b : b \in high <=> b \in Nat /\ b + 8 \in y /\ b < 8
  <2>0. y \in SUBSET Nat
    BY <1>1
  <2>1. ASSUME NEW b PROVE b \in low <=> b \in y /\ b < 8
    <3>0. low = Low(ShiftRight(y, 0), 8)
      <4>1. 8 * (1 - 1) = 0
        OBVIOUS
      <4>. QED
        BY <4>1, Zenon DEF ByteOf
    <3>. HIDE DEF low
    <3>1. b \in low <=> b \in ShiftRight(y, 0) /\ b < 8
      <4>1. ShiftRight(y, 0) \in SUBSET Nat
        BY <2>0, Subsets
      <4>. QED
        BY <3>0, <4>1, LowBits
    <3>2. b \in ShiftRight(y, 0) <=> b \in Nat /\ b + 0 \in y
      BY <2>0, RightBits
    <3>3. b \in Nat => b + 0 = b
      OBVIOUS
    <3>. QED
      BY <2>0, <3>1, <3>2, <3>3
  <2>2. ASSUME NEW b PROVE b \in high <=> b \in Nat /\ b + 8 \in y /\ b < 8
    <3>0. high = Low(ShiftRight(y, 8), 8)
      <4>1. 8 * (2 - 1) = 8
        OBVIOUS
      <4>. QED
        BY <4>1, Zenon DEF ByteOf
    <3>. HIDE DEF high
    <3>1. b \in high <=> b \in ShiftRight(y, 8) /\ b < 8
      <4>1. ShiftRight(y, 8) \in SUBSET Nat
        BY <2>0, Subsets
      <4>. QED
        BY <3>0, <4>1, LowBits
    <3>2. b \in ShiftRight(y, 8) <=> b \in Nat /\ b + 8 \in y
      BY <2>0, RightBits
    <3>. QED
      BY <3>1, <3>2
  <2>. QED
    BY <2>1, <2>2
<1>. HIDE DEF low, high, code
<1>5. z = y \cup (IF 7 \in y THEN 8..15 ELSE {})
  <2>1. SignExtended(low) \in SUBSET Nat /\ SignExtended(high) \in SUBSET Nat
    <3>1. y \in SUBSET Nat /\ 8..15 \in SUBSET Nat
      BY <1>1
    <3>2. low \in SUBSET Nat /\ high \in SUBSET Nat
      BY <1>4, <3>1
    <3>. QED
      BY <3>1, <3>2 DEF SignExtended
  <2>2. ASSUME NEW b \in Nat
        PROVE  b \in z <=> b < 16 /\ (b \in SignExtended(low) \/ (b >= 8 /\ b - 8 \in SignExtended(high)))
    BY <2>1, LeftBits, LowBits, Subsets
  <2>3. ASSUME NEW b \in Nat, b < 16
        PROVE  b \in SignExtended(low) <=> (b \in y /\ b < 8) \/ (b >= 8 /\ 7 \in y)
    BY <1>4, <2>3 DEF SignExtended
  <2>4. ASSUME NEW b \in Nat, b >= 8, b < 16
        PROVE  b - 8 \in SignExtended(high) <=> b \in y
    <3>1. b - 8 \in Nat /\ b - 8 + 8 = b /\ b - 8 < 8 /\ b - 8 \notin 8..15
      BY <2>4
    <3>. QED
      BY <1>4, <3>1 DEF SignExtended
  <2>5. ASSUME NEW b \in Nat
        PROVE  b \in z <=> b \in y \/ (7 \in y /\ b \in 8..15)
    <3>1. CASE b < 8
      BY <2>2, <2>3, <3>1
    <3>2. CASE b >= 8 /\ b < 16
      BY <2>2, <2>3, <2>4, <3>2
    <3>3. CASE b >= 16
      BY <1>1, <2>2, <3>3
    <3>. QED
      BY <3>1, <3>2, <3>3
  <2>6. z \in SUBSET Nat /\ y \in SUBSET Nat /\ 8..15 \in SUBSET Nat
    BY <1>1, <2>1, Subsets DEF Low
  <2>. HIDE DEF z
  <2>. QED
    BY <2>5, <2>6
<1>6. DecodeLength(code, 16) = Swap(z, 2)
  BY <1>3 DEF DecodeLength
<1>. HIDE DEF z
<1>7. CASE 7 \in y
  BY <1>1, <1>2, <1>5, <1>6, <1>7, SwapUnion, HighByteSwapped DEF code
<1>8. CASE 7 \notin y
  <2>1. z = y
    BY <1>5, <1>8
  <2>. QED
    BY <1>1, <1>2, <1>6, <1>8, <2>1 DEF code
<1>. QED
  BY <1>7, <1>8

\* Masking twice with one mask gives the bytes back.
THEOREM MaskTwice ==
  ASSUME NEW data \in Seq(Byte), NEW mask \in [1..4 -> Byte]
  PROVE  Masked(Masked(data, mask), mask) = data
<1>. DEFINE m(i) == mask[((i - 1) % 4) + 1]
            once == Masked(data, mask)
<1>1. once = [i \in 1..Len(data) |-> (data[i] \ m(i)) \cup (m(i) \ data[i])]
  BY DEF Masked
<1>. HIDE DEF m, once
<1>2. Len(once) = Len(data) /\ Len(data) \in Nat
  BY <1>1
<1>3. Masked(once, mask) = [i \in 1..Len(once) |-> (once[i] \ m(i)) \cup (m(i) \ once[i])]
  BY DEF Masked, m
<1>4. ASSUME NEW i \in 1..Len(data) PROVE (once[i] \ m(i)) \cup (m(i) \ once[i]) = data[i]
  <2>1. once[i] = (data[i] \ m(i)) \cup (m(i) \ data[i])
    BY <1>1
  <2>. QED
    BY <2>1
<1>5. Masked(once, mask) = [i \in 1..Len(data) |-> data[i]]
  BY <1>2, <1>3, <1>4
<1>. QED
  BY <1>5 DEF once

-----------------------------------------------------------------------------
(* base64. *)

\* A bit of what is shifted back after it was cut and shifted.
LEMMA UpAgain ==
  ASSUME NEW x \in SUBSET Nat, NEW k \in Nat, NEW n \in Nat, NEW b \in Nat
  PROVE  b \in ShiftLeft(Low(ShiftRight(x, k), n), k) <=> b \in x /\ b >= k /\ b < n + k
<1>1. b >= k => b - k \in Nat /\ b - k + k = b
  OBVIOUS
<1>2. b \in ShiftLeft(Low(ShiftRight(x, k), n), k) <=> b >= k /\ b - k \in Low(ShiftRight(x, k), n)
  BY Subsets, LeftBits
<1>3. b - k \in Low(ShiftRight(x, k), n) <=> b - k \in ShiftRight(x, k) /\ b - k < n
  BY Subsets, LowBits
<1>4. b >= k => (b - k \in ShiftRight(x, k) <=> b \in x)
  BY <1>1, RightBits
<1>. QED
  BY <1>2, <1>3, <1>4

\* Three bytes come back from their four letters.
THEOREM SextetsKept ==
  ASSUME NEW b \in [1..3 -> Byte]
  PROVE  \A i \in 1..3 : Octets(Sextets(b))[i] = b[i]
<1>. DEFINE x == b[1]  y == b[2]  z == b[3]
            s1 == ShiftRight(x, 2)
            s2 == ShiftLeft(Low(x, 2), 4) \cup ShiftRight(y, 4)
            s3 == ShiftLeft(Low(y, 4), 2) \cup ShiftRight(z, 6)
            s4 == Low(z, 6)
            o1 == ShiftLeft(Low(s1, 6), 2) \cup ShiftRight(s2 \cap {4, 5}, 4)
            o2 == ShiftLeft(Low(s2, 4), 4) \cup ShiftRight(s3 \cap (2..5), 2)
            o3 == ShiftLeft(Low(s3, 2), 6) \cup s4
<1>1. /\ Sextets(b) = <<s1, s2, s3, s4>>
      /\ Octets(Sextets(b)) = <<o1, o2, o3>>
  BY DEF Sextets, Octets
<1>2. /\ x \in SUBSET (0..7) /\ y \in SUBSET (0..7) /\ z \in SUBSET (0..7)
      /\ x \in SUBSET Nat /\ y \in SUBSET Nat /\ z \in SUBSET Nat
  BY DEF Byte
<1>. HIDE DEF x, y, z
<1>3. /\ s1 \in SUBSET Nat /\ s2 \in SUBSET Nat /\ s3 \in SUBSET Nat
      /\ s2 \cap {4, 5} \in SUBSET Nat /\ s3 \cap (2..5) \in SUBSET Nat
      /\ Low(x, 2) \in SUBSET Nat /\ Low(y, 4) \in SUBSET Nat /\ s4 \in SUBSET Nat
      /\ Low(s1, 6) \in SUBSET Nat /\ Low(s2, 4) \in SUBSET Nat /\ Low(s3, 2) \in SUBSET Nat
  <2>1. /\ Low(x, 2) \in SUBSET Nat /\ Low(y, 4) \in SUBSET Nat /\ s4 \in SUBSET Nat
        /\ s1 \in SUBSET Nat /\ ShiftRight(y, 4) \in SUBSET Nat /\ ShiftRight(z, 6) \in SUBSET Nat
    BY <1>2, Subsets
  <2>2. s2 \in SUBSET Nat /\ s3 \in SUBSET Nat
    BY <2>1, Subsets
  <2>. HIDE DEF s1, s2, s3
  <2>. QED
    BY <2>1, <2>2, Subsets
<1>4. ASSUME NEW t \in Nat
      PROVE  /\ t \in s2 <=> (t >= 4 /\ t - 4 \in x /\ t - 4 < 2) \/ t + 4 \in y
             /\ t \in s3 <=> (t >= 2 /\ t - 2 \in y /\ t - 2 < 4) \/ t + 6 \in z
             /\ t \in s4 <=> t \in z /\ t < 6
  BY <1>2, <1>3, LowBits, LeftBits, RightBits
<1>5. ASSUME NEW t \in Nat
      PROVE  /\ t \in o1 <=> t \in x
             /\ t \in o2 <=> t \in y
             /\ t \in o3 <=> t \in z
  <2>0. t + 4 \in Nat /\ t + 2 \in Nat /\ (t >= 4 => t - 4 \in Nat) /\ (t >= 6 => t - 6 \in Nat)
        /\ t + 4 - 4 = t /\ t + 2 - 2 = t /\ (t >= 4 => t - 4 + 4 = t) /\ (t >= 6 => t - 6 + 6 = t)
    OBVIOUS
  <2>1. t \in o1 <=> t \in x
    <3>1. t \in ShiftLeft(Low(s1, 6), 2) <=> t \in x /\ t >= 2 /\ t < 6 + 2
      BY <1>2, UpAgain
    <3>2. t \in ShiftRight(s2 \cap {4, 5}, 4) <=> t + 4 \in s2 /\ t + 4 \in {4, 5}
      BY <1>3, RightBits
    <3>3. t + 4 + 4 \notin y
      BY <1>2
    <3>4. t + 4 \in s2 <=> t \in x /\ t < 2
      BY <1>4, <2>0, <3>3
    <3>5. t \in x => t < 8
      BY <1>2
    <3>. HIDE DEF s1, s2
    <3>. QED
      BY <3>1, <3>2, <3>4, <3>5
  <2>2. t \in o2 <=> t \in y
    <3>1. t \in ShiftLeft(Low(s2, 4), 4) <=> t >= 4 /\ t - 4 \in s2 /\ t - 4 < 4
      <4>. HIDE DEF s2
      <4>. QED
        BY <1>3, LeftBits, LowBits
    <3>2. t >= 4 /\ t - 4 < 4 => (t - 4 \in s2 <=> t \in y)
      <4>. HIDE DEF s2
      <4>. QED
        BY <1>4, <2>0
    <3>3. t \in ShiftRight(s3 \cap (2..5), 2) <=> t + 2 \in s3 /\ t + 2 \in 2..5
      BY <1>3, RightBits
    <3>4. t + 2 + 6 \notin z
      BY <1>2
    <3>5. t + 2 \in s3 <=> t \in y /\ t < 4
      BY <1>4, <2>0, <3>4
    <3>6. t \in y => t < 8
      BY <1>2
    <3>. HIDE DEF s2, s3
    <3>. QED
      BY <3>1, <3>2, <3>3, <3>5, <3>6
  <2>3. t \in o3 <=> t \in z
    <3>1. t \in ShiftLeft(Low(s3, 2), 6) <=> t >= 6 /\ t - 6 \in s3 /\ t - 6 < 2
      <4>. HIDE DEF s3
      <4>. QED
        BY <1>3, LeftBits, LowBits
    <3>2. t >= 6 /\ t - 6 < 2 => (t - 6 \in s3 <=> t \in z)
      <4>. HIDE DEF s3
      <4>. QED
        BY <1>4, <2>0
    <3>3. t \in z => t < 8
      BY <1>2
    <3>. HIDE DEF s3, s4
    <3>. QED
      BY <1>4, <3>1, <3>2, <3>3
  <2>. HIDE DEF o1, o2, o3
  <2>. QED
    BY <2>1, <2>2, <2>3
<1>6. o1 \in SUBSET Nat /\ o2 \in SUBSET Nat /\ o3 \in SUBSET Nat
  <2>. HIDE DEF s1, s2, s3, s4
  <2>. QED
    BY <1>3, Subsets
<1>. HIDE DEF o1, o2, o3
<1>7. o1 = x /\ o2 = y /\ o3 = z
  BY <1>2, <1>5, <1>6
<1>. QED
  BY <1>1, <1>7 DEF x, y, z

-----------------------------------------------------------------------------
(* base64: what a cut string of letters decodes to. *)

\* Where letter 4 * h + q and byte 3 * h + r stand.
LEMMA InFours ==
  ASSUME NEW h \in Nat, NEW q \in 1..4
  PROVE  (4 * h + q - 1) \div 4 = h /\ (4 * h + q - 1) % 4 = q - 1
OBVIOUS

LEMMA InThrees ==
  ASSUME NEW j \in Nat \ {0}
  PROVE  \E h \in Nat : \E r \in 1..3 :
           j = 3 * h + r /\ (j - 1) \div 3 = h /\ (j - 1) % 3 = r - 1
<1>. DEFINE h == (j - 1) \div 3  r == ((j - 1) % 3) + 1
<1>1. j - 1 \in Nat
  OBVIOUS
<1>2. h \in Nat /\ r \in 1..3 /\ j = 3 * h + r
  BY <1>1
<1>. QED
  BY <1>2

\* A byte takes two letters: those that stand where it does and one further.
LEMMA OctetsAgree ==
  ASSUME NEW s, NEW t, NEW r \in 1..3, s[r] = t[r], s[r + 1] = t[r + 1]
  PROVE  Octets(s)[r] = Octets(t)[r]
<1>1. CASE r = 1
  BY <1>1 DEF Octets
<1>2. CASE r = 2
  BY <1>2 DEF Octets
<1>3. CASE r = 3
  BY <1>3 DEF Octets
<1>. QED
  BY <1>1, <1>2, <1>3

LEMMA InGroup ==
  ASSUME NEW seq, NEW width \in Nat, NEW h \in Nat, NEW fill, NEW i \in 1..width
  PROVE  Group(seq, width, h + 1, fill)[i] =
           IF width * h + i <= Len(seq) THEN seq[width * h + i] ELSE fill
<1>1. h + 1 - 1 = h
  OBVIOUS
<1>. QED
  BY <1>1 DEF Group

LEMMA BytesInGroup ==
  ASSUME NEW msg \in Seq(Byte), NEW h \in Nat
  PROVE  Group(msg, 3, h + 1, {}) \in [1..3 -> Byte]
<1>1. ASSUME NEW i \in 1..3 PROVE Group(msg, 3, h + 1, {})[i] \in Byte
  <2>1. 3 * h + i <= Len(msg) => msg[3 * h + i] \in Byte
    OBVIOUS
  <2>2. {} \in Byte
    BY DEF Byte
  <2>. QED
    BY <2>1, <2>2, InGroup
<1>2. Group(msg, 3, h + 1, {}) = [i \in 1..3 |-> Group(msg, 3, h + 1, {})[i]]
  BY DEF Group
<1>. QED
  BY <1>1, <1>2

LEMMA LettersOf ==
  ASSUME NEW msg \in Seq(Byte)
  PROVE  /\ Base64Encode(msg) \in Seq(SUBSET Nat)
         /\ Len(Base64Encode(msg)) = (4 * Len(msg) + 2) \div 3
<1>. DEFINE n == (4 * Len(msg) + 2) \div 3
            b(k) == Group(msg, 3, (k - 1) \div 4 + 1, {})
<1>1. n \in Nat
  OBVIOUS
<1>2. ASSUME NEW k \in 1..n PROVE Sextets(b(k))[((k - 1) % 4) + 1] \in SUBSET Nat
  <2>1. b(k) \in [1..3 -> SUBSET Nat]
    <3>1. (k - 1) \div 4 \in Nat
      OBVIOUS
    <3>2. b(k) \in [1..3 -> Byte]
      BY <3>1, BytesInGroup
    <3>. QED
      BY <3>2 DEF Byte
  <2>. DEFINE c == b(k)  i == ((k - 1) % 4) + 1
  <2>2. c[1] \in SUBSET Nat /\ c[2] \in SUBSET Nat /\ c[3] \in SUBSET Nat
    BY <2>1
  <2>3. i \in 1..4
    BY <1>1
  <2>. HIDE DEF c, i
  <2>4. /\ Low(c[1], 2) \in SUBSET Nat /\ Low(c[2], 4) \in SUBSET Nat
        /\ ShiftRight(c[1], 2) \in SUBSET Nat /\ ShiftRight(c[2], 4) \in SUBSET Nat
        /\ ShiftRight(c[3], 6) \in SUBSET Nat /\ Low(c[3], 6) \in SUBSET Nat
    BY <2>2, Subsets
  <2>5. /\ ShiftLeft(Low(c[1], 2), 4) \in SUBSET Nat
        /\ ShiftLeft(Low(c[2], 4), 2) \in SUBSET Nat
    BY <2>4, Subsets
  <2>6. Sextets(c)[i] \in SUBSET Nat
    BY <2>3, <2>4, <2>5 DEF Sextets
  <2>. QED
    BY <2>6 DEF c, i
<1>3. Base64Encode(msg) = [k \in 1..n |-> Sextets(b(k))[((k - 1) % 4) + 1]]
  BY DEF Base64Encode
<1>. HIDE DEF n, b
<1>4. Base64Encode(msg) \in Seq(SUBSET Nat) /\ Len(Base64Encode(msg)) = n
  BY <1>1, <1>2, <1>3
<1>. QED
  BY <1>4 DEF n

LEMMA ByteSeq ==
  ASSUME NEW n \in Nat, NEW f \in [1..n -> Byte]
  PROVE  f \in Seq(Byte) /\ Len(f) = n
  OBVIOUS

\* What base64 decodes from the beginning of a text's letters is the beginning of
\* the text: a byte comes as soon as its letters are there, and with all letters
\* the whole text, whatever is left over by groups of three.
THEOREM Base64RoundTrip ==
  ASSUME NEW msg \in Seq(Byte), NEW k \in 0..Len(Base64Encode(msg)), NEW letters \in Seq(SUBSET Nat),
         Len(letters) = k, \A i \in 1..k : letters[i] = Base64Encode(msg)[i]
  PROVE  LET text == Base64Decode(letters) IN
         /\ text \in Seq(Byte) /\ Len(text) <= Len(msg)
         /\ \A j \in 1..Len(text) : text[j] = msg[j]
         /\ k = Len(Base64Encode(msg)) => text = msg
<1>. DEFINE n == (3 * k) \div 4
            L == Len(msg)
            letter == Base64Encode(msg)
            s(h) == Group(letters, 4, h + 1, 0..7)
            b(h) == Group(msg, 3, h + 1, {})
            text == Base64Decode(letters)
<1>1. /\ L \in Nat /\ Len(letter) = (4 * L + 2) \div 3 /\ Len(letter) \in Nat /\ k \in Nat
  BY LettersOf
<1>2. n \in Nat /\ n <= L /\ (k = Len(letter) => n = L)
  BY <1>1
<1>3. text = [j \in 1..n |-> Octets(s((j - 1) \div 3))[((j - 1) % 3) + 1]]
  BY DEF Base64Decode
<1>4. ASSUME NEW j \in 1..n PROVE text[j] = msg[j]
  <2>1. j \in Nat \ {0} /\ j <= L
    BY <1>1, <1>2
  <2>2. PICK h \in Nat, r \in 1..3 : j = 3 * h + r /\ (j - 1) \div 3 = h /\ (j - 1) % 3 = r - 1
    BY <2>1, InThrees
  <2>3. ASSUME NEW q \in {r, r + 1}
        PROVE  s(h)[q] = Sextets(b(h))[q]
    <3>1. q \in 1..4 /\ 4 * h + q \in 1..k
      BY <1>1, <1>2, <2>2
    <3>2. s(h)[q] = letters[4 * h + q]
      <4>1. q \in 1..4 /\ 4 \in Nat
        BY <3>1
      <4>2. s(h)[q] = IF 4 * h + q <= Len(letters) THEN letters[4 * h + q] ELSE 0..7
        <5>1. h + 1 - 1 = h
          OBVIOUS
        <5>. QED
          BY <4>1, <5>1 DEF Group
      <4>. QED
        BY <3>1, <4>2
    <3>3. letters[4 * h + q] = letter[4 * h + q]
      BY <3>1
    <3>4. 4 * h + q \in 1..((4 * Len(msg) + 2) \div 3)
      BY <1>1, <3>1
    <3>5. letter[4 * h + q] = Sextets(Group(msg, 3, (4 * h + q - 1) \div 4 + 1, {}))[((4 * h + q - 1) % 4) + 1]
      BY <3>4 DEF Base64Encode
    <3>6. (4 * h + q - 1) \div 4 = h /\ ((4 * h + q - 1) % 4) + 1 = q
      BY <3>1, InFours
    <3>. QED
      BY <3>2, <3>3, <3>5, <3>6
  <2>4. Octets(s(h))[r] = Octets(Sextets(b(h)))[r]
    <3>. HIDE DEF s, b
    <3>. QED
      BY <2>3, OctetsAgree
  <2>5. b(h) \in [1..3 -> Byte]
    BY BytesInGroup
  <2>6. Octets(Sextets(b(h)))[r] = b(h)[r]
    <3>. HIDE DEF b
    <3>. QED
      BY <2>5, SextetsKept
  <2>7. b(h)[r] = msg[j]
    BY <2>1, <2>2, InGroup
  <2>8. text[j] = Octets(s(h))[r]
    <3>1. (j - 1) \div 3 = h /\ ((j - 1) % 3) + 1 = r
      <4>1. (j - 1) \div 3 = h /\ (j - 1) % 3 = r - 1
        BY <2>2, Zenon
      <4>2. (r - 1) + 1 = r
        OBVIOUS
      <4>. QED
        BY <4>1, <4>2, Zenon
    <3>. HIDE DEF s, n, text
    <3>2. text[j] = Octets(s((j - 1) \div 3))[((j - 1) % 3) + 1]
      BY <1>3
    <3>. QED
      BY <3>1, <3>2
  <2>. QED
    BY <2>4, <2>6, <2>7, <2>8
<1>5. ASSUME NEW j \in 1..n PROVE msg[j] \in Byte
  BY <1>1, <1>2
<1>. HIDE DEF n, L, letter, s, b, text
<1>6. text \in Seq(Byte) /\ Len(text) = n
  <2>1. DOMAIN text = 1..n
    BY <1>3
  <2>2. text = [j \in 1..n |-> msg[j]]
    BY <1>3, <1>4
  <2>3. [j \in 1..n |-> msg[j]] \in [1..n -> Byte]
    BY <1>5
  <2>. QED
    BY <1>2, <2>2, <2>3, ByteSeq
<1>7. k = Len(letter) => text = msg
  BY <1>2, <1>4, <1>6 DEF L
<1>. QED
  BY <1>2, <1>4, <1>6, <1>7 DEF L, letter, text

-----------------------------------------------------------------------------
(* What the headers of lengths are made of. *)

\* What a varint is made of: every byte but the last says that another follows.
LEMMA VarintBytes ==
  ASSUME NEW x \in SUBSET (0..63)
  PROVE  /\ EncodeVarint(x) \in Seq(SUBSET Nat) /\ Len(EncodeVarint(x)) \in 1..10
         /\ \A i \in 1..(Len(EncodeVarint(x)) - 1) : 7 \in EncodeVarint(x)[i]
         /\ 7 \notin EncodeVarint(x)[Len(EncodeVarint(x))]
<1>. DEFINE y == Swap(x, 8)
            n == VarintSize(y)
            Part(i) == Low(ShiftRight(y, 7 * (i - 1)), 7)
<1>1. y \in SUBSET (0..63)
  <2>1. x \in SUBSET (0..(8 * 8 - 1))
    OBVIOUS
  <2>2. Swap(x, 8) \in SUBSET (0..(8 * 8 - 1))
    BY <2>1, SwapTwice
  <2>. QED
    BY <2>2
<1>. HIDE DEF y
<1>2. n \in 1..10
  BY <1>1, VarintFits
<1>3. EncodeVarint(x) = [i \in 1..n |-> Part(i) \cup (IF i < n THEN {7} ELSE {})]
  BY DEF EncodeVarint, y
<1>. HIDE DEF n
<1>4. ASSUME NEW i \in 1..n PROVE Part(i) \cup (IF i < n THEN {7} ELSE {}) \in SUBSET Nat
  <2>1. i - 1 \in Nat /\ 7 * (i - 1) \in Nat /\ y \in SUBSET Nat
    BY <1>1, <1>2
  <2>2. ShiftRight(y, 7 * (i - 1)) \in SUBSET Nat
    BY <2>1, Subsets
  <2>3. Part(i) \in SUBSET Nat
    BY <2>2, Subsets
  <2>. QED
    BY <2>3
<1>5. EncodeVarint(x) \in Seq(SUBSET Nat) /\ Len(EncodeVarint(x)) = n
  <2>. HIDE DEF Part
  <2>. QED
    BY <1>2, <1>3, <1>4
<1>6. ASSUME NEW i \in 1..(n - 1) PROVE 7 \in EncodeVarint(x)[i]
  <2>1. i \in 1..n /\ i < n
    BY <1>2
  <2>2. EncodeVarint(x)[i] = Part(i) \cup {7}
    BY <1>3, <2>1
  <2>. QED
    BY <2>2
<1>7. 7 \notin EncodeVarint(x)[n]
  <2>1. n \in 1..n /\ ~(n < n) /\ 7 * (n - 1) \in Nat /\ y \in SUBSET Nat
    BY <1>1, <1>2
  <2>2. EncodeVarint(x)[n] = Part(n) \cup {}
    BY <1>3, <2>1
  <2>3. ShiftRight(y, 7 * (n - 1)) \in SUBSET Nat
    BY <2>1, Subsets
  <2>4. 7 \notin Part(n)
    BY <2>3, LowBits
  <2>. QED
    BY <2>2, <2>4
<1>. QED
  BY <1>2, <1>5, <1>6, <1>7

LEMMA FixedBytes ==
  ASSUME NEW x \in SUBSET Nat
  PROVE  EncodeFixed(x) \in Seq(SUBSET Nat) /\ Len(EncodeFixed(x)) = 4
<1>. DEFINE y == Swap(Low(x, 32), 4)
<1>1. y \in SUBSET Nat
  <2>1. Low(x, 32) \in SUBSET (0..(8 * 4 - 1))
    BY LowIn
  <2>2. y \in SUBSET (0..(8 * 4 - 1))
    BY <2>1, SwapTwice
  <2>. QED
    BY <2>2
<1>2. EncodeFixed(x) = [i \in 1..4 |-> ByteOf(y, i)]
  BY DEF EncodeFixed
<1>. HIDE DEF y
<1>3. ASSUME NEW i \in 1..4 PROVE ByteOf(y, i) \in SUBSET Nat
  <2>1. 8 * (i - 1) \in Nat
    OBVIOUS
  <2>2. ShiftRight(y, 8 * (i - 1)) \in SUBSET Nat
    BY <1>1, <2>1, Subsets
  <2>. QED
    BY <2>2, Subsets DEF ByteOf
<1>. QED
  BY <1>2, <1>3
-----------------------------------------------------------------------------
(* The lengths that decode reads as they were written. *)

\* 2^b, kept as it is: the provers know only the powers of numbers.
TwoTo(b) == 2^b

LEMMA LowPowers ==
  /\ TwoTo(0) = 1 /\ TwoTo(1) = 2 /\ TwoTo(2) = 4 /\ TwoTo(3) = 8 /\ TwoTo(4) = 16
  /\ TwoTo(5) = 32 /\ TwoTo(6) = 64 /\ TwoTo(7) = 128 /\ TwoTo(15) = 32768
BY DEF TwoTo

LEMMA HighPowers ==
  /\ \A b \in 7..15 : TwoTo(b) >= 128 /\ TwoTo(b) \in Nat
  /\ \A b \in 16..30 : TwoTo(b) >= 65536 /\ TwoTo(b) \in Nat
<1>1. /\ TwoTo(7) = 128 /\ TwoTo(8) = 256 /\ TwoTo(9) = 512 /\ TwoTo(10) = 1024
      /\ TwoTo(11) = 2048 /\ TwoTo(12) = 4096 /\ TwoTo(13) = 8192 /\ TwoTo(14) = 16384
      /\ TwoTo(15) = 32768
  BY DEF TwoTo
<1>2. /\ TwoTo(16) = 65536 /\ TwoTo(17) = 131072 /\ TwoTo(18) = 262144
      /\ TwoTo(19) = 524288 /\ TwoTo(20) = 1048576 /\ TwoTo(21) = 2097152
      /\ TwoTo(22) = 4194304 /\ TwoTo(23) = 8388608 /\ TwoTo(24) = 16777216
      /\ TwoTo(25) = 33554432 /\ TwoTo(26) = 67108864 /\ TwoTo(27) = 134217728
      /\ TwoTo(28) = 268435456 /\ TwoTo(29) = 536870912 /\ TwoTo(30) = 1073741824
  BY DEF TwoTo
<1>3. ASSUME NEW b \in 7..15 PROVE TwoTo(b) >= 128 /\ TwoTo(b) \in Nat
  BY <1>1
<1>4. ASSUME NEW b \in 16..30 PROVE TwoTo(b) >= 65536 /\ TwoTo(b) \in Nat
  BY <1>2
<1>. QED
  BY <1>3, <1>4

LEMMA DivSmall == ASSUME NEW n \in Nat, NEW d \in Nat, n < d PROVE n \div d = 0
OBVIOUS

LEMMA BitsOf ==
  ASSUME NEW n \in Nat
  PROVE  \A b : b \in Bits(n) <=> b \in 0..30 /\ (n \div TwoTo(b)) % 2 = 1
BY DEF Bits, TwoTo

\* Small numbers have no high bits.
LEMMA BitsSmall ==
  ASSUME NEW n \in Nat
  PROVE  /\ n < 128 => Bits(n) \in SUBSET (0..6)
         /\ n < 65536 => Bits(n) \in SUBSET (0..15)
<1>1. ASSUME NEW b \in Bits(n), b \in 16..30 PROVE n >= 65536
  <2>1. TwoTo(b) \in Nat /\ TwoTo(b) >= 65536
    BY <1>1, HighPowers
  <2>2. n \div TwoTo(b) # 0
    BY BitsOf
  <2>. QED
    BY <2>1, <2>2, DivSmall
<1>2. ASSUME NEW b \in Bits(n), b \in 7..30 PROVE n >= 128
  <2>1. TwoTo(b) \in Nat /\ TwoTo(b) >= 128
    <3>1. b \in 7..15 \/ b \in 16..30
      BY <1>2
    <3>. QED
      BY <3>1, HighPowers
  <2>2. n \div TwoTo(b) # 0
    BY BitsOf
  <2>. QED
    BY <2>1, <2>2, DivSmall
<1>3. \A b \in Bits(n) : b \in 0..30
  BY BitsOf
<1>. QED
  BY <1>1, <1>2, <1>3

\* Bit 15 of a number of 16 bits, and what a low byte of ones is.
LEMMA BitsHigh ==
  ASSUME NEW n \in Nat, n < 65536, 15 \in Bits(n)
  PROVE  n >= 32768 /\ (n % 256 = 255 => 0..7 \subseteq Bits(n))
<1>1. (n \div 32768) % 2 = 1
  BY BitsOf, LowPowers
<1>2. ASSUME n % 256 = 255, NEW b \in 0..7 PROVE b \in Bits(n)
  <2>1. /\ (n \div 1) % 2 = 1 /\ (n \div 2) % 2 = 1 /\ (n \div 4) % 2 = 1
        /\ (n \div 8) % 2 = 1 /\ (n \div 16) % 2 = 1 /\ (n \div 32) % 2 = 1
        /\ (n \div 64) % 2 = 1 /\ (n \div 128) % 2 = 1
    BY <1>2
  <2>2. TwoTo(b) \in {1, 2, 4, 8, 16, 32, 64, 128}
    <3>1. b = 0 \/ b = 1 \/ b = 2 \/ b = 3 \/ b = 4 \/ b = 5 \/ b = 6 \/ b = 7
      OBVIOUS
    <3>. QED
      BY <3>1, LowPowers
  <2>3. \A d \in {1, 2, 4, 8, 16, 32, 64, 128} : (n \div d) % 2 = 1
    BY <2>1
  <2>4. (n \div TwoTo(b)) % 2 = 1
    BY <2>2, <2>3
  <2>. QED
    BY <2>4, BitsOf
<1>. QED
  BY <1>1, <1>2

\* A length is decoded as it was encoded, but for those that are misread.
THEOREM LengthKept ==
  ASSUME NEW n \in Nat, ~Misread(n)
  PROVE  DecodeLength(EncodeLength(Bits(n), Form(n)), Form(n)) = Bits(n)
<1>. DEFINE x == Bits(n)
<1>1. x \in SUBSET (0..30)
  BY BitsOf
<1>2. CASE n < 126
  <2>1. Form(n) = 7 /\ x \in SUBSET (0..6)
    BY <1>2, BitsSmall DEF Form
  <2>2. Low(x, 7) = x /\ Low(Low(x, 7), 7) = x
    BY <2>1 DEF Low
  <2>. HIDE DEF x
  <2>3. EncodeLength(x, 7) = <<Low(x, 7)>>
    BY DEF EncodeLength
  <2>4. DecodeLength(<<Low(x, 7)>>, 7) = Low(Low(x, 7), 7)
    BY DEF DecodeLength
  <2>. QED
    BY <2>1, <2>2, <2>3, <2>4 DEF x
<1>3. CASE n >= 126 /\ n < 65536
  <2>1. Form(n) = 16 /\ x \in SUBSET (0..15)
    BY <1>3, BitsSmall DEF Form
  <2>2. DecodeLength(EncodeLength(x, 16), 16) = x \cup (IF 15 \in x THEN 0..7 ELSE {})
    BY <2>1, ShortLengthSignExtended
  <2>3. 15 \in x => 0..7 \subseteq x
    <3>1. ASSUME 15 \in x PROVE n >= 32768 /\ (n % 256 = 255 => 0..7 \subseteq x)
      BY <1>3, <3>1, BitsHigh
    <3>. QED
      BY <1>3, <3>1 DEF Misread
  <2>. HIDE DEF x
  <2>4. DecodeLength(EncodeLength(x, 16), 16) = x
    BY <2>2, <2>3
  <2>. QED
    BY <2>1, <2>4 DEF x
<1>4. CASE n >= 65536
  <2>1. Form(n) = 64 /\ x \in SUBSET (0..63)
    BY <1>1, <1>4 DEF Form
  <2>. QED
    BY <2>1, LongLengthKept
<1>. QED
  BY <1>2, <1>3, <1>4
-----------------------------------------------------------------------------
(* The messages on the wire.  Num numbers the units of s with the messages   *)
(* there were up to each of them, those that have been received included:    *)
(* the frame of a message carries the message of its number.                 *)

\* A frame of end p that is meant for a message, and one that is.
Meant(p, u)     == IsText(u) /\ (p = "client" => u.mask # << >>)
IsMessage(p, u) == u.kind = "frame" /\ Meant(p, u) /\ u.whole

\* Frame u of end p carries message i of those in m; ag are those that were sent
\* again.
Carried(p, u, i, m, ag) ==
  /\ i \in 1..Len(m) /\ u.n = m[i].n
  /\ Unmasked(Peer(p), u) = m[i].text \/ (p = "client" /\ i \in ag)

Numbers(p, s, g, num) ==
  /\ num \in [0..Len(s) -> Nat] /\ num[0] = g
  /\ \A j \in 1..Len(s) : num[j] = IF IsMessage(p, s[j]) THEN num[j - 1] + 1 ELSE num[j - 1]

\* The reader, who has g messages, is in step with the writer of m; all of m has
\* been written to the wire.
InStep(p, s, g, m, ag, all) ==
  \E num \in [0..Len(s) -> Nat] :
    /\ Numbers(p, s, g, num)
    /\ \A j \in 0..Len(s) : num[j] <= Len(m)
    /\ \A j \in 1..Len(s) : IsMessage(p, s[j]) => Carried(p, s[j], num[j], m, ag)
    /\ all => num[Len(s)] = Len(m)

LEMMA CarriedStill ==
  ASSUME NEW T, NEW m \in Seq(T), NEW x \in T, NEW p, NEW u, NEW i, NEW ag, NEW ag2,
         ag \subseteq ag2, Carried(p, u, i, m, ag)
  PROVE  Carried(p, u, i, Append(m, x), ag2)
<1>1. /\ Len(Append(m, x)) = Len(m) + 1 /\ Len(m) \in Nat
      /\ \A j \in 1..Len(m) : Append(m, x)[j] = m[j]
  OBVIOUS
<1>. DEFINE m2 == Append(m, x)
<1>. HIDE DEF m2
<1>2. i \in 1..Len(m) /\ i \in 1..Len(m2) /\ m2[i] = m[i]
  BY <1>1 DEF Carried, m2
<1>3. Carried(p, u, i, m2, ag2)
  BY <1>2 DEF Carried
<1>. QED
  BY <1>3 DEF m2

\* A unit that is no message is written, or nothing but more messages.
LEMMA OtherWritten ==
  ASSUME NEW U, NEW s \in Seq(U), NEW u \in U, NEW p, ~IsMessage(p, u),
         NEW g \in Nat, NEW m, NEW ag, NEW all, InStep(p, s, g, m, ag, all)
  PROVE  InStep(p, Append(s, u), g, m, ag, all)
<1>. DEFINE t == Append(s, u)
            l == Len(s)
<1>1. l \in Nat /\ Len(t) = l + 1 /\ t[l + 1] = u /\ \A j \in 1..l : t[j] = s[j]
  OBVIOUS
<1>. HIDE DEF t, l
<1>2. PICK num \in [0..l -> Nat] :
        /\ Numbers(p, s, g, num)
        /\ \A j \in 0..l : num[j] <= Len(m)
        /\ \A j \in 1..l : IsMessage(p, s[j]) => Carried(p, s[j], num[j], m, ag)
        /\ all => num[l] = Len(m)
  BY DEF InStep, l
<1>. DEFINE num2 == [j \in 0..(l + 1) |-> IF j <= l THEN num[j] ELSE num[l]]
<1>3. num2 \in [0..Len(t) -> Nat] /\ \A j \in 0..l : num2[j] = num[j]
  BY <1>1
<1>4. num2[l + 1] = num[l] /\ l \in 0..l
  BY <1>1
<1>. HIDE DEF num2
<1>5. Numbers(p, t, g, num2)
  <2>1. num2[0] = g
    BY <1>1, <1>2, <1>3 DEF Numbers
  <2>2. ASSUME NEW j \in 1..Len(t)
        PROVE  num2[j] = IF IsMessage(p, t[j]) THEN num2[j - 1] + 1 ELSE num2[j - 1]
    <3>1. CASE j \in 1..l
      <4>1. t[j] = s[j] /\ num2[j] = num[j] /\ num2[j - 1] = num[j - 1]
        BY <1>1, <1>3, <3>1
      <4>. QED
        BY <1>2, <3>1, <4>1 DEF Numbers, l
    <3>2. CASE j = l + 1
      <4>1. t[j] = u /\ num2[j] = num2[j - 1]
        BY <1>1, <1>3, <1>4, <3>2
      <4>. QED
        BY <4>1
    <3>. QED
      BY <1>1, <3>1, <3>2
  <2>. QED
    BY <1>3, <2>1, <2>2 DEF Numbers
<1>6. \A j \in 0..Len(t) : num2[j] <= Len(m)
  BY <1>1, <1>2, <1>3, <1>4
<1>7. ASSUME NEW j \in 1..Len(t), IsMessage(p, t[j]) PROVE Carried(p, t[j], num2[j], m, ag)
  <2>1. j \in 1..l /\ t[j] = s[j]
    BY <1>1, <1>7
  <2>2. num2[j] = num[j]
    BY <1>3, <2>1
  <2>. QED
    BY <1>2, <1>7, <2>1, <2>2
<1>8. all => num2[Len(t)] = Len(m)
  BY <1>1, <1>2, <1>4
<1>9. InStep(p, t, g, m, ag, all)
  BY <1>3, <1>5, <1>6, <1>7, <1>8 DEF InStep
<1>. QED
  BY <1>9 DEF t

\* The frame of the next message is written.
LEMMA MessageWritten ==
  ASSUME NEW U, NEW s \in Seq(U), NEW u \in U, NEW p, IsMessage(p, u),
         NEW T, NEW m \in Seq(T), NEW x \in T, NEW g \in Nat,
         NEW ag, NEW ag2, ag \subseteq ag2, InStep(p, s, g, m, ag, TRUE),
         Carried(p, u, Len(m) + 1, Append(m, x), ag2)
  PROVE  InStep(p, Append(s, u), g, Append(m, x), ag2, TRUE)
<1>. DEFINE t == Append(s, u)
            l == Len(s)
            m2 == Append(m, x)
<1>1. /\ l \in Nat /\ Len(t) = l + 1 /\ t[l + 1] = u /\ \A j \in 1..l : t[j] = s[j]
      /\ Len(m) \in Nat /\ Len(m2) = Len(m) + 1
  OBVIOUS
<1>. HIDE DEF t, l
<1>2. PICK num \in [0..l -> Nat] :
        /\ Numbers(p, s, g, num)
        /\ \A j \in 0..l : num[j] <= Len(m)
        /\ \A j \in 1..l : IsMessage(p, s[j]) => Carried(p, s[j], num[j], m, ag)
        /\ num[l] = Len(m)
  BY DEF InStep, l
<1>. DEFINE num2 == [j \in 0..(l + 1) |-> IF j <= l THEN num[j] ELSE num[l] + 1]
<1>3. num2 \in [0..Len(t) -> Nat] /\ \A j \in 0..l : num2[j] = num[j]
  BY <1>1
<1>4. num2[l + 1] = num[l] + 1 /\ l \in 0..l
  BY <1>1
<1>. HIDE DEF num2
<1>5. Numbers(p, t, g, num2)
  <2>1. num2[0] = g
    BY <1>1, <1>2, <1>3 DEF Numbers
  <2>2. ASSUME NEW j \in 1..Len(t)
        PROVE  num2[j] = IF IsMessage(p, t[j]) THEN num2[j - 1] + 1 ELSE num2[j - 1]
    <3>1. CASE j \in 1..l
      <4>1. t[j] = s[j] /\ num2[j] = num[j] /\ num2[j - 1] = num[j - 1]
        BY <1>1, <1>3, <3>1
      <4>. QED
        BY <1>2, <3>1, <4>1 DEF Numbers, l
    <3>2. CASE j = l + 1
      <4>1. t[j] = u /\ num2[j] = num2[j - 1] + 1
        BY <1>1, <1>3, <1>4, <3>2
      <4>. QED
        BY <4>1
    <3>. QED
      BY <1>1, <3>1, <3>2
  <2>. QED
    BY <1>3, <2>1, <2>2 DEF Numbers
<1>6. \A j \in 0..Len(t) : num2[j] <= Len(m2)
  <2>. HIDE DEF m2
  <2>1. num2[l + 1] <= Len(m2)
    BY <1>1, <1>2, <1>4
  <2>2. ASSUME NEW j \in 0..l PROVE num2[j] <= Len(m2)
    BY <1>1, <1>2, <1>3
  <2>. QED
    BY <1>1, <2>1, <2>2
<1>7. ASSUME NEW j \in 1..Len(t), IsMessage(p, t[j]) PROVE Carried(p, t[j], num2[j], m2, ag2)
  <2>1. CASE j \in 1..l
    <3>1. t[j] = s[j] /\ num2[j] = num[j]
      BY <1>1, <1>3, <2>1
    <3>2. Carried(p, s[j], num[j], m, ag)
      BY <1>2, <1>7, <2>1, <3>1
    <3>. QED
      BY <3>1, <3>2, CarriedStill
  <2>2. CASE j = l + 1
    <3>1. t[j] = u /\ num2[j] = Len(m) + 1
      BY <1>1, <1>2, <1>4, <2>2
    <3>. QED
      BY <3>1
  <2>. QED
    BY <1>1, <2>1, <2>2
<1>8. num2[Len(t)] = Len(m2)
  BY <1>1, <1>2, <1>4
<1>. HIDE DEF m2
<1>9. InStep(p, t, g, m2, ag2, TRUE)
  BY <1>3, <1>5, <1>6, <1>7, <1>8 DEF InStep
<1>. QED
  BY <1>9 DEF t, m2
\* A message is sent that is not written.
LEMMA MessageUnwritten ==
  ASSUME NEW U, NEW s \in Seq(U), NEW T, NEW m \in Seq(T), NEW x \in T,
         NEW p, NEW g \in Nat, NEW ag, NEW ag2, ag \subseteq ag2, InStep(p, s, g, m, ag, FALSE)
  PROVE  InStep(p, s, g, Append(m, x), ag2, FALSE)
<1>. DEFINE m2 == Append(m, x)
<1>1. Len(m) \in Nat /\ Len(m2) = Len(m) + 1 /\ Len(s) \in Nat
  OBVIOUS
<1>2. PICK num \in [0..Len(s) -> Nat] :
        /\ Numbers(p, s, g, num)
        /\ \A j \in 0..Len(s) : num[j] <= Len(m)
        /\ \A j \in 1..Len(s) : IsMessage(p, s[j]) => Carried(p, s[j], num[j], m, ag)
  BY DEF InStep
<1>3. \A j \in 1..Len(s) : IsMessage(p, s[j]) => Carried(p, s[j], num[j], m2, ag2)
  BY <1>2, CarriedStill
<1>. HIDE DEF m2
<1>4. \A j \in 0..Len(s) : num[j] <= Len(m2)
  BY <1>1, <1>2
<1>5. InStep(p, s, g, m2, ag2, FALSE)
  BY <1>2, <1>3, <1>4 DEF InStep
<1>. QED
  BY <1>5 DEF m2

\* The first unit is taken from the wire.
LEMMA UnitTaken ==
  ASSUME NEW U, NEW s \in Seq(U), s # << >>,
         NEW p, NEW g \in Nat, NEW m, NEW ag, NEW all, InStep(p, s, g, m, ag, all)
  PROVE  /\ ~IsMessage(p, Head(s)) => InStep(p, Tail(s), g, m, ag, all)
         /\ IsMessage(p, Head(s)) =>
              InStep(p, Tail(s), g + 1, m, ag, all) /\ Carried(p, Head(s), g + 1, m, ag)
<1>. DEFINE t == Tail(s)
            l == Len(t)
<1>1. /\ l \in Nat /\ Len(s) = l + 1 /\ Head(s) = s[1] /\ \A j \in 1..l : t[j] = s[j + 1]
  OBVIOUS
<1>. HIDE DEF t, l
<1>2. PICK num \in [0..(l + 1) -> Nat] :
        /\ Numbers(p, s, g, num)
        /\ \A j \in 0..(l + 1) : num[j] <= Len(m)
        /\ \A j \in 1..(l + 1) : IsMessage(p, s[j]) => Carried(p, s[j], num[j], m, ag)
        /\ all => num[l + 1] = Len(m)
  BY <1>1 DEF InStep
<1>. DEFINE h == IF IsMessage(p, s[1]) THEN g + 1 ELSE g
            num2 == [j \in 0..l |-> num[j + 1]]
<1>3. num[1] = h
  BY <1>1, <1>2 DEF Numbers
<1>4. num2 \in [0..l -> Nat] /\ \A j \in 0..l : num2[j] = num[j + 1]
  BY <1>1
<1>. HIDE DEF num2, h
<1>5. Numbers(p, t, h, num2)
  <2>1. num2[0] = h
    BY <1>1, <1>3, <1>4
  <2>2. ASSUME NEW j \in 1..l
        PROVE  num2[j] = IF IsMessage(p, t[j]) THEN num2[j - 1] + 1 ELSE num2[j - 1]
    <3>1. /\ j + 1 \in 1..(l + 1) /\ t[j] = s[j + 1] /\ num2[j] = num[j + 1]
          /\ num2[j - 1] = num[(j + 1) - 1]
      BY <1>1, <1>4
    <3>. QED
      BY <1>1, <1>2, <3>1 DEF Numbers
  <2>. QED
    BY <1>4, <2>1, <2>2 DEF Numbers, l
<1>6. \A j \in 0..l : num2[j] <= Len(m)
  BY <1>1, <1>2, <1>4
<1>7. ASSUME NEW j \in 1..l, IsMessage(p, t[j]) PROVE Carried(p, t[j], num2[j], m, ag)
  <2>1. j + 1 \in 1..(l + 1) /\ t[j] = s[j + 1] /\ num2[j] = num[j + 1]
    BY <1>1, <1>4
  <2>. QED
    BY <1>2, <1>7, <2>1
<1>8. all => num2[l] = Len(m)
  BY <1>1, <1>2, <1>4
<1>9. InStep(p, t, h, m, ag, all)
  BY <1>4, <1>5, <1>6, <1>7, <1>8 DEF InStep, l
<1>10. IsMessage(p, s[1]) => Carried(p, s[1], g + 1, m, ag)
  <2>1. 1 \in 1..(l + 1)
    BY <1>1
  <2>. QED
    BY <1>2, <1>3, <2>1 DEF h
<1>. QED
  BY <1>1, <1>9, <1>10 DEF t, h

\* Of what is on the wire, only the first units are left.
LEMMA WireCut ==
  ASSUME NEW U, NEW s \in Seq(U), NEW t \in Seq(U), Len(t) <= Len(s),
         \A j \in 1..Len(t) : t[j] = s[j],
         NEW p, NEW g \in Nat, NEW m, NEW ag, NEW all, InStep(p, s, g, m, ag, all)
  PROVE  InStep(p, t, g, m, ag, FALSE)
<1>1. Len(s) \in Nat /\ Len(t) \in Nat
  OBVIOUS
<1>2. PICK num \in [0..Len(s) -> Nat] :
        /\ Numbers(p, s, g, num)
        /\ \A j \in 0..Len(s) : num[j] <= Len(m)
        /\ \A j \in 1..Len(s) : IsMessage(p, s[j]) => Carried(p, s[j], num[j], m, ag)
  BY DEF InStep
<1>. DEFINE num2 == [j \in 0..Len(t) |-> num[j]]
<1>3. num2 \in [0..Len(t) -> Nat] /\ \A j \in 0..Len(t) : num2[j] = num[j] /\ j \in 0..Len(s)
  BY <1>1
<1>. HIDE DEF num2
<1>4. Numbers(p, t, g, num2)
  <2>1. num2[0] = g
    BY <1>1, <1>2, <1>3 DEF Numbers
  <2>2. ASSUME NEW j \in 1..Len(t)
        PROVE  num2[j] = IF IsMessage(p, t[j]) THEN num2[j - 1] + 1 ELSE num2[j - 1]
    <3>1. j \in 1..Len(s) /\ t[j] = s[j] /\ num2[j] = num[j] /\ num2[j - 1] = num[j - 1]
      <4>1. j \in 1..Len(s) /\ j \in 0..Len(t) /\ j - 1 \in 0..Len(t)
        BY <1>1
      <4>. QED
        BY <1>3, <4>1
    <3>. QED
      BY <1>2, <3>1 DEF Numbers
  <2>. QED
    BY <1>3, <2>1, <2>2 DEF Numbers
<1>5. \A j \in 1..Len(t) : j \in 1..Len(s) /\ j \in 0..Len(t)
  BY <1>1
<1>. QED
  BY <1>2, <1>3, <1>4, <1>5 DEF InStep
-----------------------------------------------------------------------------
(* The types of the session. *)

Messages == [n : Nat, text : Seq(Byte)]

RequestUnits  == [kind : {"request"}, good : BOOLEAN, names : SUBSET Names]
ResponseUnits == [kind : {"response"}, names : SUBSET Names]
BodyUnits     == [kind : {"body"}]
FrameUnits    == [kind : {"frame"}, opcode : Opcodes,
                  mask : {<< >>} \cup [1..4 -> Byte], n : Nat, form : {7, 16, 64},
                  length : {EncodeLength(Bits(n), Form(n)) : n \in Nat},
                  text : Seq(Byte), whole : BOOLEAN]

Units == RequestUnits \cup ResponseUnits \cup BodyUnits \cup FrameUnits

\* The types of what the ends write and read.
WireTypes ==
  /\ setup \in Programs
  /\ pc \in [Ends -> {"start", "asked", "session", "over"}]
  /\ wire \in [Ends -> Seq(Units)]
  /\ lost \in BOOLEAN

\* The types of what the handlers send and receive.
SessionTypes ==
  /\ buffer \in [Ends -> Messages]
  /\ frames \in [Ends -> Nat] /\ \A e \in Ends : frames[e] <= MaxSent[e]
  /\ sent \in [Ends -> Seq(Messages)] /\ \A e \in Ends : Len(sent[e]) <= frames[e]
  /\ again \in [Ends -> SUBSET Nat] /\ \A e \in Ends : again[e] \subseteq 1..Len(sent[e])
  /\ odd \in [Ends -> BOOLEAN]
  /\ got \in [Ends -> Seq(Messages)]
  /\ trouble \in [Ends -> {"none", "phantom", "abort", "astray"}]

LEMMA MaskedType ==
  ASSUME NEW data \in Seq(Byte), NEW mask \in [1..4 -> Byte]
  PROVE  Masked(data, mask) \in Seq(Byte)
<1>. DEFINE m(i) == mask[((i - 1) % 4) + 1]
<1>1. \A i \in 1..Len(data) : ((i - 1) % 4) + 1 \in 1..4
  OBVIOUS
<1>2. \A i \in 1..Len(data) : m(i) \in Byte
  BY <1>1
<1>3. Masked(data, mask) = [i \in 1..Len(data) |-> (data[i] \ m(i)) \cup (m(i) \ data[i])]
  BY DEF Masked
<1>. HIDE DEF m
<1>4. \A i \in 1..Len(data) : (data[i] \ m(i)) \cup (m(i) \ data[i]) \in Byte
  BY <1>2 DEF Byte
<1>5. Len(data) \in Nat
  OBVIOUS
<1>. QED
  BY <1>3, <1>4, <1>5

LEMMA FreshType == ASSUME NEW n \in Lengths PROVE Fresh(n) \in Messages /\ Fresh(n).n = n
<1>1. n \in Nat /\ Len(Text) \in Nat /\ \A i \in 1..Len(Text) : Text[i] \in Byte
  BY WebAssumption
<1>. DEFINE k == IF n < Len(Text) THEN n ELSE Len(Text)
<1>2. k \in Nat /\ k <= Len(Text)
  BY <1>1
<1>. HIDE DEF k
<1>3. SubSeq(Text, 1, k) \in Seq(Byte)
  <2>1. \A i \in 1..k : Text[i] \in Byte
    BY <1>1, <1>2
  <2>. QED
    BY <1>2, <2>1, SubSeqProperties
<1>. QED
  BY <1>1, <1>3 DEF Fresh, Message, Messages, k

\* A frame carries its message and its length.
LEMMA FrameType ==
  ASSUME NEW opcode \in Opcodes, NEW mask \in {<< >>} \cup [1..4 -> Byte],
         NEW message \in Messages
  PROVE  LET u == Frame(opcode, mask, message) IN
         /\ u \in FrameUnits /\ u.opcode = opcode /\ u.whole
         /\ u.n = message.n /\ u.form = Form(u.n)
         /\ u.length = EncodeLength(Bits(u.n), Form(u.n))
         /\ u.mask = mask
         /\ u.text = IF mask = << >> THEN message.text ELSE Masked(message.text, mask)
<1>. DEFINE text == IF mask = << >> THEN message.text ELSE Masked(message.text, mask)
            length == EncodeLength(Bits(message.n), Form(message.n))
            form == Form(message.n)
<1>1. message.n \in Nat /\ message.text \in Seq(Byte)
  BY DEF Messages
<1>2. text \in Seq(Byte)
  BY <1>1, MaskedType
<1>3. form \in {7, 16, 64} /\ length \in {EncodeLength(Bits(n), Form(n)) : n \in Nat}
  BY <1>1 DEF Form
<1>4. Frame(opcode, mask, message) =
        [kind |-> "frame", opcode |-> opcode, mask |-> mask, n |-> message.n,
         form |-> form, length |-> length, text |-> text, whole |-> TRUE]
  BY DEF Frame
<1>5. form = Form(message.n) /\ length = EncodeLength(Bits(message.n), Form(message.n))
  OBVIOUS
<1>6. text = IF mask = << >> THEN message.text ELSE Masked(message.text, mask)
  OBVIOUS
<1>. HIDE DEF text, length, form
<1>. QED
  BY <1>1, <1>2, <1>3, <1>4, <1>5, <1>6 DEF FrameUnits

LEMMA MaskType == \A e \in Ends : MaskOf(e) \in {<< >>} \cup [1..4 -> Byte]
BY DEF MaskOf, Byte

LEMMA HeadTypes ==
  /\ \A good \in BOOLEAN, names \in SUBSET Names : Request(good, names) \in RequestUnits
  /\ \A names \in SUBSET Names : Response(names) \in ResponseUnits
  /\ Body \in BodyUnits
BY DEF Request, Response, Body, RequestUnits, ResponseUnits, BodyUnits
-----------------------------------------------------------------------------
(* What the operations do to the wire. *)

LEMMA UnitWritten ==
  ASSUME WireTypes, NEW e \in Ends, NEW u \in Units
  PROVE  /\ Written(e, <<u>>) \in [Ends -> Seq(Units)]
         /\ \A p \in Ends : p # e => Written(e, <<u>>)[p] = wire[p]
         /\ Written(e, <<u>>)[e] = IF lost THEN wire[e] ELSE Append(wire[e], u)
<1>1. wire[e] \o <<u>> = Append(wire[e], u) /\ Append(wire[e], u) \in Seq(Units)
  BY DEF WireTypes
<1>. QED
  BY <1>1 DEF Written, WireTypes

LEMMA UnitsWritten ==
  ASSUME WireTypes, NEW e \in Ends, NEW u \in Units, NEW v \in Units
  PROVE  /\ Written(e, <<u, v>>) \in [Ends -> Seq(Units)]
         /\ \A p \in Ends : p # e => Written(e, <<u, v>>)[p] = wire[p]
         /\ Written(e, <<u, v>>)[e] = IF lost THEN wire[e] ELSE Append(Append(wire[e], u), v)
<1>1. /\ wire[e] \o <<u, v>> = Append(Append(wire[e], u), v)
      /\ Append(Append(wire[e], u), v) \in Seq(Units)
  BY DEF WireTypes
<1>. QED
  BY <1>1 DEF Written, WireTypes

LEMMA UnitConsumed ==
  ASSUME WireTypes, NEW e \in Ends, wire[e] # << >>
  PROVE  /\ Consumed(e) \in [Ends -> Seq(Units)]
         /\ \A p \in Ends : p # e => Consumed(e)[p] = wire[p]
         /\ Consumed(e)[e] = Tail(wire[e])
         /\ Head(wire[e]) \in Units /\ Head(wire[e]) = wire[e][1] /\ 1 \in 1..Len(wire[e])
         /\ \A i \in 1..Len(Tail(wire[e])) :
              i + 1 \in 1..Len(wire[e]) /\ Tail(wire[e])[i] = wire[e][i + 1]
<1>1. wire[e] \in Seq(Units)
  BY DEF WireTypes
<1>2. /\ Tail(wire[e]) \in Seq(Units) /\ Head(wire[e]) \in Units /\ Head(wire[e]) = wire[e][1]
      /\ 1 \in 1..Len(wire[e])
      /\ \A i \in 1..Len(Tail(wire[e])) :
           i + 1 \in 1..Len(wire[e]) /\ Tail(wire[e])[i] = wire[e][i + 1]
  BY <1>1
<1>. QED
  BY <1>2 DEF Consumed, WireTypes

\* No body is ever read: decode takes the head alone.
LEMMA HeadDecoded ==
  ASSUME WireTypes, NEW e \in Ends, Arrived(e, "request") \/ Arrived(e, "response")
  PROVE  Decoded(e) = Consumed(e) /\ wire[e] # << >>
<1>1. wire[e] # << >> /\ Head(wire[e]).kind \in {"request", "response"}
  BY DEF Arrived
<1>2. Head(wire[e]) \in RequestUnits \cup ResponseUnits
  <2>1. Head(wire[e]) \in Units
    BY <1>1, UnitConsumed
  <2>. QED
    BY <1>1, <2>1 DEF Units, RequestUnits, ResponseUnits, BodyUnits, FrameUnits
<1>3. MovedFrom(Head(wire[e])).names = {}
  BY <1>2 DEF MovedFrom, RequestUnits, ResponseUnits
<1>. QED
  BY <1>1, <1>3 DEF Decoded, Has

\* What is left after a cut: units of before, and at most one frame cut short.
LEMMA CutUnits ==
  ASSUME NEW s \in Seq(Units), NEW k \in 0..Len(s), NEW c \in Cuts(s, k)
  PROVE  /\ c \in Seq(Units)
         /\ \/ /\ Len(c) = k
               /\ \A i \in 1..k : c[i] = s[i]
            \/ /\ Len(c) = k + 1 /\ k + 1 \in 1..Len(s) /\ s[k + 1] \in FrameUnits
               /\ \A i \in 1..k : c[i] = s[i]
               /\ c[k + 1] = [s[k + 1] EXCEPT !.whole = FALSE] /\ c[k + 1] \in FrameUnits
               /\ \E b \in Seq(Units) : /\ Len(b) = k /\ c = Append(b, c[k + 1])
                                        /\ \A i \in 1..k : b[i] = s[i]
<1>. DEFINE b == SubSeq(s, 1, k)
<1>1. Len(s) \in Nat /\ k \in Nat /\ k <= Len(s) /\ \A i \in 1..Len(s) : s[i] \in Units
  OBVIOUS
<1>2. b \in Seq(Units) /\ Len(b) = k /\ \A i \in 1..k : b[i] = s[i]
  <2>1. \A i \in 1..k : s[i] \in Units
    BY <1>1
  <2>2. /\ SubSeq(s, 1, k) \in Seq(Units)
        /\ Len(SubSeq(s, 1, k)) = IF 1 <= k THEN k - 1 + 1 ELSE 0
        /\ \A i \in 1..(k - 1 + 1) : SubSeq(s, 1, k)[i] = s[1 + i - 1]
    BY <1>1, <2>1, SubSeqProperties
  <2>. QED
    BY <1>1, <2>2
<1>. HIDE DEF b
<1>3. CASE c = b
  BY <1>2, <1>3
<1>4. CASE /\ k < Len(s) /\ s[k + 1].kind = "frame"
           /\ c = Append(b, [s[k + 1] EXCEPT !.whole = FALSE])
  <2>. DEFINE v == [s[k + 1] EXCEPT !.whole = FALSE]
  <2>1. k + 1 \in 1..Len(s) /\ s[k + 1] \in FrameUnits
    <3>1. k + 1 \in 1..Len(s) /\ s[k + 1] \in Units
      BY <1>1, <1>4
    <3>. QED
      BY <1>4, <3>1 DEF Units, RequestUnits, ResponseUnits, BodyUnits
  <2>2. v \in FrameUnits
    BY <2>1 DEF FrameUnits
  <2>. HIDE DEF v
  <2>3. c = Append(b, v)
    BY <1>4 DEF v
  <2>4. v \in Units
    BY <2>2 DEF Units
  <2>5. /\ c \in Seq(Units) /\ Len(c) = k + 1 /\ c[k + 1] = v
        /\ \A i \in 1..k : c[i] = b[i]
    BY <1>1, <1>2, <2>3, <2>4
  <2>6. c = Append(b, c[k + 1])
    BY <2>3, <2>5
  <2>7. c[k + 1] = [s[k + 1] EXCEPT !.whole = FALSE]
    BY <2>5 DEF v
  <2>. QED
    BY <1>2, <2>1, <2>2, <2>5, <2>6, <2>7
<1>. QED
  BY <1>3, <1>4 DEF Cuts, b

-----------------------------------------------------------------------------
(* The inductive invariant: types, what is at the heads of the wire, and for *)
(* the channel from each end to its peer, what its units are, that its       *)
(* reader is in step, and what the properties say of it.                     *)

\* The kinds of units that can come first, by how far the handshake is.
Heads ==
  /\ \A e \in Ends : pc[e] = "start" => wire[e] = << >> /\ ~odd[e]
  /\ pc["client"] = "start" /\ ~lost => pc["server"] = "start"
  /\ ~Foreign("client") /\ pc["client"] = "session" => pc["server"] # "start"
  /\ \A i \in 1..Len(wire["client"]) :
       /\ wire["client"][i].kind = "request" => i = 1 /\ pc["server"] = "start"
       /\ wire["client"][i].kind # "response"
  /\ \A i \in 1..Len(wire["server"]) :
       /\ wire["server"][i].kind = "response" => i = 1 /\ (Foreign("client") \/ pc["client"] # "session")
       /\ wire["server"][i].kind # "request"

\* A unit of end p, which has written something odd (o) and sent the messages m,
\* and whose connection may be lost (l).
Fits(p, u, o, l, m) ==
  /\ u.kind = "body" => o
  /\ u.kind = "frame" =>
       /\ Meant(p, u) \/ o
       /\ u.whole \/ l
       /\ u.form = Form(u.n) /\ u.length = EncodeLength(Bits(u.n), Form(u.n))
       /\ Meant(p, u) => \E k \in 1..Len(m) : m[k].n = u.n

\* The messages g were received of those that p has sent.
Genuine(p, g, m, ag) ==
  \A i \in 1..Len(g) : /\ i <= Len(m) /\ g[i].n = m[i].n
                       /\ g[i].text = m[i].text \/ (p = "client" /\ i \in ag)

\* Why the reader of p is in trouble t.
Caused(p, t) ==
  /\ t \in {"phantom", "abort"} => lost \/ odd[p] \/ pc[p] = "over"
  /\ t = "abort" => setup.debug
  /\ t = "astray" => odd[p] \/ \E i \in 1..Len(sent[p]) : Misread(sent[p][i].n)

\* The buffer holds what was sent last, which a client has masked.
Kept(p, b, m) ==
  m # << >> => /\ b.n = m[Len(m)].n
               /\ p = "server" => b.text = m[Len(m)].text

Channel(p) ==
  /\ \A i \in 1..Len(wire[p]) : Fits(p, wire[p][i], odd[p], lost, sent[p])
  /\ trouble[Peer(p)] # "astray" =>
       InStep(p, wire[p], Len(got[Peer(p)]), sent[p], again[p], ~lost)
  /\ Genuine(p, got[Peer(p)], sent[p], again[p])
  /\ Caused(p, trouble[Peer(p)])
  /\ Foreign(p) \/ Kept(p, buffer[p], sent[p])

IInv == WireTypes /\ SessionTypes /\ Heads /\ \A p \in Ends : Channel(p)

-----------------------------------------------------------------------------
(* What a step may do to a channel. *)

LEMMA PeerEnd == \A e \in Ends : Peer(e) \in Ends /\ Peer(e) # e /\ Peer(Peer(e)) = e
BY DEF Ends, Peer

\* Nothing but that its writer may be over.
LEMMA ChannelStays ==
  ASSUME NEW p \in Ends, Channel(p), setup' = setup, lost' = lost,
         wire'[p] = wire[p], odd'[p] = odd[p], sent'[p] = sent[p], again'[p] = again[p],
         got'[Peer(p)] = got[Peer(p)], trouble'[Peer(p)] = trouble[Peer(p)],
         buffer'[p] = buffer[p], pc[p] = "over" => pc'[p] = "over"
  PROVE  Channel(p)'
<1>1. \A i \in 1..Len(wire'[p]) : Fits(p, wire'[p][i], odd'[p], lost', sent'[p])
  BY DEF Channel
<1>2. trouble'[Peer(p)] # "astray" =>
        InStep(p, wire'[p], Len(got'[Peer(p)]), sent'[p], again'[p], ~lost')
  BY DEF Channel
<1>3. Genuine(p, got'[Peer(p)], sent'[p], again'[p])
  BY DEF Channel
<1>4. Caused(p, trouble[Peer(p)])'
  BY DEF Channel, Caused
<1>5. Foreign(p)' \/ Kept(p, buffer'[p], sent'[p])
  BY DEF Channel, Foreign
<1>. QED
  BY <1>1, <1>2, <1>3, <1>4, <1>5 DEF Channel

LEMMA FitsStill ==
  ASSUME NEW T, NEW m \in Seq(T), NEW m2 \in Seq(T), Len(m) <= Len(m2),
         \A i \in 1..Len(m) : m2[i] = m[i],
         NEW p, NEW u, NEW o, NEW o2, NEW l, NEW l2, o => o2, l => l2, Fits(p, u, o, l, m)
  PROVE  Fits(p, u, o2, l2, m2)
<1>1. \A k \in 1..Len(m) : k \in 1..Len(m2) /\ m2[k] = m[k]
  OBVIOUS
<1>. QED
  BY <1>1 DEF Fits

LEMMA FitsOdder ==
  ASSUME NEW p, NEW u, NEW o, NEW o2, NEW l, NEW m, o => o2, Fits(p, u, o, l, m)
  PROVE  Fits(p, u, o2, l, m)
BY DEF Fits

LEMMA FitsMore ==
  ASSUME NEW T, NEW m \in Seq(T), NEW m2 \in Seq(T), Len(m) <= Len(m2),
         \A i \in 1..Len(m) : m2[i] = m[i],
         NEW p, NEW u, NEW o, NEW l, Fits(p, u, o, l, m)
  PROVE  Fits(p, u, o, l, m2)
BY FitsStill

\* Units that are no message are written, one or two.
LEMMA OthersWritten ==
  ASSUME NEW p \in Ends, Channel(p), WireTypes, SessionTypes, setup' = setup, lost' = lost,
         NEW u \in Units, NEW v \in Units, ~IsMessage(p, u), ~IsMessage(p, v),
         wire'[p] \in {wire[p], Append(wire[p], u), Append(Append(wire[p], u), v)},
         odd[p] => odd'[p], Fits(p, u, odd'[p], lost, sent[p]), Fits(p, v, odd'[p], lost, sent[p]),
         sent'[p] = sent[p], again'[p] = again[p],
         got'[Peer(p)] = got[Peer(p)], trouble'[Peer(p)] = trouble[Peer(p)],
         buffer'[p] = buffer[p], pc[p] = "over" => pc'[p] = "over"
  PROVE  Channel(p)'
<1>. DEFINE w1 == Append(wire[p], u)
            w2 == Append(Append(wire[p], u), v)
<1>1. /\ wire[p] \in Seq(Units) /\ Len(got[Peer(p)]) \in Nat /\ sent[p] \in Seq(Messages)
      /\ Len(sent[p]) \in Nat
  BY PeerEnd DEF WireTypes, SessionTypes
<1>2. /\ w1 \in Seq(Units) /\ Len(w1) = Len(wire[p]) + 1 /\ w1[Len(wire[p]) + 1] = u
      /\ \A i \in 1..Len(wire[p]) : w1[i] = wire[p][i]
  BY <1>1
<1>. HIDE DEF w1
<1>3. /\ Len(w2) = Len(w1) + 1 /\ w2[Len(w1) + 1] = v
      /\ \A i \in 1..Len(w1) : w2[i] = w1[i]
  BY <1>2 DEF w1
<1>4. w2 = Append(w1, v)
  BY DEF w1
<1>. HIDE DEF w2
<1>5. \A i \in 1..Len(wire[p]) : Fits(p, wire[p][i], odd'[p], lost, sent[p])
  <2>1. ASSUME NEW i \in 1..Len(wire[p]) PROVE Fits(p, wire[p][i], odd'[p], lost, sent[p])
    <3>1. Fits(p, wire[p][i], odd[p], lost, sent[p])
      BY DEF Channel
    <3>. QED
      BY <3>1, FitsOdder
  <2>. QED
    BY <2>1
<1>6. \A i \in 1..Len(w1) : Fits(p, w1[i], odd'[p], lost, sent[p])
  <2>1. \A i \in 1..Len(w1) : i \in 1..Len(wire[p]) \/ i = Len(wire[p]) + 1
    BY <1>1, <1>2
  <2>. QED
    BY <1>2, <1>5, <2>1
<1>7. \A i \in 1..Len(w2) : Fits(p, w2[i], odd'[p], lost, sent[p])
  <2>1. Len(w1) \in Nat
    BY <1>2
  <2>2. \A i \in 1..Len(w2) : i \in 1..Len(w1) \/ i = Len(w1) + 1
    BY <1>3, <2>1
  <2>. QED
    BY <1>3, <1>6, <2>2
<1>8. \A i \in 1..Len(wire'[p]) : Fits(p, wire'[p][i], odd'[p], lost', sent'[p])
  BY <1>4, <1>5, <1>6, <1>7 DEF w1
<1>9. ASSUME trouble[Peer(p)] # "astray"
      PROVE  InStep(p, wire'[p], Len(got[Peer(p)]), sent[p], again[p], ~lost)
  <2>1. InStep(p, wire[p], Len(got[Peer(p)]), sent[p], again[p], ~lost)
    BY <1>9 DEF Channel
  <2>2. InStep(p, w1, Len(got[Peer(p)]), sent[p], again[p], ~lost)
    BY <1>1, <2>1, OtherWritten DEF w1
  <2>3. InStep(p, w2, Len(got[Peer(p)]), sent[p], again[p], ~lost)
    BY <1>1, <1>2, <1>4, <2>2, OtherWritten
  <2>. QED
    BY <1>4, <2>1, <2>2, <2>3 DEF w1
<1>10. Genuine(p, got'[Peer(p)], sent'[p], again'[p])
  BY DEF Channel
<1>11. Caused(p, trouble[Peer(p)])'
  BY DEF Channel, Caused
<1>12. Foreign(p)' \/ Kept(p, buffer'[p], sent'[p])
  BY DEF Channel, Foreign
<1>. QED
  BY <1>8, <1>9, <1>10, <1>11, <1>12 DEF Channel

\* A message is sent: its frame is written, or it is lost.
LEMMA MessageSent ==
  ASSUME NEW p \in Ends, Channel(p), WireTypes, SessionTypes, setup' = setup, lost' = lost,
         NEW u \in Units, IsMessage(p, u), NEW x \in Messages,
         wire'[p] = IF lost THEN wire[p] ELSE Append(wire[p], u),
         u.n = x.n, u.form = Form(u.n), u.length = EncodeLength(Bits(u.n), Form(u.n)),
         sent'[p] = Append(sent[p], x), again[p] \subseteq again'[p],
         Unmasked(Peer(p), u) = x.text \/ (p = "client" /\ Len(sent[p]) + 1 \in again'[p]),
         odd'[p] = odd[p],
         got'[Peer(p)] = got[Peer(p)], trouble'[Peer(p)] = trouble[Peer(p)],
         Foreign(p) \/ Kept(p, buffer'[p], sent'[p]), pc[p] = "over" => pc'[p] = "over"
  PROVE  Channel(p)'
<1>. DEFINE m == sent[p]
            m2 == Append(sent[p], x)
            w == wire[p]
            w2 == Append(wire[p], u)
            g == got[Peer(p)]
<1>1. w \in Seq(Units) /\ g \in Seq(Messages) /\ m \in Seq(Messages)
  BY PeerEnd DEF WireTypes, SessionTypes
<1>2. /\ Len(g) \in Nat /\ Len(m) \in Nat /\ m2 \in Seq(Messages) /\ Len(m2) = Len(m) + 1
      /\ m2[Len(m) + 1] = x /\ \A i \in 1..Len(m) : m2[i] = m[i]
  BY <1>1
<1>3. /\ w2 \in Seq(Units) /\ Len(w2) = Len(w) + 1 /\ Len(w) \in Nat /\ w2[Len(w) + 1] = u
      /\ \A i \in 1..Len(w) : w2[i] = w[i]
  BY <1>1
<1>4. /\ \A i \in 1..Len(w) : Fits(p, w[i], odd[p], lost, m)
      /\ trouble[Peer(p)] # "astray" => InStep(p, w, Len(g), m, again[p], ~lost)
      /\ Genuine(p, g, m, again[p])
      /\ Caused(p, trouble[Peer(p)])
  BY DEF Channel
<1>5. wire'[p] \in {w, w2} /\ (~lost => wire'[p] = w2) /\ (lost => wire'[p] = w) /\ sent'[p] = m2
  OBVIOUS
<1>6. Carried(p, u, Len(m) + 1, m2, again'[p])
  <2>1. Len(m) + 1 \in 1..Len(m2)
    BY <1>2
  <2>. HIDE DEF m, m2
  <2>2. Unmasked(Peer(p), u) = x.text \/ (p = "client" /\ Len(m) + 1 \in again'[p])
    BY DEF m
  <2>. QED
    BY <1>2, <2>1, <2>2 DEF Carried
<1>. HIDE DEF m, m2, w, w2, g
<1>7. Fits(p, u, odd[p], lost, m2)
  <2>1. Len(m) + 1 \in 1..Len(m2)
    BY <1>2
  <2>. QED
    BY <1>2, <2>1 DEF Fits, IsMessage
<1>8. \A i \in 1..Len(w) : Fits(p, w[i], odd[p], lost, m2)
  <2>1. Len(m) <= Len(m2)
    BY <1>2
  <2>2. ASSUME NEW i \in 1..Len(w) PROVE Fits(p, w[i], odd[p], lost, m2)
    <3>1. Fits(p, w[i], odd[p], lost, m)
      BY <1>4
    <3>. QED
      BY <1>1, <1>2, <2>1, <3>1, FitsMore
  <2>. QED
    BY <2>2
<1>9. \A i \in 1..Len(w2) : Fits(p, w2[i], odd[p], lost, m2)
  <2>1. \A i \in 1..Len(w2) : i \in 1..Len(w) \/ i = Len(w) + 1
    BY <1>3
  <2>. QED
    BY <1>3, <1>7, <1>8, <2>1
<1>10. \A i \in 1..Len(wire'[p]) : Fits(p, wire'[p][i], odd'[p], lost', sent'[p])
  BY <1>5, <1>8, <1>9
<1>11. ASSUME trouble[Peer(p)] # "astray"
       PROVE  InStep(p, wire'[p], Len(g), m2, again'[p], ~lost)
  <2>1. InStep(p, w, Len(g), m, again[p], ~lost)
    BY <1>4, <1>11
  <2>2. CASE lost
    <3>1. InStep(p, w, Len(g), m, again[p], FALSE)
      BY <2>1 DEF InStep
    <3>2. InStep(p, w, Len(g), m2, again'[p], FALSE)
      BY <1>1, <1>2, <3>1, MessageUnwritten DEF m, m2
    <3>. QED
      BY <1>5, <2>2, <3>2 DEF InStep
  <2>3. CASE ~lost
    <3>1. InStep(p, w, Len(g), m, again[p], TRUE)
      BY <2>1, <2>3 DEF InStep
    <3>2. InStep(p, w2, Len(g), m2, again'[p], TRUE)
      BY <1>1, <1>2, <1>6, <3>1, MessageWritten DEF m, m2, w, w2
    <3>. QED
      BY <1>5, <2>3, <3>2 DEF InStep
  <2>. QED
    BY <2>2, <2>3
<1>12. Genuine(p, g, m2, again'[p])
  <2>1. \A i \in 1..Len(g) : i <= Len(m) => i \in 1..Len(m) /\ i <= Len(m2)
    BY <1>2
  <2>. QED
    BY <1>2, <1>4, <2>1 DEF Genuine
<1>13. Caused(p, trouble[Peer(p)])'
  <2>1. \A i \in 1..Len(m) : i \in 1..Len(m2) /\ m2[i] = m[i]
    BY <1>2
  <2>2. \A i \in 1..Len(sent[p]) : i \in 1..Len(sent'[p]) /\ sent'[p][i] = sent[p][i]
    BY <1>5, <2>1 DEF m
  <2>. QED
    BY <1>4, <2>2 DEF Caused
<1>14. Foreign(p)' \/ Kept(p, buffer'[p], sent'[p])
  BY DEF Foreign
<1>. QED
  BY <1>5, <1>10, <1>11, <1>12, <1>13, <1>14 DEF Channel, g

\* The first unit is taken for no message, or nothing is.
LEMMA HeadTaken ==
  ASSUME NEW p \in Ends, Channel(p), WireTypes, SessionTypes, setup' = setup, lost' = lost,
         \/ wire'[p] = wire[p]
         \/ /\ wire[p] # << >> /\ wire'[p] = Tail(wire[p])
            /\ ~IsMessage(p, Head(wire[p])) \/ trouble'[Peer(p)] = "astray",
         odd'[p] = odd[p], sent'[p] = sent[p], again'[p] = again[p],
         got'[Peer(p)] = got[Peer(p)], Caused(p, trouble'[Peer(p)]),
         trouble'[Peer(p)] # "astray" => trouble[Peer(p)] # "astray",
         buffer'[p] = buffer[p], pc'[p] = pc[p]
  PROVE  Channel(p)'
<1>1. wire[p] \in Seq(Units) /\ Len(got[Peer(p)]) \in Nat
  BY PeerEnd DEF WireTypes, SessionTypes
<1>2. wire[p] # << >> =>
        \A i \in 1..Len(Tail(wire[p])) :
          i + 1 \in 1..Len(wire[p]) /\ Tail(wire[p])[i] = wire[p][i + 1]
  BY UnitConsumed
<1>3. \A i \in 1..Len(wire'[p]) : Fits(p, wire'[p][i], odd'[p], lost', sent'[p])
  <2>1. CASE wire'[p] = wire[p]
    BY <2>1 DEF Channel
  <2>2. CASE wire[p] # << >> /\ wire'[p] = Tail(wire[p])
    BY <1>2, <2>2 DEF Channel
  <2>. QED
    BY <2>1, <2>2
<1>4. ASSUME trouble'[Peer(p)] # "astray"
      PROVE  InStep(p, wire'[p], Len(got'[Peer(p)]), sent'[p], again'[p], ~lost')
  <2>1. InStep(p, wire[p], Len(got[Peer(p)]), sent[p], again[p], ~lost)
    BY <1>4 DEF Channel
  <2>2. CASE wire'[p] = wire[p]
    BY <2>1, <2>2
  <2>3. CASE wire[p] # << >> /\ wire'[p] = Tail(wire[p]) /\ ~IsMessage(p, Head(wire[p]))
    BY <1>1, <2>1, <2>3, UnitTaken
  <2>. QED
    BY <1>4, <2>2, <2>3
<1>5. Genuine(p, got'[Peer(p)], sent'[p], again'[p])
  BY DEF Channel
<1>6. Caused(p, trouble[Peer(p)])'
  BY DEF Caused
<1>7. Foreign(p)' \/ Kept(p, buffer'[p], sent'[p])
  BY DEF Channel, Foreign
<1>. QED
  BY <1>3, <1>4, <1>5, <1>6, <1>7 DEF Channel

\* recv takes the first unit for the next message.
LEMMA MessageTaken ==
  ASSUME NEW p \in Ends, Channel(p), WireTypes, SessionTypes, setup' = setup, lost' = lost,
         wire[p] # << >>, wire'[p] = Tail(wire[p]), IsMessage(p, Head(wire[p])),
         odd'[p] = odd[p], sent'[p] = sent[p], again'[p] = again[p],
         trouble[Peer(p)] # "astray", trouble'[Peer(p)] = trouble[Peer(p)],
         NEW x \in Messages, got'[Peer(p)] = Append(got[Peer(p)], x),
         x.n = Head(wire[p]).n, x.text = Unmasked(Peer(p), Head(wire[p])),
         buffer'[p] = buffer[p], pc'[p] = pc[p]
  PROVE  Channel(p)'
<1>. DEFINE g == got[Peer(p)]
            g2 == Append(g, x)
            m == sent[p]
<1>1. wire[p] \in Seq(Units) /\ g \in Seq(Messages)
  BY PeerEnd DEF WireTypes, SessionTypes
<1>2. /\ Len(g2) = Len(g) + 1 /\ Len(g) \in Nat /\ g2[Len(g) + 1] = x
      /\ \A i \in 1..Len(g) : g2[i] = g[i]
  BY <1>1
<1>3. InStep(p, wire[p], Len(g), m, again[p], ~lost) /\ Genuine(p, g, m, again[p])
  BY DEF Channel
<1>4. got'[Peer(p)] = g2
  OBVIOUS
<1>. HIDE DEF g, g2, m
<1>5. \A i \in 1..Len(wire'[p]) : Fits(p, wire'[p][i], odd'[p], lost', sent'[p])
  <2>1. \A i \in 1..Len(Tail(wire[p])) :
          i + 1 \in 1..Len(wire[p]) /\ Tail(wire[p])[i] = wire[p][i + 1]
    BY UnitConsumed
  <2>. QED
    BY <2>1 DEF Channel
<1>6. /\ InStep(p, Tail(wire[p]), Len(g) + 1, m, again[p], ~lost)
      /\ Carried(p, Head(wire[p]), Len(g) + 1, m, again[p])
  BY <1>1, <1>2, <1>3, UnitTaken
<1>7. Genuine(p, g2, m, again[p])
  <2>1. \A i \in 1..Len(g2) : i \in 1..Len(g) \/ i = Len(g) + 1
    BY <1>2
  <2>2. /\ Len(g) + 1 <= Len(m) /\ x.n = m[Len(g) + 1].n
        /\ x.text = m[Len(g) + 1].text \/ (p = "client" /\ Len(g) + 1 \in again[p])
    BY <1>6 DEF Carried
  <2>. QED
    BY <1>2, <1>3, <2>1, <2>2 DEF Genuine
<1>8. Caused(p, trouble[Peer(p)])'
  BY DEF Channel, Caused
<1>9. Foreign(p)' \/ Kept(p, buffer'[p], sent'[p])
  BY DEF Channel, Foreign
<1>. QED
  BY <1>2, <1>4, <1>5, <1>6, <1>7, <1>8, <1>9 DEF Channel, m

\* The connection is lost, and with it all but the first units, the last of which
\* may be a part of a frame.
LEMMA ChannelCut ==
  ASSUME NEW p \in Ends, Channel(p), WireTypes, SessionTypes, setup' = setup, lost' = TRUE,
         NEW k \in 0..Len(wire[p]), wire'[p] \in Cuts(wire[p], k),
         odd'[p] = odd[p], sent'[p] = sent[p], again'[p] = again[p],
         got'[Peer(p)] = got[Peer(p)], trouble'[Peer(p)] = trouble[Peer(p)],
         buffer'[p] = buffer[p], pc'[p] = pc[p]
  PROVE  Channel(p)'
<1>. DEFINE s == wire[p]
            c == wire'[p]
            m == sent[p]
            g == Len(got[Peer(p)])
<1>1. s \in Seq(Units) /\ Len(s) \in Nat /\ g \in Nat
  BY PeerEnd DEF WireTypes, SessionTypes
<1>2. /\ \A i \in 1..Len(s) : Fits(p, s[i], odd[p], lost, m)
      /\ trouble[Peer(p)] # "astray" => InStep(p, s, g, m, again[p], ~lost)
  BY DEF Channel
<1>3. /\ c \in Seq(Units)
      /\ \/ /\ Len(c) = k
            /\ \A i \in 1..k : c[i] = s[i]
         \/ /\ Len(c) = k + 1 /\ k + 1 \in 1..Len(s) /\ s[k + 1] \in FrameUnits
            /\ \A i \in 1..k : c[i] = s[i]
            /\ c[k + 1] = [s[k + 1] EXCEPT !.whole = FALSE] /\ c[k + 1] \in FrameUnits
            /\ \E b \in Seq(Units) : /\ Len(b) = k /\ c = Append(b, c[k + 1])
                                     /\ \A i \in 1..k : b[i] = s[i]
  BY <1>1, CutUnits
<1>. HIDE DEF s, c, m, g
<1>4. k \in Nat /\ k <= Len(s)
  BY <1>1 DEF s
<1>5. ASSUME NEW i \in 1..k PROVE Fits(p, s[i], odd[p], TRUE, m)
  <2>1. i \in 1..Len(s)
    BY <1>1, <1>4
  <2>2. Fits(p, s[i], odd[p], lost, m)
    BY <1>2, <2>1
  <2>. QED
    BY <2>2 DEF Fits
<1>6. CASE /\ Len(c) = k
           /\ \A i \in 1..k : c[i] = s[i]
  <2>1. \A i \in 1..Len(c) : Fits(p, c[i], odd[p], TRUE, m)
    BY <1>5, <1>6
  <2>2. trouble[Peer(p)] # "astray" => InStep(p, c, g, m, again[p], FALSE)
    BY <1>1, <1>2, <1>3, <1>4, <1>6, WireCut
  <2>. QED
    BY <2>1, <2>2 DEF Channel, Caused, Foreign, c, m, g
<1>7. CASE /\ Len(c) = k + 1 /\ k + 1 \in 1..Len(s) /\ s[k + 1] \in FrameUnits
           /\ \A i \in 1..k : c[i] = s[i]
           /\ c[k + 1] = [s[k + 1] EXCEPT !.whole = FALSE] /\ c[k + 1] \in FrameUnits
           /\ \E b \in Seq(Units) : /\ Len(b) = k /\ c = Append(b, c[k + 1])
                                    /\ \A i \in 1..k : b[i] = s[i]
  <2>. DEFINE u == s[k + 1]
              v == c[k + 1]
  <2>1. PICK b \in Seq(Units) : Len(b) = k /\ c = Append(b, v) /\ \A i \in 1..k : b[i] = s[i]
    BY <1>7
  <2>2. u \in FrameUnits /\ v = [u EXCEPT !.whole = FALSE] /\ v \in FrameUnits
    BY <1>7
  <2>3. Fits(p, u, odd[p], lost, m)
    BY <1>2, <1>7
  <2>. HIDE DEF u, v
  <2>4. /\ v.kind = u.kind /\ v.opcode = u.opcode /\ v.n = u.n
        /\ v.form = u.form /\ v.length = u.length /\ v.mask = u.mask /\ v.whole = FALSE
    BY <2>2 DEF FrameUnits
  <2>5. Fits(p, v, odd[p], TRUE, m) /\ ~IsMessage(p, v)
    BY <2>3, <2>4 DEF Fits, IsText, Meant, IsMessage
  <2>6. \A i \in 1..Len(c) : Fits(p, c[i], odd[p], TRUE, m)
    <3>1. \A i \in 1..Len(c) : i \in 1..k \/ i = k + 1
      BY <1>4, <1>7
    <3>. QED
      BY <1>5, <1>7, <2>5, <3>1 DEF v
  <2>7. v \in Units
    BY <2>2 DEF Units
  <2>8. ASSUME trouble[Peer(p)] # "astray" PROVE InStep(p, c, g, m, again[p], FALSE)
    <3>1. InStep(p, b, g, m, again[p], FALSE)
      BY <1>1, <1>2, <1>4, <2>1, <2>8, WireCut
    <3>. QED
      BY <1>1, <2>1, <2>5, <2>7, <3>1, OtherWritten
  <2>. QED
    BY <2>6, <2>8 DEF Channel, Caused, Foreign, c, m, g
<1>. QED
  BY <1>3, <1>6, <1>7

-----------------------------------------------------------------------------
(* The steps of the session. *)

LEMMA UnitKinds ==
  /\ \A u \in Units : u.kind \in {"request", "response", "body", "frame"}
  /\ \A u \in FrameUnits : u \in Units /\ u.kind = "frame"
BY DEF Units, RequestUnits, ResponseUnits, BodyUnits, FrameUnits

\* No head is written, and nobody starts or enters the session.
LEMMA HeadsStay ==
  ASSUME Heads, setup' = setup, lost => lost',
         \A e \in Ends : pc'[e] = "start" <=> pc[e] = "start",
         pc'["client"] = "session" => pc["client"] = "session",
         \A e \in Ends : pc[e] = "start" => wire'[e] = << >> /\ ~odd'[e],
         \A e \in Ends : \A i \in 1..Len(wire'[e]) :
           \/ wire'[e][i].kind \in {"frame", "body"}
           \/ i \in 1..Len(wire[e]) /\ wire'[e][i].kind = wire[e][i].kind
  PROVE  Heads'
<1>1. "client" \in Ends /\ "server" \in Ends
  BY DEF Ends
<1>2. \A i \in 1..Len(wire'["client"]) :
        /\ wire'["client"][i].kind = "request" => i = 1 /\ pc'["server"] = "start"
        /\ wire'["client"][i].kind # "response"
  BY <1>1 DEF Heads
<1>3. \A i \in 1..Len(wire'["server"]) :
        /\ wire'["server"][i].kind = "response" => i = 1 /\ (Foreign("client")' \/ pc'["client"] # "session")
        /\ wire'["server"][i].kind # "request"
  BY <1>1 DEF Heads, Foreign
<1>4. ~Foreign("client")' /\ pc'["client"] = "session" => pc'["server"] # "start"
  BY <1>1 DEF Heads, Foreign
<1>5. pc'["client"] = "start" /\ ~lost' => pc'["server"] = "start"
  BY <1>1 DEF Heads
<1>6. \A e \in Ends : pc'[e] = "start" => wire'[e] = << >> /\ ~odd'[e]
  OBVIOUS
<1>. QED
  BY <1>2, <1>3, <1>4, <1>5, <1>6 DEF Heads

\* A frame is written by an end that is in the session.
LEMMA HeadsOfFrame ==
  ASSUME Heads, WireTypes, SessionTypes, NEW e \in Ends, NEW u \in FrameUnits, pc[e] = "session",
         wire' = Written(e, <<u>>), setup' = setup, lost' = lost, pc' = pc,
         odd' \in {odd, [odd EXCEPT ![e] = TRUE]}
  PROVE  Heads'
<1>1. /\ \A p \in Ends : p # e => wire'[p] = wire[p]
      /\ wire'[e] = IF lost THEN wire[e] ELSE Append(wire[e], u)
      /\ u.kind = "frame" /\ wire[e] \in Seq(Units) /\ u \in Units
  BY UnitWritten, UnitKinds DEF WireTypes
<1>2. ASSUME NEW i \in 1..Len(wire'[e])
      PROVE  \/ wire'[e][i].kind \in {"frame", "body"}
             \/ i \in 1..Len(wire[e]) /\ wire'[e][i].kind = wire[e][i].kind
  <2>1. CASE lost
    BY <1>1, <2>1
  <2>2. CASE ~lost
    <3>. DEFINE w == wire[e]
                w2 == Append(wire[e], u)
    <3>1. /\ Len(w2) = Len(w) + 1 /\ Len(w) \in Nat /\ w2[Len(w) + 1] = u
          /\ \A j \in 1..Len(w) : w2[j] = w[j]
      BY <1>1
    <3>2. wire'[e] = w2
      BY <1>1, <2>2
    <3>. HIDE DEF w, w2
    <3>3. i \in 1..Len(w) \/ i = Len(w) + 1
      BY <3>1, <3>2
    <3>. QED
      BY <1>1, <3>1, <3>2, <3>3 DEF w
  <2>. QED
    BY <2>1, <2>2
<1>3. \A p \in Ends : \A i \in 1..Len(wire'[p]) :
           \/ wire'[p][i].kind \in {"frame", "body"}
           \/ i \in 1..Len(wire[p]) /\ wire'[p][i].kind = wire[p][i].kind
  BY <1>1, <1>2
<1>4. \A p \in Ends : pc[p] = "start" => wire'[p] = << >> /\ ~odd'[p]
  BY <1>1 DEF Heads, SessionTypes
<1>. QED
  BY <1>3, <1>4, HeadsStay

LEMMA TextKept ==
  ASSUME NEW e \in Ends, NEW mask \in {<< >>} \cup [1..4 -> Byte], NEW x \in Messages,
         e = "client" => mask \in [1..4 -> Byte], e = "server" => mask = << >>
  PROVE  LET u == Frame("TEXT", mask, x) IN
         IsMessage(e, u) /\ Unmasked(Peer(e), u) = x.text
<1>. DEFINE u == Frame("TEXT", mask, x)
<1>1. /\ u.kind = "frame" /\ u.opcode = "TEXT" /\ u.whole
      /\ u.mask = mask /\ u.text = IF mask = << >> THEN x.text ELSE Masked(x.text, mask)
  BY DEF Frame
<1>. HIDE DEF u
<1>2. CASE e = "client"
  <2>0. mask \in [1..4 -> Byte] /\ x.text \in Seq(Byte)
    BY <1>2 DEF Messages
  <2>1. mask # << >>
    <3>1. DOMAIN mask = 1..4 /\ 1 \in 1..4
      BY <2>0
    <3>2. DOMAIN << >> = {}
      OBVIOUS
    <3>. QED
      BY <3>1, <3>2
  <2>2. Masked(Masked(x.text, mask), mask) = x.text
    BY <2>0, MaskTwice
  <2>3. IsMessage(e, u)
    BY <1>1, <2>1 DEF IsMessage, Meant, IsText
  <2>. QED
    BY <1>1, <1>2, <2>0, <2>1, <2>2, <2>3 DEF Unmasked, Peer, u
<1>3. CASE e = "server"
  <2>1. IsMessage(e, u)
    BY <1>1, <1>3 DEF IsMessage, Meant, IsText
  <2>. QED
    BY <1>1, <1>3, <2>1 DEF Unmasked, Peer, u
<1>. QED
  BY <1>2, <1>3 DEF Ends

LEMMA TextFrame ==
  ASSUME NEW mask \in {<< >>} \cup [1..4 -> Byte], NEW message \in Messages
  PROVE  LET u == Frame("TEXT", mask, message) IN
         /\ u \in FrameUnits /\ u.n = message.n /\ u.form = Form(u.n) /\ u.mask = mask
         /\ u.length = EncodeLength(Bits(u.n), Form(u.n))
<1>1. "TEXT" \in Opcodes
  BY DEF Opcodes
<1>2. ASSUME NEW opcode \in Opcodes
      PROVE  LET u == Frame(opcode, mask, message) IN
             /\ u \in FrameUnits /\ u.n = message.n /\ u.form = Form(u.n) /\ u.mask = mask
             /\ u.length = EncodeLength(Bits(u.n), Form(u.n))
  BY FrameType
<1>. QED
  BY <1>1, <1>2, Zenon

\* A handler, or a foreign client, sends message x in a frame of message.
LEMMA TextSent ==
  ASSUME IInv, NEW e \in Ends, pc[e] = "session", MayWrite(e),
         NEW message \in Messages, NEW x \in Messages, NEW mask \in {<< >>} \cup [1..4 -> Byte],
         e = "client" => mask \in [1..4 -> Byte], e = "server" => mask = << >>,
         message.n = x.n,
         message.text = x.text \/ (e = "client" /\ Len(sent[e]) + 1 \in again'[e]),
         wire' = Written(e, <<Frame("TEXT", mask, message)>>),
         sent' = [sent EXCEPT ![e] = Append(@, x)],
         again' \in {again, [again EXCEPT ![e] = @ \cup {Len(sent[e]) + 1}]},
         frames' = [frames EXCEPT ![e] = @ + 1],
         buffer' \in [Ends -> Messages], \A p \in Ends : p # e => buffer'[p] = buffer[p],
         Foreign(e) \/ (buffer'[e].n = x.n /\ (e = "server" => buffer'[e].text = x.text)),
         setup' = setup, pc' = pc, lost' = lost, odd' = odd, got' = got, trouble' = trouble
  PROVE  IInv'
<1>. DEFINE u == Frame("TEXT", mask, message)
<1>1. /\ u \in FrameUnits /\ u.n = message.n /\ u.form = Form(u.n) /\ u.mask = mask
      /\ u.length = EncodeLength(Bits(u.n), Form(u.n))
  BY TextFrame
<1>2. IsMessage(e, u) /\ Unmasked(Peer(e), u) = message.text
  BY TextKept
<1>3. WireTypes /\ SessionTypes /\ Heads /\ u \in Units
  BY <1>1, UnitKinds DEF IInv
<1>4. wire' = Written(e, <<u>>)
  OBVIOUS
<1>. HIDE DEF u
<1>5. /\ wire' \in [Ends -> Seq(Units)]
      /\ \A p \in Ends : p # e => wire'[p] = wire[p]
      /\ wire'[e] = IF lost THEN wire[e] ELSE Append(wire[e], u)
  <2>1. /\ Written(e, <<u>>) \in [Ends -> Seq(Units)]
        /\ \A p \in Ends : p # e => Written(e, <<u>>)[p] = wire[p]
        /\ Written(e, <<u>>)[e] = IF lost THEN wire[e] ELSE Append(wire[e], u)
    BY <1>3, UnitWritten
  <2>. QED
    BY <1>4, <2>1
<1>6. WireTypes'
  BY <1>3, <1>5 DEF WireTypes
<1>7. /\ sent'[e] = Append(sent[e], x) /\ \A p \in Ends : p # e => sent'[p] = sent[p]
      /\ sent' \in [Ends -> Seq(Messages)]
      /\ Len(sent'[e]) = Len(sent[e]) + 1 /\ Len(sent[e]) \in Nat
      /\ sent'[e][Len(sent'[e])] = x
  BY <1>3 DEF SessionTypes
<1>8. /\ again' \in [Ends -> SUBSET Nat] /\ \A p \in Ends : p # e => again'[p] = again[p]
      /\ again[e] \subseteq again'[e] /\ again'[e] \subseteq 1..Len(sent'[e])
  <2>1. again \in [Ends -> SUBSET Nat] /\ again[e] \subseteq 1..Len(sent[e])
    BY <1>3 DEF SessionTypes
  <2>2. CASE again' = again
    BY <1>7, <2>1, <2>2 DEF SessionTypes
  <2>3. CASE again' = [again EXCEPT ![e] = @ \cup {Len(sent[e]) + 1}]
    <3>1. again'[e] = again[e] \cup {Len(sent[e]) + 1} /\ \A p \in Ends : p # e => again'[p] = again[p]
      BY <2>1, <2>3
    <3>2. Len(sent[e]) + 1 \in Nat /\ again[e] \cup {Len(sent[e]) + 1} \subseteq 1..Len(sent'[e])
      BY <1>7, <2>1
    <3>3. again' \in [Ends -> SUBSET Nat]
      BY <2>1, <2>3, <3>2
    <3>. QED
      BY <3>1, <3>2, <3>3
  <2>. QED
    BY <2>2, <2>3
<1>9. /\ frames' \in [Ends -> Nat] /\ \A p \in Ends : p # e => frames'[p] = frames[p]
      /\ frames'[e] = frames[e] + 1 /\ frames'[e] <= MaxSent[e]
  <2>1. frames[e] \in Nat /\ MaxSent[e] \in Nat
    BY <1>3, WebAssumption DEF SessionTypes, Ends
  <2>. QED
    BY <1>3, <2>1 DEF SessionTypes, MayWrite
<1>10. SessionTypes'
  <2>1. \A p \in Ends : /\ frames'[p] <= MaxSent[p] /\ Len(sent'[p]) <= frames'[p]
                         /\ again'[p] \subseteq 1..Len(sent'[p])
    <3>1. ASSUME NEW p \in Ends, p # e
          PROVE  /\ frames'[p] <= MaxSent[p] /\ Len(sent'[p]) <= frames'[p]
                 /\ again'[p] \subseteq 1..Len(sent'[p])
      BY <1>3, <1>7, <1>8, <1>9, <3>1 DEF SessionTypes
    <3>2. Len(sent'[e]) <= frames'[e]
      BY <1>3, <1>7, <1>9 DEF SessionTypes
    <3>. QED
      BY <1>8, <1>9, <3>1, <3>2
  <2>. QED
    BY <1>3, <1>7, <1>8, <1>9, <2>1 DEF SessionTypes
<1>11. Heads'
  BY <1>1, <1>3, <1>4, HeadsOfFrame
<1>12. Channel(e)'
  <2>1. Channel(e)
    BY DEF IInv
  <2>2. u.n = x.n /\ (Unmasked(Peer(e), u) = x.text \/ (e = "client" /\ Len(sent[e]) + 1 \in again'[e]))
    BY <1>1, <1>2
  <2>3. Foreign(e) \/ Kept(e, buffer'[e], sent'[e])
    BY <1>7 DEF Kept
  <2>. QED
    BY <1>1, <1>2, <1>3, <1>5, <1>7, <1>8, <2>1, <2>2, <2>3, MessageSent
<1>13. ASSUME NEW p \in Ends, p # e PROVE Channel(p)'
  <2>1. Channel(p)
    BY DEF IInv
  <2>. QED
    BY <1>5, <1>7, <1>8, <1>13, <2>1, ChannelStays
<1>. QED
  BY <1>6, <1>10, <1>11, <1>12, <1>13 DEF IInv

\* A frame that is no message is sent.
LEMMA OddSent ==
  ASSUME IInv, NEW e \in Ends, pc[e] = "session", MayWrite(e),
         NEW opcode \in Opcodes, NEW mask \in {<< >>} \cup [1..4 -> Byte],
         opcode # "TEXT" \/ (e = "client" /\ mask = << >>), NEW message \in Messages,
         wire' = Written(e, <<Frame(opcode, mask, message)>>),
         odd' = [odd EXCEPT ![e] = TRUE],
         frames' = [frames EXCEPT ![e] = @ + 1],
         setup' = setup, pc' = pc, lost' = lost, buffer' = buffer, sent' = sent,
         again' = again, got' = got, trouble' = trouble
  PROVE  IInv'
<1>. DEFINE u == Frame(opcode, mask, message)
<1>1. /\ u \in FrameUnits /\ u.form = Form(u.n)
      /\ u.length = EncodeLength(Bits(u.n), Form(u.n))
      /\ u.opcode = opcode /\ u.mask = mask
  BY FrameType
<1>2. u.kind = "frame" /\ u.whole
  BY DEF Frame
<1>3. wire' = Written(e, <<u>>)
  OBVIOUS
<1>. HIDE DEF u
<1>4. ~IsMessage(e, u) /\ ~Meant(e, u)
  BY <1>1 DEF IsMessage, Meant, IsText
<1>5. WireTypes /\ SessionTypes /\ Heads /\ u \in Units
  BY <1>1, UnitKinds DEF IInv
<1>6. /\ wire' \in [Ends -> Seq(Units)]
      /\ \A p \in Ends : p # e => wire'[p] = wire[p]
      /\ wire'[e] = IF lost THEN wire[e] ELSE Append(wire[e], u)
  <2>1. /\ Written(e, <<u>>) \in [Ends -> Seq(Units)]
        /\ \A p \in Ends : p # e => Written(e, <<u>>)[p] = wire[p]
        /\ Written(e, <<u>>)[e] = IF lost THEN wire[e] ELSE Append(wire[e], u)
    BY <1>5, UnitWritten
  <2>. QED
    BY <1>3, <2>1
<1>7. WireTypes'
  BY <1>5, <1>6 DEF WireTypes
<1>8. /\ frames' \in [Ends -> Nat] /\ \A p \in Ends : frames[p] <= frames'[p] /\ frames'[p] <= MaxSent[p]
  <2>1. frames[e] \in Nat /\ MaxSent[e] \in Nat
    BY <1>5, WebAssumption DEF SessionTypes, Ends
  <2>. QED
    BY <1>5, <2>1 DEF SessionTypes, MayWrite
<1>9. /\ odd' \in [Ends -> BOOLEAN] /\ odd'[e] = TRUE
      /\ \A p \in Ends : p # e => odd'[p] = odd[p]
  BY <1>5 DEF SessionTypes
<1>10. SessionTypes'
  <2>1. \A p \in Ends : Len(sent[p]) <= frames'[p]
    <3>1. ASSUME NEW p \in Ends PROVE Len(sent[p]) <= frames'[p]
      <4>1. Len(sent[p]) \in Nat /\ frames[p] \in Nat /\ frames'[p] \in Nat /\ Len(sent[p]) <= frames[p]
        BY <1>5, <1>8 DEF SessionTypes
      <4>. QED
        BY <1>8, <4>1
    <3>. QED
      BY <3>1
  <2>. QED
    BY <1>5, <1>8, <1>9, <2>1 DEF SessionTypes
<1>11. Heads'
  BY <1>1, <1>3, <1>5, HeadsOfFrame
<1>12. Channel(e)'
  <2>1. Channel(e)
    BY DEF IInv
  <2>2. Fits(e, u, odd'[e], lost, sent[e])
    BY <1>1, <1>2, <1>4, <1>9 DEF Fits
  <2>3. wire'[e] \in {wire[e], Append(wire[e], u), Append(Append(wire[e], u), u)}
    BY <1>6
  <2>. QED
    BY <1>4, <1>5, <1>9, <2>1, <2>2, <2>3, OthersWritten
<1>13. ASSUME NEW p \in Ends, p # e PROVE Channel(p)'
  <2>1. Channel(p)
    BY DEF IInv
  <2>. QED
    BY <1>6, <1>9, <1>13, <2>1, ChannelStays
<1>. QED
  BY <1>7, <1>10, <1>11, <1>12, <1>13 DEF IInv

LEMMA MasksOf ==
  ASSUME NEW e \in Ends
  PROVE  /\ MaskOf(e) \in {<< >>} \cup [1..4 -> Byte]
         /\ e = "client" => MaskOf(e) \in [1..4 -> Byte]
         /\ e = "server" => MaskOf(e) = << >>
<1>1. MaskOf("client") \in [1..4 -> Byte] /\ MaskOf("server") = << >>
  BY DEF MaskOf, Byte
<1>2. e = "client" \/ e = "server"
  BY DEF Ends
<1>. QED
  BY <1>1, <1>2

\* What is in the buffer after encode.
LEMMA BufferMasked ==
  ASSUME NEW e \in Ends, NEW message \in Messages
  PROVE  LET b == Message(message.n, Frame("TEXT", MaskOf(e), message).text) IN
         b \in Messages /\ b.n = message.n /\ (e = "server" => b.text = message.text)
<1>. DEFINE u == Frame("TEXT", MaskOf(e), message)
<1>1. /\ MaskOf(e) \in {<< >>} \cup [1..4 -> Byte]
      /\ e = "server" => MaskOf(e) = << >>
  BY MasksOf
<1>2. u.text \in Seq(Byte)
  <2>1. u \in FrameUnits
    BY <1>1, TextFrame
  <2>. QED
    BY <2>1 DEF FrameUnits
<1>3. e = "server" => u.text = message.text
  BY <1>1 DEF Frame
<1>4. message.n \in Nat
  BY DEF Messages
<1>. HIDE DEF u
<1>5. LET b == Message(message.n, u.text) IN
      b \in Messages /\ b.n = message.n /\ b.text = u.text
  BY <1>2, <1>4 DEF Message, Messages
<1>. QED
  BY <1>3, <1>5 DEF u

LEMMA SendStep ==
  ASSUME IInv, NEW e \in Ends, NEW n \in Lengths, Send(e, n)
  PROVE  IInv'
<1>. DEFINE x == Fresh(n)
<1>1. x \in Messages
  BY FreshType
<1>2. /\ pc[e] = "session" /\ MayWrite(e) /\ ~Foreign(e)
      /\ wire' = Written(e, <<Frame("TEXT", MaskOf(e), x)>>)
      /\ buffer' = [buffer EXCEPT ![e] = Message(x.n, Frame("TEXT", MaskOf(e), x).text)]
      /\ frames' = [frames EXCEPT ![e] = @ + 1]
      /\ sent' = [sent EXCEPT ![e] = Append(@, x)]
      /\ setup' = setup /\ pc' = pc /\ lost' = lost /\ again' = again /\ odd' = odd
      /\ got' = got /\ trouble' = trouble
  BY DEF Send, InSession, Encode
<1>. HIDE DEF x
<1>3. SessionTypes
  BY DEF IInv
<1>4. /\ buffer' \in [Ends -> Messages] /\ \A p \in Ends : p # e => buffer'[p] = buffer[p]
      /\ buffer'[e].n = x.n /\ (e = "server" => buffer'[e].text = x.text)
  <2>. DEFINE b == Message(x.n, Frame("TEXT", MaskOf(e), x).text)
  <2>1. b \in Messages /\ b.n = x.n /\ (e = "server" => b.text = x.text)
    BY <1>1, BufferMasked
  <2>. HIDE DEF b
  <2>2. buffer' = [buffer EXCEPT ![e] = b]
    BY <1>2 DEF b
  <2>. QED
    BY <1>3, <2>1, <2>2 DEF SessionTypes
<1>5. /\ MaskOf(e) \in {<< >>} \cup [1..4 -> Byte]
      /\ e = "client" => MaskOf(e) \in [1..4 -> Byte]
      /\ e = "server" => MaskOf(e) = << >>
  BY MasksOf
<1>6. again' \in {again, [again EXCEPT ![e] = @ \cup {Len(sent[e]) + 1}]}
  BY <1>2
<1>. QED
  BY <1>1, <1>2, <1>4, <1>5, <1>6, TextSent

LEMMA ResendStep ==
  ASSUME IInv, NEW e \in Ends, Resend(e)
  PROVE  IInv'
<1>. DEFINE x == sent[e][Len(sent[e])]
            y == buffer[e]
<1>1. SessionTypes /\ Channel(e)
  BY DEF IInv
<1>2. /\ pc[e] = "session" /\ MayWrite(e) /\ ~Foreign(e) /\ sent[e] # << >>
      /\ wire' = Written(e, <<Frame("TEXT", MaskOf(e), y)>>)
      /\ buffer' = [buffer EXCEPT ![e] = Message(y.n, Frame("TEXT", MaskOf(e), y).text)]
      /\ frames' = [frames EXCEPT ![e] = @ + 1]
      /\ sent' = [sent EXCEPT ![e] = Append(@, x)]
      /\ again' = [again EXCEPT ![e] = @ \cup {Len(sent[e]) + 1}]
      /\ setup' = setup /\ pc' = pc /\ lost' = lost /\ odd' = odd
      /\ got' = got /\ trouble' = trouble
  BY DEF Resend, InSession, Encode
<1>3. x \in Messages /\ y \in Messages
  <2>1. sent[e] \in Seq(Messages)
    BY <1>1 DEF SessionTypes
  <2>2. Len(sent[e]) \in 1..Len(sent[e])
    BY <1>2, <2>1
  <2>. QED
    BY <1>1, <2>1, <2>2 DEF SessionTypes
<1>4. y.n = x.n /\ (e = "server" => y.text = x.text)
  BY <1>1, <1>2 DEF Channel, Kept
<1>5. Len(sent[e]) + 1 \in again'[e]
  BY <1>1, <1>2 DEF SessionTypes
<1>. HIDE DEF x, y
<1>6. /\ buffer' \in [Ends -> Messages] /\ \A p \in Ends : p # e => buffer'[p] = buffer[p]
      /\ buffer'[e].n = y.n /\ (e = "server" => buffer'[e].text = y.text)
  <2>. DEFINE b == Message(y.n, Frame("TEXT", MaskOf(e), y).text)
  <2>1. b \in Messages /\ b.n = y.n /\ (e = "server" => b.text = y.text)
    BY <1>3, BufferMasked
  <2>. HIDE DEF b
  <2>2. buffer' = [buffer EXCEPT ![e] = b]
    BY <1>2 DEF b
  <2>. QED
    BY <1>1, <2>1, <2>2 DEF SessionTypes
<1>7. /\ MaskOf(e) \in {<< >>} \cup [1..4 -> Byte]
      /\ e = "client" => MaskOf(e) \in [1..4 -> Byte]
      /\ e = "server" => MaskOf(e) = << >>
  BY MasksOf
<1>8. again' \in {again, [again EXCEPT ![e] = @ \cup {Len(sent[e]) + 1}]}
  BY <1>2
<1>9. y.text = x.text \/ (e = "client" /\ Len(sent[e]) + 1 \in again'[e])
  BY <1>4, <1>5 DEF Ends
<1>10. Foreign(e) \/ (buffer'[e].n = x.n /\ (e = "server" => buffer'[e].text = x.text))
  BY <1>4, <1>6
<1>11. /\ pc[e] = "session" /\ MayWrite(e)
       /\ wire' = Written(e, <<Frame("TEXT", MaskOf(e), y)>>)
       /\ frames' = [frames EXCEPT ![e] = @ + 1]
       /\ sent' = [sent EXCEPT ![e] = Append(@, x)]
       /\ setup' = setup /\ pc' = pc /\ lost' = lost /\ odd' = odd
       /\ got' = got /\ trouble' = trouble
  BY <1>2
<1>. QED
  BY <1>3, <1>4, <1>6, <1>7, <1>8, <1>9, <1>10, <1>11, TextSent, ZenonT(40)

LEMMA CloseStep ==
  ASSUME IInv, NEW e \in Ends, Close(e)
  PROVE  IInv'
<1>1. /\ pc[e] = "session" /\ MayWrite(e)
      /\ wire' = Written(e, <<Frame("CLOSE", MaskOf(e), NoMessage)>>)
      /\ odd' = [odd EXCEPT ![e] = TRUE]
      /\ frames' = [frames EXCEPT ![e] = @ + 1]
      /\ setup' = setup /\ pc' = pc /\ lost' = lost /\ buffer' = buffer /\ sent' = sent
      /\ again' = again /\ got' = got /\ trouble' = trouble
  BY DEF Close, InSession
<1>2. NoMessage \in Messages
  BY DEF NoMessage, Message, Messages
<1>3. MaskOf(e) \in {<< >>} \cup [1..4 -> Byte]
  BY MasksOf
<1>4. "CLOSE" \in Opcodes /\ "CLOSE" # "TEXT"
  BY DEF Opcodes
<1>. QED
  BY <1>1, <1>2, <1>3, <1>4, OddSent

LEMMA ForeignFrameStep ==
  ASSUME IInv, NEW n \in Lengths, ForeignFrame(n)
  PROVE  IInv'
<1>. DEFINE x == Fresh(n)
<1>1. x \in Messages
  BY FreshType
<1>2. PICK opcode \in Opcodes, mask \in Masks \cup {<< >>} :
        /\ wire' = Written("client", <<Frame(opcode, mask, x)>>)
        /\ IF opcode = "TEXT" /\ mask # << >>
           THEN sent' = [sent EXCEPT !["client"] = Append(@, x)] /\ UNCHANGED odd
           ELSE odd' = [odd EXCEPT !["client"] = TRUE] /\ UNCHANGED sent
  BY DEF ForeignFrame
<1>3. /\ Foreign("client") /\ pc["client"] = "session" /\ MayWrite("client")
      /\ frames' = [frames EXCEPT !["client"] = @ + 1]
      /\ setup' = setup /\ pc' = pc /\ lost' = lost /\ buffer' = buffer
      /\ again' = again /\ got' = got /\ trouble' = trouble
  BY DEF ForeignFrame
<1>4. /\ mask \in {<< >>} \cup [1..4 -> Byte]
      /\ mask # << >> => mask \in [1..4 -> Byte]
      /\ "client" \in Ends /\ "client" # "server"
  BY WebAssumption DEF Ends
<1>. HIDE DEF x
<1>5. CASE opcode = "TEXT" /\ mask # << >>
  <2>1. /\ wire' = Written("client", <<Frame("TEXT", mask, x)>>)
        /\ sent' = [sent EXCEPT !["client"] = Append(@, x)] /\ odd' = odd
    BY <1>2, <1>5
  <2>2. buffer' \in [Ends -> Messages]
    BY <1>3 DEF IInv, SessionTypes
  <2>3. again' \in {again, [again EXCEPT !["client"] = @ \cup {Len(sent["client"]) + 1}]}
    BY <1>3
  <2>. QED
    BY <1>1, <1>3, <1>4, <1>5, <2>1, <2>2, <2>3, TextSent
<1>6. CASE opcode # "TEXT" \/ mask = << >>
  <2>1. sent' = sent /\ odd' = [odd EXCEPT !["client"] = TRUE]
    BY <1>2, <1>6
  <2>. QED
    BY <1>1, <1>2, <1>3, <1>4, <1>6, <2>1, OddSent
<1>. QED
  BY <1>5, <1>6

\* Who is in the session finds no head on the wire.
LEMMA NoHead ==
  ASSUME WireTypes, Heads, NEW e \in Ends, pc[e] = "session", ~Foreign(e),
         NEW i \in 1..Len(wire[Peer(e)])
  PROVE  wire[Peer(e)][i].kind \in {"body", "frame"}
<1>1. wire[Peer(e)] \in Seq(Units)
  BY PeerEnd DEF WireTypes
<1>2. wire[Peer(e)][i] \in Units
  BY <1>1
<1>3. wire[Peer(e)][i].kind \in {"request", "response", "body", "frame"}
  BY <1>2, UnitKinds
<1>4. CASE e = "client"
  BY <1>3, <1>4 DEF Heads, Peer
<1>5. CASE e = "server"
  BY <1>3, <1>5 DEF Heads, Peer
<1>. QED
  BY <1>4, <1>5 DEF Ends

LEMMA ReturnStep ==
  ASSUME IInv, NEW e \in Ends, Return(e)
  PROVE  IInv'
<1>1. /\ pc[e] = "session" /\ pc' = [pc EXCEPT ![e] = "over"]
      /\ setup' = setup /\ wire' = wire /\ lost' = lost /\ buffer' = buffer
      /\ frames' = frames /\ sent' = sent /\ again' = again /\ odd' = odd
      /\ got' = got /\ trouble' = trouble
  BY DEF Return, session
<1>2. WireTypes /\ SessionTypes /\ Heads
  BY DEF IInv
<1>3. pc' \in [Ends -> {"start", "asked", "session", "over"}] /\ WireTypes'
  BY <1>1, <1>2 DEF WireTypes
<1>4. SessionTypes'
  BY <1>1, <1>2 DEF SessionTypes
<1>5. \A p \in Ends : pc'[p] = pc[p] \/ (pc[p] = "session" /\ pc'[p] = "over")
  BY <1>1, <1>2 DEF WireTypes
<1>6. Heads'
  <2>1. "client" \in Ends
    BY DEF Ends
  <2>2. \A p \in Ends : pc'[p] = "start" <=> pc[p] = "start"
    BY <1>5
  <2>3. pc'["client"] = "session" => pc["client"] = "session"
    BY <1>5, <2>1
  <2>4. \A p \in Ends : pc[p] = "start" => wire'[p] = << >> /\ ~odd'[p]
    BY <1>1, <1>2 DEF Heads
  <2>5. \A p \in Ends : \A i \in 1..Len(wire'[p]) :
           \/ wire'[p][i].kind \in {"frame", "body"}
           \/ i \in 1..Len(wire[p]) /\ wire'[p][i].kind = wire[p][i].kind
    BY <1>1
  <2>. QED
    BY <1>1, <1>2, <2>2, <2>3, <2>4, <2>5, HeadsStay
<1>7. ASSUME NEW p \in Ends PROVE Channel(p)'
  <2>1. Channel(p) /\ (pc[p] = "over" => pc'[p] = "over")
    BY <1>5 DEF IInv
  <2>. QED
    BY <1>1, <2>1, ChannelStays
<1>. QED
  BY <1>3, <1>4, <1>6, <1>7 DEF IInv

LEMMA LoseStep ==
  ASSUME IInv, Lose
  PROVE  IInv'
<1>1. /\ ~lost /\ lost' = TRUE /\ setup' = setup /\ pc' = pc /\ buffer' = buffer
      /\ frames' = frames /\ sent' = sent /\ again' = again /\ odd' = odd
      /\ got' = got /\ trouble' = trouble
  BY DEF Lose, session
<1>0. PICK k \in 0..Len(wire["client"]), l \in 0..Len(wire["server"]) :
        \E c \in Cuts(wire["client"], k), s \in Cuts(wire["server"], l) :
          wire' = [e \in Ends |-> IF e = "client" THEN c ELSE s]
  BY DEF Lose
<1>2. PICK c \in Cuts(wire["client"], k), s \in Cuts(wire["server"], l) :
        wire' = [e \in Ends |-> IF e = "client" THEN c ELSE s]
  BY <1>0
<1>3. WireTypes /\ SessionTypes /\ Heads /\ "client" \in Ends /\ "server" \in Ends
  BY DEF IInv, Ends
<1>4. ASSUME NEW p \in Ends PROVE \E j \in 0..Len(wire[p]) : wire'[p] \in Cuts(wire[p], j)
  BY <1>2, <1>3 DEF Ends
<1>5. ASSUME NEW p \in Ends
      PROVE  /\ wire'[p] \in Seq(Units) /\ (wire[p] = << >> => wire'[p] = << >>)
             /\ \A i \in 1..Len(wire'[p]) :
                  i \in 1..Len(wire[p]) /\ wire'[p][i].kind = wire[p][i].kind
  <2>. DEFINE w == wire[p]
              w2 == wire'[p]
  <2>1. w \in Seq(Units) /\ Len(w) \in Nat
    BY <1>3 DEF WireTypes
  <2>2. PICK j \in 0..Len(w) : w2 \in Cuts(w, j)
    BY <1>4
  <2>3. /\ w2 \in Seq(Units)
        /\ \/ /\ Len(w2) = j
              /\ \A i \in 1..j : w2[i] = w[i]
           \/ /\ Len(w2) = j + 1 /\ j + 1 \in 1..Len(w) /\ w[j + 1] \in FrameUnits
              /\ \A i \in 1..j : w2[i] = w[i]
              /\ w2[j + 1] = [w[j + 1] EXCEPT !.whole = FALSE] /\ w2[j + 1] \in FrameUnits
    BY <2>1, <2>2, CutUnits, SMTT(60)
  <2>. HIDE DEF w, w2
  <2>4. ASSUME NEW i \in 1..Len(w2) PROVE i \in 1..Len(w) /\ w2[i].kind = w[i].kind
    <3>1. i \in 1..j \/ (i = j + 1 /\ j + 1 \in 1..Len(w) /\ w[j + 1] \in FrameUnits /\ w2[j + 1] \in FrameUnits)
      BY <2>1, <2>3
    <3>2. CASE i \in 1..j
      BY <2>1, <2>3, <3>2
    <3>3. CASE i = j + 1 /\ j + 1 \in 1..Len(w) /\ w[j + 1] \in FrameUnits /\ w2[j + 1] \in FrameUnits
      BY <3>3, UnitKinds
    <3>. QED
      BY <3>1, <3>2, <3>3
  <2>5. w = << >> => w2 = << >>
    <3>1. ASSUME w = << >> PROVE w2 = << >>
      <4>1. Len(w) = 0 /\ Len(w2) \in Nat
        BY <2>3, <3>1
      <4>2. Len(w2) = 0
        BY <2>4, <4>1
      <4>. QED
        BY <2>3, <4>2
    <3>. QED
      BY <3>1
  <2>. QED
    BY <2>3, <2>4, <2>5 DEF w, w2
<1>6. WireTypes'
  <2>1. wire' \in [Ends -> Seq(Units)]
    <3>1. c \in Seq(Units) /\ s \in Seq(Units)
      <4>1. wire'["client"] = c /\ wire'["server"] = s
        BY <1>2, <1>3
      <4>. QED
        BY <1>3, <1>5, <4>1
    <3>. QED
      BY <1>2, <3>1
  <2>. QED
    BY <1>1, <1>3, <2>1 DEF WireTypes
<1>7. SessionTypes'
  BY <1>1, <1>3 DEF SessionTypes
<1>8. Heads'
  <2>1. \A p \in Ends : pc[p] = "start" => wire'[p] = << >> /\ ~odd'[p]
    BY <1>1, <1>3, <1>5 DEF Heads
  <2>2. \A p \in Ends : \A i \in 1..Len(wire'[p]) :
           \/ wire'[p][i].kind \in {"frame", "body"}
           \/ i \in 1..Len(wire[p]) /\ wire'[p][i].kind = wire[p][i].kind
    BY <1>5
  <2>. QED
    BY <1>1, <1>3, <2>1, <2>2, HeadsStay
<1>9. ASSUME NEW p \in Ends PROVE Channel(p)'
  <2>1. PICK j \in 0..Len(wire[p]) : wire'[p] \in Cuts(wire[p], j)
    BY <1>4
  <2>2. Channel(p)
    BY DEF IInv
  <2>. QED
    BY <1>1, <1>3, <2>1, <2>2, ChannelCut
<1>. QED
  BY <1>6, <1>7, <1>8, <1>9 DEF IInv

\* What recv does with outcome o.
RecvTo(e, o) ==
  /\ trouble' = IF o = "none" THEN trouble ELSE [trouble EXCEPT ![e] = o]
  /\ pc' = IF o = "abort" THEN [pc EXCEPT ![e] = "over"] ELSE pc
  /\ got' = IF o = "none"
            THEN [got EXCEPT ![e] = Append(@, Message(Head(wire[Peer(e)]).n,
                                                      Unmasked(e, Head(wire[Peer(e)]))))]
            ELSE got

\* The outcomes have their causes.
LEMMA OutcomeCaused ==
  ASSUME IInv, NEW e \in Ends, InSession(e), AtEnd(Peer(e)) \/ wire[Peer(e)] # << >>,
         NEW o \in Outcome(e)
  PROVE  /\ o \in {"none", "phantom", "abort", "astray"} /\ Caused(Peer(e), o)
         /\ o \notin {"none", "astray"} /\ wire[Peer(e)] # << >> =>
              ~IsMessage(Peer(e), Head(wire[Peer(e)]))
         /\ o = "none" => /\ wire[Peer(e)] # << >> /\ IsMessage(Peer(e), Head(wire[Peer(e)]))
                          /\ Head(wire[Peer(e)]) \in FrameUnits
<1>. DEFINE p == Peer(e)
            u == Head(wire[p])
            Conclusion ==
              /\ o \in {"none", "phantom", "abort", "astray"} /\ Caused(p, o)
              /\ o \notin {"none", "astray"} /\ wire[p] # << >> => ~IsMessage(p, u)
              /\ o = "none" => wire[p] # << >> /\ IsMessage(p, u) /\ u \in FrameUnits
<1>1. /\ WireTypes /\ Heads /\ p \in Ends /\ pc[e] = "session" /\ ~Foreign(e)
      /\ \A i \in 1..Len(wire[p]) : Fits(p, wire[p][i], odd[p], lost, sent[p])
  BY PeerEnd DEF IInv, Channel, InSession
<1>2. ASSUME wire[p] # << >>
      PROVE  /\ u \in Units /\ u.kind \in {"body", "frame"} /\ Fits(p, u, odd[p], lost, sent[p])
             /\ (Arrived(p, "frame") <=> u.kind = "frame") /\ ~AtEnd(p)
  <2>1. u \in Units /\ u = wire[p][1] /\ 1 \in 1..Len(wire[p])
    BY <1>1, <1>2, UnitConsumed
  <2>2. wire[p][1].kind \in {"body", "frame"}
    BY <1>1, <2>1, NoHead
  <2>. QED
    BY <1>1, <1>2, <2>1, <2>2 DEF Arrived, AtEnd
<1>. HIDE DEF p, u
<1>3. CASE wire[p] = << >>
  <2>1. AtEnd(p) /\ o \in {"phantom", "abort"} /\ (o = "abort" => setup.debug)
    BY <1>3 DEF Outcome, p
  <2>2. lost \/ pc[p] = "over"
    BY <2>1 DEF AtEnd
  <2>. QED
    BY <1>3, <2>1, <2>2 DEF Caused, p
<1>4. CASE wire[p] # << >> /\ u.kind = "body"
  <2>1. odd[p] /\ ~Arrived(p, "frame") /\ ~AtEnd(p) /\ ~IsMessage(p, u)
    BY <1>2, <1>4 DEF Fits, IsMessage
  <2>2. o \in {"astray", "abort"} /\ (o = "abort" => setup.debug)
    BY <2>1 DEF Outcome, p
  <2>. QED
    BY <2>1, <2>2 DEF Caused, p, u
<1>5. CASE wire[p] # << >> /\ u.kind = "frame"
  <2>1. /\ u \in FrameUnits /\ Arrived(p, "frame") /\ ~AtEnd(p)
        /\ Meant(p, u) \/ odd[p]
        /\ u.whole \/ lost
        /\ u.form = Form(u.n) /\ u.length = EncodeLength(Bits(u.n), Form(u.n))
        /\ Meant(p, u) => \E k \in 1..Len(sent[p]) : sent[p][k].n = u.n
    BY <1>2, <1>5 DEF Fits, Units, RequestUnits, ResponseUnits, BodyUnits
  <2>2. /\ o \in {"none", "phantom", "abort", "astray"}
        /\ o = "none" => IsText(u) /\ u.whole /\ ReadToEnd(e, u)
        /\ o \in {"phantom", "abort"} => ~IsText(u) \/ ~u.whole
        /\ o = "abort" => setup.debug
        /\ o = "astray" => ~ReadToEnd(e, u)
    BY <2>1 DEF Outcome, p, u
  <2>3. e = "server" <=> p = "client"
    BY DEF Ends, Peer, p
  <2>4. CASE o = "none"
    <3>1. IsMessage(p, u)
      BY <1>5, <2>2, <2>3, <2>4 DEF IsMessage, Meant, ReadToEnd
    <3>. QED
      BY <1>5, <2>1, <2>4, <3>1 DEF Caused, p, u
  <2>5. CASE o \in {"phantom", "abort"}
    <3>1. lost \/ odd[p]
      BY <2>1, <2>2, <2>5 DEF Meant
    <3>2. ~IsMessage(p, u)
      BY <2>2, <2>5 DEF IsMessage, Meant
    <3>. QED
      BY <2>2, <2>5, <3>1, <3>2 DEF Caused, p, u
  <2>6. CASE o = "astray"
    <3>1. ASSUME Meant(p, u) PROVE \E k \in 1..Len(sent[p]) : Misread(sent[p][k].n)
      <4>1. DecodeLength(u.length, u.form) # Bits(u.n)
        BY <2>2, <2>3, <2>6, <3>1 DEF Meant, ReadToEnd
      <4>2. u.n \in Nat
        BY <2>1 DEF FrameUnits
      <4>3. Misread(u.n)
        BY <2>1, <4>1, <4>2, LengthKept
      <4>. QED
        BY <2>1, <3>1, <4>3
    <3>2. odd[p] \/ \E k \in 1..Len(sent[p]) : Misread(sent[p][k].n)
      BY <2>1, <3>1
    <3>. QED
      BY <2>6, <3>2 DEF Caused, p, u
  <2>. QED
    BY <2>2, <2>4, <2>5, <2>6
<1>. QED
  BY <1>2, <1>3, <1>4, <1>5

LEMMA RecvStep ==
  ASSUME IInv, NEW e \in Ends, Recv(e)
  PROVE  IInv'
<1>. DEFINE p == Peer(e)
            u == Head(wire[p])
            x == Message(u.n, Unmasked(e, u))
<1>1. /\ InSession(e) /\ trouble[e] # "astray" /\ (AtEnd(p) \/ wire[p] # << >>)
      /\ wire' = Received(p) /\ setup' = setup /\ lost' = lost /\ buffer' = buffer
      /\ frames' = frames /\ sent' = sent /\ again' = again /\ odd' = odd
  BY DEF Recv
<1>2. PICK o \in Outcome(e) : RecvTo(e, o)
  BY DEF Recv, RecvTo
<1>3. /\ o \in {"none", "phantom", "abort", "astray"} /\ Caused(p, o)
      /\ o \notin {"none", "astray"} /\ wire[p] # << >> => ~IsMessage(p, u)
      /\ o = "none" => wire[p] # << >> /\ IsMessage(p, u) /\ u \in FrameUnits
  BY <1>1, OutcomeCaused
<1>4. /\ WireTypes /\ SessionTypes /\ Heads /\ Channel(p) /\ Channel(e)
      /\ p \in Ends /\ p # e /\ Peer(p) = e
      /\ pc[e] = "session" /\ ~Foreign(e)
  BY <1>1, PeerEnd DEF IInv, InSession
<1>5. x = Message(u.n, Unmasked(e, u)) /\ u = Head(wire[p])
  OBVIOUS
<1>6. o = "none" => x \in Messages /\ x.n = u.n /\ x.text = Unmasked(e, u)
  <2>1. ASSUME o = "none" PROVE x \in Messages /\ x.n = u.n /\ x.text = Unmasked(e, u)
    <3>1. u \in FrameUnits /\ Fits(p, u, odd[p], lost, sent[p])
      <4>1. u = wire[p][1] /\ 1 \in 1..Len(wire[p])
        BY <1>3, <1>4, <2>1, UnitConsumed
      <4>. QED
        BY <1>3, <1>4, <2>1, <4>1 DEF Channel
    <3>. HIDE DEF u, p
    <3>2. u.text \in Seq(Byte) /\ u.n \in Nat /\ u.kind = "frame"
      BY <3>1 DEF FrameUnits
    <3>3. Unmasked(e, u) \in Seq(Byte)
      <4>1. CASE e = "server"
        <5>1. p = "client"
          BY <4>1 DEF p, Peer
        <5>2. u.mask # << >> /\ u.mask \in {<< >>} \cup [1..4 -> Byte]
          BY <1>3, <2>1, <3>1, <5>1 DEF IsMessage, Meant, FrameUnits, p, u
        <5>. QED
          BY <3>2, <4>1, <5>2, MaskedType DEF Unmasked
      <4>2. CASE e # "server"
        BY <3>2, <4>2 DEF Unmasked
      <4>. QED
        BY <4>1, <4>2
    <3>. QED
      BY <3>2, <3>3 DEF Message, Messages
  <2>. QED
    BY <2>1
<1>. HIDE DEF p, u, x
<1>7. /\ \A q \in Ends : q # p => wire'[q] = wire[q]
      /\ wire'[p] = IF wire[p] = << >> THEN wire[p] ELSE Tail(wire[p])
      /\ wire' \in [Ends -> Seq(Units)]
      /\ wire[p] # << >> =>
           \A i \in 1..Len(Tail(wire[p])) :
             i + 1 \in 1..Len(wire[p]) /\ Tail(wire[p])[i] = wire[p][i + 1]
  <2>1. CASE wire[p] = << >>
    BY <1>1, <1>4, <2>1 DEF Received, WireTypes
  <2>2. CASE wire[p] # << >>
    <3>1. wire' = Consumed(p)
      BY <1>1, <2>2 DEF Received
    <3>. QED
      BY <1>4, <2>2, <3>1, UnitConsumed
  <2>. QED
    BY <2>1, <2>2
<1>8. /\ pc' \in [Ends -> {"start", "asked", "session", "over"}]
      /\ \A q \in Ends : q # e => pc'[q] = pc[q]
      /\ pc'[e] \in {"session", "over"}
  BY <1>2, <1>4 DEF RecvTo, WireTypes
<1>9. /\ trouble' \in [Ends -> {"none", "phantom", "abort", "astray"}]
      /\ \A q \in Ends : q # e => trouble'[q] = trouble[q]
      /\ trouble'[e] = IF o = "none" THEN trouble[e] ELSE o
  BY <1>2, <1>3, <1>4 DEF RecvTo, SessionTypes
<1>10. /\ got' \in [Ends -> Seq(Messages)]
       /\ \A q \in Ends : q # e => got'[q] = got[q]
       /\ got'[e] = IF o = "none" THEN Append(got[e], x) ELSE got[e]
  <2>1. got' = IF o = "none" THEN [got EXCEPT ![e] = Append(@, x)] ELSE got
    BY <1>2, <1>5 DEF RecvTo, p
  <2>. QED
    BY <1>4, <1>6, <2>1 DEF SessionTypes
<1>11. WireTypes'
  BY <1>1, <1>4, <1>7, <1>8 DEF WireTypes
<1>12. SessionTypes'
  BY <1>1, <1>4, <1>9, <1>10 DEF SessionTypes
<1>13. Heads'
  <2>1. \A q \in Ends : pc'[q] = "start" <=> pc[q] = "start"
    BY <1>4, <1>8
  <2>2. pc'["client"] = "session" => pc["client"] = "session"
    BY <1>4, <1>8 DEF Ends
  <2>3. \A q \in Ends : pc[q] = "start" => wire'[q] = << >> /\ ~odd'[q]
    <3>1. ASSUME NEW q \in Ends, pc[q] = "start" PROVE wire'[q] = << >> /\ ~odd'[q]
      <4>1. wire[q] = << >> /\ ~odd[q]
        BY <1>4, <3>1 DEF Heads
      <4>. QED
        BY <1>1, <1>7, <4>1
    <3>. QED
      BY <3>1
  <2>4. \A q \in Ends : \A i \in 1..Len(wire'[q]) :
           \/ wire'[q][i].kind \in {"frame", "body"}
           \/ i \in 1..Len(wire[q]) /\ wire'[q][i].kind = wire[q][i].kind
    <3>1. \A i \in 1..Len(wire[p]) : wire[p][i].kind \in {"body", "frame"}
      BY <1>4, NoHead DEF p
    <3>2. ASSUME NEW i \in 1..Len(wire'[p]) PROVE wire'[p][i].kind \in {"frame", "body"}
      <4>1. CASE wire[p] = << >>
        BY <1>7, <3>1, <4>1
      <4>2. CASE wire[p] # << >>
        BY <1>7, <3>1, <4>2
      <4>. QED
        BY <4>1, <4>2
    <3>. QED
      BY <1>7, <3>2
  <2>. QED
    BY <1>1, <1>4, <2>1, <2>2, <2>3, <2>4, HeadsStay
<1>14. Channel(p)'
  <2>1. CASE o = "none"
    <3>1. /\ wire[p] # << >> /\ wire'[p] = Tail(wire[p]) /\ IsMessage(p, Head(wire[p]))
          /\ got'[Peer(p)] = Append(got[Peer(p)], x) /\ x \in Messages
          /\ x.n = Head(wire[p]).n /\ x.text = Unmasked(Peer(p), Head(wire[p]))
          /\ trouble[Peer(p)] # "astray" /\ trouble'[Peer(p)] = trouble[Peer(p)]
          /\ pc'[p] = pc[p]
      BY <1>1, <1>3, <1>4, <1>5, <1>6, <1>7, <1>8, <1>9, <1>10, <2>1
    <3>. QED
      BY <1>1, <1>4, <3>1, MessageTaken
  <2>2. CASE o # "none"
    <3>1. /\ \/ wire'[p] = wire[p]
             \/ /\ wire[p] # << >> /\ wire'[p] = Tail(wire[p])
                /\ ~IsMessage(p, Head(wire[p])) \/ trouble'[Peer(p)] = "astray"
          /\ got'[Peer(p)] = got[Peer(p)] /\ Caused(p, trouble'[Peer(p)])
          /\ trouble[Peer(p)] # "astray" /\ pc'[p] = pc[p]
      BY <1>1, <1>3, <1>4, <1>5, <1>7, <1>8, <1>9, <1>10, <2>2
    <3>. QED
      BY <1>1, <1>4, <3>1, HeadTaken
  <2>. QED
    BY <2>1, <2>2
<1>15. Channel(e)'
  <2>1. Peer(e) \in Ends /\ Peer(e) # e /\ pc[e] # "over"
    BY <1>4, PeerEnd
  <2>. QED
    BY <1>1, <1>4, <1>7, <1>9, <1>10, <2>1, ChannelStays
<1>16. \A q \in Ends : q = p \/ q = e
  BY PeerEnd DEF Ends, Peer, p
<1>. QED
  BY <1>11, <1>12, <1>13, <1>14, <1>15, <1>16 DEF IInv

-----------------------------------------------------------------------------
(* The steps of the handshake. *)

LEMMA HeadFits ==
  /\ \A u \in RequestUnits \cup ResponseUnits :
       /\ u \in Units /\ u.kind \in {"request", "response"}
       /\ \A p, o, l, m : Fits(p, u, o, l, m) /\ ~IsMessage(p, u)
  /\ Body \in Units /\ Body.kind = "body" /\ \A p : ~IsMessage(p, Body)
  /\ \A p, o, l, m : o => Fits(p, Body, o, l, m)
<1>1. ASSUME NEW u \in RequestUnits \cup ResponseUnits
      PROVE  u \in Units /\ u.kind \in {"request", "response"}
  BY DEF RequestUnits, ResponseUnits, Units
<1>2. Body \in Units /\ Body.kind = "body"
  BY HeadTypes DEF Units, Body
<1>3. ASSUME NEW u, u.kind \in {"request", "response"}
      PROVE  \A p, o, l, m : Fits(p, u, o, l, m) /\ ~IsMessage(p, u)
  BY <1>3 DEF IsMessage, Fits
<1>4. (\A p : ~IsMessage(p, Body)) /\ \A p, o, l, m : o => Fits(p, Body, o, l, m)
  BY <1>2 DEF IsMessage, Fits
<1>. QED
  BY <1>1, <1>2, <1>3, <1>4

LEMMA Concat1 ==
  ASSUME NEW u, NEW v
  PROVE  <<u>> \o <<v>> = <<u, v>>
<1>. DEFINE S == {u, v}
<1>1. <<u>> \in Seq(S) /\ <<v>> \in Seq(S) /\ <<u, v>> \in Seq(S)
  OBVIOUS
<1>2. Len(<<u>> \o <<v>>) = 2 /\ Len(<<u, v>>) = 2
  BY <1>1
<1>3. \A i \in 1..2 : (<<u>> \o <<v>>)[i] = <<u, v>>[i]
  BY <1>1
<1>. QED
  BY <1>1, <1>2, <1>3, ConcatProperties, SeqEqual

LEMMA Append1 ==
  ASSUME NEW u \in Units
  PROVE  LET w == Append(<< >>, u) IN
         w \in Seq(Units) /\ Len(w) = 1 /\ w[1] = u
OBVIOUS

LEMMA Append2 ==
  ASSUME NEW u \in Units, NEW v \in Units
  PROVE  LET w == Append(Append(<< >>, u), v) IN
         w \in Seq(Units) /\ Len(w) = 2 /\ w[1] = u /\ w[2] = v
OBVIOUS

\* The first units of an end that starts: a head, and a body or none.
LEMMA FirstUnits ==
  ASSUME NEW u \in RequestUnits \cup ResponseUnits, NEW w,
         w \in {<< >>, Append(<< >>, u), Append(Append(<< >>, u), Body)}
  PROVE  \A i \in 1..Len(w) : w[i].kind = "body" \/ (i = 1 /\ w[i].kind = u.kind)
<1>1. u \in Units /\ Body \in Units /\ Body.kind = "body"
  BY HeadFits
<1>2. CASE w = << >>
  BY <1>2
<1>3. CASE w = Append(<< >>, u)
  <2>1. Len(w) = 1 /\ w[1] = u
    BY <1>1, <1>3, Append1
  <2>. QED
    BY <2>1
<1>4. CASE w = Append(Append(<< >>, u), Body)
  <2>1. Len(w) = 2 /\ w[1] = u /\ w[2] = Body
    BY <1>1, <1>4, Append2
  <2>2. \A i \in 1..Len(w) : i = 1 \/ i = 2
    BY <2>1
  <2>. QED
    BY <1>1, <2>1, <2>2
<1>. QED
  BY <1>2, <1>3, <1>4

LEMMA SendRequestStep ==
  ASSUME IInv, SendRequest
  PROVE  IInv'
<1>. DEFINE u == Request(TRUE, {"Upgrade", "Sec-WebSocket-Key"})
<1>1. /\ ~Foreign("client") /\ pc["client"] = "start" /\ wire' = Written("client", <<u>>)
      /\ setup' = setup /\ lost' = lost /\ buffer' = buffer
      /\ frames' = frames /\ sent' = sent /\ again' = again /\ odd' = odd
      /\ got' = got /\ trouble' = trouble
  BY DEF SendRequest, session
<1>2. PICK next \in {"asked"} \cup (IF lost THEN {"over"} ELSE {}) :
        pc' = [pc EXCEPT !["client"] = next]
  BY DEF SendRequest
<1>3. u \in RequestUnits
  BY DEF Request, RequestUnits, Names
<1>. HIDE DEF u
<1>4. /\ WireTypes /\ SessionTypes /\ Heads /\ Channel("client") /\ Channel("server")
      /\ "client" \in Ends /\ "server" \in Ends /\ Peer("client") = "server" /\ Peer("server") = "client"
  BY DEF IInv, Ends, Peer
<1>5. u \in Units /\ ~IsMessage("client", u) /\ u.kind = "request" /\ Fits("client", u, odd["client"], lost, sent["client"])
  <2>1. u.kind = "request"
    BY <1>3 DEF RequestUnits
  <2>. QED
    BY <1>3, <2>1, HeadFits
<1>6. /\ wire' \in [Ends -> Seq(Units)] /\ wire'["server"] = wire["server"]
      /\ wire'["client"] = IF lost THEN wire["client"] ELSE Append(wire["client"], u)
      /\ wire["client"] = << >> /\ ~odd["client"]
  <2>1. wire["client"] = << >> /\ ~odd["client"]
    BY <1>1, <1>4 DEF Heads
  <2>2. /\ Written("client", <<u>>) \in [Ends -> Seq(Units)]
        /\ \A p \in Ends : p # "client" => Written("client", <<u>>)[p] = wire[p]
        /\ Written("client", <<u>>)["client"] = IF lost THEN wire["client"] ELSE Append(wire["client"], u)
    BY <1>4, <1>5, UnitWritten
  <2>. QED
    BY <1>1, <1>4, <2>1, <2>2
<1>7. /\ pc' \in [Ends -> {"start", "asked", "session", "over"}] /\ pc'["server"] = pc["server"]
      /\ pc'["client"] \in {"asked", "over"}
  BY <1>2, <1>4 DEF WireTypes
<1>8. WireTypes'
  BY <1>1, <1>4, <1>6, <1>7 DEF WireTypes
<1>9. SessionTypes'
  BY <1>1, <1>4 DEF SessionTypes
<1>10. Heads'
  <2>1. wire'["client"] \in {<< >>, Append(<< >>, u), Append(Append(<< >>, u), Body)}
    BY <1>6
  <2>2. \A i \in 1..Len(wire'["client"]) :
          wire'["client"][i].kind = "body" \/ (i = 1 /\ wire'["client"][i].kind = "request")
    BY <1>3, <1>5, <2>1, FirstUnits
  <2>3. lost => wire'["client"] = << >> /\ Len(wire'["client"]) = 0
    BY <1>6
  <2>4. ~lost => pc["server"] = "start"
    BY <1>1, <1>4 DEF Heads
  <2>5. \A i \in 1..Len(wire'["client"]) :
          /\ wire'["client"][i].kind = "request" => i = 1 /\ pc'["server"] = "start"
          /\ wire'["client"][i].kind # "response"
    BY <1>7, <2>2, <2>3, <2>4
  <2>6. \A i \in 1..Len(wire'["server"]) :
          /\ wire'["server"][i].kind = "response" => i = 1 /\ (Foreign("client")' \/ pc'["client"] # "session")
          /\ wire'["server"][i].kind # "request"
    BY <1>4, <1>6, <1>7 DEF Heads
  <2>7. \A e \in Ends : pc'[e] = "start" => wire'[e] = << >> /\ ~odd'[e]
    BY <1>1, <1>4, <1>6, <1>7 DEF Heads, Ends
  <2>. QED
    BY <1>7, <2>5, <2>6, <2>7 DEF Heads
<1>11. Channel("client")'
  <2>1. wire'["client"] \in {wire["client"], Append(wire["client"], u), Append(Append(wire["client"], u), u)}
    BY <1>6
  <2>. QED
    BY <1>1, <1>4, <1>5, <1>7, <2>1, OthersWritten
<1>12. Channel("server")'
  BY <1>1, <1>4, <1>6, <1>7, ChannelStays
<1>. QED
  BY <1>8, <1>9, <1>10, <1>11, <1>12 DEF IInv, Ends

LEMMA ForeignRequestStep ==
  ASSUME IInv, ForeignRequest
  PROVE  IInv'
<1>1. /\ Foreign("client") /\ pc["client"] = "start"
      /\ pc' = [pc EXCEPT !["client"] = "session"]
      /\ setup' = setup /\ lost' = lost /\ buffer' = buffer
      /\ frames' = frames /\ sent' = sent /\ again' = again
      /\ got' = got /\ trouble' = trouble
  BY DEF ForeignRequest
<1>2. PICK good \in BOOLEAN, names \in SUBSET Names :
        /\ wire' = Written("client", <<Request(good, names)>> \o BodyOf(names))
        /\ odd' = [odd EXCEPT !["client"] = "Content-Length" \in names]
  BY DEF ForeignRequest
<1>. DEFINE u == Request(good, names)
<1>3. u \in RequestUnits
  BY HeadTypes
<1>4. wire' = Written("client", <<u>> \o BodyOf(names))
  BY <1>2
<1>. HIDE DEF u
<1>5. /\ WireTypes /\ SessionTypes /\ Heads /\ Channel("client") /\ Channel("server")
      /\ "client" \in Ends /\ "server" \in Ends /\ Peer("client") = "server" /\ Peer("server") = "client"
  BY DEF IInv, Ends, Peer
<1>6. u \in Units /\ u.kind = "request" /\ \A p, o, l, m : Fits(p, u, o, l, m) /\ ~IsMessage(p, u)
  <2>1. u.kind = "request"
    BY <1>3 DEF RequestUnits
  <2>. QED
    BY <1>3, <2>1, HeadFits
<1>7. wire["client"] = << >> /\ ~odd["client"]
  BY <1>1, <1>5 DEF Heads
<1>8. /\ wire' \in [Ends -> Seq(Units)] /\ wire'["server"] = wire["server"]
      /\ \/ wire'["client"] = wire["client"] /\ lost
         \/ wire'["client"] = Append(wire["client"], u) /\ ~lost
         \/ /\ "Content-Length" \in names /\ ~lost
            /\ wire'["client"] = Append(Append(wire["client"], u), Body)
  <2>1. CASE "Content-Length" \in names
    <3>1. <<u>> \o BodyOf(names) = <<u, Body>>
      BY <2>1, Concat1 DEF BodyOf
    <3>2. /\ Written("client", <<u, Body>>) \in [Ends -> Seq(Units)]
          /\ \A p \in Ends : p # "client" => Written("client", <<u, Body>>)[p] = wire[p]
          /\ Written("client", <<u, Body>>)["client"] =
               IF lost THEN wire["client"] ELSE Append(Append(wire["client"], u), Body)
      BY <1>5, <1>6, HeadFits, UnitsWritten
    <3>. QED
      BY <1>4, <1>5, <2>1, <3>1, <3>2
  <2>2. CASE "Content-Length" \notin names
    <3>1. <<u>> \o BodyOf(names) = <<u>>
      BY <1>6, <2>2 DEF BodyOf
    <3>2. /\ Written("client", <<u>>) \in [Ends -> Seq(Units)]
          /\ \A p \in Ends : p # "client" => Written("client", <<u>>)[p] = wire[p]
          /\ Written("client", <<u>>)["client"] = IF lost THEN wire["client"] ELSE Append(wire["client"], u)
      BY <1>5, <1>6, UnitWritten
    <3>. QED
      BY <1>4, <1>5, <3>1, <3>2
  <2>. QED
    BY <2>1, <2>2
<1>9. /\ pc' \in [Ends -> {"start", "asked", "session", "over"}] /\ pc'["server"] = pc["server"]
      /\ pc'["client"] = "session"
  BY <1>1, <1>5 DEF WireTypes
<1>10. /\ odd' \in [Ends -> BOOLEAN] /\ odd'["server"] = odd["server"]
       /\ odd'["client"] <=> "Content-Length" \in names
  <2>. DEFINE b == "Content-Length" \in names
  <2>1. b \in BOOLEAN /\ odd' = [odd EXCEPT !["client"] = b]
    BY <1>2
  <2>. HIDE DEF b
  <2>2. odd' \in [Ends -> BOOLEAN] /\ odd'["server"] = odd["server"] /\ odd'["client"] = b
    BY <1>5, <2>1 DEF SessionTypes
  <2>. QED
    BY <2>2 DEF b
<1>11. WireTypes'
  BY <1>1, <1>5, <1>8, <1>9 DEF WireTypes
<1>12. SessionTypes'
  BY <1>1, <1>5, <1>10 DEF SessionTypes
<1>13. Heads'
  <2>1. wire'["client"] \in {<< >>, Append(<< >>, u), Append(Append(<< >>, u), Body)}
    BY <1>7, <1>8
  <2>2. \A i \in 1..Len(wire'["client"]) :
          wire'["client"][i].kind = "body" \/ (i = 1 /\ wire'["client"][i].kind = "request")
    BY <1>3, <1>6, <2>1, FirstUnits
  <2>3. lost => wire'["client"] = << >> /\ Len(wire'["client"]) = 0
    BY <1>7, <1>8
  <2>4. ~lost => pc["server"] = "start"
    BY <1>1, <1>5 DEF Heads
  <2>5. \A i \in 1..Len(wire'["client"]) :
          /\ wire'["client"][i].kind = "request" => i = 1 /\ pc'["server"] = "start"
          /\ wire'["client"][i].kind # "response"
    BY <1>9, <2>2, <2>3, <2>4
  <2>6. Foreign("client")'
    BY <1>1 DEF Foreign
  <2>7. \A i \in 1..Len(wire'["server"]) :
          /\ wire'["server"][i].kind = "response" => i = 1 /\ (Foreign("client")' \/ pc'["client"] # "session")
          /\ wire'["server"][i].kind # "request"
    BY <1>5, <1>8, <2>6 DEF Heads
  <2>8. \A e \in Ends : pc'[e] = "start" => wire'[e] = << >> /\ ~odd'[e]
    BY <1>5, <1>8, <1>9, <1>10 DEF Heads, Ends
  <2>. QED
    BY <1>9, <2>5, <2>6, <2>7, <2>8 DEF Heads
<1>14. Channel("client")'
  <2>1. /\ wire'["client"] \in {wire["client"], Append(wire["client"], u), Append(Append(wire["client"], u), Body)}
    BY <1>8
  <2>. QED
    BY <1>1, <1>5, <1>6, <1>7, <1>8, <1>9, <1>10, HeadFits, OthersWritten
<1>15. Channel("server")'
  BY <1>1, <1>5, <1>8, <1>9, <1>10, ChannelStays
<1>. QED
  BY <1>11, <1>12, <1>13, <1>14, <1>15 DEF IInv, Ends

\* What the server has answered when it gets to the session, or is over.
LEMMA Answered ==
  ASSUME WireTypes, SessionTypes, Heads, pc["server"] = "start",
         Arrived("client", "request"), Answer(Head(wire["client"]))
  PROVE  /\ wire["client"] # << >> /\ wire["server"] = << >>
         /\ wire' \in [Ends -> Seq(Units)] /\ wire'["client"] = Tail(wire["client"])
         /\ \E u \in ResponseUnits :
              \/ wire'["server"] \in {<< >>, Append(<< >>, u)}
              \/ odd'["server"] /\ wire'["server"] = Append(Append(<< >>, u), Body)
         /\ pc' \in {[pc EXCEPT !["server"] = "session"], [pc EXCEPT !["server"] = "over"]}
         /\ odd' \in {odd, [odd EXCEPT !["server"] = TRUE]}
<1>. DEFINE read == Decoded("client")
            reply(units) == IF lost THEN read ELSE [read EXCEPT !["server"] = @ \o units]
            shake == Response({"Upgrade"})
            page == Response({"Content-Length"})
<1>1. /\ shake \in ResponseUnits /\ page \in ResponseUnits
  BY DEF Response, ResponseUnits, Names
<1>2. shake \in Units /\ page \in Units /\ Body \in Units
  BY <1>1, HeadFits
<1>3. "client" \in Ends /\ "server" \in Ends /\ wire["client"] # << >> /\ wire["server"] = << >>
  BY DEF Ends, Arrived, Heads
<1>4. /\ read \in [Ends -> Seq(Units)] /\ read["client"] = Tail(wire["client"]) /\ read["server"] = << >>
  BY <1>3, HeadDecoded, UnitConsumed
<1>5. /\ \/ wire' = read
         \/ wire' = reply(<<shake>>)
         \/ wire' = reply(<<page, Body>>) /\ odd' = [odd EXCEPT !["server"] = TRUE]
      /\ pc' \in {[pc EXCEPT !["server"] = "session"], [pc EXCEPT !["server"] = "over"]}
      /\ odd' \in {odd, [odd EXCEPT !["server"] = TRUE]}
  BY DEF Answer, Page, Serves
<1>. HIDE DEF read, shake, page
<1>6. << >> \o <<shake>> = Append(<< >>, shake) /\ Append(<< >>, shake) \in Seq(Units)
  BY <1>2
<1>7. /\ << >> \o <<page, Body>> = Append(Append(<< >>, page), Body)
      /\ Append(Append(<< >>, page), Body) \in Seq(Units)
  BY <1>2
<1>8. CASE wire' = read
  BY <1>1, <1>3, <1>4, <1>5, <1>8
<1>9. CASE wire' = reply(<<shake>>)
  <2>1. CASE lost
    BY <1>1, <1>3, <1>4, <1>5, <1>9, <2>1
  <2>2. CASE ~lost
    <3>1. wire' = [read EXCEPT !["server"] = @ \o <<shake>>]
      BY <1>9, <2>2
    <3>2. /\ wire' \in [Ends -> Seq(Units)] /\ wire'["client"] = read["client"]
          /\ wire'["server"] = Append(<< >>, shake)
      BY <1>3, <1>4, <1>6, <3>1
    <3>. QED
      BY <1>1, <1>3, <1>4, <1>5, <3>2
  <2>. QED
    BY <2>1, <2>2
<1>10. CASE wire' = reply(<<page, Body>>) /\ odd' = [odd EXCEPT !["server"] = TRUE]
  <2>0. odd'["server"]
    BY <1>3, <1>10 DEF SessionTypes
  <2>1. CASE lost
    BY <1>1, <1>3, <1>4, <1>5, <1>10, <2>1
  <2>2. CASE ~lost
    <3>1. wire' = [read EXCEPT !["server"] = @ \o <<page, Body>>]
      BY <1>10, <2>2
    <3>2. /\ wire' \in [Ends -> Seq(Units)] /\ wire'["client"] = read["client"]
          /\ wire'["server"] = Append(Append(<< >>, page), Body)
      BY <1>3, <1>4, <1>7, <3>1
    <3>. QED
      BY <1>1, <1>3, <1>4, <1>5, <2>0, <3>2
  <2>. QED
    BY <2>1, <2>2
<1>. QED
  BY <1>5, <1>8, <1>9, <1>10

LEMMA ServeStep ==
  ASSUME IInv, Serve
  PROVE  IInv'
<1>1. /\ pc["server"] = "start"
      /\ setup' = setup /\ lost' = lost /\ buffer' = buffer
      /\ frames' = frames /\ sent' = sent /\ again' = again
      /\ got' = got /\ trouble' = trouble
  BY DEF Serve
<1>2. /\ WireTypes /\ SessionTypes /\ Heads /\ Channel("client") /\ Channel("server")
      /\ "client" \in Ends /\ "server" \in Ends /\ Peer("client") = "server" /\ Peer("server") = "client"
  BY DEF IInv, Ends, Peer
<1>3. wire["server"] = << >> /\ ~odd["server"]
  BY <1>1, <1>2 DEF Heads
<1>4. CASE Arrived("client", "request") /\ Answer(Head(wire["client"]))
  <2>1. /\ wire["client"] # << >>
        /\ wire' \in [Ends -> Seq(Units)] /\ wire'["client"] = Tail(wire["client"])
        /\ \E u \in ResponseUnits :
             \/ wire'["server"] \in {<< >>, Append(<< >>, u)}
             \/ odd'["server"] /\ wire'["server"] = Append(Append(<< >>, u), Body)
        /\ pc' \in {[pc EXCEPT !["server"] = "session"], [pc EXCEPT !["server"] = "over"]}
        /\ odd' \in {odd, [odd EXCEPT !["server"] = TRUE]}
    BY <1>1, <1>2, <1>4, Answered
  <2>2. PICK u \in ResponseUnits :
           \/ wire'["server"] \in {<< >>, Append(<< >>, u)}
           \/ odd'["server"] /\ wire'["server"] = Append(Append(<< >>, u), Body)
    BY <2>1
  <2>3. /\ pc' \in [Ends -> {"start", "asked", "session", "over"}] /\ pc'["client"] = pc["client"]
        /\ pc'["server"] \in {"session", "over"}
    BY <1>2, <2>1 DEF WireTypes
  <2>4. odd' \in [Ends -> BOOLEAN] /\ odd'["client"] = odd["client"]
    BY <1>2, <2>1 DEF SessionTypes
  <2>5. u \in Units /\ u.kind = "response" /\ \A p, o, l, m : Fits(p, u, o, l, m) /\ ~IsMessage(p, u)
    <3>1. u.kind = "response"
      BY DEF ResponseUnits
    <3>. QED
      BY <3>1, HeadFits
  <2>6. /\ Head(wire["client"]).kind = "request"
        /\ \A i \in 1..Len(Tail(wire["client"])) :
             i + 1 \in 1..Len(wire["client"]) /\ Tail(wire["client"])[i] = wire["client"][i + 1]
             /\ i + 1 # 1
    <3>1. \A i \in 1..Len(Tail(wire["client"])) :
             i + 1 \in 1..Len(wire["client"]) /\ Tail(wire["client"])[i] = wire["client"][i + 1]
      BY <1>2, <2>1, UnitConsumed
    <3>. QED
      BY <1>4, <3>1 DEF Arrived
  <2>7. WireTypes'
    BY <1>1, <1>2, <2>1, <2>3 DEF WireTypes
  <2>8. SessionTypes'
    BY <1>1, <1>2, <2>4 DEF SessionTypes
  <2>9. Heads'
    <3>1. \A i \in 1..Len(wire'["client"]) :
            /\ wire'["client"][i].kind = "request" => i = 1 /\ pc'["server"] = "start"
            /\ wire'["client"][i].kind # "response"
      BY <1>2, <2>1, <2>6 DEF Heads
    <3>2. \A i \in 1..Len(wire'["server"]) :
            wire'["server"][i].kind = "body" \/ (i = 1 /\ wire'["server"][i].kind = "response")
      <4>1. wire'["server"] \in {<< >>, Append(<< >>, u), Append(Append(<< >>, u), Body)}
        BY <2>2
      <4>. QED
        BY <2>5, <4>1, FirstUnits
    <3>3. Foreign("client")' \/ pc'["client"] # "session"
      BY <1>1, <1>2, <2>3 DEF Heads, Foreign
    <3>4. \A i \in 1..Len(wire'["server"]) :
            /\ wire'["server"][i].kind = "response" => i = 1 /\ (Foreign("client")' \/ pc'["client"] # "session")
            /\ wire'["server"][i].kind # "request"
      BY <3>2, <3>3
    <3>5. pc["client"] # "start"
      BY <1>2, <2>1 DEF Heads
    <3>6. \A e \in Ends : pc'[e] # "start"
      BY <2>3, <3>5 DEF Ends
    <3>. QED
      BY <1>2, <2>3, <3>1, <3>4, <3>6 DEF Heads
  <2>10. Channel("client")'
    <3>1. ~IsMessage("client", Head(wire["client"]))
      BY <2>6 DEF IsMessage
    <3>2. Caused("client", trouble'[Peer("client")])
      BY <1>1, <1>2 DEF Channel
    <3>. QED
      BY <1>1, <1>2, <2>1, <2>3, <2>4, <3>1, <3>2, HeadTaken
  <2>11. Channel("server")'
    <3>1. CASE wire'["server"] \in {<< >>, Append(<< >>, u)}
      <4>1. wire'["server"] \in {wire["server"], Append(wire["server"], u), Append(Append(wire["server"], u), u)}
        BY <1>3, <3>1
      <4>. QED
        BY <1>1, <1>2, <1>3, <2>5, <4>1, OthersWritten
    <3>2. CASE odd'["server"] /\ wire'["server"] = Append(Append(<< >>, u), Body)
      <4>1. wire'["server"] \in {wire["server"], Append(wire["server"], u), Append(Append(wire["server"], u), Body)}
        BY <1>3, <3>2
      <4>2. /\ Body \in Units /\ ~IsMessage("server", Body)
            /\ Fits("server", Body, odd'["server"], lost, sent["server"])
        BY <3>2, HeadFits
      <4>. QED
        BY <1>1, <1>2, <1>3, <2>5, <4>1, <4>2, OthersWritten
    <3>. QED
      BY <2>2, <3>1, <3>2
  <2>. QED
    BY <2>7, <2>8, <2>9, <2>10, <2>11 DEF IInv, Ends
<1>5. CASE AtEnd("client") /\ pc' = [pc EXCEPT !["server"] = "over"] /\ wire' = wire /\ odd' = odd
  <2>1. /\ pc' \in [Ends -> {"start", "asked", "session", "over"}] /\ pc'["client"] = pc["client"]
        /\ pc'["server"] = "over"
    BY <1>2, <1>5 DEF WireTypes
  <2>2. WireTypes' /\ SessionTypes'
    BY <1>1, <1>2, <1>5, <2>1 DEF WireTypes, SessionTypes
  <2>3. wire["client"] = << >> /\ Len(wire["client"]) = 0 /\ (lost \/ pc["client"] = "over")
    BY <1>5 DEF AtEnd
  <2>4. Heads'
    <3>1. \A i \in 1..Len(wire'["client"]) :
            /\ wire'["client"][i].kind = "request" => i = 1 /\ pc'["server"] = "start"
            /\ wire'["client"][i].kind # "response"
      BY <1>5, <2>3
    <3>2. \A i \in 1..Len(wire'["server"]) :
            /\ wire'["server"][i].kind = "response" => i = 1 /\ (Foreign("client")' \/ pc'["client"] # "session")
            /\ wire'["server"][i].kind # "request"
      BY <1>1, <1>2, <1>5, <2>1 DEF Heads, Foreign
    <3>3. \A e \in Ends : pc'[e] = "start" => wire'[e] = << >> /\ ~odd'[e]
      BY <1>2, <1>5, <2>1 DEF Heads, Ends
    <3>4. pc'["client"] = "start" => lost'
      BY <1>1, <2>1, <2>3
    <3>. QED
      BY <2>1, <3>1, <3>2, <3>3, <3>4 DEF Heads
  <2>5. ASSUME NEW p \in Ends PROVE Channel(p)'
    <3>1. pc[p] = "over" => pc'[p] = "over"
      BY <1>1, <2>1 DEF Ends
    <3>2. Channel(p)
      BY DEF IInv
    <3>. QED
      BY <1>1, <1>5, <3>1, <3>2, ChannelStays
  <2>. QED
    BY <2>2, <2>4, <2>5 DEF IInv
<1>. QED
  BY <1>4, <1>5 DEF Serve

LEMMA RecvResponseStep ==
  ASSUME IInv, RecvResponse
  PROVE  IInv'
<1>1. /\ pc["client"] = "asked"
      /\ setup' = setup /\ lost' = lost /\ buffer' = buffer
      /\ frames' = frames /\ sent' = sent /\ again' = again /\ odd' = odd
      /\ got' = got /\ trouble' = trouble
  BY DEF RecvResponse, session
<1>2. /\ WireTypes /\ SessionTypes /\ Heads /\ Channel("client") /\ Channel("server")
      /\ "client" \in Ends /\ "server" \in Ends /\ Peer("client") = "server" /\ Peer("server") = "client"
  BY DEF IInv, Ends, Peer
<1>3. /\ \E next \in {"session", "over"} : pc' = [pc EXCEPT !["client"] = next]
      /\ \/ Arrived("server", "response") /\ wire' = Decoded("server")
         \/ AtEnd("server") /\ wire' = wire /\ pc' = [pc EXCEPT !["client"] = "over"]
  BY DEF RecvResponse, Serves
<1>4. /\ pc' \in [Ends -> {"start", "asked", "session", "over"}] /\ pc'["server"] = pc["server"]
      /\ pc'["client"] \in {"session", "over"}
  BY <1>2, <1>3 DEF WireTypes
<1>5. SessionTypes'
  BY <1>1, <1>2 DEF SessionTypes
<1>6. CASE Arrived("server", "response") /\ wire' = Decoded("server")
  <2>1. /\ wire["server"] # << >> /\ Head(wire["server"]).kind = "response"
        /\ wire' \in [Ends -> Seq(Units)]
        /\ wire'["client"] = wire["client"] /\ wire'["server"] = Tail(wire["server"])
        /\ \A i \in 1..Len(Tail(wire["server"])) :
             i + 1 \in 1..Len(wire["server"]) /\ Tail(wire["server"])[i] = wire["server"][i + 1]
    BY <1>2, <1>6, HeadDecoded, UnitConsumed DEF Arrived
  <2>2. WireTypes'
    BY <1>1, <1>2, <1>4, <2>1 DEF WireTypes
  <2>3. pc["server"] # "start"
    BY <1>2, <2>1 DEF Heads
  <2>4. Heads'
    <3>1. \A i \in 1..Len(wire'["server"]) :
            /\ wire'["server"][i].kind = "response" => i = 1 /\ (Foreign("client")' \/ pc'["client"] # "session")
            /\ wire'["server"][i].kind # "request"
      <4>1. \A i \in 1..Len(Tail(wire["server"])) : i + 1 # 1
        OBVIOUS
      <4>. QED
        BY <1>2, <2>1, <4>1 DEF Heads
    <3>2. \A i \in 1..Len(wire'["client"]) :
            /\ wire'["client"][i].kind = "request" => i = 1 /\ pc'["server"] = "start"
            /\ wire'["client"][i].kind # "response"
      BY <1>2, <1>4, <2>1 DEF Heads
    <3>3. \A e \in Ends : pc'[e] # "start"
      BY <1>4, <2>3 DEF Ends
    <3>. QED
      BY <1>2, <3>1, <3>2, <3>3 DEF Heads
  <2>5. Channel("server")'
    <3>1. ~IsMessage("server", Head(wire["server"]))
      BY <2>1 DEF IsMessage
    <3>2. Caused("server", trouble'[Peer("server")])
      BY <1>1, <1>2 DEF Channel
    <3>. QED
      BY <1>1, <1>2, <1>4, <2>1, <3>1, <3>2, HeadTaken
  <2>6. Channel("client")'
    BY <1>1, <1>2, <2>1, ChannelStays
  <2>. QED
    BY <1>5, <2>2, <2>4, <2>5, <2>6 DEF IInv, Ends
<1>7. CASE AtEnd("server") /\ wire' = wire /\ pc' = [pc EXCEPT !["client"] = "over"]
  <2>1. WireTypes' /\ pc'["client"] = "over"
    BY <1>1, <1>2, <1>4, <1>7 DEF WireTypes
  <2>2. Heads'
    <3>1. \A e \in Ends : pc'[e] = "start" => wire'[e] = << >> /\ ~odd'[e]
      BY <1>1, <1>2, <1>4, <1>7 DEF Heads, Ends
    <3>2. \A i \in 1..Len(wire'["server"]) :
            /\ wire'["server"][i].kind = "response" => i = 1 /\ (Foreign("client")' \/ pc'["client"] # "session")
            /\ wire'["server"][i].kind # "request"
      BY <1>2, <1>7, <2>1 DEF Heads
    <3>3. \A i \in 1..Len(wire'["client"]) :
            /\ wire'["client"][i].kind = "request" => i = 1 /\ pc'["server"] = "start"
            /\ wire'["client"][i].kind # "response"
      BY <1>2, <1>4, <1>7 DEF Heads
    <3>. QED
      BY <2>1, <3>1, <3>2, <3>3 DEF Heads
  <2>3. ASSUME NEW p \in Ends PROVE Channel(p)'
    <3>1. pc[p] = "over" => pc'[p] = "over"
      BY <1>1, <1>4 DEF Ends
    <3>2. Channel(p)
      BY DEF IInv
    <3>. QED
      BY <1>1, <1>7, <3>1, <3>2, ChannelStays
  <2>. QED
    BY <1>5, <2>1, <2>2, <2>3 DEF IInv
<1>. QED
  BY <1>3, <1>6, <1>7

-----------------------------------------------------------------------------
(* The theorems. *)

LEMMA InitStep == Init => IInv
<1>. SUFFICES ASSUME Init PROVE IInv
  OBVIOUS
<1>1. /\ setup \in Programs /\ pc = [e \in Ends |-> "start"] /\ wire = [e \in Ends |-> << >>]
      /\ lost = FALSE /\ buffer = [e \in Ends |-> NoMessage] /\ frames = [e \in Ends |-> 0]
      /\ sent = [e \in Ends |-> << >>] /\ got = [e \in Ends |-> << >>]
      /\ again = [e \in Ends |-> {}] /\ odd = [e \in Ends |-> FALSE]
      /\ trouble = [e \in Ends |-> "none"]
  BY DEF Init
<1>2. WireTypes
  <2>1. << >> \in Seq(Units)
    OBVIOUS
  <2>. QED
    BY <1>1, <2>1 DEF WireTypes
<1>3. SessionTypes
  <2>1. << >> \in Seq(Messages) /\ NoMessage \in Messages
    BY DEF NoMessage, Message, Messages
  <2>2. \A e \in Ends : MaxSent[e] \in Nat /\ 0 <= MaxSent[e]
    BY WebAssumption DEF Ends
  <2>3. \A e \in Ends : frames[e] = 0 /\ Len(sent[e]) = 0 /\ again[e] = {}
    BY <1>1
  <2>. QED
    BY <1>1, <2>1, <2>2, <2>3 DEF SessionTypes
<1>4. Heads
  <2>1. /\ "client" \in Ends /\ "server" \in Ends
        /\ Len(wire["client"]) = 0 /\ Len(wire["server"]) = 0
    BY <1>1 DEF Ends
  <2>. QED
    BY <1>1, <2>1 DEF Heads
<1>5. ASSUME NEW p \in Ends PROVE Channel(p)
  <2>1. /\ Peer(p) \in Ends /\ wire[p] = << >> /\ sent[p] = << >> /\ got[Peer(p)] = << >>
        /\ trouble[Peer(p)] = "none" /\ Len(wire[p]) = 0 /\ Len(got[Peer(p)]) = 0
    BY <1>1, PeerEnd
  <2>2. InStep(p, << >>, 0, << >>, again[p], ~lost)
    <3>. DEFINE num == [j \in 0..0 |-> 0]
    <3>1. Len(<< >>) = 0 /\ num \in [0..0 -> Nat] /\ num[0] = 0 /\ \A j \in 0..0 : num[j] = 0
      OBVIOUS
    <3>. HIDE DEF num
    <3>2. Numbers(p, << >>, 0, num)
      BY <3>1 DEF Numbers
    <3>. QED
      BY <3>1, <3>2 DEF InStep
  <2>. QED
    BY <2>1, <2>2 DEF Channel, Genuine, Caused, Kept
<1>. QED
  BY <1>2, <1>3, <1>4, <1>5 DEF IInv

LEMMA NextStep ==
  ASSUME IInv, [Next]_vars
  PROVE  IInv'
<1>1. CASE Handshake
  BY <1>1, SendRequestStep, ServeStep, RecvResponseStep DEF Handshake
<1>2. CASE ForeignRequest
  BY <1>2, ForeignRequestStep
<1>3. CASE Lose
  BY <1>3, LoseStep
<1>4. ASSUME NEW e \in Ends, NEW n \in Lengths, Send(e, n) PROVE IInv'
  BY <1>4, SendStep
<1>5. ASSUME NEW e \in Ends, Resend(e) \/ Close(e) \/ Recv(e) \/ Return(e) PROVE IInv'
  BY <1>5, ResendStep, CloseStep, RecvStep, ReturnStep
<1>6. ASSUME NEW n \in Lengths, ForeignFrame(n) PROVE IInv'
  BY <1>6, ForeignFrameStep
<1>7. CASE UNCHANGED vars
  <2>1. /\ setup' = setup /\ pc' = pc /\ wire' = wire /\ lost' = lost /\ buffer' = buffer
        /\ frames' = frames /\ sent' = sent /\ again' = again /\ odd' = odd
        /\ got' = got /\ trouble' = trouble
    BY <1>7 DEF vars, session
  <2>2. WireTypes' /\ SessionTypes' /\ Heads'
    BY <2>1 DEF IInv, WireTypes, SessionTypes, Heads, Foreign
  <2>3. ASSUME NEW p \in Ends PROVE Channel(p)'
    <3>1. Channel(p)
      BY DEF IInv
    <3>. QED
      BY <2>1, <3>1, ChannelStays
  <2>. QED
    BY <2>2, <2>3 DEF IInv
<1>. QED
  BY <1>1, <1>2, <1>3, <1>4, <1>5, <1>6, <1>7 DEF Next

LEMMA Invariance == Spec => []IInv
BY InitStep, NextStep, PTL DEF Spec

\* What recv gives is what the peer's handler sent, in order and none twice,
\* whatever the lengths, the masks, and the frames in between, and however much
\* of what was sent is lost.
THEOREM MessagesAreGenuine == Spec => []MessagesGenuine
<1>1. IInv => MessagesGenuine
  <2>. SUFFICES ASSUME IInv, NEW e \in Ends, NEW i \in 1..Len(got[e])
                PROVE  /\ i <= Len(sent[Peer(e)])
                       /\ got[e][i].n = sent[Peer(e)][i].n
                       /\ got[e][i].text = sent[Peer(e)][i].text \/ (e = "server" /\ i \in again["client"])
    BY Zenon DEF MessagesGenuine
  <2>. DEFINE p == Peer(e)
  <2>1. p \in Ends /\ Peer(p) = e /\ (p = "client" => e = "server")
    BY PeerEnd DEF Peer, Ends
  <2>2. Genuine(p, got[e], sent[p], again[p])
    BY <2>1 DEF IInv, Channel
  <2>. QED
    BY <2>1, <2>2 DEF Genuine
<1>. QED
  BY <1>1, Invariance, PTL

\* recv goes wrong for a reason: something of the peer's that is no message, its
\* end, a lost connection, or a length that is misread.
THEOREM TroubleAlwaysHasCause == Spec => []TroubleHasCause
<1>1. IInv => TroubleHasCause
  <2>. SUFFICES ASSUME IInv, NEW e \in Ends
                PROVE  Caused(Peer(e), trouble[e])
    BY DEF TroubleHasCause, Caused
  <2>1. Peer(e) \in Ends /\ Peer(Peer(e)) = e
    BY PeerEnd
  <2>. QED
    BY <2>1 DEF IInv, Channel
<1>. QED
  BY <1>1, Invariance, PTL

\* The bounds of the types: among them, no end receives more messages than its
\* peer has written frames.
THEOREM TypeCorrect == Spec => []TypeOK
<1>1. IInv => TypeOK
  <2>. SUFFICES ASSUME IInv PROVE TypeOK
    OBVIOUS
  <2>1. WireTypes /\ SessionTypes
    BY DEF IInv
  <2>2. ASSUME NEW e \in Ends PROVE Len(got[e]) <= frames[Peer(e)]
    <3>. DEFINE p == Peer(e)
                n == Len(got[e])
    <3>1. p \in Ends /\ Peer(p) = e
      BY PeerEnd
    <3>2. n \in Nat /\ Len(sent[p]) \in Nat /\ frames[p] \in Nat /\ Len(sent[p]) <= frames[p]
      BY <2>1, <3>1 DEF SessionTypes
    <3>3. n # 0 => n <= Len(sent[p])
      <4>1. Genuine(p, got[e], sent[p], again[p])
        BY <3>1 DEF IInv, Channel
      <4>2. n # 0 => n \in 1..Len(got[e])
        BY <3>2
      <4>. QED
        BY <4>1, <4>2 DEF Genuine
    <3>. QED
      BY <3>2, <3>3
  <2>3. \A e \in Ends : \A i \in 1..Len(wire[e]) :
          wire[e][i].kind \in {"request", "response", "body", "frame"}
    <3>1. ASSUME NEW e \in Ends, NEW i \in 1..Len(wire[e])
          PROVE  wire[e][i].kind \in {"request", "response", "body", "frame"}
      <4>1. wire[e][i] \in Units
        BY <2>1 DEF WireTypes
      <4>. QED
        BY <4>1, UnitKinds
    <3>. QED
      BY <3>1
  <2>4. \A e \in Ends : frames[e] \in 0..MaxSent[e]
    <3>1. \A e \in Ends : MaxSent[e] \in Nat
      BY WebAssumption DEF Ends
    <3>. QED
      BY <2>1, <3>1 DEF SessionTypes
  <2>. QED
    BY <2>1, <2>2, <2>3, <2>4 DEF TypeOK, WireTypes, SessionTypes
<1>. QED
  BY <1>1, Invariance, PTL

-----------------------------------------------------------------------------
(* Framing, with names of its own: Web has other lengths, and a wire, messages *)
(* that were sent and messages that were got for each of its ends.             *)

CONSTANTS CodecLengths, Texts, MaxMessages
VARIABLES stream, ended

Framing == INSTANCE Framing WITH Lengths <- CodecLengths, wire <- stream

\* Framing uses the operators of Codecs.
LEMMA FramingCodecs ==
  /\ \A x : Framing!EncodeFixed(x) = EncodeFixed(x)
  /\ \A x : Framing!DecodeFixed(x) = DecodeFixed(x)
  /\ \A x : Framing!EncodeVarint(x) = EncodeVarint(x)
  /\ \A x : Framing!VarintEnds(x) = VarintEnds(x)
  /\ \A x : Framing!VarintLen(x) = VarintLen(x)
  /\ \A x : Framing!DecodeVarint(x) = DecodeVarint(x)
  /\ \A x : Framing!Base64Encode(x) = Base64Encode(x)
  /\ \A x : Framing!Base64Decode(x) = Base64Decode(x)
<1>. USE DEF Framing!Swap, Swap, Framing!Low, Low, Framing!ShiftRight, ShiftRight,
             Framing!ShiftLeft, ShiftLeft, Framing!ByteOf, ByteOf,
             Framing!VarintSize, VarintSize, Framing!MaxVarintBytes, MaxVarintBytes,
             Framing!VarintEnds, VarintEnds, Framing!VarintLen, VarintLen,
             Framing!Group, Group, Framing!Sextets, Sextets, Framing!Octets, Octets
<1>1. \A x : Framing!EncodeFixed(x) = EncodeFixed(x)
  BY DEF Framing!EncodeFixed, EncodeFixed
<1>2. \A x : Framing!DecodeFixed(x) = DecodeFixed(x)
  BY DEF Framing!DecodeFixed, DecodeFixed
<1>3. \A x : Framing!EncodeVarint(x) = EncodeVarint(x)
  BY DEF Framing!EncodeVarint, EncodeVarint
<1>4. \A x : Framing!VarintEnds(x) = VarintEnds(x)
  OBVIOUS
<1>5. \A x : Framing!VarintLen(x) = VarintLen(x)
  OBVIOUS
<1>6. \A x : Framing!DecodeVarint(x) = DecodeVarint(x)
  BY DEF Framing!DecodeVarint, DecodeVarint
<1>7. \A x : Framing!Base64Encode(x) = Base64Encode(x)
  BY DEF Framing!Base64Encode, Base64Encode
<1>8. \A x : Framing!Base64Decode(x) = Base64Decode(x)
  BY DEF Framing!Base64Decode, Base64Decode
<1>. QED
  BY <1>1, <1>2, <1>3, <1>4, <1>5, <1>6, <1>7, <1>8

FramingUnits == [kind : {"byte", "text", "part"}, bits : SUBSET Nat]

\* What the messages of the two codecs are, and what encode makes of one.
Sizes(c) == {n \in SUBSET (0..63) : c = "fixed" => n \subseteq 0..31}
HeaderOf(c, n) == IF c = "fixed" THEN EncodeFixed(n) ELSE EncodeVarint(n)
FrameOf(c, n) ==
  [j \in 1..(Len(HeaderOf(c, n)) + 1) |->
     IF j <= Len(HeaderOf(c, n)) THEN Framing!Unit("byte", HeaderOf(c, n)[j])
     ELSE Framing!Unit("text", n)]

LEMMA HeaderBytes ==
  ASSUME NEW c, NEW n \in Sizes(c)
  PROVE  HeaderOf(c, n) \in Seq(SUBSET Nat) /\ Len(HeaderOf(c, n)) \in 1..10
<1>1. n \in SUBSET (0..63) /\ n \in SUBSET Nat
  BY DEF Sizes
<1>2. c = "fixed" => HeaderOf(c, n) = EncodeFixed(n)
  BY DEF HeaderOf
<1>3. c # "fixed" => HeaderOf(c, n) = EncodeVarint(n)
  BY DEF HeaderOf
<1>4. /\ EncodeFixed(n) \in Seq(SUBSET Nat) /\ Len(EncodeFixed(n)) = 4
      /\ EncodeVarint(n) \in Seq(SUBSET Nat) /\ Len(EncodeVarint(n)) \in 1..10
  BY <1>1, VarintBytes, FixedBytes
<1>. QED
  BY <1>2, <1>3, <1>4

LEMMA FrameParts ==
  ASSUME NEW c, NEW n \in Sizes(c)
  PROVE  /\ FrameOf(c, n) \in Seq(FramingUnits) /\ Len(FrameOf(c, n)) = Len(HeaderOf(c, n)) + 1
         /\ Len(FrameOf(c, n)) \in Nat /\ Len(FrameOf(c, n)) > 1
         /\ \A j \in 1..Len(HeaderOf(c, n)) :
              FrameOf(c, n)[j].kind = "byte" /\ FrameOf(c, n)[j].bits = HeaderOf(c, n)[j]
         /\ FrameOf(c, n)[Len(FrameOf(c, n))] = Framing!Unit("text", n)
<1>. DEFINE h == HeaderOf(c, n)  f == FrameOf(c, n)
<1>1. h \in Seq(SUBSET Nat) /\ Len(h) \in 1..10 /\ n \in SUBSET Nat
  BY HeaderBytes DEF Sizes
<1>2. f = [j \in 1..(Len(h) + 1) |->
             IF j <= Len(h) THEN Framing!Unit("byte", h[j]) ELSE Framing!Unit("text", n)]
  BY DEF FrameOf
<1>. HIDE DEF h, f
<1>3. ASSUME NEW j \in 1..(Len(h) + 1) PROVE f[j] \in FramingUnits
  BY <1>1, <1>2 DEF FramingUnits, Framing!Unit
<1>4. \A j \in 1..Len(h) : f[j].kind = "byte" /\ f[j].bits = h[j]
  BY <1>1, <1>2 DEF Framing!Unit
<1>5. f \in Seq(FramingUnits) /\ Len(f) = Len(h) + 1 /\ f[Len(h) + 1] = Framing!Unit("text", n)
  BY <1>1, <1>2, <1>3
<1>. QED
  BY <1>1, <1>4, <1>5 DEF h, f

-----------------------------------------------------------------------------
(* The leading bytes of the wire, and the header that is read from them. *)

\* What Leading is.
LEMMA LeadingBytes ==
  ASSUME stream \in Seq(FramingUnits), NEW k \in 0..Len(stream),
         \A j \in 1..k : stream[j].kind = "byte",
         k < Len(stream) => stream[k + 1].kind # "byte"
  PROVE  Framing!Leading = SubSeq(stream, 1, k)
<1>. DEFINE stops == {i \in 1..Len(stream) : stream[i].kind # "byte"}
            Least(i) == \A j \in stops : i <= j
            first == CHOOSE i \in stops : Least(i)
<1>1. Framing!Leading = IF stops = {} THEN stream ELSE SubSeq(stream, 1, first - 1)
  BY DEF Framing!Leading
<1>2. CASE k = Len(stream)
  <2>1. stops = {}
    BY <1>2
  <2>2. stream = SubSeq(stream, 1, k)
    BY <1>2
  <2>. HIDE DEF stops, first
  <2>. QED
    BY <1>1, <2>1, <2>2
<1>3. CASE k < Len(stream)
  <2>1. k + 1 \in stops /\ \A j \in stops : k + 1 <= j
    BY <1>3
  <2>2. stops \subseteq Int
    OBVIOUS
  <2>. HIDE DEF stops
  <2>3. first \in stops /\ Least(first)
    <3>1. k + 1 \in stops /\ Least(k + 1)
      BY <2>1
    <3>. HIDE DEF Least
    <3>. QED
      BY <3>1, Zenon
  <2>. HIDE DEF first
  <2>4. first = k + 1
    BY <2>1, <2>2, <2>3
  <2>. QED
    BY <1>1, <2>1, <2>4
<1>. QED
  BY <1>2, <1>3

\* The header of a whole frame, or of one whose text was cut, is read as it was
\* written: the length is n, and the text follows.
LEMMA HeaderIsRead ==
  ASSUME codec \in {"delimited", "fixed"}, stream \in Seq(FramingUnits), NEW n \in Sizes(codec),
         Len(stream) >= Len(FrameOf(codec, n)),
         \A j \in 1..Len(HeaderOf(codec, n)) : stream[j] = FrameOf(codec, n)[j],
         stream[Len(FrameOf(codec, n))].kind # "byte"
  PROVE  /\ Framing!HeaderRead /\ Framing!HeaderLen = Len(HeaderOf(codec, n))
         /\ Framing!DecodedLength = n
<1>. DEFINE h == HeaderOf(codec, n)
<1>1. /\ h \in Seq(SUBSET Nat) /\ Len(h) \in 1..10 /\ Len(FrameOf(codec, n)) = Len(h) + 1
  BY HeaderBytes, FrameParts
<1>2. \A j \in 1..Len(h) : stream[j].kind = "byte" /\ stream[j].bits = h[j]
  BY FrameParts
<1>3. Framing!Leading = SubSeq(stream, 1, Len(h))
  <2>1. Len(h) \in 0..Len(stream)
    BY <1>1
  <2>2. \A j \in 1..Len(h) : stream[j].kind = "byte"
    BY <1>2
  <2>3. stream[Len(h) + 1].kind # "byte"
    BY <1>1
  <2>. QED
    BY <2>1, <2>2, <2>3, LeadingBytes
<1>. HIDE DEF h
<1>4. Framing!BitsOf(Framing!Leading) = h
  <2>1. Len(SubSeq(stream, 1, Len(h))) = Len(h)
    BY <1>1 DEF h
  <2>2. \A j \in 1..Len(h) : SubSeq(stream, 1, Len(h))[j].bits = h[j]
    <3>1. \A j \in 1..Len(h) : SubSeq(stream, 1, Len(h))[j] = stream[j]
      BY <1>1 DEF h
    <3>. QED
      BY <1>2, <3>1
  <2>. QED
    BY <1>1, <1>3, <2>1, <2>2 DEF Framing!BitsOf
<1>5. Len(Framing!Leading) = Len(h)
  BY <1>1, <1>3 DEF h
<1>6. n \in SUBSET (0..63) /\ n \in SUBSET Nat
  BY DEF Sizes
<1>7. CASE codec = "fixed"
  <2>1. h = EncodeFixed(n) /\ Len(h) = 4
    BY <1>6, <1>7, FixedBytes DEF h, HeaderOf
  <2>2. DecodeFixed(h) = n
    <3>1. n \in SUBSET (0..(32 - 1))
      BY <1>7 DEF Sizes
    <3>2. Low(n, 32) = n
      BY <3>1 DEF Low
    <3>. QED
      BY <1>6, <2>1, <3>2, FixedKeepsLow32
  <2>3. Framing!HeaderRead /\ Framing!HeaderLen = Len(h)
    BY <1>5, <1>7, <2>1 DEF Framing!HeaderRead, Framing!HeaderLen
  <2>4. Framing!DecodedLength = DecodeFixed(h)
    BY <1>4, <1>7, FramingCodecs DEF Framing!DecodedLength
  <2>. QED
    BY <2>2, <2>3, <2>4 DEF h
<1>8. CASE codec = "delimited"
  <2>1. h = EncodeVarint(n)
    BY <1>8 DEF h, HeaderOf
  <2>2. h \o << >> = h /\ << >> \in Seq(SUBSET Nat)
    BY <1>1
  <2>3. DecodeVarint(h) = n /\ VarintLen(h) = Len(h)
    BY <1>6, <2>1, <2>2, VarintRoundTrip
  <2>4. VarintEnds(h) # {}
    <3>1. Len(h) \in 1..10 /\ 7 \notin h[Len(h)]
      BY <1>6, <2>1, VarintBytes
    <3>2. Len(h) \in 1..Len(h) /\ Len(h) <= MaxVarintBytes
      <4>1. \A k \in 1..10 : k \in 1..k /\ k <= MaxVarintBytes
        BY DEF MaxVarintBytes
      <4>. QED
        BY <3>1, <4>1, Zenon
    <3>3. Len(h) \in VarintEnds(h)
      BY <3>1, <3>2, Zenon DEF VarintEnds
    <3>. QED
      BY <3>3
  <2>. QED
    BY <1>4, <1>8, <2>1, <2>3, <2>4, FramingCodecs
       DEF Framing!HeaderRead, Framing!HeaderLen, Framing!DecodedLength, h
<1>. QED
  BY <1>7, <1>8

\* Of a frame that lacks its text nothing more is read than there is, and the
\* length only when the header is whole.
LEMMA HeaderIsCut ==
  ASSUME codec \in {"delimited", "fixed"}, stream \in Seq(FramingUnits), NEW n \in Sizes(codec),
         Len(stream) < Len(FrameOf(codec, n)),
         \A j \in 1..Len(stream) : stream[j] = FrameOf(codec, n)[j]
  PROVE  /\ Framing!Leading = stream
         /\ Framing!HeaderRead => /\ Framing!HeaderLen = Len(stream)
                                  /\ Len(stream) + 1 = Len(FrameOf(codec, n))
                                  /\ Framing!DecodedLength = n
<1>. DEFINE h == HeaderOf(codec, n)
            b == Framing!BitsOf(stream)
<1>1. /\ h \in Seq(SUBSET Nat) /\ Len(h) \in 1..10 /\ Len(FrameOf(codec, n)) = Len(h) + 1
      /\ Len(stream) \in 0..Len(h)
  BY HeaderBytes, FrameParts
<1>2. \A j \in 1..Len(stream) : stream[j].kind = "byte" /\ stream[j].bits = h[j]
  <2>. HIDE DEF h
  <2>1. \A j \in 1..Len(h) : FrameOf(codec, n)[j].kind = "byte" /\ FrameOf(codec, n)[j].bits = h[j]
    BY FrameParts DEF h
  <2>. QED
    BY <1>1, <2>1 DEF h
<1>3. Framing!Leading = stream
  <2>1. \A j \in 1..Len(stream) : stream[j].kind = "byte"
    BY <1>2
  <2>2. SubSeq(stream, 1, Len(stream)) = stream
    OBVIOUS
  <2>3. Framing!Leading = SubSeq(stream, 1, Len(stream))
    BY <1>1, <2>1, LeadingBytes
  <2>. QED
    BY <2>2, <2>3
<1>. HIDE DEF h
<1>4. Len(b) = Len(stream) /\ \A j \in 1..Len(stream) : b[j] = h[j]
  <2>1. b = [j \in 1..Len(stream) |-> stream[j].bits]
    BY DEF Framing!BitsOf
  <2>. QED
    BY <1>1, <1>2, <2>1
<1>. HIDE DEF b
<1>5. n \in SUBSET (0..63) /\ n \in SUBSET Nat
  BY DEF Sizes
<1>8. ASSUME Len(stream) = Len(h) PROVE b = h
  <2>1. b \in Seq(SUBSET Nat)
    <3>1. b = [j \in 1..Len(stream) |-> stream[j].bits]
      BY DEF b, Framing!BitsOf
    <3>2. ASSUME NEW j \in 1..Len(stream) PROVE stream[j].bits \in SUBSET Nat
      <4>1. stream[j] \in FramingUnits
        OBVIOUS
      <4>. QED
        BY <4>1 DEF FramingUnits
    <3>. QED
      BY <1>1, <3>1, <3>2
  <2>2. h \in Seq(SUBSET Nat) /\ Len(b) = Len(h) /\ \A j \in 1..Len(h) : b[j] = h[j]
    BY <1>1, <1>4, <1>8 DEF h
  <2>. QED
    BY <2>1, <2>2
<1>6. CASE codec = "fixed"
  <2>1. Len(h) = 4 /\ h = EncodeFixed(n)
    BY <1>5, <1>6, FixedBytes DEF h, HeaderOf
  <2>2. DecodeFixed(h) = n
    <3>1. n \in SUBSET (0..(32 - 1))
      BY <1>6 DEF Sizes
    <3>2. Low(n, 32) = n
      BY <3>1 DEF Low
    <3>. QED
      BY <1>5, <2>1, <3>2, FixedKeepsLow32
  <2>3. Framing!HeaderRead => Framing!HeaderLen = Len(stream) /\ Len(stream) = Len(h)
    BY <1>1, <1>3, <1>6, <2>1 DEF Framing!HeaderRead, Framing!HeaderLen, h
  <2>4. Framing!DecodedLength = DecodeFixed(b)
    BY <1>3, <1>6, FramingCodecs DEF Framing!DecodedLength, b
  <2>. QED
    BY <1>1, <1>3, <1>8, <2>2, <2>3, <2>4 DEF h
<1>7. CASE codec = "delimited"
  <2>1. h = EncodeVarint(n)
    BY <1>7 DEF h, HeaderOf
  <2>2. \A j \in 1..(Len(h) - 1) : 7 \in h[j]
    BY <1>5, <2>1, VarintBytes
  <2>3. ASSUME NEW i \in VarintEnds(b) PROVE i = Len(stream) /\ i = Len(h)
    <3>1. i \in 1..Len(stream) /\ 7 \notin b[i]
      BY <1>4 DEF VarintEnds
    <3>2. i \in 1..Len(h) /\ ~(i \in 1..(Len(h) - 1))
      BY <1>1, <1>4, <2>2, <3>1 DEF h
    <3>. QED
      BY <1>1, <3>1, <3>2 DEF h
  <2>4. VarintEnds(b) # {} => VarintLen(b) = Len(stream)
    <3>. DEFINE E == VarintEnds(b)
    <3>. HIDE DEF E
    <3>1. VarintLen(b) = CHOOSE i \in E : \A j \in E : i <= j
      BY DEF VarintLen, E
    <3>2. \A i \in E : i = Len(stream)
      BY <2>3 DEF E
    <3>3. ASSUME E # {} PROVE (CHOOSE i \in E : \A j \in E : i <= j) \in E
      <4>1. PICK i \in E : TRUE
        BY <3>3
      <4>2. \A j \in E : i <= j
        BY <3>2, <1>1
      <4>. QED
        BY <4>2
    <3>. QED
      BY <3>1, <3>2, <3>3 DEF E
  <2>5. DecodeVarint(h) = n
    <3>1. h \in Seq(SUBSET Nat)
      BY <1>1 DEF h
    <3>2. h \o << >> = h /\ << >> \in Seq(SUBSET Nat)
      BY <3>1
    <3>. QED
      BY <1>5, <2>1, <3>2, VarintRoundTrip
  <2>6. VarintEnds(b) # {} => Len(stream) = Len(h)
    BY <2>3
  <2>7. /\ Framing!HeaderRead <=> VarintEnds(b) # {}
        /\ Framing!HeaderLen = VarintLen(b) /\ Framing!DecodedLength = DecodeVarint(b)
    BY <1>3, <1>7, FramingCodecs
       DEF Framing!HeaderRead, Framing!HeaderLen, Framing!DecodedLength, b
  <2>. QED
    BY <1>1, <1>3, <1>8, <2>4, <2>5, <2>6, <2>7 DEF h
<1>. QED
  BY <1>6, <1>7

-----------------------------------------------------------------------------
(* How the messages lie on the wire. *)

\* Frame f stands in s after position q and ends at position r.
StandsAt(s, q, r, f) == r = q + Len(f) /\ \A j \in 1..Len(f) : s[q + j] = f[j]

\* After position q there is the beginning of f, its text at most in part, and no
\* whole header before a text of no bytes.
Begun(s, q, f) ==
  /\ Len(s) - q <= Len(f)
  /\ \A j \in 1..(Len(s) - q) :
       IF j < Len(f) THEN s[q + j] = f[j] ELSE s[q + j].kind = "part"
  /\ f[Len(f)].bits = {} => Len(s) - q < Len(f) - 1

\* The wire s holds the messages of m from g + 1 to w, the i-th one up to position
\* p[i], and what is left of the next one if the end e has come.
Laid(p, s, c, m, g, w, e) ==
  /\ p \in [g..w -> 0..Len(s)] /\ p[g] = 0
  /\ \A i, j \in g..w : i < j => p[i] < p[j]
  /\ \A i \in (g + 1)..w : StandsAt(s, p[i - 1], p[i], FrameOf(c, m[i]))
  /\ \A j \in 1..Len(s) : s[j].kind = "text" => \E i \in (g + 1)..w : p[i] = j
  /\ p[w] < Len(s) => e /\ w < Len(m) /\ Begun(s, p[w], FrameOf(c, m[w + 1]))
  /\ e \/ w = Len(m)

\* A place within l units after a, and the same place k units further.
LEMMA Within ==
  ASSUME NEW a \in Nat, NEW k \in Int, NEW l \in Nat, NEW j \in 1..l, NEW n \in Nat, a + l <= n
  PROVE  a + j \in 1..n /\ k + (a + j) = (a + k) + j
OBVIOUS

\* A message is encoded.
LEMMA FrameSent ==
  ASSUME NEW c, NEW s \in Seq(FramingUnits), NEW m \in Seq(Sizes(c)), NEW n \in Sizes(c),
         NEW g \in Nat, NEW w \in Nat, g <= w, NEW p, Laid(p, s, c, m, g, w, FALSE)
  PROVE  \E p2 : Laid(p2, s \o FrameOf(c, n), c, Append(m, n), g, w + 1, FALSE)
<1>. DEFINE f == FrameOf(c, n)
            s2 == s \o f
            m2 == Append(m, n)
            p2 == [i \in g..(w + 1) |-> IF i <= w THEN p[i] ELSE Len(s2)]
<1>1. /\ f \in Seq(FramingUnits) /\ Len(f) \in Nat /\ Len(f) > 1
      /\ \A j \in 1..Len(f) : f[j].kind = "text" => j = Len(f)
  <2>1. \A j \in 1..Len(f) : j \in 1..Len(HeaderOf(c, n)) \/ j = Len(f)
    BY FrameParts
  <2>. QED
    BY <2>1, FrameParts
<1>2. w = Len(m) /\ p \in [g..w -> 0..Len(s)] /\ p[w] = Len(s)
  BY DEF Laid
<1>. HIDE DEF f
<1>3. /\ s2 \in Seq(FramingUnits) /\ Len(s2) = Len(s) + Len(f)
      /\ \A j \in 1..Len(s) : s2[j] = s[j]
      /\ \A j \in 1..Len(f) : s2[Len(s) + j] = f[j]
  BY <1>1
<1>4. Len(m2) = w + 1 /\ m2[w + 1] = n /\ \A i \in 1..w : m2[i] = m[i]
  BY <1>2
<1>. HIDE DEF s2, m2
<1>5. /\ p2 \in [g..(w + 1) -> 0..Len(s2)] /\ p2[w + 1] = Len(s2)
      /\ \A i \in g..w : p2[i] = p[i]
  BY <1>1, <1>2, <1>3
<1>. HIDE DEF p2
<1>6. p2[g] = 0
  BY <1>5 DEF Laid
<1>7. ASSUME NEW i \in g..(w + 1), NEW j \in g..(w + 1), i < j PROVE p2[i] < p2[j]
  <2>1. CASE j <= w
    <3>1. i \in g..w /\ j \in g..w
      BY <1>7, <2>1
    <3>2. p[i] < p[j]
      BY <1>7, <3>1 DEF Laid
    <3>. QED
      BY <1>5, <3>1, <3>2
  <2>2. CASE j = w + 1
    <3>1. i \in g..w
      BY <1>7, <2>2
    <3>2. p2[i] \in 0..Len(s)
      BY <1>2, <1>5, <3>1
    <3>. QED
      BY <1>1, <1>3, <1>5, <2>2, <3>2
  <2>. QED
    BY <2>1, <2>2
<1>8. ASSUME NEW i \in (g + 1)..(w + 1)
      PROVE  StandsAt(s2, p2[i - 1], p2[i], FrameOf(c, m2[i]))
  <2>1. CASE i <= w
    <3>1. i \in (g + 1)..w /\ i - 1 \in g..w /\ i \in g..w /\ i \in 1..w
      BY <2>1
    <3>2. StandsAt(s, p[i - 1], p[i], FrameOf(c, m[i]))
      BY <3>1 DEF Laid
    <3>3. p[i - 1] \in 0..Len(s) /\ p[i] \in 0..Len(s)
      BY <1>2, <3>1
    <3>4. m2[i] = m[i] /\ m[i] \in Sizes(c)
      BY <1>2, <1>4, <3>1
    <3>5. Len(FrameOf(c, m[i])) \in Nat
      BY <3>4, FrameParts
    <3>6. \A j \in 1..Len(FrameOf(c, m[i])) : p[i - 1] + j \in 1..Len(s)
      <4>1. p[i - 1] \in Nat /\ p[i - 1] + Len(FrameOf(c, m[i])) <= Len(s) /\ Len(s) \in Nat
        BY <3>2, <3>3 DEF StandsAt
      <4>. QED
        BY <3>5, <4>1, Within
    <3>. QED
      BY <1>3, <1>5, <3>1, <3>2, <3>4, <3>6 DEF StandsAt
  <2>2. CASE i = w + 1
    <3>1. w \in g..w /\ i - 1 = w
      BY <2>2
    <3>2. p2[i - 1] = Len(s) /\ p2[i] = Len(s2) /\ FrameOf(c, m2[i]) = f
      BY <1>2, <1>4, <1>5, <2>2, <3>1 DEF f
    <3>. QED
      BY <1>3, <3>2 DEF StandsAt
  <2>. QED
    BY <2>1, <2>2
<1>9. ASSUME NEW j \in 1..Len(s2), s2[j].kind = "text"
      PROVE  \E i \in (g + 1)..(w + 1) : p2[i] = j
  <2>1. CASE j \in 1..Len(s)
    <3>1. PICK i \in (g + 1)..w : p[i] = j
      BY <1>3, <1>9, <2>1 DEF Laid
    <3>. QED
      BY <1>5, <3>1
  <2>2. CASE ~(j \in 1..Len(s))
    <3>1. j - Len(s) \in 1..Len(f) /\ j = Len(s) + (j - Len(s))
      BY <1>1, <1>3, <2>2
    <3>2. j - Len(s) = Len(f)
      BY <1>1, <1>3, <1>9, <3>1
    <3>3. w + 1 \in (g + 1)..(w + 1) /\ p2[w + 1] = j
      BY <1>3, <1>5, <3>1, <3>2
    <3>. QED
      BY <3>3
  <2>. QED
    BY <2>1, <2>2
<1>10. Laid(p2, s2, c, m2, g, w + 1, FALSE)
  BY <1>4, <1>5, <1>6, <1>7, <1>8, <1>9 DEF Laid
<1>. QED
  BY <1>10 DEF s2, m2, f

\* The first message is decoded.
LEMMA FrameTaken ==
  ASSUME NEW c, NEW s \in Seq(FramingUnits), NEW m \in Seq(Sizes(c)), NEW e,
         NEW g \in Nat, NEW w \in Nat, g < w, w <= Len(m), NEW p, Laid(p, s, c, m, g, w, e)
  PROVE  \E p2 : Laid(p2, SubSeq(s, Len(FrameOf(c, m[g + 1])) + 1, Len(s)), c, m, g + 1, w, e)
<1>. DEFINE k == Len(FrameOf(c, m[g + 1]))
            s2 == SubSeq(s, k + 1, Len(s))
            p2 == [i \in (g + 1)..w |-> p[i] - k]
<1>1. p \in [g..w -> 0..Len(s)] /\ p[g] = 0 /\ p[g + 1] = k /\ k \in 0..Len(s) /\ k \in Nat
  <2>1. g + 1 \in (g + 1)..w /\ g \in g..w /\ g + 1 \in g..w /\ g + 1 - 1 = g /\ g + 1 \in 1..Len(m)
    OBVIOUS
  <2>2. StandsAt(s, p[g], p[g + 1], FrameOf(c, m[g + 1])) /\ p[g] = 0
        /\ p \in [g..w -> 0..Len(s)]
    BY <2>1 DEF Laid
  <2>3. Len(FrameOf(c, m[g + 1])) \in Nat
    BY <2>1, FrameParts
  <2>. QED
    BY <2>1, <2>2, <2>3 DEF StandsAt
<1>. HIDE DEF k
<1>2. /\ s2 \in Seq(FramingUnits) /\ Len(s2) = Len(s) - k
      /\ \A j \in 1..Len(s2) : s2[j] = s[k + j]
  <2>1. k \in Nat /\ k <= Len(s) /\ Len(s) \in Nat
    BY <1>1
  <2>2. s2 \in Seq(FramingUnits) /\ Len(s2) = Len(s) - k
    BY <2>1
  <2>3. ASSUME NEW j \in 1..(Len(s) - k) PROVE s2[j] = s[k + j]
    BY <2>1
  <2>. QED
    BY <2>2, <2>3
<1>3. \A i, j \in g..w : i < j => p[i] < p[j]
  BY DEF Laid
<1>4. \A i \in (g + 1)..w : p[i] \in k..Len(s)
  <2>1. \A i \in (g + 1)..w : i \in g..w /\ (i = g + 1 \/ g + 1 < i)
    OBVIOUS
  <2>2. g + 1 \in g..w
    OBVIOUS
  <2>. QED
    BY <1>1, <1>3, <2>1, <2>2
<1>. HIDE DEF s2
<1>5. /\ p2 \in [(g + 1)..w -> 0..Len(s2)]
      /\ \A i \in (g + 1)..w : p2[i] = p[i] - k /\ p[i] = p2[i] + k
  <2>1. ASSUME NEW i \in (g + 1)..w PROVE p[i] - k \in 0..Len(s2) /\ p[i] = (p[i] - k) + k
    <3>1. p[i] \in k..Len(s) /\ Len(s2) = Len(s) - k /\ Len(s) \in Nat
      BY <1>2, <1>4
    <3>. QED
      BY <1>1, <3>1
  <2>. QED
    BY <2>1
<1>. HIDE DEF p2
<1>6. p2[g + 1] = 0
  BY <1>1, <1>5
<1>0. k \in Int
  BY <1>1
<1>7. ASSUME NEW i \in (g + 1)..w, NEW j \in (g + 1)..w, i < j PROVE p2[i] < p2[j]
  <2>1. i \in g..w /\ j \in g..w
    OBVIOUS
  <2>2. p[i] < p[j]
    BY <1>3, <1>7, <2>1
  <2>3. p2[i] \in Int /\ p2[j] \in Int /\ p[i] = p2[i] + k /\ p[j] = p2[j] + k
    BY <1>5
  <2>. QED
    BY <1>0, <2>2, <2>3
<1>8. ASSUME NEW i \in (g + 2)..w PROVE StandsAt(s2, p2[i - 1], p2[i], FrameOf(c, m[i]))
  <2>. DEFINE f == FrameOf(c, m[i])
  <2>1. /\ i \in (g + 1)..w /\ i - 1 \in (g + 1)..w /\ i \in 1..Len(m)
    OBVIOUS
  <2>2. StandsAt(s, p[i - 1], p[i], f)
    BY <2>1 DEF Laid
  <2>3. Len(f) \in Nat
    BY <2>1, FrameParts
  <2>. HIDE DEF f
  <2>4. p2[i - 1] \in 0..Len(s2) /\ p2[i] \in 0..Len(s2) /\ p[i - 1] = p2[i - 1] + k /\ p[i] = p2[i] + k
    BY <1>5, <2>1
  <2>5. p2[i] = p2[i - 1] + Len(f)
    <3>1. p[i] = p[i - 1] + Len(f)
      BY <2>2 DEF StandsAt
    <3>2. p2[i] = p[i] - k /\ p2[i - 1] = p[i - 1] - k
      BY <1>5, <2>1
    <3>3. p[i - 1] \in Int /\ Len(f) \in Int
      BY <1>1, <2>1, <2>3
    <3>4. (p[i - 1] + Len(f)) - k = (p[i - 1] - k) + Len(f)
      BY <1>0, <3>3
    <3>. QED
      BY <3>1, <3>2, <3>4
  <2>6. ASSUME NEW j \in 1..Len(f) PROVE s2[p2[i - 1] + j] = f[j]
    <3>0. \A a \in Nat, l \in Nat : j \in 1..l /\ a + l <= Len(s2) =>
                  a + j \in 1..Len(s2) /\ k + (a + j) = (a + k) + j
      BY <1>0, <1>2, Within
    <3>1. p2[i - 1] + j \in 1..Len(s2) /\ k + (p2[i - 1] + j) = p[i - 1] + j
      <4>1. p2[i - 1] \in Nat /\ Len(s2) \in Nat /\ p2[i - 1] + Len(f) <= Len(s2)
        BY <1>2, <2>4, <2>5
      <4>2. p[i - 1] = p2[i - 1] + k
        BY <2>4
      <4>. QED
        BY <2>3, <3>0, <4>1, <4>2
    <3>. QED
      BY <1>2, <2>2, <3>1 DEF StandsAt
  <2>. QED
    BY <2>5, <2>6 DEF StandsAt, f
<1>9. ASSUME NEW j \in 1..Len(s2), s2[j].kind = "text"
      PROVE  \E i \in (g + 2)..w : p2[i] = j
  <2>1. k + j \in 1..Len(s) /\ s[k + j].kind = "text"
    BY <1>1, <1>2, <1>9
  <2>2. PICK i \in (g + 1)..w : p[i] = k + j
    BY <2>1 DEF Laid
  <2>3. i # g + 1 /\ p2[i] = j
    BY <1>1, <1>2, <1>5, <2>2
  <2>. QED
    BY <2>2, <2>3
<1>10. ASSUME p2[w] < Len(s2)
       PROVE  e /\ w < Len(m) /\ Begun(s2, p2[w], FrameOf(c, m[w + 1]))
  <2>. DEFINE f == FrameOf(c, m[w + 1])
  <2>1. w \in (g + 1)..w /\ p2[w] \in 0..Len(s2) /\ p[w] = p2[w] + k
    BY <1>5
  <2>2. p[w] < Len(s) /\ Len(s) - p[w] = Len(s2) - p2[w]
    <3>1. p2[w] \in Int /\ Len(s2) \in Int /\ Len(s) \in Int /\ Len(s2) = Len(s) - k
      BY <1>2, <2>1
    <3>2. Len(s) = Len(s2) + k
      BY <1>0, <3>1
    <3>. QED
      BY <1>0, <1>10, <2>1, <3>1, <3>2
  <2>. HIDE DEF f
  <2>3. e /\ w < Len(m) /\ Begun(s, p[w], f)
    BY <2>2 DEF Laid, f
  <2>4. \A j \in 1..(Len(s2) - p2[w]) : s2[p2[w] + j] = s[p[w] + j]
    <3>1. \A j \in 1..(Len(s2) - p2[w]) : p2[w] + j \in 1..Len(s2) /\ k + (p2[w] + j) = p[w] + j
      <4>1. p2[w] \in Nat /\ Len(s2) \in Nat
        BY <1>2, <2>1
      <4>. QED
        BY <1>0, <2>1, <4>1
    <3>. QED
      BY <1>2, <3>1
  <2>. QED
    BY <2>2, <2>3, <2>4 DEF Begun, f
<1>11. e \/ w = Len(m)
  BY DEF Laid
<1>12. g + 1 + 1 = g + 2
  OBVIOUS
<1>13. Laid(p2, s2, c, m, g + 1, w, e)
  BY <1>5, <1>6, <1>7, <1>8, <1>9, <1>10, <1>11, <1>12 DEF Laid
<1>. QED
  BY <1>13 DEF s2, k

LEMMA FramingCardinality == \A S : Framing!Cardinality(S) = Cardinality(S)
BY DEF Framing!Cardinality, Cardinality

TextsOf(s) == {j \in 1..Len(s) : s[j].kind = "text"}

\* There is a text for every message on the wire.
LEMMA TextsCounted ==
  ASSUME NEW c, NEW s \in Seq(FramingUnits), NEW m \in Seq(Sizes(c)), NEW e,
         NEW g \in Nat, NEW w \in Nat, g <= w, w <= Len(m), NEW p, Laid(p, s, c, m, g, w, e)
  PROVE  Cardinality(TextsOf(s)) = w - g
<1>. DEFINE q == [i \in (g + 1)..w |-> p[i]]
            S == (g + 1)..w
<1>1. /\ p \in [g..w -> 0..Len(s)] /\ p[g] = 0
      /\ \A i, j \in g..w : i < j => p[i] < p[j]
  BY DEF Laid
<1>2. ASSUME NEW i \in S PROVE p[i] \in TextsOf(s)
  <2>. DEFINE f == FrameOf(c, m[i])
  <2>1. i \in g..w /\ g \in g..w /\ g < i /\ i - 1 \in g..w /\ i \in 1..Len(m)
    OBVIOUS
  <2>2. p[i] \in 1..Len(s)
    BY <1>1, <2>1
  <2>3. StandsAt(s, p[i - 1], p[i], f)
    BY DEF Laid
  <2>4. Len(f) \in Nat /\ Len(f) > 1 /\ f[Len(f)].kind = "text"
    <3>1. Len(f) \in Nat /\ Len(f) > 1 /\ f[Len(f)] = Framing!Unit("text", m[i])
      BY <2>1, FrameParts
    <3>. HIDE DEF f
    <3>. QED
      BY <3>1 DEF Framing!Unit
  <2>. HIDE DEF f
  <2>5. s[p[i]] = f[Len(f)]
    BY <2>3, <2>4 DEF StandsAt
  <2>. QED
    BY <2>2, <2>4, <2>5 DEF TextsOf
<1>3. q \in [S -> TextsOf(s)] /\ \A i \in S : q[i] = p[i]
  BY <1>2
<1>. HIDE DEF q
<1>4. ASSUME NEW i \in S, NEW j \in S, q[i] = q[j] PROVE i = j
  <2>1. i \in g..w /\ j \in g..w /\ p[i] \in Int /\ p[j] \in Int /\ p[i] = p[j]
    BY <1>1, <1>3, <1>4
  <2>2. ~(i < j) /\ ~(j < i)
    BY <1>1, <2>1
  <2>. QED
    BY <2>2
<1>5. \A j \in TextsOf(s) : \E i \in S : q[i] = j
  BY <1>3 DEF Laid, TextsOf
<1>6. ExistsBijection(S, TextsOf(s))
  <2>. HIDE DEF S
  <2>1. q \in Bijection(S, TextsOf(s))
    BY <1>3, <1>4, <1>5, Zenon DEF Bijection, Injection, IsInjective, Surjection
  <2>. QED
    BY <2>1 DEF ExistsBijection
<1>7. IsFiniteSet(S) /\ Cardinality(S) = w - g
  <2>1. g + 1 \in Int /\ w \in Int /\ (IF g + 1 > w THEN 0 ELSE w - (g + 1) + 1) = w - g
    OBVIOUS
  <2>. QED
    BY <2>1, FS_Interval
<1>. QED
  BY <1>6, <1>7, FS_Bijection

\* Where the wire is cut after k units: message v is the last one that is whole.
LEMMA LastWhole ==
  ASSUME NEW g \in Nat, NEW w \in Nat, g <= w, NEW p \in [g..w -> Nat], p[g] = 0,
         \A i, j \in g..w : i < j => p[i] < p[j], NEW k \in Nat
  PROVE  \E v \in g..w : p[v] <= k /\ (v < w => p[v + 1] > k)
<1>. DEFINE beyond == {i \in g..w : p[i] > k}
<1>1. CASE beyond = {}
  <2>1. w \in g..w /\ ~(p[w] > k)
    BY <1>1
  <2>. QED
    BY <2>1
<1>2. CASE beyond # {}
  <2>. DEFINE R == OpToRel(<, Nat)
  <2>1. IsWellFoundedOn(R, Nat)
    BY NatLessThanWellFounded
  <2>2. \A m, n \in Nat : m < n => <<m, n>> \in R
    BY DEF OpToRel
  <2>. HIDE DEF R
  <2>3. beyond \in SUBSET Nat
    OBVIOUS
  <2>4. PICK i \in beyond : \A j \in beyond : ~(<<j, i>> \in R)
    <3>. HIDE DEF beyond
    <3>. QED
      BY <1>2, <2>1, <2>3, WFMin
  <2>5. i \in g..w /\ p[i] > k /\ i # g
    BY <2>4
  <2>6. i - 1 \in g..w /\ i - 1 \in Nat /\ i \in Nat /\ i - 1 < i /\ i - 1 + 1 = i
    BY <2>5
  <2>7. i - 1 \notin beyond
    <3>1. <<i - 1, i>> \in R
      BY <2>2, <2>6
    <3>. QED
      BY <2>4, <3>1
  <2>8. p[i - 1] <= k
    BY <2>6, <2>7
  <2>. QED
    BY <2>5, <2>6, <2>8
<1>. QED
  BY <1>1, <1>2

\* Places before k, in a frame that begins at q and ends after k.
LEMMA Before ==
  ASSUME NEW q \in Nat, NEW k \in Nat, NEW l \in Nat, q + l > k, NEW j \in 1..(k - q)
  PROVE  j \in 1..l /\ j < l /\ q + j \in 1..k
OBVIOUS

\* Places up to k + 1, and the one after k when it is the last of the frame.
LEMMA UpTo ==
  ASSUME NEW q \in Nat, NEW k \in Nat, q <= k, NEW j \in 1..(k + 1 - q)
  PROVE  j \in 1..(k - q) \/ j = k + 1 - q
OBVIOUS

LEMMA LastPlace ==
  ASSUME NEW q \in Nat, NEW k \in Nat, NEW l \in Nat, q + l > k, ~(k - q < l - 1)
  PROVE  k + 1 = q + l
OBVIOUS

CutOf(s, k) ==
  {SubSeq(s, 1, k)} \cup
  (IF k < Len(s) /\ s[k + 1].kind = "text"
   THEN {Append(SubSeq(s, 1, k), Framing!Unit("part", s[k + 1].bits))} ELSE {})

\* The connection ends.
LEMMA FramesCut ==
  ASSUME NEW c, NEW s \in Seq(FramingUnits), NEW m \in Seq(Sizes(c)),
         NEW g \in Nat, NEW w \in Nat, g <= w, NEW p, Laid(p, s, c, m, g, w, FALSE),
         NEW k \in 0..Len(s), NEW s2 \in CutOf(s, k),
         ~(k + 1 \in 1..Len(s) /\ s[k + 1] = Framing!Unit("text", {}))
  PROVE  /\ s2 \in Seq(FramingUnits)
         /\ \E v \in g..w : \E p2 : Laid(p2, s2, c, m, g, v, TRUE)
<1>1. /\ p \in [g..w -> 0..Len(s)] /\ p[g] = 0 /\ w = Len(m) /\ p[w] = Len(s)
      /\ \A i, j \in g..w : i < j => p[i] < p[j]
  BY DEF Laid
<1>2. PICK v \in g..w : p[v] <= k /\ (v < w => p[v + 1] > k)
  <2>1. p \in [g..w -> Nat] /\ k \in Nat
    BY <1>1
  <2>. QED
    BY <1>1, <2>1, LastWhole
<1>. DEFINE p2 == [i \in g..v |-> p[i]]
            f == FrameOf(c, m[v + 1])
\* A part of a text comes last.
<1>3. /\ s2 \in Seq(FramingUnits) /\ Len(s2) \in {k, k + 1}
      /\ \A j \in 1..k : s2[j] = s[j]
      /\ Len(s2) = k + 1 => k < Len(s) /\ s[k + 1].kind = "text" /\ s2[k + 1].kind = "part"
  <2>. DEFINE t == SubSeq(s, 1, k)
  <2>1. t \in Seq(FramingUnits) /\ Len(t) = k /\ \A j \in 1..k : t[j] = s[j]
    OBVIOUS
  <2>. HIDE DEF t
  <2>2. CASE s2 = t
    BY <2>1, <2>2
  <2>3. CASE /\ k < Len(s) /\ s[k + 1].kind = "text"
             /\ s2 = Append(t, Framing!Unit("part", s[k + 1].bits))
    <3>. DEFINE u == Framing!Unit("part", s[k + 1].bits)
    <3>1. s[k + 1] \in FramingUnits
      BY <2>3
    <3>2. u \in FramingUnits /\ u.kind = "part"
      BY <3>1 DEF FramingUnits, Framing!Unit
    <3>. HIDE DEF u
    <3>3. s2 = Append(t, u)
      BY <2>3 DEF u
    <3>. QED
      BY <2>1, <2>3, <3>2, <3>3
  <2>4. s2 = t \/ (/\ k < Len(s) /\ s[k + 1].kind = "text"
                   /\ s2 = Append(t, Framing!Unit("part", s[k + 1].bits)))
    BY DEF CutOf, t
  <2>. QED
    BY <2>2, <2>3, <2>4
<1>4. \A i \in g..v : i \in g..w /\ p[i] \in 0..k /\ p2[i] = p[i]
  <2>1. ASSUME NEW i \in g..v PROVE i \in g..w /\ p[i] \in 0..k
    <3>1. i \in g..w /\ (i = v \/ i < v)
      OBVIOUS
    <3>2. p[i] <= p[v] /\ p[i] \in 0..Len(s) /\ p[v] \in 0..Len(s)
      <4>1. p[i] \in 0..Len(s) /\ p[v] \in 0..Len(s)
        BY <1>1, <3>1
      <4>2. i = v \/ p[i] < p[v]
        BY <1>1, <3>1
      <4>. QED
        BY <4>1, <4>2
    <3>. QED
      BY <1>2, <3>1, <3>2
  <2>. QED
    BY <2>1
<1>5. p2 \in [g..v -> 0..Len(s2)] /\ p2[g] = 0
  <2>1. \A i \in g..v : p[i] \in 0..Len(s2)
    BY <1>3, <1>4
  <2>2. g \in g..v
    OBVIOUS
  <2>. QED
    BY <1>1, <2>1, <2>2
<1>. HIDE DEF p2
<1>6. \A i, j \in g..v : i < j => p2[i] < p2[j]
  BY <1>1, <1>4
<1>7. ASSUME NEW i \in (g + 1)..v PROVE StandsAt(s2, p2[i - 1], p2[i], FrameOf(c, m[i]))
  <2>. DEFINE h == FrameOf(c, m[i])
  <2>1. i \in g..v /\ i - 1 \in g..v /\ i \in (g + 1)..w /\ i \in 1..Len(m)
    BY <1>1
  <2>2. StandsAt(s, p[i - 1], p[i], h)
    BY <2>1 DEF Laid
  <2>3. Len(h) \in Nat
    BY <2>1, FrameParts
  <2>. HIDE DEF h
  <2>4. p[i - 1] \in 0..k /\ p[i] \in 0..k /\ p2[i - 1] = p[i - 1] /\ p2[i] = p[i]
    BY <1>4, <2>1
  <2>5. \A j \in 1..Len(h) : p[i - 1] + j \in 1..k
    BY <2>2, <2>3, <2>4 DEF StandsAt
  <2>. QED
    BY <1>3, <2>2, <2>4, <2>5 DEF StandsAt, h
<1>8. ASSUME NEW j \in 1..Len(s2), s2[j].kind = "text"
      PROVE  \E i \in (g + 1)..v : p2[i] = j
  <2>1. j \in 1..k /\ s[j].kind = "text" /\ j \in 1..Len(s)
    <3>1. Len(s2) = k \/ j # k + 1
      BY <1>3, <1>8
    <3>2. j \in 1..k
      BY <1>3, <3>1
    <3>. QED
      BY <1>3, <1>8, <3>2
  <2>2. PICK i \in (g + 1)..w : p[i] = j
    BY <2>1 DEF Laid
  <2>3. i <= v
    <3>1. CASE v < w
      <4>1. v + 1 \in g..w /\ i \in g..w /\ p[v + 1] > k /\ p[v + 1] \in Int
        <5>1. v + 1 \in g..w /\ i \in g..w
          BY <3>1
        <5>. QED
          BY <1>1, <1>2, <3>1, <5>1, SMTT(30)
      <4>2. ~(v + 1 < i) /\ v + 1 # i
        <5>1. p[i] <= k /\ p[i] \in Int /\ k \in Int
          BY <2>1, <2>2
        <5>2. ~(p[v + 1] < p[i]) /\ p[v + 1] # p[i]
          BY <4>1, <5>1
        <5>. QED
          BY <1>1, <4>1, <5>2
      <4>. QED
        BY <4>2
    <3>. QED
      BY <3>1
  <2>4. i \in (g + 1)..v /\ i \in g..v
    BY <2>3
  <2>. QED
    BY <1>4, <2>2, <2>4
<1>9. ASSUME p2[v] < Len(s2)
      PROVE  v < Len(m) /\ Begun(s2, p2[v], f)
  <2>1. v \in g..v /\ p2[v] = p[v] /\ p[v] \in 0..k
    BY <1>4
  <2>2. v < w
    <3>1. CASE v = w
      <4>1. p[v] = Len(s) /\ k = Len(s)
        BY <1>1, <2>1, <3>1
      <4>. QED
        BY <1>3, <1>9, <2>1, <4>1
    <3>. QED
      BY <3>1
  <2>3. /\ v + 1 \in (g + 1)..w /\ v + 1 \in 1..Len(m) /\ v + 1 - 1 = v
        /\ v + 1 \in g..w
    BY <1>1, <2>2
  <2>4. StandsAt(s, p[v], p[v + 1], f)
    BY <2>3 DEF Laid
  <2>5. /\ Len(f) \in Nat /\ \A j \in 1..Len(f) : f[j].kind = "text" => j = Len(f)
        /\ Len(f) > 1 /\ f[Len(f)] = Framing!Unit("text", f[Len(f)].bits)
    <3>. DEFINE n == m[v + 1]
    <3>0. n \in Sizes(c)
      BY <2>3
    <3>. HIDE DEF n
    <3>1. \A j \in 1..Len(f) : j \in 1..Len(HeaderOf(c, n)) \/ j = Len(f)
      BY <3>0, FrameParts DEF n
    <3>2. \A j \in 1..Len(HeaderOf(c, n)) : f[j].kind = "byte"
      BY <3>0, FrameParts DEF n
    <3>3. Len(f) \in Nat /\ Len(f) > 1 /\ f[Len(f)] = Framing!Unit("text", n)
      BY <3>0, FrameParts DEF n
    <3>. HIDE DEF f
    <3>4. f[Len(f)] = Framing!Unit("text", f[Len(f)].bits)
      BY <3>3 DEF Framing!Unit
    <3>. QED
      BY <3>1, <3>2, <3>3, <3>4
  <2>. HIDE DEF f
  <2>6. p[v + 1] = p[v] + Len(f) /\ p[v + 1] > k /\ p[v] \in Nat
    BY <1>2, <2>1, <2>2, <2>4 DEF StandsAt
  <2>7. \A j \in 1..(k - p[v]) : s2[p[v] + j] = f[j] /\ j < Len(f)
    <3>1. ASSUME NEW j \in 1..(k - p[v])
          PROVE  j \in 1..Len(f) /\ j < Len(f) /\ p[v] + j \in 1..k
      <4>1. p[v] \in Nat /\ k \in Nat /\ Len(f) \in Nat /\ p[v] + Len(f) > k
        BY <2>5, <2>6
      <4>. QED
        BY <4>1, Before
    <3>. QED
      BY <1>3, <2>4, <3>1 DEF StandsAt
  <2>10. f[Len(f)].bits = {} => k - p[v] < Len(f) - 1
    <3>1. ASSUME f[Len(f)].bits = {}, ~(k - p[v] < Len(f) - 1) PROVE FALSE
      <4>1. k + 1 = p[v] + Len(f)
        <5>1. p[v] \in Nat /\ Len(f) \in Nat /\ p[v] + Len(f) > k
          BY <2>5, <2>6
        <5>. QED
          BY <3>1, <5>1, LastPlace
      <4>2. k + 1 \in 1..Len(s)
        BY <1>1, <2>3, <2>6, <4>1
      <4>3. s[k + 1] = f[Len(f)]
        BY <2>4, <2>5, <4>1 DEF StandsAt
      <4>. QED
        BY <2>5, <3>1, <4>2, <4>3
    <3>. QED
      BY <3>1
  <2>8. CASE Len(s2) = k
    <3>1. Len(s2) - p[v] <= Len(f)
      BY <2>1, <2>5, <2>6, <2>8
    <3>. QED
      BY <1>1, <2>1, <2>2, <2>7, <2>8, <2>10, <3>1 DEF Begun
  <2>9. CASE Len(s2) = k + 1
    <3>1. k + 1 - p[v] \in 1..Len(f) /\ p[v] + (k + 1 - p[v]) = k + 1
      <4>1. p[v] \in Nat /\ Len(f) \in Nat /\ p[v] <= k /\ p[v] + Len(f) > k
        BY <1>2, <2>5, <2>6
      <4>. QED
        BY <4>1
    <3>2. f[k + 1 - p[v]].kind = "text"
      BY <1>3, <2>4, <2>9, <3>1 DEF StandsAt
    <3>3. k + 1 - p[v] = Len(f)
      BY <2>5, <3>1, <3>2
    <3>4. ASSUME NEW j \in 1..(Len(s2) - p[v])
          PROVE  IF j < Len(f) THEN s2[p[v] + j] = f[j] ELSE s2[p[v] + j].kind = "part"
      <4>1. j \in 1..(k - p[v]) \/ j = k + 1 - p[v]
        <5>1. p[v] \in Nat /\ k \in Nat /\ p[v] <= k /\ j \in 1..(k + 1 - p[v])
          BY <1>2, <2>6, <2>9
        <5>. QED
          BY <5>1, UpTo
      <4>2. s2[k + 1].kind = "part"
        BY <1>3, <2>9
      <4>. QED
        BY <2>7, <3>1, <3>3, <4>1, <4>2
    <3>5. Len(s2) - p[v] <= Len(f) /\ ~(k - p[v] < Len(f) - 1)
      BY <2>1, <2>5, <2>9, <3>3
    <3>. QED
      BY <1>1, <2>1, <2>2, <2>10, <3>4, <3>5 DEF Begun
  <2>. QED
    BY <1>3, <2>8, <2>9
<1>10. Laid(p2, s2, c, m, g, v, TRUE)
  BY <1>5, <1>6, <1>7, <1>8, <1>9 DEF Laid
<1>. QED
  BY <1>3, <1>10

-----------------------------------------------------------------------------
(* The inductive invariant of Framing and its steps. *)

\* The two codecs of lengths, as long as no length is too long for the codec.
LengthsInv ==
  codec # "base64" /\ ~TooLong =>
    /\ stream \in Seq(FramingUnits) /\ ended \in BOOLEAN
    /\ encoded \in Seq(Sizes(codec)) /\ decoded \in Seq(SUBSET (0..63))
    /\ Len(decoded) <= whole /\ whole <= Len(encoded) /\ whole \in Nat
    /\ \A i \in 1..Len(decoded) : decoded[i] = encoded[i]
    /\ outcome \in {"reading", "error"}
    /\ outcome = "reading" =>
         \E p : Laid(p, stream, codec, encoded, Len(decoded), whole, ended)
    /\ outcome = "error" => ended /\ Len(decoded) = whole

\* The string of the first k letters of a text.
Letters(s, text, k) ==
  s = [i \in 1..k |-> Framing!Unit("byte", Base64Encode(text)[i])]

TextInv ==
  codec = "base64" =>
    /\ encoded = << >> \/ \E text \in Seq(Byte) : encoded = <<text>>
    /\ encoded = << >> /\ outcome = "reading" => stream = << >> /\ whole = 0
    /\ outcome = "reading" =>
         /\ decoded = << >>
         /\ encoded # << >> =>
              \E k \in 0..Len(Base64Encode(encoded[1])) :
                /\ Letters(stream, encoded[1], k)
                /\ whole = 1 => k = Len(Base64Encode(encoded[1]))
    /\ outcome # "reading" => ended
    /\ decoded # << >> /\ encoded # << >> =>
         IsPrefix(decoded[1], encoded[1]) /\ (whole = 1 => decoded = encoded)

FramingInv ==
  /\ codec \in {"delimited", "fixed", "base64"}
  /\ codec # "base64" => encoded \in Seq(SUBSET (0..63))
  /\ LengthsInv
  /\ TextInv

LEMMA PrefixIs ==
  ASSUME NEW T, NEW s \in Seq(T), NEW t \in Seq(T), Len(s) <= Len(t),
         \A i \in 1..Len(s) : s[i] = t[i]
  PROVE  IsPrefix(s, t)
<1>1. SubSeq(s, 1, Len(s)) = SubSeq(t, 1, Len(s))
  OBVIOUS
<1>. QED
  BY <1>1 DEF IsPrefix

LEMMA FramingInit == Framing!Init => FramingInv
<1>. SUFFICES ASSUME Framing!Init PROVE FramingInv
  OBVIOUS
<1>. USE DEF Framing!Init
<1>1. LengthsInv
  <2>. DEFINE p == [i \in 0..0 |-> 0]
  <2>1. Laid(p, << >>, codec, << >>, 0, 0, FALSE)
    BY DEF Laid
  <2>. QED
    BY <2>1 DEF LengthsInv
<1>2. TextInv
  BY DEF TextInv
<1>. QED
  BY <1>1, <1>2 DEF FramingInv

\* What stands in a concatenation.
LEMMA Joint ==
  ASSUME NEW T, NEW s \in Seq(T), NEW t \in Seq(T), Len(t) = 1
  PROVE  /\ s \o t \in Seq(T) /\ Len(s \o t) = Len(s) + Len(t)
         /\ \A j \in 1..Len(s) : (s \o t)[j] = s[j]
         /\ (s \o t)[Len(s) + 1] = t[1]
<1>1. /\ s \o t \in Seq(T) /\ Len(s \o t) = Len(s) + 1
      /\ \A j \in 1..(Len(s) + Len(t)) :
           (s \o t)[j] = IF j <= Len(s) THEN s[j] ELSE t[j - Len(s)]
  <2>1. Len(s \o t) = Len(s) + Len(t)
    BY ConcatProperties
  <2>2. s \o t \in Seq(T)
    BY ConcatProperties
  <2>3. \A j \in 1..(Len(s) + Len(t)) :
           (s \o t)[j] = IF j <= Len(s) THEN s[j] ELSE t[j - Len(s)]
    BY ConcatProperties, Zenon
  <2>. QED
    BY <2>1, <2>2, <2>3, Zenon
<1>2. Len(s) \in Nat
  OBVIOUS
<1>. DEFINE l == Len(s)
            u == s \o t
<1>. HIDE DEF l, u
<1>3. ASSUME NEW j \in 1..l PROVE u[j] = s[j]
  <2>1. j \in 1..(l + 1) /\ j <= l
    BY <1>2 DEF l
  <2>. QED
    BY <1>1, <2>1 DEF l, u
<1>4. u[l + 1] = t[1]
  <2>1. l + 1 \in 1..(l + 1) /\ ~(l + 1 <= l) /\ l + 1 - l = 1
    BY <1>2 DEF l
  <2>. QED
    BY <1>1, <2>1 DEF l, u
<1>. QED
  BY <1>1, <1>3, <1>4 DEF l, u

\* What encode puts on the wire is the frame.
LEMMA EncodedFrame ==
  ASSUME stream \in Seq(FramingUnits), codec # "base64", NEW n \in Sizes(codec), Framing!Encode(n)
  PROVE  stream' = stream \o FrameOf(codec, n) /\ encoded' = Append(encoded, n)
<1>. DEFINE h == HeaderOf(codec, n)
            u == Framing!Unit("text", n)
            bytes == Framing!Bytes(h)
<1>1. /\ h \in Seq(SUBSET Nat) /\ Len(h) \in 1..10
      /\ u \in FramingUnits
  BY HeaderBytes DEF FramingUnits, Framing!Unit, Sizes
<1>2. Framing!Header(n) = h
  BY FramingCodecs DEF Framing!Header, HeaderOf
<1>3. bytes = [j \in 1..Len(h) |-> Framing!Unit("byte", h[j])]
  BY DEF Framing!Bytes
<1>. HIDE DEF h
<1>4. bytes \in Seq(FramingUnits) /\ Len(bytes) = Len(h)
  <2>1. \A j \in 1..Len(h) : Framing!Unit("byte", h[j]) \in FramingUnits
    BY <1>1 DEF FramingUnits, Framing!Unit
  <2>. QED
    BY <1>1, <1>3, <2>1
<1>5. bytes \o <<u>> = FrameOf(codec, n)
  <2>1. FrameOf(codec, n) = [j \in 1..(Len(h) + 1) |->
             IF j <= Len(h) THEN Framing!Unit("byte", h[j]) ELSE u]
    BY DEF FrameOf, h
  <2>. HIDE DEF u
  <2>2. /\ bytes \o <<u>> \in Seq(FramingUnits) /\ Len(bytes \o <<u>>) = Len(h) + 1
        /\ \A j \in 1..Len(h) : (bytes \o <<u>>)[j] = bytes[j]
        /\ (bytes \o <<u>>)[Len(h) + 1] = u
    <3>. DEFINE t == <<u>>
    <3>1. t \in Seq(FramingUnits) /\ Len(t) = 1 /\ t[1] = u
      BY <1>1
    <3>. HIDE DEF t
    <3>2. /\ bytes \o t \in Seq(FramingUnits) /\ Len(bytes \o t) = Len(bytes) + Len(t)
          /\ \A j \in 1..Len(bytes) : (bytes \o t)[j] = bytes[j]
          /\ (bytes \o t)[Len(bytes) + 1] = t[1]
      BY <1>4, <3>1, Joint
    <3>. QED
      BY <1>4, <3>1, <3>2 DEF t
  <2>3. \A j \in 1..Len(h) : bytes[j] = Framing!Unit("byte", h[j])
    BY <1>3
  <2>4. /\ FrameOf(codec, n) \in Seq(FramingUnits) /\ Len(FrameOf(codec, n)) = Len(h) + 1
    BY FrameParts DEF h
  <2>5. \A j \in 1..(Len(h) + 1) : (bytes \o <<u>>)[j] = FrameOf(codec, n)[j]
    BY <1>1, <2>1, <2>2, <2>3
  <2>. QED
    BY <2>2, <2>4, <2>5
<1>6. stream' = stream \o bytes \o <<u>>
  BY <1>2 DEF Framing!Encode
<1>. HIDE DEF bytes, u
<1>7. (stream \o bytes) \o <<u>> = stream \o (bytes \o <<u>>)
  BY <1>1, <1>4, ConcatAssociative
<1>. QED
  BY <1>5, <1>6, <1>7 DEF Framing!Encode

LEMMA FramingSend ==
  ASSUME Framing!FramingAssumption, FramingInv, Framing!Send
  PROVE  FramingInv'
<1>1. CASE codec # "base64"
  <2>1. PICK n \in CodecLengths : Framing!Encode(n)
    BY <1>1 DEF Framing!Send, Framing!EncodeText
  <2>2. /\ n \in SUBSET (0..63) /\ encoded \in Seq(SUBSET (0..63)) /\ encoded' = Append(encoded, n)
        /\ ~ended /\ whole' = whole + 1
        /\ codec' = codec /\ ended' = ended /\ decoded' = decoded /\ outcome' = outcome
    BY <1>1, <2>1 DEF Framing!Send, Framing!Encode, Framing!FramingAssumption, FramingInv
  <2>3. encoded' \in Seq(SUBSET (0..63)) /\ Len(encoded') = Len(encoded) + 1
        /\ encoded'[Len(encoded) + 1] = n /\ \A i \in 1..Len(encoded) : encoded'[i] = encoded[i]
    BY <2>2
  <2>4. ASSUME ~TooLong' PROVE LengthsInv'
    <3>1. ~TooLong /\ n \in Sizes(codec)
      <4>1. ASSUME codec = "fixed" PROVE n \subseteq 0..31 /\ \A i \in 1..Len(encoded) : encoded[i] \subseteq 0..31
        <5>1. \A i \in 1..Len(encoded') : encoded'[i] \subseteq 0..31
          BY <2>2, <2>4, <4>1 DEF TooLong
        <5>2. \A i \in 1..Len(encoded) : i \in 1..Len(encoded')
          BY <2>2, <2>3
        <5>3. Len(encoded) + 1 \in 1..Len(encoded')
          BY <2>2, <2>3
        <5>. QED
          BY <2>3, <5>1, <5>2, <5>3
      <4>. QED
        BY <2>2, <4>1 DEF TooLong, Sizes
    <3>2. /\ stream \in Seq(FramingUnits)
          /\ encoded \in Seq(Sizes(codec)) /\ decoded \in Seq(SUBSET (0..63))
          /\ Len(decoded) <= whole /\ whole <= Len(encoded) /\ whole \in Nat
          /\ \A i \in 1..Len(decoded) : decoded[i] = encoded[i]
          /\ outcome = "reading"
          /\ \E p : Laid(p, stream, codec, encoded, Len(decoded), whole, ended)
      BY <1>1, <2>2, <3>1 DEF FramingInv, LengthsInv
    <3>3. PICK p : Laid(p, stream, codec, encoded, Len(decoded), whole, ended)
      BY <3>2
    <3>4. stream' = stream \o FrameOf(codec, n)
      BY <1>1, <2>1, <3>1, <3>2, EncodedFrame
    <3>5. FrameOf(codec, n) \in Seq(FramingUnits)
      BY <3>1, FrameParts
    <3>6. stream' \in Seq(FramingUnits)
      BY <3>2, <3>4, <3>5
    <3>7. encoded' \in Seq(Sizes(codec))
      BY <2>2, <3>1, <3>2
    <3>8. \E p2 : Laid(p2, stream', codec', encoded', Len(decoded'), whole', ended')
      <4>1. ended = FALSE
        BY <1>1, <2>2, <3>1 DEF FramingInv, LengthsInv
      <4>2. Laid(p, stream, codec, encoded, Len(decoded), whole, FALSE)
        BY <3>3, <4>1
      <4>3. \E p2 : Laid(p2, stream \o FrameOf(codec, n), codec, Append(encoded, n),
                         Len(decoded), whole + 1, FALSE)
        <5>1. Len(decoded) \in Nat
          BY <3>2
        <5>. QED
          BY <3>1, <3>2, <4>2, <5>1, FrameSent
      <4>. QED
        BY <2>2, <3>4, <4>1, <4>3
    <3>9. /\ Len(decoded') <= whole' /\ whole' <= Len(encoded') /\ whole' \in Nat
          /\ \A i \in 1..Len(decoded') : decoded'[i] = encoded'[i]
      BY <2>2, <2>3, <3>2
    <3>10. ended' \in BOOLEAN /\ decoded' \in Seq(SUBSET (0..63)) /\ outcome' = "reading"
      BY <1>1, <2>2, <3>1, <3>2 DEF FramingInv, LengthsInv
    <3>. QED
      BY <2>2, <3>6, <3>7, <3>8, <3>9, <3>10 DEF LengthsInv
  <2>5. TextInv'
    BY <1>1, <2>2 DEF TextInv
  <2>6. LengthsInv'
    BY <2>4 DEF LengthsInv
  <2>. QED
    BY <1>1, <2>2, <2>3, <2>5, <2>6 DEF FramingInv
<1>2. CASE codec = "base64"
  <2>1. PICK text \in Texts : Framing!EncodeText(text)
    BY <1>2 DEF Framing!Send, Framing!Encode
  <2>2. /\ text \in Seq(Byte) /\ encoded = << >> /\ encoded' = <<text>> /\ ~ended
        /\ whole' = whole + 1 /\ codec' = "base64" /\ ended' = ended /\ decoded' = decoded
        /\ outcome' = outcome /\ stream' = Framing!Bytes(Base64Encode(text))
    BY <1>2, <2>1, FramingCodecs
       DEF Framing!Send, Framing!EncodeText, Framing!FramingAssumption, Framing!Byte, Byte
  <2>3. outcome = "reading" /\ decoded = << >>
    BY <1>2, <2>2 DEF FramingInv, TextInv
  <2>4. Letters(stream', text, Len(Base64Encode(text)))
    BY <2>2 DEF Letters, Framing!Bytes
  <2>5. Len(Base64Encode(text)) \in 0..Len(Base64Encode(text)) /\ encoded'[1] = text
    BY <2>2, LettersOf
  <2>6. TextInv'
    <3>1. encoded' # << >> /\ \E t \in Seq(Byte) : encoded' = <<t>>
      BY <2>2
    <3>2. \E k \in 0..Len(Base64Encode(encoded'[1])) :
            /\ Letters(stream', encoded'[1], k)
            /\ whole' = 1 => k = Len(Base64Encode(encoded'[1]))
      BY <2>4, <2>5
    <3>. QED
      BY <2>2, <2>3, <3>1, <3>2 DEF TextInv
  <2>. QED
    BY <2>2, <2>6 DEF FramingInv, LengthsInv
<1>. QED
  BY <1>1, <1>2

LEMMA FramingEnd ==
  ASSUME FramingInv, Framing!End
  PROVE  FramingInv'
<1>1. /\ ~ended /\ ended' = TRUE /\ codec' = codec /\ encoded' = encoded /\ decoded' = decoded
      /\ outcome' = outcome
  BY DEF Framing!End
<1>2. PICK k \in 0..Len(stream) : \E rest \in CutOf(stream, k) :
        /\ ~(k + 1 \in 1..Len(stream) /\ stream[k + 1] = Framing!Unit("text", {}))
        /\ stream' = rest
        /\ whole' = IF codec = "base64" THEN (IF rest = stream THEN whole ELSE 0)
                    ELSE whole - (Cardinality(TextsOf(stream)) - Cardinality(TextsOf(rest)))
  <2>1. \A j : Framing!Cut(j) = CutOf(stream, j)
    BY DEF Framing!Cut, CutOf
  <2>2. \A s : Framing!TextsIn(s) = TextsOf(s)
    BY DEF Framing!TextsIn, TextsOf
  <2>. QED
    BY <2>1, <2>2, FramingCardinality DEF Framing!End, Framing!Empty
<1>3. stream' \in CutOf(stream, k)
  BY <1>2
<1>4. CASE codec # "base64"
  <2>1. ASSUME ~TooLong' PROVE LengthsInv'
    <3>1. ~TooLong
      BY <1>1, <2>1 DEF TooLong
    <3>2. /\ stream \in Seq(FramingUnits)
          /\ encoded \in Seq(Sizes(codec)) /\ decoded \in Seq(SUBSET (0..63))
          /\ Len(decoded) <= whole /\ whole <= Len(encoded) /\ whole \in Nat
          /\ \A i \in 1..Len(decoded) : decoded[i] = encoded[i]
          /\ outcome = "reading" /\ ended = FALSE
          /\ \E p : Laid(p, stream, codec, encoded, Len(decoded), whole, ended)
      BY <1>1, <1>4, <3>1 DEF FramingInv, LengthsInv
    <3>. DEFINE g == Len(decoded)
    <3>3. g \in Nat /\ g <= whole
      BY <3>2
    <3>. HIDE DEF g
    <3>4. PICK p : Laid(p, stream, codec, encoded, g, whole, FALSE)
      BY <3>2 DEF g
    <3>5. /\ stream' \in Seq(FramingUnits)
          /\ \E v \in g..whole : \E p2 : Laid(p2, stream', codec, encoded, g, v, TRUE)
      BY <1>2, <1>3, <3>2, <3>3, <3>4, FramesCut
    <3>6. PICK v \in g..whole : \E p2 : Laid(p2, stream', codec, encoded, g, v, TRUE)
      BY <3>5
    <3>7. PICK p2 : Laid(p2, stream', codec, encoded, g, v, TRUE)
      BY <3>6
    <3>8. v \in Nat /\ g <= v /\ v <= whole /\ v <= Len(encoded)
      BY <3>2, <3>3
    <3>9. Cardinality(TextsOf(stream)) = whole - g
      <4>. DEFINE e == FALSE
      <4>1. Laid(p, stream, codec, encoded, g, whole, e)
        BY <3>4
      <4>. HIDE DEF e
      <4>. QED
        BY <3>2, <3>3, <4>1, TextsCounted
    <3>10. Cardinality(TextsOf(stream')) = v - g
      <4>. DEFINE e == TRUE
                  s == stream'
      <4>1. Laid(p2, s, codec, encoded, g, v, e) /\ s \in Seq(FramingUnits)
        BY <3>5, <3>7
      <4>. HIDE DEF e, s
      <4>2. Cardinality(TextsOf(s)) = v - g
        BY <3>2, <3>3, <3>8, <4>1, TextsCounted
      <4>. QED
        BY <4>2 DEF s
    <3>11. whole' = v
      <4>1. whole' = whole - (Cardinality(TextsOf(stream)) - Cardinality(TextsOf(stream')))
        BY <1>2, <1>4
      <4>. QED
        BY <3>2, <3>3, <3>8, <3>9, <3>10, <4>1
    <3>. QED
      BY <1>1, <3>2, <3>5, <3>7, <3>8, <3>11 DEF LengthsInv, g
  <2>2. LengthsInv' /\ TextInv'
    BY <1>1, <1>4, <2>1 DEF LengthsInv, TextInv
  <2>. QED
    BY <1>1, <1>4, <2>2 DEF FramingInv
<1>5. CASE codec = "base64"
  <2>1. whole' = IF stream' = stream THEN whole ELSE 0
    BY <1>2, <1>5
  <2>2. outcome = "reading" /\ decoded = << >>
    BY <1>1, <1>5 DEF FramingInv, TextInv
  <2>3. CASE encoded = << >>
    <3>1. stream = << >> /\ whole = 0
      BY <1>5, <2>2, <2>3 DEF FramingInv, TextInv
    <3>2. stream' = << >>
      BY <1>3, <3>1 DEF CutOf
    <3>. QED
      BY <1>1, <1>5, <2>1, <2>2, <2>3, <3>1, <3>2 DEF FramingInv, LengthsInv, TextInv
  <2>4. CASE encoded # << >>
    <3>. DEFINE code == Base64Encode(encoded[1])
    <3>1. PICK l \in 0..Len(code) : Letters(stream, encoded[1], l) /\ (whole = 1 => l = Len(code))
      BY <1>5, <2>2, <2>4 DEF FramingInv, TextInv
    <3>2. Len(code) \in Nat
      BY <1>5, <2>4, LettersOf DEF FramingInv, TextInv
    <3>. HIDE DEF code
    <3>3. Len(stream) = l /\ \A j \in 1..l : stream[j] = Framing!Unit("byte", code[j])
      BY <3>1, <3>2 DEF Letters, code
    <3>4. stream' = SubSeq(stream, 1, k)
      <4>1. k < Len(stream) => k + 1 \in 1..l /\ stream[k + 1].kind = "byte"
        BY <3>2, <3>3 DEF Framing!Unit
      <4>. QED
        BY <1>3, <4>1 DEF CutOf
    <3>5. Letters(stream', encoded[1], k) /\ k \in 0..Len(code)
      <4>1. k \in 0..l /\ k \in 0..Len(code)
        BY <3>1, <3>2, <3>3
      <4>2. stream' = [i \in 1..k |-> Framing!Unit("byte", code[i])]
        BY <3>3, <3>4, <4>1
      <4>. QED
        BY <4>1, <4>2 DEF Letters, code
    <3>6. whole' = 1 => k = Len(code)
      <4>1. ASSUME whole' = 1 PROVE stream' = stream /\ l = Len(code)
        BY <2>1, <3>1, <4>1
      <4>2. Len(stream') = k
        BY <3>2, <3>3, <3>4
      <4>. QED
        BY <3>3, <4>1, <4>2
    <3>7. \E j \in 0..Len(Base64Encode(encoded'[1])) :
            /\ Letters(stream', encoded'[1], j)
            /\ whole' = 1 => j = Len(Base64Encode(encoded'[1]))
      BY <1>1, <3>5, <3>6 DEF code
    <3>8. TextInv'
      BY <1>1, <1>5, <2>2, <2>4, <3>7 DEF FramingInv, TextInv
    <3>. QED
      BY <1>1, <1>5, <3>8 DEF FramingInv, LengthsInv
  <2>. QED
    BY <2>3, <2>4
<1>. QED
  BY <1>4, <1>5

LEMMA FramingDecodeText ==
  ASSUME FramingInv, Framing!DecodeText
  PROVE  FramingInv'
<1>. DEFINE letters == Framing!BitsOf(stream)
            text == Base64Decode(letters)
<1>1. /\ codec = "base64" /\ outcome = "reading" /\ ended
      /\ decoded' = <<text>> /\ stream' = << >> /\ outcome' = "error"
      /\ codec' = codec /\ encoded' = encoded /\ whole' = whole /\ ended' = ended
  BY FramingCodecs DEF Framing!DecodeText
<1>2. ASSUME encoded # << >>
      PROVE  IsPrefix(decoded'[1], encoded[1]) /\ (whole = 1 => decoded' = encoded)
  <2>1. PICK msg \in Seq(Byte) : encoded = <<msg>>
    BY <1>1, <1>2 DEF FramingInv, TextInv
  <2>. DEFINE code == Base64Encode(msg)
  <2>2. PICK k \in 0..Len(code) : Letters(stream, msg, k) /\ (whole = 1 => k = Len(code))
    BY <1>1, <1>2, <2>1 DEF FramingInv, TextInv
  <2>3. code \in Seq(SUBSET Nat) /\ Len(code) \in Nat /\ k \in Nat /\ k <= Len(code)
    BY LettersOf
  <2>. HIDE DEF code
  <2>4. letters \in Seq(SUBSET Nat) /\ Len(letters) = k /\ \A i \in 1..k : letters[i] = code[i]
    <3>1. stream = [i \in 1..k |-> Framing!Unit("byte", code[i])]
      BY <2>2 DEF Letters, code
    <3>2. Len(stream) = k /\ \A i \in 1..k : stream[i].bits = code[i]
      BY <2>3, <3>1 DEF Framing!Unit
    <3>3. letters = [i \in 1..k |-> code[i]]
      BY <3>2 DEF Framing!BitsOf
    <3>. HIDE DEF letters
    <3>. QED
      BY <2>3, <3>3
  <2>. HIDE DEF letters
  <2>5. /\ text \in Seq(Byte) /\ Len(text) <= Len(msg)
        /\ \A j \in 1..Len(text) : text[j] = msg[j]
        /\ k = Len(code) => text = msg
    BY <2>4, Base64RoundTrip DEF code
  <2>. HIDE DEF text
  <2>6. IsPrefix(text, msg)
    BY <2>5, PrefixIs
  <2>. QED
    BY <1>1, <2>1, <2>2, <2>5, <2>6
<1>. HIDE DEF text
<1>3. TextInv'
  BY <1>1, <1>2 DEF FramingInv, TextInv
<1>. QED
  BY <1>1, <1>3 DEF FramingInv, LengthsInv

\* decode of a wire that ends where the header ends or before.
LEMMA DecodeStops ==
  ASSUME stream \in Seq(FramingUnits), Framing!Decode,
         Framing!Leading = stream,
         Framing!HeaderRead => Framing!HeaderLen = Len(stream) /\ Framing!DecodedLength # {}
  PROVE  outcome' = "error" /\ ended /\ decoded' = decoded /\ stream' = << >>
<1>1. CASE Framing!HeaderRead
  <2>1. /\ Framing!HeaderLen = Len(stream) /\ ~(Len(stream) > Len(stream))
        /\ Framing!DecodedLength # {}
    BY <1>1
  <2>. QED
    BY <1>1, <2>1 DEF Framing!Decode, Framing!TextFollows
<1>2. CASE ~Framing!HeaderRead
  BY <1>2 DEF Framing!Decode
<1>. QED
  BY <1>1, <1>2

\* With a whole message on the wire, decode takes it; without one, it stops, and
\* never inside a text.
LEMMA FramingDecode ==
  ASSUME FramingInv, Framing!Decode
  PROVE  FramingInv'
<1>1. /\ codec # "base64" /\ outcome = "reading" /\ codec \in {"delimited", "fixed"}
      /\ codec' = codec /\ encoded' = encoded /\ whole' = whole /\ ended' = ended
  BY DEF Framing!Decode, FramingInv
<1>2. ASSUME ~TooLong' PROVE LengthsInv'
  <2>1. ~TooLong
    BY <1>1, <1>2 DEF TooLong
  <2>2. /\ stream \in Seq(FramingUnits) /\ ended \in BOOLEAN
        /\ encoded \in Seq(Sizes(codec)) /\ decoded \in Seq(SUBSET (0..63))
        /\ Len(decoded) <= whole /\ whole <= Len(encoded) /\ whole \in Nat
        /\ \A i \in 1..Len(decoded) : decoded[i] = encoded[i]
        /\ \E p : Laid(p, stream, codec, encoded, Len(decoded), whole, ended)
    BY <1>1, <2>1 DEF FramingInv, LengthsInv
  <2>. DEFINE g == Len(decoded)
              n == encoded[g + 1]
              f == FrameOf(codec, n)
              h == HeaderOf(codec, n)
  <2>3. g \in Nat /\ g <= whole
    BY <2>2
  <2>. HIDE DEF g
  <2>4. PICK p : Laid(p, stream, codec, encoded, g, whole, ended)
    BY <2>2 DEF g
  <2>5. CASE g < whole
    <3>1. g + 1 \in 1..Len(encoded) /\ g + 1 \in (g + 1)..whole /\ g + 1 - 1 = g
      BY <2>2, <2>3, <2>5
    <3>2. n \in Sizes(codec) /\ n \in SUBSET (0..63)
      <4>1. n \in Sizes(codec)
        BY <2>2, <3>1
      <4>. HIDE DEF n
      <4>. QED
        BY <4>1 DEF Sizes
    <3>3. /\ StandsAt(stream, p[g], p[g + 1], f) /\ p[g] = 0 /\ p \in [g..whole -> 0..Len(stream)]
      <4>1. \A i \in (g + 1)..whole : StandsAt(stream, p[i - 1], p[i], FrameOf(codec, encoded[i]))
        BY <2>4 DEF Laid
      <4>2. ASSUME NEW i \in (g + 1)..whole, i = g + 1
            PROVE  StandsAt(stream, p[g], p[g + 1], FrameOf(codec, encoded[g + 1]))
        <5>1. i - 1 = g
          BY <2>3, <4>2
        <5>2. StandsAt(stream, p[i - 1], p[i], FrameOf(codec, encoded[i]))
          BY <4>1
        <5>. QED
          BY <4>2, <5>1, <5>2
      <4>3. StandsAt(stream, p[g], p[g + 1], f)
        BY <3>1, <4>2
      <4>. QED
        BY <2>4, <4>3 DEF Laid
    <3>4. /\ Len(f) \in Nat /\ Len(f) > 1 /\ Len(f) = Len(h) + 1
          /\ f[Len(f)] = Framing!Unit("text", n) /\ Len(h) \in Nat
      BY <3>2, FrameParts, HeaderBytes
    <3>. HIDE DEF f, h, n
    <3>5. /\ p[g + 1] = Len(f) /\ Len(f) <= Len(stream)
          /\ \A j \in 1..Len(f) : stream[j] = f[j]
      <4>1. p[g + 1] \in 0..Len(stream) /\ p[g + 1] = 0 + Len(f)
        BY <2>3, <2>5, <3>1, <3>3 DEF StandsAt
      <4>2. \A j \in 1..Len(f) : stream[0 + j] = f[j] /\ 0 + j = j
        BY <3>3, <3>4 DEF StandsAt
      <4>. QED
        BY <3>4, <4>1, <4>2
    <3>6. stream[Len(f)].kind = "text" /\ stream[Len(f)].bits = n
      BY <3>4, <3>5 DEF Framing!Unit
    <3>7. Framing!HeaderRead /\ Framing!HeaderLen = Len(h) /\ Framing!DecodedLength = n
      <4>1. \A j \in 1..Len(h) : stream[j] = f[j]
        BY <3>4, <3>5
      <4>2. stream[Len(f)].kind # "byte" /\ Len(stream) >= Len(f)
        BY <2>2, <3>4, <3>5, <3>6
      <4>. QED
        BY <1>1, <2>2, <3>2, <4>1, <4>2, HeaderIsRead DEF f, h
    <3>8. Framing!TextFollows
      BY <2>2, <3>4, <3>5, <3>6, <3>7 DEF Framing!TextFollows
    <3>9. /\ decoded' = Append(decoded, n) /\ outcome' = outcome
          /\ stream' = SubSeq(stream, Len(f) + 1, Len(stream))
      <4>1. Len(h) + 2 = Len(f) + 1
        BY <3>4
      <4>. QED
        BY <1>1, <3>4, <3>6, <3>7, <3>8, <4>1 DEF Framing!Decode, Framing!InStep
    <3>10. \E p2 : Laid(p2, stream', codec, encoded, g + 1, whole, ended)
      BY <2>2, <2>3, <2>4, <2>5, <3>9, FrameTaken DEF f, n
    <3>11. /\ decoded' \in Seq(SUBSET (0..63)) /\ Len(decoded') = g + 1
           /\ \A i \in 1..(g + 1) : decoded'[i] = encoded[i]
      BY <2>2, <3>2, <3>9 DEF g, n
    <3>12. stream' \in Seq(FramingUnits)
      BY <2>2, <3>4, <3>5, <3>9
    <3>. QED
      BY <1>1, <2>2, <2>3, <2>5, <3>9, <3>10, <3>11, <3>12 DEF LengthsInv
  <2>6. CASE g = whole
    <3>1. outcome' = "error" /\ ended /\ decoded' = decoded /\ stream' = << >>
      <4>1. p[g] = 0 /\ (0 < Len(stream) => ended /\ whole < Len(encoded) /\ Begun(stream, 0, f))
        BY <2>4, <2>6 DEF Laid
      <4>2. CASE Len(stream) = 0
        <5>1. {} \in Sizes(codec)
          BY DEF Sizes
        <5>2. Len(FrameOf(codec, {})) \in Nat /\ Len(FrameOf(codec, {})) > 1
          BY <5>1, FrameParts
        <5>0. /\ Framing!Leading = stream
              /\ Framing!HeaderRead => Len(stream) + 1 = Len(FrameOf(codec, {}))
          BY <1>1, <2>2, <4>2, <5>1, <5>2, HeaderIsCut
        <5>4. Len(stream) + 1 # Len(FrameOf(codec, {}))
          <6>1. \A l, k \in Nat : l = 0 /\ k > 1 => l + 1 # k
            OBVIOUS
          <6>2. Len(stream) \in Nat
            BY <2>2
          <6>. QED
            BY <4>2, <5>2, <6>1, <6>2
        <5>3. Framing!Leading = stream /\ ~Framing!HeaderRead
          BY <5>0, <5>4
        <5>. QED
          BY <2>2, <5>3, DecodeStops
      <4>3. CASE 0 < Len(stream)
        <5>1. n \in Sizes(codec)
          BY <2>2, <2>3, <2>6, <4>1, <4>3
        <5>2. /\ Len(f) \in Nat /\ Len(f) > 1 /\ Len(f) = Len(h) + 1 /\ Len(h) \in Nat
              /\ f[Len(f)] = Framing!Unit("text", n)
          BY <5>1, FrameParts, HeaderBytes
        <5>. HIDE DEF f, h, n
        <5>3. /\ Len(stream) <= Len(f)
              /\ \A j \in 1..Len(stream) :
                    IF j < Len(f) THEN stream[j] = f[j] ELSE stream[j].kind = "part"
              /\ n = {} => Len(stream) < Len(f) - 1
          <6>1. Len(stream) - 0 = Len(stream) /\ \A j \in 1..Len(stream) : 0 + j = j
            BY <2>2
          <6>2. f[Len(f)].bits = n
            BY <5>2 DEF Framing!Unit
          <6>. QED
            BY <4>1, <4>3, <6>1, <6>2 DEF Begun
        <5>4. CASE Len(stream) < Len(f)
          <6>1. \A j \in 1..Len(stream) : stream[j] = f[j]
            BY <2>2, <5>2, <5>3, <5>4
          <6>2. /\ Framing!Leading = stream
                /\ Framing!HeaderRead => /\ Framing!HeaderLen = Len(stream)
                                         /\ Len(stream) + 1 = Len(f) /\ Framing!DecodedLength = n
            BY <1>1, <2>2, <5>1, <5>4, <6>1, HeaderIsCut DEF f
          <6>3. Framing!HeaderRead => Framing!DecodedLength # {}
            BY <2>2, <5>2, <5>3, <6>2
          <6>. QED
            BY <2>2, <6>2, <6>3, DecodeStops
        <5>5. CASE Len(stream) = Len(f)
          <6>1. \A j \in 1..Len(h) : stream[j] = f[j]
            BY <5>2, <5>3, <5>5
          <6>2. stream[Len(f)].kind = "part"
            BY <5>2, <5>3, <5>5
          <6>3. /\ Framing!HeaderRead /\ Framing!HeaderLen = Len(h)
                /\ Framing!DecodedLength = n /\ n # {}
            BY <1>1, <2>2, <5>1, <5>2, <5>3, <5>5, <6>1, <6>2, HeaderIsRead DEF f, h
          <6>4. stream[Framing!HeaderLen + 1].kind = "part"
            BY <5>2, <6>2, <6>3
          <6>. QED
            BY <4>1, <4>3, <6>3, <6>4 DEF Framing!Decode, Framing!TextFollows
        <5>. QED
          BY <2>2, <5>2, <5>3, <5>4, <5>5
      <4>. QED
        BY <2>2, <4>2, <4>3
    <3>. QED
      BY <1>1, <2>2, <2>6, <3>1 DEF LengthsInv, g
  <2>. QED
    BY <2>3, <2>2, <2>5, <2>6
<1>3. LengthsInv' /\ TextInv'
  BY <1>1, <1>2 DEF LengthsInv, TextInv
<1>. QED
  BY <1>1, <1>3 DEF FramingInv

LEMMA FramingStutters ==
  ASSUME FramingInv, UNCHANGED Framing!vars
  PROVE  FramingInv'
<1>1. /\ codec' = codec /\ encoded' = encoded /\ stream' = stream /\ whole' = whole
      /\ ended' = ended /\ decoded' = decoded /\ outcome' = outcome
  BY DEF Framing!vars, Framing!exchange
<1>. QED
  BY <1>1 DEF FramingInv, LengthsInv, TextInv, TooLong

LEMMA FramingStep ==
  ASSUME Framing!FramingAssumption, FramingInv, [Framing!Next]_(Framing!vars)
  PROVE  FramingInv'
BY FramingSend, FramingEnd, FramingDecode, FramingDecodeText, FramingStutters DEF Framing!Next

LEMMA InvIsIntact == FramingInv => MessagesIntact
<1>. SUFFICES ASSUME FramingInv PROVE MessagesIntact
  OBVIOUS
<1>1. ASSUME ~TooLong, codec # "base64"
      PROVE  /\ outcome # "astray" /\ IsPrefix(decoded, encoded)
             /\ outcome = "error" => Len(decoded) = whole
  <2>1. /\ encoded \in Seq(SUBSET (0..63)) /\ decoded \in Seq(SUBSET (0..63))
        /\ Len(decoded) <= whole /\ whole <= Len(encoded) /\ whole \in Nat
        /\ \A i \in 1..Len(decoded) : decoded[i] = encoded[i]
        /\ outcome \in {"reading", "error"} /\ (outcome = "error" => Len(decoded) = whole)
    BY <1>1 DEF FramingInv, LengthsInv
  <2>2. Len(decoded) <= Len(encoded)
    BY <2>1
  <2>3. IsPrefix(decoded, encoded)
    BY <2>1, <2>2, PrefixIs
  <2>. QED
    BY <2>1, <2>3
<1>. QED
  BY <1>1 DEF MessagesIntact, FramingInv, TextInv

\* What was encoded is decoded.
THEOREM FramingIsIntact ==
  ASSUME Framing!FramingAssumption
  PROVE  Framing!Spec => []MessagesIntact
<1>1. Framing!Init => FramingInv
  BY FramingInit
<1>2. FramingInv /\ [Framing!Next]_(Framing!vars) => FramingInv'
  BY FramingStep
<1>3. FramingInv => MessagesIntact
  BY InvIsIntact
<1>. QED
  BY <1>1, <1>2, <1>3, PTL DEF Framing!Spec
=============================================================================
