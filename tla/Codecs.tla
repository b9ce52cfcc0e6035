-------------------------------- MODULE Codecs --------------------------------
(***************************************************************************)
(* The encodings of lengths and bytes: LengthDelimitedCodec, the fixed     *)
(* 32-bit codec, the length and the mask of WebsocketCodec, and base64.    *)
(*                                                                         *)
(* An unsigned number is the set of the positions of its bits that are 1,  *)
(* so 64-bit numbers are as easy as bytes, shifts add to the elements and  *)
(* | is a union.  The machine is little-endian and char is signed.         *)
(***************************************************************************)
EXTENDS Integers, Sequences

Byte == SUBSET (0..7)

\* The number n < 2^31 as its bits.
Bits(n) == {b \in 0..30 : (n \div 2^b) % 2 = 1}

\* x << k and x >> k without a limit of width, and the low k bits of x.
ShiftLeft(x, k)  == {b + k : b \in x}
ShiftRight(x, k) == {b - k : b \in {c \in x : c >= k}}
Low(x, k)        == x \cap (0..(k - 1))

\* bswap_16, bswap_32 and bswap_64: hton and ntoh of w bytes.
Swap(x, w) == {(8 * (w - 1 - (b \div 8))) + (b % 8) : b \in x}

\* Byte i of x, from the low end, for i = 1, 2, ...
ByteOf(x, i) == Low(ShiftRight(x, 8 * (i - 1)), 8)

-----------------------------------------------------------------------------
(* FixedLength32Codec: four bytes, in network order. *)

\* Mutants of EncodeFixed and VarintSize: the bytes are not swapped; one byte
\* less than it takes.
NotSwapped(x) == [i \in 1..4 |-> ByteOf(x, i)]

\* message.size() is stored in a uint32_t.
EncodeFixed(x) == LET y == Swap(Low(x, 32), 4) IN [i \in 1..4 |-> ByteOf(y, i)]

DecodeFixed(bytes) ==
  Swap(UNION {ShiftLeft(bytes[i], 8 * (i - 1)) : i \in 1..4}, 4)

-----------------------------------------------------------------------------
(* LengthDelimitedCodec: a varint of the swapped 64-bit length. *)

MaxVarintBytes == 10

VarintSize8(y) == CHOOSE k \in 1..MaxVarintBytes :
  /\ y \subseteq 0..(8 * k - 1)
  /\ \A j \in 1..(k - 1) : ~(y \subseteq 0..(8 * j - 1))

\* The groups of seven bits that y takes; zero takes one.
VarintSize(y) == CHOOSE k \in 1..MaxVarintBytes :
  /\ y \subseteq 0..(7 * k - 1)
  /\ \A j \in 1..(k - 1) : ~(y \subseteq 0..(7 * j - 1))

\* The high bit of a byte says that another one follows.
EncodeVarint(x) ==
  LET y == Swap(x, 8) IN
  [i \in 1..VarintSize(y) |->
     Low(ShiftRight(y, 7 * (i - 1)), 7) \cup (IF i < VarintSize(y) THEN {7} ELSE {})]

\* How many bytes decode_length reads: up to one without the high bit, or ten.
VarintEnds(bytes) == {i \in 1..Len(bytes) : i <= MaxVarintBytes /\ 7 \notin bytes[i]}
VarintLen(bytes)  == CHOOSE i \in VarintEnds(bytes) : \A j \in VarintEnds(bytes) : i <= j

\* The value is kept in 64 bits: what is shifted out is gone.
DecodeVarint(bytes) ==
  LET groups == {ShiftLeft(Low(bytes[i], 7), 7 * (i - 1)) : i \in 1..VarintLen(bytes)} IN
  Swap(Low(UNION groups, 64), 8)

-----------------------------------------------------------------------------
(* WebsocketCodec: the length of a frame and the mask. *)

\* Which of the three forms of a length encode chooses: 7, 16 or 64 bits.
Form(n) == IF n < 126 THEN 7 ELSE IF n < 65536 THEN 16 ELSE 64

\* Mutant of EncodeLength: the bytes are not swapped.
HostOrder(x, form) ==
  IF form = 7 THEN <<Low(x, 7)>> ELSE [i \in 1..(form \div 8) |-> ByteOf(x, i)]

EncodeLength(x, form) ==
  LET w == form \div 8
      y == Swap(Low(x, form), w)
  IN IF form = 7 THEN <<Low(x, 7)>> ELSE [i \in 1..w |-> ByteOf(y, i)]

\* A char with its high bit set, widened to an int and cut to 16 bits.
SignExtended(byte) == byte \cup (IF 7 \in byte THEN 8..15 ELSE {})

\* The 16-bit form is put together from signed chars, the 64-bit form from
\* unsigned ones.
DecodeLength(bytes, form) ==
  IF form = 7 THEN Low(bytes[1], 7)
  ELSE IF form = 16
  THEN Swap(Low(SignExtended(bytes[1]) \cup ShiftLeft(SignExtended(bytes[2]), 8), 16), 2)
  ELSE Swap(UNION {ShiftLeft(bytes[i], 8 * (i - 1)) : i \in 1..8}, 8)

\* Mutant of Masked: the bytes after the last whole group of four are skipped.
MaskedInFours(data, mask) ==
  [i \in 1..Len(data) |->
     IF i <= 4 * (Len(data) \div 4)
     THEN (data[i] \ mask[((i - 1) % 4) + 1]) \cup (mask[((i - 1) % 4) + 1] \ data[i])
     ELSE data[i]]

\* apply_mask: ^ of each byte with one of the four.  Its index has 32 bits, and data
\* is no longer than that counts.
Masked(data, mask) ==
  [i \in 1..Len(data) |->
     (data[i] \ mask[((i - 1) % 4) + 1]) \cup (mask[((i - 1) % 4) + 1] \ data[i])]

-----------------------------------------------------------------------------
(* base64, without OpenSSL.  A letter is its index, 0..63, as bits. *)

\* Mutant of Sextets: the third sextet takes the wrong bits of the third byte.
SextetsShifted(b) == << ShiftRight(b[1], 2),
                        ShiftLeft(Low(b[1], 2), 4) \cup ShiftRight(b[2], 4),
                        ShiftLeft(Low(b[2], 4), 2) \cup Low(b[3], 2),
                        Low(b[3], 6) >>

\* Four letters of three bytes.
Sextets(b) == << ShiftRight(b[1], 2),
                 ShiftLeft(Low(b[1], 2), 4) \cup ShiftRight(b[2], 4),
                 ShiftLeft(Low(b[2], 4), 2) \cup ShiftRight(b[3], 6),
                 Low(b[3], 6) >>

\* Three bytes of four letters; a sum that does not carry is a union.
Octets(s) == << ShiftLeft(Low(s[1], 6), 2) \cup ShiftRight(s[2] \cap {4, 5}, 4),
                ShiftLeft(Low(s[2], 4), 4) \cup ShiftRight(s[3] \cap (2..5), 2),
                ShiftLeft(Low(s[3], 2), 6) \cup s[4] >>

\* Group g of a sequence; what the last one lacks is filled: with zeros by
\* encode, with the index of a letter that does not exist, -1, by decode.
Group(seq, width, g, fill) ==
  [i \in 1..width |-> LET k == width * (g - 1) + i IN
                      IF k <= Len(seq) THEN seq[k] ELSE fill]

\* A last group of k < 3 bytes gives k + 1 letters, and then padding, which
\* only ends what decode reads: it is left out.
Base64Encode(msg) ==
  [k \in 1..((4 * Len(msg) + 2) \div 3) |->
     Sextets(Group(msg, 3, (k - 1) \div 4 + 1, {}))[((k - 1) % 4) + 1]]

Base64Decode(letters) ==
  [k \in 1..((3 * Len(letters)) \div 4) |->
     Octets(Group(letters, 4, (k - 1) \div 3 + 1, 0..7))[((k - 1) % 3) + 1]]
=============================================================================
