------------------------------- MODULE Framing -------------------------------
(***************************************************************************)
(* LengthDelimitedCodec and FixedLength32Codec over one connection, and    *)
(* base64 over one string: messages are encoded one after the other, what  *)
(* the wire carries may end anywhere, and the decoder takes one message    *)
(* after the other from it.                                                *)
(*                                                                         *)
(* The wire is a sequence of units: a byte, the whole text of a message,   *)
(* or the part of one that was sent before the end.  A message of the two  *)
(* codecs is known by its length, one of base64 by its bytes.              *)
(***************************************************************************)
EXTENDS Codecs, Exchange, FiniteSets

CONSTANTS Lengths,     \* the lengths of messages, as bits
          Texts,       \* the messages of base64
          MaxMessages  \* bound: how many are encoded

ASSUME FramingAssumption == /\ Lengths \subseteq SUBSET (0..63)
                            /\ Texts \subseteq Seq(Byte)
                            /\ MaxMessages \in Nat

VARIABLES wire,     \* what is on its way
          ended     \* nothing more comes

vars == <<exchange, wire, ended>>

Unit(kind, bits) == [kind |-> kind, bits |-> bits]
Bytes(seq) == [i \in 1..Len(seq) |-> Unit("byte", seq[i])]
BitsOf(units) == [i \in 1..Len(units) |-> units[i].bits]

Init ==
  /\ codec \in {"delimited", "fixed", "base64"}
  /\ encoded = << >> /\ wire = << >> /\ whole = 0 /\ ended = FALSE
  /\ decoded = << >> /\ outcome = "reading"

Header(length) == IF codec = "fixed" THEN EncodeFixed(length) ELSE EncodeVarint(length)

\* encode of one message; write and flush put all of it on the wire.
Encode(n) ==
  /\ codec # "base64"
  /\ wire' = wire \o Bytes(Header(n)) \o <<Unit("text", n)>>
  /\ encoded' = Append(encoded, n)

\* A text is not followed by another.
EncodeText(text) ==
  /\ codec = "base64" /\ encoded = << >>
  /\ wire' = Bytes(Base64Encode(text))
  /\ encoded' = <<text>>

Send ==
  /\ ~ended /\ Len(encoded) < MaxMessages
  /\ \/ \E n \in Lengths : Encode(n)
     \/ \E text \in Texts : EncodeText(text)
  /\ whole' = whole + 1
  /\ UNCHANGED <<codec, ended, decoded, outcome>>

\* A text of no bytes cannot be missing where its header is.
Empty(i) == i \in 1..Len(wire) /\ wire[i] = Unit("text", {})

\* The wire without its end: k whole units, and perhaps a part of a text.
Cut(k) ==
  {SubSeq(wire, 1, k)} \cup
  (IF k < Len(wire) /\ wire[k + 1].kind = "text"
   THEN {Append(SubSeq(wire, 1, k), Unit("part", wire[k + 1].bits))} ELSE {})

TextsIn(units) == {i \in 1..Len(units) : units[i].kind = "text"}

\* The connection is closed or lost, wherever the encoder is.
End ==
  /\ ~ended
  /\ ended' = TRUE
  /\ \E k \in 0..Len(wire) : \E rest \in Cut(k) :
       /\ ~Empty(k + 1)
       /\ wire' = rest
       /\ whole' = IF codec = "base64" THEN (IF rest = wire THEN whole ELSE 0)
                   ELSE whole - (Cardinality(TextsIn(wire)) - Cardinality(TextsIn(rest)))
  /\ UNCHANGED <<codec, encoded, decoded, outcome>>

-----------------------------------------------------------------------------
\* The leading bytes of the wire, those of the header among them.
Leading == LET stops == {i \in 1..Len(wire) : wire[i].kind # "byte"} IN
           IF stops = {} THEN wire
           ELSE SubSeq(wire, 1, (CHOOSE i \in stops : \A j \in stops : i <= j) - 1)

\* decode_length has its last byte.
HeaderRead == IF codec = "fixed" THEN Len(Leading) >= 4
              ELSE VarintEnds(BitsOf(Leading)) # {}
HeaderLen == IF codec = "fixed" THEN 4 ELSE VarintLen(BitsOf(Leading))
DecodedLength == IF codec = "fixed" THEN DecodeFixed(BitsOf(Leading))
                 ELSE DecodeVarint(BitsOf(Leading))

\* What read_exact(message) finds for the length that was decoded.
TextFollows == Len(wire) > HeaderLen /\ wire[HeaderLen + 1].kind = "text"

\* It finds nothing at all, or the text whose length was decoded.
InStep == Len(wire) = HeaderLen \/ (TextFollows /\ DecodedLength = wire[HeaderLen + 1].bits)

\* decode of one message: its error is the only end of the stream there is.  An
\* empty message is read without a look at the stream.
Decode ==
  /\ codec # "base64" /\ outcome = "reading"
  /\ \/ /\ HeaderRead /\ (TextFollows \/ DecodedLength = {})
        /\ decoded' = Append(decoded, DecodedLength)
        /\ outcome' = IF InStep THEN outcome ELSE "astray"
        /\ wire' = SubSeq(wire, HeaderLen + 2, Len(wire))
     \/ /\ HeaderRead /\ ~TextFollows /\ DecodedLength # {}
        /\ ended \/ Len(wire) > HeaderLen
        /\ outcome' = IF Len(wire) > HeaderLen /\ wire[HeaderLen + 1].kind = "byte"
                      THEN "astray" ELSE "error"
        /\ wire' = << >> /\ UNCHANGED decoded
     \/ /\ ~HeaderRead
        /\ ended \/ Leading # wire
        /\ outcome' = IF Leading # wire THEN "astray" ELSE "error"
        /\ wire' = << >> /\ UNCHANGED decoded
  /\ UNCHANGED <<codec, encoded, whole, ended>>

\* base64::decode of the string that arrived.
DecodeText ==
  /\ codec = "base64" /\ outcome = "reading" /\ ended
  /\ decoded' = <<Base64Decode(BitsOf(wire))>>
  /\ wire' = << >> /\ outcome' = "error"
  /\ UNCHANGED <<codec, encoded, whole, ended>>

Next == Send \/ End \/ Decode \/ DecodeText

Spec == Init /\ [][Next]_vars
=============================================================================
