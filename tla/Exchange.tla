------------------------------- MODULE Exchange -------------------------------
(***************************************************************************)
(* What the codecs promise of a connection: messages are encoded at one    *)
(* end and decoded at the other, and what is between them may be lost from *)
(* some point on.                                                          *)
(***************************************************************************)
EXTENDS Integers, SequencesExt

VARIABLES codec,    \* "delimited", "fixed" or "base64"
          encoded,  \* the messages that were encoded
          whole,    \* history: how many of them the wire carried to their ends
          decoded,  \* the messages that were decoded
          outcome   \* "reading", "error" (the stream ended), or "astray": the
                    \* length decoded is not that of the text that follows

exchange == <<codec, encoded, whole, decoded, outcome>>

\* FixedLength32Codec keeps 32 bits of a length and sends the whole text.
TooLong == codec = "fixed" /\ \E i \in 1..Len(encoded) : ~(encoded[i] \subseteq 0..31)

\* Decoding takes from the wire exactly what encoding put there, message after
\* message, wherever the stream ends: no length is misread, so the decoder is
\* never inside a text when it looks for a length; at an error it has every
\* message that came whole and no other; a base64 string that is cut gives the
\* beginning of the message.
MessagesIntact ==
  /\ ~TooLong /\ codec # "base64" =>
       /\ outcome # "astray"
       /\ IsPrefix(decoded, encoded)
       /\ outcome = "error" => Len(decoded) = whole
  /\ codec = "base64" /\ encoded # << >> /\ decoded # << >> =>
       IsPrefix(decoded[1], encoded[1]) /\ (whole = 1 => decoded = encoded)
=============================================================================
