------------------------------ MODULE MCFraming ------------------------------
(***************************************************************************)
(* Framing for TLC: two messages, their lengths at the boundaries of the   *)
(* bytes and of the groups of seven bits and at the limits of both codecs, *)
(* and strings that leave 0, 1 and 2 bytes over.                           *)
(***************************************************************************)
EXTENDS Framing

\* 0, 1, 127, 128, 255, 256, 65535, 65536, 2^31, 2^32 and 2^32 + 5, all of 64 bits.
const_Lengths == {{}, {0}, 0..6, {7}, 0..7, {8}, 0..15, {16}, {31}, {32}, {0, 2, 32}, 0..63}

const_Texts == {<< >>, <<0..7>>, <<{0, 7}, {1, 6}>>, <<{}, 0..7, {5}>>,
                <<{7}, {0}, {3, 4}, 0..6>>, <<{1}, {2}, {0, 1}, {6, 7}, {5}>>}
=============================================================================
