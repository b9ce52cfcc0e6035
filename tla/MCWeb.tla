-------------------------------- MODULE MCWeb --------------------------------
(***************************************************************************)
(* Web for TLC: every pair of programs, with a length of each of the three *)
(* forms; that of the 16-bit form is one which is misread.                 *)
(***************************************************************************)
EXTENDS Web

const_Lengths == {5, 40000, 70000}
const_MaxSent == [client |-> 2, server |-> 1]
const_Text == <<{0, 7}, {}, {1, 2}, {5}, {0}>>
const_Masks == {<<{}, {0, 1}, {7}, 0..7>>}
=============================================================================
