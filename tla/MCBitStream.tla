---------------------------- MODULE MCBitStream ----------------------------
(***************************************************************************)
(* Model checking module BitStream with words of 12 bits in the place of   *)
(* 32, so that a field can still hold a whole byte and more.               *)
(***************************************************************************)
EXTENDS BitStream

\* Values at the edges of a width, one that does not fit and a negative one.
MCValues == [w \in Widths |-> {Pow2[w] - 2, Pow2[w] + 1, -3}]
=============================================================================
