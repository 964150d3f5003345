----------------------------- MODULE MCNonceWalk -----------------------------
(***************************************************************************)
(* Instances of NonceWalk for TLC, with words of five bits.                *)
(***************************************************************************)
EXTENDS NonceWalk, Bitwise

(* A power of two, a prime, a composite odd and a composite even range; the
   last one wraps around the end of the nonces. *)
Slices == {[start |-> 3, range |-> 8], [start |-> 0, range |-> 7],
           [start |-> 5, range |-> 9], [start |-> 27, range |-> 6]}

OneSlice == {[start |-> 3, range |-> 4]}

(* Some of the arms of the code, modulo 2^Bits: with and without common
   divisors with the ranges. *)
StrideArms == <<1, 3, 7, 31>>

MaskValues ==
  [offset |-> 3, knight |-> 25,
   split  |-> [s \in 0 .. 7 |-> 7 ^^ (4 * s)]]

ExclusiveOr(x, y) == x ^^ y

ShiftedWord == [x \in 0 .. Word - 1 |-> LET y == IF x = 0 THEN 5 ELSE x
                                        IN y ^^ ((2 * y) % Word)]
=============================================================================
