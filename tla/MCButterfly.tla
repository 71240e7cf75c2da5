----------------------------- MODULE MCButterfly ----------------------------
(* The butterfly on 3-bit words with the moduli 2 and 3 (both below half   *)
(* of a word, as the reference model asks), every request.                 *)
EXTENDS Butterfly
=============================================================================
