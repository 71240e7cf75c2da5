------------------------------- MODULE Words --------------------------------
(***************************************************************************)
(* Words of the arithmetic units and their modular addition, which         *)
(* rtl/lca_modmul.sv and rtl/lca_butterfly.sv both define.                 *)
(***************************************************************************)
EXTENDS Integers

CONSTANT WORD_BITS          \* parameter WORD_BITS: the width of a word

ASSUME WordBitsAssumption == WORD_BITS \in Nat \ {0}

(* The laws of exponentiation that the proofs use, at the exponents that   *)
(* occur.                                                                  *)
ASSUME PowerAssumption ==
    /\ 2^0 = 1
    /\ \A n \in 0 .. WORD_BITS : 2^n \in Nat \ {0}
    /\ \A n \in 0 .. (WORD_BITS - 1) : 2^(n + 1) = 2 * 2^n

Word == 0 .. (2^WORD_BITS - 1)

(* add_mod: a (WORD_BITS+1)-bit sum, reduced once and truncated.           *)
add_mod(x, y, q) ==
    IF x + y >= q THEN (x + y - q) % 2^WORD_BITS ELSE (x + y) % 2^WORD_BITS

(* sub_mod: a borrow is repaid with one modulus, then truncated.           *)
sub_mod(x, y, q) ==
    IF x >= y THEN x - y ELSE (x + q - y) % 2^WORD_BITS
=============================================================================
