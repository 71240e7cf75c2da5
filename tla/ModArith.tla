------------------------------ MODULE ModArith ------------------------------
(***************************************************************************)
(* model/modarith.py: the Python reference of the serial multiplier and of *)
(* the butterfly, from which tools/gen_vectors.py computes the answers of  *)
(* the regression corpus.  Python's integers do not wrap, so nothing is    *)
(* truncated to a word.  ValueError is the result Rejected.                *)
(***************************************************************************)
EXTENDS Integers

CONSTANTS WORD_BITS, KEM_Q, DSA_Q

Rejected == [out_a |-> -1, out_b |-> -1, product |-> -1, cycles |-> -1]

(* Supported, and below half of a word: the signed-safety design bound.    *)
_validate_modulus(modulus) ==
    modulus \in {KEM_Q, DSA_Q} /\ modulus < 2^(WORD_BITS - 1)
_validate_residue(value, modulus) == 0 <= value /\ value < modulus

add_mod(a, b, modulus) ==
    LET total == a + b IN IF total >= modulus THEN total - modulus ELSE total
sub_modBorrow(a, b, modulus) ==                     \* slip: a - b = 0 borrows
    IF a > b THEN a - b ELSE a + modulus - b
sub_mod(a, b, modulus) == IF a >= b THEN a - b ELSE a + modulus - b

(* The state of the loop after n of its word_bits iterations.              *)
Iterations(a, b, modulus) ==
    LET loop[n \in 0 .. WORD_BITS] ==
            IF n = 0
            THEN [product |-> 0, multiplicand |-> a, multiplier |-> b]
            ELSE LET s == loop[n - 1]
                 IN  [product |->
                          IF s.multiplier % 2 = 1
                          THEN add_mod(s.product, s.multiplicand, modulus)
                          ELSE s.product,
                      multiplicand |->
                          add_mod(s.multiplicand, s.multiplicand, modulus),
                      multiplier |-> s.multiplier \div 2]
    IN  loop

mul_mod_shift_add(a, b, modulus) ==
    [value |-> Iterations(a, b, modulus)[WORD_BITS].product,
     cycles |-> WORD_BITS]

butterfly(a, b, twiddle, modulus) ==
    IF /\ _validate_modulus(modulus)
       /\ \A value \in {a, b, twiddle} : _validate_residue(value, modulus)
    THEN LET product == mul_mod_shift_add(b, twiddle, modulus)
         IN  [out_a   |-> add_mod(a, product.value, modulus),
              out_b   |-> sub_mod(a, product.value, modulus),
              product |-> product.value,
              cycles  |-> product.cycles]
    ELSE Rejected
=============================================================================
