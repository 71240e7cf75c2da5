------------------------------ MODULE FastMod ------------------------------
(***************************************************************************)
(* model/fastmod.py: the Python model the pipelined multiplier is compared *)
(* with.  A right shift is an integer division that rounds down, a mask of *)
(* n ones a remainder by 2^n; a ValueError is the result Rejected.         *)
(***************************************************************************)
EXTENDS Integers

Q_KEM == 3329
KEM_K == 13
KEM_M == 256              \* 2^8
KEM_CORR == 1353
Q_DSA == 8380417
DSA_S == 8388608          \* 2^23
DSA_T == 8192             \* 2^13

MODULUS_ID_KEM == 0
MODULUS_ID_DSA == 1

Rejected == -1

(* The conditional subtraction without a branch: the borrow is bit "width" *)
(* of the two's-complement difference and selects the term added back.     *)
(* span is 2^width.                                                        *)
_cond_sub(value, modulus, span) ==
    LET difference == value - modulus
        borrow     == (difference \div span) % 2
    IN  difference + modulus * borrow

kred(value) == KEM_K * (value % KEM_M) - (value \div KEM_M)
k2red(value) == kred(kred(value))

kem_normalizeNarrow(value) ==                       \* slip: width 11, not 13
    _cond_sub(_cond_sub(value + Q_KEM, Q_KEM, 2048), Q_KEM, 2048)
kem_normalize(value) ==
    _cond_sub(_cond_sub(value + Q_KEM, Q_KEM, 8192), Q_KEM, 8192)

kred2_norm(value) == kem_normalize(k2red(value))

(* Two rounds, the constant between them undoing the scale 169 * 169.      *)
reduce_kem(product) == kred2_norm(kred2_norm(product) * KEM_CORR)

dsa_fold(value) ==
    LET high == value \div DSA_S
    IN  (value % DSA_S) + high * DSA_T - high

reduce_dsa(product) ==
    _cond_sub(dsa_fold(dsa_fold(dsa_fold(dsa_fold(product)))), Q_DSA, 16777216)

_require_canonical(value, modulus) == 0 <= value /\ value < modulus

mulmod_kem(a, b) ==
    IF _require_canonical(a, Q_KEM) /\ _require_canonical(b, Q_KEM)
    THEN reduce_kem(a * b) ELSE Rejected
mulmod_dsa(a, b) ==
    IF _require_canonical(a, Q_DSA) /\ _require_canonical(b, Q_DSA)
    THEN reduce_dsa(a * b) ELSE Rejected

modulus_for_id(modulus_id) ==
    IF modulus_id = MODULUS_ID_KEM THEN Q_KEM
    ELSE IF modulus_id = MODULUS_ID_DSA THEN Q_DSA ELSE Rejected

mulmod(a, b, modulus) ==
    IF modulus = Q_KEM THEN mulmod_kem(a, b)
    ELSE IF modulus = Q_DSA THEN mulmod_dsa(a, b) ELSE Rejected

request_is_valid(modulus_id, a, b) ==
    /\ modulus_id \in {MODULUS_ID_KEM, MODULUS_ID_DSA}
    /\ LET modulus == modulus_for_id(modulus_id)
       IN  0 <= a /\ a < modulus /\ 0 <= b /\ b < modulus

execute(modulus_id, a, b) ==
    IF request_is_valid(modulus_id, a, b)
    THEN [product |-> mulmod(a, b, modulus_for_id(modulus_id)), fault |-> FALSE]
    ELSE [product |-> 0, fault |-> TRUE]
=============================================================================
