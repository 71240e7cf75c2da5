---------------------------- MODULE MCModMulFast ----------------------------
(* Requests at the corners of the reductions: a first round that needs     *)
(* both subtractions, one that is negative, the largest operands, a final  *)
(* subtraction that is needed and one that is not, and one operand or the  *)
(* selector out of range.  ML-DSA products are kept below 2^31.            *)
EXTENDS ModMulFast

KemRequest(a, b) == [id |-> 0, a |-> a, b |-> b]
DsaRequest(a, b) == [id |-> 1, a |-> a, b |-> b]

MCRequests ==
    {KemRequest(407, 3057), KemRequest(1, 1891), KemRequest(3328, 3328),
     KemRequest(1, 6), KemRequest(3329, 1),
     DsaRequest(4190209, 2), DsaRequest(8380416, 256), DsaRequest(8380416, 1),
     DsaRequest(1, 8380417),
     [id |-> 2, a |-> 0, b |-> 0]}
=============================================================================
