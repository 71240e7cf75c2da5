--------------------------- MODULE MCNttTransform ---------------------------
(* Eight coefficients modulo 17, where 3 is a root of unity of order 16:   *)
(* two monomials and a dense polynomial.                                   *)
EXTENDS NttTransform

MCInputPolys ==
    {[a \in 0 .. (N - 1) |-> IF a = i THEN 1 ELSE 0] : i \in {1, 6}}
        \cup {[a \in 0 .. (N - 1) |-> (3 * a + 2) % Q]}
=============================================================================
