------------------------------ MODULE Ordering ------------------------------
(***************************************************************************)
(* Python's sorted: the rows of a sequence in the order of their keys, and *)
(* rows of equal keys as they came.  The order is given by the rows that   *)
(* come earlier than each: row i stands at place p if p - 1 rows do.       *)
(***************************************************************************)
EXTENDS Integers, FiniteSets

InOrder(rows, earlier) ==
    [p \in DOMAIN rows |->
        rows[CHOOSE i \in DOMAIN rows : Cardinality(earlier[i]) = p - 1]]
=============================================================================
