------------------------------- MODULE Sums ---------------------------------
(* The sum of a sequence of numbers.                                       *)
EXTENDS Integers

PartialSums(f, n) ==
    LET sum[k \in 0 .. n] == IF k = 0 THEN 0 ELSE sum[k - 1] + f[k]
    IN  sum
SumTo(f, n) == PartialSums(f, n)[n]
=============================================================================
