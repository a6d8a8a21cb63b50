----------------------------- MODULE PrefixSums -----------------------------
(* The sum of the numbers of a row before a place in it.                    *)
EXTENDS Integers, Sequences

SumBefore(numbers, i) ==
    LET sum[n \in 0 .. Len(numbers)] == IF n = 0 THEN 0 ELSE sum[n - 1] + numbers[n]
    IN  sum[i - 1]
=============================================================================
