------------------------------ MODULE Summation ------------------------------
(***************************************************************************)
(* Sums of the first numbers of a sequence, for the properties that speak  *)
(* of totals.  A recursive function, so that proofs can speak of the sums  *)
(* before the last one.                                                    *)
(***************************************************************************)
EXTENDS Integers

Sums(f, n) == LET sums[k \in 0 .. n] == IF k = 0 THEN 0 ELSE sums[k - 1] + f[k]
              IN  sums

SumOf(f, n) == Sums(f, n)[n]
=============================================================================
