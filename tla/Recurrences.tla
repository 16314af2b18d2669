------------------------------- MODULE Recurrences -------------------------------
(***************************************************************************)
(* Sums, powers and selections as recursive functions.  They compute what  *)
(* MapThenSumSet, ^ and SelectSeq do, in the form of equations that a      *)
(* proof can unfold one index at a time.                                   *)
(***************************************************************************)
EXTENDS Integers, Sequences

Square(x) == x * x

\* f[0] + ... + f[n - 1]
SumTo(f, n) == LET sum[k \in 0 .. n] == IF k = 0 THEN 0 ELSE sum[k - 1] + f[k - 1]
               IN  sum[n]

\* b^n
Power(b, n) == LET power[k \in 0 .. n] == IF k = 0 THEN 1 ELSE b * power[k - 1]
               IN  power[n]

\* The elements of sequence s at the places in the set, in their order.
AtPlaces(s, places) ==
    LET taken[k \in 0 .. Len(s)] ==
            IF k = 0 THEN <<>>
            ELSE IF k \in places THEN Append(taken[k - 1], s[k]) ELSE taken[k - 1]
    IN  taken[Len(s)]
================================================================================
