-------------------------------- MODULE Moments --------------------------------
(***************************************************************************)
(* What the running statistics of day21, day22 and day23 are meant to be:  *)
(* means and squared deviations of a whole sequence of prices, exact, in   *)
(* units of 1 / scale and 1 / scale^2.  A scale that the lengths, or the   *)
(* powers of b below them, divide makes every quotient below exact.        *)
(***************************************************************************)
EXTENDS Recurrences

\* f[1] + ... + f[n]
Total(f, n) == SumTo([k \in 0 .. n - 1 |-> f[k + 1]], n)

\* The arithmetic mean, and the sum of the squared deviations from it.
MeanOf(xs, scale) == (scale * Total(xs, Len(xs))) \div Len(xs)
SquaresOf(xs, scale) ==
    LET m == MeanOf(xs, scale)
    IN Total([k \in DOMAIN xs |-> Square(scale * xs[k] - m)], Len(xs))

\* Weights that decay by 1 - a/b from each price to the one before, times
\* b^(n - 1): they add up to it, so the first price has the whole remainder.
Decay(k, n, a, b) == IF k = 1 THEN Power(b - a, n - 1)
                     ELSE a * Power(b - a, n - k) * Power(b, k - 2)

\* The decayed mean, and the decayed squared deviation from it.
DecayedMean(xs, scale, a, b) ==
    LET n == Len(xs)
    IN Total([k \in 1 .. n |-> Decay(k, n, a, b) * xs[k]], n) * (scale \div Power(b, n - 1))
DecayedSquares(xs, scale, a, b) ==
    LET n == Len(xs)
        m == DecayedMean(xs, scale, a, b)
    IN Total([k \in 1 .. n |-> Decay(k, n, a, b) * Square(scale * xs[k] - m)], n)
           \div Power(b, n - 1)

\* The scale that makes the quotients of up to n prices exact.
Divides(d, x) == x % d = 0
Scales(scale, b, n) == \A k \in 0 .. n - 1 : Divides(Power(b, k), scale)
================================================================================
