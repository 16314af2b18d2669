----------------------------- MODULE SimdPipeline ------------------------------
(***************************************************************************)
(* day23_vectorized_features.cpp: two EMAs and Welford's moments of each   *)
(* symbol, updated by update_simd on whole vectors in one benchmark and by *)
(* update_scalar symbol by symbol in the next, on the same state.  The     *)
(* prices are not initialised, so the warm-up feeds whatever is there.     *)
(* Numbers are exact as in day22; the standard deviation and the z-score   *)
(* are functions of the moments that nothing reads back.                   *)
(***************************************************************************)
EXTENDS Moments

CONSTANTS SYMS, SIMD_TICKS,
          InitPrice, Moves,       \* init_price; the draws of dist
          Garbage,                \* what an uninitialised price may be
          FAST_N, FAST_M, SLOW_N, SLOW_M,  \* alpha_fast = FAST_N / FAST_M, 2 / 11 in the code
          SIMD_SCALE

Updates == 2 * SIMD_TICKS + 2     \* two of warm-up, SIMD_TICKS of each kind

\* The unit is small enough for every mean of these prices to be a whole number.
ASSUME SimdAssumption ==
    /\ SYMS \in Nat /\ SIMD_TICKS \in Nat
    /\ InitPrice \in Int /\ Moves \subseteq Int /\ Garbage \subseteq Int
    /\ FAST_N \in Int /\ FAST_M \in Nat \ {0} /\ SLOW_N \in Int /\ SLOW_M \in Nat \ {0}
    /\ SIMD_SCALE \in Nat \ {0} /\ \A k \in 1 .. Updates + 1 : Divides(k, SIMD_SCALE)
    /\ Scales(SIMD_SCALE, FAST_M, Updates + 1) /\ Scales(SIMD_SCALE, SLOW_M, Updates + 1)

VARIABLES p_prices, ema_fast, ema_slow, p_mean, p_m2, p_n,
          updates,                \* the calls so far
          fed                     \* history: the prices of each symbol, init_price first

simdVars == <<p_prices, ema_fast, ema_slow, p_mean, p_m2, p_n, updates, fed>>

Lanes == 0 .. SYMS - 1

SimdInit == /\ p_prices \in [Lanes -> Garbage]
            /\ ema_fast = [l \in Lanes |-> SIMD_SCALE * InitPrice] /\ ema_slow = ema_fast
            /\ p_mean = [l \in Lanes |-> SIMD_SCALE * InitPrice]
            /\ p_m2 = [l \in Lanes |-> 0] /\ p_n = [l \in Lanes |-> 1]
            /\ updates = 0
            /\ fed = [l \in Lanes |-> <<InitPrice>>]

\* The vector operations, lane by lane.
Add(v, w) == [l \in Lanes |-> v[l] + w[l]]
Sub(v, w) == [l \in Lanes |-> v[l] - w[l]]
Mul(v, w) == [l \in Lanes |-> v[l] * w[l]]
Div(v, w) == [l \in Lanes |-> v[l] \div w[l]]
Set1(x) == [l \in Lanes |-> x]

update_simd(prices) ==
    LET v_price == Mul(Set1(SIMD_SCALE), prices)
        v_n1 == Add(p_n, Set1(1))
        delta == Sub(v_price, p_mean)
        v_m == Add(p_mean, Div(delta, v_n1))
        delta2 == Sub(v_price, v_m)
        d_f == Mul(Set1(FAST_N), Sub(v_price, ema_fast))
        d_s == Mul(Set1(SLOW_N), Sub(v_price, ema_slow))
    IN /\ ema_fast' = Add(ema_fast, Div(d_f, Set1(FAST_M)))
       /\ ema_slow' = Add(ema_slow, Div(d_s, Set1(SLOW_M)))
       /\ p_mean' = v_m
       /\ p_m2' = Add(p_m2, Mul(delta, delta2))
       /\ p_n' = v_n1

update_scalar(prices) ==
    LET price(l) == SIMD_SCALE * prices[l]
        n1(l) == p_n[l] + 1
        delta(l) == price(l) - p_mean[l]
        mean1(l) == p_mean[l] + delta(l) \div n1(l)
    IN /\ ema_fast' = [l \in Lanes |-> ema_fast[l] + (FAST_N * (price(l) - ema_fast[l])) \div FAST_M]
       /\ ema_slow' = [l \in Lanes |-> ema_slow[l] + (SLOW_N * (price(l) - ema_slow[l])) \div SLOW_M]
       /\ p_mean' = [l \in Lanes |-> mean1(l)]
       /\ p_m2' = [l \in Lanes |-> p_m2[l] + delta(l) * (price(l) - mean1(l))]
       /\ p_n' = [l \in Lanes |-> n1(l)]

Feed(prices) == /\ p_prices' = prices
                /\ updates' = updates + 1
                /\ fed' = [l \in Lanes |-> Append(fed[l], prices[l])]

\* update_simd(sim); update_scalar(sim): the prices as they were found
WarmUp == \/ updates = 0 /\ update_simd(p_prices) /\ Feed(p_prices)
          \/ updates = 1 /\ update_scalar(p_prices) /\ Feed(p_prices)

\* Both benchmarks move every price and then update.
Benchmark == \E d \in [Lanes -> Moves] :
                LET moved == Add(p_prices, d)
                IN \/ /\ updates \in 2 .. SIMD_TICKS + 1
                      /\ update_simd(moved) /\ Feed(moved)
                   \/ /\ updates \in SIMD_TICKS + 2 .. Updates - 1
                      /\ update_scalar(moved) /\ Feed(moved)

Ended == updates = Updates /\ UNCHANGED simdVars

SimdNext == WarmUp \/ Benchmark \/ Ended

SimdSpec == SimdInit /\ [][SimdNext]_simdVars

-----------------------------------------------------------------------------
(* Properties.                                                             *)

\* Whichever of the two functions made which of the updates, the state of a symbol
\* is that of its own prices, with init_price as a first price of full weight.
LanesExact ==
    \A l \in Lanes :
        /\ p_n[l] = Len(fed[l])
        /\ p_mean[l] = MeanOf(fed[l], SIMD_SCALE) /\ p_m2[l] = SquaresOf(fed[l], SIMD_SCALE)
        /\ ema_fast[l] = DecayedMean(fed[l], SIMD_SCALE, FAST_N, FAST_M)
        /\ ema_slow[l] = DecayedMean(fed[l], SIMD_SCALE, SLOW_N, SLOW_M)
================================================================================
