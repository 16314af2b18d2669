------------------------------ MODULE OnlineStats ------------------------------
(***************************************************************************)
(* WelfordStats and EWMAStats of day22_welford_stability.cpp in the loop   *)
(* of its main, which feeds both with every price.  Numbers are exact, the *)
(* means in units of 1 / STATS_SCALE and the squares of its square.  The   *)
(* loop's third class, NaiveStats, is there for what doubles lose to       *)
(* cancellation, and left out with it.                                     *)
(***************************************************************************)
EXTENDS Moments

CONSTANTS NUM_TICKS, SampleValues,
          ALPHA_N, ALPHA_D,       \* alpha_ = ALPHA_N / ALPHA_D, 2 / (decay_period + 1)
          STATS_SCALE

\* The unit is small enough for every mean of up to NUM_TICKS prices to be a whole number.
ASSUME StatsAssumption ==
    /\ NUM_TICKS \in Nat /\ SampleValues \subseteq Int
    /\ ALPHA_N \in Int /\ ALPHA_D \in Nat \ {0}
    /\ STATS_SCALE \in Nat \ {0} /\ \A k \in 1 .. NUM_TICKS : Divides(k, STATS_SCALE)
    /\ Scales(STATS_SCALE, ALPHA_D, NUM_TICKS)

VARIABLES welford, ewma,   \* the members of the two objects
          samples          \* history: the prices fed

statsVars == <<welford, ewma, samples>>

StatsInit == /\ welford = [mean |-> 0, m2 |-> 0, n |-> 0]
             /\ ewma = [mean |-> 0, var |-> 0, init |-> FALSE]
             /\ samples = <<>>

\* A slip (mutant of WelfordUpdate): both deltas are from the mean before.
WelfordOneDelta(x) ==
    LET n == welford.n + 1
        delta == STATS_SCALE * x - welford.mean
    IN [mean |-> welford.mean + delta \div n, m2 |-> welford.m2 + delta * delta, n |-> n]

WelfordUpdate(x) ==
    LET n == welford.n + 1
        delta == STATS_SCALE * x - welford.mean
        mean == welford.mean + delta \div n
        delta2 == STATS_SCALE * x - mean
    IN [mean |-> mean, m2 |-> welford.m2 + delta * delta2, n |-> n]

EwmaUpdate(x) ==
    LET diff == STATS_SCALE * x - ewma.mean
        rest == ALPHA_D - ALPHA_N
    IN IF ~ewma.init THEN [mean |-> STATS_SCALE * x, var |-> 0, init |-> TRUE]
       ELSE [mean |-> (ALPHA_N * (STATS_SCALE * x) + rest * ewma.mean) \div ALPHA_D,
             var |-> (rest * (ALPHA_D * ewma.var + ALPHA_N * (diff * diff)))
                         \div (ALPHA_D * ALPHA_D),
             init |-> TRUE]

StatsUpdate == /\ Len(samples) < NUM_TICKS
               /\ \E x \in SampleValues :
                     /\ welford' = WelfordUpdate(x)
                     /\ ewma' = EwmaUpdate(x)
                     /\ samples' = Append(samples, x)

StatsReported == Len(samples) = NUM_TICKS /\ UNCHANGED statsVars

StatsNext == StatsUpdate \/ StatsReported

StatsSpec == StatsInit /\ [][StatsNext]_statsVars

-----------------------------------------------------------------------------
(* Properties.                                                             *)

\* After any prices, the recurrences hold what their definitions over the whole
\* sequence give: Welford's mean and squared deviations from it, and the decayed mean
\* and variance with its weights.
StatsExact ==
    samples # <<>> =>
        /\ welford.mean = MeanOf(samples, STATS_SCALE)
        /\ welford.m2 = SquaresOf(samples, STATS_SCALE)
        /\ ewma.mean = DecayedMean(samples, STATS_SCALE, ALPHA_N, ALPHA_D)
        /\ ewma.var = DecayedSquares(samples, STATS_SCALE, ALPHA_N, ALPHA_D)
================================================================================
