---------------------------- MODULE AlphaGenerator -----------------------------
(***************************************************************************)
(* AlphaGenerator of day21_alpha_signals.cpp with its parts EMA,           *)
(* RollingStats and VWAP, and the loop of main that feeds it ticks.        *)
(*                                                                         *)
(* Doubles are exact here: an average of period p has alpha = 2 / (p + 1)  *)
(* and is kept multiplied by EMA_SCALE, of which every power of p + 1      *)
(* below ALPHA_TICKS is a divisor.  A z-score is only compared with the    *)
(* band, by squares.  The strength of a signal, a number that is only      *)
(* averaged for the report, is left out.                                   *)
(***************************************************************************)
EXTENDS Moments

CONSTANTS FAST, SLOW,       \* periods of the two averages (10 and 50)
          WINDOW,           \* capacity of the ring of prices (20), positive
          BAND,             \* bb_mult_ (2)
          ALPHA_TICKS, EMA_SCALE,
          Prices, Volumes   \* what main's random numbers can give

ASSUME WindowAssumption == WINDOW \in Nat \ {0} /\ BAND \in Nat /\ Prices \subseteq Int

\* The unit of the averages is small enough for each of them to be a whole number.
ASSUME EmaAssumption ==
    /\ FAST \in Nat /\ SLOW \in Nat /\ ALPHA_TICKS \in Nat /\ EMA_SCALE \in Int
    /\ Scales(EMA_SCALE, FAST + 1, ALPHA_TICKS) /\ Scales(EMA_SCALE, SLOW + 1, ALPHA_TICKS)

VARIABLES fast_ema, slow_ema, init,          \* init_ of both averages
          buffer, head, count, sum, sum_sq,  \* RollingStats
          cum_vol_price, cum_vol,            \* VWAP
          signal, buys, sells,
          ticks                              \* history: the prices so far

alphaVars == <<fast_ema, slow_ema, init, buffer, head, count, sum, sum_sq, cum_vol_price, cum_vol,
               signal, buys, sells, ticks>>

AlphaInit == /\ fast_ema = 0 /\ slow_ema = 0 /\ init = FALSE
             /\ buffer = [k \in 0 .. WINDOW - 1 |-> 0] /\ head = 0 /\ count = 0
             /\ sum = 0 /\ sum_sq = 0
             /\ cum_vol_price = 0 /\ cum_vol = 0
             /\ signal = "HOLD" /\ buys = 0 /\ sells = 0
             /\ ticks = <<>>

\* EMA::update: alpha_ * price + (1 - alpha_) * val_ with alpha_ = 2 / (period + 1)
Averaged(val, period, price) ==
    IF init THEN (2 * (EMA_SCALE * price) + (period - 1) * val) \div (period + 1)
    ELSE EMA_SCALE * price

\* A slip (mutant of Evicted): the oldest price stays in the sums.
EvictedNever == 0

\* RollingStats::update: what leaves a full window
Evicted == IF count = WINDOW THEN buffer[head] ELSE 0

UpdateWindow(price) ==
    /\ count' = IF count = WINDOW THEN count ELSE count + 1
    /\ buffer' = [buffer EXCEPT ![head] = price]
    /\ head' = (head + 1) % WINDOW
    /\ sum' = sum - Evicted + price
    /\ sum_sq' = sum_sq - Evicted * Evicted + price * price

\* The z-score is dev / sqrt(var), both multiplied by the number of prices; std
\* is taken for zero below 1e-6.
Deviation(price) == count' * price - sum'
Variance == count' * sum_sq' - sum' * sum'

\* A slip (mutant of OutsideBand): the band of one deviation instead of two.
OutsideBandHalf(price) == /\ Variance > 0
                          /\ Deviation(price) * Deviation(price) > Variance

OutsideBand(price) == /\ Variance > 0
                      /\ Deviation(price) * Deviation(price) > BAND * BAND * Variance

SignalFor(price) ==
    LET trend_up == fast_ema' > slow_ema'
    IN IF trend_up /\ OutsideBand(price) /\ Deviation(price) < 0 THEN "BUY"
       ELSE IF ~trend_up /\ OutsideBand(price) /\ Deviation(price) > 0 THEN "SELL"
       ELSE "HOLD"

\* process, and the counts of main
Process(price, volume) ==
    /\ Len(ticks) < ALPHA_TICKS
    /\ fast_ema' = Averaged(fast_ema, FAST, price)
    /\ slow_ema' = Averaged(slow_ema, SLOW, price)
    /\ init' = TRUE
    /\ cum_vol_price' = cum_vol_price + price * volume
    /\ cum_vol' = cum_vol + volume
    /\ UpdateWindow(price)
    /\ signal' = SignalFor(price)
    /\ buys' = buys + (IF signal' = "BUY" THEN 1 ELSE 0)
    /\ sells' = sells + (IF signal' = "SELL" THEN 1 ELSE 0)
    /\ ticks' = Append(ticks, price)

AlphaReported == Len(ticks) = ALPHA_TICKS /\ UNCHANGED alphaVars

AlphaNext == \/ \E price \in Prices, volume \in Volumes : Process(price, volume)
             \/ AlphaReported

AlphaSpec == AlphaInit /\ [][AlphaNext]_alphaVars

-----------------------------------------------------------------------------
(* Properties.                                                             *)

\* The statistics hold what they can hold.
AlphaTypeOK == /\ {fast_ema, slow_ema, sum, sum_sq, cum_vol_price, cum_vol} \subseteq Nat
               /\ init \in BOOLEAN /\ head \in 0 .. WINDOW - 1 /\ count \in 0 .. WINDOW
               /\ buffer \in [0 .. WINDOW - 1 -> Prices \cup {0}]
               /\ signal \in {"BUY", "SELL", "HOLD"}
               /\ buys \in 0 .. ALPHA_TICKS /\ sells \in 0 .. ALPHA_TICKS
               /\ ticks \in Seq(Prices) /\ Len(ticks) <= ALPHA_TICKS

\* The window is the last WINDOW prices, or all when they are fewer, and the
\* incremental sums are the sums over it, the latest price first.
Latest(k) == ticks[Len(ticks) - k]
WindowExact ==
    /\ count = IF Len(ticks) <= WINDOW THEN Len(ticks) ELSE WINDOW
    /\ sum = SumTo([k \in 0 .. count - 1 |-> Latest(k)], count)
    /\ sum_sq = SumTo([k \in 0 .. count - 1 |-> Square(Latest(k))], count)

\* Both averages give the first price its full weight and forget at the pace of
\* their periods.
AveragesExact ==
    ticks # <<>> => /\ fast_ema = DecayedMean(ticks, EMA_SCALE, 2, FAST + 1)
                    /\ slow_ema = DecayedMean(ticks, EMA_SCALE, 2, SLOW + 1)

\* A price cannot be more than sqrt(n - 1) deviations off the mean of n prices it
\* is one of, so with bands of two deviations no signal comes before the window
\* holds six prices, and with a window of five or fewer none ever would.
NoSignalBeforeBandFits == signal # "HOLD" => count > BAND * BAND + 1
================================================================================
