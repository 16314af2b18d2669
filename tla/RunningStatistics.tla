--------------------------- MODULE RunningStatistics ----------------------------
(***************************************************************************)
(* The programs that keep statistics by recurrences: day21, day22, day23.  *)
(***************************************************************************)
EXTENDS AlphaGenerator, OnlineStats, SimdPipeline

\* What the recurrences hold after every update is what their definitions give for
\* the whole sequence of prices: the averages of day21, the moments of day22 and, lane
\* by lane, those of day23.
MomentsExact == AveragesExact /\ StatsExact /\ LanesExact
================================================================================
