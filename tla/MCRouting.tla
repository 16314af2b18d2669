------------------------------- MODULE MCRouting -------------------------------
(* SignalRouting on a ring of two slots with more signals than two laps.   *)
EXTENDS SignalRouting

MCMaxPos == 3
MCMaxQty == 2
MCMaxDD == 2
MCRateCap == 1
MCWrap == 16
MCCap == 2
MCNumSignals == 6
MCPerSecond == 2
MCMaxCents == 1

\* a size that passes and one that does not, both sides, and prices on either
\* side of 150.00
MCSignals == {[side |-> 1, qty |-> 1, cents |-> 1],
              [side |-> 1, qty |-> 2, cents |-> -1],
              [side |-> -1, qty |-> 2, cents |-> 1],
              [side |-> -1, qty |-> 3, cents |-> -1]}
================================================================================
