-------------------------------- MODULE MCCourse -------------------------------
(***************************************************************************)
(* The smaller programs of the course, which are too small for a run each: *)
(* day4, 10, 14, 15, 20, 21, 22, 23, 26 and the registry of day27.         *)
(* They share nothing: a behaviour starts one of them, and only its part   *)
(* of the state moves.                                                     *)
(***************************************************************************)
EXTENDS ObjectPool, CsvParser, MessageSlab, EpochManager, BacktestEngine,
        RunningStatistics, MaskedFilter, HazardPointer

MCEmaScale == 10^7
MCMoves == {-1, 0, 1}
MCColumn == [k \in 0 .. 9 |-> 2^k]

VARIABLE program

courseVars == <<program, vars, poolVars, csvVars, slabVars, backtestVars, alphaVars, statsVars,
                simdVars, filterVars, hazardVars>>

\* The inputs of a program that does not run are fixed.
CourseInit ==
    /\ program \in {"day4", "day10", "day14", "day15", "day20", "day21", "day22", "day23",
                    "day26", "day27"}
    /\ program # "day14" => traffic = [k \in 0 .. 3 |-> [type |-> 1, len |-> 10]]
    /\ program # "day23" => p_prices = [l \in 0 .. 1 |-> 0]
    /\ program # "day26" => size = 0
    /\ PoolInit /\ CsvInit /\ SlabInit /\ Init /\ BacktestInit /\ AlphaInit
    /\ StatsInit /\ SimdInit /\ FilterInit /\ HazardInit

\* One step of the program that was started.
PoolStep == /\ program = "day4" /\ PoolNext
            /\ UNCHANGED <<program, csvVars, slabVars, vars, backtestVars, alphaVars,
                           statsVars, simdVars, filterVars, hazardVars>>
CsvStep == /\ program = "day10" /\ CsvNext
           /\ UNCHANGED <<program, poolVars, slabVars, vars, backtestVars, alphaVars,
                          statsVars, simdVars, filterVars, hazardVars>>
SlabStep == /\ program = "day14" /\ SlabNext
            /\ UNCHANGED <<program, poolVars, csvVars, vars, backtestVars, alphaVars,
                           statsVars, simdVars, filterVars, hazardVars>>
EpochStep == /\ program = "day15" /\ Next
             /\ UNCHANGED <<program, poolVars, csvVars, slabVars, backtestVars, alphaVars,
                            statsVars, simdVars, filterVars, hazardVars>>
BacktestStep == /\ program = "day20" /\ BacktestNext
                /\ UNCHANGED <<program, poolVars, csvVars, slabVars, vars, alphaVars,
                               statsVars, simdVars, filterVars, hazardVars>>
AlphaStep == /\ program = "day21" /\ AlphaNext
             /\ UNCHANGED <<program, poolVars, csvVars, slabVars, vars, backtestVars,
                            statsVars, simdVars, filterVars, hazardVars>>
StatsStep == /\ program = "day22" /\ StatsNext
             /\ UNCHANGED <<program, poolVars, csvVars, slabVars, vars, backtestVars,
                            alphaVars, simdVars, filterVars, hazardVars>>
SimdStep == /\ program = "day23" /\ SimdNext
             /\ UNCHANGED <<program, poolVars, csvVars, slabVars, vars, backtestVars,
                            alphaVars, statsVars, filterVars, hazardVars>>
FilterStep == /\ program = "day26" /\ FilterNext
              /\ UNCHANGED <<program, poolVars, csvVars, slabVars, vars, backtestVars,
                             alphaVars, statsVars, simdVars, hazardVars>>
HazardStep == /\ program = "day27" /\ HazardNext
              /\ UNCHANGED <<program, poolVars, csvVars, slabVars, vars, backtestVars,
                             alphaVars, statsVars, simdVars, filterVars>>

CourseNext == \/ PoolStep \/ CsvStep \/ SlabStep \/ EpochStep \/ BacktestStep \/ AlphaStep
              \/ StatsStep \/ SimdStep \/ FilterStep \/ HazardStep

CourseSpec == CourseInit /\ [][CourseNext]_courseVars
================================================================================
