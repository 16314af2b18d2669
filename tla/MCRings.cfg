CONSTANTS
    Cap <- MCCap
    NumTicks <- MCNumTicks
SPECIFICATION FairSpec
INVARIANTS
    OverrunByWholeLaps
    KBRingNeverRaces
    SPSCInOrderForTwoLaps
PROPERTIES
    KBRingIsBoundedFifo
    BenchmarkEnds
