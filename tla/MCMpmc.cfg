CONSTANTS
    p1 = p1
    p2 = p2
    c1 = c1
    c2 = c2
    Producers <- MCProducers
    Consumers <- MCConsumers
    Cap <- MCCap
    TicksPerThread <- MCTicksPerThread
SPECIFICATION FairSpec
INVARIANTS
    ExclusiveCells
    TicketsMatch
    ExactlyOnce
PROPERTIES
    HonestRefusals
    IsBoundedFifo
    BenchmarkEnds
