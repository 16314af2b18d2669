CONSTANTS
    MaxPos <- MCMaxPos
    MaxQty <- MCMaxQty
    MaxDD <- MCMaxDD
    RateCap <- MCRateCap
    Wrap <- MCWrap
    Cap <- MCCap
    NumSignals <- MCNumSignals
    PerSecond <- MCPerSecond
    MaxCents <- MCMaxCents
    Signals <- MCSignals
SPECIFICATION StrategyFairSpec
INVARIANTS
    PositionWithinLimits
    LossBounded
    RateCapHeld
    SwallowsOneSignal
PROPERTIES
    StrategyEnds
