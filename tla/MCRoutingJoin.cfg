CONSTANTS
    MaxPos <- MCMaxPos
    MaxQty <- MCMaxQty
    MaxDD <- MCMaxDD
    RateCap <- MCRateCap
    Wrap <- MCWrap
    Cap <- MCCap
    NumSignals <- MCNumSignals
    PerSecond <- MCPerSecond
    MaxCents <- MCMaxCents
    Signals <- MCSignals
SPECIFICATION FairSpec
PROPERTIES
    BothThreadsJoin
