CONSTANTS
    PoolCapacity <- MCPoolCapacity
    Prices <- MCPrices
    Quantities <- MCQuantities
    MatchCapacity <- MCMatchCapacity
    MaxAggressive <- MCMaxAggressive
    LimitPrices <- MCLimitPrices
    LimitQuantities <- MCLimitQuantities
    Slots <- MCSlots
    Interval <- MCInterval
    MaxEvents <- MCMaxEvents
    OrderIds <- MCOrderIds
    TickPrices <- MCTickPrices
    TickQuantities <- MCTickQuantities
    Mid <- MCMid
SPECIFICATION BooksSpec
INVARIANTS
    LinksConsistent
    BookWellFormed
    QuantityConserved
    EverySequenceAccounted
    VolumesMatchRebuild
    SidesOffByOverwrites
    BestCoversResting
PROPERTIES
    ImplementsPriceTimeBook
    TimePriority
    BestExecutionIfSorted
