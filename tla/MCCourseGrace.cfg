CONSTANTS
    Capacity = 4
    ROWS = 2
    PriceDraws = {0, 50, 95}
    SpreadDraws = {0, 1, 10}
    SLAB_COUNT = 4
    Types = {1, 3}
    Lens = {10, 128}
    NUM_PACKETS = 4
    RECLAIM_PERIOD = 1
    INITIAL_CASH = 400000
    INITIAL_PRICE = 150
    SPREAD_LAG = 2
    TICKS = 9
    WARMUP = 1
    EVERY = 2
    BUY_QTY = 2
    SELL_QTY = 1
    Draws = {0, 50, 51}
    WRAP = 10000
    FAST = 4
    SLOW = 9
    WINDOW = 6
    BAND = 2
    ALPHA_TICKS = 8
    EMA_SCALE <- MCEmaScale
    Prices = {0, 2, 4}
    Volumes = {100}
    LANES = 4
    MaxSize = 10
    qty_column <- MCColumn
    price_column <- MCColumn
    Junk = {0, 1000}
    NUM_TICKS = 4
    SampleValues = {0, 1, 3}
    ALPHA_N = 2
    ALPHA_D = 3
    STATS_SCALE = 324
    SYMS = 2
    SIMD_TICKS = 1
    InitPrice = 1
    Moves <- MCMoves
    Garbage = {0, 2}
    FAST_N = 3
    FAST_M = 4
    SLOW_N = 1
    SLOW_M = 2
    SIMD_SCALE = 3840
    MAX_THREADS = 2
    RETIRE_LIMIT = 3
    Nodes = {1, 2, 3, 4}
    StoreBuffer = 1
SPECIFICATION CourseSpec
PROPERTY GraceKept
