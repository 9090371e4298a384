SPECIFICATION MCSpec
SYMMETRY MCSymmetry
CONSTANTS
    t1 = t1
    t2 = t2
    eth = eth
    btc = btc
    Traders = {t1, t2}
    Markets = {eth, btc}
    BPS = 100
    NOTIONAL_DIVISOR = 1
    Templates <- AllKinds
    Indexes = {100, 123}
    BandBps = 20
    BasisBps = 10
    SpreadBps = 10
    BackstopMaxSize = 2
    MaxOpenOrders = 2
    MaxOrders = 4
    MaxMoves = 1
INVARIANTS
    BooksExact
    Uncrossed
    SlotsExact
    TimeInForceKept
    PendingExact
    UserIdsUnique
    ReduceOnlyTakerShrinks
PROPERTIES
    NothingBetterLeft
    TerminalIsFinal
    CancelAllSkipsNone
CHECK_DEADLOCK FALSE
