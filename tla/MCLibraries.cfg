SPECIFICATION MCSpec
CONSTANTS
    NumOrders = 5
    Prices = {1, 2}
    BPS = 100
    NOTIONAL_DIVISOR = 2
    LotQuantities = {1, 2, 3}
    LotPrices = {4, 7, 10}
    LotMarginBps = 20
    LotBalances <- MCBalances
    LotMaxSize = 5
    LotMaxFills = 6
INVARIANTS
    PnlMatchesCash
    MarkIsCloseValue
    SplitCloseShavesDust
    EstimateIsNotLateForLongs
PROPERTIES
    QueueSpec
    WalksEnd
CHECK_DEADLOCK FALSE
