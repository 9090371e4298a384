SPECIFICATION MCSpec
CONSTANTS
    t1 = t1
    t2 = t2
    t3 = t3
    eth = eth
    Backstop = Backstop
    InsuranceFund = InsuranceFund
    Exchange = Exchange
    Treasury = Treasury
    Keeper = Keeper
    Traders = {t1, t2, t3}
    Markets = {eth}
    BPS = 100
    NOTIONAL_DIVISOR = 1
    Prices = {60, 100}
    Quantities = {1, 2}
    Rates <- MCRates
    Amounts = {20}
    ParamSets <- MCParamSets
    FeeToInsuranceBps = 50
    InitialDeposits <- MCDeposits
    InitialParams <- Base
    InitialIndex <- MCIndex
    Budget <- MCBudget
SYMMETRY MCSymmetry
INVARIANTS
    TypeOK
    LedgerConserved
    OITwoSided
    OpenInterestExact
    HolderListExact
    PotBacksPnl
    FundingIsZeroSum
    DeficitIsTracked
PROPERTIES
    ForcedClosesOnlyShrink
    AdlTakesOnlyGains
    AdlRoundsRunOut
CHECK_DEADLOCK FALSE
