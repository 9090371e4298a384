SPECIFICATION Spec
CONSTANTS
    t1 = t1
    t2 = t2
    t3 = t3
    eth = eth
    Backstop = Backstop
    InsuranceFund = InsuranceFund
    Exchange = Exchange
    Treasury = Treasury
    Keeper = Keeper
    Traders = {t1, t2}
    Markets = {eth}
    BPS = 100
    NOTIONAL_DIVISOR = 1
    Prices = {60, 100}
    Quantities = {1, 2}
    Rates <- MCRates
    Amounts = {20}
    ParamSets <- MCParamSets
    FeeToInsuranceBps = 50
    InitialDeposits <- LeanDeposits
    InitialParams <- Base
    InitialIndex <- MCIndex
    Budget <- MCBudget
PROPERTIES
    LiquidationCloses
CHECK_DEADLOCK FALSE
