SPECIFICATION Spec
CONSTANTS
    Limit = 3
    Window = 2
    Reserve = 1
    PageSizes = {1, 2}
    Filters = {All, 0}
    All = All
    Chains <- MCChains
    MarketOf <- MCMarketOf
    MaxBlock = 2
    MaxReorgs = 1
    MaxLost = 1
INVARIANTS
    PagesExact
    ThrottleSuffices
    
