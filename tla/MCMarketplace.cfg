SPECIFICATION MCFairSpec
CONSTANTS
    alice = alice
    bob = bob
    Members = {alice, bob}
    Assets = {"xlm", "usd"}
    MaxFee = 1
    MaxRestock = 2
    MaxSweep = 2
    PageSize = 2
    MaxOpenPools = 2
    Offers <- MCOffers
    Grants = {0, 4}
    Durations = {1}
    FirstTokens = 1
    MaxTokens = 5
    MaxPools = 2
    MaxTime = 3
INVARIANTS
    MarketInv
    RateHolds
PROPERTIES
    StockReturns
CONSTRAINT
    MCBound
CHECK_DEADLOCK FALSE
