SPECIFICATION FairSpec
CONSTANTS
    alice = alice
    bob = bob
    Claimers = {alice, bob}
    Assets = {"xlm", "usd"}
    PaymentAsset = "xlm"
    MaxBatch = 2
    MaxWindow = 2
    Funds = 4
    Trees <- MCTrees
    Offers <- MCOffers
    Grants = {0, 2}
    MaxLists = 2
    MaxTime = 4
INVARIANTS
    ClaimsInv
PROPERTIES
    FollowsChart
    EscrowLeaves
CHECK_DEADLOCK FALSE
