SPECIFICATION MCSpec
CONSTANTS
    b1 = b1
    b2 = b2
    Bidders = {b1, b2}
    Treasury = treasury
    Manager = manager
    LaunchAdmin = founder
    Self = auctionContract
    None = none
    Assets = {"usd", "xlm"}
    MinReserve = 2
    PercentDenominator = 2
    MaxDuration = 2
    MaxBuffer = 2
    MaxExtensions = 2
    Budget = 12
    Bids = {2, 3, 4, 5, 6}
    Values = {1, 2}
    InitConfigs <- MCInitConfigs
    MaxTokens = 3
    MaxTime = 7
PROPERTIES
    AnnouncedReserveHolds
CHECK_DEADLOCK FALSE
