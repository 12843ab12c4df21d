SPECIFICATION TreasurySpec
CONSTANTS
    w1 = w1
    Voters = {w1}
    TokenIds = {0}
    NoVoter = none
    MaxLedger = 5
    Treasury = treasury
    Manager = manager
    LaunchAdmin = founder
    Ids = {"p"}
    BPS = 2
    ExpirationPeriod = 2
    MinDelay = 1
    MaxDelay = 2
    TimeSteps = {1}
    Delays = {}
    Thresholds = {}
    QuorumRates = {}
    InitSettings <- MCInitSettings
    LastReassign = 1
    LastPropose = 2
    Callees = {"buy", "send"}
    Trees = {"pay"}
    BadTrees = {"huge"}
    Hashes = {"v1", "v2"}
    Layout <- MCLayout
    Approved <- MCApproved
    ActionLists <- MCActionLists
INVARIANTS
    UpgradeThenMigrate
CONSTRAINT
    MCBound
CHECK_DEADLOCK FALSE
