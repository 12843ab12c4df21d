SPECIFICATION MCFairSpec
CONSTANTS
    w1 = w1
    w2 = w2
    Voters = {w1, w2}
    TokenIds = {0, 1}
    NoVoter = none
    MaxLedger = 11
    Treasury = treasury
    Manager = manager
    LaunchAdmin = founder
    Ids = {"p", "q"}
    BPS = 4
    ExpirationPeriod = 2
    MinDelay = 1
    MaxDelay = 2
    TimeSteps = {1, 3}
    Delays = {1, 2, 3}
    Thresholds = {}
    QuorumRates = {4}
    InitSettings <- MCAllSettings
    LastReassign = 3
    LastPropose = 3
    Callees = {"buy", "send"}
    Trees = {"pay"}
    BadTrees = {"huge"}
    Hashes = {"v1", "v2"}
    Layout <- MCLayout
    Approved <- MCApproved
    ActionLists <- MCActionLists
INVARIANTS
    TallyWithinSnapshot
    OnlyPassedProceed
    NoticeGiven
    ActsExactlyAsVoted
PROPERTIES
    FollowsLife
    OnlyByProposal
    EveryProposalEnds
CONSTRAINT
    MCScenarioBound
CHECK_DEADLOCK FALSE
