SPECIFICATION MCSpec
CONSTANTS
    w1 = w1
    w2 = w2
    m1 = m1
    Treasury = treasury
    Manager = manager
    LaunchAdmin = w1
    None = none
    Wallets = {w1, w2}
    Contracts = {m1}
    Kinds = {"auction", "claims"}
    Unlimited = 2
    MaxModules = 1
    MaxTokens = 2
    MaxLedger = 2
    BatchSizes = {2}
    Recipients = {w1, w2, m1, treasury}
    Delegators = {w1}
    Delegatees = {w2, m1}
    Spenders = {w2, treasury}
    Amounts = {1, 2}
    Switches = {"transfers_locked", "dao_recovery"}
    InitSettings <- MCInitSettings
INVARIANTS
    VotesMatchTokens
    PreviousSupplyExact
PROPERTIES
    ImplementsVotingPower
    LockHolds
    FrozenDuringDrive
CONSTRAINT
    MCBound
CHECK_DEADLOCK FALSE
