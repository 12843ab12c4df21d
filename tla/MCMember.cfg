SPECIFICATION MCFairSpec
CONSTANTS
    Accounts = {a, b}
    Traders = {b}
    Prices = {3}
    Assets = {x}
    Fees = {0, 2}
    Denominator = 4
    Lifetimes = {9}
    Lag = 1
    Retention = 2
    Validity = 1
    Market = Market
    Treasury = Treasury
    None = None
    MaxLedger = 5
    MaxListings = 2
    MaxChanges = 1
    Forms <- MCForms
    Values = {1, 2}
    MaxIds = 12
    MaxQueue = 6
    MaxUndos = 1
    MaxProposals = 1
    Calls <- MCCalls
    Registrable = {"m"}
    MaxActions = 3
INVARIANTS
    TradeInv
    RulesHold
    ComposerHolds
PROPERTIES
    StaysOnSaleSells
CHECK_DEADLOCK FALSE
