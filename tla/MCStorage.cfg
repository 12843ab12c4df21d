SPECIFICATION MCFairSpec
CONSTANTS
    Keys = {"token", "metadata", "module", "names", "listing", "nonce"}
    Token = "token"
    Order <- MCOrder
    Under <- MCUnder
    Required = {"token", "metadata", "module", "names"}
    Temporary = {"nonce"}
    NoPages = {}
    Known = {"metadata"}
    Bytes <- MCBytes
    BatchEntries = 2
    BatchBytes = 3
    ExtendTo = 6
    MinTtl = 4
    RestoreMax = 6
    Lives = {0, 1, 2, 3}
    MaxLedger = 3
    Hashes = {"h1", "h2", "h3"}
    Daos = {"manager", "dao"}
    TheManager = "manager"
    Rate <- MCRate
    Days = 4
    Ceiling = 2
    MinDays = 1
    Attempts = 2
    Period = 3
INVARIANTS
    RenewalInv
    CodeAlive
PROPERTIES
    DaoRecovers
CHECK_DEADLOCK FALSE
