SPECIFICATION MCFairSpec
CONSTANTS
    t1 = t1
    t2 = t2
    c1 = c1
    c2 = c2
    Tabs = {t1, t2}
    Configs = {c1, c2}
    Launches = TRUE
    MaxNonces = 2
    MaxSigned = 2
    MaxSeq = 3
    Artworks <- MCArtworks
    Allocations <- MCAllocations
    ItemsPerCall = 2
    Budget = 7
    PerToken = 1
    PerRecipient = 3
    d1 = d1
    d2 = d2
    s1 = s1
    s2 = s2
    Daos = {d1, d2}
    Slugs = {s1, s2}
    Built = {m1}
    Foreign = {f1}
    Nothing = Nothing
    MaxTxs = 6
    MaxResets = 1
    MaxCrashes = 1
    Reruns = TRUE
    MintedEarlier = TRUE
INVARIANTS
    CreationInv
    SetupInv
    PagesTellTheChain
PROPERTIES
    NoSecondSignature
    CreationCompletes
    EventuallyListed
CHECK_DEADLOCK FALSE
