SPECIFICATION MCFairSpec
CONSTANTS
    Daos = {"a", "b"}
    Slugs = {"x", "y"}
    Kinds = {"claims", "auction"}
    Hashes = {"v1", "v2"}
    FirstHash = "v1"
    Paths <- MCPaths
    Configs = {"open", "closed"}
    MaxWindow = 2
    MaxModules = 3
    MaxPlans = 3
    MaxTime = 3
    Wasms = {"m1", "m2", "g1", "g2"}
    Names = {"Manager", "Governor"}
    Contracts = {"governor"}
    KindOf <- MCKindOf
    Released <- MCReleased
    FirstCode <- MCFirstCode
    Delays = {0, 1}
    FirstDelay = 1
    MaxLedger = 2
INVARIANTS
    ManagerInv
PROPERTIES
    PromiseKept
    UpgradesOrderly
    SlugComesFree
CONSTRAINT
    MCBound
CHECK_DEADLOCK FALSE
