SPECIFICATION Spec
CONSTANTS
    Artworks <- MCArtworks
    Allocations <- MCAllocations
    ItemsPerCall = 2
    Budget = 7
    PerToken = 1
    PerRecipient = 3
    Reruns = TRUE
    MintedEarlier = FALSE
INVARIANTS
    NoItemTwice
CHECK_DEADLOCK FALSE
