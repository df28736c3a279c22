SPECIFICATION MultiSyncSpec
CONSTANTS
    Node = {n1, n2, n3}
    None = None
    Strict = FALSE
    MaxLog = 2
    MaxFaults = 1
    MaxByHand = 1
CHECK_DEADLOCK FALSE
INVARIANTS
    HeirsHaveCommits
