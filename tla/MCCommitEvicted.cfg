SPECIFICATION Spec
CONSTANTS
    N = 3
    Counts = {1}
    MinSync = 0
    MaxLog = 2
    MaxTerm = 2
    MaxFaults = 1
INVARIANTS
    QuorumHasLatestCommit
CHECK_DEADLOCK FALSE
