SPECIFICATION Spec
CONSTANTS
    N = 3
    Counts = {1, 2}
    MinSync = 0
    MaxLog = 3
    MaxTerm = 2
    MaxFaults = 1
INVARIANTS
    NoLostCommit
    SteadyHasLatestCommit
PROPERTY ConfigSpec
CHECK_DEADLOCK FALSE
