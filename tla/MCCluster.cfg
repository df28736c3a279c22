SPECIFICATION Spec
CONSTANTS
    N = 3
    Counts = {1, 2}
    MinSync = 0
    Servers = {n1, n2, n3}
    None = None
    Other = Other
    n1 = n1
    n2 = n2
    MaxUsed = 3
INVARIANTS
    QuorumsMeet
    ElectableSettles
    HeirsAreCurrent
    CacheIsTable
PROPERTIES
    RequestsSettle
    KeyFreed
    RoutedAgain
