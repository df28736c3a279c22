SPECIFICATION ConfigSpec
CONSTANTS
    N = 3
    Counts = {1}
    MinSync = 0
INVARIANTS
    Settles
