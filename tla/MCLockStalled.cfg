SPECIFICATION Spec
CONSTANTS
    Nodes = {n1, n2}
    None = None
    Ttl = 6
    LoopWait = 2
    Timeout = 3
    Prompt = FALSE
SYMMETRY MCSymmetry
INVARIANTS
    WriterHoldsKey
