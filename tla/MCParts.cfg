SPECIFICATION PartsSpec
CONSTANTS
    Nodes = {n1, n2}
    Third = n3
    None = None
    Ttl = 5
    LoopWait = 1
    Timeout = 2
    Prompt = TRUE
INVARIANTS
    WriterHoldsKey
    HeirsHaveCommits
    OnePrimary
    OneSystem
    SettingsAgree
    ReadyIsSafe
PROPERTIES
    StallsEnd
    SlotKept
