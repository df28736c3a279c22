SPECIFICATION PartsSpec
CONSTANTS
    Main = main
    Clients = {c1}
    Workers = {w1, w2}
    Forces = {FALSE}
    None = None
    Accounts = {a1, a2}
    Nobody = nobody
INVARIANTS
    OneAction
    StaysDown
    QuietAfterCancel
    SummaryCoherent
    CallsInTime
PROPERTIES
    ShutdownEnds
    ActionEnds
    EventuallyFresh
    RequestsEnd
    DivergenceIsSeen
    AllJoin
    Reconnects
    Settles
CHECK_DEADLOCK FALSE
