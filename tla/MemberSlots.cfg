SPECIFICATION MemberSlotsSpec
CONSTANTS
    Node = {n1, n2, n3}
    None = None
    SlotTtl = 3
    MaxMoves = 2
    MaxFaults = 1
    Forgetful = TRUE
PROPERTIES SlotKept
CHECK_DEADLOCK FALSE
