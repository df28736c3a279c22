SPECIFICATION ReliableSpec
CONSTANTS
    a1 = a1
    a2 = a2
    nobody = nobody
    None = None
    Accounts <- MCAccounts
    Unknown <- MCUnknown
    InitBalance <- MCInitBalance
    Workers = {w1, w2}
    Amounts <- MCHalfCents
    Scale <- MCScale
    MaxTransfers = 1
    Readable <- MCAccounts
    Kinds = {"balance"}

INVARIANTS FreshAfterInvalidation
CHECK_DEADLOCK FALSE
