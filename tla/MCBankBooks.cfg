SPECIFICATION Spec
CONSTANTS
    a1 = a1
    a2 = a2
    nobody = nobody
    None = None
    Accounts <- MCAccounts
    Unknown <- MCUnknown
    InitBalance <- MCInitBalance
    Workers = {w1, w2}
    Amounts <- MCAmounts
    Scale <- MCScale
    MaxTransfers = 3
    Readable = {a1}
    Kinds = {"balance", "summary", "credit_score"}
SYMMETRY Symmetry
INVARIANTS NonNegative BooksBalance DriftBounded
CHECK_DEADLOCK FALSE
