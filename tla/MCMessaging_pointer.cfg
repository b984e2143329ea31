SPECIFICATION Spec
CONSTANTS
    u1 = u1
    u2 = u2
    r1 = r1
    r2 = r2
    Users <- TwoUsers
    Requests <- TwoRequests
    NoRequest = NoRequest
    MaxRows = 1
    MaxHistory = 2
SYMMETRY Symmetry
PROPERTIES
    PointerOnlyMovesForward
CHECK_DEADLOCK FALSE
