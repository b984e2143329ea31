SPECIFICATION Accounts
CONSTANTS
    u1 = u1
    u2 = u2
    c1 = c1
    c2 = c2
    c3 = c3
    r1 = r1
    r2 = r2
    r3 = r3
    r4 = r4
    NoUser = NoUser
    Users <- OneUser
    Channels <- TwoChannels
    Owner <- TwoOfOne
    MaxReaperFailures = 1
    Requests <- FourRequests
    MAX_ATTEMPTS = 2
    MaxCodes = 2
INVARIANTS
    TypeOK
    NoGhostOnline
    NoTraceAfterClose
    OtpTypeOK
    FreshIsNewest
PROPERTIES
    StaleOnlyWithReason
    DeadAreReaped
    CrashedGoOffline
    ImplementsCode
CHECK_DEADLOCK FALSE
