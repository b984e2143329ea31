SPECIFICATION SocketOfOne
CONSTANTS
    s1 = s1
    s2 = s2
    r1 = r1
    r2 = r2
    k1 = k1
    NoRequest = NoRequest
    Sessions <- TwoSessions
    Requests <- TwoRequests
    Sockets <- OneSocket
    MaxTokens = 3
INVARIANTS
    TypeOK
    OneLiveToken
    RevokedHasNoCredentials
    RevokeAllCovers
PROPERTIES
    NoTokenAfterRevoke
    LocksAreGranted
    MembersAreClosed
CHECK_DEADLOCK FALSE
