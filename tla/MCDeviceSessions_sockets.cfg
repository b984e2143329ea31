SPECIFICATION FairSpec
CONSTANTS
    s1 = s1
    s2 = s2
    r1 = r1
    r2 = r2
    k1 = k1
    NoRequest = NoRequest
    Sessions <- OneSession
    Requests <- TwoRequests
    Sockets <- OneSocket
    MaxTokens = 2
PROPERTY RevokedSocketsClose
CHECK_DEADLOCK FALSE
