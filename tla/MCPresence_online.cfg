SPECIFICATION Spec
CONSTANTS
    u1 = u1
    u2 = u2
    c1 = c1
    c2 = c2
    c3 = c3
    NoUser = NoUser
    Users <- OneUser
    Channels <- TwoChannels
    Owner <- TwoOfOne
    MaxReaperFailures = 0
INVARIANT OnlineIffConnected
CHECK_DEADLOCK FALSE
