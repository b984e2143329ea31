SPECIFICATION OneMessageEach
CONSTANTS
    u1 = u1
    u2 = u2
    p1 = p1
    p2 = p2
    Users <- TwoUsers
    Pages <- OnePage
    Viewer <- PageOfEach
    Callers <- AllCallers
    MaxMessages = 2
    MaxDrops = 1
    MaxVisits = 1
    MaxRemovals = 1
    MaxMishaps = 2
    MaxHides = 1
INVARIANTS
    TypeOK
    TwiceOnlyIfListed
    SeenIsEarned
PROPERTIES
    DeliveredWhileJoined
    SeenIsRecorded
CHECK_DEADLOCK FALSE
