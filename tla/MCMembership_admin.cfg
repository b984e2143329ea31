SPECIFICATION CalmPromotions
CONSTANTS
    u1 = u1
    u2 = u2
    u3 = u3
    r1 = r1
    r2 = r2
    r3 = r3
    Users <- TwoUsers
    Requests <- TwoRequests
    MAX_GROUP_PARTICIPANTS = 2
    MaxConversations = 1
    MaxRows = 1
    MaxPromotions = 1
SYMMETRY TwoOfEach
PROPERTY OnlyAdminStays
CHECK_DEADLOCK FALSE
