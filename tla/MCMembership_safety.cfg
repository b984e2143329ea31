SPECIFICATION Spec
CONSTANTS
    u1 = u1
    u2 = u2
    u3 = u3
    r1 = r1
    r2 = r2
    r3 = r3
    Users <- ThreeUsers
    Requests <- ThreeRequests
    MAX_GROUP_PARTICIPANTS = 2
    MaxConversations = 2
    MaxRows = 2
    MaxPromotions = 1
SYMMETRY Symmetry
INVARIANTS
    TypeOK
    OvershootBounded
    GroupKeepsAdmin
    DuplicateDirectOnlyByRace
    ToldOfCommitted
PROPERTIES
    RemovalSparesNewRow
CHECK_DEADLOCK FALSE
