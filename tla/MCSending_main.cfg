SPECIFICATION Sending
CONSTANTS
    u1 = u1
    u2 = u2
    r1 = r1
    r2 = r2
    Users <- TwoUsers
    Requests <- TwoRequests
    NoRequest = NoRequest
    MaxRows = 2
    MaxHistory = 2
    MAX_MESSAGE_LENGTH = 3
    MAX_ATTACHMENT_SIZE_BYTES = 2
    MAX_IMAGE_DIMENSION = 2
    UNREADABLE = "unreadable"
    Contents <- AllContents
    Attachments <- AllAttachments
    Posts <- TriedPosts
INVARIANTS
    TypeOK
    LastMessageIsNewest
    OnlyCommittedIsVisible
    TransportsAgree
    MessageIsOneKind
PROPERTIES
    NoMessageBehindPointer
    BackwardOnlyWhenStale
    SaveSparesNewRow
    ImplementsLog
    CommittedIsBroadcast
    RequestsTerminate
CHECK_DEADLOCK FALSE
