\* Registry without --wait: writes become visible only when committed.
CONSTANTS
    a = a
    b = b
    c = c
    d = d
    NotFound = NotFound
    WILL_ = WILL_
    LIST_ = LIST_
    KEY_NEED_REVIEW = KEY_NEED_REVIEW
    NoStatus = NoStatus
    need_review = need_review
    approved = approved
    PubKeys <- MCPubKeys
    KeyName <- MCKeyName
    RegisterStatuses <- MCRegisterStatuses
    SYNC = FALSE
    WRITE_ERRORS = FALSE
    READ_ERRORS = FALSE
    MaxPending = 4
SPECIFICATION RegistrySpec
SYMMETRY MCSymmetry
INVARIANTS
    PendingListed
