\* Registry with --wait; get_value of KEY_NEED_REVIEW may fail.
CONSTANTS
    a = a
    b = b
    c = c
    d = d
    NotFound = NotFound
    WILL_ = WILL_
    LIST_ = LIST_
    KEY_NEED_REVIEW = KEY_NEED_REVIEW
    NoStatus = NoStatus
    need_review = need_review
    approved = approved
    PubKeys <- MCPubKeys
    KeyName <- MCKeyName
    RegisterStatuses <- MCRegisterStatuses
    SYNC = TRUE
    WRITE_ERRORS = FALSE
    READ_ERRORS = TRUE
    MaxPending = 0
SPECIFICATION RegistrySpec
SYMMETRY MCSymmetry
INVARIANTS
    PendingListed
