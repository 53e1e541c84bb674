\* Registry with --wait, one user whose public key is the string KEY_NEED_REVIEW.
CONSTANTS
    a = a
    b = b
    c = c
    d = d
    NotFound = NotFound
    WILL_ = WILL_
    LIST_ = LIST_
    KEY_NEED_REVIEW = KEY_NEED_REVIEW
    NoStatus = NoStatus
    need_review = need_review
    approved = approved
    PubKeys <- MCCollidingKeys
    KeyName <- MCCollidingName
    RegisterStatuses <- MCPlainStatuses
    SYNC = TRUE
    WRITE_ERRORS = FALSE
    READ_ERRORS = FALSE
    MaxPending = 0
SPECIFICATION RegistrySpec
INVARIANTS
    PendingListed
