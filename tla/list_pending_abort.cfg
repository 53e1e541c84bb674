\* Registry with --wait and failing client.set calls: list_need_approve.
CONSTANTS
    a = a
    b = b
    c = c
    d = d
    NotFound = NotFound
    WILL_ = WILL_
    LIST_ = LIST_
    KEY_NEED_REVIEW = KEY_NEED_REVIEW
    NoStatus = NoStatus
    need_review = need_review
    approved = approved
    PubKeys <- MCPubKeys
    KeyName <- MCKeyName
    RegisterStatuses <- MCRegisterStatuses
    SYNC = TRUE
    WRITE_ERRORS = TRUE
    READ_ERRORS = FALSE
    MaxPending = 0
SPECIFICATION RegistrySpec
SYMMETRY MCSymmetry
INVARIANTS
    ListPendingServes
