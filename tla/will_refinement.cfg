\* WillLedger with --wait and no client errors against the will state machine.
CONSTANTS
    a = a
    b = b
    NotFound = NotFound
    WILL_ = WILL_
    LIST_ = LIST_
    KEY_NEED_REVIEW = KEY_NEED_REVIEW
    NoStatus = NoStatus
    PubKeys <- MCPubKeys
    KeyName <- MCKeyName
    WitnessLists <- MCWitnessLists
    SYNC = TRUE
    WRITE_ERRORS = FALSE
    READ_ERRORS = FALSE
    MaxPending = 0
SPECIFICATION WillSpec
SYMMETRY MCSymmetry
PROPERTY
    WillRefines
