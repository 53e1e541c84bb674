\* WillLedger without --wait: witness_sign racing a re-creation of the will.
CONSTANTS
    a = a
    b = b
    NotFound = NotFound
    WILL_ = WILL_
    LIST_ = LIST_
    KEY_NEED_REVIEW = KEY_NEED_REVIEW
    NoStatus = NoStatus
    PubKeys <- MCPubKeys
    KeyName <- MCKeyName
    WitnessLists <- MCWitnessLists
    SYNC = FALSE
    WRITE_ERRORS = FALSE
    READ_ERRORS = FALSE
    MaxPending = 2
SPECIFICATION WillSpec
SYMMETRY MCSymmetry
INVARIANTS
    LastCreateWins
