\* The whole node with --wait and failing client.set calls.
CONSTANTS
    a = a
    b = b
    NotFound = NotFound
    WILL_ = WILL_
    LIST_ = LIST_
    KEY_NEED_REVIEW = KEY_NEED_REVIEW
    NoStatus = NoStatus
    need_review = need_review
    approved = approved
    PubKeys <- MCPubKeys
    KeyName <- MCKeyName
    RegisterStatuses <- MCRegisterStatuses
    WitnessLists <- MCWitnessLists
    SYNC = TRUE
    WRITE_ERRORS = TRUE
    READ_ERRORS = FALSE
    MaxPending = 0
SPECIFICATION Spec
SYMMETRY MCSymmetry
INVARIANTS
    PendingListed
    WitnessIndexComplete
    SignRecorded
    LastCreateWins
    WitnessSeesWill
PROPERTIES
    RegistryRefines
    ValidWillStays
