\* generate_key as written: keygen without --force, never failing.
CONSTANTS
    p1 = p1
    p2 = p2
    p3 = p3
    NoFile = NoFile
    KeyPairs <- MCKeyPairs
    TicksPerSecond = 2
    MaxTicks = 3
    MaxRequests = 3
    KEYGEN_FORCE = FALSE
    KEYGEN_ERRORS = FALSE
SPECIFICATION KeySpec
INVARIANTS
    KeysNotShared
