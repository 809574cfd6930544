\* One process, any failure, deletion and expiry: safety and liveness.
SPECIFICATION FairSpec
CONSTANTS
    Workers = {w1}
    Ids = {a, b, c}
    NoId = NoId
    Settings <- SomeTraits
    MaxFaults = 1
    MaxOverrides = 2
    MaxRefusals = 1
INVARIANTS
    TypeOK
    LeaksAccounted
PROPERTIES
    RevokedBeforeReleased
    ImplementsCredentials
    DeletionCompletes
    TokenProvided
\* A deleted resource leaves nothing to do.
CHECK_DEADLOCK FALSE
