\* One process, any failure, deletion and expiry: safety and liveness.
SPECIFICATION FairSpec
CONSTANTS
    Workers = {w1}
    Ids = {a, b, c, d}
    Legacy = {d}
    NoId = NoId
    MaxFaults = 1
    MaxOverrides = 2
    MaxRefusals = 1
INVARIANTS
    LegacyAdopted
    PublishedIsTracked
PROPERTIES
    DeletionCompletes
    CredentialProvided
\* A deleted resource leaves nothing to do.
CHECK_DEADLOCK FALSE
