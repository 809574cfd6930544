\* One process, failures, refusals, ageing, operators, edits and deletion.
SPECIFICATION FairSpec
CONSTANTS
    Workers = {w1}
    Ids = {a, b, c, d}
    NoId = NoId
    Backends = {b1, b2}
    Timed = TRUE
    Dated = TRUE
    MaxFaults = 1
    MaxOverrides = 1
    MaxEdits = 1
    MaxRefusals = 1
INVARIANTS
    TypeOK
    LeaksAccounted
    PublishedIsRecorded
PROPERTIES
    RevokedBeforeReleased
    CertificateProvided
    DeletionCompletes
\* A deleted resource leaves nothing to do.
CHECK_DEADLOCK FALSE
