\* One process, other writers, both engines, failures, edits and deletion.
SPECIFICATION FairSpec
CONSTANTS
    Workers = {w1}
    Ids <- NoIds
    NoId = NoId
    Keys = {k1, k2}
    MaxFaults = 1
    MaxOverrides = 1
    MaxEdits = 1
    MaxTampers = 1
    MaxRefusals = 1
INVARIANTS
    TypeOK
PROPERTIES
    SecretSettles
    DeletionCompletes
\* A deleted resource leaves nothing to do.
CHECK_DEADLOCK FALSE
