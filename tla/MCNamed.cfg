\* Every kind, one process, edits, renames, tampering, failures and deletion.
SPECIFICATION FairSpec
CONSTANTS
    Kinds <- SomeKinds
    Workers = {w1}
    Ids <- NoIds
    NoId = NoId
    Names = {n1, n2}
    MaxFaults = 1
    MaxOverrides = 1
    MaxEdits = 1
    MaxUpsets = 1
INVARIANTS
    TypeOK
    StraysAccounted
PROPERTIES
    GoneBeforeReleased
    SpecSettles
    DeletionCompletes
\* A deleted resource leaves nothing to do.
CHECK_DEADLOCK FALSE
