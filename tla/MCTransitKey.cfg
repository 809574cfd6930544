\* One process: edits, rotations by others, failures and deletion.
SPECIFICATION FairSpec
CONSTANTS
    Wants <- SomeWants
    Forms = {"a", "b"}
    Workers = {w1}
    Ids <- NoIds
    NoId = NoId
    MaxFaults = 1
    MaxOverrides = 1
    MaxEdits = 1
    MaxTampers = 1
    MaxRefusals = 0
INVARIANT RotationsBounded
PROPERTIES
    KeySettles
    DeletionCompletes
\* A deleted resource leaves nothing to do.
CHECK_DEADLOCK FALSE
