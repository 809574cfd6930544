\* One process, no failure: is the target of the specification reached?
SPECIFICATION FairSpec
CONSTANTS
    Wants <- SomeWants
    Forms = {"a", "b"}
    Workers = {w1}
    Ids <- NoIds
    NoId = NoId
    MaxFaults = 0
    MaxOverrides = 1
    MaxEdits = 0
    MaxTampers = 0
    MaxRefusals = 0
PROPERTY RotatesToTarget
CHECK_DEADLOCK FALSE
