\* Failures of each request, tampering, edits and deletion.
SPECIFICATION FairSpec
CONSTANTS
    Workers = {w1}
    Ids <- NoIds
    NoId = NoId
    Answers <- SomeAnswers
    MaxFaults = 1
    MaxOverrides = 1
    MaxEdits = 1
    MaxTampers = 1
    MaxRefusals = 1
INVARIANTS
    TypeOK
    RootsAccounted
PROPERTIES
    ConfigSettles
\* A deleted resource leaves nothing to do.
CHECK_DEADLOCK FALSE
