\* Two processes on the same key, as leader election is off by default.
SPECIFICATION Spec
CONSTANTS
    Wants <- OneWant
    Forms = {"a"}
    Workers = {w1, w2}
    Ids <- NoIds
    NoId = NoId
    MaxFaults = 1
    MaxOverrides = 1
    MaxEdits = 0
    MaxTampers = 1
    MaxRefusals = 1
SYMMETRY Symmetry
INVARIANT RotationsBounded
PROPERTY GoneBeforeReleased
\* A deleted resource leaves nothing to do.
CHECK_DEADLOCK FALSE
