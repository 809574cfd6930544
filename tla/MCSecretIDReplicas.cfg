\* Two processes on the same resource, as leader election is off by default.
SPECIFICATION Spec
CONSTANTS
    Workers = {w1, w2}
    Ids = {a, b}
    Legacy = {}
    NoId = NoId
    MaxFaults = 1
    MaxOverrides = 1
    MaxRefusals = 1
SYMMETRY Symmetry
INVARIANTS
    LeaksAccounted
PROPERTIES
    DestroyedBeforeReleased
    ImplementsCredentials
\* A deleted resource leaves nothing to do.
CHECK_DEADLOCK FALSE
