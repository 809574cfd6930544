\* One process, no infrastructure failure: is the SecretID always published?
SPECIFICATION SpecSecretKept
CONSTANTS
    Workers = {w1}
    Ids = {a, b, c}
    Legacy = {}
    NoId = NoId
    MaxFaults = 0
    MaxOverrides = 1
    MaxRefusals = 1
INVARIANT RecordedIsPublished
CHECK_DEADLOCK FALSE
