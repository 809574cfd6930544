\* One process, changes of ProviderConfigs, a token rotation, failures, edits and deletion.
SPECIFICATION FairSpec
CONSTANTS
    Workers = {w1}
    Ids <- NoIds
    NoId = NoId
    Vaults = {"v1", "v2"}
    Settings <- OneSetting
    Refs = {"unset", "other"}
    MaxFaults = 1
    MaxOverrides = 1
    MaxEdits = 1
    MaxChanges = 1
    MaxRefusals = 0
INVARIANT ElsewhereAccounted
PROPERTIES
    GoneBeforeReleased
    ProvidedWhereConfigured
    DeletionCompletes
\* A deleted resource leaves nothing to do.
CHECK_DEADLOCK FALSE
