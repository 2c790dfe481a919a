SPECIFICATION FairSpec
CONSTANTS
    Renderer = {worker}
    ViewModes = {TRUE, FALSE}
    KeepVersions = 1
    MAX_OP_ATTEMPTS = 2
    MaxWrites = 3
    MaxRestarts = 1
INVARIANTS
    TypeOK
    CurrentIsComplete
    HeldCoversApplied
    RetiredIsCarried
PROPERTIES
    HeldForward
    DeliversRecords
    DeliversEveryRecord
