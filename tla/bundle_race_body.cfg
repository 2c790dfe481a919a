SPECIFICATION Spec
CONSTANTS
    Renderer = {worker, api}
    ViewModes = {FALSE}
    KeepVersions = 2
    MAX_OP_ATTEMPTS = 2
    MaxWrites = 3
    MaxRestarts = 1
INVARIANT HeldCoversApplied
