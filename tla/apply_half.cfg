SPECIFICATION Spec
CONSTANTS
    Struct = {g, k}
    Rev = {r1}
    Killer = {k}
    Broken = {k}
    None = None
    Keep = Keep
    Half = Half
    Exited = Exited
    MAX_TRACKED = 2
    SYNC_FIRST_AFTER_DEATHS = 1
    QUARANTINE_AFTER_DEATHS = 2
    DeathCap = 2
    MaxEvents = 3
INVARIANT NeverFalseOk
