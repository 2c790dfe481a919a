SPECIFICATION Spec
CONSTANTS
    Struct = {g, k}
    Rev = {r1, r2}
    Killer = {k}
    Broken = {}
    None = None
    Keep = Keep
    Half = Half
    Exited = Exited
    MAX_TRACKED = 2
    SYNC_FIRST_AFTER_DEATHS = 1
    QUARANTINE_AFTER_DEATHS = 2
    DeathCap = 2
    MaxEvents = 1
PROPERTY RecordChangeKeepsQuarantine
