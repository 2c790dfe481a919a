SPECIFICATION FairSpec
CONSTANTS
    Struct = {g, k, x}
    Rev = {r1}
    Killer = {k}
    Broken = {x}
    None = None
    Keep = Keep
    Half = Half
    Exited = Exited
    MAX_TRACKED = 2
    SYNC_FIRST_AFTER_DEATHS = 1
    QUARANTINE_AFTER_DEATHS = 2
    DeathCap = 2
    MaxEvents = 2
INVARIANTS
    TypeOK
    CondemnedWaits
PROPERTIES
    OkIsLive
    
    NotDark
