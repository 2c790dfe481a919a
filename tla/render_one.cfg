SPECIFICATION FairSpec
CONSTANTS
    Server = {s1}
    Big = {s1}
    Known = {}
    Worker = {w1, w2}
    Slot = {k1}
    Token = {t1, t2}
    None = None
    Faults = {"kill", "abort", "stall", "lose", "fail", "noredis", "redeliver"}
    Alone = {"noredis", "redeliver"}
    MaxFaults = 2
    ABANDONED_RENDER_LIMIT = 1
    MAX_RENDER_DELIVERIES = 2
INVARIANTS
    TypeOK
    OneRenderPerServer
    SlotsRespected
    KillsPaced
PROPERTY
    EventuallyRendered
