SPECIFICATION FairSpec
CONSTANTS
    Process = {p1, p2}
    Former = {e1, e2}
    None = None
    DISPLACED_KEEP = 2
    OWNER_GONE_AFTER = 2
    SEEN_REFRESH = 1
    PollEvery = 1
    MaxRotations = 1
INVARIANTS
    TypeOK
    Remembered
PROPERTIES
    OwnerKeeps
    OneIsServed
