SPECIFICATION FairSpec
CONSTANTS
    Writer = {a}
    Sweeper = {c}
    None = None
    MaxOps = 2
    MaxTxnOps = 1
    Signal = {}
    MAX_OP_ATTEMPTS = 2
    MaxMishaps = 1
INVARIANTS
    TypeOK
    LeaseExclusive
    BudgetHonest
    AppliedIsTrue
    ZoneFirst
PROPERTIES
    Settles
    ZoneReaches
