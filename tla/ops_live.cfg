SPECIFICATION FairSpec
CONSTANTS
    Key = {k1}
    NoKey = NoKey
    MaxOps = 2
    MaxTxns = 2
    MaxTxnOps = 1
    MaxInst = 2
    MaxLoad = 3
    MAX_OP_ATTEMPTS = 2
    OpsBatch = 2
    AcksBatch = 2
    Written = {k1}
    Pausable = {}
    Overlap = FALSE
PROPERTIES
    EveryOpSettles
    EventuallyServed
