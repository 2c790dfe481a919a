SPECIFICATION Spec
CONSTANTS
    Key = {k1}
    NoKey = NoKey
    MaxOps = 2
    MaxTxns = 2
    MaxTxnOps = 2
    MaxInst = 1
    MaxLoad = 4
    MAX_OP_ATTEMPTS = 2
    OpsBatch = 2
    AcksBatch = 2
    Written = {k1}
    Pausable = {}
    Overlap = TRUE
INVARIANT SupersededDelivers
