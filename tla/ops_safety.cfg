SPECIFICATION Spec
CONSTANTS
    Key = {k1}
    NoKey = NoKey
    MaxOps = 2
    MaxTxns = 2
    MaxTxnOps = 2
    MaxInst = 2
    MaxLoad = 4
    MAX_OP_ATTEMPTS = 2
    OpsBatch = 2
    AcksBatch = 2
    Written = {k1}
    Pausable = {1}
    Overlap = FALSE
INVARIANTS
    TypeOK
    BudgetHonest
    SupersedeChain
    SupersededDelivers
    NewestWins
PROPERTIES
    OnlyOwnVerdict
    NoRollback
