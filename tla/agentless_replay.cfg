SPECIFICATION Spec
CONSTANTS
    Writer = {d1}
    Sweeper = {d1}
    None = None
    MaxOps = 2
    MaxTxnOps = 1
    Signal = {}
    MAX_OP_ATTEMPTS = 2
    MaxMishaps = 0
INVARIANT SettledIsNewest
