SPECIFICATION Spec
CONSTANTS
    Keys = {k1}
    Reqs = {r1, r2, r3, r4}
    NoEntry = NoEntry
    DAY_LIMIT = 2
    WEEK_LIMIT = 3
    SECONDS_PER_DAY = 1
    MaxLag = 0
    MaxClock = 13
SYMMETRY ReqSymmetry
INVARIANTS
    TypeOK
    LedgerExact
    WithinLimits
    EvictionForgetsNothing
PROPERTIES
    ImplementsLedger
