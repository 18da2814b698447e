SPECIFICATION Spec
CONSTANTS
    Reqs = {r1, r2, r3}
    Keys = {k1, k2}
    NoEntry = NoEntry
    DAY_LIMIT = 1
    WEEK_LIMIT = 2
    SECONDS_PER_DAY = 1
    FirstClock = 3
    MaxClock = 4
    PromptChecks = TRUE
INVARIANTS
    RefusedIsFree
CHECK_DEADLOCK FALSE
