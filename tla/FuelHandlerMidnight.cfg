SPECIFICATION Spec
CONSTANTS
    Reqs = {r1, r2, r3}
    Keys = {k1}
    NoEntry = NoEntry
    DAY_LIMIT = 1
    WEEK_LIMIT = 3
    SECONDS_PER_DAY = 1
    FirstClock = 3
    MaxClock = 4
    PromptChecks = FALSE
INVARIANTS
    UsableWithinLimits
CHECK_DEADLOCK FALSE
