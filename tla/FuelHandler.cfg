SPECIFICATION FairSpec
CONSTANTS
    Reqs = {r1, r2}
    Keys = {k1, k2}
    NoEntry = NoEntry
    DAY_LIMIT = 1
    WEEK_LIMIT = 1
    SECONDS_PER_DAY = 2
    FirstClock = 7
    MaxClock = 10
    PromptChecks = TRUE
INVARIANTS
    QuotaBalanced
    PermitConserved
    RetryAfterTight
PROPERTIES
    ImplementsLimiter
    EveryRequestAnswered
CHECK_DEADLOCK FALSE
