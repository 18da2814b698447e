SPECIFICATION FairSpec
CONSTANTS
    Workers = {w1, w2}
    FLOOR = 1
    RATIO_NUM = 1
    RATIO_DEN = 2
    MaxAttempts = 8
    Prefixes = 4
    Width = 2
    RangeCount = 2
    Plates = {1, 2, 4, 5}
    PageSize = 2
    ToleranceFloor = 0
    ToleranceDivisor = 2000
    MaxChanges = 1
    MaxFaults = 2
INVARIANTS
    NoDuplicateRows
    CompleteOnSuccess
    MismatchMeansChange
    SummaryTruthful
    ErrorsSurface
    SoleOwnerAtReturn
    NoMissedAbort
    FloorTolerated
PROPERTIES
    Terminates
CHECK_DEADLOCK FALSE
