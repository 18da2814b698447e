SPECIFICATION FairSpec
CONSTANTS
    Plates = {1, 2, 3, 4, 5}
    Limits = {0, 1, 2, 3, 6}
    VEHICLE_PAGE_LIMIT = 2
    FLOOR = 1
    RATIO_NUM = 2
    RATIO_DEN = 3
    MaxChanges = 1
INVARIANTS
    FirstVehicles
    SummaryTruthful
    ThresholdIsExact
PROPERTIES
    Terminates
CHECK_DEADLOCK FALSE
