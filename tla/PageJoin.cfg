SPECIFICATION FairSpec
CONSTANTS
    Plates = {1, 2, 3, 4, 5}
    NoPlate = NoPlate
    VolgnummerLists <- MCVolgnummerLists
    Strays <- MCStrays
    VehiclePages <- MCVehiclePages
    MAX_FUEL_ENTRIES = 2
    BatchSize = 2
    Concurrency = 2
    FuelPageLimit = 5
    MaxStrays = 1
INVARIANTS
    JoinIsExact
    FailsExactlyOnBadInput
    UnavailableForAReason
PROPERTIES
    PageEnds
CHECK_DEADLOCK FALSE
