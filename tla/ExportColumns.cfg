SPECIFICATION FairSpec
CONSTANTS
    Unparsable = Unparsable
    NoField = NoField
    NoName = NoName
    Environments <- MCEnvironments
    Schemas <- MCSchemas
    Vehicles <- MCVehicles
INVARIANTS
    HeaderIsCurated
    CellsUnderTheirHeader
PROPERTIES
    StartsUsable
