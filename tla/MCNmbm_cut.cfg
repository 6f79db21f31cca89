SPECIFICATION FairSpec
CONSTANTS
    BlockCount = 12
    MgmtStart = 2
    Scenarios <- CutScenarios
    Pages = 2
    Retries = 2
INVARIANTS
    TypeOK
    NoSharingUnlessHole
    TablesMissData
    DataKept
    Layout
PROPERTIES
    Recovers
    DriverReturns
CHECK_DEADLOCK FALSE
