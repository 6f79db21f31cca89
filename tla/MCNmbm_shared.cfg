SPECIFICATION Spec
CONSTANTS
    BlockCount = 12
    MgmtStart = 2
    Scenarios <- SharedScenarios
    Pages = 2
    Retries = 2
INVARIANT NoSharing
CHECK_DEADLOCK FALSE
