SPECIFICATION FairSpec
CONSTANT
    MaxInputs = 3
INVARIANTS
    DeletesSafe
    HandlerStateKept
PROPERTIES
    LifeCycle
    DiscoveryEnds
    DeletionEnds
CHECK_DEADLOCK FALSE
