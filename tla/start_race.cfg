SPECIFICATION FairSpec
CONSTANT
    MaxInputs = 1
PROPERTY
    NoDiscoveryStuck
CHECK_DEADLOCK FALSE
