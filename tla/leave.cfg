SPECIFICATION RingSpec
CONSTANTS
    u1 = u1
    u2 = u2
    NBITS = 2
    NSUCCLIST = 3
    Nodes = {0, 1, 2}
    Users <- OneUser
    Hash <- HashOne
    Founders = {0}
    StartFrom = {"Inited"}
    RegisterFrom = {"Normal"}
    Lossy = FALSE
    Calm = FALSE
    MaxStarts = 0
    MaxLeaves = 1
    MaxCrashes = 0
    MaxBoots = 0
    MaxRegisters = 1
    MaxRounds = 0
    MaxPending = 1
    MaxBacklog = 3
PROPERTIES
    NullNeverUsed
    LivePredecessorKept
    LiveSuccessorKept
