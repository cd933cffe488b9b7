SPECIFICATION FairRingStartSpec
CONSTANTS
    u1 = u1
    u2 = u2
    NBITS = 2
    NSUCCLIST = 3
    Nodes = {0, 1, 2, 3}
    Users <- TwoUsers
    Hash <- HashTwo
    Founders = {0}
    StartFrom = {"Inited"}
    RegisterFrom = {"Normal"}
    Lossy = FALSE
    Calm = TRUE
    MaxStarts = 2
    MaxLeaves = 1
    MaxCrashes = 0
    MaxBoots = 0
    MaxRegisters = 2
    MaxRounds = 0
    MaxPending = 1
    MaxBacklog = 3
INVARIANTS
    Connected
    Covered
    SuccessorKnown
    NoFault
    RecordsHeld
PROPERTIES
    LivePredecessorKept
    LiveSuccessorKept
    StartsFinish
    RecordsReachOwner
    RingForms
