SPECIFICATION FairRingSpec
CONSTANTS
    u1 = u1
    u2 = u2
    NBITS = 2
    NSUCCLIST = 3
    Nodes = {0, 1, 2, 3}
    Users <- OneUser
    Hash <- HashOne
    Founders = {0}
    StartFrom = {"Inited"}
    RegisterFrom = {"Normal"}
    Lossy = FALSE
    Calm = FALSE
    MaxStarts = 0
    MaxLeaves = 0
    MaxCrashes = 1
    MaxBoots = 0
    MaxRegisters = 0
    MaxRounds = 0
    MaxPending = 1
    MaxBacklog = 3
INVARIANTS
    Connected
    SuccessorKnown
    RecordsSurvive
PROPERTIES
    RecordsRecovered
    RingForms
