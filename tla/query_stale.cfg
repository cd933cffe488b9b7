SPECIFICATION RingQuerySpec
CONSTANTS
    u1 = u1
    u2 = u2
    u3 = u3
    NBITS = 2
    NSUCCLIST = 3
    Nodes = {0, 1, 2}
    Users <- ThreeUsers
    Hash <- HashThree
    Founders = {0}
    StartFrom = {"Inited"}
    RegisterFrom = {"Normal"}
    Lossy = FALSE
    Calm = TRUE
    MaxStarts = 0
    MaxLeaves = 0
    MaxCrashes = 0
    MaxBoots = 0
    MaxRegisters = 0
    MaxRounds = 1
    MaxPending = 1
    MaxBacklog = 0
    Askers = {1}
    MaxCalls = 2
    MaxPrompts = 0
    PipeSize = 1
    Nothing = Nothing
    Torn = Torn
    NotFound = NotFound
PROPERTY AnswersTheQuestion
CHECK_DEADLOCK FALSE
