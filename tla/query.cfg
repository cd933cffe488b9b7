SPECIFICATION FairRingQuerySpec
CONSTANTS
    u1 = u1
    u2 = u2
    u3 = u3
    NBITS = 2
    NSUCCLIST = 3
    Nodes = {0, 1, 2}
    Users <- ThreeUsers
    Hash <- HashThree
    Founders = {0}
    StartFrom = {"Inited"}
    RegisterFrom = {"Normal"}
    Lossy = FALSE
    Calm = TRUE
    MaxStarts = 0
    MaxLeaves = 0
    MaxCrashes = 1
    MaxBoots = 1
    MaxRegisters = 1
    MaxRounds = 1
    MaxPending = 1
    MaxBacklog = 0
    Askers = {1}
    MaxCalls = 1
    MaxPrompts = 1
    PipeSize = 1
    Nothing = Nothing
    Torn = Torn
    NotFound = NotFound
INVARIANTS
    OneAnswerPerQuestion
    ContactsAsked
PROPERTIES
    LookupRefined
    CallsReturn
    QuestionsEnd
CHECK_DEADLOCK FALSE
