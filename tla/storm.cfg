SPECIFICATION StormSpec
CONSTANTS
    u1 = u1
    u2 = u2
    NBITS = 2
    NSUCCLIST = 3
    Nodes = {0, 1, 2}
    Users <- TwoUsers
    Hash <- HashSame
    Founders = {0}
    StartFrom = {"Inited", "Closed"}
    RegisterFrom = {"Normal"}
    Lossy = TRUE
    Calm = FALSE
    MaxStarts = 1
    MaxLeaves = 1
    MaxCrashes = 1
    MaxBoots = 1
    MaxRegisters = 0
    MaxRounds = 1
    MaxPending = 1
    MaxBacklog = 2
INVARIANTS
    TypeOK
    PredecessorKnown
    JoinNeverRedirected
    AnswersNearer
PROPERTY NodeLifeCycle
CHECK_DEADLOCK FALSE
