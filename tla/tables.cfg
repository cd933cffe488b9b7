SPECIFICATION Spec
CONSTANTS
    NBITS = 3
    NSUCCLIST = 3
    Locals = {0, 5}
    Others = {1, 3, 6}
INVARIANTS
    SetFingersAsCoded
    ClosestAsCoded
    FingersGetNearer
    InactiveFingersAsCoded
    InactiveListAsCoded
    ContactsAsCoded
CHECK_DEADLOCK FALSE
