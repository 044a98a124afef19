SPECIFICATION FairSpec
CONSTANTS
    Slots = 2
    Slash = Slash
    Requested = {"LISTEN"}
    Args <- OneArg
    Incoming <- Samples
    MaxReq = 3
    MaxTime = 2
    Base = 2
    TimeDigits = 2
    RandDigits = 2
    HighMod = 2
    LowMod = 2
CHECK_DEADLOCK FALSE
INVARIANTS
    TableMatchesWire
    CodesAgree
    FreedIsAllocated
PROPERTIES
    ImplementsBook
    AnswersArrive
    PushAscends
