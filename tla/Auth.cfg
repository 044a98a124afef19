SPECIFICATION FairSpec
CONSTANTS
    Socket = {s1, s2}
    NoSocket = NoSocket
    Content = {{}, {"token"}, {"token", "user"}, {"success_false"}, {"success_false", "token"}}
    MaxPieces = 3
    MaxSteps = 10
CHECK_DEADLOCK FALSE
INVARIANTS
    ReplyIsTrue
    CleanedOnce
    LoopMatchesCurl
PROPERTIES
    TransferEnds
