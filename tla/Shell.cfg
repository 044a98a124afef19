SPECIFICATION FairSpec
CONSTANTS
    Script <- Scripts
    DataPath <- Paths
    Datum <- Data
    NoDatum <- Nothing
    Boolean <- Booleans
    Int32 <- Narrowed
    File <- Files
    NoWait = NoWait
    Number <- Numbers
    MaxDrops = 2
    MaxSets = 3
INVARIANTS
    RunsInOrder
    NoLostWakeup
PROPERTIES
    NothingWhileWaiting
    ScriptEnds
CHECK_DEADLOCK FALSE
