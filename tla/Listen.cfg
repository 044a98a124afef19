SPECIFICATION FairSpec
CONSTANTS
    Key = {"x", "y"}
    Path <- Chain
    Refusable <- Root
    Addr = {a1, a2, a3}
    NoAddr = NoAddr
    MemoryReuse = TRUE
    MaxRef = 2
    MaxWire = 2
    MaxDrops = 1
INVARIANTS
    TypeOK
    ResubscribedWhenUp
    SuspendedWhenDown
    PendingIsOutstanding
    MaskedHasMasker
    UnwatchedIsUnlistened
PROPERTIES
    WatchSettles
