SPECIFICATION Spec
CONSTANTS
    Key = {"x", "y"}
    Path <- Pair
    Refusable = {}
    Addr = {a1, a2, a3}
    NoAddr = NoAddr
    MemoryReuse = FALSE
    MaxRef = 1
    MaxWire = 5
    MaxDrops = 0
INVARIANTS
    WatchedIsServed
CHECK_DEADLOCK FALSE
