SPECIFICATION Spec
CONSTANTS
    x = x
    y = y
    z = z
    v1 = v1
    v2 = v2
    Null = Null
    Object = Object
    NotCached = NotCached
    NoHandle = NoHandle
    Never = Never
    Key = {x, y, z}
    Leaf = {v1, v2}
    Path <- Tree
    MaxDepth = 2
    Json <- Values
    SubPath <- Subscribed
    Handle = {h1, h2}
    Cancels = {"value"}
SYMMETRY Symmetry
INVARIANTS
    TypeOK
    SeenIsCurrent
    KnownChildExists
    RefsMatchCallbacks
