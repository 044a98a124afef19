SPECIFICATION Spec
CONSTANTS
    x = x
    y = y
    z = z
    v1 = v1
    v2 = v2
    Null = Null
    Object = Object
    NotCached = NotCached
    Key = {x, y, z}
    Leaf = {v1, v2}
    Path <- Tree
    MaxDepth = 2
    Json <- Values
INVARIANTS
    TypeOK
    HashFresh
PROPERTIES
    ImplementsDocument
