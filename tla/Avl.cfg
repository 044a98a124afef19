SPECIFICATION Spec
CONSTANTS
    NotInt = NotInt
    IntHalf = 8
    Slash = Slash
    MaxDepth = 2
    KeySet <- Keys
    PathSet <- Paths
    Nil = Nil
    Lowest = Lowest
    Highest = Highest
    Key <- Paths
    cmp <- path_order
INVARIANTS
    HeightsAndOrder
    PrevIsRight
    SubtreesAreRuns
PROPERTIES
    ImplementsOrderedSet
