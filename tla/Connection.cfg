SPECIFICATION FairSpec
CONSTANTS
    LongMessages = TRUE
INVARIANTS
    TypeOK
    SocketMatchesState
    WritesHitOpenSocket
    KeepaliveTracksSocket
PROPERTIES
    KeepaliveArmedOnce
    ImplementsLifecycle
    CloseCompletes
    EventuallyConnected
