SPECIFICATION Spec
CONSTANTS
    LongMessages = TRUE
INVARIANTS
    HandshakeHeard
