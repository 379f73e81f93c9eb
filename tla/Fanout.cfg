CONSTANTS
    NItems = 4
    Workers = {w1, w2, w3}
    MayAbort = TRUE
    MayCancel = TRUE
SPECIFICATION Spec
CHECK_DEADLOCK FALSE
INVARIANTS
    NoItemLost
PROPERTIES
    ReturnsOnceSent
