SPECIFICATION Spec
CONSTANTS
    PeerFrames <- EmptyEnd
    Server = TRUE
    Max7 = 2
    Max16 = 4
    MaxPayloadLen = 10
    Addresses = {1, 6}
    BlockWidths = {0, 8}
    WordBytes = 4
    MaxFrames = 2
INVARIANTS
    TextIsValid
CHECK_DEADLOCK FALSE
