SPECIFICATION Spec
CONSTANTS
    PeerFrames <- AllFrames
    Server = TRUE
    Max7 = 2
    Max16 = 4
    MaxPayloadLen = 10
    Addresses = {1, 6}
    BlockWidths = {0, 8}
    WordBytes = 4
    MaxFrames = 3
INVARIANTS
    TextIsValid
    Utf8ErrorIsReal
    PayloadIsPlain
    ProcessedIsInBuffer
CHECK_DEADLOCK FALSE
