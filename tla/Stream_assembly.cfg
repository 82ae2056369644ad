SPECIFICATION ClosingSpec
CONSTANTS
    Tasks = {t1}
    NoTask = NoTask
    Readers = {t1}
    Senders = {}
    Closers = {t1}
    PeerFrames <- AllFrames
    Messages = {}
    FrameSize = 2
    FlushThreshold = 3
    LimitValues = {2, 3}
    IoRoom = 2
    BufferedIo = FALSE
    Faults = {"limits", "eof", "reset"}
    MaxIn = 3
    MaxOut = 1
INVARIANTS
    DecoderErrorIsFinal
    DeliveredIsLegal
    PartialIsComplete
PROPERTIES
    CloseEnds
CHECK_DEADLOCK FALSE
