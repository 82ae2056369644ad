SPECIFICATION FairSpec
CONSTANTS
    Tasks = {t1, t2}
    NoTask = NoTask
    Readers = {t1}
    Senders = {t2}
    Closers = {}
    PeerFrames <- PingsAndClose
    Messages <- Short
    FrameSize = 2
    FlushThreshold = 3
    LimitValues = {2}
    IoRoom = 1
    BufferedIo = FALSE
    Faults = {}
    MaxIn = 1
    MaxOut = 1
PROPERTIES
    FlushEnds
CHECK_DEADLOCK FALSE
