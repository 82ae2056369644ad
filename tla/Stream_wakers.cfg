SPECIFICATION FairSpec
CONSTANTS
    Tasks = {t1, t2}
    NoTask = NoTask
    Readers = {t1}
    Senders = {t2}
    Closers = {}
    PeerFrames <- Pings
    Messages <- Short
    FrameSize = 2
    FlushThreshold = 20
    LimitValues = {2}
    IoRoom = 2
    BufferedIo = TRUE
    Faults = {}
    MaxIn = 2
    MaxOut = 2
PROPERTIES
    FlushEnds
    QueuedIsWritten
CHECK_DEADLOCK FALSE
