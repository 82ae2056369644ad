SPECIFICATION FairSpec
CONSTANTS
    Tasks = {t1, t2}
    NoTask = NoTask
    Readers = {t1}
    Senders = {t2}
    Closers = {}
    PeerFrames <- Pings
    Messages <- Short
    FrameSize = 2
    FlushThreshold = 3
    LimitValues = {2}
    IoRoom = 1
    BufferedIo = FALSE
    Faults = {}
    MaxIn = 1
    MaxOut = 2
PROPERTIES
    QueuedIsWritten
CHECK_DEADLOCK FALSE
