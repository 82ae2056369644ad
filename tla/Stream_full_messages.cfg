SPECIFICATION Spec
CONSTANTS
    Tasks = {t1}
    NoTask = NoTask
    Readers = {t1}
    Senders = {}
    Closers = {}
    PeerFrames <- Fragments
    Messages = {}
    FrameSize = 2
    FlushThreshold = 3
    LimitValues = {2}
    IoRoom = 3
    BufferedIo = FALSE
    Faults = {}
    MaxIn = 4
    MaxOut = 2
INVARIANTS
    DeliveredIsWhole
CHECK_DEADLOCK FALSE
