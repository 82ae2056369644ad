SPECIFICATION Spec
CONSTANTS
    Tasks = {t1, t2}
    NoTask = NoTask
    Readers = {t1}
    Senders = {t2}
    Closers = {t2}
    PeerFrames <- CloseKinds
    Messages <- ShortLongClose
    FrameSize = 2
    FlushThreshold = 3
    LimitValues = {2}
    IoRoom = 3
    BufferedIo = TRUE
    Faults = {"eof", "midframe", "reset", "cancel"}
    MaxIn = 2
    MaxOut = 2
INVARIANTS
    TypeOK
    NothingAfterClose
    OutgoingWellFormed
    AcknowledgedIsWritten
    ShutdownAfterFlush
PROPERTIES
    StateMovesForward
    ImplementsEndpoint
CHECK_DEADLOCK FALSE
