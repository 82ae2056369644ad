SPECIFICATION Spec
CONSTANTS
    Messages <- AllLengths
    Max7 = 2
    Base = 2
    UsizeBytes = 8
    WordBytes = 8
    Addresses = {0, 3}
    BlockWidths = {0, 16}
    FrameSize = 22
    LimitValues = {21, 22, 30}
    Slots = 3
    MaxMessages = 2
INVARIANTS
    WireIsPrefix
    PendingIsExact
    OfferIsNext
    RejectsOnlyTooLong
PROPERTIES
    ImplementsChannel
CHECK_DEADLOCK FALSE
