SPECIFICATION connFairSpec
CONSTANTS
    Uris = {"none", "no host", "http", "ws", "wss"}
    Keys = {"k1"}
    ClientAdds = {"x-a", "sec-websocket-key"}
    ServerAdds = {"x-a", "x-b", "sec-websocket-accept"}
    MaxRequestHeaders = 5
    MaxResponseHeaders = 4
    HoldsBack = FALSE
    Foreign <- OneOrNone
    ForeignMessages <- OtherMessages
    MayDrop = TRUE
    Sends <- SomeSends
    Limited = {"client", "server"}
    ForeignFrames <- OtherFrames
    NetRoom = 1
    MaxQueued = 2
INVARIANTS
    LeftoverReachesStream
    NoHalfOpen
    HandshakeSucceeds
    OrderlyCloseLosesNothing
    CloseIsClean
    CloseCodesAreLegal
PROPERTIES
    ConnectEnds
    AcceptEnds
    CloseReturns
CHECK_DEADLOCK FALSE
