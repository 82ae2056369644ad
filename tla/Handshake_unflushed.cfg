SPECIFICATION FairSpec
CONSTANTS
    Uris = {"ws"}
    Keys = {"k1"}
    ClientAdds = {}
    ServerAdds = {}
    MaxRequestHeaders = 6
    MaxResponseHeaders = 4
    HoldsBack = TRUE
    Foreign = {{}}
    ForeignMessages = {}
    MayDrop = FALSE
PROPERTIES
    ConnectEnds
CHECK_DEADLOCK FALSE
